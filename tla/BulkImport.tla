------------------------------ MODULE BulkImport ------------------------------
(***************************************************************************)
(* The scripts that load an archive of returns into the database: the      *)
(* migration from erev, the import of the upload templates and the import  *)
(* of bank filings, the last one with or without IMPORT_BATCH              *)
(* (src/backend/scripts).  One skeleton: resolve the providers, make one   *)
(* submission per provider and period in turn, write the rows a batch at a *)
(* time with the rows of a batch side by side, then count.  An operator    *)
(* runs it, it may be cut off anywhere, and is run again.                  *)
(***************************************************************************)
EXTENDS Naturals, Sequences, FiniteSets

CONSTANTS
    Row,        \* the rows of the file: numbers, in their order
    Opened,     \* the rows that list a new account and carry no money
    Pair,       \* a provider and a reporting period
    Kinds,      \* what a row can be recognised by; every row that has one has the same
    Batch,      \* rows written side by side
    MaxRuns,    \* bound: runs of the script
    MaxSpoils   \* bound: rows whose write fails

ImportAssumption ==
    /\ Row \subseteq Nat \ {0} /\ IsFiniteSet(Row) /\ Opened \subseteq Row
    /\ Kinds \subseteq {"bvn", "tin", "nin"}
    /\ Batch \in Nat \ {0} /\ {MaxRuns, MaxSpoils} \subseteq Nat

VARIABLES
    script,    \* erev, templates, filings, or tagged: filings with IMPORT_BATCH
    file,      \* its rows: [pair, ids]
    known,     \* every provider of the file is in the table
    subs,      \* data_submissions, oldest first: [pair, count, accepted]
    records,   \* data_records: [n, row, sub, owner, tagged]; row 0 is of another import
    people,    \* taxpayers, oldest first: the identifiers each is indexed by
    job,       \* the run: where it is, its submissions, and how far each row has come
    runs,
    spoils

bvars == <<script, file, known, subs, records, people, job, runs, spoils>>
db == <<subs, records, people>>

Idle == [at |-> "idle", subOf |-> [p \in Pair |-> 0], from |-> 1,
         pc |-> [r \in Row |-> "wait"], owner |-> [r \in Row |-> 0]]

Archive == [n |-> 0, row |-> 0, sub |-> 1, owner |-> 0, tagged |-> FALSE]

Init ==
    /\ script \in {"erev", "templates", "filings", "tagged"}
    /\ file \in [Row -> [pair : Pair, ids : SUBSET Kinds]]
    /\ known \in BOOLEAN
    /\ \E p \in Pair : subs = <<[pair |-> p, count |-> 1, accepted |-> 1]>>
    /\ records = {Archive} /\ people = <<>>
    /\ job = Idle /\ runs = 0 /\ spoils = 0

----------------------------------------------------------------------------
RowsOf(s) == {x \in records : x.sub = s}

\* The wanted pair that has no submission in the cache, of the earliest row.
Wanted == {r \in Row : job.subOf[file[r].pair] = 0}
First(S) == CHOOSE r \in S : \A s \in S : r <= s
OldestOf(p) == {s \in DOMAIN subs : subs[s].pair = p}

\* Who carries an identifier, and who is found by a row's, in the order asked.
Holder(k) == {t \in DOMAIN people : k \in people[t]}
FoundBy(ids, order) ==
    LET hits == {i \in DOMAIN order : order[i] \in ids /\ Holder(order[i]) # {}}
    IN IF hits = {} THEN 0 ELSE First(Holder(order[First(hits)]))

AllKinds == <<"bvn", "tin", "nin">>
Fallback == IF script \in {"erev", "templates"} THEN <<"bvn", "tin">> ELSE AllKinds

InBatch(r) == job.at = "rows" /\ r \in job.from..(job.from + Batch - 1)
Settled(r) == job.pc[r] \in {"done", "skipped"}

----------------------------------------------------------------------------
\* Pass 1: a provider that is not found stops the import before it writes; the
\* migration creates the providers it does not find.
Resolves == known \/ script = "erev"
Start ==
    /\ job.at \in {"idle", "done"} /\ runs < MaxRuns /\ runs' = runs + 1
    /\ Resolves
    /\ known' = TRUE
    /\ job' = [Idle EXCEPT !.at = "open"]
    /\ UNCHANGED <<script, file, db, spoils>>

\* getSubmission, one pair after another: the oldest of the period, or a new one.
Open ==
    /\ job.at = "open" /\ Wanted # {}
    /\ LET p == file[First(Wanted)].pair
       IN IF OldestOf(p) # {}
          THEN subs' = subs /\ job' = [job EXCEPT !.subOf[p] = First(OldestOf(p))]
          ELSE /\ subs' = Append(subs, [pair |-> p, count |-> 0, accepted |-> 0])
               /\ job' = [job EXCEPT !.subOf[p] = Len(subs')]
    /\ UNCHANGED <<script, file, known, records, people, runs, spoils>>

\* Mutant: every row of the affected submissions goes.
StaleAny(x) == x.sub \in {job.subOf[p] : p \in Pair}

\* The batch's own rows of an earlier run go, and only those.
Stale(x) == x.tagged /\ x.sub \in {job.subOf[p] : p \in Pair}

Clear ==
    /\ job.at = "open" /\ Wanted = {}
    /\ job' = [job EXCEPT !.at = "rows"]
    /\ records' = IF script = "tagged" THEN {x \in records : ~Stale(x)} ELSE records
    /\ UNCHANGED <<script, file, known, subs, people, runs, spoils>>

----------------------------------------------------------------------------
(* The rows of a batch, side by side: Promise.all.                          *)

\* findOrCreateTaxpayer: by BVN, then TIN, then NIN.
Look(r) ==
    /\ InBatch(r) /\ job.pc[r] = "wait"
    /\ LET t == FoundBy(file[r].ids, AllKinds)
       IN job' = [job EXCEPT !.pc[r] = IF t = 0 THEN "create" ELSE "write", !.owner[r] = t]
    /\ UNCHANGED <<script, file, known, db, runs, spoils>>

\* The insert: two taxpayers never share an index, and the row that comes
\* second looks again, in the migration and the templates not by NIN.
Make(r) ==
    /\ InBatch(r) /\ job.pc[r] = "create"
    /\ IF \E k \in file[r].ids : Holder(k) # {}
       THEN people' = people /\ job' = [job EXCEPT !.pc[r] = "write", !.owner[r] = FoundBy(file[r].ids, Fallback)]
       ELSE /\ people' = Append(people, file[r].ids)
            /\ job' = [job EXCEPT !.pc[r] = "write", !.owner[r] = Len(people')]
    /\ UNCHANGED <<script, file, known, subs, records, runs, spoils>>

Write(r) ==
    /\ InBatch(r) /\ job.pc[r] = "write"
    /\ records' = records \cup {[n |-> runs, row |-> r, sub |-> job.subOf[file[r].pair],
                                 owner |-> job.owner[r], tagged |-> script = "tagged"]}
    /\ job' = [job EXCEPT !.pc[r] = "done"]
    /\ UNCHANGED <<script, file, known, subs, people, runs, spoils>>

\* A call of the row fails: it is reported and skipped, the others go on.
Spoil(r) ==
    /\ InBatch(r) /\ ~Settled(r) /\ spoils < MaxSpoils /\ spoils' = spoils + 1
    /\ job' = [job EXCEPT !.pc[r] = "skipped"]
    /\ UNCHANGED <<script, file, known, db, runs>>

Flush ==
    /\ job.at = "rows" /\ \A r \in Row : InBatch(r) => Settled(r)
    /\ job' = IF \E r \in Row : r >= job.from + Batch THEN [job EXCEPT !.from = @ + Batch]
              ELSE [job EXCEPT !.at = "count"]
    /\ UNCHANGED <<script, file, known, db, runs, spoils>>

\* The counters of every submission of the run; the filings accept only the
\* rows that are marked as transactions.
Money(x) == x.row \in Row \ Opened
Accepted(s) == IF script \in {"filings", "tagged"} THEN {x \in RowsOf(s) : Money(x)} ELSE RowsOf(s)
Tallied(s) == [subs[s] EXCEPT !.count = Cardinality(RowsOf(s)), !.accepted = Cardinality(Accepted(s))]

Count ==
    /\ job.at = "count"
    /\ \E p \in {q \in Pair : job.subOf[q] # 0} :
          /\ subs' = [subs EXCEPT ![job.subOf[p]] = Tallied(job.subOf[p])]
          /\ job' = [job EXCEPT !.subOf[p] = 0,
                                !.at = IF \A q \in Pair \ {p} : job.subOf[q] = 0 THEN "done" ELSE "count"]
    /\ UNCHANGED <<script, file, known, records, people, runs, spoils>>

\* The process ends, whatever it was doing.
Crash ==
    /\ job.at \notin {"idle", "done"} /\ job' = Idle
    /\ UNCHANGED <<script, file, known, db, runs, spoils>>

Step == Open \/ Clear \/ Flush \/ Count \/ \E r \in Row : Look(r) \/ Make(r) \/ Write(r) \/ Spoil(r)
Next == Start \/ Crash \/ Step

Spec == Init /\ [][Next]_bvars /\ WF_bvars(Step)

----------------------------------------------------------------------------
TypeOK ==
    /\ script \in {"erev", "templates", "filings", "tagged"} /\ known \in BOOLEAN
    /\ subs \in Seq([pair : Pair, count : Nat, accepted : Nat])
    /\ people \in Seq(SUBSET Kinds)
    /\ \A x \in records : x.sub \in DOMAIN subs /\ x.owner \in 0..Len(people)
    /\ job.at \in {"idle", "open", "rows", "count", "done"}
    /\ runs \in 0..MaxRuns /\ spoils \in 0..MaxSpoils

Done == job.at = "done"
Copies(r) == {x \in records : x.row = r}

\* However often the import is run and wherever it is cut off, a period of a
\* provider has one submission (the "358 duplicate uploads" of migrate-erev.ts).
OneUploadPerPeriod == \A s, t \in DOMAIN subs : subs[s].pair = subs[t].pair => s = t

\* A run with IMPORT_BATCH that ends leaves every row of the file once, but for
\* those whose write it reported as failed, and whatever earlier runs left.
RerunConverges ==
    Done /\ script = "tagged" =>
        \A r \in Row : Cardinality(Copies(r)) = IF job.pc[r] = "done" THEN 1 ELSE 0

\* Rows of another import survive, and with a provider unresolved nothing is written.
OthersRowsStay == Archive \in records
NothingUnlessResolved == ~known => records = {Archive} /\ Len(subs) = 1 /\ people = <<>>

\* When a run ends the counters are those of the rows there are, of this import
\* and of others, and no more are accepted than counted.
CountsAddUp ==
    Done => \A r \in Row : \A s \in DOMAIN subs : subs[s].pair = file[r].pair =>
                /\ subs[s].count = Cardinality(RowsOf(s))
                /\ subs[s].accepted <= subs[s].count

\* A row is linked to someone who carries one of its identifiers, however the
\* rows of a batch raced for the insert.  The migration and the templates, whose
\* second look leaves the NIN out, may leave a row that has one unlinked.
LinkedToItsOwner ==
    \A x \in records : x.row # 0 =>
        \/ x.owner # 0 /\ (file[x.row].ids \cap people[x.owner] # {} \/ file[x.row].ids = {})
        \/ x.owner = 0 /\ script \in {"erev", "templates"} /\ "nin" \in file[x.row].ids

----------------------------------------------------------------------------
(* What makes it so: the places of the run, ...                             *)
Jobs == [at : {"idle", "open", "rows", "count", "done"}, subOf : [Pair -> Nat], from : Nat,
         pc : [Row -> {"wait", "create", "write", "done", "skipped"}], owner : [Row -> Nat]]
Places ==
    /\ file \in [Row -> [pair : Pair, ids : SUBSET Kinds]] /\ job \in Jobs
    /\ Len(subs) # 0 /\ IsFiniteSet(records)
    /\ ~known => job.at = "idle"
    /\ job.at = "open" => \A r \in Row : job.pc[r] = "wait"

\* ... a run's submissions are those of its periods, all of them found before a
\* row is written,
SubOfPeriod ==
    /\ \A p \in Pair : job.subOf[p] # 0 =>
          job.subOf[p] \in DOMAIN subs /\ subs[job.subOf[p]].pair = p
    /\ job.at = "rows" => \A r \in Row : job.subOf[file[r].pair] # 0

\* ... a row of this import is in the submission of its period and carries the
\* tag when the script does,
RowsOfImport ==
    \A x \in records :
        /\ x.row = 0 => ~x.tagged
        /\ x.row # 0 => /\ x.row \in Row /\ subs[x.sub].pair = file[x.row].pair
                        /\ x.tagged = (script = "tagged")

\* ... what a run with the tag has written since it cleared is there once,
WrittenOnce ==
    script = "tagged" /\ job.at \in {"rows", "count", "done"} =>
        \A r \in Row : IF job.pc[r] = "done" THEN \E x \in records : Copies(r) = {x}
                       ELSE Copies(r) = {}

\* ... a submission of the file is counted or still to be counted,
Counted(s) == subs[s].count = Cardinality(RowsOf(s)) /\ subs[s].accepted <= subs[s].count
CountedOrWaiting ==
    job.at \in {"count", "done"} =>
        \A r \in Row, s \in DOMAIN subs : subs[s].pair = file[r].pair =>
            Counted(s) \/ (job.at = "count" /\ job.subOf[file[r].pair] = s)

\* ... and the owner found for a row is one it may be linked to.
MayOwn(r, o) ==
    \/ o \in DOMAIN people /\ (file[r].ids \cap people[o] # {} \/ file[r].ids = {})
    \/ o = 0 /\ script \in {"erev", "templates"} /\ "nin" \in file[r].ids
OwnersFound ==
    /\ \A r \in Row : job.pc[r] = "write" => MayOwn(r, job.owner[r])
    /\ \A x \in records : x.row # 0 => MayOwn(x.row, x.owner)

Kept == /\ TypeOK /\ Places /\ SubOfPeriod /\ RowsOfImport /\ WrittenOnce /\ CountedOrWaiting
        /\ OwnersFound /\ OneUploadPerPeriod /\ OthersRowsStay /\ NothingUnlessResolved
----------------------------------------------------------------------------

\* A run that is not cut off ends.
RunEnds == job.at \notin {"idle", "done"} ~> job.at \in {"idle", "done"}
=============================================================================
