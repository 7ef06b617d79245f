--------------------------- MODULE SubmissionFiling ---------------------------
(* How one data provider's return becomes a DataSubmission and its             *)
(* DataRecords: submissions.service.ts upload / ingestJson / processFile /      *)
(* processRows, and providers.service.ts grantResubmit.  Each request is a      *)
(* handler of its own; a step is what it does between two database awaits, so   *)
(* two requests in flight interleave exactly at the awaits.                     *)
(*                                                                              *)
(* A file is a record of the channel it came by, its reporting period, what     *)
(* its parsing and pre-validation make of it, and its rows: the sequence of     *)
(* <<period, account>> pairs they carry (NoAccount: no account number).         *)
EXTENDS Naturals, Sequences, FiniteSets, FiniteSetsExt

CONSTANTS
    Filers,       \* the requests that may arrive, one submission each at most
    Files,        \* the files they may carry
    Periods,      \* the reporting periods that have ended
    Accounts,     \* account blind indexes
    NoAccount,    \* a row that carries no account number
    Batch,        \* rows written per createMany
    MaxInFlight,  \* requests served at the same time
    MaxGrants,    \* bound on resubmit permissions
    MaxFailures,  \* bound on failing database calls
    MaxCrashes    \* bound on server restarts

Keys     == Periods \X (Accounts \cup {NoAccount})
Channels == {"provider", "staff", "json"}
\* unreadable: processFile throws; invalid: pre-validation finds an error.
Shapes   == {"unreadable", "invalid", "valid"}

\* What the constants must be; the instances checked assume it.
FilingAssumption ==
    /\ IsFiniteSet(Filers)
    /\ NoAccount \notin Accounts
    /\ Batch \in Nat \ {0}
    /\ {MaxInFlight, MaxGrants, MaxFailures, MaxCrashes} \subseteq Nat
    /\ Files \subseteq [channel : Channels, period : Periods, shape : Shapes,
                        rows : Seq(Keys)]
    /\ \A file \in Files : file.shape = "valid" => file.rows # <<>>
    /\ Files # {}

VARIABLES
    job,      \* per request: where its handler is, and its local variables
    sub,      \* per request: the DataSubmission it created, if any
    stored,   \* the DataRecords: <<request, row number>>
    grants,   \* the provider's ResubmitPermissions, in order of creation
    failures, crashes

vars == <<job, sub, stored, grants, failures, crashes>>

Steps    == {"prior", "grant", "consume", "create", "check", "load", "rows",
             "flush", "close", "fail"}
Ends     == {"refused", "done", "dead"}
Statuses == {"NONE", "VALIDATING", "ACCEPTED", "PARTIALLY_ACCEPTED", "REJECTED"}

Jobs == [pc : {"idle"} \cup Steps \cup Ends, file : Files, grant : Nat,
         seen : SUBSET Keys, next : Nat, rejected : Nat, batch : SUBSET Nat]
Submissions == [status : Statuses, period : Periods, channel : Channels,
                accepted : Nat, rejected : Nat, resubmitDue : BOOLEAN,
                fatal : BOOLEAN]

NewJob(file, pc) == [pc |-> pc, file |-> file, grant |-> 0, seen |-> {},
                     next |-> 1, rejected |-> 0, batch |-> {}]
NewSubmission(file, status) ==
    [status |-> status, period |-> file.period, channel |-> file.channel,
     accepted |-> 0, rejected |-> 0, resubmitDue |-> FALSE, fatal |-> FALSE]

TypeOK ==
    /\ job \in [Filers -> Jobs]
    /\ sub \in [Filers -> Submissions]
    /\ stored \subseteq Filers \X Nat
    /\ grants \in Seq([period : Periods, consumed : BOOLEAN])
    /\ failures \in Nat /\ crashes \in Nat

AnyFile == CHOOSE file \in Files : TRUE

Init ==
    /\ job = [f \in Filers |-> NewJob(AnyFile, "idle")]
    /\ sub = [f \in Filers |-> NewSubmission(AnyFile, "NONE")]
    /\ stored = {}
    /\ grants = <<>>
    /\ failures = 0 /\ crashes = 0

Active(f) == job[f].pc \in Steps
Goto(f, pc) == job' = [job EXCEPT ![f].pc = pc]
Filed(f) == sub[f].status # "NONE"
KeyOf(f, i) == job[f].file.rows[i]

-----------------------------------------------------------------------------
(* The request and the one-submission-per-period gate.                         *)

\* grantResubmit: a permission is created whatever was granted before.
GrantResubmit(p) ==
    /\ Len(grants) < MaxGrants
    /\ grants' = Append(grants, [period |-> p, consumed |-> FALSE])
    /\ UNCHANGED <<job, sub, stored, failures, crashes>>

\* Staff uploads and the JSON channel skip the gate.
Receive(f, file) ==
    /\ job[f].pc = "idle"
    /\ Cardinality({g \in Filers : Active(g)}) < MaxInFlight
    /\ job' = [job EXCEPT ![f] =
                  NewJob(file, IF file.channel = "provider" THEN "prior" ELSE "create")]
    /\ UNCHANGED <<sub, stored, grants, failures, crashes>>

\* A filing of the period that was not rejected, one in progress included.
Prior(p) == \E g \in Filers : /\ Filed(g) /\ sub[g].period = p
                              /\ sub[g].status # "REJECTED"

ReadPrior(f) ==
    /\ job[f].pc = "prior"
    /\ Goto(f, IF Prior(job[f].file.period) THEN "grant" ELSE "create")
    /\ UNCHANGED <<sub, stored, grants, failures, crashes>>

\* Mutant: a permission stays open after it was used.
OpenGrantsUsedOnes(p) == {i \in DOMAIN grants : grants[i].period = p}

OpenGrants(p) == {i \in DOMAIN grants : grants[i].period = p /\ ~grants[i].consumed}

ReadGrant(f) ==
    /\ job[f].pc = "grant"
    /\ LET open == OpenGrants(job[f].file.period)
       IN  IF open = {} THEN Goto(f, "refused")
           ELSE job' = [job EXCEPT ![f].pc = "consume", ![f].grant = Max(open)]
    /\ UNCHANGED <<sub, stored, grants, failures, crashes>>

\* By id, whatever happened to the permission since it was read.
ConsumeGrant(f) ==
    /\ job[f].pc = "consume"
    /\ grants' = [grants EXCEPT ![job[f].grant].consumed = TRUE]
    /\ Goto(f, "create")
    /\ UNCHANGED <<sub, stored, failures, crashes>>

CreateSubmission(f) ==
    /\ job[f].pc = "create"
    /\ sub' = [sub EXCEPT ![f] = NewSubmission(job[f].file, "VALIDATING")]
    /\ Goto(f, "check")
    /\ UNCHANGED <<stored, grants, failures, crashes>>

-----------------------------------------------------------------------------
(* The shared pipeline.                                                        *)

\* The all-or-nothing pass: one bad row rejects the file with a deadline.
PreValidate(f) ==
    /\ job[f].pc = "check"
    /\ \/ /\ job[f].file.shape = "unreadable"
          /\ Goto(f, "fail")
          /\ UNCHANGED sub
       \/ /\ job[f].file.shape = "invalid"
          /\ sub' = [sub EXCEPT ![f].status = "REJECTED", ![f].resubmitDue = TRUE]
          /\ Goto(f, "done")
       \/ /\ job[f].file.shape = "valid"
          /\ Goto(f, "load")
          /\ UNCHANGED sub
    /\ UNCHANGED <<stored, grants, failures, crashes>>

\* Mutant: only the rows of standing submissions count as on file.
OnFileOfStanding == {KeyOf(r[1], r[2]) : r \in {x \in stored :
                        sub[x[1]].status \in {"ACCEPTED", "PARTIALLY_ACCEPTED"}}}

\* The accounts already on file for this provider, read once.
OnFile == {KeyOf(r[1], r[2]) : r \in stored}

LoadExisting(f) ==
    /\ job[f].pc = "load"
    /\ job' = [job EXCEPT ![f].pc = "rows", ![f].seen = OnFile]
    /\ UNCHANGED <<sub, stored, grants, failures, crashes>>

Repeats(f, i) == KeyOf(f, i)[2] # NoAccount /\ KeyOf(f, i) \in job[f].seen

\* One turn of the row loop: drop a repeat, or queue the row for the next batch.
TakeRow(f) ==
    LET i    == job[f].next
        rows == job[f].file.rows
        keep == ~Repeats(f, i)
        batch == IF keep THEN job[f].batch \cup {i} ELSE job[f].batch
    IN  /\ job[f].pc = "rows"
        /\ job' = [job EXCEPT ![f] =
             [job[f] EXCEPT
                 !.next = i + 1,
                 !.batch = batch,
                 !.seen = IF keep THEN job[f].seen \cup {rows[i]} ELSE job[f].seen,
                 !.rejected = IF keep THEN job[f].rejected ELSE job[f].rejected + 1,
                 !.pc = CASE batch # {} /\ (Cardinality(batch) >= Batch
                                            \/ i = Len(rows)) -> "flush"
                          [] i = Len(rows) /\ batch = {}      -> "close"
                          [] OTHER                            -> "rows"]]
        /\ UNCHANGED <<sub, stored, grants, failures, crashes>>

\* Mutant: the flush after the loop is missing.
FlushFullOnly(f) ==
    /\ job[f].pc = "flush"
    /\ stored' = IF Cardinality(job[f].batch) = Batch
                 THEN stored \cup ({f} \X job[f].batch) ELSE stored
    /\ job' = [job EXCEPT ![f].batch = {},
                          ![f].pc = IF job[f].next > Len(job[f].file.rows)
                                    THEN "close" ELSE "rows"]
    /\ UNCHANGED <<sub, grants, failures, crashes>>

Flush(f) ==
    /\ job[f].pc = "flush"
    /\ stored' = stored \cup ({f} \X job[f].batch)
    /\ job' = [job EXCEPT ![f].batch = {},
                          ![f].pc = IF job[f].next > Len(job[f].file.rows)
                                    THEN "close" ELSE "rows"]
    /\ UNCHANGED <<sub, grants, failures, crashes>>

\* Mutant: a status the schema does not have.
VerdictPartial(accepted, rejected) ==
    IF rejected > 0 /\ accepted > 0 THEN "PARTIAL"
    ELSE IF accepted > 0 THEN "ACCEPTED" ELSE "REJECTED"

Verdict(accepted, rejected) ==
    CASE rejected = 0 /\ accepted > 0 -> "ACCEPTED"
      [] rejected > 0 /\ accepted > 0 -> "PARTIALLY_ACCEPTED"
      [] OTHER                        -> "REJECTED"

Close(f) ==
    LET rejected == job[f].rejected
        accepted == job[f].next - 1 - rejected
    IN  /\ job[f].pc = "close"
        /\ sub' = [sub EXCEPT ![f] =
             [@ EXCEPT !.status = Verdict(accepted, rejected),
                       !.accepted = accepted, !.rejected = rejected,
                       !.resubmitDue = Verdict(accepted, rejected) # "ACCEPTED"]]
        /\ Goto(f, "done")
        /\ UNCHANGED <<stored, grants, failures, crashes>>

\* Mutant: the catch does not record the failure.
FailUnrecorded(f) ==
    /\ job[f].pc = "fail"
    /\ Goto(f, "done")
    /\ UNCHANGED <<sub, stored, grants, failures, crashes>>

\* The catch of upload / ingestJson: batches already written stay.
Fail(f) ==
    /\ job[f].pc = "fail"
    /\ sub' = [sub EXCEPT ![f].status = "REJECTED", ![f].fatal = TRUE]
    /\ Goto(f, "done")
    /\ UNCHANGED <<stored, grants, failures, crashes>>

-----------------------------------------------------------------------------
(* The environment: a database call that fails, a server that restarts.        *)

\* Before the submission exists the request just fails; afterwards the catch
\* runs.  A catch whose own write fails leaves what a restart leaves (Crash).
StoreFails(f) ==
    /\ failures < MaxFailures
    /\ \/ job[f].pc \in {"prior", "grant", "consume", "create"} /\ Goto(f, "refused")
       \/ job[f].pc \in {"load", "flush", "close"} /\ Goto(f, "fail")
    /\ failures' = failures + 1
    /\ UNCHANGED <<sub, stored, grants, crashes>>

Crash ==
    /\ crashes < MaxCrashes
    /\ \E f \in Filers : Active(f)
    /\ job' = [f \in Filers |-> IF Active(f) THEN [job[f] EXCEPT !.pc = "dead"]
                                             ELSE job[f]]
    /\ crashes' = crashes + 1
    /\ UNCHANGED <<sub, stored, grants, failures>>

Step(f) ==
    \/ ReadPrior(f) \/ ReadGrant(f) \/ ConsumeGrant(f) \/ CreateSubmission(f)
    \/ PreValidate(f) \/ LoadExisting(f) \/ TakeRow(f) \/ Flush(f)
    \/ Close(f) \/ Fail(f)

Next ==
    \/ \E p \in Periods : GrantResubmit(p)
    \/ \E f \in Filers, file \in Files : Receive(f, file)
    \/ \E f \in Filers : Step(f) \/ StoreFails(f)
    \/ Crash

Spec     == Init /\ [][Next]_vars
FairSpec == Spec /\ \A f \in Filers : WF_vars(Step(f))

-----------------------------------------------------------------------------
(* Properties.                                                                 *)

Settled(f) == sub[f].status \in {"ACCEPTED", "PARTIALLY_ACCEPTED", "REJECTED"}
RowsOf(f)  == {r \in stored : r[1] = f}
FiledBy(p) == {f \in Filers : Filed(f) /\ sub[f].period = p
                              /\ sub[f].channel = "provider"
                              /\ sub[f].status # "REJECTED"}
Spent(p)   == {i \in DOMAIN grants : grants[i].period = p /\ grants[i].consumed}

\* The counts and the verdict the provider is shown are those of the rows on
\* file: whatever the batching and however requests interleave, a submission
\* closed without a fatal error stored exactly `accepted` rows, it is ACCEPTED
\* only if that is every row of the file, and REJECTED only if it is none.
VerdictMatchesRecords ==
    \A f \in Filers : Settled(f) /\ ~sub[f].fatal =>
        /\ Cardinality(RowsOf(f)) = sub[f].accepted
        /\ sub[f].status = "ACCEPTED" =>
              Cardinality(RowsOf(f)) = Len(job[f].file.rows)
        /\ sub[f].status = "REJECTED" => RowsOf(f) = {}

\* Unless the server restarts, every submission that was created gets its
\* verdict: no path of the handler, a failing database call included, leaves it
\* VALIDATING, where it would count as the period's submission for ever.
EverySubmissionSettles ==
    \A f \in Filers : sub[f].status = "VALIDATING" ~> Settled(f) \/ crashes > 0

\* One submission per period (submissions.service.ts 126-130): the provider's
\* own standing submissions of a period are one, and one more per permission
\* spent on it.
OncePerPeriod ==
    \A p \in Periods : Cardinality(FiledBy(p)) <= 1 + Cardinality(Spent(p))

\* Section 6.4 duplicate detection: no account is on file twice for a period,
\* whichever submissions brought it, those that failed half-way included.
NoAccountTwice ==
    \A r, s \in stored :
        /\ r # s
        /\ KeyOf(r[1], r[2]) = KeyOf(s[1], s[2])
        => KeyOf(r[1], r[2])[2] = NoAccount

\* A resubmission the authority permitted replaces the period's rows: none of
\* the rows of the replacement is turned away as already submitted.
ReplacementIsTaken ==
    \A f \in Filers : Settled(f) /\ job[f].grant # 0 => sub[f].rejected = 0

-----------------------------------------------------------------------------
(* What the properties rest on.                                                *)

\* The rows on file of a request, and those of its next batch.
Taken(f) == RowsOf(f) \cup ({f} \X job[f].batch)
Ahead(f) == stored \cup ({f} \X job[f].batch)

\* Where a request stands tells what its submission is and how far its rows are.
Placed(f) ==
    /\ job[f].pc \in {"idle", "prior", "grant", "consume", "create", "refused"} =>
          sub[f].status = "NONE"
    /\ job[f].pc \in {"check", "load", "rows", "flush", "close", "fail"} =>
          sub[f].status = "VALIDATING"
    /\ job[f].pc = "dead" => ~Settled(f)
    /\ Filed(f) => sub[f].period = job[f].file.period /\ sub[f].channel = job[f].file.channel
    /\ Filed(f) /\ ~Settled(f) => sub[f].accepted = 0
    /\ job[f].pc \in {"idle", "prior", "grant", "consume", "create", "check", "load"} =>
          job[f].next = 1 /\ job[f].rejected = 0 /\ job[f].batch = {}
    /\ job[f].pc \in {"prior", "grant", "consume"} => job[f].file.channel = "provider"
    /\ job[f].pc = "load" => job[f].file.shape = "valid"
    /\ job[f].pc = "rows" => job[f].next <= Len(job[f].file.rows)
    /\ job[f].pc = "close" => job[f].batch = {} /\ job[f].next = Len(job[f].file.rows) + 1
    /\ job[f].pc = "consume" => job[f].grant \in DOMAIN grants

\* Every row taken is stored, queued or turned away.
Counted(f) ==
    /\ job[f].next \in 1..(Len(job[f].file.rows) + 1)
    /\ IsFiniteSet(Taken(f))
    /\ Cardinality(Taken(f)) + job[f].rejected + 1 = job[f].next
    /\ \A r \in Taken(f) : r[2] \in 1..Len(job[f].file.rows) /\ r[2] < job[f].next

IInv ==
    /\ TypeOK
    /\ \A f \in Filers : Placed(f) /\ Counted(f)
    /\ VerdictMatchesRecords

\* What holds besides for as long as no two requests are served together: whoever
\* writes rows has seen the accounts on file and queued; whoever is about to make a
\* provider's submission has the period, or a permission for it, to itself.
Alone == \A f, g \in Filers : Active(f) /\ Active(g) => f = g
AccountsSeen ==
    \A f \in Filers : job[f].pc \in {"rows", "flush", "close"} =>
        /\ \A r \in Ahead(f) : KeyOf(r[1], r[2]) \in job[f].seen
        /\ \A r, s \in Ahead(f) :
              r # s /\ KeyOf(r[1], r[2]) = KeyOf(s[1], s[2]) => KeyOf(r[1], r[2])[2] = NoAccount
PeriodIsFree ==
    \A f \in Filers :
        /\ job[f].pc = "consume" => job[f].grant \in OpenGrants(job[f].file.period)
        /\ job[f].pc = "create" /\ job[f].file.channel = "provider" =>
              Cardinality(FiledBy(job[f].file.period)) <= Cardinality(Spent(job[f].file.period))
Calm == Alone /\ NoAccountTwice /\ AccountsSeen /\ OncePerPeriod /\ PeriodIsFree
=============================================================================
