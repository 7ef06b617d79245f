--------------------------- MODULE StatutoryConfig ---------------------------
(* The versioned statutory configuration: statutory.service.ts active, which   *)
(* seeds version 1, and update, which files a new version and makes it the     *)
(* active one.  The UNIQUE constraint on version is checked when a row is      *)
(* created; every read before it is a step of its own.                         *)
EXTENDS Integers, Sequences

CONSTANTS
    Fields, Values,
    Default,      \* the values seeded from the code
    Slots,        \* requests served at the same time
    MaxVersion    \* bound on the versions

\* What the constants must be; the instances checked assume it.
StatutoryAssumption ==
    /\ Fields # {} /\ Values # {}
    /\ Default \in [Fields -> Values]
    /\ MaxVersion \in Nat \ {0}

VARIABLES
    table,    \* the StatutoryConfig rows by version
    active,   \* the versions with isActive set
    job       \* per slot: where its update is and what it has read

vars == <<table, active, job>>

Configs == [Fields -> Values]
Jobs == [pc : {"idle", "seed", "max", "file"}, field : Fields, value : Values,
         base : Configs, version : Nat]

TypeOK ==
    /\ table \in Seq(Configs)
    /\ active \subseteq Nat
    /\ job \in [Slots -> Jobs]

Init ==
    /\ table = <<>> /\ active = {}
    /\ job = [s \in Slots |-> [pc |-> "idle", field |-> CHOOSE f \in Fields : TRUE,
                               value |-> CHOOSE v \in Values : TRUE,
                               base |-> Default, version |-> 0]]

\* update: the patch, and the active configuration it is to be laid over.
Update(s) == \E f \in Fields, v \in Values :
    /\ job[s].pc = "idle"
    /\ \/ \E n \in active :
            job' = [job EXCEPT ![s] = [pc |-> "max", field |-> f, value |-> v,
                                       base |-> table[n], version |-> 0]]
       \/ /\ active = {}
          /\ job' = [job EXCEPT ![s] = [pc |-> "seed", field |-> f, value |-> v,
                                        base |-> Default, version |-> 0]]
    /\ UNCHANGED <<table, active>>

\* active found no row: it creates version 1, and raises when one exists by now.
Seed(s) ==
    /\ job[s].pc = "seed"
    /\ IF table = <<>>
       THEN /\ table' = <<Default>> /\ active' = {1}
            /\ job' = [job EXCEPT ![s].pc = "max"]
       ELSE /\ job' = [job EXCEPT ![s].pc = "idle"]
            /\ UNCHANGED <<table, active>>

\* The aggregate: one more than the highest version.
ReadMax(s) ==
    /\ job[s].pc = "max"
    /\ job' = [job EXCEPT ![s].pc = "file", ![s].version = Len(table) + 1]
    /\ UNCHANGED <<table, active>>

\* Mutant: a patch is laid over the defaults.
LaidOnDefault(j) == [Default EXCEPT ![j.field] = j.value]

\* The new version: the fields given, laid over the configuration that was read.
Laid(j) == [j.base EXCEPT ![j.field] = j.value]

Idles(s) == job' = [job EXCEPT ![s].pc = "idle"]

\* Mutant: the version before is left active.
FileBeside(s) ==
    /\ job[s].pc = "file"
    /\ Len(table) < MaxVersion
    /\ IF job[s].version = Len(table) + 1
       THEN /\ table' = Append(table, Laid(job[s]))
            /\ active' = active \cup {job[s].version}
       ELSE UNCHANGED <<table, active>>
    /\ Idles(s)

\* Mutant: a version that exists by now is overwritten.
FileOver(s) ==
    /\ job[s].pc = "file"
    /\ Len(table) < MaxVersion
    /\ IF job[s].version = Len(table) + 1
       THEN table' = Append(table, Laid(job[s]))
       ELSE table' = [table EXCEPT ![job[s].version] = Laid(job[s])]
    /\ active' = {job[s].version}
    /\ Idles(s)

\* Mutant: a new version holds the patched field only.
FileUntyped(s) ==
    /\ job[s].pc = "file"
    /\ Len(table) < MaxVersion
    /\ table' = Append(table, [f \in {job[s].field} |-> job[s].value])
    /\ active' = {job[s].version}
    /\ Idles(s)

\* The transaction: every active row is switched off and the new one created
\* active; a version that exists by now undoes it all.
File(s) ==
    /\ job[s].pc = "file"
    /\ Len(table) < MaxVersion
    /\ IF job[s].version = Len(table) + 1
       THEN /\ table' = Append(table, Laid(job[s]))
            /\ active' = {job[s].version}
       ELSE UNCHANGED <<table, active>>
    /\ Idles(s)

Next == \E s \in Slots : Update(s) \/ Seed(s) \/ ReadMax(s) \/ File(s)

Spec == Init /\ [][Next]_vars

-----------------------------------------------------------------------------
(* Properties.                                                                 *)

\* However updates and the seeding overlap, the active configuration is one, and
\* it is the latest version.
ActiveIsLatest == active = IF table = <<>> THEN {} ELSE {Len(table)}

\* "never edit in place, so the history and every case's stamped version stay
\* valid" (statutory.service.ts update): a version once filed never changes.
KeepsHistory ==
    /\ Len(table') >= Len(table)
    /\ \A n \in DOMAIN table : table'[n] = table[n]
HistoryIsKept == [][KeepsHistory]_vars

\* "Only provided fields change; the rest carry over from the current active
\* config" (statutory.service.ts update): a new version differs from the active
\* one in the field of its patch only.
OnlyPatchedChanges ==
    \A s \in Slots :
      job[s].pc = "file" /\ Len(table') > Len(table) /\ job'[s].pc = "idle" =>
        \A f \in Fields \ {job[s].field} :
          table'[Len(table')][f] = table[Len(table)][f]

-----------------------------------------------------------------------------
(* What the properties rest on.                                                *)

\* An update past its first read finds versions on file, and the version it is
\* about to file is at most the next one.
Ahead == \A s \in Slots :
    /\ job[s].pc \in {"max", "file"} => table # <<>>
    /\ job[s].pc = "file" => job[s].version \in 1 .. Len(table) + 1

IInv == TypeOK /\ ActiveIsLatest /\ Ahead

\* As long as no update met another one, it lays its patch over the latest version.
Undisturbed ==
    /\ \A q, s \in Slots : job[q].pc # "idle" /\ job[s].pc # "idle" => q = s
    /\ \A s \in Slots :
          /\ job[s].pc = "seed" => table = <<>> /\ job[s].base = Default
          /\ job[s].pc \in {"max", "file"} => job[s].base = table[Len(table)]
=============================================================================
