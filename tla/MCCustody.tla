------------------------------ MODULE MCCustody ------------------------------
(* What the authority keeps in custody and what operators do to it from a      *)
(* shell: the hash-chained audit log, the encrypted identifiers, the imports   *)
(* of an archive, and the scripts that issue links, carry logins over and seed *)
(* a demo.  An instance explores ONE part; AuditChain has variables of its own.*)
EXTENDS AuditChain, TLC
CONSTANTS
    w1, w2, w3,                                                 \* of the audit log,
    Ids, Values, KeyIds, PageSize,                              \* the vault,
    FileRows, Opened, Pair, Kinds, Batch, MaxImports, MaxSpoils,     \* the imports
    Files, Filed,
    Logins, Authorities, Databases, DatabaseOf, Within, Tables, MaxOps   \* and the scripts

VARIABLES
    focus,        \* the part explored
    s1, s2, s3, s4, s5, s6, s7, s8, s9,
    overlapped    \* two operations on one row were in flight together

slots == <<s1, s2, s3, s4, s5, s6, s7, s8, s9>>
all == <<focus, vars, slots, overlapped>>

(* Audit log: three writers and clocks that may tie, run back or jump; details *)
(* whose keys all have values.  ReviewBodies adds data-records.service.ts 159, *)
(* a review submitted without notes.                                           *)
Cleared == [reviewStatus |-> "CLEARED", notes |-> "seen"]
Bare    == [reviewStatus |-> "CLEARED", notes |-> Null]
DefinedBodies == {Cleared, Bare}
ReviewBodies  == DefinedBodies \cup {[reviewStatus |-> "CLEARED", notes |-> Undefined]}

AuditNext == Next /\ UNCHANGED <<slots, overlapped>>

----------------------------------------------------------------------------
(* Vault: two rows of two possible values, two keys, a page of one row; past   *)
(* an overlap, or a row whose key is gone, nothing is explored (the run        *)
(* vault_rotation does).                                                       *)
Vault == INSTANCE FieldVault WITH
    Batch <- PageSize,
    keys <- s1, active <- s2, rows <- s3, job <- s4, script <- s5, truth <- s6, erased <- s7

VaultNext == ~overlapped /\ ~s7 /\ Vault!Next /\ UNCHANGED <<vars, s8, s9>>

----------------------------------------------------------------------------
(* Import: three rows of two periods, the second of them without money, two    *)
(* runs and one row that fails.  The archive has a return for the period of    *)
(* the first row; the last row, of the other period, has only a NIN.           *)
MCFiles == {f \in [1..3 -> [pair : {"a", "b"}, ids : SUBSET {"bvn", "nin"}]] :
               f[1].pair = "a" /\ f[3] = [pair |-> "b", ids |-> {"nin"}]}
Import == INSTANCE BulkImport WITH
    Row <- FileRows, MaxRuns <- MaxImports, script <- s1, file <- s2, known <- s3,
    subs <- s4, records <- s5, people <- s6, job <- s7, runs <- s8, spoils <- s9

(* Scripts: two logins; a live database and three demos, the name of the first *)
(* of which begins the names of the other two.                                 *)
MCDatabaseOf == [a \in {"ogirs", "fctirs", "tirs"} |->
    CASE a = "ogirs" -> "demo" [] a = "fctirs" -> "demo_fct" [] a = "tirs" -> "demo_tirs"]
MCWithin == {<<d, d>> : d \in {"main", "demo", "demo_fct", "demo_tirs"}}
            \cup {<<"demo", "demo_fct">>, <<"demo", "demo_tirs">>}
Scripts == INSTANCE OpsScripts WITH
    MaxRuns <- MaxOps, script <- s1, run <- s2, runs <- s3, accts <- s4, full <- s5,
    partial <- s6, dbs <- s7, cut <- s8

ImportNext  == Import!Next /\ UNCHANGED <<vars, overlapped>>
ScriptsNext == Scripts!Next /\ UNCHANGED <<vars, s9, overlapped>>

ASSUME VaultConstants  == Vault!VaultAssumption
ASSUME ImportConstants == Import!ImportAssumption
ASSUME ScriptConstants == Scripts!ScriptAssumption

----------------------------------------------------------------------------
AuditAtRest == Init /\ body = [w \in Writers |-> Bare]
MCInit ==
    \/ /\ focus = "audit" /\ Init /\ overlapped = FALSE
       /\ s1 = 0 /\ s2 = 0 /\ s3 = 0 /\ s4 = 0 /\ s5 = 0 /\ s6 = 0 /\ s7 = 0 /\ s8 = 0 /\ s9 = 0
    \/ focus = "vault" /\ Vault!Init /\ s8 = 0 /\ s9 = 0 /\ AuditAtRest
    \/ /\ focus = "import" /\ Import!Init /\ overlapped = FALSE /\ AuditAtRest
       /\ s2 \in Files /\ s4[1].pair \in Filed
    \/ focus = "scripts" /\ Scripts!Init /\ s9 = 0 /\ overlapped = FALSE /\ AuditAtRest

MCNext ==
    /\ focus' = focus
    /\ \/ focus = "audit" /\ AuditNext
       \/ focus = "vault" /\ VaultNext
       \/ focus = "import" /\ ImportNext
       \/ focus = "scripts" /\ ScriptsNext

MCSpec == MCInit /\ [][MCNext]_all
                 /\ \A w \in Writers : WF_vars(focus = "audit" /\ Step(w))
                 /\ WF_slots(focus = "import" /\ Import!Step)

----------------------------------------------------------------------------
(* The type invariants of the parts.                                           *)
TypesOK ==
    CASE focus = "audit" -> TypeOK
      [] focus = "vault" -> Vault!TypeOK
      [] focus = "import" -> Import!TypeOK
      [] focus = "scripts" -> Scripts!TypeOK

\* What is kept is what was put there: verify() notices a change of the audit log,
\* and a stored identifier is the value last stored, under any rotation.
KeptIsTrue ==
    CASE focus = "audit" -> ChangesAreNoticed
      [] focus = "vault" -> Vault!StoredIsTruth
      [] OTHER -> TRUE

\* However often a script is run and wherever it is cut off: a period has one
\* submission, a tagged import every row once, the counters are those of the rows,
\* the rows of others stay, and each row is its owner's; nobody whose password was
\* parked is left without a word, and only a demo is cleared and filled.
ScriptsConverge ==
    CASE focus = "import" ->
            /\ Import!OneUploadPerPeriod /\ Import!RerunConverges /\ Import!OthersRowsStay
            /\ Import!NothingUnlessResolved /\ Import!CountsAddUp /\ Import!LinkedToItsOwner
      [] focus = "scripts" -> Scripts!NobodyIsStranded /\ Scripts!OnlyItsDemo /\ Scripts!SeedIsWhole
      [] OTHER -> TRUE

Importing == focus = "import" /\ s7.at \notin {"idle", "done"}

\* A job that is begun comes to its end, and to the right one: a call of the audit
\* log returns though a transaction failed; a re-encryption nobody disturbed leaves
\* no row under an old key; an import that is not cut off ends; and no run of the
\* login import takes back a password its owner chose.
JobsEnd ==
    /\ EveryCallReturns
    /\ Importing ~> ~Importing
    /\ [][CASE focus = "vault" -> s4'.pc = "done" /\ s4.pc # "done" /\ ~overlapped' =>
                                      \A r \in Ids : ~Vault!NeedsReencrypt(s3'[r].enc)
            [] focus = "scripts" -> Scripts!ChosenStays
            [] OTHER -> TRUE]_all
============================================================================
