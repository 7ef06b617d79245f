---------------------------- MODULE CaseLifecycle ----------------------------
(***************************************************************************)
(* The lifecycle of under-declaration cases as the backend runs it: every  *)
(* staff request, taxpayer objection and scheduled sweep reads the row,    *)
(* decides, and later updates it BY ID, with awaits in between and no row  *)
(* lock or transaction.  A worker is one in-flight call; two workers are   *)
(* two calls that overlap.  The weekly scan refreshes figures underneath.  *)
(***************************************************************************)
EXTENDS Integers, FiniteSets

CONSTANTS
  Cases,            \* (taxpayer, year) pairs
  Legacy,           \* the cases an older engine may have opened on companies
  Workers,          \* calls that can be in flight at the same time
  Figures,          \* tax estimates the detection engine can produce
  ObjectionWindow,  \* StatutoryConfig.objectionWindowDays
  ResponseWindow,   \* StatutoryConfig.authorityResponseDays
  MaxTime,          \* bound: the clock stops here
  MayAbort          \* whether a call may die between two of its awaits

ASSUME CasesAssumption == Legacy \subseteq Cases
ASSUME FiguresAssumption == Figures \subseteq Nat /\ Figures # {}
ASSUME WindowsAssumption ==
  /\ ObjectionWindow \in Nat /\ ResponseWindow \in Nat /\ MaxTime \in Nat
ASSUME AbortAssumption == MayAbort \in BOOLEAN

VARIABLES
  row,    \* row[c]: the underdeclaration_cases row of c
  job,    \* job[w]: what worker w has read and still has to do
  trail,  \* trail[c]: the status in the newest audit entry about c
  now     \* days

vars == <<row, job, trail, now>>

NoCase == "NONE"
Unset  == -1
Status == {"OPEN", "UNDER_REVIEW", "NOTICE_ISSUED", "OBJECTION", "CONFIRMED",
           "SETTLED", "RECOVERED", "DISMISSED", "CLOSED"}

(* TRANSITIONS: where a case may go from each status. *)
Allowed ==
  [OPEN          |-> {"UNDER_REVIEW", "DISMISSED"},
   UNDER_REVIEW  |-> {"NOTICE_ISSUED", "DISMISSED"},
   NOTICE_ISSUED |-> {"OBJECTION", "CONFIRMED"},
   OBJECTION     |-> {"CONFIRMED", "DISMISSED"},
   CONFIRMED     |-> {"SETTLED", "RECOVERED"},
   SETTLED       |-> {"RECOVERED", "CLOSED"},
   RECOVERED     |-> {"CLOSED"},
   DISMISSED     |-> {"CLOSED"},
   CLOSED        |-> {},
   NONE          |-> {}]

(* A row; llc: taxBasis is NOT_ASSESSED_LLC; token counts the access tokens *)
(* minted so far, the current one being the last; filed: grounds recorded.  *)
Row == [status: Status \cup {NoCase}, llc: BOOLEAN, estimate: Figures \cup {Unset},
        assessed: Figures \cup {Unset}, token: Nat,
        objectionDue: Int, responseDue: Int, filed: BOOLEAN,
        recovered: Figures \cup {Unset}, resolved: BOOLEAN]

Blank == [status |-> NoCase, llc |-> FALSE, estimate |-> Unset,
          assessed |-> Unset, token |-> 0,
          objectionDue |-> Unset, responseDue |-> Unset, filed |-> FALSE,
          recovered |-> Unset, resolved |-> FALSE]

(* What a transition still needs of the row it read before its update. *)
Snapshot == [status: Status, tokened: BOOLEAN, estimate: Figures]

Idle == [at |-> "idle"]
Job ==
  {Idle}
    \cup [at: {"decided"}, on: Cases, to: Status, seen: Snapshot]
    \cup [at: {"written"}, on: Cases, to: Status]
    \cup [at: {"objecting", "grounded"}, on: Cases]
    \cup [at: {"sweeping"}, overdue: SUBSET Cases]
    \cup [at: {"swept"}, on: Cases, overdue: SUBSET Cases]

TypeOK ==
  /\ row \in [Cases -> Row]
  /\ job \in [Workers -> Job]
  /\ trail \in [Cases -> Status \cup {NoCase}]
  /\ now \in Nat

Init ==
  /\ \E opened \in SUBSET Legacy, figure \in Figures :
       row = [c \in Cases |->
                IF c \in opened
                THEN [Blank EXCEPT !.status = "OPEN", !.llc = TRUE,
                                   !.estimate = figure]
                ELSE Blank]
  /\ job = [w \in Workers |-> Idle]
  /\ trail = [c \in Cases |-> row[c].status]
  /\ now = 1

------------------------------------------------------------------------------
(* CasesService.transition *)

(* Mutants: the map is not consulted; a company may be noticed. *)
AdmitsAnyMove(c, to)  == to = "NOTICE_ISSUED" => ~row[c].llc
AdmitsAnyBasis(c, to) == to \in Allowed[row[c].status]

(* The call reads the row, checks the transition map and, for a notice, that *)
(* the taxpayer is not a limited company; a refusal changes nothing.         *)
Admits(c, to) ==
  /\ to \in Allowed[row[c].status]
  /\ to = "NOTICE_ISSUED" => ~row[c].llc

Decision(c, to) ==
  [at |-> "decided", on |-> c, to |-> to,
   seen |-> [status |-> row[c].status, tokened |-> row[c].token > 0,
             estimate |-> row[c].estimate]]

Decide(w, c, to) ==
  /\ job[w].at = "idle"
  /\ Admits(c, to)
  /\ job' = [job EXCEPT ![w] = Decision(c, to)]
  /\ UNCHANGED <<row, trail, now>>

(* The columns one update writes, each as a function of the row r it finds. *)
Minted(r, to, seen) ==
  IF to = "NOTICE_ISSUED" /\ ~seen.tokened THEN r.token + 1 ELSE r.token

(* Mutant: the authority's deadline is not set. *)
ResponseDueUnset(r, to) == r.responseDue
ResponseDue(r, to) == IF to = "OBJECTION" THEN now + ResponseWindow ELSE r.responseDue

(* paid is the dto's optional amount. *)
Recovered(r, to, seen, paid) ==
  CASE to = "RECOVERED" /\ paid = Unset -> seen.estimate
    [] to \in {"RECOVERED", "SETTLED"} /\ paid # Unset -> paid
    [] OTHER -> r.recovered

Resolved(r, to) == r.resolved \/ to \in {"RECOVERED", "DISMISSED", "CLOSED"}

Stamped(r, to, seen, paid) ==
  [r EXCEPT
     !.status       = to,
     !.token        = Minted(r, to, seen),
     !.objectionDue = IF to = "NOTICE_ISSUED" THEN now + ObjectionWindow ELSE @,
     !.assessed     = IF to = "NOTICE_ISSUED" THEN seen.estimate ELSE @,
     !.responseDue  = ResponseDue(r, to),
     !.recovered    = Recovered(r, to, seen, paid),
     !.resolved     = Resolved(r, to)]

(* The update is by id: it does not look at the status it replaces. *)
Write(w) ==
  /\ job[w].at = "decided"
  /\ LET c == job[w].on
     IN /\ \E paid \in Figures \cup {Unset} :
             row' = [row EXCEPT ![c] = Stamped(@, job[w].to, job[w].seen, paid)]
        /\ job' = [job EXCEPT ![w] = [at |-> "written", on |-> c, to |-> job[w].to]]
  /\ UNCHANGED <<trail, now>>

(* Mutant: the entry is lost. *)
RecordLost(w) ==
  /\ job[w].at = "written"
  /\ job' = [job EXCEPT ![w] = Idle]
  /\ UNCHANGED <<row, trail, now>>

(* The audit entry is a separate write, after the update. *)
Record(w) ==
  /\ job[w].at = "written"
  /\ trail' = [trail EXCEPT ![job[w].on] = job[w].to]
  /\ job' = [job EXCEPT ![w] = Idle]
  /\ UNCHANGED <<row, now>>

------------------------------------------------------------------------------
(* IntegrationService.fileObjection *)

(* The taxpayer's platform presents the case token while the notice is open. *)
OpenObjection(w, c) ==
  /\ job[w].at = "idle"
  /\ row[c].token > 0
  /\ row[c].status = "NOTICE_ISSUED"
  /\ row[c].objectionDue >= now
  /\ job' = [job EXCEPT ![w] = [at |-> "objecting", on |-> c]]
  /\ UNCHANGED <<row, trail, now>>

WriteGrounds(w) ==
  /\ job[w].at = "objecting"
  /\ row' = [row EXCEPT ![job[w].on].filed = TRUE]
  /\ job' = [job EXCEPT ![w] = [at |-> "grounded", on |-> job[w].on]]
  /\ UNCHANGED <<trail, now>>

(* The nested transition re-reads the row and may refuse. *)
CallTransition(w) ==
  /\ job[w].at = "grounded"
  /\ job' = [job EXCEPT ![w] =
               IF Admits(job[w].on, "OBJECTION")
               THEN Decision(job[w].on, "OBJECTION") ELSE Idle]
  /\ UNCHANGED <<row, trail, now>>

------------------------------------------------------------------------------
(* CasesService.processDeadlines *)

Lapsed(c) == row[c].status = "OBJECTION" /\ row[c].responseDue < now

ListOverdue(w) ==
  /\ job[w].at = "idle"
  /\ \E c \in Cases : Lapsed(c)
  /\ job' = [job EXCEPT ![w] =
               [at |-> "sweeping", overdue |-> {c \in Cases : Lapsed(c)}]]
  /\ UNCHANGED <<row, trail, now>>

(* Mutant: an upheld objection is noted, its case not dismissed. *)
StampUpheldOnly(w, c) ==
  /\ job[w].at = "sweeping"
  /\ c \in job[w].overdue
  /\ row' = [row EXCEPT ![c].resolved = TRUE]
  /\ job' = [job EXCEPT ![w] =
               [at |-> "swept", on |-> c, overdue |-> job[w].overdue \ {c}]]
  /\ UNCHANGED <<trail, now>>

(* Each listed case is dismissed by id, whatever has become of it since. *)
DeemUpheld(w, c) ==
  /\ job[w].at = "sweeping"
  /\ c \in job[w].overdue
  /\ row' = [row EXCEPT ![c].status = "DISMISSED", ![c].resolved = TRUE]
  /\ job' = [job EXCEPT ![w] =
               [at |-> "swept", on |-> c, overdue |-> job[w].overdue \ {c}]]
  /\ UNCHANGED <<trail, now>>

RecordUpheld(w) ==
  /\ job[w].at = "swept"
  /\ trail' = [trail EXCEPT ![job[w].on] = "DISMISSED"]
  /\ job' = [job EXCEPT ![w] =
               IF job[w].overdue = {} THEN Idle
               ELSE [at |-> "sweeping", overdue |-> job[w].overdue]]
  /\ UNCHANGED <<row, now>>

------------------------------------------------------------------------------
(* Mutant: a scan reopens the case it refreshes. *)
ScanReopens(c, figure) ==
  /\ row' = [row EXCEPT ![c].estimate = figure,
                        ![c].llc = FALSE,
                        ![c].status = "OPEN"]
  /\ UNCHANGED <<job, trail, now>>

(* The scan's upsert: a new case starts OPEN; an existing one keeps its     *)
(* status and has its figures and tax basis replaced.  Not audited.         *)
ScanUpsert(c, figure) ==
  /\ row' = [row EXCEPT ![c].estimate = figure,
                        ![c].llc = FALSE,
                        ![c].status = IF @ = NoCase THEN "OPEN" ELSE @]
  /\ UNCHANGED <<job, trail, now>>

Tick == /\ now < MaxTime
        /\ now' = now + 1
        /\ UNCHANGED <<row, job, trail>>

(* A database error or a process death ends the call where it stands. *)
Abort(w) == /\ MayAbort
            /\ job[w] # Idle
            /\ job' = [job EXCEPT ![w] = Idle]
            /\ UNCHANGED <<row, trail, now>>

Staff(w)     == \E c \in Cases, to \in Status : Decide(w, c, to)
Finish(w)    == Write(w) \/ Record(w)
Objection(w) == \/ \E c \in Cases : OpenObjection(w, c)
                \/ WriteGrounds(w)
                \/ CallTransition(w)
SweepStep(w) == \/ \E c \in Cases : DeemUpheld(w, c)
                \/ RecordUpheld(w)
Scan         == \E c \in Cases, figure \in Figures : ScanUpsert(c, figure)

Next == \/ \E w \in Workers : \/ Staff(w) \/ Finish(w) \/ Objection(w)
                              \/ ListOverdue(w) \/ SweepStep(w) \/ Abort(w)
        \/ Scan
        \/ Tick

Spec == Init /\ [][Next]_vars

(* Every call that has started runs on; the daily sweep comes round however *)
(* busy the other workers are.                                              *)
Fairness ==
  /\ \A w \in Workers : /\ WF_vars(Finish(w))
                        /\ WF_vars(WriteGrounds(w) \/ CallTransition(w))
                        /\ WF_vars(SweepStep(w))
  /\ SF_vars(\E w \in Workers : ListOverdue(w))

FairSpec == Spec /\ Fairness

------------------------------------------------------------------------------
(* Properties that survive overlapping calls.                               *)

(* Demanded: the statuses in which the state is holding a taxpayer to a sum. *)
Demanded == {"NOTICE_ISSUED", "OBJECTION", "CONFIRMED", "SETTLED", "RECOVERED"}

(* However calls overlap, nobody is held to a demand that was never noticed: *)
(* a case past UNDER_REVIEW and not dismissed has an assessment, an          *)
(* objection deadline and an access token, all written by NOTICE_ISSUED.     *)
DemandNeedsNotice ==
  \A c \in Cases : row[c].status \in Demanded =>
     row[c].assessed # Unset /\ row[c].objectionDue # Unset /\ row[c].token > 0

(* A limited company is never assessed by the state, even when a scan        *)
(* rewrites the tax basis while a notice is being decided.                   *)
NoDemandOnCompanies == \A c \in Cases : row[c].llc => row[c].assessed = Unset

(* A case under objection always carries the authority's deadline, without   *)
(* which processDeadlines would never find it.                               *)
ObjectionHasDeadline ==
  \A c \in Cases : row[c].status = "OBJECTION" => row[c].responseDue # Unset

(* An ended case says when it was resolved, and a recovered one how much.    *)
OutcomeIsRecorded ==
  \A c \in Cases :
    /\ row[c].status \in {"RECOVERED", "DISMISSED", "CLOSED"} => row[c].resolved
    /\ row[c].status = "RECOVERED" => row[c].recovered # Unset

(* An objection left unanswered past its deadline does not stay open.        *)
OverdueObjectionEnds ==
  \A c \in Cases : Lapsed(c) ~> ~Lapsed(c)

(* Properties that need calls on a case not to overlap (one worker).         *)

Law == INSTANCE CaseLaw WITH
         stage  <- [c \in Cases |-> row[c].status],
         demand <- [c \in Cases |-> row[c].assessed]

(* The transition map is enforced and an assessment is never revised.        *)
ImplementsLaw == Law!Spec

(* Once no call is in flight the newest audit entry shows the status the     *)
(* case has (a scan opens cases without an entry).                           *)
AuditShowsStatus ==
  (\A w \in Workers : job[w] = Idle) =>
     \A c \in Cases : \/ trail[c] = row[c].status
                      \/ trail[c] = NoCase /\ row[c].status = "OPEN"

(* Grounds the taxpayer filed are never left behind: the authority's clock   *)
(* has started by the time the call is over.                                 *)
GroundsStartClock ==
  (\A w \in Workers : job[w] = Idle) =>
     \A c \in Cases : row[c].filed => row[c].responseDue # Unset

(* The audit log shows the status of every case, and grounds on file have    *)
(* started the clock of the authority's answer.                              *)
RecordsFollow == AuditShowsStatus /\ GroundsStartClock
==============================================================================
