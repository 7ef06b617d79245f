------------------------- MODULE CaseLifecycleProofs -------------------------
(***************************************************************************)
(* Proofs about CaseLifecycle, for any set of cases and of workers.        *)
(*                                                                         *)
(* The invariants that survive overlapping calls rest on what a call knows *)
(* of the case between its read and its write (KnowsNotice): columns that  *)
(* NOTICE_ISSUED fills are never cleared, so a fact read once stays true   *)
(* even when the status it was read with does not.  With one worker the    *)
(* status itself stays true (StillCurrent), and the program implements     *)
(* CaseLaw.                                                                *)
(***************************************************************************)
EXTENDS CaseLifecycle, TLAPS

(* The notice columns of row r are filled. *)
Noticed(r) == r.assessed # Unset /\ r.objectionDue # Unset /\ r.token > 0

(* An existing case has an estimate, so that a snapshot of it has one. *)
Estimated == \A c \in Cases : row[c].status # NoCase => row[c].estimate \in Figures

(* What a worker that is about to write knows of its case. *)
KnowsNotice ==
  \A w \in Workers : job[w].at = "decided" =>
    LET j == job[w]
    IN  /\ row[j.on].status # NoCase
        /\ j.to \in Allowed[j.seen.status]
        /\ j.seen.status \in Demanded => Noticed(row[j.on])
        /\ j.seen.tokened => row[j.on].token > 0
        /\ j.to = "NOTICE_ISSUED" => ~row[j.on].llc

(* The cases a sweep has listed exist. *)
ListedExist ==
  \A w \in Workers : job[w].at \in {"sweeping", "swept"} =>
    \A c \in job[w].overdue : row[c].status # NoCase

Facts == /\ DemandNeedsNotice
         /\ NoDemandOnCompanies
         /\ ObjectionHasDeadline
         /\ OutcomeIsRecorded

IInv == TypeOK /\ Estimated /\ KnowsNotice /\ ListedExist /\ Facts

------------------------------------------------------------------------------
(* A job is of one kind, and its kind says which fields it has. *)
LEMMA JobKinds ==
  ASSUME NEW j \in Job
  PROVE  /\ j.at = "idle" => j = Idle
         /\ j.at = "decided" => /\ j.on \in Cases
                                /\ j.to \in Status
                                /\ j.seen \in Snapshot
         /\ j.at = "written" => j.on \in Cases /\ j.to \in Status
         /\ j.at \in {"objecting", "grounded"} => j.on \in Cases
         /\ j.at = "sweeping" => j.overdue \in SUBSET Cases
         /\ j.at = "swept" => j.on \in Cases /\ j.overdue \in SUBSET Cases
BY DEF Job, Idle

(* The row an update leaves behind is a row, with the columns of its status. *)
LEMMA StampedRow ==
  ASSUME NEW r \in Row, NEW to \in Status, NEW seen \in Snapshot,
         NEW paid \in Figures \cup {Unset}, now \in Nat
  PROVE  /\ Stamped(r, to, seen, paid) \in Row
         /\ Stamped(r, to, seen, paid).status = to
         /\ Stamped(r, to, seen, paid).estimate = r.estimate
         /\ Stamped(r, to, seen, paid).llc = r.llc
         /\ Stamped(r, to, seen, paid).token >= r.token
         /\ to = "NOTICE_ISSUED" =>
              /\ Stamped(r, to, seen, paid).assessed # Unset
              /\ Stamped(r, to, seen, paid).objectionDue # Unset
              /\ ~seen.tokened => Stamped(r, to, seen, paid).token > 0
         /\ to # "NOTICE_ISSUED" =>
              /\ Stamped(r, to, seen, paid).assessed = r.assessed
              /\ Stamped(r, to, seen, paid).objectionDue = r.objectionDue
         /\ to = "OBJECTION" => Stamped(r, to, seen, paid).responseDue # Unset
         /\ to \in {"RECOVERED", "DISMISSED", "CLOSED"} =>
              Stamped(r, to, seen, paid).resolved
         /\ to = "RECOVERED" => Stamped(r, to, seen, paid).recovered # Unset
<1> DEFINE s == Stamped(r, to, seen, paid)
<1>1. /\ Minted(r, to, seen) \in Nat
      /\ Minted(r, to, seen) >= r.token
      /\ to = "NOTICE_ISSUED" /\ ~seen.tokened => Minted(r, to, seen) > 0
  BY DEF Row, Snapshot, Minted
<1>2. /\ ResponseDue(r, to) \in Int
      /\ to = "OBJECTION" => ResponseDue(r, to) # Unset
  BY WindowsAssumption DEF Row, ResponseDue, Unset
<1>3. /\ Recovered(r, to, seen, paid) \in Figures \cup {Unset}
      /\ to = "RECOVERED" => Recovered(r, to, seen, paid) # Unset
  BY FiguresAssumption DEF Row, Snapshot, Recovered, Unset
<1>4. /\ Resolved(r, to) \in BOOLEAN
      /\ to \in {"RECOVERED", "DISMISSED", "CLOSED"} => Resolved(r, to)
  BY DEF Row, Resolved
<1>5. seen.estimate \in Figures /\ seen.estimate # Unset
  BY FiguresAssumption DEF Snapshot, Unset
<1>6. now + ObjectionWindow \in Int /\ now + ObjectionWindow # Unset
  BY WindowsAssumption DEF Unset
<1>7. s \in Row
  BY <1>1, <1>2, <1>3, <1>4, <1>5, <1>6 DEF Row, Stamped
<1>8. /\ s.status = to /\ s.estimate = r.estimate /\ s.llc = r.llc
      /\ s.token = Minted(r, to, seen)
      /\ s.responseDue = ResponseDue(r, to)
      /\ s.recovered = Recovered(r, to, seen, paid)
      /\ s.resolved = Resolved(r, to)
  BY DEF Row, Stamped
<1>9. to = "NOTICE_ISSUED" => /\ s.assessed = seen.estimate
                              /\ s.objectionDue = now + ObjectionWindow
  BY DEF Row, Stamped
<1>10. to # "NOTICE_ISSUED" => /\ s.assessed = r.assessed
                               /\ s.objectionDue = r.objectionDue
  BY DEF Row, Stamped
<1> HIDE DEF s
<1>11. QED
  BY <1>1, <1>2, <1>3, <1>4, <1>5, <1>6, <1>7, <1>8, <1>9, <1>10 DEF s

LEMMA InitInv == Init => IInv
<1> SUFFICES ASSUME Init PROVE IInv
  OBVIOUS
<1>1. TypeOK
  <2>1. PICK opened \in SUBSET Legacy, figure \in Figures :
          row = [c \in Cases |->
                   IF c \in opened
                   THEN [Blank EXCEPT !.status = "OPEN", !.llc = TRUE,
                                      !.estimate = figure]
                   ELSE Blank]
    BY DEF Init
  <2>2. Blank \in Row
    BY DEF Blank, Row, Unset
  <2>3. [Blank EXCEPT !.status = "OPEN", !.llc = TRUE, !.estimate = figure] \in Row
    <3>1. figure \in Figures \cup {Unset} /\ "OPEN" \in Status \cup {NoCase}
      BY DEF Status
    <3>2. QED
      BY <2>2, <3>1 DEF Row
  <2>4. row \in [Cases -> Row]
    BY <2>1, <2>2, <2>3
  <2>5. trail \in [Cases -> Status \cup {NoCase}]
    BY <2>4 DEF Init, Row
  <2>6. job \in [Workers -> Job]
    BY DEF Init, Job
  <2>7. QED
    BY <2>4, <2>5, <2>6 DEF Init, TypeOK
<1>2. Estimated /\ Facts
  BY CasesAssumption, FiguresAssumption
     DEF Init, Estimated, Facts, DemandNeedsNotice, NoDemandOnCompanies,
         ObjectionHasDeadline, OutcomeIsRecorded, Demanded, Blank, Unset, NoCase
<1>3. KnowsNotice /\ ListedExist
  BY DEF Init, KnowsNotice, ListedExist, Idle
<1>4. QED
  BY <1>1, <1>2, <1>3 DEF IInv

------------------------------------------------------------------------------
(* A step that leaves the rows alone and gives one worker a new job. *)
LEMMA JobStep ==
  ASSUME IInv, NEW w \in Workers, NEW j \in Job,
         job' = [job EXCEPT ![w] = j], UNCHANGED <<row, now>>,
         trail' \in [Cases -> Status \cup {NoCase}],
         j.at = "decided" =>
           /\ row[j.on].status # NoCase
           /\ j.to \in Allowed[j.seen.status]
           /\ j.seen.status \in Demanded => Noticed(row[j.on])
           /\ j.seen.tokened => row[j.on].token > 0
           /\ j.to = "NOTICE_ISSUED" => ~row[j.on].llc,
         j.at \in {"sweeping", "swept"} =>
           \A c \in j.overdue : row[c].status # NoCase
  PROVE  IInv'
<1>1. TypeOK'
  BY DEF IInv, TypeOK
<1>2. KnowsNotice' /\ ListedExist'
  BY DEF IInv, TypeOK, KnowsNotice, ListedExist, Noticed
<1>3. Estimated' /\ Facts'
  BY DEF IInv, Estimated, Facts, DemandNeedsNotice, NoDemandOnCompanies,
         ObjectionHasDeadline, OutcomeIsRecorded
<1>4. QED
  BY <1>1, <1>2, <1>3 DEF IInv

(* What a fresh decision knows. *)
LEMMA DecisionKnows ==
  ASSUME IInv, NEW c \in Cases, NEW to \in Status, Admits(c, to)
  PROVE  LET j == Decision(c, to)
         IN  /\ j \in Job /\ j.at = "decided"
             /\ row[j.on].status # NoCase
             /\ j.to \in Allowed[j.seen.status]
             /\ j.seen.status \in Demanded => Noticed(row[j.on])
             /\ j.seen.tokened => row[j.on].token > 0
             /\ j.to = "NOTICE_ISSUED" => ~row[j.on].llc
<1>1. row[c] \in Row
  BY DEF IInv, TypeOK
<1>2. row[c].status # NoCase
  BY <1>1 DEF Admits, Allowed, NoCase
<1>3. row[c].status \in Status /\ row[c].estimate \in Figures
  BY <1>1, <1>2 DEF IInv, Estimated, Row
<1>4. row[c].status \in Demanded => Noticed(row[c])
  BY DEF IInv, Facts, DemandNeedsNotice, Noticed
<1>5. Decision(c, to) \in Job
  BY <1>3 DEF Decision, Job, Snapshot
<1>6. QED
  BY <1>2, <1>4, <1>5 DEF Decision, Admits

(* A step that writes rows without clearing what calls may know, and leaves  *)
(* every job as it was or with nothing left to decide.                       *)
LEMMA KnowledgeKept ==
  ASSUME KnowsNotice, TypeOK, TypeOK',
         \A w \in Workers : job'[w].at = "decided" => job'[w] = job[w],
         \A c \in Cases : /\ Noticed(row[c]) => Noticed(row'[c])
                          /\ row'[c].token >= row[c].token
                          /\ row'[c].llc => row[c].llc
                          /\ row[c].status # NoCase => row'[c].status # NoCase
  PROVE  KnowsNotice'
<1> SUFFICES ASSUME NEW w \in Workers, job'[w].at = "decided"
             PROVE  LET j == job'[w]
                    IN  /\ row'[j.on].status # NoCase
                        /\ j.to \in Allowed[j.seen.status]
                        /\ j.seen.status \in Demanded => Noticed(row'[j.on])
                        /\ j.seen.tokened => row'[j.on].token > 0
                        /\ j.to = "NOTICE_ISSUED" => ~row'[j.on].llc
  BY DEF KnowsNotice, Noticed
<1>1. job'[w] = job[w] /\ job[w].on \in Cases
  BY JobKinds DEF TypeOK
<1>2. row[job[w].on].token \in Nat /\ row'[job[w].on].token \in Nat
  BY <1>1 DEF TypeOK, Row
<1>3. QED
  BY <1>1, <1>2 DEF KnowsNotice

LEMMA ListedKept ==
  ASSUME ListedExist, TypeOK,
         \A w \in Workers : job'[w].at \in {"sweeping", "swept"} =>
            /\ job[w].at \in {"sweeping", "swept"}
            /\ job'[w].overdue \subseteq job[w].overdue,
         \A c \in Cases : row[c].status # NoCase => row'[c].status # NoCase
  PROVE  ListedExist'
BY JobKinds DEF ListedExist, TypeOK

LEMMA WriteInv == ASSUME IInv, NEW w \in Workers, Write(w) PROVE IInv'
<1> DEFINE c == job[w].on
           to == job[w].to
           seen == job[w].seen
<1>1. c \in Cases /\ to \in Status /\ seen \in Snapshot /\ now \in Nat
  BY JobKinds DEF IInv, TypeOK, Write
<1>2. /\ row[c].status # NoCase
      /\ to \in Allowed[seen.status]
      /\ seen.status \in Demanded => Noticed(row[c])
      /\ seen.tokened => row[c].token > 0
      /\ to = "NOTICE_ISSUED" => ~row[c].llc
  BY DEF IInv, KnowsNotice, Write
<1>3. PICK paid \in Figures \cup {Unset} :
        row' = [row EXCEPT ![c] = Stamped(row[c], to, seen, paid)]
  BY DEF Write
<1> DEFINE s == Stamped(row[c], to, seen, paid)
<1>4. row[c] \in Row
  BY <1>1 DEF IInv, TypeOK
<1>5. row'[c] = s /\ \A d \in Cases : d # c => row'[d] = row[d]
  BY <1>1, <1>3 DEF IInv, TypeOK
<1>6. /\ s \in Row /\ s.status = to /\ s.llc = row[c].llc
      /\ s.estimate = row[c].estimate /\ s.token >= row[c].token
      /\ to = "NOTICE_ISSUED" => /\ s.assessed # Unset
                                 /\ s.objectionDue # Unset
                                 /\ ~seen.tokened => s.token > 0
      /\ to # "NOTICE_ISSUED" => /\ s.assessed = row[c].assessed
                                 /\ s.objectionDue = row[c].objectionDue
      /\ to = "OBJECTION" => s.responseDue # Unset
      /\ to \in {"RECOVERED", "DISMISSED", "CLOSED"} => s.resolved
      /\ to = "RECOVERED" => s.recovered # Unset
  BY <1>1, <1>4, StampedRow
<1> HIDE DEF s
<1>7. s.token \in Nat /\ row[c].token \in Nat
  BY <1>4, <1>6 DEF Row
<1>8. TypeOK'
  <2>1. row' \in [Cases -> Row]
    BY <1>1, <1>3, <1>6 DEF IInv, TypeOK, s
  <2>2. job' \in [Workers -> Job]
    BY <1>1 DEF IInv, TypeOK, Write, Job
  <2>3. QED
    BY <2>1, <2>2 DEF IInv, TypeOK, Write
<1>9. to \in Demanded => /\ s.assessed # Unset
                         /\ s.objectionDue # Unset
                         /\ s.token > 0
  <2>1. CASE to = "NOTICE_ISSUED"
    BY <1>2, <1>6, <1>7, <2>1 DEF Snapshot
  <2>2. CASE to \in Demanded /\ to # "NOTICE_ISSUED"
    <3>1. seen.status \in Demanded
      BY <1>1, <1>2, <2>2 DEF Allowed, Demanded, Snapshot, Status
    <3>2. QED
      BY <1>2, <1>6, <1>7, <2>2, <3>1 DEF Noticed
  <2>3. QED
    BY <2>1, <2>2
<1>10. Noticed(row[c]) => Noticed(row'[c])
  BY <1>5, <1>6, <1>7 DEF Noticed
<1>11. KnowsNotice' /\ ListedExist'
  <2>1. \A v \in Workers : job'[v].at = "decided" => job'[v] = job[v]
    BY DEF Write, IInv, TypeOK
  <2>2. \A d \in Cases : /\ Noticed(row[d]) => Noticed(row'[d])
                         /\ row'[d].token >= row[d].token
                         /\ row'[d].llc => row[d].llc
                         /\ row[d].status # NoCase => row'[d].status # NoCase
    <3> TAKE d \in Cases
    <3>1. CASE d = c
      BY <1>1, <1>5, <1>6, <1>10, <3>1 DEF Status, NoCase
    <3>2. CASE d # c
      BY <1>5, <3>2 DEF Noticed, IInv, TypeOK, Row
    <3>3. QED
      BY <3>1, <3>2
  <2>3. \A v \in Workers : job'[v].at \in {"sweeping", "swept"} => job'[v] = job[v]
    BY DEF Write, IInv, TypeOK
  <2>4. QED
    BY <1>8, <2>1, <2>2, <2>3, KnowledgeKept, ListedKept DEF IInv
<1>12. Estimated'
  <2>1. row[c].estimate \in Figures
    BY <1>1, <1>2 DEF IInv, Estimated
  <2>2. QED
    BY <1>5, <1>6, <2>1 DEF IInv, Estimated
<1>13. Facts'
  <2>1. DemandNeedsNotice'
    BY <1>5, <1>6, <1>9 DEF IInv, Facts, DemandNeedsNotice
  <2>2. NoDemandOnCompanies'
    BY <1>2, <1>5, <1>6 DEF IInv, Facts, NoDemandOnCompanies
  <2>3. ObjectionHasDeadline'
    BY <1>5, <1>6 DEF IInv, Facts, ObjectionHasDeadline
  <2>4. OutcomeIsRecorded'
    BY <1>5, <1>6 DEF IInv, Facts, OutcomeIsRecorded
  <2>5. QED
    BY <2>1, <2>2, <2>3, <2>4 DEF Facts
<1>14. QED
  BY <1>8, <1>11, <1>12, <1>13 DEF IInv

(* The calls that change only what a worker holds, or the audit trail. *)
LEMMA DecideInv ==
  ASSUME IInv, NEW w \in Workers, NEW c \in Cases, NEW to \in Status,
         Decide(w, c, to)
  PROVE  IInv'
<1>1. Admits(c, to)
  BY DEF Decide
<1>2. trail' \in [Cases -> Status \cup {NoCase}]
  BY DEF Decide, IInv, TypeOK
<1>3. /\ job' = [job EXCEPT ![w] = Decision(c, to)]
      /\ UNCHANGED <<row, now>>
  BY DEF Decide
<1>4. QED
  BY <1>1, <1>2, <1>3, DecisionKnows, JobStep

LEMMA CallTransitionInv ==
  ASSUME IInv, NEW w \in Workers, CallTransition(w) PROVE IInv'
<1>1. job[w].on \in Cases /\ "OBJECTION" \in Status
  BY JobKinds DEF CallTransition, IInv, TypeOK, Status
<1>2. trail' \in [Cases -> Status \cup {NoCase}] /\ UNCHANGED <<row, now>>
  BY DEF CallTransition, IInv, TypeOK
<1>3. CASE Admits(job[w].on, "OBJECTION")
  <2>1. job' = [job EXCEPT ![w] = Decision(job[w].on, "OBJECTION")]
    BY <1>3 DEF CallTransition
  <2>2. QED
    BY <1>1, <1>2, <1>3, <2>1, DecisionKnows, JobStep
<1>4. CASE ~Admits(job[w].on, "OBJECTION")
  <2>1. job' = [job EXCEPT ![w] = Idle]
    BY <1>4 DEF CallTransition
  <2>2. Idle \in Job /\ Idle.at = "idle"
    BY DEF Job, Idle
  <2>3. QED
    BY <1>2, <2>1, <2>2, JobStep
<1>5. QED
  BY <1>3, <1>4

LEMMA BookkeepingInv ==
  ASSUME IInv, NEW w \in Workers,
         \/ Record(w) \/ \E c \in Cases : OpenObjection(w, c)
         \/ ListOverdue(w) \/ RecordUpheld(w) \/ Abort(w)
  PROVE  IInv'
<1>1. PICK j \in Job :
        /\ job' = [job EXCEPT ![w] = j]
        /\ j.at # "decided"
        /\ j.at \in {"sweeping", "swept"} =>
             \A c \in j.overdue : row[c].status # NoCase
  <2>1. Idle \in Job /\ Idle.at = "idle"
    BY DEF Job, Idle
  <2>2. CASE Record(w) \/ Abort(w)
    BY <2>1, <2>2 DEF Record, Abort
  <2>3. CASE \E c \in Cases : OpenObjection(w, c)
    BY <2>3 DEF OpenObjection, Job
  <2>4. CASE ListOverdue(w)
    <3>1. {c \in Cases : Lapsed(c)} \in SUBSET Cases
      OBVIOUS
    <3>2. [at |-> "sweeping", overdue |-> {c \in Cases : Lapsed(c)}] \in Job
      BY <3>1 DEF Job
    <3>3. QED
      BY <2>4, <3>2 DEF ListOverdue, Lapsed, NoCase
  <2>5. CASE RecordUpheld(w)
    <3>1. job[w].overdue \in SUBSET Cases
      BY <2>5, JobKinds DEF RecordUpheld, IInv, TypeOK
    <3>2. [at |-> "sweeping", overdue |-> job[w].overdue] \in Job
      BY <3>1 DEF Job
    <3>3. QED
      BY <2>1, <2>5, <3>2 DEF RecordUpheld, IInv, ListedExist
  <2>6. QED
    BY <2>2, <2>3, <2>4, <2>5
<1>2. UNCHANGED <<row, now>>
  BY DEF Record, OpenObjection, ListOverdue, RecordUpheld, Abort
<1>3. trail' \in [Cases -> Status \cup {NoCase}]
  <2>1. CASE Record(w)
    BY <2>1, JobKinds DEF Record, IInv, TypeOK
  <2>2. CASE RecordUpheld(w)
    BY <2>2 DEF RecordUpheld, IInv, TypeOK, Status
  <2>3. CASE (\E c \in Cases : OpenObjection(w, c)) \/ ListOverdue(w) \/ Abort(w)
    BY <2>3 DEF OpenObjection, ListOverdue, Abort, IInv, TypeOK
  <2>4. QED
    BY <2>1, <2>2, <2>3
<1>4. QED
  BY <1>1, <1>2, <1>3, JobStep

(* The writes that are not a transition: grounds, deemed dismissals, scans. *)
LEMMA RowWriteInv ==
  ASSUME IInv, TypeOK', NEW c \in Cases,
         \A w \in Workers :
           /\ job'[w].at = "decided" => job'[w] = job[w]
           /\ job'[w].at \in {"sweeping", "swept"} =>
                /\ job[w].at \in {"sweeping", "swept"}
                /\ job'[w].overdue \subseteq job[w].overdue,
         \A d \in Cases : d # c => row'[d] = row[d],
         row'[c].assessed = row[c].assessed,
         row'[c].objectionDue = row[c].objectionDue,
         row'[c].responseDue = row[c].responseDue,
         row'[c].recovered = row[c].recovered,
         row'[c].token = row[c].token,
         row'[c].llc => row[c].llc,
         row'[c].estimate \in Figures \/ row'[c].estimate = row[c].estimate,
         row[c].status = NoCase => \/ row'[c].status = NoCase
                                   \/ row'[c].estimate \in Figures,
         row[c].status # NoCase => row'[c].status # NoCase,
         row'[c].status \in {row[c].status, "OPEN", "DISMISSED"},
         row[c].resolved => row'[c].resolved,
         row'[c].status = "DISMISSED" =>
           row'[c].resolved \/ row[c].status = "DISMISSED"
  PROVE  IInv'
<1>1. KnowsNotice' /\ ListedExist'
  <2>1. \A d \in Cases : /\ Noticed(row[d]) => Noticed(row'[d])
                         /\ row'[d].token >= row[d].token
                         /\ row'[d].llc => row[d].llc
                         /\ row[d].status # NoCase => row'[d].status # NoCase
    <3> TAKE d \in Cases
    <3>1. row[d].token \in Nat
      BY DEF IInv, TypeOK, Row
    <3>2. QED
      BY <3>1 DEF Noticed
  <2>2. QED
    BY <2>1, KnowledgeKept, ListedKept DEF IInv
<1>2. Estimated'
  BY DEF IInv, Estimated
<1>3. DemandNeedsNotice' /\ NoDemandOnCompanies' /\ ObjectionHasDeadline'
  BY DEF IInv, Facts, DemandNeedsNotice, NoDemandOnCompanies,
         ObjectionHasDeadline, Demanded
<1>4. OutcomeIsRecorded'
  BY DEF IInv, Facts, OutcomeIsRecorded
<1>5. QED
  BY <1>1, <1>2, <1>3, <1>4 DEF IInv, Facts

LEMMA WriteGroundsInv ==
  ASSUME IInv, NEW w \in Workers, WriteGrounds(w) PROVE IInv'
<1>1. job[w].on \in Cases /\ row[job[w].on] \in Row
  BY JobKinds DEF WriteGrounds, IInv, TypeOK
<1> DEFINE c == job[w].on
<1>2. row'[c] = [row[c] EXCEPT !.filed = TRUE]
  BY <1>1 DEF WriteGrounds, IInv, TypeOK
<1>3. row'[c] \in Row
  BY <1>1, <1>2 DEF Row
<1>4. TypeOK'
  BY <1>1, <1>2, <1>3 DEF WriteGrounds, IInv, TypeOK, Job
<1>5. \A v \in Workers :
        /\ job'[v].at = "decided" => job'[v] = job[v]
        /\ job'[v].at \in {"sweeping", "swept"} =>
             /\ job[v].at \in {"sweeping", "swept"}
             /\ job'[v].overdue \subseteq job[v].overdue
  BY DEF WriteGrounds, IInv, TypeOK
<1>6. \A d \in Cases : d # c => row'[d] = row[d]
  BY DEF WriteGrounds, IInv, TypeOK
<1>7. /\ row'[c].assessed = row[c].assessed
      /\ row'[c].objectionDue = row[c].objectionDue
      /\ row'[c].responseDue = row[c].responseDue
      /\ row'[c].recovered = row[c].recovered
      /\ row'[c].token = row[c].token
      /\ row'[c].llc = row[c].llc
      /\ row'[c].estimate = row[c].estimate
      /\ row'[c].status = row[c].status
      /\ row'[c].resolved = row[c].resolved
  BY <1>1, <1>2 DEF Row
<1> HIDE DEF c
<1>8. c \in Cases
  BY <1>1 DEF c
<1>9. QED
  BY <1>4, <1>5, <1>6, <1>7, <1>8, RowWriteInv

LEMMA DeemUpheldInv ==
  ASSUME IInv, NEW w \in Workers, NEW c \in Cases, DeemUpheld(w, c) PROVE IInv'
<1>1. row[c] \in Row /\ job[w].overdue \in SUBSET Cases /\ row[c].status # NoCase
  BY JobKinds DEF DeemUpheld, IInv, TypeOK, ListedExist
<1>2. row'[c] = [row[c] EXCEPT !.status = "DISMISSED", !.resolved = TRUE]
  BY DEF DeemUpheld, IInv, TypeOK
<1>3. row'[c] \in Row
  BY <1>1, <1>2 DEF Row, Status
<1>4. TypeOK'
  <2>1. row' \in [Cases -> Row]
    BY <1>3 DEF DeemUpheld, IInv, TypeOK
  <2>2. [at |-> "swept", on |-> c, overdue |-> job[w].overdue \ {c}] \in Job
    BY <1>1 DEF Job
  <2>3. QED
    BY <2>1, <2>2 DEF DeemUpheld, IInv, TypeOK
<1>5. \A v \in Workers :
        /\ job'[v].at = "decided" => job'[v] = job[v]
        /\ job'[v].at \in {"sweeping", "swept"} =>
             /\ job[v].at \in {"sweeping", "swept"}
             /\ job'[v].overdue \subseteq job[v].overdue
  BY DEF DeemUpheld, IInv, TypeOK
<1>6. \A d \in Cases : d # c => row'[d] = row[d]
  BY DEF DeemUpheld, IInv, TypeOK
<1>7. /\ row'[c].assessed = row[c].assessed
      /\ row'[c].objectionDue = row[c].objectionDue
      /\ row'[c].responseDue = row[c].responseDue
      /\ row'[c].recovered = row[c].recovered
      /\ row'[c].token = row[c].token
      /\ row'[c].llc = row[c].llc
      /\ row'[c].estimate = row[c].estimate
      /\ row'[c].status = "DISMISSED" /\ row'[c].resolved
  BY <1>1, <1>2 DEF Row
<1>8. QED
  BY <1>1, <1>4, <1>5, <1>6, <1>7, RowWriteInv DEF NoCase

LEMMA ScanInv ==
  ASSUME IInv, NEW c \in Cases, NEW figure \in Figures, ScanUpsert(c, figure)
  PROVE  IInv'
<1>1. row[c] \in Row
  BY DEF IInv, TypeOK
<1>2. row'[c] = [row[c] EXCEPT !.estimate = figure, !.llc = FALSE,
                               !.status = IF @ = NoCase THEN "OPEN" ELSE @]
  BY DEF ScanUpsert, IInv, TypeOK
<1>3. /\ row'[c].assessed = row[c].assessed
      /\ row'[c].objectionDue = row[c].objectionDue
      /\ row'[c].responseDue = row[c].responseDue
      /\ row'[c].recovered = row[c].recovered
      /\ row'[c].token = row[c].token
      /\ row'[c].llc = FALSE
      /\ row'[c].estimate = figure
      /\ row'[c].resolved = row[c].resolved
      /\ row'[c].status = IF row[c].status = NoCase THEN "OPEN" ELSE row[c].status
  BY <1>1, <1>2 DEF Row
<1>4. row'[c] \in Row
  BY <1>1, <1>2 DEF Row, Status
<1>5. TypeOK'
  BY <1>4 DEF ScanUpsert, IInv, TypeOK
<1>6. \A d \in Cases : d # c => row'[d] = row[d]
  BY DEF ScanUpsert, IInv, TypeOK
<1>7. UNCHANGED job
  BY DEF ScanUpsert
<1>8. QED
  BY <1>3, <1>5, <1>6, <1>7, RowWriteInv DEF NoCase

LEMMA QuietInv == ASSUME IInv, Tick \/ UNCHANGED vars PROVE IInv'
<1>1. TypeOK'
  BY WindowsAssumption DEF IInv, TypeOK, Tick, vars
<1>2. UNCHANGED <<row, job>>
  BY DEF Tick, vars
<1>3. KnowsNotice' /\ ListedExist' /\ Estimated'
  BY <1>2 DEF IInv, KnowsNotice, ListedExist, Estimated
<1>4. Facts'
  BY <1>2 DEF IInv, Facts, DemandNeedsNotice, NoDemandOnCompanies,
              ObjectionHasDeadline, OutcomeIsRecorded
<1>5. QED
  BY <1>1, <1>3, <1>4 DEF IInv

LEMMA StepInv == IInv /\ [Next]_vars => IInv'
<1> SUFFICES ASSUME IInv, [Next]_vars PROVE IInv'
  OBVIOUS
<1>1. CASE \E w \in Workers : Staff(w)
  BY <1>1, DecideInv DEF Staff
<1>2. CASE \E w \in Workers : Finish(w)
  BY <1>2, WriteInv, BookkeepingInv DEF Finish
<1>3. CASE \E w \in Workers : Objection(w)
  BY <1>3, BookkeepingInv, WriteGroundsInv, CallTransitionInv DEF Objection
<1>4. CASE \E w \in Workers : ListOverdue(w) \/ Abort(w)
  BY <1>4, BookkeepingInv
<1>5. CASE \E w \in Workers : SweepStep(w)
  BY <1>5, BookkeepingInv, DeemUpheldInv DEF SweepStep
<1>6. CASE Scan
  BY <1>6, ScanInv DEF Scan
<1>7. CASE Tick \/ UNCHANGED vars
  BY <1>7, QuietInv
<1>8. QED
  BY <1>1, <1>2, <1>3, <1>4, <1>5, <1>6, <1>7 DEF Next

(* Type correctness: every row, job and audit status is well formed, for any *)
(* number of overlapping calls (transition, fileObjection, processDeadlines  *)
(* and the scan's upsert).                                                   *)
THEOREM TypeCorrect == Spec => []TypeOK
<1>1. IInv => TypeOK
  BY DEF IInv
<1>2. QED
  BY InitInv, StepInv, <1>1, PTL DEF Spec

(* However transition calls, objections, sweeps and scans overlap, no        *)
(* taxpayer is held to a demand without an assessment, an objection deadline *)
(* and an access token written when the notice was issued.                   *)
THEOREM NoDemandWithoutNotice == Spec => []DemandNeedsNotice
<1>1. IInv => DemandNeedsNotice
  BY DEF IInv, Facts
<1>2. QED
  BY InitInv, StepInv, <1>1, PTL DEF Spec

(* No limited company is assessed by the state, whatever calls and scans     *)
(* overlap: transition refuses one its notice, and a scan that runs in       *)
(* between only ever clears the mark of a company.                           *)
THEOREM NoCompanyIsAssessed == Spec => []NoDemandOnCompanies
<1>1. IInv => NoDemandOnCompanies
  BY DEF IInv, Facts
<1>2. QED
  BY InitInv, StepInv, <1>1, PTL DEF Spec

(* An objection always has its deadline and an ended case its outcome, under *)
(* the same overlaps.                                                        *)
THEOREM ObjectionsRunToADeadline == Spec => [](ObjectionHasDeadline /\ OutcomeIsRecorded)
<1>1. IInv => ObjectionHasDeadline /\ OutcomeIsRecorded
  BY DEF IInv, Facts
<1>2. QED
  BY InitInv, StepInv, <1>1, PTL DEF Spec

------------------------------------------------------------------------------
(* One call at a time: what was read is still what is there.                 *)
StillCurrent ==
  \A w \in Workers :
    /\ job[w].at = "decided" => row[job[w].on].status = job[w].seen.status
    /\ job[w].at \in {"sweeping", "swept"} =>
         \A c \in job[w].overdue : row[c].status = "OBJECTION"

SInv == IInv /\ StillCurrent

LEMMA SerialStep ==
  ASSUME NEW v, Workers = {v}, SInv, [Next]_vars
  PROVE  StillCurrent'
<1> USE DEF SInv
<1>0. /\ v \in Workers /\ job \in [Workers -> Job] /\ job[v] \in Job
      /\ row \in [Cases -> Row]
  BY DEF IInv, TypeOK
<1>1. CASE \E w \in Workers : Staff(w)
  BY <1>0, <1>1 DEF Staff, Decide, Decision, StillCurrent
<1>2. CASE \E w \in Workers : Write(w)
  BY <1>0, <1>2 DEF Write, StillCurrent
<1>3. CASE \E w \in Workers : Record(w) \/ Abort(w)
  BY <1>0, <1>3 DEF Record, Abort, Idle, StillCurrent
<1>4. CASE \E w \in Workers : Objection(w)
  <2>1. CASE \E c \in Cases : OpenObjection(v, c)
    BY <1>0, <2>1 DEF OpenObjection, StillCurrent
  <2>2. CASE WriteGrounds(v)
    BY <1>0, <2>2 DEF WriteGrounds, StillCurrent
  <2>3. CASE CallTransition(v)
    BY <1>0, <2>3 DEF CallTransition, Decision, Idle, StillCurrent
  <2>4. QED
    BY <1>0, <1>4, <2>1, <2>2, <2>3 DEF Objection
<1>5. CASE \E w \in Workers : ListOverdue(w)
  <2>1. /\ job' = [job EXCEPT ![v] =
                     [at |-> "sweeping", overdue |-> {c \in Cases : Lapsed(c)}]]
        /\ UNCHANGED row
    BY <1>0, <1>5 DEF ListOverdue
  <2>2. \A c \in {d \in Cases : Lapsed(d)} : row[c].status = "OBJECTION"
    BY DEF Lapsed
  <2>3. QED
    BY <1>0, <2>1, <2>2 DEF StillCurrent
<1>6. CASE \E w \in Workers : SweepStep(w)
  <2>1. CASE \E c \in Cases : DeemUpheld(v, c)
    <3>1. PICK c \in Cases : DeemUpheld(v, c)
      BY <2>1
    <3>2. /\ job'[v].at = "swept" /\ job'[v].overdue = job[v].overdue \ {c}
          /\ \A d \in Cases : d # c => row'[d] = row[d]
          /\ job[v].overdue \in SUBSET Cases /\ job[v].at = "sweeping"
      BY <1>0, <3>1, JobKinds DEF DeemUpheld
    <3>3. QED
      BY <1>0, <3>2 DEF StillCurrent
  <2>2. CASE RecordUpheld(v)
    BY <1>0, <2>2 DEF RecordUpheld, Idle, StillCurrent
  <2>3. QED
    BY <1>0, <1>6, <2>1, <2>2 DEF SweepStep
<1>7. CASE Scan
  <2>1. PICK c \in Cases, figure \in Figures : ScanUpsert(c, figure)
    BY <1>7 DEF Scan
  <2>2. \A d \in Cases : row[d].status # NoCase => row'[d].status = row[d].status
    BY <1>0, <2>1 DEF ScanUpsert, Row
  <2>3. UNCHANGED job
    BY <2>1 DEF ScanUpsert
  <2>4. QED
    BY <1>0, <2>2, <2>3, JobKinds
       DEF StillCurrent, IInv, KnowsNotice, ListedExist
<1>8. CASE Tick \/ UNCHANGED vars
  BY <1>8 DEF Tick, vars, StillCurrent
<1>9. QED
  BY <1>1, <1>2, <1>3, <1>4, <1>5, <1>6, <1>7, <1>8 DEF Next, Finish

(* TRANSITIONS, as the function the code has and as the relation of the law. *)
LEMMA SameMap ==
  ASSUME NEW from \in Status, NEW to \in Allowed[from]
  PROVE  <<from, to>> \in Law!Transitions /\ to \in Status
BY DEF Allowed, Status, Law!Transitions

LEMMA InitRefines == Init => Law!Init
<1> SUFFICES ASSUME Init PROVE Law!Init
  OBVIOUS
<1>1. PICK opened \in SUBSET Legacy, figure \in Figures :
        row = [c \in Cases |->
                 IF c \in opened
                 THEN [Blank EXCEPT !.status = "OPEN", !.llc = TRUE,
                                    !.estimate = figure]
                 ELSE Blank]
  BY DEF Init
<1>2. \A c \in Cases : row[c].status \in {NoCase, "OPEN"} /\ row[c].assessed = Unset
  BY <1>1 DEF Blank
<1>3. QED
  BY <1>2 DEF Law!Init, Law!NoCase, Law!Unset, NoCase, Unset

(* A step that leaves every status and assessment alone is a stutter. *)
LEMMA Stutter ==
  ASSUME \A c \in Cases : /\ row'[c].status = row[c].status
                          /\ row'[c].assessed = row[c].assessed
  PROVE  UNCHANGED Law!vars
BY DEF Law!vars

(* A step that moves one case along the map is a step of the law. *)
LEMMA MovesAlong ==
  ASSUME NEW c \in Cases, NEW to \in Status,
         <<row[c].status, to>> \in Law!Transitions,
         row'[c].status = to,
         IF to = "NOTICE_ISSUED" THEN row'[c].assessed \in Nat
         ELSE row'[c].assessed = row[c].assessed,
         \A d \in Cases : d # c => row'[d] = row[d]
  PROVE  Law!Next
<1> DEFINE st == [d \in Cases |-> row[d].status]
           dm == [d \in Cases |-> row[d].assessed]
<1>1. st' = [st EXCEPT ![c] = to]
  OBVIOUS
<1>2. CASE to = "NOTICE_ISSUED"
  <2>1. dm' = [dm EXCEPT ![c] = dm'[c]] /\ dm'[c] \in Nat
    BY <1>2
  <2>2. Law!IssueNotice(c)
    BY <1>1, <1>2, <2>1 DEF Law!IssueNotice
  <2>3. QED
    BY <2>2 DEF Law!Next
<1>3. CASE to # "NOTICE_ISSUED"
  <2>1. dm' = dm
    BY <1>3
  <2>2. Law!Advance(c, to)
    BY <1>1, <1>3, <2>1 DEF Law!Advance
  <2>3. to \in Law!Status
    BY DEF Status, Law!Status
  <2>4. QED
    BY <2>2, <2>3 DEF Law!Next
<1>4. QED
  BY <1>2, <1>3

LEMMA StepRefines ==
  ASSUME NEW v, Workers = {v}, SInv, [Next]_vars
  PROVE  [Law!Next]_Law!vars
<1>0. /\ v \in Workers /\ job[v] \in Job /\ row \in [Cases -> Row] /\ TypeOK
      /\ IInv /\ StillCurrent
  BY DEF SInv, IInv, TypeOK
<1>1. CASE Write(v)
  <2> DEFINE c == job[v].on
             to == job[v].to
             seen == job[v].seen
  <2>1. c \in Cases /\ to \in Status /\ seen \in Snapshot /\ now \in Nat
    BY <1>0, <1>1, JobKinds DEF Write, TypeOK
  <2>2. to \in Allowed[row[c].status] /\ row[c].status \in Status
    BY <1>0, <1>1, <2>1 DEF Write, IInv, KnowsNotice, StillCurrent, Snapshot
  <2>3. PICK paid \in Figures \cup {Unset} :
          row' = [row EXCEPT ![c] = Stamped(row[c], to, seen, paid)]
    BY <1>1 DEF Write
  <2>4. /\ row'[c] = Stamped(row[c], to, seen, paid) /\ row[c] \in Row
        /\ \A d \in Cases : d # c => row'[d] = row[d]
    BY <1>0, <2>1, <2>3
  <2>5. /\ row'[c].status = to
        /\ row'[c] \in Row
        /\ to = "NOTICE_ISSUED" => row'[c].assessed # Unset
        /\ to # "NOTICE_ISSUED" => row'[c].assessed = row[c].assessed
    BY <2>1, <2>4, StampedRow
  <2>6. to = "NOTICE_ISSUED" => row'[c].assessed \in Nat
    BY <2>5, FiguresAssumption DEF Row
  <2>7. <<row[c].status, to>> \in Law!Transitions
    BY <2>2, SameMap
  <2>8. Law!Next
    BY <2>1, <2>4, <2>5, <2>6, <2>7, MovesAlong
  <2>9. QED
    BY <2>8
<1>2. CASE \E c \in Cases : DeemUpheld(v, c)
  <2>1. PICK c \in Cases : DeemUpheld(v, c)
    BY <1>2
  <2>2. row[c].status = "OBJECTION"
    BY <1>0, <2>1 DEF StillCurrent, DeemUpheld
  <2>3. /\ row'[c].status = "DISMISSED" /\ row'[c].assessed = row[c].assessed
        /\ \A d \in Cases : d # c => row'[d] = row[d]
    BY <1>0, <2>1 DEF DeemUpheld, Row
  <2>4. /\ <<row[c].status, "DISMISSED">> \in Law!Transitions
        /\ "DISMISSED" \in Status
    BY <2>2 DEF Law!Transitions, Status
  <2>5. Law!Next
    BY <2>3, <2>4, MovesAlong
  <2>6. QED
    BY <2>5
<1>3. CASE Scan
  <2>1. PICK c \in Cases, figure \in Figures : ScanUpsert(c, figure)
    BY <1>3 DEF Scan
  <2>2. /\ row'[c].status = IF row[c].status = NoCase THEN "OPEN" ELSE row[c].status
        /\ row'[c].assessed = row[c].assessed
        /\ \A d \in Cases : d # c => row'[d] = row[d]
    BY <1>0, <2>1 DEF ScanUpsert, Row
  <2>3. CASE row[c].status = NoCase
    <3> DEFINE st == [d \in Cases |-> row[d].status]
               dm == [d \in Cases |-> row[d].assessed]
    <3>1. st' = [st EXCEPT ![c] = "OPEN"] /\ dm' = dm /\ st[c] = NoCase
      BY <2>2, <2>3
    <3>2. Law!Open(c)
      BY <3>1 DEF Law!Open, Law!NoCase, NoCase
    <3>3. QED
      BY <3>2 DEF Law!Next
  <2>4. CASE row[c].status # NoCase
    BY <2>2, <2>4, Stutter
  <2>5. QED
    BY <2>3, <2>4
<1>4. CASE WriteGrounds(v)
  <2>1. job[v].on \in Cases
    BY <1>0, <1>4, JobKinds DEF WriteGrounds
  <2>2. \A c \in Cases : /\ row'[c].status = row[c].status
                         /\ row'[c].assessed = row[c].assessed
    BY <1>0, <1>4, <2>1 DEF WriteGrounds, Row
  <2>3. QED
    BY <2>2, Stutter
<1>5. CASE UNCHANGED row
  BY <1>5, Stutter
<1>6. UNCHANGED row \/ Write(v) \/ (\E c \in Cases : DeemUpheld(v, c))
        \/ Scan \/ WriteGrounds(v)
  BY <1>0 DEF Next, Staff, Decide, Finish, Record, Objection, OpenObjection,
       CallTransition, ListOverdue, SweepStep, RecordUpheld, Abort, Tick, vars
<1>7. QED
  BY <1>1, <1>2, <1>3, <1>4, <1>5, <1>6

(* With calls on the register serialised the program implements CaseLaw: the *)
(* transition map is enforced and no assessment is ever revised, also when a *)
(* call dies midway.                                                         *)
THEOREM SerialRefinesLaw ==
  ASSUME NEW v, Workers = {v}
  PROVE  Spec => ImplementsLaw
<1>1. Init => SInv
  <2>1. Init => \A w \in Workers : job[w].at = "idle"
    BY DEF Init, Idle
  <2>2. QED
    BY <2>1, InitInv DEF SInv, StillCurrent
<1>2. SInv /\ [Next]_vars => SInv'
  BY StepInv, SerialStep DEF SInv
<1>3. SInv /\ [Next]_vars => [Law!Next]_Law!vars
  BY StepRefines
<1>4. QED
  BY <1>1, <1>2, <1>3, InitRefines, PTL DEF Spec, ImplementsLaw, Law!Spec

------------------------------------------------------------------------------
(* One call at a time that runs to its end: the records that are written     *)
(* apart from the row follow it.  The newest audit entry about a case shows  *)
(* its status, and grounds on file have started the clock; what a call still *)
(* owes in between is written in its job.                                    *)
\* A scan opens cases without an entry.
InSync(c) == \/ trail[c] = row[c].status
             \/ trail[c] = NoCase /\ row[c].status = "OPEN"

OwesEntry(j, c) == j.at \in {"written", "swept"} /\ j.on = c
OwesClock(j, c) == /\ j.on = c
                   /\ \/ j.at = "grounded"
                      \/ j.at = "decided" /\ j.to = "OBJECTION"

\* The log is behind on one case at most: the one whose entry the call owes.
LogFollows(j) ==
  /\ \A c \in Cases : OwesEntry(j, c) \/ InSync(c)
  /\ j.at = "written" => row[j.on].status = j.to
  /\ j.at = "swept" => row[j.on].status = "DISMISSED"

\* Grounds without a clock are those of the objection under way, which the
\* transition cannot refuse: the notice is still open.
ClockFollows(j) ==
  /\ \A c \in Cases : row[c].filed /\ ~OwesClock(j, c) => row[c].responseDue # Unset
  /\ j.at \in {"objecting", "grounded"} => row[j.on].status = "NOTICE_ISSUED"

Behind(v) == IInv /\ LogFollows(job[v]) /\ ClockFollows(job[v])

-----------------------------------------------------------------------------
LEMMA InitFollows == ASSUME NEW v \in Workers PROVE Init => Behind(v)
<1> SUFFICES ASSUME Init PROVE Behind(v)
  OBVIOUS
<1>1. job[v] = Idle /\ \A c \in Cases : trail[c] = row[c].status /\ ~row[c].filed
  BY DEF Init, Blank
<1>2. QED
  BY <1>1, InitInv DEF Behind, LogFollows, ClockFollows, InSync, Idle

\* A step that writes no row and no entry: what the new job owes the old one did.
LEMMA BookkeepingFollows ==
  ASSUME NEW v \in Workers, Behind(v), UNCHANGED <<row, trail>>,
         job[v].at \notin {"written", "swept"},
         job'[v].at \notin {"written", "swept"},
         \A c \in Cases : OwesClock(job[v], c) => OwesClock(job'[v], c),
         job'[v].at \in {"objecting", "grounded"} =>
            row[job'[v].on].status = "NOTICE_ISSUED"
  PROVE  LogFollows(job[v])' /\ ClockFollows(job[v])'
BY DEF Behind, LogFollows, ClockFollows, InSync, OwesEntry

LEMMA ReadingFollows ==
  ASSUME NEW v \in Workers, Behind(v),
         \/ \E c \in Cases, to \in Status : Decide(v, c, to)
         \/ \E c \in Cases : OpenObjection(v, c)
         \/ CallTransition(v) \/ ListOverdue(v)
  PROVE  LogFollows(job[v])' /\ ClockFollows(job[v])'
<1>0. job \in [Workers -> Job]
  BY DEF Behind, IInv, TypeOK
<1>1. CASE \E c \in Cases, to \in Status : Decide(v, c, to)
  BY <1>0, <1>1, BookkeepingFollows DEF Decide, Decision, OwesClock
<1>2. CASE \E c \in Cases : OpenObjection(v, c)
  BY <1>0, <1>2, BookkeepingFollows DEF OpenObjection, OwesClock
<1>3. CASE CallTransition(v)
  <2>1. job[v].at = "grounded" /\ row[job[v].on].status = "NOTICE_ISSUED"
    BY <1>3 DEF CallTransition, Behind, ClockFollows
  <2>2. Admits(job[v].on, "OBJECTION")
    BY <2>1 DEF Admits, Allowed
  <2>3. job'[v] = Decision(job[v].on, "OBJECTION") /\ UNCHANGED <<row, trail>>
    BY <1>0, <1>3, <2>2 DEF CallTransition
  <2>4. QED
    BY <2>1, <2>3, BookkeepingFollows DEF Decision, OwesClock
<1>4. CASE ListOverdue(v)
  BY <1>0, <1>4, BookkeepingFollows DEF ListOverdue, OwesClock
<1>5. QED
  BY <1>1, <1>2, <1>3, <1>4

LEMMA WriteGroundsFollows ==
  ASSUME NEW v \in Workers, Behind(v), WriteGrounds(v)
  PROVE  LogFollows(job[v])' /\ ClockFollows(job[v])'
<1> DEFINE c == job[v].on
<1>1. /\ c \in Cases /\ row[c] \in Row /\ job[v].at = "objecting"
      /\ row[c].status = "NOTICE_ISSUED"
  BY JobKinds DEF WriteGrounds, Behind, ClockFollows, IInv, TypeOK
<1>2. /\ row'[c].status = row[c].status
      /\ \A d \in Cases : d # c => row'[d] = row[d]
      /\ UNCHANGED trail
  BY <1>1 DEF WriteGrounds, Behind, IInv, TypeOK, Row
<1>3. job'[v].at = "grounded" /\ job'[v].on = c
  BY DEF WriteGrounds, Behind, IInv, TypeOK
<1>4. LogFollows(job[v])'
  <2>1. \A d \in Cases : InSync(d)
    BY <1>1 DEF Behind, LogFollows, OwesEntry
  <2>2. \A d \in Cases : InSync(d)'
    BY <1>2, <2>1 DEF InSync
  <2>3. QED
    BY <1>3, <2>2 DEF LogFollows
<1>5. ClockFollows(job[v])'
  <2>1. \A d \in Cases \ {c} : ~OwesClock(job[v], d)
    BY <1>1 DEF OwesClock
  <2>2. OwesClock(job'[v], c)
    BY <1>3 DEF OwesClock
  <2>3. QED
    BY <1>1, <1>2, <1>3, <2>1, <2>2 DEF Behind, ClockFollows
<1>6. QED
  BY <1>4, <1>5

\* The stamp leaves the grounds alone, and sets the clock of an objection.
LEMMA StampedClock ==
  ASSUME NEW r \in Row, NEW to \in Status, NEW seen \in Snapshot,
         NEW paid \in Figures \cup {Unset}
  PROVE  /\ Stamped(r, to, seen, paid).filed = r.filed
         /\ to # "OBJECTION" => Stamped(r, to, seen, paid).responseDue = r.responseDue
BY DEF Row, Stamped, ResponseDue

LEMMA WriteFollows ==
  ASSUME NEW v \in Workers, Behind(v), Write(v)
  PROVE  LogFollows(job[v])' /\ ClockFollows(job[v])'
<1> DEFINE c == job[v].on
           to == job[v].to
           seen == job[v].seen
<1>1. /\ c \in Cases /\ to \in Status /\ seen \in Snapshot /\ now \in Nat
      /\ row[c] \in Row /\ job[v].at = "decided"
  BY JobKinds DEF Write, Behind, IInv, TypeOK
<1>2. PICK paid \in Figures \cup {Unset} :
        row' = [row EXCEPT ![c] = Stamped(row[c], to, seen, paid)]
  BY DEF Write
<1>3. /\ row'[c] = Stamped(row[c], to, seen, paid)
      /\ \A d \in Cases : d # c => row'[d] = row[d]
      /\ UNCHANGED trail
  BY <1>1, <1>2 DEF Behind, IInv, TypeOK, Write
<1>4. /\ row'[c].status = to
      /\ to = "OBJECTION" => row'[c].responseDue # Unset
      /\ to # "OBJECTION" => row'[c].responseDue = row[c].responseDue
      /\ row'[c].filed = row[c].filed
  BY <1>1, <1>3, StampedRow, StampedClock
<1>5. job'[v].at = "written" /\ job'[v].on = c /\ job'[v].to = to
  BY DEF Write, Behind, IInv, TypeOK
<1>6. LogFollows(job[v])'
  <2>1. \A d \in Cases : InSync(d)
    BY <1>1 DEF Behind, LogFollows, OwesEntry
  <2>2. \A d \in Cases : d # c => InSync(d)'
    BY <1>3, <2>1 DEF InSync
  <2>3. QED
    BY <1>4, <1>5, <2>2 DEF LogFollows, OwesEntry
<1>7. ClockFollows(job[v])'
  <2>1. \A d \in Cases : row[d].filed /\ ~OwesClock(job[v], d) => row[d].responseDue # Unset
    BY DEF Behind, ClockFollows
  <2>2. ASSUME NEW d \in Cases, row'[d].filed PROVE row'[d].responseDue # Unset
    <3>1. CASE d # c
      BY <1>3, <2>1, <2>2, <3>1 DEF OwesClock
    <3>2. CASE d = c /\ to = "OBJECTION"
      BY <1>4, <3>2
    <3>3. CASE d = c /\ to # "OBJECTION"
      <4>1. row[c].filed /\ ~OwesClock(job[v], c)
        BY <1>1, <1>4, <2>2, <3>3 DEF OwesClock
      <4>2. QED
        BY <1>1, <1>4, <2>1, <3>3, <4>1
    <3>4. QED
      BY <3>1, <3>2, <3>3
  <2>3. QED
    BY <1>5, <2>2 DEF ClockFollows
<1>8. QED
  BY <1>6, <1>7

LEMMA RecordFollows ==
  ASSUME NEW v \in Workers, Behind(v), Record(v) \/ RecordUpheld(v)
  PROVE  LogFollows(job[v])' /\ ClockFollows(job[v])'
<1> DEFINE c == job[v].on
<1>1. /\ c \in Cases /\ trail \in [Cases -> Status \cup {NoCase}]
      /\ job[v].at \in {"written", "swept"} /\ UNCHANGED row
  BY JobKinds DEF Record, RecordUpheld, Behind, IInv, TypeOK
<1>2. trail'[c] = row[c].status /\ \A d \in Cases : d # c => trail'[d] = trail[d]
  BY <1>1 DEF Record, RecordUpheld, Behind, LogFollows
<1>3. job'[v].at \in {"idle", "sweeping"}
  BY DEF Record, RecordUpheld, Behind, IInv, TypeOK, Idle
<1>4. \A d \in Cases : InSync(d)'
  BY <1>1, <1>2 DEF Behind, LogFollows, OwesEntry, InSync
<1>5. \A d \in Cases : row[d].filed => row[d].responseDue # Unset
  BY <1>1 DEF Behind, ClockFollows, OwesClock
<1>6. QED
  BY <1>1, <1>3, <1>4, <1>5 DEF LogFollows, ClockFollows

LEMMA DeemUpheldFollows ==
  ASSUME NEW v \in Workers, Behind(v), NEW c \in Cases, DeemUpheld(v, c)
  PROVE  LogFollows(job[v])' /\ ClockFollows(job[v])'
<1>1. row[c] \in Row /\ job[v].at = "sweeping"
  BY DEF DeemUpheld, Behind, IInv, TypeOK
<1>2. row'[c] = [row[c] EXCEPT !.status = "DISMISSED", !.resolved = TRUE]
  BY DEF DeemUpheld, Behind, IInv, TypeOK
<1>3. /\ row'[c].status = "DISMISSED" /\ row'[c].filed = row[c].filed
      /\ row'[c].responseDue = row[c].responseDue
      /\ \A d \in Cases : d # c => row'[d] = row[d]
      /\ UNCHANGED trail
  BY <1>1, <1>2 DEF DeemUpheld, Behind, IInv, TypeOK, Row
<1>4. job'[v].at = "swept" /\ job'[v].on = c
  BY DEF DeemUpheld, Behind, IInv, TypeOK
<1>5. \A d \in Cases : d # c => InSync(d)'
  BY <1>1, <1>3 DEF Behind, LogFollows, OwesEntry, InSync
<1>6. \A d \in Cases : row'[d].filed => row'[d].responseDue # Unset
  BY <1>1, <1>3 DEF Behind, ClockFollows, OwesClock
<1>7. QED
  BY <1>3, <1>4, <1>5, <1>6 DEF LogFollows, ClockFollows, OwesEntry

\* The scan changes the status of no case there is, and no call is on another.
LEMMA ScanFollows ==
  ASSUME NEW v \in Workers, Behind(v), NEW c \in Cases, NEW figure \in Figures,
         ScanUpsert(c, figure)
  PROVE  LogFollows(job[v])' /\ ClockFollows(job[v])'
<1>1. row[c] \in Row /\ job[v] \in Job
  BY DEF Behind, IInv, TypeOK
<1>2. row'[c] = [row[c] EXCEPT !.estimate = figure, !.llc = FALSE,
                               !.status = IF @ = NoCase THEN "OPEN" ELSE @]
  BY DEF ScanUpsert, Behind, IInv, TypeOK
<1>3. /\ row'[c].status = IF row[c].status = NoCase THEN "OPEN" ELSE row[c].status
      /\ row'[c].filed = row[c].filed /\ row'[c].responseDue = row[c].responseDue
      /\ \A d \in Cases : d # c => row'[d] = row[d]
      /\ UNCHANGED <<job, trail>>
  BY <1>1, <1>2 DEF ScanUpsert, Behind, IInv, TypeOK, Row
<1>4. \A d \in Cases : row[d].status # NoCase => row'[d].status = row[d].status
  BY <1>3
<1>5. job[v].at \in {"written", "swept", "objecting", "grounded"} =>
        job[v].on \in Cases /\ row[job[v].on].status # NoCase
  BY <1>1, JobKinds DEF Behind, LogFollows, ClockFollows, NoCase, Status
<1>6. \A d \in Cases : InSync(d) => InSync(d)'
  BY <1>3, <1>4 DEF InSync
<1>7. \A d \in Cases : row'[d].filed = row[d].filed /\ row'[d].responseDue = row[d].responseDue
  BY <1>3
<1>8. LogFollows(job[v])'
  BY <1>3, <1>4, <1>5, <1>6 DEF Behind, LogFollows
<1>9. ClockFollows(job[v])'
  BY <1>3, <1>4, <1>5, <1>7 DEF Behind, ClockFollows
<1>10. QED
  BY <1>8, <1>9

LEMMA StepFollows ==
  ASSUME NEW v, Workers = {v}, ~MayAbort
  PROVE  Behind(v) /\ [Next]_vars => Behind(v)'
<1> SUFFICES ASSUME Behind(v), [Next]_vars PROVE LogFollows(job[v])' /\ ClockFollows(job[v])'
  BY StepInv DEF Behind
<1>1. CASE Staff(v) \/ Objection(v) \/ ListOverdue(v)
  BY <1>1, ReadingFollows, WriteGroundsFollows DEF Staff, Objection
<1>2. CASE Finish(v)
  BY <1>2, WriteFollows, RecordFollows DEF Finish
<1>3. CASE SweepStep(v)
  BY <1>3, DeemUpheldFollows, RecordFollows DEF SweepStep
<1>4. CASE Scan
  BY <1>4, ScanFollows DEF Scan
<1>5. CASE Tick \/ UNCHANGED vars
  BY <1>5 DEF Tick, vars, Behind, LogFollows, ClockFollows, InSync
<1>6. QED
  BY <1>1, <1>2, <1>3, <1>4, <1>5 DEF Next, Abort

\* With one call at a time and no call that dies midway, whenever no call is in
\* flight the audit log shows the status of every case (transition and
\* processDeadlines, which log after the update), and the clock of the
\* authority's answer runs for all grounds on file (fileObjection, which records
\* them before its nested transition).
THEOREM SerialRecordsFollow ==
  ASSUME NEW v, Workers = {v}, ~MayAbort
  PROVE  Spec => []RecordsFollow
<1>1. Behind(v) => RecordsFollow
  BY DEF Behind, LogFollows, ClockFollows, OwesEntry, OwesClock, InSync, Idle,
         RecordsFollow, AuditShowsStatus, GroundsStartClock
<1>2. Init => Behind(v)
  BY InitFollows
<1>3. QED
  BY <1>1, <1>2, StepFollows, PTL DEF Spec
==============================================================================
