------------------------------- MODULE MCConsole -------------------------------
(* The console in a browser: the pages that list, the pages that show one      *)
(* record, the assistant's page and the way to raw records.  An instance       *)
(* explores ONE part, on slots shared by all.                                  *)
EXTENDS Naturals, Sequences, FiniteSets
CONSTANTS
    k, t,                                                      \* a filter, a word
    Row, Kind, Matching, Text, Naming, All, Nothing,           \* the lists,
    Limit, ListAsks, MaxLeaves,
    RecordAsks, MaxOthers,                                     \* the records,
    MaxTurns, MaxOpens,                                        \* the assistant
    Window, Session, StepUp, MaxTime, MaxGrants, MaxRevokes    \* and the gate

VARIABLES
    focus,        \* the part explored
    s1, s2, s3, s4, s5, s6, s7, s8, s9, s10, s11, s12, s13, s14

ten  == <<s1, s2, s3, s4, s5, s6, s7, s8, s9, s10>>
rest == <<s13, s14>>
all  == <<focus, ten, s11, s12, rest>>

(* Lists: three rows on pages of one; a filter that keeps two of them and a    *)
(* word that keeps another two; four requests, one row that leaves.            *)
MCMatching == [x \in {k} |-> {1, 2}]
MCNaming   == [x \in {t} |-> {2, 3}]
Lists == INSTANCE ListPages WITH
    MaxAsks <- ListAsks,
    page <- s1, controls <- s2, typed <- s3, flying <- s4, asks <- s5, shown <- s6,
    error <- s7, spin <- s8, rows <- s9, acting <- s10, overtaken <- s11
ListsNext == Lists!Next /\ UNCHANGED <<s12, rest>>

(* Records: four requests, and one change by someone else.                     *)
Records == INSTANCE RecordPages WITH
    MaxAsks <- RecordAsks,
    page <- s1, rec <- s2, view <- s3, seen <- s4, flying <- s5, asks <- s6, busy <- s7,
    error <- s8, secret <- s9, given <- s10, served <- s11, history <- s12
RecordsNext == Records!Next /\ UNCHANGED rest

(* Iris: two messages, two conversations opened.                               *)
Iris == INSTANCE IrisPage WITH
    items <- s1, chat <- s2, stream <- s3, turns <- s4, opening <- s5, opens <- s6,
    saved <- s7, drafts <- s8, working <- s9, history <- s10
IrisNext == Iris!Next /\ UNCHANGED <<s11, s12, rest>>

(* Gate: a window of one unit, a session of two, a step-up of one.             *)
Gate == INSTANCE RecordGate WITH
    Idle <- StepUp,
    form <- s1, label <- s2, now <- s3, assigned <- s4, grants <- s5, seen <- s6, raw <- s7,
    step <- s8, chosen <- s9, fetching <- s10, records <- s11, opened <- s12,
    revokes <- s13, crossed <- s14

ASSUME ListConstants   == Lists!ListAssumption
ASSUME RecordConstants == Records!RecordAssumption
ASSUME IrisConstants   == Iris!PageAssumption
ASSUME GateConstants   == Gate!GateAssumption

----------------------------------------------------------------------------
MCInit ==
    \/ focus = "lists" /\ Lists!Init /\ s12 = 0 /\ s13 = 0 /\ s14 = 0
    \/ focus = "records" /\ Records!Init /\ s13 = 0 /\ s14 = 0
    \/ focus = "iris" /\ Iris!Init /\ s11 = 0 /\ s12 = 0 /\ s13 = 0 /\ s14 = 0
    \/ focus = "gate" /\ Gate!Init

MCNext ==
    /\ focus' = focus
    /\ \/ focus = "lists" /\ ListsNext
       \/ focus = "records" /\ RecordsNext
       \/ focus = "iris" /\ IrisNext
       \/ focus = "gate" /\ Gate!Next

\* The fairness of each part.
MCSpec ==
    /\ MCInit /\ [][MCNext]_all
    /\ WF_all(focus = "lists" /\ Lists!Settle /\ UNCHANGED <<focus, s12, rest>>)
    /\ WF_all(focus = "records" /\ Records!Settle /\ UNCHANGED <<focus, rest>>)
    /\ WF_all(focus = "iris" /\ Iris!StreamEnds /\ UNCHANGED <<focus, s11, s12, rest>>)
    /\ \A n \in 1..MaxTurns : WF_all(focus = "iris" /\ Iris!Answered(n) /\ UNCHANGED <<focus, s11, s12, rest>>)
    /\ WF_all(focus = "gate" /\ Gate!Look /\ focus' = focus)
    /\ WF_all(focus = "gate" /\ Gate!SelfAssign /\ focus' = focus)
    /\ WF_all(focus = "gate" /\ Gate!Ask /\ focus' = focus)
    /\ WF_all(focus = "gate" /\ Gate!Decide /\ focus' = focus)
    /\ WF_all(focus = "gate" /\ Gate!Redeem /\ focus' = focus)

----------------------------------------------------------------------------
(* The type invariants of the parts.                                           *)
TypesOK ==
    CASE focus = "lists" -> Lists!TypeOK
      [] focus = "records" -> Records!TypeOK
      [] focus = "iris" -> Iris!TypeOK
      [] focus = "gate" -> Gate!TypeOK

\* What is on the screen belongs there: the rows answer the question the
\* controls ask, and none means none; the record has what the officer did to it,
\* a failure is told and a secret shown once stays; a bubble holds the reply to
\* the message above it, in the conversation the next message goes to; and the
\* records under a heading are those of its upload, gone when the modal locks.
\* Each part names where late answers of the code break this.
ShownIsAsked ==
    CASE focus = "lists" -> Lists!ShowsWhatIsAsked /\ Lists!EmptyMeansNone
      [] focus = "records" -> Records!ShowsWhatWasDone /\ Records!FailureIsTold /\ Records!SecretStays
      [] focus = "iris" -> Iris!RepliesInPlace /\ Iris!GoesWhereShown
      [] focus = "gate" -> Gate!LockedShowsNothing /\ Gate!RecordsMatchHeading

\* One decision, one effect, and the one that was meant: an action is not taken
\* twice for one press, a card says done only when its draft is, and what opens
\* behind the gate is the document that was refused.
DoneOnce ==
    CASE focus = "records" -> Records!OneEffectPerDecision
      [] focus = "iris" -> Iris!CardsAreTrue
      [] focus = "gate" -> Gate!OpensWhatWasAsked
      [] OTHER -> TRUE

ListWaits   == focus = "lists" /\ Lists!Waits
RecordWaits == focus = "records" /\ Records!Waits
ButtonHeld  == focus = "records" /\ Records!Held
IrisStreams == focus = "iris" /\ Iris!Loading
CardWorks(n) == focus = "iris" /\ Iris!Works(n)

\* Whatever is lost or refused, a spinner ends, a disabled button and a locked
\* composer come back, and an officer who follows the gate's steps gets in or is
\* turned away.
NothingHangs ==
    /\ ListWaits ~> ~ListWaits
    /\ RecordWaits ~> ~RecordWaits
    /\ ButtonHeld ~> ~ButtonHeld
    /\ IrisStreams ~> ~IrisStreams
    /\ \A n \in 1..MaxTurns : CardWorks(n) ~> ~CardWorks(n)
    /\ []<>(focus = "gate" => Gate!WayIn)
================================================================================
