----------------------------- MODULE TriageDesk -----------------------------
(* Triage of the caseload (triage.service.ts).  A run or an investigation      *)
(* recommends an action for a case, an officer applies or skips it.  A request *)
(* reads, waits for the model, and writes; every await is a step.  The case    *)
(* moves through CasesService.transition, its read and its write.              *)
EXTENDS Integers, Sequences, FiniteSets

CONSTANTS
    Cases,       \* cases on the desk
    Evidence,    \* Evidence[c]: [providers, nin, confidence, gap], percents
    LlmEnabled,  \* is there a language model?
    Limit,       \* how many cases a run takes
    Slots,       \* requests served at the same time
    MaxRows      \* bound on the recommendations made

VARIABLES
    status,      \* status[c] of the case
    recs,        \* TriageRecommendation, in the order of creation
    job,         \* per slot: where its request is and what it has read
    moves,       \* history: moves[r], how often recommendation r moved its case
    raced        \* history: the recommendations and cases requests have raced over
vars == <<status, recs, job, moves, raced>>

Law == INSTANCE CaseLaw WITH stage <- status, demand <- 0

Actions == {"ADVANCE_REVIEW", "DISMISS", "REQUEST_DATA", "ISSUE_NOTICE", "HOLD"}

\* What may be recommended at a status, and the status an action leads to.
AllowedFor(s) ==
    CASE s = "OPEN"         -> Actions \ {"ISSUE_NOTICE"}
      [] s = "UNDER_REVIEW" -> Actions \ {"ADVANCE_REVIEW"}
      [] OTHER              -> {"HOLD"}
NoTarget == "none"
ApplyTo(a) ==
    CASE a = "ADVANCE_REVIEW" -> "UNDER_REVIEW"
      [] a = "DISMISS"        -> "DISMISSED"
      [] a = "ISSUE_NOTICE"   -> "NOTICE_ISSUED"
      [] OTHER                -> NoTarget

Recommendation == [case : Cases, action : Actions,
                   status : {"PENDING", "SUPERSEDED", "APPLIED", "SKIPPED"}]
IdleJob == [pc |-> "idle"]

TypeOK ==
    /\ status \in [Cases -> Law!Status]
    /\ recs \in Seq(Recommendation)
    /\ \A s \in Slots : job[s].pc \in
          {"idle", "recommend", "supersede", "create", "transition", "move", "record", "skip"}
    /\ moves \in [1 .. MaxRows -> Nat]

Init ==
    /\ status = [c \in Cases |-> "OPEN"]
    /\ recs = <<>>
    /\ job = [s \in Slots |-> IdleJob]
    /\ moves = [r \in 1 .. MaxRows |-> 0]
    /\ raced = [recs |-> {}, cases |-> {}]

Done(s) == job' = [job EXCEPT ![s] = IdleJob]
Idle(s) == job[s] = IdleJob
Pending(r) == recs[r].status = "PENDING"

-----------------------------------------------------------------------------
\* The rule without a model, and the one for what the model answers.
Heuristic(c, seen) ==
    LET e == Evidence[c]
        a == IF e.providers <= 1 \/ ~ e.nin THEN "REQUEST_DATA"
             ELSE IF e.confidence < 40 \/ e.gap < 20 THEN "DISMISS"
             ELSE IF seen = "UNDER_REVIEW" /\ e.confidence >= 75 /\ e.gap >= 30 THEN "ISSUE_NOTICE"
             ELSE IF seen = "OPEN" THEN "ADVANCE_REVIEW"
             ELSE "HOLD"
    IN IF a \in AllowedFor(seen) THEN a ELSE "HOLD"

\* Mutant: whatever the model says.
ClampNothing(a, seen) == a

ClampAction(a, seen) ==
    IF a \in AllowedFor(seen) THEN a
    ELSE IF a = "ISSUE_NOTICE" /\ "ADVANCE_REVIEW" \in AllowedFor(seen) THEN "ADVANCE_REVIEW"
    ELSE "HOLD"

\* A model may answer anything, or fail, and then the rule decides.
RecommendFor(c, seen) ==
    {ClampAction(a, seen) : a \in {Heuristic(c, seen)} \cup (IF LlmEnabled THEN Actions ELSE {})}

\* run: the cases at the status asked for, the undecided ones left out on request,
\* at most Limit of them.
Triaged == {recs[r].case : r \in {q \in DOMAIN recs : recs[q].status \in {"PENDING", "SKIPPED"}}}
Run(s) == \E at \in {{"OPEN", "UNDER_REVIEW"}, {"OPEN"}, {"UNDER_REVIEW"}}, skip \in BOOLEAN :
    LET rows == {c \in Cases : status[c] \in at} \ (IF skip THEN Triaged ELSE {})
    IN \E took \in SUBSET rows :
        /\ Idle(s)
        /\ Cardinality(took) = IF Cardinality(rows) < Limit THEN Cardinality(rows) ELSE Limit
        /\ took # {}
        /\ job' = [job EXCEPT ![s] =
              [pc |-> "recommend", left |-> {<<c, status[c]>> : c \in took}]]
        /\ UNCHANGED <<status, recs, moves>>

\* investigate: one case, at any status.
Investigate(s) == \E c \in Cases :
    /\ Idle(s)
    /\ job' = [job EXCEPT ![s] = [pc |-> "recommend", left |-> {<<c, status[c]>>}]]
    /\ UNCHANGED <<status, recs, moves>>

\* recommendFor: the facts are those of the row that was read.
Recommend(s) == job[s].pc = "recommend" /\ \E row \in job[s].left, a \in Actions :
    /\ a \in RecommendFor(row[1], row[2])
    /\ job' = [job EXCEPT ![s] = [pc |-> "supersede", left |-> @.left \ {row},
                                  case |-> row[1], seen |-> row[2], action |-> a]]
    /\ UNCHANGED <<status, recs, moves>>

Superseded(c) ==
    [r \in DOMAIN recs |-> IF recs[r].case = c /\ Pending(r)
                           THEN [recs[r] EXCEPT !.status = "SUPERSEDED"] ELSE recs[r]]

\* persist: the pending ones make way, then the new one is created.
Supersede(s) ==
    /\ job[s].pc = "supersede"
    /\ recs' = Superseded(job[s].case)
    /\ job' = [job EXCEPT ![s].pc = "create"]
    /\ UNCHANGED <<status, moves>>

Create(s) ==
    /\ job[s].pc = "create"
    /\ Len(recs) < MaxRows
    /\ recs' = Append(recs, [case |-> job[s].case, action |-> job[s].action, status |-> "PENDING"])
    /\ job' = [job EXCEPT ![s] = IF job[s].left = {} THEN IdleJob
                                 ELSE [pc |-> "recommend", left |-> job[s].left]]
    /\ UNCHANGED <<status, moves>>

-----------------------------------------------------------------------------
\* Mutant: a recommendation that was set aside may be applied.
MayApplyAny(r) == ApplyTo(recs[r].action) # NoTarget

MayApply(r) == Pending(r) /\ ApplyTo(recs[r].action) # NoTarget

\* apply, up to the transition.
ReadToApply(s) == \E r \in DOMAIN recs :
    /\ Idle(s)
    /\ MayApply(r)
    /\ job' = [job EXCEPT ![s] = [pc |-> "transition", id |-> r]]
    /\ UNCHANGED <<status, recs, moves>>

\* Mutant: the case is moved wherever it stands.
MoveUnchecked(s) ==
    /\ job[s].pc = "transition"
    /\ job' = [job EXCEPT ![s].pc = "move"]
    /\ UNCHANGED <<status, recs, moves>>

\* CasesService.transition: the case is read and the move checked, then written.
CheckMove(s) ==
    /\ job[s].pc = "transition"
    /\ IF <<status[recs[job[s].id].case], ApplyTo(recs[job[s].id].action)>> \in Law!Transitions
       THEN job' = [job EXCEPT ![s].pc = "move"]
       ELSE Done(s)
    /\ UNCHANGED <<status, recs, moves>>

Move(s) ==
    /\ job[s].pc = "move"
    /\ status' = [status EXCEPT ![recs[job[s].id].case] = ApplyTo(recs[job[s].id].action)]
    /\ moves' = [moves EXCEPT ![job[s].id] = @ + 1]
    /\ job' = [job EXCEPT ![s].pc = "record"]
    /\ UNCHANGED recs

\* apply, after it.
RecordApplied(s) ==
    /\ job[s].pc = "record"
    /\ recs' = [recs EXCEPT ![job[s].id].status = "APPLIED"]
    /\ Done(s)
    /\ UNCHANGED <<status, moves>>

\* skip
ReadToSkip(s) == \E r \in DOMAIN recs :
    /\ Idle(s)
    /\ Pending(r)
    /\ job' = [job EXCEPT ![s] = [pc |-> "skip", id |-> r]]
    /\ UNCHANGED <<status, recs, moves>>

Skip(s) ==
    /\ job[s].pc = "skip"
    /\ recs' = [recs EXCEPT ![job[s].id].status = "SKIPPED"]
    /\ Done(s)
    /\ UNCHANGED <<status, moves>>

\* The process stops: what was written stays, the rest of the request is lost.
Crash(s) ==
    /\ ~ Idle(s)
    /\ Done(s)
    /\ UNCHANGED <<status, recs, moves>>

\* An officer moves a case by hand.
MoveByHand == \E c \in Cases, to \in Law!Status :
    /\ <<status[c], to>> \in Law!Transitions
    /\ status' = [status EXCEPT ![c] = to]
    /\ UNCHANGED <<recs, job, moves>>

Step ==
    \/ MoveByHand
    \/ \E s \in Slots :
        \/ Run(s) \/ Investigate(s) \/ Recommend(s) \/ Supersede(s) \/ Create(s)
        \/ ReadToApply(s) \/ CheckMove(s) \/ Move(s) \/ RecordApplied(s)
        \/ ReadToSkip(s) \/ Skip(s) \/ Crash(s)

\* Two requests race over a recommendation when both decide it, and over a case
\* when one adds a recommendation for it while the other is between its two writes,
\* or when it moves while one of them is between the check of a move and the move.
Pairs == {p \in Slots \X Slots : p[1] # p[2]}
Deciding(j) == IF j.pc \in {"transition", "move", "record", "skip"} THEN {j.id} ELSE {}
Adding(j) == IF j.pc \in {"supersede", "create"} THEN {j.case} ELSE {}
Moving(j) == IF j.pc = "move" THEN {recs[j.id].case} ELSE {}
Next ==
    /\ Step
    /\ raced' =
          [recs  |-> raced.recs \cup UNION {Deciding(job'[p[1]]) \cap Deciding(job'[p[2]]) : p \in Pairs},
           cases |-> raced.cases
                     \cup {c \in UNION {Moving(job'[s]) : s \in Slots} : status'[c] # status[c]}
                     \cup UNION {Adding(job'[p[1]]) \cap Adding(job'[p[2]]) : p \in Pairs}]

Spec == Init /\ [][Next]_vars

-----------------------------------------------------------------------------
\* Where no two requests raced, a case carries one pending recommendation at most;
\* and a recommendation moves its case once at most, also when the process stops
\* after the move and the officer applies it again, and an applied one has moved it.
\* (persist updates and then creates, 208 and 209; apply checks the status at 334
\* and writes it at 342, after the case has moved.)
OneAnswerPerCase ==
    /\ \A c \in Cases \ raced.cases :
          Cardinality({r \in DOMAIN recs : recs[r].case = c /\ Pending(r)}) <= 1
    /\ \A r \in DOMAIN recs : r \notin raced.recs /\ recs[r].case \notin raced.cases =>
          moves[r] <= 1 /\ (recs[r].status = "APPLIED" => moves[r] = 1)

\* What an officer decided stands: an applied or skipped recommendation stays so,
\* and the case of a skipped one is not moved by it any more, unless two requests
\* decided it at once.
DecisionKept == \A r \in DOMAIN recs :
    recs[r].status \in {"APPLIED", "SKIPPED"} /\ r \notin raced'.recs =>
        recs'[r] = recs[r] /\ moves'[r] = moves[r]
OfficersDecisionStands == [][DecisionKept]_vars

\* A recommendation fits the status its request saw, whatever the model answered,
\* and so does the move it leads to.
FitsWhatWasSeen == \A s \in Slots : job[s].pc \in {"supersede", "create"} =>
    /\ job[s].action \in AllowedFor(job[s].seen)
    /\ ApplyTo(job[s].action) # NoTarget => <<job[s].seen, ApplyTo(job[s].action)>> \in Law!Transitions

-----------------------------------------------------------------------------
(* What the properties rest on.                                                *)

Rows == SUBSET (Cases \X Law!Status)
Jobs ==
    [pc : {"idle"}]
        \cup [pc : {"recommend"}, left : Rows]
        \cup [pc : {"supersede", "create"}, left : Rows,
              case : Cases, seen : Law!Status, action : Actions]
        \cup [pc : {"transition", "move", "record", "skip"}, id : 1 .. Len(recs)]

\* No move of a case leads back.
Rank == [s \in Law!Status |->
    CASE s = "OPEN" -> 0 [] s = "UNDER_REVIEW" -> 1 [] s = "NOTICE_ISSUED" -> 2
      [] s = "OBJECTION" -> 3 [] s = "CONFIRMED" -> 4 [] s = "SETTLED" -> 5
      [] s = "RECOVERED" -> 6 [] s = "DISMISSED" -> 7 [] s = "CLOSED" -> 8]
Target(r) == ApplyTo(recs[r].action)
Open(r) == <<status[recs[r].case], Target(r)>> \in Law!Transitions

\* Who races is on record.
RacesNoted == \A p \in Pairs :
    /\ Deciding(job[p[1]]) \cap Deciding(job[p[2]]) \subseteq raced.recs
    /\ Adding(job[p[1]]) \cap Adding(job[p[2]]) \subseteq raced.cases

\* Between the two writes of a request its case has no pending recommendation, and
\* otherwise one at most.
OnePending == \A c \in Cases \ raced.cases :
    /\ \A q, r \in DOMAIN recs :
          recs[q].case = c /\ recs[r].case = c /\ Pending(q) /\ Pending(r) => q = r
    /\ \A s \in Slots : job[s].pc = "create" /\ job[s].case = c =>
          \A r \in DOMAIN recs : recs[r].case = c => ~ Pending(r)

\* A recommendation that moved its case has left the move behind.
MovedOnce ==
    /\ \A s \in Slots : job[s].pc \in {"transition", "move", "record"} => Target(job[s].id) # NoTarget
    /\ \A r \in DOMAIN recs : recs[r].case \notin raced.cases /\ moves[r] >= 1 =>
          Target(r) # NoTarget /\ Rank[status[recs[r].case]] >= Rank[Target(r)]
    /\ \A s \in Slots : job[s].pc = "move" /\ recs[job[s].id].case \notin raced.cases => Open(job[s].id)
    /\ \A s \in Slots : job[s].pc = "record" => moves[job[s].id] >= 1
    /\ \A r \in DOMAIN recs : recs[r].case \notin raced.cases => moves[r] <= 1
    /\ \A r \in DOMAIN recs : recs[r].status = "APPLIED" => moves[r] >= 1
    /\ \A r \in 1 .. MaxRows \ DOMAIN recs : moves[r] = 0

\* What is decided is in nobody's hands.
Decided == \A r \in DOMAIN recs \ raced.recs : recs[r].status \in {"APPLIED", "SKIPPED"} =>
    \A s \in Slots : r \notin Deciding(job[s])

IInv ==
    /\ TypeOK /\ job \in [Slots -> Jobs] /\ Len(recs) <= MaxRows
    /\ raced \in [recs : SUBSET (1 .. Len(recs)), cases : SUBSET Cases]
    /\ RacesNoted /\ OnePending /\ MovedOnce /\ Decided /\ FitsWhatWasSeen
=============================================================================
