-------------------------- MODULE AssessmentAttempt --------------------------
(* One candidate's sitting of the aptitude test: the requests of               *)
(* assessment.service.ts, each a read and a write of the attempt, and the page *)
(* of the exam (exam/page.tsx), which saves as the candidate goes and submits  *)
(* when its clock reaches zero.                                                *)
EXTENDS Integers, FiniteSetsExt

CONSTANTS
    Questions,  \* the bank
    Topic,      \* Topic[q]
    Quota,      \* TOPIC_QUOTA, by topic
    Fields,     \* the fields of Part 1
    Duration,   \* EXAM_DURATION_MS
    Revised,    \* bound: the questions an administrator revises meanwhile
    Slots,      \* requests under way at the same time
    MaxTime     \* bound on the clock

\* What the constants must be; the instances checked assume it.
ExamAssumption == MaxTime \in Nat /\ Revised \subseteq Questions

VARIABLES
    now,
    bank,        \* the questions of the bank: their right option, and which are active
    attempt,     \* the row, or None
    page,        \* what the candidate has entered, and how far the page is
    job,         \* per slot: a request
    entered,     \* history: what the candidate has last chosen for a question
    lost,        \* history: a request did not reach the server
    overlapped   \* history: two requests have collided
vars == <<now, bank, attempt, page, job, entered, lost, overlapped>>

None   == [status |-> "none"]
Options == {0, 1}
Unanswered == 2
QuestionsPerAttempt == MapThenSumSet(LAMBDA t : Quota[t], DOMAIN Quota)

IdleJob == [pc |-> "idle"]
TypeOK ==
    /\ now \in 0 .. MaxTime
    /\ bank.right \in [Questions -> Options] /\ bank.active \subseteq Questions
    /\ attempt # None =>
          /\ attempt.status \in {"IN_PROGRESS", "SUBMITTED", "EXPIRED"}
          /\ attempt.part1 \subseteq Fields
          /\ attempt.chosen \in [DOMAIN attempt.right -> Options \cup {Unanswered}]
    /\ page.phase \in {"login", "exam", "result"}
    /\ \A s \in Slots : job[s].pc \in {"idle", "insert", "answer", "write_answer", "field",
                                       "write_field", "submit", "finalize"}

Init ==
    /\ now = 0
    /\ bank \in [right : {[q \in Questions |-> 0]}, active : {Questions}]
    /\ attempt = None
    /\ page = [phase |-> "login", part1 |-> {}, chosen |-> <<>>, submitted |-> FALSE]
    /\ job = [s \in Slots |-> IdleJob]
    /\ entered = [q \in Questions |-> Unanswered]
    /\ lost = FALSE
    /\ overlapped = FALSE

Idle(s) == job[s] = IdleJob
Done(s) == job' = [job EXCEPT ![s] = IdleJob]
Expired == attempt.expires <= now

-----------------------------------------------------------------------------
Least(a, b) == IF a < b THEN a ELSE b
OfTopic(t) == {q \in bank.active : Topic[q] = t}

\* The questions that may be drawn: of each topic its quota, and when a topic is
\* short, others until the number is right.
Draws == {d \in SUBSET bank.active :
    /\ \A t \in DOMAIN Quota : Cardinality(d \cap OfTopic(t)) >= Least(Quota[t], Cardinality(OfTopic(t)))
    /\ Cardinality(d) = Least(QuestionsPerAttempt, Cardinality(bank.active))}

\* candidateLogin: a sitting that exists is resumed; else the questions are drawn,
\* with the option that is right today.
Login(s) == \E d \in Draws :
    /\ Idle(s)
    /\ attempt = None
    /\ d # {}
    /\ job' = [job EXCEPT ![s] = [pc |-> "insert", right |-> [q \in d |-> bank.right[q]]]]
    /\ UNCHANGED <<now, bank, attempt, page, entered, lost>>

\* Mutant: a second sitting takes the place of the first.
InsertAnew(right) == attempt' = [status |-> "IN_PROGRESS", expires |-> now + Duration,
    part1 |-> {}, right |-> right, chosen |-> [q \in DOMAIN right |-> Unanswered], score |-> <<0, 0>>]

\* The participant of an attempt is unique: the second insert fails.
InsertOnce(right) ==
    IF attempt # None THEN UNCHANGED attempt
    ELSE attempt' = [status |-> "IN_PROGRESS", expires |-> now + Duration, part1 |-> {},
                     right |-> right, chosen |-> [q \in DOMAIN right |-> Unanswered], score |-> <<0, 0>>]

Insert(s) ==
    /\ job[s].pc = "insert"
    /\ InsertOnce(job[s].right)
    /\ Done(s)
    /\ UNCHANGED <<now, bank, page, entered, lost>>

Finalizing(status) == [pc |-> "finalize", status |-> status, row |-> attempt]

\* The page is loaded, or loaded again: what the server has is shown.
Load(s) ==
    /\ Idle(s)
    /\ attempt # None
    /\ page.phase # "result"
    /\ IF attempt.status = "IN_PROGRESS" /\ ~ Expired
       THEN /\ page' = [phase |-> "exam", part1 |-> attempt.part1, chosen |-> attempt.chosen, submitted |-> FALSE]
            /\ UNCHANGED job
       ELSE /\ page' = [page EXCEPT !.phase = "result"]
            /\ job' = [job EXCEPT ![s] =
                  IF attempt.status = "IN_PROGRESS" THEN Finalizing("EXPIRED") ELSE IdleJob]
    /\ UNCHANGED <<now, bank, attempt, entered, lost>>

-----------------------------------------------------------------------------
\* choose: the answer is shown, and sent without waiting for earlier ones.
Choose(s) == page.phase = "exam" /\ \E q \in DOMAIN page.chosen, i \in Options :
    /\ Idle(s)
    /\ page' = [page EXCEPT !.chosen[q] = i]
    /\ job' = [job EXCEPT ![s] = [pc |-> "answer", question |-> q, option |-> i]]
    /\ entered' = [entered EXCEPT ![q] = i]
    /\ UNCHANGED <<now, bank, attempt, lost>>

\* setField, and saveField when the field is left.
Type == page.phase = "exam" /\ \E f \in Fields \ page.part1 :
    /\ page' = [page EXCEPT !.part1 = @ \cup {f}]
    /\ UNCHANGED <<now, bank, attempt, job, entered, lost>>

SaveField(s) ==
    /\ Idle(s)
    /\ page.phase = "exam"
    /\ job' = [job EXCEPT ![s] = [pc |-> "field", details |-> page.part1, then |-> "idle"]]
    /\ UNCHANGED <<now, bank, attempt, page, entered, lost>>

\* doSubmit, when the candidate asks or the time is over: first the fields, then the
\* submission.
Submit(s) ==
    /\ Idle(s)
    /\ page.phase = "exam"
    /\ ~ page.submitted
    /\ page' = [page EXCEPT !.submitted = TRUE]
    /\ job' = [job EXCEPT ![s] = [pc |-> "field", details |-> page.part1, then |-> "submit"]]
    /\ UNCHANGED <<now, bank, attempt, entered, lost>>

-----------------------------------------------------------------------------
\* What follows a request for fields: nothing, or the submission.
AfterField(j) == IF j.then = "submit" THEN [pc |-> "submit"] ELSE IdleJob

Active == attempt.status = "IN_PROGRESS" /\ ~ Expired

\* assertActive, for an answer: the row is read; over, the page shows the result.
ReadAnswer(s) ==
    /\ job[s].pc = "answer"
    /\ IF Active
       THEN /\ job' = [job EXCEPT ![s] = [pc |-> "write_answer", question |-> @.question,
                  chosen |-> [attempt.chosen EXCEPT ![job[s].question] = job[s].option]]]
            /\ UNCHANGED page
       ELSE /\ job' = [job EXCEPT ![s] =
                  IF attempt.status = "IN_PROGRESS" THEN Finalizing("EXPIRED") ELSE IdleJob]
            /\ page' = [page EXCEPT !.phase = "result"]
    /\ UNCHANGED <<now, bank, attempt, entered, lost>>

\* saveAnswer: all questions are written back.
WriteAnswer(s) ==
    /\ job[s].pc = "write_answer"
    /\ attempt' = [attempt EXCEPT !.chosen = job[s].chosen]
    /\ Done(s)
    /\ UNCHANGED <<now, bank, page, entered, lost>>

ReadField(s) ==
    /\ job[s].pc = "field"
    /\ IF Active
       THEN /\ job' = [job EXCEPT ![s] = [pc |-> "write_field", then |-> @.then,
                                          part1 |-> attempt.part1 \cup @.details]]
            /\ UNCHANGED page
       ELSE /\ job' = [job EXCEPT ![s] =
                  IF attempt.status = "IN_PROGRESS" THEN Finalizing("EXPIRED") ELSE AfterField(job[s])]
            /\ page' = [page EXCEPT !.phase = "result"]
    /\ UNCHANGED <<now, bank, attempt, entered, lost>>

\* savePart1
WriteField(s) ==
    /\ job[s].pc = "write_field"
    /\ attempt' = [attempt EXCEPT !.part1 = job[s].part1]
    /\ job' = [job EXCEPT ![s] = AfterField(@)]
    /\ UNCHANGED <<now, bank, page, entered, lost>>

\* submit: the row is read, whatever the time.
ReadSubmit(s) ==
    /\ job[s].pc = "submit"
    /\ job' = [job EXCEPT ![s] =
          IF attempt.status = "IN_PROGRESS" THEN Finalizing("SUBMITTED") ELSE IdleJob]
    /\ page' = [page EXCEPT !.phase = "result"]
    /\ UNCHANGED <<now, bank, attempt, entered, lost>>

\* Mutant: the answers are marked by the bank of today.
ScoreByBank(row) ==
    <<Cardinality(row.part1), Cardinality({q \in DOMAIN row.right : row.chosen[q] = bank.right[q]})>>

\* scorePart1, and the right answers.
Score(row) ==
    <<Cardinality(row.part1), Cardinality({q \in DOMAIN row.right : row.chosen[q] = row.right[q]})>>

\* finalize: the scores are those of the row that was read.
Finalize(s) ==
    /\ job[s].pc = "finalize"
    /\ attempt' = [attempt EXCEPT !.status = job[s].status, !.score = Score(job[s].row)]
    /\ Done(s)
    /\ UNCHANGED <<now, bank, page, entered, lost>>

\* A request is lost on the way; the page takes no notice of it.
Lose(s) ==
    /\ job[s].pc \in {"answer", "field", "submit"}
    /\ lost' = TRUE
    /\ job' = [job EXCEPT ![s] = IF @.pc = "field" THEN AfterField(@) ELSE IdleJob]
    /\ UNCHANGED <<now, bank, attempt, page, entered>>

Tick ==
    /\ now < MaxTime
    /\ now' = now + 1
    /\ UNCHANGED <<bank, attempt, page, job, entered, lost>>

\* updateQuestion and setQuestionActive.
Revise == \E q \in Revised :
    /\ \/ bank' = [bank EXCEPT !.right[q] = 1 - @]
       \/ bank' = [bank EXCEPT !.active = IF q \in @ THEN @ \ {q} ELSE @ \cup {q}]
    /\ UNCHANGED <<now, attempt, page, job, entered, lost>>

Step ==
    \/ Type \/ Tick \/ Revise
    \/ \E s \in Slots :
        \/ Login(s) \/ Insert(s) \/ Load(s) \/ Choose(s) \/ SaveField(s) \/ Submit(s)
        \/ ReadAnswer(s) \/ WriteAnswer(s) \/ ReadField(s) \/ WriteField(s)
        \/ ReadSubmit(s) \/ Finalize(s) \/ Lose(s)

\* Two requests collide when they answer one question, when both are about to write
\* the answers, or the fields, and when one closes the attempt that the other has
\* read.
Collide(j, k) ==
    \/ j.pc = k.pc /\ j.pc \in {"write_answer", "write_field", "finalize"}
    \/ j.pc = "finalize" /\ k.pc \in {"write_answer", "write_field"}
    \/ {j.pc, k.pc} \subseteq {"answer", "write_answer"} /\ j.question = k.question
Next ==
    /\ Step
    /\ overlapped' = (overlapped \/ \E s, t \in Slots : s # t /\ Collide(job'[s], job'[t]))

Spec == Init /\ [][Next]_vars

-----------------------------------------------------------------------------
Quiet == \A s \in Slots : Idle(s)
InProgress == attempt # None /\ attempt.status = "IN_PROGRESS"

Kept == \A q \in DOMAIN attempt.chosen : attempt.chosen[q] = entered[q]

\* As long as no two requests have collided, the attempt holds what the candidate has
\* entered whenever nothing is under way and nothing was lost on the way, also when
\* the page was loaded again meanwhile (saveAnswer, 93, writes back every answer it
\* has read); and a closed attempt is marked for just the answers and fields it
\* holds, by the options that were right when it was drawn.
AnswersAreKept == overlapped \/
    /\ Quiet /\ ~ lost /\ InProgress => Kept
    /\ attempt # None /\ ~ InProgress => attempt.score =
          <<Cardinality(attempt.part1),
            Cardinality({q \in DOMAIN attempt.right : attempt.chosen[q] = attempt.right[q]})>>

\* A sitting is never started again, nor drawn again, nor given more time; and as
\* long as no two requests have collided it is not touched once it is closed.
SittingKept == attempt # None =>
    /\ attempt'.expires = attempt.expires /\ attempt'.right = attempt.right
    /\ ~ InProgress /\ ~ overlapped' => attempt' = attempt
OneSitting == [][SittingKept]_vars

\* "Every field and every answer is stored the moment you complete it, so reloading
\* the page will not lose anything" (exam/page.tsx 231).
NothingEnteredIsLost == Quiet /\ ~ lost /\ InProgress => Kept

-----------------------------------------------------------------------------
(* What makes it so: the row has its columns, a request what its place calls   *)
(* for, and the page the questions of the attempt; ...                         *)
Chosen == Options \cup {Unanswered}
Row(a) ==
    /\ a = [status |-> a.status, expires |-> a.expires, part1 |-> a.part1,
            right |-> a.right, chosen |-> a.chosen, score |-> a.score]
    /\ a.status \in {"IN_PROGRESS", "SUBMITTED", "EXPIRED"} /\ a.part1 \subseteq Fields
    /\ DOMAIN a.right \subseteq Questions /\ a.chosen \in [DOMAIN a.right -> Chosen]

OfAttempt(j, a) ==
    \/ /\ j.pc = "answer"
       /\ j = [pc |-> j.pc, question |-> j.question, option |-> j.option]
       /\ j.question \in DOMAIN a.right /\ j.option \in Options
    \/ /\ j.pc = "write_answer"
       /\ j = [pc |-> j.pc, question |-> j.question, chosen |-> j.chosen]
       /\ j.question \in DOMAIN a.right /\ j.chosen \in [DOMAIN a.right -> Chosen]
    \/ /\ j.pc = "field" /\ j = [pc |-> j.pc, details |-> j.details, then |-> j.then]
       /\ j.details \subseteq Fields
    \/ /\ j.pc = "write_field" /\ j = [pc |-> j.pc, then |-> j.then, part1 |-> j.part1]
       /\ j.part1 \subseteq Fields
    \/ j = [pc |-> "submit"]
    \/ /\ j.pc = "finalize" /\ j = [pc |-> j.pc, status |-> j.status, row |-> j.row]
       /\ j.status \in {"SUBMITTED", "EXPIRED"}
Request(j, a) ==
    \/ j = IdleJob
    \/ j.pc = "insert" /\ j = [pc |-> j.pc, right |-> j.right] /\ DOMAIN j.right \subseteq Questions
    \/ a # None /\ OfAttempt(j, a)

PageOfAttempt ==
    /\ page = [phase |-> page.phase, part1 |-> page.part1, chosen |-> page.chosen,
               submitted |-> page.submitted]
    /\ page.part1 \subseteq Fields
    /\ page.phase = "exam" => attempt # None /\ DOMAIN page.chosen = DOMAIN attempt.right

Fits ==
    /\ TypeOK /\ DOMAIN job = Slots /\ bank = [right |-> bank.right, active |-> bank.active]
    /\ attempt = None \/ Row(attempt)
    /\ \A s \in Slots : Request(job[s], attempt)
    /\ PageOfAttempt
    /\ entered \in [Questions -> Chosen]
    /\ attempt = None => \A q \in Questions : entered[q] = Unanswered

\* ... and as long as no two requests have collided, whoever is about to write
\* holds the attempt as it is, still in progress, and an answer that the attempt
\* does not hold is on its way to it.
Open(a) == a # None /\ a.status = "IN_PROGRESS"
Current(j, a, chosen) ==
    /\ j.pc \in {"write_answer", "write_field", "finalize"} => Open(a)
    /\ j.pc = "answer" => j.option = chosen[j.question]
    /\ j.pc = "write_answer" =>
          j.chosen = [a.chosen EXCEPT ![j.question] = chosen[j.question]]
    /\ j.pc = "finalize" => j.row = a
Brings(j, q) ==
    \/ j.pc = "finalize"
    \/ j.pc \in {"answer", "write_answer"} /\ j.question = q
Marked(a) == a # None /\ ~ Open(a) => a.score = Score(a)
Apart == \A s, t \in Slots : s # t => ~ Collide(job[s], job[t])
OneByOne ==
    /\ Apart /\ Marked(attempt)
    /\ \A s \in Slots : Current(job[s], attempt, entered)
    /\ ~ lost /\ Open(attempt) =>
          \A q \in DOMAIN attempt.chosen :
             attempt.chosen[q] = entered[q] \/ \E s \in Slots : Brings(job[s], q)

ExamHolds == Fits /\ (overlapped \/ OneByOne)
=============================================================================
