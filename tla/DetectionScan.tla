---------------------------- MODULE DetectionScan ----------------------------
(* Detection scans (scan.service.ts) with what they stand on: the memoised     *)
(* reportable set (reportable.service.ts), the owners of portfolios            *)
(* (portfolios.service.ts), the threshold of the sector                        *)
(* (model-feedback.service.ts), and the officers whose work a scan meets: the  *)
(* assignment of a case and the review of a flagged record                     *)
(* (data-records.service.ts).  One year, one sector, a record per taxpayer.    *)
(* A scan is a chain of steps between which everything else may happen; an     *)
(* officer's request is one step.                                              *)
EXTENDS DetectionEngine, Functions

CONSTANTS
    Taxpayers,
    Suffixed,    \* those whose business name has a company's suffix
    Declared,    \* what each declared for the year
    Officers,
    Scopes,      \* of portfolios, the most specific first
    Threshold,   \* the threshold of the scans, in percent
    Overrides,   \* thresholds an analyst may set for the sector
    Limits,      \* reporting thresholds a configuration may set
    DefaultLimit,
    Confidences, \* the confidences a case may come to
    Ttl,         \* TTL_MS of the memo
    QueryLimit,  \* timeout and maxWait of the grouped query
    MaxTime, MaxIncome, MaxScans, \* bounds
    MaxChanges   \* bound on what officers, uploads and patches change

ASSUME ScanAssumption ==
    /\ IsFiniteSet(Taxpayers) /\ Suffixed \subseteq Taxpayers
    /\ Declared \in [Taxpayers -> Nat] /\ Scopes \in Seq(Range(Scopes))
    /\ {Threshold, Ttl, QueryLimit, MaxTime, MaxIncome, MaxScans, MaxChanges} \subseteq Nat \ {0}
    /\ Overrides \subseteq Nat /\ DefaultLimit \in Limits /\ Limits \subseteq Nat \ {0}
    /\ Confidences \subseteq 0 .. 100

VARIABLES
    now,
    income,     \* observed income of each taxpayer, from the records
    limit,      \* the reporting threshold in force
    since,      \* history: when each last became, or ceased to be, reportable
    llc,        \* per taxpayer isLimitedLiability and whether staff set it
    override,   \* SectorThreshold, NoOverride when there is none
    portfolio,  \* AnalystPortfolio by scope
    record,     \* the flag and the review of each taxpayer's record
    cases,      \* UnderdeclarationCase by taxpayer
    risk,       \* riskScore
    memo,       \* the cached set and when it was cached
    query,      \* the grouped query in flight
    scans,      \* UnderdeclarationScan
    job,        \* per scan: where it is and what it has read
    changes,    \* counts what officers, uploads and patches change
    overlapped  \* history: an assignment met a scan that had read the owner,
                \* or a patch met the grouped query

vars == <<now, income, limit, since, llc, override, portfolio, record, cases, risk,
          memo, query, scans, job, changes, overlapped>>
world == <<income, limit, since, llc, override, portfolio, changes>>

NoOne == "no one"
NoOverride == -1
Reviews == {"none", "PENDING_REVIEW", "CLEARED", "CONFIRMED"}
Owners  == Officers \cup {NoOne}
NoCase  == [status |-> "none", owner |-> NoOne, scan |-> 0]
NoMemo  == [at |-> -1, ids |-> {}]
NoQuery == [running |-> FALSE, at |-> 0, limit |-> 1]
IdleJob == [pc |-> "idle", at |-> 0, ids |-> {}, agg |-> <<>>,
            bar |-> 0, owner |-> NoOne, cur |-> {}, flagged |-> 0]

Jobs == [pc : {"idle", "dead", "ask", "wait", "aggregate", "party", "case", "upsert"},
         at : Nat, ids : SUBSET Taxpayers,
         agg : UNION {[D -> 0 .. MaxIncome] : D \in SUBSET Taxpayers}, bar : Nat, owner : Owners,
         cur : SUBSET Taxpayers, flagged : Nat]

TypeOK ==
    /\ now \in 0 .. MaxTime
    /\ income \in [Taxpayers -> 0 .. MaxIncome] /\ limit \in Limits
    /\ since \in [Taxpayers -> 0 .. MaxTime]
    /\ llc \in [Taxpayers -> [flag : BOOLEAN, source : {"none", "NAME_SUFFIX", "MANUAL"}]]
    /\ override \in Overrides \cup {NoOverride}
    /\ portfolio \in [Range(Scopes) -> Owners]
    /\ record \in [Taxpayers -> [flagged : BOOLEAN, review : Reviews]]
    /\ cases \in [Taxpayers -> [status : {"none", "OPEN", "MOVED"}, owner : Owners, scan : Nat]]
    /\ risk \in [Taxpayers -> 0 .. 100]
    /\ memo.ids \subseteq Taxpayers /\ query.running \in BOOLEAN
    /\ scans \in Seq([status : {"RUNNING", "COMPLETED", "FAILED"}, flagged : Nat])
    /\ job \in [1 .. MaxScans -> Jobs]
    /\ overlapped \in BOOLEAN

Init ==
    /\ now = 0
    /\ income = [t \in Taxpayers |-> 1] /\ limit = DefaultLimit
    /\ since = [t \in Taxpayers |-> 0]
    /\ llc = [t \in Taxpayers |-> IF t \in Suffixed THEN [flag |-> TRUE, source |-> "NAME_SUFFIX"]
                                  ELSE [flag |-> FALSE, source |-> "none"]]
    /\ override = NoOverride
    /\ portfolio = [k \in Range(Scopes) |-> NoOne]
    /\ record = [t \in Taxpayers |-> [flagged |-> FALSE, review |-> "none"]]
    /\ cases = [t \in Taxpayers |-> NoCase]
    /\ risk = [t \in Taxpayers |-> 100]
    /\ memo = NoMemo /\ query = NoQuery
    /\ scans = <<>>
    /\ job = [n \in 1 .. MaxScans |-> IdleJob]
    /\ changes = 0 /\ overlapped = FALSE

Goto(n, j) == job' = [job EXCEPT ![n] = j]
Running(n) == n <= Len(scans) /\ scans[n].status = "RUNNING" /\ job[n].pc \notin {"idle", "dead"}
End(n, status, flagged) ==
    /\ scans' = [scans EXCEPT ![n].status = status, ![n].flagged = flagged]
    /\ Goto(n, IdleJob)
Reportable(t, i, l) == i[t] >= l

\* since, kept by every step.
Watch == since' = [t \in Taxpayers |->
    IF Reportable(t, income', limit') = Reportable(t, income, limit) THEN since[t] ELSE now]

-----------------------------------------------------------------------------
\* create: the row, and the scan is set going.
StartScan ==
    /\ Len(scans) < MaxScans
    /\ scans' = Append(scans, [status |-> "RUNNING", flagged |-> 0])
    /\ Goto(Len(scans) + 1, [IdleJob EXCEPT !.pc = "ask"])
    /\ UNCHANGED <<now, world, record, cases, risk, memo, query>>

\* Mutant: the memo does not age.
AnyMemo == memo.at >= 0

MemoIsFresh == memo.at >= 0 /\ now - memo.at < Ttl

\* reportableTaxpayerIds: the memo answers,
TakeMemo(n) ==
    /\ Running(n) /\ job[n].pc = "ask"
    /\ MemoIsFresh
    /\ Goto(n, [job[n] EXCEPT !.pc = "aggregate", !.at = now, !.ids = memo.ids])
    /\ UNCHANGED <<now, world, record, cases, risk, memo, query, scans>>

\* or the query in flight is joined, or started with the threshold read now.
AskQuery(n) ==
    /\ Running(n) /\ job[n].pc = "ask"
    /\ ~ MemoIsFresh
    /\ query' = IF query.running THEN query
                ELSE [running |-> TRUE, at |-> now, limit |-> limit]
    /\ Goto(n, [job[n] EXCEPT !.pc = "wait", !.at = now])
    /\ UNCHANGED <<now, world, record, cases, risk, memo, scans>>

\* computeReportableIds answers all who wait for it,
Answer ==
    /\ query.running
    /\ LET ids == {t \in Taxpayers : Reportable(t, income, query.limit)}
       IN /\ memo' = [at |-> now, ids |-> ids]
          /\ job' = [n \in 1 .. MaxScans |-> IF job[n].pc = "wait"
                        THEN [job[n] EXCEPT !.pc = "aggregate", !.ids = ids] ELSE job[n]]
    /\ query' = NoQuery
    /\ UNCHANGED <<now, world, record, cases, risk, scans>>

\* or is timed out, or fails, and with it the scans that wait.
QueryFails ==
    /\ query.running
    /\ query' = NoQuery
    /\ scans' = [n \in DOMAIN scans |-> IF job[n].pc = "wait"
                    THEN [scans[n] EXCEPT !.status = "FAILED"] ELSE scans[n]]
    /\ job' = [n \in 1 .. MaxScans |-> IF job[n].pc = "wait" THEN IdleJob ELSE job[n]]
    /\ UNCHANGED <<now, world, record, cases, risk, memo>>

\* The inflows of the set, and the threshold: the sector's over the scan's own.
Aggregate(n) ==
    /\ Running(n) /\ job[n].pc = "aggregate"
    /\ Goto(n, [IdleJob EXCEPT !.pc = "party",
                  !.agg = [t \in {t \in job[n].ids : income[t] > 0} |-> income[t]],
                  !.bar = IF override = NoOverride THEN Threshold ELSE override])
    /\ UNCHANGED <<now, world, record, cases, risk, memo, query, scans>>

\* A limited company is left to the federal service: the stored flag, or the name.
IsLlc(t) == llc[t].flag \/ t \in Suffixed

\* byTaxpayer without the parties that are done.
Without(n, t) == Restrict(job[n].agg, DOMAIN job[n].agg \ {t})

SkipCompany(n) == \E t \in DOMAIN job[n].agg :
    /\ Running(n) /\ job[n].pc = "party"
    /\ IsLlc(t)
    /\ Goto(n, [job[n] EXCEPT !.agg = Without(n, t)])
    /\ UNCHANGED <<now, world, record, cases, risk, memo, query, scans>>

\* The flag is stamped on the records; a review that was there goes.
Stamp(n) == \E t \in DOMAIN job[n].agg :
    LET flag == ShouldFlag(Declared[t], job[n].agg[t], job[n].bar) IN
    /\ Running(n) /\ job[n].pc = "party"
    /\ ~ IsLlc(t)
    /\ record' = [record EXCEPT ![t] =
          [flagged |-> flag, review |-> IF flag THEN "PENDING_REVIEW" ELSE "none"]]
    /\ Goto(n, IF flag THEN [job[n] EXCEPT !.pc = "case", !.cur = {t}]
               ELSE [job[n] EXCEPT !.agg = Without(n, t)])
    /\ UNCHANGED <<now, world, cases, risk, memo, query, scans>>

\* resolveOwner: the most specific portfolio that has an owner.
ResolveOwner ==
    LET Owned == {k \in DOMAIN Scopes : portfolio[Scopes[k]] # NoOne}
    IN IF Owned = {} THEN NoOne
       ELSE portfolio[Scopes[CHOOSE k \in Owned : \A j \in Owned : k <= j]]

\* Mutant: the portfolio's owner is put in, whoever has the case.
RouteAlways(t) == IF ResolveOwner # NoOne THEN ResolveOwner ELSE cases[t].owner

\* The owner to write: an assigned case keeps its own.
Route(t) == IF cases[t].owner # NoOne THEN cases[t].owner ELSE ResolveOwner

ReadCase(n) == \E t \in job[n].cur :
    /\ Running(n) /\ job[n].pc = "case"
    /\ Goto(n, [job[n] EXCEPT !.pc = "upsert", !.owner = Route(t)])
    /\ UNCHANGED <<now, world, record, cases, risk, memo, query, scans>>

\* The case is opened or refreshed: the status of one that exists stays, and so
\* does its owner when there is none to write; then the taxpayer's score.
Upsert(n) == \E t \in job[n].cur, c \in Confidences :
    /\ Running(n) /\ job[n].pc = "upsert"
    /\ cases' = [cases EXCEPT ![t] =
          [status |-> IF @.status = "none" THEN "OPEN" ELSE @.status,
           owner  |-> IF job[n].owner # NoOne THEN job[n].owner ELSE @.owner,
           scan   |-> n]]
    /\ risk' = [risk EXCEPT ![t] = NewScore(c)]
    /\ Goto(n, [job[n] EXCEPT !.pc = "party", !.cur = {}, !.owner = NoOne,
                  !.agg = Without(n, t), !.flagged = @ + 1])
    /\ UNCHANGED <<now, world, record, memo, query, scans>>

\* Mutant: the totals are written before the last party is done.
CompleteEarly(n) ==
    /\ Running(n) /\ job[n].pc \in {"party", "upsert"}
    /\ End(n, "COMPLETED", job[n].flagged)
    /\ UNCHANGED <<now, world, record, cases, risk, memo, query>>

Complete(n) ==
    /\ Running(n) /\ job[n].pc = "party" /\ job[n].agg = <<>>
    /\ End(n, "COMPLETED", job[n].flagged)
    /\ UNCHANGED <<now, world, record, cases, risk, memo, query>>

\* Mutant: the failure is logged and the row left as it was.
FailUnrecorded(n) ==
    /\ Running(n) /\ job[n].pc # "wait"
    /\ Goto(n, IdleJob)
    /\ UNCHANGED <<now, world, record, cases, risk, memo, query, scans>>

\* Any statement may fail: the totals are not written, what was done stays.
Fail(n) ==
    /\ Running(n) /\ job[n].pc # "wait"
    /\ End(n, "FAILED", 0)
    /\ UNCHANGED <<now, world, record, cases, risk, memo, query>>

\* The process dies: nothing takes up a scan that was running.
Crash ==
    /\ \E n \in DOMAIN scans : Running(n)
    /\ job' = [n \in 1 .. MaxScans |->
                   IF Running(n) THEN [IdleJob EXCEPT !.pc = "dead"] ELSE job[n]]
    /\ memo' = NoMemo /\ query' = NoQuery
    /\ UNCHANGED <<now, world, record, cases, risk, scans>>

-----------------------------------------------------------------------------
\* What the others do.
Changes ==
    /\ changes < MaxChanges
    /\ changes' = changes + 1
    /\ UNCHANGED <<now, memo, query, scans, job>>

Upload(t) ==
    /\ income[t] < MaxIncome
    /\ income' = [income EXCEPT ![t] = @ + 1]
    /\ UNCHANGED <<limit, llc, override, portfolio, record, cases, risk>>

PatchLimit == \E l \in Limits \ {limit} :
    /\ limit' = l
    /\ UNCHANGED <<income, llc, override, portfolio, record, cases, risk>>

\* update of a taxpayer: a flag of the staff's is stored as it is; any other update
\* derives it from the name again.
UpdateTaxpayer(t) == \E f \in {[flag |-> b, source |-> "MANUAL"] : b \in BOOLEAN}
                        \cup {[flag |-> TRUE, source |-> "NAME_SUFFIX"] : s \in Suffixed \cap {t}} :
    /\ llc' = [llc EXCEPT ![t] = f]
    /\ UNCHANGED <<income, limit, override, portfolio, record, cases, risk>>

\* applyOverride (the gate passes, or is forced) and removeOverride.
SetOverride == \E o \in (Overrides \cup {NoOverride}) \ {override} :
    /\ override' = o
    /\ UNCHANGED <<income, limit, llc, portfolio, record, cases, risk>>

\* create, of a scope that has no owner, and remove of portfolios.
ChangePortfolio == \E k \in DOMAIN portfolio, o \in Owners :
    /\ portfolio[k] = NoOne \/ o = NoOne
    /\ portfolio[k] # o
    /\ portfolio' = [portfolio EXCEPT ![k] = o]
    /\ UNCHANGED <<income, limit, llc, override, record, cases, risk>>

\* assign, and a move of the case's status.
Assign(t) == \E o \in Owners \ {cases[t].owner} :
    /\ cases[t].status # "none"
    /\ cases' = [cases EXCEPT ![t].owner = o]
    /\ UNCHANGED <<income, limit, llc, override, portfolio, record, risk>>

MoveCase(t) ==
    /\ cases[t].status = "OPEN"
    /\ cases' = [cases EXCEPT ![t].status = "MOVED"]
    /\ UNCHANGED <<income, limit, llc, override, portfolio, record, risk>>

\* Mutant: the points are taken off whatever is left.
ReviewUnbounded(t) == \E status \in {"CLEARED", "CONFIRMED"} :
    /\ record[t].flagged
    /\ record' = [record EXCEPT ![t] =
          [flagged |-> status = "CONFIRMED", review |-> status]]
    /\ risk' = IF status = "CONFIRMED" THEN [risk EXCEPT ![t] = @ - 15] ELSE risk
    /\ UNCHANGED <<income, limit, llc, override, portfolio, cases>>

\* review: a cleared record is unflagged; a confirmed one keeps its flag and costs
\* the taxpayer fifteen points, of a hundred when the score is 0.
Review(t) == \E status \in {"CLEARED", "CONFIRMED"} :
    /\ record[t].flagged
    /\ record' = [record EXCEPT ![t] =
          [flagged |-> status = "CONFIRMED", review |-> status]]
    /\ risk' = IF status = "CONFIRMED"
               THEN [risk EXCEPT ![t] = Greatest(0, (IF @ = 0 THEN 100 ELSE @) - 15)]
               ELSE risk
    /\ UNCHANGED <<income, limit, llc, override, portfolio, cases>>

Tick ==
    /\ now < MaxTime
    /\ query.running => now < query.at + QueryLimit
    /\ now' = now + 1
    /\ UNCHANGED <<world, record, cases, risk, memo, query, scans, job>>

Others ==
    /\ Changes
    /\ \/ PatchLimit \/ SetOverride \/ ChangePortfolio
       \/ \E t \in Taxpayers : \/ Upload(t) \/ UpdateTaxpayer(t) \/ Assign(t)
                               \/ MoveCase(t) \/ Review(t)

Proceed(n) ==
    \/ TakeMemo(n) \/ AskQuery(n) \/ Aggregate(n) \/ SkipCompany(n) \/ Stamp(n)
    \/ ReadCase(n) \/ Upsert(n)   \/ Complete(n)

Step ==
    \/ StartScan \/ Answer \/ QueryFails \/ Crash \/ Tick \/ Others
    \/ \E n \in 1 .. MaxScans : Proceed(n) \/ Fail(n)

Collision ==
    \/ \E n \in 1 .. MaxScans, t \in Taxpayers :
          job[n].pc = "upsert" /\ t \in job[n].cur /\ cases'[t].owner # cases[t].owner
          /\ job'[n] = job[n]
    \/ query.running /\ limit' # limit

Next == Step /\ Watch /\ overlapped' = (overlapped \/ Collision)

Fairness == WF_vars(Answer /\ Watch /\ overlapped' = (overlapped \/ Collision))
    /\ \A n \in 1 .. MaxScans :
          WF_vars(Proceed(n) /\ Watch /\ overlapped' = (overlapped \/ Collision))

Spec == Init /\ [][Next]_vars /\ Fairness

-----------------------------------------------------------------------------
\* What officers did to a case stands: a status never changes but by an officer,
\* and as long as no assignment has met a scan that had read the owner already,
\* neither does an assignment ("never override a manual one", 217).
OfficersWordStands == \A t \in Taxpayers : changes' = changes =>
    /\ cases[t].status # "none" => cases'[t].status = cases[t].status
    /\ cases[t].owner # NoOne => overlapped' \/ cases'[t].owner = cases[t].owner
OfficersStand == [][OfficersWordStands]_vars

\* The set a scan works through is at most the memo's time and a query's time old:
\* who has been reportable, or not, for longer than that when the scan asks is
\* in it, or is not.  ("a 60s TTL is safely fresh", reportable.service.ts 41; the
\* memo is dated when the query ends, 140, and the threshold is read before it.)
SetIsFresh == overlapped \/ \A n \in 1 .. MaxScans :
    job[n].pc = "aggregate" =>
        \A t \in Taxpayers : since[t] < job[n].at - (Ttl + QueryLimit) =>
            (t \in job[n].ids <=> Reportable(t, income, limit))

\* The totals of a completed scan cover the cases it was the last to write: none
\* is written after them.  (A failed one has none, and its cases stay.)
TotalsCoverCases == \A n \in DOMAIN scans : scans[n].status = "COMPLETED" =>
    Cardinality({t \in Taxpayers : cases[t].scan = n}) <= scans[n].flagged

\* A scan works with a set that is as fresh as the code claims, and the totals of
\* a completed scan cover every case it was the last to write.
ScansAddUp == SetIsFresh /\ TotalsCoverCases

Unsettled(n) == n <= Len(scans) /\ scans[n].status = "RUNNING" /\ job[n].pc # "dead"

\* A scan that runs comes to an end, COMPLETED or FAILED, unless the process dies
\* under it (then its row stays RUNNING: nothing looks for it).
EveryScanSettles == \A n \in 1 .. MaxScans : Unsettled(n) ~> ~ Unsettled(n)

\* "Confirmed flags drop taxpayer risk score" (README.md 80).
ConfirmingLowersScore == [][\A t \in Taxpayers :
    changes' # changes /\ record'[t].review = "CONFIRMED" => risk'[t] <= risk[t]]_vars

\* "Trust a stored/staff-set flag first, else fall back to the business-name
\* suffix" (scan.service.ts 135).
StaffFlagDecides == \A t \in Taxpayers :
    llc[t].source = "MANUAL" => (IsLlc(t) <=> llc[t].flag)

\* feedback counts the reviewed records that are flagged; "Every Clear/Confirm an
\* officer makes on a flagged record is a labelled example"
\* (model-feedback.service.ts 8).
Labelled == {t \in Taxpayers : record[t].flagged /\ record[t].review \in {"CLEARED", "CONFIRMED"}}
EveryReviewIsLabelled == \A t \in Taxpayers :
    record[t].review \in {"CLEARED", "CONFIRMED"} => t \in Labelled
=============================================================================
