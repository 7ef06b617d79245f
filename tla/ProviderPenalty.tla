--------------------------- MODULE ProviderPenalty ---------------------------
(* The s.101 penalty of one provider for one reporting period:                 *)
(* provider-compliance.service.ts issuePenalty and penaltyNotice, with the     *)
(* obligation forYear derives, against returns being filed and rejected, the   *)
(* statutory configuration being updated and the clock running.  No operation  *)
(* of one period's record touches another's.                                   *)
(*                                                                             *)
(* Time is counted from the period's end in units of which Month make the 30   *)
(* days of monthsInDefault.  Every await of the code is a step of its own.     *)
EXTENDS Integers, FiniteSets

CONSTANTS
    Requests,     \* officers' requests to issue the penalty or to serve it
    MaxInFlight,  \* requests served at the same time
    Month,
    Figures,      \* version |-> what the statutory configuration says
    MaxTime,      \* bound on the clock
    MaxFilings    \* bound on the returns of the period

Versions == DOMAIN Figures

\* What the constants must be; the instances checked assume it.
PenaltyAssumption ==
    /\ IsFiniteSet(Requests)
    /\ {MaxInFlight, MaxTime, MaxFilings} \subseteq Nat
    /\ Month \in Nat \ {0}
    /\ IsFiniteSet(Versions) /\ Versions = 1 .. Cardinality(Versions) /\ 1 \in Versions
    /\ \A v \in Versions : Figures[v] \in [due : Nat, first : Nat, per : Nat, from : Nat]

VARIABLES
    now,
    version,   \* of the active statutory configuration
    returns,   \* the submissions labelled with this period
    row,       \* the ProviderPenalty record, or NoRow
    letters,   \* the notices served: what each one says
    job        \* per request: where it is and what it has read

vars == <<now, version, returns, row, letters, job>>

NoRow    == [status |-> "NONE", reason |-> "NONE", version |-> 0, months |-> 0,
             first |-> 0, per |-> 0, amount |-> 0, ref |-> 0]
Statuses == {"ASSESSED", "NOTIFIED", "WAIVED", "PAID"}
Reasons  == {"LATE", "MISSING"}
Rows     == [status : Statuses, reason : Reasons, version : Versions, months : Nat,
             first : Nat, per : Nat, amount : Nat, ref : Nat]
Steps    == {"returns", "existing", "config", "upsert", "mark", "render"}
Letters  == [ref : Nat, amount : Nat]

\* forYear's figures, while issuePenalty holds them: seen is the clock it took,
\* v the configuration it used; penaltyNotice keeps the row it read.
Jobs == [pc : Steps \cup {"idle", "done"}, seen : Nat, v : Versions,
         reason : Reasons \cup {"NONE"}, months : Nat, amount : Nat, w : Versions,
         row : Rows \cup {NoRow}]

TypeOK ==
    /\ now \in 0 .. MaxTime /\ version \in Versions
    /\ returns \subseteq [id : 1 .. MaxFilings, at : Nat, rejected : BOOLEAN]
    /\ row \in Rows \cup {NoRow}
    /\ letters \subseteq Letters
    /\ job \in [Requests -> Jobs]

IdleJob == [pc |-> "idle", seen |-> 0, v |-> 1, reason |-> "NONE", months |-> 0,
            amount |-> 0, w |-> 1, row |-> NoRow]

Init ==
    /\ now = 0 /\ version = 1
    /\ returns = {} /\ row = NoRow /\ letters = {}
    /\ job = [r \in Requests |-> IdleJob]

Active(r) == job[r].pc \in Steps
Goto(r, pc) == job' = [job EXCEPT ![r] =
                  IF pc = "done" THEN [IdleJob EXCEPT !.pc = pc] ELSE [@ EXCEPT !.pc = pc]]
Arrives(r) ==
    /\ job[r].pc = "idle"
    /\ Cardinality({x \in Requests : Active(x)}) < MaxInFlight

-----------------------------------------------------------------------------
(* The obligation, forYear.                                                    *)

\* Mutant: whole months elapsed, not months begun.
MonthsElapsed(due, asOf) == IF asOf <= due THEN 0 ELSE (asOf - due) \div Month

\* monthsInDefault: months begun since the due date.
MonthsInDefault(due, asOf) ==
    IF asOf <= due THEN 0 ELSE (asOf - due + Month - 1) \div Month

S101(months, first, per) == IF months = 0 THEN 0 ELSE first + (months - 1) * per

Counted == {s \in returns : ~ s.rejected}
FirstAt == CHOOSE t \in {s.at : s \in Counted} : \A s \in Counted : t <= s.at

\* Mutant: a period is missing on its due date already.
PeriodStatusOnDue(due, seen) ==
    IF Counted # {} THEN IF FirstAt <= due THEN "ON_TIME" ELSE "LATE"
    ELSE IF due <= seen THEN "MISSING" ELSE "PENDING"

PeriodStatus(due, seen) ==
    IF Counted # {} THEN IF FirstAt <= due THEN "ON_TIME" ELSE "LATE"
    ELSE IF due < seen THEN "MISSING" ELSE "PENDING"

AsOf(status, seen) == IF status = "LATE" THEN FirstAt ELSE seen

-----------------------------------------------------------------------------
(* issuePenalty.                                                               *)

\* The clock and the configuration forYear works with.
Issue(r) ==
    /\ Arrives(r)
    /\ job' = [job EXCEPT ![r].pc = "returns", ![r].seen = now, ![r].v = version]
    /\ UNCHANGED <<now, version, returns, row, letters>>

\* The returns are read, the figures computed; refused unless the period is in
\* default and due on or after the commencement date.
ReadReturns(r) ==
    /\ job[r].pc = "returns"
    /\ LET f == Figures[job[r].v]
           s == PeriodStatus(f.due, job[r].seen)
           n == MonthsInDefault(f.due, AsOf(s, job[r].seen)) IN
       job' = [job EXCEPT ![r] =
         IF s \in Reasons /\ f.due >= f.from
         THEN [@ EXCEPT !.pc = "existing", !.reason = s, !.months = n,
                        !.amount = S101(n, f.first, f.per)]
         ELSE [IdleJob EXCEPT !.pc = "done"]]
    /\ UNCHANGED <<now, version, returns, row, letters>>

\* Mutant: a waived penalty is computed again.
ReadExistingPaid(r) ==
    /\ job[r].pc = "existing"
    /\ Goto(r, IF row.status = "PAID" THEN "done" ELSE "config")
    /\ UNCHANGED <<now, version, returns, row, letters>>

\* A record that is waived or paid ends the request.
ReadExisting(r) ==
    /\ job[r].pc = "existing"
    /\ Goto(r, IF row.status \in {"WAIVED", "PAID"} THEN "done" ELSE "config")
    /\ UNCHANGED <<now, version, returns, row, letters>>

\* The configuration that is stamped on the record, read once more.
ReadConfig(r) ==
    /\ job[r].pc = "config"
    /\ job' = [job EXCEPT ![r].pc = "upsert", ![r].w = version]
    /\ UNCHANGED <<now, version, returns, row, letters>>

Refreshed(old, j) ==
    [old EXCEPT !.reason = j.reason, !.version = j.w, !.months = j.months,
                !.first = Figures[j.w].first, !.per = Figures[j.w].per,
                !.amount = j.amount]

\* Mutant: a new record is not given its first status.
UpsertUnassessed(r) ==
    /\ job[r].pc = "upsert"
    /\ row' = [Refreshed(row, job[r]) EXCEPT !.ref = IF @ = 0 THEN 1 ELSE @]
    /\ Goto(r, "done")
    /\ UNCHANGED <<now, version, returns, letters>>

\* Mutant: every issue mints a notice reference.
UpsertMinting(r) ==
    /\ job[r].pc = "upsert"
    /\ row' = [Refreshed(row, job[r]) EXCEPT
                 !.status = IF @ = "NONE" THEN "ASSESSED" ELSE @, !.ref = @ + 1]
    /\ Goto(r, "done")
    /\ UNCHANGED <<now, version, returns, letters>>

\* Mutant: a refresh keeps the amount first assessed.
UpsertStaleAmount(r) ==
    /\ job[r].pc = "upsert"
    /\ row' = [Refreshed(row, job[r]) EXCEPT
                 !.status = IF @ = "NONE" THEN "ASSESSED" ELSE @,
                 !.ref    = IF @ = 0 THEN 1 ELSE @,
                 !.amount = IF row = NoRow THEN @ ELSE row.amount]
    /\ Goto(r, "done")
    /\ UNCHANGED <<now, version, returns, letters>>

\* The upsert: the record is created with a notice reference, or its figures
\* are refreshed.
Upsert(r) ==
    /\ job[r].pc = "upsert"
    /\ row' = [Refreshed(row, job[r]) EXCEPT
                 !.status = IF @ = "NONE" THEN "ASSESSED" ELSE @,
                 !.ref    = IF @ = 0 THEN 1 ELSE @]
    /\ Goto(r, "done")
    /\ UNCHANGED <<now, version, returns, letters>>

-----------------------------------------------------------------------------
(* penaltyNotice.                                                              *)

\* The record is read; an ASSESSED one is to be marked.
Serve(r) ==
    /\ Arrives(r)
    /\ row # NoRow
    /\ job' = [job EXCEPT ![r].pc = IF row.status = "ASSESSED" THEN "mark" ELSE "render",
                          ![r].row = row]
    /\ UNCHANGED <<now, version, returns, row, letters>>

\* The update by id, whose failure is swallowed.
Mark(r) ==
    /\ job[r].pc = "mark"
    /\ \/ row' = [row EXCEPT !.status = "NOTIFIED"]
       \/ row' = row
    /\ Goto(r, "render")
    /\ UNCHANGED <<now, version, returns, letters>>

\* The notice is rendered from the record that was read.
Render(r) ==
    /\ job[r].pc = "render"
    /\ letters' = letters \cup {[ref |-> job[r].row.ref, amount |-> job[r].row.amount]}
    /\ Goto(r, "done")
    /\ UNCHANGED <<now, version, returns, row>>

-----------------------------------------------------------------------------
(* The world: returns, the configuration, settlement and time.                 *)

\* A submission of the period is stored, with the clock as its receivedAt.
File ==
    /\ Cardinality(returns) < MaxFilings
    /\ returns' = returns \cup
         {[id |-> Cardinality(returns) + 1, at |-> now, rejected |-> FALSE]}
    /\ UNCHANGED <<now, version, row, letters, job>>

\* Its processing ends in REJECTED.
Reject ==
    /\ \E s \in Counted : returns' = (returns \ {s}) \cup {[s EXCEPT !.rejected = TRUE]}
    /\ UNCHANGED <<now, version, row, letters, job>>

\* statutory.service.ts update: a new version becomes the active one.
Reconfigure ==
    /\ version + 1 \in Versions
    /\ version' = version + 1
    /\ UNCHANGED <<now, returns, row, letters, job>>

\* The penalty is waived or paid.  No code of the repository does it: the
\* record is settled in the database.
Settle ==
    /\ row.status \in {"ASSESSED", "NOTIFIED"}
    /\ \E s \in {"WAIVED", "PAID"} : row' = [row EXCEPT !.status = s]
    /\ UNCHANGED <<now, version, returns, letters, job>>

Tick ==
    /\ now < MaxTime
    /\ now' = now + 1
    /\ UNCHANGED <<version, returns, row, letters, job>>

Next ==
    \/ \E r \in Requests :
         \/ Issue(r) \/ ReadReturns(r) \/ ReadExisting(r) \/ ReadConfig(r) \/ Upsert(r)
         \/ Serve(r) \/ Mark(r) \/ Render(r)
    \/ File \/ Reject \/ Reconfigure \/ Settle \/ Tick

Spec == Init /\ [][Next]_vars

-----------------------------------------------------------------------------
(* Properties.                                                                 *)

\* While the first configuration is in force, whoever has a penalty on record was
\* in default of the period: its due date has passed, and no return that counts
\* came in on time, however the reads of issuePenalty and new returns interleave.
OnlyDefaultersPenalised ==
    row # NoRow /\ version = 1 =>
        LET due == Figures[version].due IN
        due < now /\ \A s \in Counted : s.at > due

\* Every notice served cites the reference the record still carries: issuing
\* again never mints another.
LettersCiteTheRecord == \A l \in letters : l.ref = row.ref

\* The record accounts for itself: its amount is the s.101 fine for its months
\* at the figures stamped on it (schema.prisma ProviderPenalty.amount, "total:
\* first + (monthsInDefault-1) * perMonth").
AmountMatchesFigures == row.amount = S101(row.months, row.first, row.per)

\* A penalty that was waived or paid is never computed again or notified.
SettledStays == row.status \in {"WAIVED", "PAID"} => row' = row

\* Under one configuration, a re-issue never takes a month of default off the
\* record, whichever returns came in or were rejected, and a fine is charged for
\* every month the default has begun.
DefaultOnlyAccrues ==
    row # NoRow /\ row'.version = row.version =>
        /\ row'.months >= row.months
        /\ row'.amount >= row.amount
        /\ row'.months >= 1
-----------------------------------------------------------------------------
(* What the properties rest on.                                                *)

InDefault == Figures[1].due < now /\ \A s \in Counted : s.at > Figures[1].due

\* A request works with a configuration of its time; what it is about to charge is
\* the fine of that configuration, and under the first one charged in default.
Charging(j) == j.pc \in {"existing", "config", "upsert"}
Grounded(j) ==
    /\ j.seen <= now /\ j.v <= version /\ j.w <= version
    /\ Charging(j) =>
          /\ j.reason \in Reasons /\ j.months >= 1
          /\ j.amount = S101(j.months, Figures[j.v].first, Figures[j.v].per)
          /\ version = 1 => InDefault
Grounds ==
    /\ IsFiniteSet(returns) /\ \A s \in returns : s.at <= now
    /\ \A r \in Requests : Grounded(job[r])
    /\ row # NoRow /\ version = 1 => InDefault

\* A record carries the one reference minted, and so does what was read of it.
Refers(j) == j.pc \in {"mark", "render"} => row # NoRow /\ j.row.ref = 1
References ==
    /\ row # NoRow => row.ref = 1 /\ row.months >= 1
    /\ \A r \in Requests : Refers(job[r])
    /\ \A l \in letters : row # NoRow /\ l.ref = 1

\* The figures on record are those of the configuration stamped on it.
Stamped ==
    row # NoRow => /\ row.version <= version
                   /\ row.first = Figures[row.version].first
                   /\ row.per = Figures[row.version].per

IInv == TypeOK /\ Grounds /\ References /\ Stamped

\* The time default is counted to: the first return that counts, or else seen; and
\* the months it then comes to under the configuration in force.
Reached(seen) == IF Counted # {} THEN FirstAt ELSE seen
MonthsAt(t) == MonthsInDefault(Figures[version].due, t)

\* What holds as long as no request met another one, a change of the
\* configuration, or the settlement of the penalty.
Calm(j) ==
    /\ j.pc = "returns" \/ Charging(j) => j.v = version
    /\ j.pc = "upsert" => j.w = version
    /\ j.pc \in {"config", "upsert", "mark"} => row.status \notin {"WAIVED", "PAID"}
    /\ Charging(j) => j.months <= MonthsAt(Reached(now))
    /\ row # NoRow /\ row.version = version =>
          /\ j.pc = "returns" => /\ row.months <= MonthsAt(j.seen)
                                 /\ row.months <= MonthsAt(Reached(j.seen))
          /\ Charging(j) => row.months <= j.months
Undisturbed ==
    /\ AmountMatchesFigures
    /\ \A q, r \in Requests : Active(q) /\ Active(r) => q = r
    /\ row # NoRow /\ row.version = version => row.months <= MonthsAt(Reached(now))
    /\ \A r \in Requests : Calm(job[r])
=============================================================================
