------------------------------- MODULE TaxDesk -------------------------------
(* What the authority knows of a taxpayer from elsewhere: the declarations of  *)
(* one year, imported by staff after a dry run or pushed by a partner          *)
(* (declared-income.service.ts and its import page), the payments the Tax app  *)
(* pushes and officers enter (tax-report.service.ts), and the registration for *)
(* PAYE (paye.service.ts).  Two rows of a batch, and the query and the write   *)
(* of one, are steps between which everything else may happen.                 *)
EXTENDS Integers, Sequences, FiniteSets, FiniteSetsExt, SequencesExt

CONSTANTS
    Taxpayers,
    Batches,     \* files: sequences of rows [nin, rc, sound, amount], where nin and
                 \* rc are the taxpayer they are of, "none" or "unknown"
    Largest,     \* the largest amount the column holds
    Amounts,     \* what may be paid
    Employers,   \* the corporate taxpayers
    Earning,     \* those with observed inflow above the floor
    Official,    \* PAYE_REG_PROVIDER is the Tax app
    Officers,    \* requests to register that may run at once
    MaxPayments  \* bound

VARIABLES
    declared,    \* assessable income by taxpayer, None when there is none
    page,        \* the import page: file, phase, preview and result
    job,         \* imports in flight, of the page and of the partner
    payments,    \* TaxPayment of one type and period: [t, amount]
    push,        \* syncPayments in flight, per slot
    paye,        \* payeStatus and the kind of payeRegNumber
    reg,         \* registerForPaye and autoRegisterPaye in flight
    \* history
    changed,     \* the partner wrote a declaration since the page last asked
    stale,       \* a file was chosen while the page waited for an answer
    latest,      \* the amount pushed last, per taxpayer
    byHand,      \* taxpayers an officer entered a payment of
    filed,       \* registrations made with the Tax app and not undone
    overlapped   \* two pushes or two registrations of one taxpayer met, or what
                 \* the Tax app registered could not be stored

decl == <<declared, page, job, changed, stale>>
pays == <<payments, push, latest, byHand>>
regs == <<paye, reg, filed>>
vars == <<decl, pays, regs, overlapped>>

TaxAssumption ==
    /\ Batches \subseteq Seq([nin : Taxpayers \cup {"none", "unknown"},
                             rc : Taxpayers \cup {"none", "unknown"}, sound : BOOLEAN, amount : Int])
    /\ <<>> \notin Batches /\ Largest \in Int /\ Amounts \subseteq Int
    /\ IsFiniteSet(Employers) /\ Employers \subseteq Taxpayers
    /\ Official \in BOOLEAN /\ MaxPayments \in Nat

None == -1
Idle == [pc |-> "idle"]
Slots == {"page", "partner"}
NoCounts == [created |-> 0, updated |-> 0, skipped |-> 0]

Files  == Batches \cup {<<>>}
Counts == [created : Nat, updated : Nat, skipped : Nat]
Import == [pc : {"idle", "look", "write", "done"}, batch : Files, dry : BOOLEAN, i : Nat,
           seen : SUBSET Taxpayers, counts : Counts, t : Taxpayers \cup {"none"}, there : BOOLEAN]
NoImport == [pc |-> "idle", batch |-> <<>>, dry |-> TRUE, i |-> 1, seen |-> {}, counts |-> NoCounts,
             t |-> "none", there |-> FALSE]

TypeOK ==
    /\ declared \in [Taxpayers -> Int]
    /\ page \in [file : Files, phase : {"choose", "previewed", "done"}, preview : Counts,
                 of : Files, result : Counts]
    /\ job \in [Slots -> Import]
    /\ payments \in Seq([t : Taxpayers, amount : Amounts])
    /\ push \in [{1, 2} -> {Idle} \cup [pc : {"write"}, t : Taxpayers, amount : Amounts, i : Nat]]
    /\ paye \in [Taxpayers -> [status : {"UNKNOWN", "REGISTERED", "NOT_REGISTERED"},
                               number : {"none", "provisional", "official"}]]
    /\ reg \in [Officers -> {Idle} \cup [pc : {"look", "ask", "write"}, queue : Seq(Employers)]]
    /\ changed \in BOOLEAN /\ stale \in BOOLEAN
    /\ latest \in [Taxpayers -> Int] /\ byHand \subseteq Taxpayers /\ filed \in [Taxpayers -> Nat]

Init ==
    /\ declared = [t \in Taxpayers |-> None]
    /\ page = [file |-> <<>>, phase |-> "choose", preview |-> NoCounts, of |-> <<>>, result |-> NoCounts]
    /\ job = [s \in Slots |-> NoImport]
    /\ payments = <<>>
    /\ push = [s \in {1, 2} |-> Idle]
    /\ paye = [t \in Taxpayers |-> [status |-> "UNKNOWN", number |-> "none"]]
    /\ reg = [o \in Officers |-> Idle]
    /\ changed = FALSE /\ stale = FALSE
    /\ latest = [t \in Taxpayers |-> None]
    /\ byHand = {}
    /\ filed = [t \in Taxpayers |-> 0]
    /\ overlapped = FALSE

-----------------------------------------------------------------------------
\* processRows.  A taxpayer by NIN or by RC number: when they are of two, either.
Matches(row) == {row.nin, row.rc} \cap Taxpayers

Start(s, batch, dry) ==
    job' = [job EXCEPT ![s] = [NoImport EXCEPT !.pc = "look", !.batch = batch, !.dry = dry]]
Bump(j, what) ==
    [j EXCEPT !.counts[what] = @ + 1, !.i = @ + 1,
              !.pc = IF j.i = Len(j.batch) THEN "done" ELSE "look"]

\* Mutant: duplicates within a batch are not looked for.
NothingRepeats(j, t) == FALSE

Repeats(j, t) == t \in j.seen

LookRow(s) ==
    /\ job[s].pc = "look"
    /\ LET j == job[s]
           row == j.batch[j.i]
       IN \/ /\ ~row.sound \/ Matches(row) = {}
             /\ job' = [job EXCEPT ![s] = Bump(j, "skipped")]
          \/ /\ row.sound
             /\ \E t \in Matches(row) :
                 job' = [job EXCEPT ![s] =
                     IF Repeats(j, t) THEN Bump(j, "skipped")
                     ELSE [j EXCEPT !.pc = "write", !.seen = @ \cup {t}, !.t = t,
                                    !.there = (declared[t] # None)]]
    /\ UNCHANGED <<declared, page, changed, stale, pays, regs, overlapped>>

\* A write that fails, for its size or because the row was created meanwhile, is
\* caught and counts as skipped.
WriteRow(s) ==
    /\ job[s].pc = "write"
    /\ LET j == job[s]
           amount == j.batch[j.i].amount
           fails == ~j.dry /\ (amount > Largest \/ (~j.there /\ declared[j.t] # None))
           stored == ~j.dry /\ ~fails
       IN /\ declared' = IF stored THEN [declared EXCEPT ![j.t] = amount] ELSE declared
          /\ changed' = (changed \/ (stored /\ s = "partner"))
          /\ job' = [job EXCEPT ![s] =
                 Bump(j, IF fails THEN "skipped" ELSE IF j.there THEN "updated" ELSE "created")]
    /\ UNCHANGED <<page, stale, pays, regs, overlapped>>

\* A partner's batch, to which nobody waits for an answer here.
PartnerPush(batch) ==
    /\ job["partner"].pc \in {"idle", "done"}
    /\ Start("partner", batch, FALSE)
    /\ UNCHANGED <<declared, page, changed, stale, pays, regs, overlapped>>

-----------------------------------------------------------------------------
\* The import page.  The file may be changed while an answer is awaited.
Choose(batch) ==
    /\ page' = [page EXCEPT !.file = batch, !.phase = "choose",
                            !.preview = NoCounts, !.result = NoCounts]
    /\ stale' = (stale \/ job["page"].pc # "idle")
    /\ UNCHANGED <<declared, job, changed, pays, regs, overlapped>>
Validate ==
    /\ page.file # <<>> /\ page.phase # "done" /\ job["page"].pc = "idle"
    /\ Start("page", page.file, TRUE)
    /\ changed' = (job["partner"].pc \notin {"idle", "done"})
    /\ UNCHANGED <<declared, page, stale, pays, regs, overlapped>>
Commit ==
    /\ page.phase = "previewed" /\ job["page"].pc = "idle"
    /\ page.preview.created + page.preview.updated > 0
    /\ Start("page", page.file, FALSE)
    /\ UNCHANGED <<declared, page, changed, stale, pays, regs, overlapped>>
Answer ==
    /\ job["page"].pc = "done"
    /\ page' = IF job["page"].dry
               THEN [page EXCEPT !.phase = "previewed", !.preview = job["page"].counts,
                                 !.of = job["page"].batch]
               ELSE [page EXCEPT !.phase = "done", !.result = job["page"].counts]
    /\ job' = [job EXCEPT !["page"] = NoImport]
    /\ UNCHANGED <<declared, changed, stale, pays, regs, overlapped>>

-----------------------------------------------------------------------------
\* syncPayments, a row; the row on file it finds is any of the taxpayer's.
OnFile(t) == {i \in DOMAIN payments : payments[i].t = t}
SyncLook(s, t, amount) ==
    /\ push[s].pc = "idle"
    /\ \E i \in IF OnFile(t) = {} THEN {0} ELSE OnFile(t) :
        push' = [push EXCEPT ![s] = [pc |-> "write", t |-> t, amount |-> amount, i |-> i]]
    /\ overlapped' = (overlapped \/ \E o \in DOMAIN push : push[o].pc = "write" /\ push[o].t = t)
    /\ UNCHANGED <<payments, latest, byHand, decl, regs>>

\* Mutant: what is on file is left, and the push is added to it.
AlwaysAdds(i) == TRUE

Adds(i) == i = 0

SyncWrite(s) ==
    /\ push[s].pc = "write"
    /\ LET p == push[s]
           row == [t |-> p.t, amount |-> p.amount]
       IN /\ Len(payments) < MaxPayments \/ ~Adds(p.i)
          /\ payments' = IF Adds(p.i) THEN Append(payments, row) ELSE [payments EXCEPT ![p.i] = row]
          /\ latest' = [latest EXCEPT ![p.t] = p.amount]
    /\ push' = [push EXCEPT ![s] = Idle]
    /\ UNCHANGED <<byHand, decl, regs, overlapped>>

\* addPaymentManual
AddPayment(t, amount) ==
    /\ Len(payments) < MaxPayments
    /\ payments' = Append(payments, [t |-> t, amount |-> amount])
    /\ byHand' = byHand \cup {t}
    /\ UNCHANGED <<push, latest, decl, regs, overlapped>>

\* taxReport: what is paid on file, per type.
ReportPaid(t) == MapThenSumSet(LAMBDA i : payments[i].amount, OnFile(t))

-----------------------------------------------------------------------------
\* What the Tax app pushes and what staff set are one write each.  A registration
\* that is undone may be made again.
SetStatus(t, status, number) ==
    /\ paye' = [paye EXCEPT ![t] = [status |-> status,
                                    number |-> IF number = "none" THEN @.number ELSE number]]
    /\ filed' = IF status = "REGISTERED" THEN filed ELSE [filed EXCEPT ![t] = 0]
    /\ overlapped' = (overlapped \/ \E o \in Officers : reg[o].pc \in {"ask", "write"} /\ Head(reg[o].queue) = t)
    /\ UNCHANGED <<reg, decl, pays>>

\* registerForPaye for one, and autoRegisterPaye for those found without.
Register(o, queue) ==
    /\ reg[o].pc = "idle"
    /\ reg' = [reg EXCEPT ![o] = [pc |-> "look", queue |-> queue]]
    /\ UNCHANGED <<paye, filed, decl, pays, overlapped>>
Gap == {t \in Employers \cap Earning : paye[t].status # "REGISTERED"}

After(o) == IF Len(reg[o].queue) = 1 THEN Idle ELSE [pc |-> "look", queue |-> Tail(reg[o].queue)]

\* Mutant: who is registered already is not turned down.
AnyStatus(t) == TRUE

MayRegister(t) == paye[t].status # "REGISTERED"

RegLook(o) ==
    /\ reg[o].pc = "look"
    /\ LET t == Head(reg[o].queue)
       IN /\ reg' = [reg EXCEPT ![o] = IF t \in Employers /\ MayRegister(t) THEN [@ EXCEPT !.pc = "ask"]
                                       ELSE After(o)]
          /\ overlapped' = (overlapped \/ \E q \in Officers \ {o} :
                                reg[q].pc \in {"ask", "write"} /\ Head(reg[q].queue) = t)
    /\ UNCHANGED <<paye, filed, decl, pays>>
RegAsk(o) ==
    /\ reg[o].pc = "ask"
    /\ \/ /\ reg' = [reg EXCEPT ![o].pc = "write"]
          /\ filed' = IF Official THEN [filed EXCEPT ![Head(reg[o].queue)] = @ + 1] ELSE filed
       \/ /\ Official
          /\ reg' = [reg EXCEPT ![o] = After(o)]
          /\ filed' = filed
    /\ UNCHANGED <<paye, decl, pays, overlapped>>
RegWrite(o) ==
    /\ reg[o].pc = "write"
    /\ \/ /\ paye' = [paye EXCEPT ![Head(reg[o].queue)] =
                          [status |-> "REGISTERED", number |-> IF Official THEN "official" ELSE "provisional"]]
          /\ UNCHANGED overlapped
       \/ paye' = paye /\ overlapped' = TRUE
    /\ reg' = [reg EXCEPT ![o] = After(o)]
    /\ UNCHANGED <<filed, decl, pays>>

-----------------------------------------------------------------------------
Imports ==
    \/ \E s \in Slots : LookRow(s) \/ WriteRow(s)
    \/ \E b \in Batches : PartnerPush(b) \/ Choose(b)
    \/ Validate \/ Commit \/ Answer
Payments == \E t \in Taxpayers, a \in Amounts :
    \/ \E s \in DOMAIN push : SyncLook(s, t, a) \/ SyncWrite(s)
    \/ AddPayment(t, a)
Registrations ==
    \/ \E t \in Taxpayers, status \in {"REGISTERED", "NOT_REGISTERED"}, n \in {"none", "official"} :
           SetStatus(t, status, n)
    \/ \E o \in Officers :
        \/ \E t \in Employers : Register(o, <<t>>)
        \/ Gap # {} /\ Register(o, SetToSeq(Gap))
        \/ RegLook(o) \/ RegAsk(o) \/ RegWrite(o)
Next == Imports \/ Payments \/ Registrations
Spec == Init /\ [][Next]_vars

-----------------------------------------------------------------------------
\* A commit does what the preview said: as many rows created, updated and skipped
\* ("a clean preview means a clean import", declared-income.service.ts 93), unless the
\* partner wrote meanwhile, the file was changed under a request, an amount is too large
\* for the column, or a row's two numbers are of two taxpayers.
Clear(batch) == \A i \in DOMAIN batch :
    batch[i].amount <= Largest /\ Cardinality(Matches(batch[i])) <= 1
CommitAsPreviewed ==
    page.phase = "done" /\ ~changed /\ ~stale /\ Clear(page.of) => page.result = page.preview

\* What the report says was paid is what the Tax app pushed last ("re-sync overwrites",
\* tax-report.service.ts 62), of taxpayers no officer entered a payment of.
PaidAsPushed == \A t \in Taxpayers :
    latest[t] # None /\ t \notin byHand /\ ~overlapped => ReportPaid(t) = latest[t]

\* No employer is registered twice with the Tax app, one by one or in bulk, unless two
\* registrations overlapped or the number could not be stored (registerForPaye).
FiledOnce == ~overlapped => \A t \in Taxpayers : filed[t] <= 1

\* The preview on the page is of the file the page would commit ("so a clean preview
\* means a clean import", declared-income.service.ts 93).
PreviewIsOfTheFile == page.phase = "previewed" => page.of = page.file

\* There is one row per taxpayer, type and period, which a re-sync overwrites ("One row
\* per (taxpayer, type, year, period); re-sync overwrites", tax-report.service.ts 62).
OneRowPerPeriod == ~overlapped => \A t \in Taxpayers : Cardinality(OnFile(t)) <= 1

-----------------------------------------------------------------------------
(* What every step keeps.                                                      *)

\* The rows of a batch that are taken are the first of each taxpayer's; of those
\* whose declaration is among D one is updated, of the others created.
Seen(batch, n) == UNION {Matches(batch[h]) : h \in {x \in 1..n : batch[x].sound}}
Counting(batch, n) == {h \in 1..n : /\ batch[h].sound /\ Matches(batch[h]) # {}
                                   /\ Matches(batch[h]) \cap Seen(batch, h - 1) = {}}
Updating(batch, D, n) == {h \in Counting(batch, n) : Matches(batch[h]) \subseteq D}
Tally(batch, D, n) ==
    [created |-> Cardinality(Counting(batch, n) \ Updating(batch, D, n)),
     updated |-> Cardinality(Updating(batch, D, n)),
     skipped |-> Cardinality((1..n) \ Counting(batch, n))]

Known == {t \in Taxpayers : declared[t] # None}
Follows(j, D) ==
    /\ j.counts = Tally(j.batch, D, j.i - 1)
    /\ j.seen = Seen(j.batch, IF j.pc = "write" THEN j.i ELSE j.i - 1)
    /\ j.pc = "write" => /\ j.i \in Counting(j.batch, j.i) /\ Matches(j.batch[j.i]) = {j.t}
                         /\ j.there = (j.t \in D)

AtARow ==
    /\ \A s \in Slots : LET j == job[s] IN
        j.pc # "idle" => /\ j.batch # <<>> /\ j.i >= 1
                         /\ IF j.pc = "done" THEN j.i = Len(j.batch) + 1 ELSE j.i <= Len(j.batch)
                         /\ j.pc = "write" => j.t \in Taxpayers
    /\ page.file = <<>> => page.phase = "choose" /\ job["page"].pc = "idle"

\* What the page runs is the file on it, and what it commits it has previewed.
OfTheFile == ~stale => LET j == job["page"] IN
    /\ j.pc # "idle" => j.batch = page.file
    /\ (j.pc # "idle" /\ ~j.dry) => page.phase = "previewed" /\ page.of = page.file
    /\ (j.pc = "idle" /\ page.phase = "previewed") => page.of = page.file

\* A dry run counts what is declared; a commit counts what was declared when it
\* began, which is still what it finds of everybody it has not come to.
Committing(j, D) ==
    /\ page.preview = Tally(page.of, D, Len(page.of)) /\ Follows(j, D)
    /\ \A t \in Taxpayers \ j.seen : t \in Known <=> t \in D
    /\ j.pc = "write" => (j.t \in Known <=> j.there)

Counted == ~changed => LET j == job["page"] IN
    /\ j.pc # "idle" /\ j.dry /\ Clear(j.batch) => Follows(j, Known)
    /\ ~stale /\ Clear(page.of) =>
          /\ j.pc = "idle" /\ page.phase = "previewed" =>
                page.preview = Tally(page.of, Known, Len(page.of))
          /\ j.pc # "idle" /\ ~j.dry => \E D \in SUBSET Taxpayers : Committing(j, D)

ImportsHold == TypeOK /\ AtARow /\ OfTheFile /\ Counted /\ CommitAsPreviewed

\* Until pushes overlap, a taxpayer no officer entered a payment of has one row at
\* most, of the amount pushed last, and a push under way has found it.
Pushed(s, t) == push[s].pc = "write" /\ push[s].t = t
OneRow == \A t \in Taxpayers :
    /\ \A s \in {1, 2} : Pushed(s, t) /\ push[s].i # 0 => push[s].i \in OnFile(t)
    /\ t \notin byHand /\ ~overlapped =>
          /\ \A i, j \in OnFile(t) : i = j
          /\ latest[t] # None => \E i \in OnFile(t) : payments[i].amount = latest[t]
          /\ \A s \in {1, 2} : Pushed(s, t) /\ push[s].i = 0 => OnFile(t) = {}
          /\ \A s, q \in {1, 2} : Pushed(s, t) /\ Pushed(q, t) => s = q

PaymentsHold == TypeOK /\ OneRow

\* Until registrations overlap, whoever is with the Tax app is there once, and
\* nobody is who has a registration that stands.
Asking(o, t) == reg[o].pc \in {"ask", "write"} /\ Head(reg[o].queue) = t
OneAtATime == ~overlapped => \A t \in Taxpayers :
    /\ filed[t] <= 1
    /\ \A o, q \in Officers : Asking(o, t) /\ Asking(q, t) => o = q
    /\ \A o \in Officers : Asking(o, t) /\ reg[o].pc = "ask" => filed[t] = 0
    /\ paye[t].status # "REGISTERED" /\ (\A o \in Officers : ~Asking(o, t)) => filed[t] = 0

RegistrationsHold ==
    /\ TypeOK /\ OneAtATime
    /\ \A o \in Officers : reg[o].pc # "idle" => reg[o].queue # <<>>
=============================================================================
