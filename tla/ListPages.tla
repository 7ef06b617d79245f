----------------------------- MODULE ListPages -----------------------------
(***************************************************************************)
(* The list pages of the staff and provider consoles                       *)
(* (src/frontend/src/app).  Every such page is the same small machine: a   *)
(* bar of filters, a page number, requests to the API, and a table that    *)
(* shows the last answer taken in.  The pages differ in how they wire it,  *)
(* and each page is a record of those differences below.                   *)
(*                                                                         *)
(* A request carries the question the controls asked when it was sent.     *)
(* Nothing cancels it: answers arrive in any order, and only a page that   *)
(* "drops" ignores an answer that is no longer the newest.  The server's   *)
(* rows may leave the list at any time (reviewed, settled, closed).        *)
(***************************************************************************)
EXTENDS Naturals, Sequences, FiniteSets

CONSTANTS
    Row,        \* rows the list can hold: numbers, listed in their order
    Kind,       \* values of the filters
    Matching,   \* [Kind -> SUBSET Row], the rows a filter keeps
    Text,       \* words one can type
    Naming,     \* [Text -> SUBSET Row], the rows a search keeps
    Limit,      \* rows of a page
    All,        \* a filter left at "all", an empty search box
    Nothing,    \* no answer taken in yet, no action under way
    MaxAsks,    \* bound: requests one visit sends
    MaxLeaves   \* bound: rows that leave while the page is open

ListAssumption ==
    /\ Row \subseteq Nat /\ IsFiniteSet(Row)
    /\ Matching \in [Kind -> SUBSET Row] /\ Naming \in [Text -> SUBSET Row]
    /\ All \notin Kind \cup Text
    /\ Limit \in Nat \ {0} /\ MaxAsks \in Nat \ {0} /\ MaxLeaves \in Nat

----------------------------------------------------------------------------
(* What tells one page from another.                                       *)
(*   search  none, apply (typed text counts at the next request), blur     *)
(*           (every key asks, leaving the box asks again), debounce        *)
(*   resets  who returns to page 1 when a filter changes: the handler      *)
(*           (event) or an effect that runs after the old page was asked   *)
(*   blanks  the rows are cleared while asking                             *)
(*   spins   a loading flag hides them, cleared by whichever answer ends   *)
(*   drops   an answer that is not the newest is ignored                   *)
(*   clears  when the error goes: at the next request, or at a success     *)
(*   fails   a failure is an error, an empty list, only a message, dashes   *)
(*           (blank), or the loading text for ever (waits)                  *)
(*   pager   inside the table of rows, outside it, or none                 *)
(*   again   the list is asked again: quietly on a return to the tab, or    *)
(*           late, after an action, with the question of the render the     *)
(*           action began in (`await ...; load()` closes over it)           *)

Plain == [search |-> "none", resets |-> {"event"}, blanks |-> FALSE, spins |-> TRUE,
          drops |-> FALSE, clears |-> "asking", fails |-> "error", pager |-> "inside",
          again |-> "none"]

TaxpayersPage   == [Plain EXCEPT !.search = "apply"]
CasesPage       == [Plain EXCEPT !.search = "debounce", !.resets = {"effect"}, !.blanks = TRUE,
                                 !.spins = FALSE, !.drops = TRUE, !.pager = "outside"]
DataRecordsPage == [Plain EXCEPT !.clears = "success"]
SubmissionsPage == [Plain EXCEPT !.resets = {"event", "effect"}]
AuditPage       == [Plain EXCEPT !.search = "blur", !.clears = "success"]
FlaggedPage     == Plain
SignalsPage     == [Plain EXCEPT !.blanks = TRUE, !.spins = FALSE, !.pager = "outside"]
LinkagePage     == [Plain EXCEPT !.blanks = TRUE, !.spins = FALSE, !.fails = "message", !.pager = "none"]
UsersPage       == [Plain EXCEPT !.search = "apply", !.fails = "empty"]
DeclaredPage    == [Plain EXCEPT !.clears = "success"]
ScansPage       == [Plain EXCEPT !.resets = {"effect"}, !.fails = "empty", !.again = "late"]
TaxNetPage      == [Plain EXCEPT !.spins = FALSE, !.fails = "waits", !.pager = "outside",
                                 !.again = "late"]
ReferralsPage   == [Plain EXCEPT !.spins = FALSE, !.pager = "none", !.again = "late"]
FilingsPage     == Plain            \* the provider's own submissions
QualityPage     == LinkagePage      \* one report per year, cleared while asking
AnalyticsPage   == LinkagePage
MetricsPage     == [LinkagePage EXCEPT !.fails = "blank"]
GovernancePage  == [LinkagePage EXCEPT !.fails = "blank"]
ProvidersPage   == [LinkagePage EXCEPT !.fails = "error", !.again = "quiet"]
CompliancePage  == [LinkagePage EXCEPT !.fails = "error"]
PenaltyList     == [ReferralsPage EXCEPT !.fails = "empty"]     \* under the compliance list
DashboardPage   == [LinkagePage EXCEPT !.fails = "waits"]       \* the figures of a year
TopCases        == [LinkagePage EXCEPT !.fails = "empty"]
AgentsPanel     == [ReferralsPage EXCEPT !.fails = "waits"]

Pages == {TaxpayersPage, CasesPage, DataRecordsPage, SubmissionsPage, AuditPage, FlaggedPage,
          SignalsPage, LinkagePage, UsersPage, DeclaredPage, ScansPage, TaxNetPage, FilingsPage,
          ReferralsPage, QualityPage, AnalyticsPage, MetricsPage, GovernancePage, ProvidersPage,
          CompliancePage, PenaltyList, DashboardPage, TopCases, AgentsPanel}

----------------------------------------------------------------------------
VARIABLES
    page,       \* the page that is open
    controls,   \* what its controls say: filter, num and the text that counts
    typed,      \* what the search box says
    flying,     \* requests sent and not answered
    asks,       \* how many were sent
    shown,      \* the answer taken in last, Nothing before the first
    error,      \* an error card or message is up
    spin,       \* the loading flag
    rows,       \* the rows the server holds
    acting,     \* the question of the render an action began in, or Nothing
    overtaken   \* history: an answer was taken in after a newer one, or a late
                \* load asked a question the controls had left

lvars == <<page, controls, typed, flying, asks, shown, error, spin, rows, acting, overtaken>>

Question == [filter : Kind \cup {All}, text : Text \cup {All}, num : Nat \ {0}]
Request == [n : 1..MaxAsks, q : Question, quiet : BOOLEAN]
Answer == [n : 1..MaxAsks, q : Question, ids : SUBSET Row, total : 0..Cardinality(Row)]

\* The service's findMany/count of one page: skip (num - 1) * Limit, take Limit.
Kept(q) == {r \in rows : /\ q.filter = All \/ r \in Matching[q.filter]
                         /\ q.text = All \/ r \in Naming[q.text]}
Before(r, S) == Cardinality({s \in S : s < r})
OnPage(q) == {r \in Kept(q) : Before(r, Kept(q)) \div Limit = q.num - 1}

----------------------------------------------------------------------------
(* What the reader sees.                                                    *)

Screen == IF page.spins /\ spin THEN "loading"
          ELSE IF error THEN "error"
          ELSE IF shown = Nothing THEN (IF page.fails = "blank" /\ flying = {} THEN "dashes" ELSE "loading")
          ELSE IF shown.ids = {} THEN "empty" ELSE "rows"

LastPage == IF shown = Nothing \/ shown.total = 0 THEN 1 ELSE (shown.total + Limit - 1) \div Limit

PagerShows == /\ shown # Nothing /\ shown.total > Limit
              /\ \/ page.pager = "inside" /\ Screen = "rows"
                 \/ page.pager = "outside" /\ Screen \in {"rows", "empty"}

----------------------------------------------------------------------------
\* `load`: the questions one render sends, in order, and what it clears.
Asking(qs) ==
    /\ asks + Len(qs) <= MaxAsks
    /\ asks' = asks + Len(qs)
    /\ flying' = flying \cup {[n |-> asks + i, q |-> qs[i], quiet |-> FALSE] : i \in DOMAIN qs}
    /\ shown' = IF page.blanks THEN Nothing ELSE shown
    /\ error' = (error /\ page.clears # "asking")
    /\ spin' = page.spins
    /\ UNCHANGED <<page, rows>>

\* A handler that calls load() beside setPage(1) sends the page it was
\* rendered with; the effect on [page] then sends page 1 if that differed.
FromPageZero(q) == <<q, [q EXCEPT !.num = 0]>>      \* mutant: pages counted from nought
FromPageOne(q) == IF q.num = 1 THEN <<q>> ELSE <<q, [q EXCEPT !.num = 1]>>

Init == /\ page \in Pages
        /\ controls = [filter |-> All, text |-> All, num |-> 1]
        /\ typed = All /\ flying = {[n |-> 1, q |-> controls, quiet |-> FALSE]} /\ asks = 1
        /\ shown = Nothing /\ error = FALSE /\ spin = page.spins
        /\ rows = Row /\ acting = Nothing /\ overtaken = FALSE

\* A select changes: with the handler's reset the render asks page 1 at once,
\* with the effect's it asks the old page first.
ChooseFilter(f) ==
    /\ f # controls.filter
    /\ LET q == [controls EXCEPT !.filter = f, !.text = IF page.search = "apply" THEN typed ELSE @]
       IN /\ \/ "event" \in page.resets /\ Asking(<<[q EXCEPT !.num = 1]>>)
             \/ "effect" \in page.resets /\ Asking(FromPageOne(q))
          /\ controls' = [q EXCEPT !.num = 1]
    /\ UNCHANGED <<typed, acting, overtaken>>

\* A key is typed.  Where the text is a dependency of the effect the page is
\* asked again, still at the page it shows.
Type(t) ==
    /\ page.search # "none" /\ t # typed
    /\ typed' = t
    /\ IF page.search = "blur"
       THEN LET q == [controls EXCEPT !.text = t] IN Asking(<<q>>) /\ controls' = q
       ELSE UNCHANGED <<page, controls, flying, asks, shown, error, spin, rows>>
    /\ UNCHANGED <<acting, overtaken>>

\* Apply, Enter, or leaving the box: setPage(1); load().
Apply ==
    /\ page.search \in {"apply", "blur"}
    /\ LET q == [controls EXCEPT !.text = typed]
       IN Asking(FromPageOne(q)) /\ controls' = [q EXCEPT !.num = 1]
    /\ UNCHANGED <<typed, acting, overtaken>>

\* 300 ms without a key: the text counts, and the effect returns to page 1.
Debounced ==
    /\ page.search = "debounce" /\ controls.text # typed
    /\ LET q == [controls EXCEPT !.text = typed]
       IN Asking(FromPageOne(q)) /\ controls' = [q EXCEPT !.num = 1]
    /\ UNCHANGED <<typed, acting, overtaken>>

\* Prev and Next.
Turn(num) ==
    /\ PagerShows /\ num \in {controls.num - 1, controls.num + 1} /\ num \in 1..LastPage
    /\ LET q == [controls EXCEPT !.num = num, !.text = IF page.search = "apply" THEN typed ELSE @]
       IN Asking(<<q>>) /\ controls' = q
    /\ UNCHANGED <<typed, acting, overtaken>>

\* The retry button of an error card calls load again.
Retry ==
    /\ Screen = "error" /\ page.fails = "error"
    /\ LET q == [controls EXCEPT !.text = IF page.search = "apply" THEN typed ELSE @]
       IN Asking(<<q>>) /\ controls' = q
    /\ UNCHANGED <<typed, acting, overtaken>>

\* focus or visibilitychange: the rows stay while the list is asked again.
Refresh ==
    /\ page.again = "quiet" /\ asks < MaxAsks
    /\ asks' = asks + 1
    /\ flying' = flying \cup {[n |-> asks', q |-> controls, quiet |-> TRUE]}
    /\ UNCHANGED <<page, controls, typed, shown, error, spin, rows, acting, overtaken>>

\* A row's button is pressed, or a scan polled; what follows the await belongs
\* to the render it began in.
Act ==
    /\ page.again = "late" /\ acting = Nothing /\ acting' = controls
    /\ UNCHANGED <<page, controls, typed, flying, asks, shown, error, spin, rows, overtaken>>
Acted ==
    /\ acting # Nothing /\ acting' = Nothing
    /\ Asking(<<acting>>)
    /\ overtaken' = (overtaken \/ acting # controls)
    /\ UNCHANGED <<controls, typed>>

\* An answer, with the rows the server holds; setRows, setTotal, finally.
TakenAny(r) == r \in flying       \* mutant: no `active` flag
Taken(r) == ~page.drops \/ r.n = asks

Arrive(r) ==
    /\ r \in flying /\ flying' = flying \ {r}
    /\ IF Taken(r)
       THEN /\ shown' = [n |-> r.n, q |-> r.q, ids |-> OnPage(r.q), total |-> Cardinality(Kept(r.q))]
            /\ error' = (error /\ page.clears = "asking")
            /\ spin' = FALSE
            /\ overtaken' = (overtaken \/ \E i \in (r.n + 1)..asks : ~\E o \in flying : o.n = i)
       ELSE UNCHANGED <<shown, error, spin, overtaken>>
    /\ UNCHANGED <<page, controls, typed, asks, rows, acting>>

\* The request fails: the rows are emptied or kept, the failure shown or not.
Fail(r) ==
    /\ r \in flying /\ flying' = flying \ {r}
    /\ IF Taken(r) /\ ~r.quiet
       THEN /\ shown' = CASE page.fails \in {"error", "empty"} ->
                               [n |-> r.n, q |-> r.q, ids |-> {}, total |-> 0]
                          [] page.fails = "message" -> shown
                          [] page.fails \in {"blank", "waits"} -> Nothing
            /\ error' = (error \/ page.fails \in {"error", "message"})
            /\ spin' = FALSE
            /\ overtaken' = (overtaken \/ \E i \in (r.n + 1)..asks : ~\E o \in flying : o.n = i)
       ELSE UNCHANGED <<shown, error, spin, overtaken>>
    /\ UNCHANGED <<page, controls, typed, asks, rows, acting>>

\* Someone's decision takes a row out of the list.
Leave(r) ==
    /\ r \in rows /\ Cardinality(Row \ rows) < MaxLeaves
    /\ rows' = rows \ {r}
    /\ UNCHANGED <<page, controls, typed, flying, asks, shown, error, spin, acting, overtaken>>

Next == \/ \E f \in Kind \cup {All} : ChooseFilter(f)
        \/ \E t \in Text \cup {All} : Type(t)
        \/ Apply \/ Debounced \/ Retry \/ Refresh \/ Act \/ Acted
        \/ \E num \in 1..Cardinality(Row) : Turn(num)
        \/ \E r \in flying : Arrive(r) \/ Fail(r)
        \/ \E r \in Row : Leave(r)

\* A fetch always settles, with an answer or with a failure.
Settle == \E r \in flying : Arrive(r) \/ Fail(r)

Spec == Init /\ [][Next]_lvars /\ WF_lvars(Settle)

----------------------------------------------------------------------------
TypeOK ==
    /\ page \in Pages /\ controls \in Question /\ typed \in Text \cup {All}
    /\ flying \subseteq Request /\ asks \in 1..MaxAsks
    /\ shown \in Answer \cup {Nothing}
    /\ error \in BOOLEAN /\ spin \in BOOLEAN /\ rows \subseteq Row
    /\ acting \in Question \cup {Nothing} /\ overtaken \in BOOLEAN

\* When nothing is in flight, the rows on the screen answer the question the
\* controls ask -- unless an answer overtook a newer one, which only the page
\* that drops late answers rules out (the `active` flag of cases/page.tsx), or
\* an action that began before the controls changed reloaded the list.
ShowsWhatIsAsked ==
    flying = {} /\ Screen \in {"rows", "empty"} /\ (page.drops \/ ~overtaken) => shown.q = controls

\* "No records" on a first page is a fact, not a failure and not a leftover:
\* the question that was answered keeps no row.  The pages that turn a failure
\* into an empty list (users, scans) are left out, and so is a later page,
\* which empties when its rows leave and then hides its own pager.  (While a
\* next question is in flight the referrals page, which clears its error but
\* not the emptied list, does claim there is none.)
EmptyMeansNone ==
    flying = {} /\ Screen = "empty" /\ page.fails \notin {"empty"} /\ shown.q.num = 1 => Kept(shown.q) = {}

\* A page never waits for ever: whatever is typed, clicked, lost or refused,
\* the loading state ends (save where a failure leaves the loading text: the
\* tax net, and the panels of the dashboard).
Waits == Screen = "loading" /\ (page.fails = "waits" => flying # {})
LoadingEnds == Waits ~> ~Waits

----------------------------------------------------------------------------
(* What every step keeps: there is a last request the reader made, and what *)
(* was sent since came from the tab itself.                                 *)

Awaited(m) == \E r \in flying : r.n = m

\* The list is empty on its first page though the question keeps rows: a failure
\* emptied it.
Emptied == shown # Nothing /\ shown.ids = {} /\ shown.q.num = 1 /\ Kept(shown.q) # {}

AskedLast(m) ==
    /\ \A r \in flying : (r.n > m => r.quiet) /\ (r.n = m => ~r.quiet)
    /\ page.drops => m = asks
    /\ Awaited(m) \/ error \/ page.fails = "empty" \/ ~Emptied

\* It asked what the controls ask, and so does what is shown once it is answered.
AnswersControls(m) ==
    /\ \A r \in flying : r.n >= m => r.q = controls
    /\ Awaited(m) \/ error \/ shown = Nothing \/ shown.q = controls

ListHolds ==
    /\ TypeOK /\ (acting # Nothing => page.again = "late")
    /\ \A r \in flying : r.n <= asks
    /\ \E m \in 1..asks : AskedLast(m) /\ ((overtaken /\ ~page.drops) \/ AnswersControls(m))
=============================================================================
