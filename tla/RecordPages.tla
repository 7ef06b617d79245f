----------------------------- MODULE RecordPages -----------------------------
(***************************************************************************)
(* The pages that show one record and act on it: a case, a provider, a     *)
(* user, the settings, an approvals queue (src/frontend/src/app and        *)
(* components).  A button sends a request; what its answer does to the     *)
(* page differs from page to page, and each page is a record of those      *)
(* differences below.  A request reaches the server, or not, before its    *)
(* answer reaches the page, or not: a failure says nothing of the effect.  *)
(***************************************************************************)
EXTENDS Naturals, FiniteSets

CONSTANTS
    MaxAsks,    \* bound: requests one visit sends
    MaxOthers   \* bound: changes someone else makes to the record meanwhile

RecordAssumption == MaxAsks \in Nat \ {0} /\ MaxOthers \in Nat

----------------------------------------------------------------------------
(*   opens   load: the record is fetched first; form: an empty form         *)
(*   on      where the button is: on the record, or on a form beside it     *)
(*   guard   busy: the button is disabled while its action is under way     *)
(*   early   the page shows the effect before the server has answered       *)
(*   server  once: refused when done already; sets: an absolute value, so   *)
(*           a repeat changes nothing; again: every call takes effect       *)
(*   then    what a success does: reload the record, take the answer as     *)
(*           the record, take the row out, leave the page, or nothing       *)
(*   blanks  while it loads a spinner replaces the page and its children    *)
(*   tells   where a refused action is said: beside the record, in the      *)
(*           page's error slot, which replaces the record, or nowhere       *)
(*   undo    reload: a failed action loads the record again                 *)
(*   lost    a reload that fails: kept, hidden, emptied, silent (kept, and  *)
(*           nothing at first), or waiting (the loading text stays)         *)
(*   says    such a failure is shown                                        *)
(*   retry   the error card has a button that loads again                   *)
(*   secret  the answer holds a code or link shown once: kept by the page,  *)
(*           or by a child the spinner unmounts                             *)

Plain == [opens |-> "load", on |-> "record", guard |-> "busy", early |-> FALSE, server |-> "sets",
          then |-> "reload", undo |-> "none", blanks |-> FALSE, tells |-> "beside", lost |-> "kept",
          says |-> TRUE, retry |-> FALSE, secret |-> "none"]
Form  == [Plain EXCEPT !.opens = "form", !.server = "once", !.then = "leaves"]

CaseTransition   == [Plain EXCEPT !.server = "once"]
CaseAssignment   == Plain
CaseDocuments    == [Plain EXCEPT !.server = "again"]
FlagReview       == [Plain EXCEPT !.then = "row", !.retry = TRUE]
RecordReview     == [Plain EXCEPT !.blanks = TRUE, !.says = FALSE]
ProviderUsers    == [Plain EXCEPT !.guard = "free", !.blanks = TRUE, !.tells = "page", !.lost = "hidden"]
ProviderForm     == [Plain EXCEPT !.blanks = TRUE, !.lost = "hidden"]
ProviderNewUser  == [ProviderForm EXCEPT !.server = "once", !.secret = "page"]
ProviderReset    == [Plain EXCEPT !.server = "again", !.then = "none", !.blanks = TRUE, !.lost = "hidden",
                                  !.secret = "child"]
UserForm         == [Plain EXCEPT !.then = "answer"]
UserSwitch       == [UserForm EXCEPT !.guard = "free"]
UserReset        == [Plain EXCEPT !.server = "again", !.then = "none"]
TaxpayerForm     == UserForm
NewTaxpayer      == Form
NewProvider      == Form
NewStaffUser     == Form
ForcedPassword   == Form            \* the token that authorised it is void afterwards
StaffLink        == Form            \* a reset link works once
ProviderLink     == Form
SignIn           == [Form EXCEPT !.server = "again"]    \* "MFA code required" is told too
ProviderSignIn   == SignIn
AdminSignIn      == SignIn
Uploader         == [Form EXCEPT !.then = "answer"]     \* a period is filed once
TaxpayerImport   == [Uploader EXCEPT !.server = "sets"]
TriageRun        == [Uploader EXCEPT !.server = "again"]
OwnPassword      == [Plain EXCEPT !.server = "once", !.then = "none"]
OrganisationForm == UserForm
LogoForm         == UserForm
StatutoryForm    == [Plain EXCEPT !.server = "again", !.lost = "waiting", !.says = FALSE]
PartnerKeys      == [Plain EXCEPT !.on = "form", !.server = "again", !.lost = "emptied", !.says = FALSE, !.secret = "page"]
PartnerRevoke    == [Plain EXCEPT !.guard = "free", !.lost = "emptied", !.says = FALSE]
PenaltyIssue     == [Plain EXCEPT !.tells = "page", !.says = FALSE, !.retry = TRUE]
SchemaForm       == [Plain EXCEPT !.blanks = TRUE, !.lost = "emptied", !.says = FALSE]
PortfolioForm    == [Plain EXCEPT !.on = "form", !.server = "once", !.lost = "emptied", !.retry = TRUE]
PortfolioRemove  == [PortfolioForm EXCEPT !.on = "record", !.guard = "free"]
TwoFactor        == [Plain EXCEPT !.server = "again", !.lost = "hidden", !.secret = "page"]
AlertScan        == [Plain EXCEPT !.on = "form", !.server = "once", !.lost = "emptied", !.retry = TRUE]
AlertRead        == [Plain EXCEPT !.guard = "free", !.tells = "nowhere", !.lost = "emptied", !.retry = TRUE]
ProviderAlertRead == [AlertRead EXCEPT !.early = TRUE, !.undo = "reload"]
BellRead         == [Plain EXCEPT !.guard = "free", !.early = TRUE, !.then = "none", !.tells = "nowhere",
                                  !.lost = "emptied", !.says = FALSE]
Referrals        == [Plain EXCEPT !.server = "once", !.lost = "emptied"]
Assignments      == [Plain EXCEPT !.server = "once"]
AssignmentRevoke == [Plain EXCEPT !.guard = "free"]
Approvals        == [Plain EXCEPT !.server = "once", !.secret = "page"]
TriageAnswer     == [Plain EXCEPT !.server = "once", !.then = "answer"]
ElevationRequest == [StatutoryForm EXCEPT !.server = "sets"]
ElevationEnd     == [ElevationRequest EXCEPT !.guard = "free", !.server = "once", !.tells = "nowhere"]
ElevationAnswer  == [Plain EXCEPT !.guard = "free", !.server = "once", !.lost = "emptied", !.says = FALSE]
NetRegister      == [StatutoryForm EXCEPT !.server = "once"]
NetRegisterMany  == StatutoryForm
QuestionForm     == [Plain EXCEPT !.on = "form", !.server = "again", !.lost = "silent", !.says = FALSE]
QuestionSwitch   == [Plain EXCEPT !.guard = "free", !.early = TRUE, !.then = "none", !.undo = "reload",
                                  !.tells = "nowhere", !.lost = "silent", !.says = FALSE]
AccessCodes      == [QuestionForm EXCEPT !.tells = "nowhere", !.secret = "page"]

Pages == {CaseTransition, CaseAssignment, CaseDocuments, FlagReview, RecordReview, ProviderUsers,
          ProviderForm, ProviderNewUser, ProviderReset, UserForm, UserSwitch, UserReset,
          TaxpayerForm, NewTaxpayer, NewProvider, NewStaffUser, ForcedPassword, StaffLink,
          ProviderLink, SignIn, ProviderSignIn, AdminSignIn, Uploader, TaxpayerImport, TriageRun,
          OwnPassword, OrganisationForm, LogoForm, StatutoryForm, PartnerKeys, PartnerRevoke,
          PenaltyIssue, SchemaForm, PortfolioForm, PortfolioRemove, TwoFactor, AlertScan,
          AlertRead, ProviderAlertRead, BellRead, Referrals, Assignments, AssignmentRevoke,
          Approvals, TriageAnswer, ElevationRequest, ElevationEnd, ElevationAnswer, NetRegister,
          NetRegisterMany, QuestionForm, QuestionSwitch, AccessCodes}

----------------------------------------------------------------------------
VARIABLES
    page,      \* the page that is open
    rec,       \* the record: effects of this officer's actions, changes by others
    view,      \* what the page shows: a spinner, the record, an error card, ...
    seen,      \* the record as the page last took it in
    flying,    \* requests under way
    asks,      \* how many were sent
    busy,      \* the flag that disables the button
    error,     \* a failure is on the screen
    secret,    \* the one-time secret on the page: the number of its request, or 0
    given,     \* history: the secret that reached the page last and was not dismissed
    served,    \* requests the server has answered, in number
    history    \* overtaken: an answer was taken in after a later one, or a failure;
               \* lost: a reload failed; covered: a reload unmounted a secret;
               \* failed: the last answer taken in was a failed action

rvars == <<page, rec, view, seen, flying, asks, busy, error, secret, given, served, history>>

Record == [mine : 0..MaxAsks, others : 0..MaxOthers]
Ask == [n : 1..MaxAsks, do : {"load", "act", "orphan"}, at : {"sent", "done", "refused"},
        when : 0..MaxAsks, rec : Record]
History == [overtaken : BOOLEAN, lost : BOOLEAN, covered : BOOLEAN, failed : BOOLEAN, latest : 0..MaxAsks]

Sent(n, do) == [n |-> n, do |-> do, at |-> "sent", when |-> 0, rec |-> [mine |-> 0, others |-> 0]]

Init == /\ page \in Pages
        /\ rec = [mine |-> 0, others |-> 0] /\ seen = rec
        /\ IF page.opens = "form" THEN view = "record" /\ flying = {} /\ asks = 0
                                   ELSE view = "loading" /\ flying = {Sent(1, "load")} /\ asks = 1
        /\ busy = FALSE /\ error = FALSE /\ secret = 0 /\ given = 0 /\ served = 0
        /\ history = [overtaken |-> FALSE, lost |-> FALSE, covered |-> FALSE, failed |-> FALSE, latest |-> 0]

\* Requests yet to be sent: each action still to be answered may reload.
Room == MaxAsks - asks - Cardinality({r \in flying : r.do # "load"})

AlwaysEnabled == TRUE                          \* mutant
Enabled == page.guard = "busy" => ~busy        \* disabled={busy}
ForgetsBusy == busy' = busy                    \* mutant
EndsBusy == busy' = FALSE                      \* finally { setBusy(false) }

\* The button: busy on, the last error and the last secret off.
Press ==
    /\ view = "record" \/ (page.on = "form" /\ view \in {"empty", "card"})
    /\ Room >= 2
    /\ Enabled
    /\ page.early => seen.mine = 0              \* what is shown as done has no button
    /\ page.secret = "child" => secret = 0      \* the modal shows the link instead of the button
    /\ asks' = asks + 1
    /\ flying' = flying \cup {Sent(asks', "act")}
    /\ busy' = TRUE /\ error' = FALSE
    /\ secret' = 0 /\ given' = 0
    /\ history' = [history EXCEPT !.failed = FALSE]
    /\ seen' = IF page.early THEN [seen EXCEPT !.mine = 1] ELSE seen
    /\ UNCHANGED <<page, rec, view, served>>

\* The server does it, or refuses; a load reads the record as it is.
Serve(r) ==
    /\ r \in flying /\ r.at = "sent"
    /\ LET takes == r.do # "load" /\ (page.server = "once" => rec.mine = 0)
       IN /\ rec' = IF takes THEN [rec EXCEPT !.mine = IF page.server = "sets" THEN 1 ELSE @ + 1] ELSE rec
          /\ served' = served + 1
          /\ flying' = (flying \ {r}) \cup
               {[r EXCEPT !.at = IF r.do # "load" /\ ~takes THEN "refused" ELSE "done",
                          !.when = served', !.rec = rec']}
    /\ UNCHANGED <<page, view, seen, asks, busy, error, secret, given, history>>

\* Someone else changes the record.
Other ==
    /\ rec.others < MaxOthers
    /\ rec' = [rec EXCEPT !.others = @ + 1]
    /\ UNCHANGED <<page, view, seen, flying, asks, busy, error, secret, given, served, history>>

\* load(): the children of a page that blanks are unmounted, a secret one of
\* them held is gone.
Reload(rest) ==
    /\ asks' = asks + 1 /\ flying' = rest \cup {Sent(asks', "load")}
    /\ view' = IF page.blanks THEN "loading" ELSE view

Took(r) == [history EXCEPT !.overtaken = @ \/ r.when < history.latest,
                           !.latest = IF r.when > @ THEN r.when ELSE @, !.failed = FALSE]

\* A record arrives.
Loaded(r) ==
    /\ r \in flying /\ r.do = "load" /\ r.at = "done"
    /\ flying' = flying \ {r}
    /\ seen' = r.rec /\ view' = IF page.lost = "hidden" /\ error THEN "hidden" ELSE "record"
    /\ history' = [Took(r) EXCEPT !.lost = FALSE, !.failed = history.failed]
    /\ UNCHANGED <<page, rec, asks, busy, error, secret, given, served>>

\* The load fails: at first there is no record to keep.
LoadFailed(r) ==
    /\ r \in flying /\ r.do = "load" /\ flying' = flying \ {r}
    /\ view' = CASE page.lost = "waiting" -> "loading"
                 [] page.lost = "emptied" -> IF page.says THEN "card" ELSE "empty"
                 [] page.lost = "hidden" -> "hidden"
                 [] page.lost = "silent" -> IF view = "loading" THEN "empty" ELSE view
                 [] page.lost = "kept" -> IF r.n = 1 \/ view = "card" THEN "card" ELSE "record"
    /\ error' = (error \/ page.says \/ (r.n = 1 /\ page.lost \in {"kept", "hidden"}))
    /\ history' = [history EXCEPT !.lost = TRUE, !.latest = served]
    /\ UNCHANGED <<page, rec, seen, asks, busy, secret, given, served>>

\* The action is answered: what the page does next, and busy off.
Done(r) ==
    /\ r \in flying /\ r.do = "act" /\ r.at = "done"
    /\ EndsBusy
    /\ IF page.secret # "none" /\ view # "hidden" THEN secret' = r.n /\ given' = r.n
       ELSE UNCHANGED <<secret, given>>
    /\ CASE page.then = "reload" -> Reload(flying \ {r}) /\ seen' = seen /\ history' = [history EXCEPT !.failed = FALSE]
         [] page.then = "answer" -> /\ flying' = flying \ {r} /\ asks' = asks
                                    /\ view' = "record" /\ seen' = r.rec /\ history' = Took(r)
         [] page.then = "leaves" -> /\ flying' = flying \ {r} /\ asks' = asks /\ view' = "left"
                                    /\ seen' = r.rec /\ history' = Took(r)
         [] page.then = "row"    -> /\ flying' = flying \ {r} /\ asks' = asks /\ view' = "left"
                                    /\ seen' = r.rec /\ history' = Took(r)
         [] page.then = "none"   -> /\ flying' = flying \ {r}
                                    /\ UNCHANGED <<asks, view, seen>>
                                    /\ history' = [history EXCEPT !.failed = FALSE]
    /\ UNCHANGED <<page, rec, error, served>>

\* The action is refused, or fails, or only its answer is lost.
Failed(r) ==
    /\ r \in flying /\ r.do = "act"
    /\ EndsBusy
    /\ error' = (error \/ page.tells # "nowhere")
    /\ IF page.undo = "reload" THEN Reload(flying \ {r})
       ELSE /\ flying' = flying \ {r} /\ asks' = asks
            /\ view' = IF page.tells = "page" THEN (IF page.retry THEN "card" ELSE "hidden") ELSE view
    /\ history' = [history EXCEPT !.failed = TRUE]
    /\ UNCHANGED <<page, rec, seen, secret, given, served>>

\* The retry button; a page without one is left and opened again.
Retry ==
    /\ page.retry /\ view = "card" /\ Room >= 1
    /\ Reload(flying) /\ error' = FALSE
    /\ history' = [history EXCEPT !.failed = FALSE]
    /\ UNCHANGED <<page, rec, seen, busy, secret, given, served>>

\* Another button of the provider page, pressed before the modal was opened,
\* reloads the page under it: the modal comes back empty, and the answer to a
\* request it had sent reaches nobody.
Elsewhere ==
    /\ page.secret = "child" /\ view = "record" /\ Room >= 1
    /\ Reload({IF r.do = "act" THEN [r EXCEPT !.do = "orphan"] ELSE r : r \in flying})
    /\ secret' = 0 /\ busy' = FALSE
    /\ history' = [history EXCEPT !.covered = @ \/ given # 0]
    /\ UNCHANGED <<page, rec, seen, error, given, served>>
Orphaned(r) ==
    /\ r \in flying /\ r.do = "orphan" /\ flying' = flying \ {r}
    /\ history' = [history EXCEPT !.covered = @ \/ r.at = "done"]
    /\ UNCHANGED <<page, rec, view, seen, asks, busy, error, secret, given, served>>

\* "Done", "Dismiss".
Dismiss ==
    /\ secret # 0 /\ view = "record"
    /\ secret' = 0 /\ given' = 0
    /\ UNCHANGED <<page, rec, view, seen, flying, asks, busy, error, served, history>>

Next == \/ Press \/ Other \/ Retry \/ Elsewhere \/ Dismiss
        \/ \E r \in flying : Serve(r) \/ Loaded(r) \/ LoadFailed(r) \/ Done(r) \/ Failed(r) \/ Orphaned(r)

\* A fetch always settles.
Settle == \E r \in flying : Loaded(r) \/ LoadFailed(r) \/ Done(r) \/ Failed(r) \/ Orphaned(r)

Spec == Init /\ [][Next]_rvars /\ WF_rvars(Settle)

----------------------------------------------------------------------------
TypeOK ==
    /\ page \in Pages /\ rec \in Record /\ seen \in Record
    /\ view \in {"loading", "record", "hidden", "card", "empty", "left"}
    /\ flying \subseteq Ask /\ asks \in 0..MaxAsks /\ served \in 0..MaxAsks
    /\ busy \in BOOLEAN /\ error \in BOOLEAN
    /\ secret \in 0..MaxAsks /\ given \in 0..MaxAsks
    /\ history \in History

AtRest == /\ flying = {} /\ ~history.overtaken /\ ~history.lost
          /\ history.failed => page.undo = "reload"

\* What the officer did is what the page then shows: with nothing in flight the
\* record on the screen has every effect of the officer's own actions -- unless
\* an answer was lost or failed, or two crossed: `busy` ends before the reload
\* does, so the reload of one action may come back after that of the next.  A
\* page that shows the effect early takes it back when the action has failed,
\* by loading again (the bell of the top bar does not).
ShowsWhatWasDone ==
    AtRest /\ view = "record" /\ (page.then # "none" \/ page.early) => seen.mine = rec.mine

\* A second effect needs a second decision: an action that adds something each
\* time it is called (a version, a key, a document, a reset) is never added
\* twice by pressing twice while the first press is unanswered, and one that may
\* be done once is done once however often the button is pressed.
OneEffectPerDecision ==
    /\ page.server = "once" => rec.mine <= 1
    /\ page.guard = "busy" => Cardinality({r \in flying : r.do = "act"}) <= 1

\* A failure of what the officer did last is on the screen when all is quiet
\* (the buttons that tell nobody: marking an alert read, ending one's own access,
\* retiring a question, making access codes).
FailureIsTold == flying = {} /\ history.failed => error \/ page.tells = "nowhere"

\* A link, key or token the server shows once stays on the screen until it is
\* dismissed or another is asked for, whatever reloads in between -- on every
\* page but three: the provider page, which goes blank for good when its reload
\* fails and unmounts the reset modal when it reloads, and the two-factor panel,
\* which hides its codes when the account's state cannot be read.
SecretStays ==
    /\ given # 0 /\ ~history.covered => secret = given
    /\ given # 0 /\ page.lost # "hidden" => view \in {"record", "empty"}
    /\ history.covered => page.secret = "child"

\* A spinner ends and a disabled button comes back, whatever fails (the
\* statutory panel says it is loading for ever once its load has failed).
Held  == busy /\ page.guard = "busy"
Waits == view = "loading" /\ page.lost # "waiting"
PageRecovers == (Held ~> ~Held) /\ (Waits ~> ~Waits)

----------------------------------------------------------------------------
(* What every step keeps.                                                   *)

\* The requests are told apart by their numbers, and no more are sent than there
\* is room for; each is served once.
Numbered ==
    /\ IsFiniteSet(flying)
    /\ \A r \in flying : r.n <= asks
    /\ \A r, u \in flying : r.n = u.n => r = u
    /\ asks + Cardinality({r \in flying : r.do # "load"}) <= MaxAsks
    /\ served + Cardinality({r \in flying : r.at = "sent"}) <= asks
    /\ rec.mine <= served /\ history.latest <= served

\* What is done is in the record as it was then, and nothing is undone.
Served(r) == r.at # "sent"
InOrder ==
    /\ \A r \in flying : Served(r) =>
          r.when <= served /\ r.rec.mine <= rec.mine /\ (r.when = served => r.rec.mine = rec.mine)
    /\ \A r, u \in flying : Served(r) /\ Served(u) /\ r.when <= u.when => r.rec.mine <= u.rec.mine
    /\ \A r \in flying : r.do = "load" => r.at # "refused"
    /\ page.server = "sets" => rec.mine <= 1 /\ \A r \in flying : r.do = "act" /\ Served(r) => r.at = "done" /\ r.rec.mine = 1

\* A guarded button has one action under way; its answer is the record.
Guarded ==
    /\ page.guard = "busy" => \A r \in flying : r.do = "act" =>
          busy /\ \A u \in flying : u.do = "act" => u = r
    /\ page.then \in {"answer", "leaves", "row"} => \A r \in flying :
          r.do = "act" /\ r.at = "done" => r.rec.mine = rec.mine
    /\ \A r \in flying : r.do = "orphan" => page.secret = "child"

\* An effect shown early and never loaded again is alone under way.
Early == page.early /\ page.then = "none" =>
    /\ \A r, u \in flying : r = u
    /\ view = "record" /\ flying # {} => seen.mine = 1
    /\ \A r \in flying : r.do = "act" => seen.mine = 1

\* What the officer did is shown, or what will show it is under way.
Told ==
    \/ history.overtaken
    \/ history.failed /\ page.undo # "reload"
    \/ \E r \in flying : r.do = "act"
    \/ \E r \in flying : r.do = "load" /\ (r.at = "sent" \/ r.rec.mine = rec.mine)
    \/ /\ history.lost \/ seen.mine = rec.mine
       /\ \A r \in flying : r.at = "done" /\ r.when >= history.latest => r.rec.mine = rec.mine

\* A page that keeps a secret of its own does not lose it.
Keeps == page.secret # "none" /\ page.lost # "hidden" =>
    /\ given # 0 \/ (\E r \in flying : r.do = "act") => view \in {"record", "empty"}
    /\ view \in {"loading", "record", "empty", "card"} /\ (view = "card" => page.lost = "kept")
    /\ asks > 0 /\ \A r \in flying : r.n = 1 => view = "loading" /\ given = 0 /\ asks = 1

RecordHolds ==
    /\ TypeOK /\ Numbered /\ InOrder /\ Guarded /\ Early
    /\ page.then # "none" \/ page.early => Told
    /\ page.server = "once" => rec.mine <= 1
    /\ history.failed => error \/ page.tells = "nowhere"
    /\ ~history.covered => secret = given
    /\ history.covered => page.secret = "child"
    /\ page.secret = "none" => given = 0
    /\ Keeps
=============================================================================
