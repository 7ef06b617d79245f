----------------------------- MODULE IdleSession -----------------------------
(* Idle sign-out of the web application: the hook useIdleTimeout.ts in every   *)
(* open tab, the time of the last activity and the token the tabs share in     *)
(* localStorage, and the sign-in and sign-out of staffAuthStore.ts and the     *)
(* (staff) layout.  A hook's handlers run to their end, so each is one step.   *)
EXTENDS Integers

CONSTANTS
    Tabs,      \* tabs of one browser
    IdleMs,    \* IDLE_TIMEOUT_MS, in units of the clock
    WarningMs, \* IDLE_WARNING_MS
    Throttle,  \* WRITE_THROTTLE_MS
    MaxTime    \* bound on the clock

\* What the constants must be; the instances checked assume it.
IdleAssumption ==
    /\ {IdleMs, WarningMs, Throttle, MaxTime} \subseteq Nat \ {0}
    /\ Throttle <= IdleMs

VARIABLES
    now,
    token,  \* the session is in localStorage
    last,   \* the last activity in localStorage, NoTime when there is none
    tab,    \* per tab: what it shows, its warning, its lastWriteRef
    asleep, \* tabs whose timers stand still
    touch,  \* history: when the user last did what counts as activity
    woken   \* tabs that woke with no event to tell them, their interval still due

vars == <<now, token, last, tab, asleep, touch, woken>>

NoTime == 0
Limit  == IdleMs + WarningMs
TabStates == [shows : {"nothing", "login", "app"}, warning : BOOLEAN, write : Nat]

TypeOK ==
    /\ now \in 1 .. MaxTime /\ {last, touch} \subseteq 0 .. MaxTime
    /\ token \in BOOLEAN
    /\ tab \in [Tabs -> TabStates]
    /\ asleep \subseteq Tabs /\ woken \subseteq Tabs

Closed == [shows |-> "nothing", warning |-> FALSE, write |-> NoTime]

Init ==
    /\ now = 1 /\ token = FALSE /\ last = NoTime
    /\ tab = [t \in Tabs |-> Closed]
    /\ asleep = {} /\ touch = 1 /\ woken = {}

Awake(t) == t \notin asleep
InApp(t) == tab[t].shows = "app"

-----------------------------------------------------------------------------
\* What check finds for a tab whose last write was at w.
Since(w)   == IF last # NoTime THEN last ELSE w
Elapsed(w) == IF Since(w) = NoTime THEN 0 ELSE now - Since(w)

\* Mutant: a tab compares with its own last write, not with what the tabs share.
OwnElapsed(w) == IF w = NoTime THEN 0 ELSE now - w

\* handleSignOut: clearAuth removes the token, the tab goes to the login page.
SignedOut(t) ==
    /\ token' = FALSE
    /\ tab' = [tab EXCEPT ![t].shows = "login", ![t].warning = FALSE]

\* check: past the limit the session ends; past the idle time the warning shows;
\* otherwise a warning is taken back.
Checked(t) ==
    LET e == Elapsed(tab[t].write) IN
    \/ /\ e >= Limit
       /\ SignedOut(t)
    \/ /\ e < Limit
       /\ tab' = [tab EXCEPT ![t].warning = (e >= IdleMs)]
       /\ UNCHANGED token

\* The interval, while the tab's timers run.
Check(t) ==
    /\ InApp(t) /\ Awake(t)
    /\ Checked(t)
    /\ woken' = woken \ {t}
    /\ UNCHANGED <<now, last, asleep, touch>>

\* Nothing is left for the interval to do in a tab.
Settled(t) == InApp(t) /\ Awake(t) =>
    LET e == Elapsed(tab[t].write) IN e < Limit /\ tab[t].warning = (e >= IdleMs)

\* The user can act in a tab: its interval has run, or it woke unnoticed.
Present(t) == InApp(t) /\ Awake(t) /\ (Settled(t) \/ t \in woken)

\* recordActivity: at most one write per Throttle, unless forced.
Record(t, force) ==
    IF ~ force /\ now - tab[t].write < Throttle
    THEN UNCHANGED <<last, tab>>
    ELSE last' = now /\ tab' = [tab EXCEPT ![t].write = now, ![t].warning = FALSE]

\* Mutant: handleActivity does not look at the warning, so any movement of the
\* mouse takes the session on.
ActivityAlways(t) ==
    /\ Present(t)
    /\ Record(t, FALSE)
    /\ touch' = IF tab[t].warning THEN touch ELSE now
    /\ UNCHANGED <<now, token, asleep, woken>>

\* handleActivity: while the warning shows, only its button keeps the session.
Activity(t) ==
    /\ Present(t)
    /\ ~ tab[t].warning
    /\ Record(t, FALSE)
    /\ touch' = now
    /\ UNCHANGED <<now, token, asleep, woken>>

\* stayLoggedIn
Stay(t) ==
    /\ Present(t)
    /\ tab[t].warning
    /\ Record(t, TRUE)
    /\ touch' = now
    /\ UNCHANGED <<now, token, asleep, woken>>

SignOut(t) ==
    /\ Present(t)
    /\ SignedOut(t)
    /\ UNCHANGED <<now, last, asleep, touch, woken>>

\* setAuth: the token and a fresh clock.
SignIn(t) ==
    /\ tab[t].shows = "login" /\ Awake(t)
    /\ token' = TRUE
    /\ last' = now
    /\ tab' = [tab EXCEPT ![t].shows = "app", ![t].warning = FALSE]
    /\ touch' = now
    /\ UNCHANGED <<now, asleep, woken>>

\* A tab is opened: with a session kept in storage, the effect of the hook writes
\* a clock if there is none and checks before anything is shown.
Open(t) ==
    /\ tab[t].shows = "nothing"
    /\ \/ /\ ~ token \/ (last # NoTime /\ now - last >= Limit)
          /\ token' = FALSE
          /\ tab' = [tab EXCEPT ![t] = [Closed EXCEPT !.shows = "login"]]
          /\ UNCHANGED last
       \/ /\ token /\ (last = NoTime \/ now - last < Limit)
          /\ last' = IF last = NoTime THEN now ELSE last
          /\ tab' = [tab EXCEPT ![t] =
                [shows |-> "app", warning |-> last # NoTime /\ now - last >= IdleMs,
                 write |-> IF last = NoTime THEN now ELSE NoTime]]
          /\ UNCHANGED token
    /\ UNCHANGED <<now, asleep, touch, woken>>

Close(t) ==
    /\ tab[t].shows # "nothing"
    /\ tab' = [tab EXCEPT ![t] = Closed]
    /\ asleep' = asleep \ {t}
    /\ woken' = woken \ {t}
    /\ UNCHANGED <<now, token, last, touch>>

-----------------------------------------------------------------------------
\* The timers of a tab stop: in the background, locked, a sleeping machine.
Suspend(t) ==
    /\ tab[t].shows # "nothing" /\ Awake(t)
    /\ asleep' = asleep \cup {t}
    /\ UNCHANGED <<now, token, last, tab, touch, woken>>

\* Mutant: nothing is checked when the page is visible again.
ResumeUnchecked(t) ==
    /\ t \in asleep
    /\ asleep' = asleep \ {t}
    /\ UNCHANGED <<now, token, last, tab, touch, woken>>

\* The page is visible, focused or shown again: handleResume checks first.
Resume(t) ==
    /\ t \in asleep
    /\ asleep' = asleep \ {t}
    /\ IF InApp(t) THEN Checked(t) ELSE UNCHANGED <<token, tab>>
    /\ UNCHANGED <<now, last, touch, woken>>

\* The timers go on and no such event is sent: the page was visible and focused
\* all along, as on a machine that slept.
Wake(t) ==
    /\ t \in asleep
    /\ asleep' = asleep \ {t}
    /\ woken' = woken \cup {t}
    /\ UNCHANGED <<now, token, last, tab, touch>>

\* Time passes; the interval is short against a unit of the clock, so a running
\* tab has nothing left to check.
Tick ==
    /\ now < MaxTime
    /\ \A t \in Tabs : Settled(t)
    /\ now' = now + 1
    /\ UNCHANGED <<token, last, tab, asleep, touch, woken>>

TabStep(t) ==
    \/ Check(t)  \/ Activity(t) \/ Stay(t)   \/ SignOut(t) \/ SignIn(t)
    \/ Open(t)   \/ Close(t)    \/ Suspend(t) \/ Resume(t) \/ Wake(t)

Next == Tick \/ \E t \in Tabs : TabStep(t)

Spec == Init /\ [][Next]_vars

-----------------------------------------------------------------------------
\* A session left alone for the whole limit does not go on: the clock of such a
\* session is moved by a sign-in only, in any tab, after any suspension.
PastLimitStaysPast ==
    (token /\ last # NoTime /\ now - last >= Limit /\ last' # last) =>
        \E t \in Tabs : tab[t].shows = "login" /\ tab'[t].shows = "app"

\* "Anything past the limit signs out at once" (useIdleTimeout.ts 17).
PastLimitSignsOut == [][PastLimitStaysPast]_vars

\* The same but for a tab that woke with no event to tell it, where the first
\* movement of the mouse may be handled before the interval.
PastLimitUnlessWoken == PastLimitStaysPast \/ \E t \in woken :
    Awake(t) /\ tab'[t].write = now
PastLimitSignsOutUnlessWoken == [][PastLimitUnlessWoken]_vars

\* No tab finds the session of a user past the limit who was active, in whatever
\* tab, within it (less the throttle of writes).
NoEarlySignOut == \A t \in Tabs :
    (InApp(t) /\ Elapsed(tab[t].write) >= Limit) => now - touch > Limit - Throttle

-----------------------------------------------------------------------------
(* What makes it so: where the application is shown the clock of the session   *)
(* runs, no tab has written later than it says, and what the user does is on   *)
(* it within the throttle.                                                     *)
ClockRuns ==
    /\ \A t \in Tabs : InApp(t) => last # NoTime
    /\ \A t \in Tabs : tab[t].write <= last
    /\ last <= now /\ touch <= now
    /\ last # NoTime => touch - last < Throttle
=============================================================================
