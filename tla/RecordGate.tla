----------------------------- MODULE RecordGate -----------------------------
(***************************************************************************)
(* The officer's way to raw records: the gate a refused document opens on  *)
(* the case page (RecordAccessGate.tsx, cases/[id]/page.tsx) and the       *)
(* uploads modal of a provider (ProviderUploadsModal.tsx).  Both show the  *)
(* next step towards a work session -- assign yourself, request a token,   *)
(* have it approved, redeem it -- from what they last read of the server.  *)
(* The server's calls are AccessGrant's, each taken whole.                 *)
(***************************************************************************)
EXTENDS Naturals, Sequences

CONSTANTS
    Window,      \* REDEEM_WINDOW_MIN
    Session,     \* SESSION_HOURS
    Idle,        \* the step-up token of the modal, renewed while it is used
    MaxTime,     \* bound on the clock
    MaxGrants,   \* bound on the requests made
    MaxRevokes   \* bound on what administrators take back

GateAssumption ==
    /\ {Window, Session, Idle, MaxTime, MaxGrants, MaxRevokes} \subseteq Nat
    /\ Session > 0 /\ Idle > 0 /\ MaxTime > 0

VARIABLES
    form,      \* gate or modal
    label,     \* the document that was refused
    now,
    assigned,  \* the officer's assignment
    grants,    \* the officer's requests and grants of this scope, oldest first
    seen,      \* what the screen last read: [assigned, token, status]
    raw,       \* the token the officer was given last: the number of its grant
    step,      \* until when the modal's step-up token is good, 0 without one
    chosen,    \* the upload whose records the modal shows, 0 for none
    fetching,  \* uploads whose records were asked for
    records,   \* the upload the records on the screen belong to
    opened,    \* the document that was opened last
    revokes,
    crossed    \* history: records arrived that were not the ones asked for last

gvars == <<form, label, now, assigned, grants, seen, raw, step, chosen, fetching, records, opened, revokes, crossed>>
server == <<now, assigned, grants, revokes>>
viewer == <<chosen, fetching, records, crossed>>

Labels == {"tax_report", "tax_report_excel", "evidence_bundle", "evidence_bundle_excel"}
Documents == {"tax-report", "evidence"}
Uploads == 1..2
Grants == [status : {"PENDING", "APPROVED", "REDEEMED", "REVOKED"}, redeemBy : Nat, until : Nat]

Init == /\ form \in {"gate", "modal"} /\ label \in (IF form = "gate" THEN Labels ELSE {"evidence_bundle"})
        /\ now = 1 /\ assigned = FALSE /\ grants = <<>>
        /\ seen = [assigned |-> FALSE, token |-> 0, status |-> "none", live |-> FALSE]
        /\ raw = 0 /\ step = 0 /\ chosen = 0 /\ fetching = {} /\ records = 0
        /\ opened = "none" /\ revokes = 0 /\ crossed = FALSE

----------------------------------------------------------------------------
Live(g) == g.status = "REDEEMED" /\ g.until > now
Usable(g) == g.status = "PENDING" \/ (g.status = "APPROVED" /\ now <= g.redeemBy) \/ Live(g)
InSession == assigned /\ \E i \in DOMAIN grants : Live(grants[i])

\* mine: what is not revoked, newest first.
Mine(g) == {i \in DOMAIN g : g[i].status # "REVOKED"}
Newest(S) == CHOOSE i \in S : \A j \in S : j <= i

\* load, refreshGrant: the gate takes a live session, else the newest of the
\* list; the modal always takes the newest.
Taken(g) == LET live == {i \in Mine(g) : Live(g[i])}
            IN IF form = "gate" /\ live # {} THEN Newest(live)
               ELSE IF Mine(g) # {} THEN Newest(Mine(g)) ELSE 0
Read(a, g) == [assigned |-> a, token |-> Taken(g),
               status |-> IF Taken(g) = 0 THEN "none" ELSE g[Taken(g)].status,
               live |-> form = "gate" /\ Taken(g) # 0 /\ Live(g[Taken(g)])]

\* The gate reads both lists after every step; the modal asks for the
\* assignment only when it is opened.
Reread(g) == Read(IF form = "gate" THEN assigned ELSE seen.assigned, g)
Load ==
    /\ seen' = Read(assigned, grants)
    /\ UNCHANGED <<form, label, server, raw, step, viewer, opened>>

\* Self-assign, with a reason.  Its answer, or the reading after it, may be lost.
SelfAssign ==
    /\ ~seen.live /\ ~seen.assigned
    /\ assigned' = TRUE
    /\ seen' \in {seen, IF form = "gate" THEN Read(TRUE, grants) ELSE [seen EXCEPT !.assigned = TRUE]}
    /\ UNCHANGED <<form, label, now, grants, raw, step, viewer, opened, revokes>>

\* Request access: shown while the screen knows an assignment and no token.
Reusable == {i \in DOMAIN grants : /\ grants[i].status \in {"PENDING", "APPROVED", "REDEEMED"}
                                   /\ grants[i].until = 0 \/ grants[i].until > now}
Request ==
    /\ ~seen.live /\ seen.assigned /\ seen.token = 0
    /\ assigned /\ (Reusable # {} \/ Len(grants) < MaxGrants)
    /\ grants' = IF Reusable # {} THEN grants
                 ELSE Append(grants, [status |-> "PENDING", redeemBy |-> 0, until |-> 0])
    /\ seen' \in {seen, Reread(grants')}
    /\ UNCHANGED <<form, label, now, assigned, raw, step, viewer, opened, revokes>>

\* approve, by a super admin at the queue or at the gate itself: the token is
\* relayed to the officer.
Approve(i) ==
    /\ i \in DOMAIN grants /\ grants[i].status = "PENDING"
    /\ grants' = [grants EXCEPT ![i].status = "APPROVED", ![i].redeemBy = now + Window]
    /\ raw' = i
    /\ \/ seen' = seen
       \/ form = "gate" /\ seen.token = i /\ seen.status = "PENDING" /\ seen' = Reread(grants')
    /\ UNCHANGED <<form, label, now, assigned, step, viewer, opened, revokes>>

\* Unlock: redeem the token with the password, read the state again, then open
\* what was refused -- or, in the modal, take a step-up token.
CanRedeem == /\ ~seen.live /\ step = 0 /\ seen.token # 0 /\ raw # 0
             /\ IF form = "gate" THEN seen.status = "APPROVED" ELSE seen.assigned /\ seen.status # "PENDING"
Accepts(g) == (g.status = "APPROVED" /\ now <= g.redeemBy) \/ (g.status = "REDEEMED" /\ now <= g.until)

\* onUnlocked of cases/[id]/page.tsx.
Document == IF label = "evidence_bundle" THEN "evidence" ELSE "tax-report"

Redeem ==
    /\ CanRedeem /\ Accepts(grants[raw])
    /\ grants' = IF grants[raw].status = "APPROVED"
                 THEN [grants EXCEPT ![raw].status = "REDEEMED", ![raw].until = now + Session]
                 ELSE grants
    /\ IF form = "gate"
       THEN /\ step' = 0
            /\ opened' = IF assigned THEN Document ELSE opened
       ELSE step' \in {0, now + Idle} /\ opened' = opened    \* 0: the second factor is missing
    /\ seen' = IF form = "modal" /\ step' = 0 THEN seen ELSE Reread(grants')
    /\ UNCHANGED <<form, label, now, assigned, raw, viewer, revokes>>

\* "Reopen the document now."
Reopen ==
    /\ form = "gate" /\ seen.live /\ InSession
    /\ opened' = Document
    /\ UNCHANGED <<form, label, server, seen, raw, step, viewer>>

\* End session, which is a revocation; and an administrator's revocations.
EndSession ==
    /\ form = "gate" /\ seen.live
    /\ grants' = [grants EXCEPT ![seen.token].status = "REVOKED"]
    /\ seen' = Reread(grants')
    /\ UNCHANGED <<form, label, now, assigned, raw, step, viewer, opened, revokes>>
Revoke(i) ==
    /\ i \in Mine(grants) /\ revokes < MaxRevokes /\ revokes' = revokes + 1
    /\ grants' = [grants EXCEPT ![i].status = "REVOKED"]
    /\ UNCHANGED <<form, label, now, assigned, seen, raw, step, viewer, opened>>
Unassign ==
    /\ assigned /\ revokes < MaxRevokes /\ revokes' = revokes + 1 /\ assigned' = FALSE
    /\ UNCHANGED <<form, label, now, grants, seen, raw, step, viewer, opened>>

----------------------------------------------------------------------------
(* The modal's records, while its step-up token lives.                      *)

View(u) ==
    /\ form = "modal" /\ step > now
    /\ chosen' = u /\ records' = 0 /\ fetching' = fetching \cup {u}
    /\ UNCHANGED <<form, label, server, seen, raw, step, opened, crossed>>

\* The rows arrive, whatever is selected by then, and the session slides on --
\* or the renewal is refused and everything is put away.
Show(u, renewed) ==
    /\ u \in fetching /\ fetching' = fetching \ {u}
    /\ crossed' = (crossed \/ chosen \notin {0, u})
    /\ IF renewed /\ step > 0
       THEN step' = now + Idle /\ records' = u /\ chosen' = chosen
       ELSE step' = 0 /\ records' = (IF step = 0 THEN u ELSE 0) /\ chosen' = 0
    /\ renewed => InSession
    /\ UNCHANGED <<form, label, server, seen, raw, opened>>
NotShown(u) ==
    /\ u \in fetching /\ fetching' = fetching \ {u}
    /\ UNCHANGED <<form, label, server, seen, raw, step, chosen, records, opened, crossed>>

\* Time passes; at zero the countdown drops the token and the records.
Tick ==
    /\ now < MaxTime /\ now' = now + 1
    /\ IF step # 0 /\ step <= now'
       THEN step' = 0 /\ chosen' = 0 /\ records' = 0
       ELSE UNCHANGED <<step, chosen, records>>
    /\ UNCHANGED <<form, label, assigned, grants, seen, raw, fetching, opened, revokes, crossed>>

Next == \/ Load \/ SelfAssign \/ Request \/ Redeem \/ Reopen \/ EndSession \/ Unassign \/ Tick
        \/ \E i \in 1..MaxGrants : Approve(i) \/ Revoke(i)
        \/ \E u \in Uploads : View(u) \/ NotShown(u) \/ \E renewed \in BOOLEAN : Show(u, renewed)

\* The officer follows the steps on the screen and a super admin decides what
\* is pending.
Look == Load /\ seen' # seen
Ask == Request /\ grants' # grants
Decide == \E i \in 1..MaxGrants : Approve(i)

Spec == /\ Init /\ [][Next]_gvars
        /\ WF_gvars(Look) /\ WF_gvars(SelfAssign) /\ WF_gvars(Ask) /\ WF_gvars(Decide) /\ WF_gvars(Redeem)

----------------------------------------------------------------------------
TypeOK ==
    /\ form \in {"gate", "modal"} /\ label \in Labels /\ now \in 1..MaxTime
    /\ assigned \in BOOLEAN /\ grants \in Seq(Grants) /\ Len(grants) <= MaxGrants
    /\ seen \in [assigned : BOOLEAN, token : 0..MaxGrants,
                 status : {"none", "PENDING", "APPROVED", "REDEEMED"}, live : BOOLEAN]
    /\ raw \in 0..MaxGrants /\ step \in Nat
    /\ chosen \in {0} \cup Uploads /\ fetching \subseteq Uploads /\ records \in {0} \cup Uploads
    /\ opened \in {"none"} \cup Documents /\ revokes \in 0..MaxRevokes /\ crossed \in BOOLEAN

\* A locked modal shows no record, though an answer may arrive after the lock:
\* rows without a selection are not on the screen.
LockedShowsNothing == step = 0 => chosen = 0

\* The rows under an upload's heading are that upload's, unless the answers of
\* two selections crossed.
RecordsMatchHeading == chosen # 0 /\ records # 0 /\ ~crossed => records = chosen

\* What opens once the gate is passed is the document that was refused -- but
\* for the Excel evidence bundle, after which the tax report opens.
OpensWhatWasAsked ==
    opened # "none" /\ label # "evidence_bundle_excel" =>
        (opened = "evidence") = (label = "evidence_bundle")

\* Taken from the list and no longer of use: approved and past its window, or
\* redeemed and its session over.  The screen then offers no new request.
DeadToken == seen.token # 0 /\ ~Usable(grants[seen.token])

\* The way in leads in: an officer who follows the screen gets a session, or
\* ends before a token that has died, is turned away by an administrator who took
\* something back, or runs out of the requests and the time of the model.
WayIn == InSession \/ DeadToken \/ revokes > 0 \/ now = MaxTime \/ Len(grants) = MaxGrants
GateOpens == []<>WayIn

----------------------------------------------------------------------------
(* What every step keeps.                                                   *)
GateHolds ==
    /\ TypeOK /\ LockedShowsNothing /\ RecordsMatchHeading
    /\ raw <= Len(grants) /\ opened \in {"none", Document}
=============================================================================
