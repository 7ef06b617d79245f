----------------------------- MODULE AccessGrant -----------------------------
(* Access to the raw records of one provider (or one case): the need-to-know   *)
(* assignments of access-assignment.service.ts, the grant tokens of            *)
(* access-grant-token.service.ts, and the two checks the record endpoints make *)
(* of them.  Rows are numbered in the order they are created and never         *)
(* deleted; every await of the code is a step of its own.                      *)
EXTENDS Integers, Sequences

CONSTANTS
    Staff,           \* the SUPER_ADMIN and ADMIN staff
    Supers,          \* those among them who are SUPER_ADMIN
    Slots,           \* requests served at the same time
    Window,          \* REDEEM_WINDOW_MIN
    Session,         \* SESSION_HOURS
    MaxTime,         \* bound on the clock
    MaxGrants,       \* bounds on the rows and the tokens minted
    MaxAssignments,
    MaxTokens

\* What the constants must be; the instances checked assume it.
AccessAssumption ==
    /\ Supers \subseteq Staff
    /\ {Window, Session, MaxTime, MaxGrants, MaxAssignments, MaxTokens} \subseteq Nat
    /\ Session > 0 /\ MaxTime > 0

VARIABLES
    now,
    grants,       \* AccessGrantToken
    assignments,  \* AccessAssignment
    minted,       \* tokens minted so far, numbered
    job           \* per slot: where its request is and what it has read

vars == <<now, grants, assignments, minted, job>>

NoOne   == "no one"
NoTime  == 0
NoToken == 0

Statuses == {"PENDING", "APPROVED", "REDEEMED", "REVOKED"}
Grants == [staff : Staff, status : Statuses, token : Nat, by : Staff \cup {NoOne},
           approvedAt : Nat, redeemBy : Nat, until : Nat, revoked : BOOLEAN]
Assignments == [staff : Staff, revoked : BOOLEAN]

Steps == {"reuse", "create", "approve", "redeem", "revoke", "session",
          "assigned", "assign", "unassign"}
Jobs  == [pc : Steps \cup {"idle", "shown", "reused"}, staff : Staff \cup {NoOne},
          id : Nat, at : Nat]

TypeOK ==
    /\ now \in 1 .. MaxTime /\ minted \in 0 .. MaxTokens
    /\ grants \in Seq(Grants) /\ assignments \in Seq(Assignments)
    /\ job \in [Slots -> Jobs]

IdleJob == [pc |-> "idle", staff |-> NoOne, id |-> 0, at |-> 0]

Init ==
    /\ now = 1 /\ minted = 0
    /\ grants = <<>> /\ assignments = <<>>
    /\ job = [s \in Slots |-> IdleJob]

Free(s) == job[s].pc \notin Steps
Goto(s, j) == job' = [job EXCEPT ![s] = j]
At(pc, o, id) == [pc |-> pc, staff |-> o, id |-> id, at |-> now]

HasAccess(o) == \E i \in DOMAIN assignments :
    assignments[i].staff = o /\ ~ assignments[i].revoked

-----------------------------------------------------------------------------
(* Assignments: grant (also as self-assignment) and revoke.                    *)

Assign(s) == \E o \in Staff :
    /\ Free(s)
    /\ Len(assignments) < MaxAssignments
    /\ Goto(s, At("assigned", o, 0))
    /\ UNCHANGED <<now, grants, assignments, minted>>

\* Mutant: an active assignment is not looked for.
FindAssignmentNever(s) ==
    /\ job[s].pc = "assigned"
    /\ Goto(s, [job[s] EXCEPT !.pc = "assign"])
    /\ UNCHANGED <<now, grants, assignments, minted>>

\* The de-duplicating read.
FindAssignment(s) ==
    /\ job[s].pc = "assigned"
    /\ Goto(s, IF HasAccess(job[s].staff) THEN IdleJob ELSE [job[s] EXCEPT !.pc = "assign"])
    /\ UNCHANGED <<now, grants, assignments, minted>>

CreateAssignment(s) ==
    /\ job[s].pc = "assign"
    /\ Len(assignments) < MaxAssignments
    /\ assignments' = Append(assignments, [staff |-> job[s].staff, revoked |-> FALSE])
    /\ Goto(s, IdleJob)
    /\ UNCHANGED <<now, grants, minted>>

ReadAssignment(s) == \E i \in DOMAIN assignments :
    /\ Free(s)
    /\ ~ assignments[i].revoked
    /\ Goto(s, At("unassign", assignments[i].staff, i))
    /\ UNCHANGED <<now, grants, assignments, minted>>

RevokeAssignment(s) ==
    /\ job[s].pc = "unassign"
    /\ assignments' = [assignments EXCEPT ![job[s].id].revoked = TRUE]
    /\ Goto(s, IdleJob)
    /\ UNCHANGED <<now, grants, minted>>

-----------------------------------------------------------------------------
(* Grant tokens.                                                               *)

\* Mutant: a pending request is not reused.
ReusableDecided(o) == {i \in DOMAIN grants :
    /\ grants[i].staff = o
    /\ grants[i].status \in {"APPROVED", "REDEEMED"}
    /\ grants[i].until = NoTime \/ grants[i].until > now}

\* What request takes for a live request or grant of the officer.
Reusable(o) == {i \in DOMAIN grants :
    /\ grants[i].staff = o
    /\ grants[i].status \in {"PENDING", "APPROVED", "REDEEMED"}
    /\ grants[i].until = NoTime \/ grants[i].until > now}

Request(s) == \E o \in Staff :
    /\ Free(s)
    /\ HasAccess(o)
    /\ Goto(s, At("reuse", o, 0))
    /\ UNCHANGED <<now, grants, assignments, minted>>

Reuse(s) ==
    /\ job[s].pc = "reuse"
    /\ \/ \E i \in Reusable(job[s].staff) : Goto(s, At("reused", job[s].staff, i))
       \/ /\ Reusable(job[s].staff) = {} /\ Len(grants) < MaxGrants
          /\ Goto(s, [job[s] EXCEPT !.pc = "create"])
       \/ /\ Reusable(job[s].staff) = {} /\ Len(grants) = MaxGrants
          /\ Goto(s, IdleJob)
    /\ UNCHANGED <<now, grants, assignments, minted>>

CreateRequest(s) ==
    /\ job[s].pc = "create"
    /\ grants' = IF Len(grants) = MaxGrants THEN grants ELSE Append(grants,
         [staff |-> job[s].staff, status |-> "PENDING", token |-> NoToken, by |-> NoOne,
          approvedAt |-> NoTime, redeemBy |-> NoTime, until |-> NoTime, revoked |-> FALSE])
    /\ Goto(s, IdleJob)
    /\ UNCHANGED <<now, assignments, minted>>

\* approve: a super admin, the officer included, reads a pending request.
ReadRequest(s) == \E o \in Supers, i \in DOMAIN grants :
    /\ Free(s)
    /\ grants[i].status = "PENDING"
    /\ Goto(s, At("approve", o, i))
    /\ UNCHANGED <<now, grants, assignments, minted>>

\* The update by id, with a token just minted.
Approve(s) ==
    /\ job[s].pc = "approve"
    /\ minted < MaxTokens
    /\ minted' = minted + 1
    /\ grants' = [grants EXCEPT ![job[s].id] =
         [@ EXCEPT !.status = "APPROVED", !.token = minted', !.by = job[s].staff,
                   !.approvedAt = now, !.redeemBy = now + Window]]
    /\ Goto(s, IdleJob)
    /\ UNCHANGED <<now, assignments>>

\* Mutant: redeeming again slides the session on.
FindGrantAgain(s) == \E i \in DOMAIN grants :
    /\ Free(s)
    /\ grants[i].status \in {"APPROVED", "REDEEMED"} /\ ~ grants[i].revoked
    /\ grants[i].token # NoToken
    /\ now <= IF grants[i].status = "APPROVED" THEN grants[i].redeemBy ELSE grants[i].until
    /\ Goto(s, At("redeem", grants[i].staff, i))
    /\ UNCHANGED <<now, grants, assignments, minted>>

\* redeem: the officer's grant is found by its token; one that is approved and
\* within its window is to be redeemed, one redeemed before is only looked at.
FindGrant(s) == \E i \in DOMAIN grants :
    /\ Free(s)
    /\ grants[i].status = "APPROVED" /\ ~ grants[i].revoked
    /\ grants[i].token # NoToken
    /\ now <= grants[i].redeemBy
    /\ Goto(s, At("redeem", grants[i].staff, i))
    /\ UNCHANGED <<now, grants, assignments, minted>>

\* The update by id, whatever became of the grant; the session counts from the
\* time the grant was read.
Redeem(s) ==
    /\ job[s].pc = "redeem"
    /\ grants' = [grants EXCEPT ![job[s].id] =
         [@ EXCEPT !.status = "REDEEMED", !.until = job[s].at + Session]]
    /\ Goto(s, IdleJob)
    /\ UNCHANGED <<now, assignments, minted>>

ReadGrant(s) == \E i \in DOMAIN grants :
    /\ Free(s)
    /\ ~ grants[i].revoked
    /\ Goto(s, At("revoke", NoOne, i))
    /\ UNCHANGED <<now, grants, assignments, minted>>

\* Mutant: a withdrawn grant is filed as expired.
RevokeExpired(s) ==
    /\ job[s].pc = "revoke"
    /\ grants' = [grants EXCEPT ![job[s].id] =
         [@ EXCEPT !.status = "EXPIRED", !.revoked = TRUE, !.token = NoToken]]
    /\ Goto(s, IdleJob)
    /\ UNCHANGED <<now, assignments, minted>>

Revoke(s) ==
    /\ job[s].pc = "revoke"
    /\ grants' = [grants EXCEPT ![job[s].id] =
         [@ EXCEPT !.status = "REVOKED", !.revoked = TRUE, !.token = NoToken]]
    /\ Goto(s, IdleJob)
    /\ UNCHANGED <<now, assignments, minted>>

-----------------------------------------------------------------------------
(* A record endpoint: the assignment is checked, then the session.             *)

View(s) == \E o \in Staff :
    /\ Free(s)
    /\ HasAccess(o)
    /\ Goto(s, At("session", o, 0))
    /\ UNCHANGED <<now, grants, assignments, minted>>

\* Mutant: the status alone tells a live session.
InSessionByStatus(g) == g.status = "REDEEMED" /\ g.until > now

\* assertActiveSession.
InSession(g) == g.status = "REDEEMED" /\ ~ g.revoked /\ g.until > now

Show(s) ==
    /\ job[s].pc = "session"
    /\ Goto(s, IF \E i \in DOMAIN grants :
                     grants[i].staff = job[s].staff /\ InSession(grants[i])
               THEN [job[s] EXCEPT !.pc = "shown"] ELSE IdleJob)
    /\ UNCHANGED <<now, grants, assignments, minted>>

Tick ==
    /\ now < MaxTime
    /\ now' = now + 1
    /\ UNCHANGED <<grants, assignments, minted, job>>

Next ==
    \/ \E s \in Slots :
         \/ Assign(s) \/ FindAssignment(s) \/ CreateAssignment(s)
         \/ ReadAssignment(s) \/ RevokeAssignment(s)
         \/ Request(s) \/ Reuse(s) \/ CreateRequest(s)
         \/ ReadRequest(s) \/ Approve(s)
         \/ FindGrant(s) \/ Redeem(s) \/ ReadGrant(s) \/ Revoke(s)
         \/ View(s) \/ Show(s)
    \/ Tick

Spec == Init /\ [][Next]_vars

-----------------------------------------------------------------------------
(* Properties.                                                                 *)

\* Whoever is shown a record holds a grant that nobody has revoked and that a
\* super admin approved no longer ago than the redeem window and one session,
\* however approvals, redemptions and revocations of that grant overlap.
ShownHasGrant ==
    \A s \in Slots : ~ Free(s) /\ job'[s].pc = "shown" =>
        \E i \in DOMAIN grants :
            /\ grants[i].staff = job[s].staff
            /\ ~ grants[i].revoked
            /\ grants[i].by \in Supers
            /\ now < grants[i].approvedAt + Window + Session
ShownUnderAGrant == [][ShownHasGrant]_vars

\* A token opens one work session: while a session runs, its end is fixed, and
\* using the token again does not move it.
SessionEndIsFixed ==
    \A i \in DOMAIN grants : InSession(grants[i]) =>
        grants'[i].until = grants[i].until

\* A grant that can still be used: it waits for its decision or its redemption,
\* or its session runs.
Usable(g) ==
    /\ ~ g.revoked
    /\ \/ g.status = "PENDING"
       \/ g.status = "APPROVED" /\ now <= g.redeemBy
       \/ InSession(g)

\* Requests never leave an officer two usable grants of one scope.
OneGrantPerOfficer == \A i, k \in DOMAIN grants :
    Usable(grants[i]) /\ Usable(grants[k]) /\ grants[i].staff = grants[k].staff => i = k

\* "a revoke cuts access immediately" (schema.prisma AccessAssignment): once an
\* assignment is revoked the officer has no other that is active.
RevokeCutsAccess ==
    \A i \in DOMAIN assignments :
        ~ assignments[i].revoked /\ assignments'[i].revoked
        => ~ HasAccess(assignments[i].staff)'

\* request answers with "an existing live request/grant"
\* (access-grant-token.service.ts): one the officer can still use.
RequestReusesLiveGrant ==
    [][\A s \in Slots : job[s].pc = "reuse" /\ job'[s].pc = "reused" =>
          Usable(grants[job'[s].id])]_vars

-----------------------------------------------------------------------------
(* What makes it so.  However requests overlap, a row's times are those of its *)
(* approval, which a super admin gave, ...                                     *)
Dated(g) ==
    /\ g.approvedAt <= now
    /\ g.redeemBy <= g.approvedAt + Window
    /\ g.until <= g.approvedAt + Window + Session
    /\ g.status \in {"APPROVED", "REDEEMED"} => g.by \in Supers

\* ... and a request holds a row there is, and redeems one that was approved.
Entitled(j) ==
    /\ j.pc \in Steps \ {"revoke"} => j.staff \in Staff
    /\ j.pc \in {"approve", "redeem", "revoke"} => j.id \in DOMAIN grants
    /\ j.pc = "unassign" => j.id \in DOMAIN assignments
    /\ j.pc = "approve" => j.staff \in Supers
    /\ j.pc = "redeem" => /\ grants[j.id].by \in Supers
                          /\ j.at <= grants[j.id].approvedAt + Window

\* As long as no two requests have overlapped, one is served at a time; the row it
\* decides is still what it read, and what it did not find is still not there.
Alone == \A s, t \in Slots : s # t => Free(s) \/ Free(t)
OneAssignment == \A i, k \in DOMAIN assignments :
    /\ ~ assignments[i].revoked /\ ~ assignments[k].revoked
    /\ assignments[i].staff = assignments[k].staff
    => i = k
NotOpened(g) == g.status \in {"PENDING", "APPROVED"} => g.until = NoTime
Current(j) ==
    /\ j.pc = "assign" => ~ HasAccess(j.staff)
    /\ j.pc = "create" => Reusable(j.staff) = {}
    /\ j.pc = "approve" => grants[j.id].status = "PENDING"
    /\ j.pc = "redeem" =>
          /\ grants[j.id].status = "APPROVED"
          /\ \A k \in DOMAIN grants : k # j.id /\ grants[k].staff = grants[j.id].staff
                                      => ~ Usable(grants[k])

OneByOne ==
    /\ Alone /\ OneAssignment /\ OneGrantPerOfficer
    /\ \A i \in DOMAIN grants : NotOpened(grants[i])
    /\ \A s \in Slots : Current(job[s])

InOrder == /\ TypeOK
           /\ \A i \in DOMAIN grants : Dated(grants[i])
           /\ \A s \in Slots : Entitled(job[s])
=============================================================================
