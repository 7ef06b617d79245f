--------------------------- MODULE AccessElevation ---------------------------
(* Elevations: the 30-minute window in which an officer may see identifiers in *)
(* the clear.  request, approve, deny and revoke of access.service.ts, the     *)
(* check of pii-access.service.ts and the reveal of pii.controller.ts.  Every  *)
(* await is a step of its own; rows are numbered as they are created.          *)
EXTENDS Integers, Sequences

CONSTANTS
    Staff,     \* officers
    Approvers, \* those whose role may decide elevations
    Supers,    \* SUPER_ADMINs, who may approve their own
    Slots,     \* requests served at the same time
    Window,    \* ELEVATION_MINUTES
    MaxTime,   \* bound on the clock
    MaxRows    \* bound on the elevations requested

\* What the constants must be; the instances checked assume it.
ElevationAssumption ==
    /\ Supers \subseteq Approvers /\ Approvers \subseteq Staff
    /\ {Window, MaxTime, MaxRows} \subseteq Nat \ {0}

VARIABLES
    now,
    elevations,  \* AccessElevation
    job,         \* per slot: where its request is and what it has read
    overlapped   \* history: two requests that collide have been in flight together

vars == <<now, elevations, job, overlapped>>

NoOne  == "no one"
NoTime == 0
Elevation == [staff : Staff, status : {"PENDING", "ACTIVE", "DENIED", "EXPIRED"},
              by : Staff \cup {NoOne}, until : Nat]
Steps == {"create", "approve", "deny", "revoke", "reveal"}
Jobs  == [pc : Steps \cup {"idle"}, staff : Staff \cup {NoOne}, id : Nat, until : Nat]

TypeOK ==
    /\ now \in 1 .. MaxTime
    /\ elevations \in Seq(Elevation)
    /\ job \in [Slots -> Jobs]
    /\ overlapped \in BOOLEAN

IdleJob == [pc |-> "idle", staff |-> NoOne, id |-> 0, until |-> NoTime]

Init ==
    /\ now = 1
    /\ elevations = <<>>
    /\ job = [s \in Slots |-> IdleJob]
    /\ overlapped = FALSE

Idle(s) == job[s] = IdleJob
Goto(s, pc, o, id, until) ==
    job' = [job EXCEPT ![s] = [pc |-> pc, staff |-> o, id |-> id, until |-> until]]
Done(s) == job' = [job EXCEPT ![s] = IdleJob]
Decide(i, status, by, until) ==
    elevations' = [elevations EXCEPT ![i].status = status, ![i].by = by, ![i].until = until]

-----------------------------------------------------------------------------
\* request: an open request is returned as it is.
FindOpen(s) == \E o \in Staff :
    /\ Idle(s)
    /\ Len(elevations) < MaxRows
    /\ ~ \E i \in DOMAIN elevations :
            elevations[i].staff = o /\ elevations[i].status = "PENDING"
    /\ Goto(s, "create", o, 0, NoTime)
    /\ UNCHANGED <<now, elevations>>

CreateRequest(s) ==
    /\ job[s].pc = "create"
    /\ Len(elevations) < MaxRows
    /\ elevations' = Append(elevations,
          [staff |-> job[s].staff, status |-> "PENDING", by |-> NoOne, until |-> NoTime])
    /\ Done(s)
    /\ UNCHANGED now

\* Mutant: any elevation may be decided, a decided one too.
MayDecideAny(a, i) == a \in Approvers

\* What approve and deny ask of the row they read.
MayDecide(a, i) == a \in Approvers /\ elevations[i].status = "PENDING"

\* Mutant: the officer may approve the own request.
MayApproveOwn(a, i) == MayDecide(a, i)

MayApprove(a, i) == MayDecide(a, i) /\ (elevations[i].staff = a => a \in Supers)

\* approve: the end of the window is computed when the row is read.
ReadToApprove(s) == \E a \in Staff, i \in DOMAIN elevations :
    /\ Idle(s)
    /\ MayApprove(a, i)
    /\ Goto(s, "approve", a, i, now + Window)
    /\ UNCHANGED <<now, elevations>>

Approve(s) ==
    /\ job[s].pc = "approve"
    /\ Decide(job[s].id, "ACTIVE", job[s].staff, job[s].until)
    /\ Done(s)
    /\ UNCHANGED now

\* deny
ReadToDeny(s) == \E a \in Staff, i \in DOMAIN elevations :
    /\ Idle(s)
    /\ MayDecide(a, i)
    /\ Goto(s, "deny", a, i, NoTime)
    /\ UNCHANGED <<now, elevations>>

Deny(s) ==
    /\ job[s].pc = "deny"
    /\ Decide(job[s].id, "DENIED", job[s].staff, elevations[job[s].id].until)
    /\ Done(s)
    /\ UNCHANGED now

\* revoke: the officer ends an own active elevation; its window is not cut.
ReadToRevoke(s) == \E i \in DOMAIN elevations :
    /\ Idle(s)
    /\ elevations[i].status = "ACTIVE"
    /\ Goto(s, "revoke", elevations[i].staff, i, NoTime)
    /\ UNCHANGED <<now, elevations>>

Revoke(s) ==
    /\ job[s].pc = "revoke"
    /\ elevations' = [elevations EXCEPT ![job[s].id].status = "EXPIRED"]
    /\ Done(s)
    /\ UNCHANGED now

-----------------------------------------------------------------------------
\* hasActiveElevation, and canRevealPii for a role that is neither always nor
\* never allowed.
Elevated(o) == \E i \in DOMAIN elevations :
    /\ elevations[i].staff = o
    /\ elevations[i].status = "ACTIVE"
    /\ elevations[i].until > now

\* reveal: the check, then the value is read, logged and returned.
CheckReveal(s) == \E o \in Staff \ Supers :
    /\ Idle(s)
    /\ Elevated(o)
    /\ Goto(s, "reveal", o, 0, NoTime)
    /\ UNCHANGED <<now, elevations>>

Reveal(s) ==
    /\ job[s].pc = "reveal"
    /\ Done(s)
    /\ UNCHANGED <<now, elevations>>

Tick ==
    /\ now < MaxTime
    /\ now' = now + 1
    /\ UNCHANGED <<elevations, job>>

Step ==
    \/ Tick
    \/ \E s \in Slots :
        \/ FindOpen(s)       \/ CreateRequest(s)
        \/ ReadToApprove(s)  \/ Approve(s)
        \/ ReadToDeny(s)     \/ Deny(s)
        \/ ReadToRevoke(s)   \/ Revoke(s)
        \/ CheckReveal(s)    \/ Reveal(s)

\* Two requests collide when they create for one officer or decide one row.
Deciding == {"approve", "deny", "revoke"}
Collide(j, k) ==
    \/ j.pc = "create" /\ k.pc = "create" /\ j.staff = k.staff
    \/ j.pc \in Deciding /\ k.pc \in Deciding /\ j.id = k.id

Next ==
    /\ Step
    /\ overlapped' = (overlapped \/ \E s, t \in Slots : s # t /\ Collide(job'[s], job'[t]))

Spec == Init /\ [][Next]_vars

-----------------------------------------------------------------------------
\* As long as no two requests for it have collided, a decision stands: a denied or
\* ended elevation stays so, and an active one keeps its approver and its window
\* until its officer ends it.  (approve and deny update by id, 52 and 69: of two
\* deciders of a row, the second rewrites what the first decided.)
DecisionStands == \A i \in DOMAIN elevations :
    /\ elevations[i].status \in {"DENIED", "EXPIRED"} => elevations'[i] = elevations[i]
    /\ elevations[i].status = "ACTIVE" =>
           elevations'[i] \in {elevations[i], [elevations[i] EXCEPT !.status = "EXPIRED"]}
DecisionsStand == [][overlapped' \/ DecisionStands]_vars

\* As long as no two requests have collided, an officer who is shown a value in
\* the clear was let through by an approver: somebody else, also when the
\* elevation has been ended while the value was being read.
ShownByAnother == overlapped \/ \A s \in Slots : job[s].pc = "reveal" =>
    \E i \in DOMAIN elevations :
        /\ elevations[i].staff = job[s].staff
        /\ elevations[i].status \in {"ACTIVE", "EXPIRED"}
        /\ elevations[i].by \in Approvers \ {job[s].staff}
=============================================================================
