------------------------ MODULE AccessElevationProofs ------------------------
(* Elevations, for any staff, any number of requests in flight and any window: *)
(* until two requests have collided, decisions stand and nobody is shown a     *)
(* value on the own word.  A decider holds a row it read while others write,   *)
(* so the invariant relates each job to the row it is about to write.          *)
EXTENDS AccessElevation, TLAPS

Row(s) == elevations[job[s].id]

\* A request is an officer's; a decider holds a row there is, and may decide it.
Entitled(s) ==
    /\ job[s].pc = "create" => job[s].staff \in Staff
    /\ job[s].pc \in Deciding => job[s].id \in DOMAIN elevations
    /\ job[s].pc = "approve" => /\ job[s].staff \in Approvers
                                /\ job[s].staff = Row(s).staff => job[s].staff \in Supers

\* The row is still what the decider read.
Current(s) ==
    /\ job[s].pc \in {"approve", "deny"} => Row(s).status = "PENDING"
    /\ job[s].pc = "revoke" => Row(s).status = "ACTIVE"

Apart == \A s, t \in Slots : s # t => ~Collide(job[s], job[t])

\* What is or was active was approved by one who may.
Approved(i) == elevations[i].status \in {"ACTIVE", "EXPIRED"} =>
    /\ elevations[i].by \in Approvers
    /\ elevations[i].by = elevations[i].staff => elevations[i].staff \in Supers

LetThrough(o) == \E i \in DOMAIN elevations :
    /\ elevations[i].staff = o
    /\ elevations[i].status \in {"ACTIVE", "EXPIRED"}
    /\ elevations[i].by \in Approvers \ {o}

Orderly ==
    /\ Apart
    /\ \A s \in Slots : Current(s)
    /\ \A i \in DOMAIN elevations : Approved(i)
    /\ \A s \in Slots : job[s].pc = "reveal" => LetThrough(job[s].staff)

IInv == TypeOK /\ (\A s \in Slots : Entitled(s)) /\ (overlapped \/ Orderly)

-----------------------------------------------------------------------------
(* The rows under the writes.                                                  *)

LEMMA RowTypes ==
    ASSUME TypeOK, NEW i \in DOMAIN elevations
    PROVE  i \in Nat /\ elevations[i].staff \in Staff /\ elevations[i].until \in Nat
<1>1. i \in Nat /\ elevations[i] \in Elevation
  BY DEF TypeOK
<1>. QED  BY <1>1 DEF Elevation

\* A decision writes one row, of which it keeps the owner.
LEMMA DecisionWritesOneRow ==
    ASSUME TypeOK, NEW i \in DOMAIN elevations, NEW status \in {"ACTIVE", "DENIED", "EXPIRED"},
           NEW by \in Staff \cup {NoOne}, NEW until \in Nat, Decide(i, status, by, until)
    PROVE  /\ elevations' \in Seq(Elevation)
           /\ DOMAIN elevations' = DOMAIN elevations
           /\ \A j \in DOMAIN elevations : j # i => elevations'[j] = elevations[j]
           /\ elevations'[i].staff = elevations[i].staff /\ elevations'[i].status = status
           /\ elevations'[i].by = by
<1>1. elevations \in Seq(Elevation) /\ elevations[i] \in Elevation
  BY DEF TypeOK
<1>2. elevations' = [elevations EXCEPT ![i] =
          [elevations[i] EXCEPT !.status = status, !.by = by, !.until = until]]
  BY DEF Decide
<1>3. [elevations[i] EXCEPT !.status = status, !.by = by, !.until = until] \in Elevation
  BY <1>1 DEF Elevation
<1>4. elevations' \in Seq(Elevation) /\ DOMAIN elevations' = DOMAIN elevations
  BY <1>1, <1>2, <1>3
<1>. QED  BY <1>1, <1>2, <1>3, <1>4 DEF Elevation

\* Revoking writes the status of one row.
LEMMA RevokingWritesOneStatus ==
    ASSUME TypeOK, NEW i \in DOMAIN elevations,
           elevations' = [elevations EXCEPT ![i].status = "EXPIRED"]
    PROVE  /\ elevations' \in Seq(Elevation)
           /\ DOMAIN elevations' = DOMAIN elevations
           /\ \A j \in DOMAIN elevations : j # i => elevations'[j] = elevations[j]
           /\ elevations'[i] = [elevations[i] EXCEPT !.status = "EXPIRED"]
           /\ elevations'[i].staff = elevations[i].staff /\ elevations'[i].status = "EXPIRED"
           /\ elevations'[i].by = elevations[i].by
<1>1. elevations \in Seq(Elevation) /\ elevations[i] \in Elevation
  BY DEF TypeOK
<1>2. [elevations[i] EXCEPT !.status = "EXPIRED"] \in Elevation
  BY <1>1 DEF Elevation
<1>. QED  BY <1>1, <1>2 DEF Elevation

\* A new row leaves the rows there were.
LEMMA CreatingKeepsRows ==
    ASSUME TypeOK, NEW s \in Slots, CreateRequest(s), job[s].staff \in Staff
    PROVE  /\ elevations' \in Seq(Elevation)
           /\ DOMAIN elevations' = DOMAIN elevations \cup {Len(elevations) + 1}
           /\ \A j \in DOMAIN elevations : j \in DOMAIN elevations' /\ elevations'[j] = elevations[j]
           /\ elevations'[Len(elevations) + 1].status = "PENDING"
<1> DEFINE new == [staff |-> job[s].staff, status |-> "PENDING", by |-> NoOne, until |-> NoTime]
<1>1. new \in Elevation /\ new.status = "PENDING"
  BY DEF Elevation, NoTime
<1>2. elevations' = Append(elevations, new) /\ elevations \in Seq(Elevation)
  BY DEF CreateRequest, TypeOK
<1>. QED
  <2>. HIDE DEF new
  <2>. QED  BY <1>1, <1>2

-----------------------------------------------------------------------------
(* The steps.                                                                  *)

\* What a step owes: types, entitled deciders, and order if nothing collides.
Holds == TypeOK' /\ (\A t \in Slots : Entitled(t)') /\ (~overlapped /\ Apart' => Orderly')

LEMMA MovesOneJob ==
    ASSUME TypeOK, NEW s \in Slots, NEW pc \in Steps, NEW o \in Staff \cup {NoOne},
           NEW id \in Nat, NEW until \in Nat, Goto(s, pc, o, id, until)
    PROVE  /\ job' \in [Slots -> Jobs]
           /\ job'[s].pc = pc /\ job'[s].staff = o /\ job'[s].id = id
           /\ \A t \in Slots : t # s => job'[t] = job[t]
  BY DEF TypeOK, Jobs, Goto

LEMMA EndsOneJob ==
    ASSUME TypeOK, NEW s \in Slots, Done(s)
    PROVE  /\ job' \in [Slots -> Jobs]
           /\ job'[s].pc = "idle"
           /\ \A t \in Slots : t # s => job'[t] = job[t]
  BY DEF TypeOK, Jobs, Done, IdleJob, NoTime

\* A step that only reads rows: the job it starts must itself be entitled,
\* current and, for a reveal, let through.
LEMMA ReadingHolds ==
    ASSUME IInv, NEW s \in Slots, NEW pc \in Steps, NEW o \in Staff, NEW id \in Nat,
           NEW until \in Nat, Goto(s, pc, o, id, until), UNCHANGED <<now, elevations>>,
           overlapped' \in BOOLEAN,
           pc \in Deciding => id \in DOMAIN elevations,
           pc = "approve" => /\ o \in Approvers
                             /\ o = elevations[id].staff => o \in Supers,
           pc \in {"approve", "deny"} => elevations[id].status = "PENDING",
           pc = "revoke" => elevations[id].status = "ACTIVE",
           pc = "reveal" /\ ~overlapped => LetThrough(o)
    PROVE  Holds
<1>1. /\ job' \in [Slots -> Jobs]
      /\ job'[s].pc = pc /\ job'[s].staff = o /\ job'[s].id = id
      /\ \A t \in Slots : t # s => job'[t] = job[t]
  BY MovesOneJob DEF IInv
<1>2. TypeOK'
  BY <1>1 DEF IInv, TypeOK
<1>3. ASSUME NEW t \in Slots PROVE Entitled(t)'
  <2>1. CASE t = s
    BY <1>1, <2>1 DEF Entitled, Row
  <2>2. CASE t # s
    BY <1>1, <2>2 DEF IInv, Entitled, Row
  <2>. QED  BY <2>1, <2>2
<1>4. ASSUME ~overlapped, Apart' PROVE Orderly'
  <2>1. Orderly
    BY <1>4 DEF IInv
  <2>2. ASSUME NEW t \in Slots PROVE Current(t)'
    <3>1. CASE t = s
      BY <1>1, <3>1 DEF Current, Row
    <3>2. CASE t # s
      BY <1>1, <2>1, <3>2 DEF Orderly, Current, Row
    <3>. QED  BY <3>1, <3>2
  <2>3. ASSUME NEW i \in DOMAIN elevations' PROVE Approved(i)'
    BY <2>1 DEF Orderly, Approved
  <2>4. ASSUME NEW t \in Slots, job'[t].pc = "reveal" PROVE LetThrough(job[t].staff)'
    <3>1. CASE t = s
      BY <1>1, <1>4, <2>4, <3>1 DEF LetThrough
    <3>2. CASE t # s
      BY <1>1, <2>1, <2>4, <3>2 DEF Orderly, LetThrough
    <3>. QED  BY <3>1, <3>2
  <2>. QED  BY <1>4, <2>2, <2>3, <2>4 DEF Orderly
<1>. QED  BY <1>2, <1>3, <1>4 DEF Holds

\* A step that writes the row its job holds, or adds one: the rows of the other
\* deciders keep what they read, and approvals stay approvals.
LEMMA WritingHolds ==
    ASSUME IInv, NEW s \in Slots, Done(s), now' = now, overlapped' \in BOOLEAN,
           elevations' \in Seq(Elevation),
           DOMAIN elevations \subseteq DOMAIN elevations',
           \A j \in DOMAIN elevations : elevations'[j].staff = elevations[j].staff,
           \A j \in DOMAIN elevations :
               ~(job[s].pc \in Deciding /\ j = job[s].id) => elevations'[j] = elevations[j],
           ~overlapped => \A j \in DOMAIN elevations' : Approved(j)',
           ~overlapped => \A j \in DOMAIN elevations :
               elevations[j].status \in {"ACTIVE", "EXPIRED"} =>
                   /\ elevations'[j].status \in {"ACTIVE", "EXPIRED"}
                   /\ elevations'[j].by = elevations[j].by
    PROVE  Holds
<1>1. /\ job' \in [Slots -> Jobs]
      /\ job'[s].pc = "idle"
      /\ \A t \in Slots : t # s => job'[t] = job[t]
  BY EndsOneJob DEF IInv
<1>2. TypeOK'
  BY <1>1 DEF IInv, TypeOK
<1>3. ASSUME NEW t \in Slots PROVE Entitled(t)'
  <2>1. CASE t = s
    BY <1>1, <2>1 DEF Entitled, Deciding
  <2>2. CASE t # s
    BY <1>1, <2>2 DEF IInv, Entitled, Row, Deciding
  <2>. QED  BY <2>1, <2>2
<1>4. ASSUME ~overlapped, Apart' PROVE Orderly'
  <2>1. Orderly
    BY <1>4 DEF IInv
  <2>2. ASSUME NEW t \in Slots PROVE Current(t)'
    <3>1. CASE t = s
      BY <1>1, <3>1 DEF Current
    <3>2. CASE t # s /\ job[t].pc \in Deciding
      <4>1. job[t].id \in DOMAIN elevations /\ ~Collide(job[s], job[t])
        BY <2>1, <3>2 DEF IInv, Entitled, Orderly, Apart
      <4>2. elevations'[job[t].id] = elevations[job[t].id]
        BY <3>2, <4>1 DEF Collide
      <4>. QED  BY <1>1, <2>1, <3>2, <4>2 DEF Orderly, Current, Row
    <3>3. CASE t # s /\ job[t].pc \notin Deciding
      BY <1>1, <3>3 DEF Current, Deciding
    <3>. QED  BY <3>1, <3>2, <3>3
  <2>3. ASSUME NEW t \in Slots, job'[t].pc = "reveal" PROVE LetThrough(job[t].staff)'
    <3>1. t # s /\ job'[t] = job[t]
      BY <1>1, <2>3
    <3>2. LetThrough(job[t].staff)
      BY <2>1, <2>3, <3>1 DEF Orderly
    <3>. QED  BY <1>4, <3>1, <3>2 DEF LetThrough
  <2>. QED  BY <1>4, <2>2, <2>3 DEF Orderly
<1>. QED  BY <1>2, <1>3, <1>4 DEF Holds

LEMMA StepHolds ==
    ASSUME ElevationAssumption, IInv, Step, overlapped' \in BOOLEAN
    PROVE  Holds
<1>0. /\ Supers \subseteq Approvers /\ Approvers \subseteq Staff
      /\ Window \in Nat /\ now \in Nat /\ now + Window \in Nat /\ NoTime \in Nat /\ 0 \in Nat
  BY DEF ElevationAssumption, IInv, TypeOK, NoTime
<1>1. CASE Tick
  <2>1. TypeOK'
    BY <1>1 DEF Tick, IInv, TypeOK, ElevationAssumption
  <2>2. \A t \in Slots : Entitled(t)'
    BY <1>1 DEF Tick, IInv, Entitled, Row
  <2>3. ~overlapped => Orderly'
    BY <1>1 DEF Tick, IInv, Orderly, Apart, Current, Row, Approved, LetThrough
  <2>. QED  BY <2>1, <2>2, <2>3 DEF Holds
<1>2. ASSUME NEW s \in Slots, FindOpen(s) PROVE Holds
  <2>1. PICK o \in Staff : Goto(s, "create", o, 0, NoTime)
    BY <1>2 DEF FindOpen
  <2>. QED  BY <1>0, <1>2, <2>1, ReadingHolds DEF FindOpen, Steps, Deciding
<1>3. ASSUME NEW s \in Slots, ReadToApprove(s) PROVE Holds
  <2>1. PICK a \in Staff, i \in DOMAIN elevations :
            MayApprove(a, i) /\ Goto(s, "approve", a, i, now + Window)
    BY <1>3 DEF ReadToApprove
  <2>2. i \in Nat
    BY DEF IInv, TypeOK
  <2>. QED  BY <1>0, <1>3, <2>1, <2>2, ReadingHolds
            DEF ReadToApprove, MayApprove, MayDecide, Steps
<1>4. ASSUME NEW s \in Slots, ReadToDeny(s) PROVE Holds
  <2>1. PICK a \in Staff, i \in DOMAIN elevations :
            MayDecide(a, i) /\ Goto(s, "deny", a, i, NoTime)
    BY <1>4 DEF ReadToDeny
  <2>2. i \in Nat
    BY DEF IInv, TypeOK
  <2>. QED  BY <1>0, <1>4, <2>1, <2>2, ReadingHolds DEF ReadToDeny, MayDecide, Steps
<1>5. ASSUME NEW s \in Slots, ReadToRevoke(s) PROVE Holds
  <2>1. PICK i \in DOMAIN elevations :
            /\ elevations[i].status = "ACTIVE"
            /\ Goto(s, "revoke", elevations[i].staff, i, NoTime)
    BY <1>5 DEF ReadToRevoke
  <2>2. i \in Nat /\ elevations[i].staff \in Staff
    BY RowTypes DEF IInv
  <2>. QED  BY <1>0, <1>5, <2>1, <2>2, ReadingHolds DEF ReadToRevoke, Steps
<1>6. ASSUME NEW s \in Slots, CheckReveal(s) PROVE Holds
  <2>1. PICK o \in Staff \ Supers : Elevated(o) /\ Goto(s, "reveal", o, 0, NoTime)
    BY <1>6 DEF CheckReveal
  <2>2. ~overlapped => LetThrough(o)
    BY <2>1 DEF IInv, Orderly, Approved, Elevated, LetThrough
  <2>. QED  BY <1>0, <1>6, <2>1, <2>2, ReadingHolds DEF CheckReveal, Steps, Deciding
<1>7. ASSUME NEW s \in Slots, CreateRequest(s) PROVE Holds
  <2>1. job[s].staff \in Staff
    BY <1>7 DEF CreateRequest, IInv, Entitled
  <2>2. /\ elevations' \in Seq(Elevation)
        /\ DOMAIN elevations' = DOMAIN elevations \cup {Len(elevations) + 1}
        /\ \A j \in DOMAIN elevations : j \in DOMAIN elevations' /\ elevations'[j] = elevations[j]
        /\ elevations'[Len(elevations) + 1].status = "PENDING"
    BY <1>7, <2>1, CreatingKeepsRows DEF IInv
  <2>3. ~overlapped => \A j \in DOMAIN elevations' : Approved(j)'
    BY <2>2 DEF IInv, Orderly, Approved
  <2>. QED  BY <1>7, <2>2, <2>3, WritingHolds DEF CreateRequest
<1>8. ASSUME NEW s \in Slots, Approve(s) PROVE Holds
  <2>1. /\ job[s].pc = "approve" /\ job[s].id \in DOMAIN elevations
        /\ job[s].staff \in Approvers
        /\ job[s].staff = elevations[job[s].id].staff => job[s].staff \in Supers
        /\ job[s].until \in Nat
    BY <1>8 DEF Approve, IInv, Entitled, Deciding, Row, TypeOK, Jobs
  <2>2. /\ elevations' \in Seq(Elevation) /\ DOMAIN elevations' = DOMAIN elevations
        /\ \A j \in DOMAIN elevations : j # job[s].id => elevations'[j] = elevations[j]
        /\ elevations'[job[s].id].staff = elevations[job[s].id].staff
        /\ elevations'[job[s].id].status = "ACTIVE" /\ elevations'[job[s].id].by = job[s].staff
    BY <1>0, <1>8, <2>1, DecisionWritesOneRow DEF Approve, IInv
  <2>3. ~overlapped => \A j \in DOMAIN elevations' : Approved(j)'
    BY <2>1, <2>2 DEF IInv, Orderly, Approved
  <2>4. ~overlapped => elevations[job[s].id].status = "PENDING"
    BY <2>1 DEF IInv, Orderly, Current, Row
  <2>. QED  BY <1>8, <2>1, <2>2, <2>3, <2>4, WritingHolds DEF Approve, Deciding
<1>9. ASSUME NEW s \in Slots, Deny(s) PROVE Holds
  <2>1. /\ job[s].pc = "deny" /\ job[s].id \in DOMAIN elevations
        /\ job[s].staff \in Staff \cup {NoOne} /\ elevations[job[s].id].until \in Nat
    <3>1. job[s].pc = "deny" /\ job[s].id \in DOMAIN elevations
      BY <1>9 DEF Deny, IInv, Entitled, Deciding
    <3>2. job[s].staff \in Staff \cup {NoOne}
      BY DEF IInv, TypeOK, Jobs
    <3>. QED  BY <3>1, <3>2, RowTypes DEF IInv
  <2>2. /\ elevations' \in Seq(Elevation) /\ DOMAIN elevations' = DOMAIN elevations
        /\ \A j \in DOMAIN elevations : j # job[s].id => elevations'[j] = elevations[j]
        /\ elevations'[job[s].id].staff = elevations[job[s].id].staff
        /\ elevations'[job[s].id].status = "DENIED"
    BY <1>9, <2>1, DecisionWritesOneRow DEF Deny, IInv
  <2>3. ~overlapped => \A j \in DOMAIN elevations' : Approved(j)'
    BY <2>1, <2>2 DEF IInv, Orderly, Approved
  <2>4. ~overlapped => elevations[job[s].id].status = "PENDING"
    BY <2>1 DEF IInv, Orderly, Current, Row
  <2>. QED  BY <1>9, <2>1, <2>2, <2>3, <2>4, WritingHolds DEF Deny, Deciding
<1>10. ASSUME NEW s \in Slots, Revoke(s) PROVE Holds
  <2>1. job[s].pc = "revoke" /\ job[s].id \in DOMAIN elevations
    BY <1>10 DEF Revoke, IInv, Entitled, Deciding
  <2>2. /\ elevations' \in Seq(Elevation) /\ DOMAIN elevations' = DOMAIN elevations
        /\ \A j \in DOMAIN elevations : j # job[s].id => elevations'[j] = elevations[j]
        /\ elevations'[job[s].id].staff = elevations[job[s].id].staff
        /\ elevations'[job[s].id].status = "EXPIRED"
        /\ elevations'[job[s].id].by = elevations[job[s].id].by
    BY <1>10, <2>1, RevokingWritesOneStatus DEF Revoke, IInv
  <2>3. ~overlapped => elevations[job[s].id].status = "ACTIVE"
    BY <2>1 DEF IInv, Orderly, Current, Row
  <2>4. ~overlapped => \A j \in DOMAIN elevations' : Approved(j)'
    BY <2>1, <2>2, <2>3 DEF IInv, Orderly, Approved
  <2>. QED  BY <1>10, <2>1, <2>2, <2>3, <2>4, WritingHolds DEF Revoke, Deciding
<1>11. ASSUME NEW s \in Slots, Reveal(s) PROVE Holds
  <2>1. ~overlapped => \A j \in DOMAIN elevations' : Approved(j)'
    BY <1>11 DEF Reveal, IInv, Orderly, Approved
  <2>2. elevations' \in Seq(Elevation)
    BY <1>11 DEF Reveal, IInv, TypeOK
  <2>. QED  BY <1>11, <2>1, <2>2, WritingHolds DEF Reveal
<1>. QED  BY <1>1, <1>2, <1>3, <1>4, <1>5, <1>6, <1>7, <1>8, <1>9, <1>10, <1>11 DEF Step

LEMMA OverlapIsRemembered ==
    ASSUME Next
    PROVE  /\ overlapped' \in BOOLEAN
           /\ ~overlapped' => ~overlapped /\ Apart'
  BY DEF Next, Apart

LEMMA InitHolds == ASSUME ElevationAssumption PROVE Init => IInv
<1>. SUFFICES ASSUME Init PROVE IInv
  OBVIOUS
<1>1. TypeOK
  <2>1. now \in 1 .. MaxTime /\ overlapped \in BOOLEAN
    <3>1. MaxTime \in Nat \ {0}
      BY DEF ElevationAssumption
    <3>2. now \in 1 .. MaxTime
      BY <3>1 DEF Init
    <3>3. overlapped \in BOOLEAN
      BY DEF Init
    <3>. QED  BY <3>2, <3>3
  <2>2. elevations \in Seq(Elevation)
    BY DEF Init
  <2>3. job \in [Slots -> Jobs]
    BY DEF Init, IdleJob, Jobs, NoTime
  <2>. QED  BY <2>1, <2>2, <2>3 DEF TypeOK
<1>2. \A s \in Slots : job[s].pc = "idle"
  BY DEF Init, IdleJob
<1>3. DOMAIN elevations = {}
  BY DEF Init
<1>. QED  BY <1>1, <1>2, <1>3
          DEF IInv, Entitled, Orderly, Apart, Collide, Current, Approved, Deciding

LEMMA NextHolds == ASSUME ElevationAssumption PROVE IInv /\ [Next]_vars => IInv'
<1>1. ASSUME IInv, Next PROVE IInv'
  <2>1. Holds
    BY <1>1, StepHolds, OverlapIsRemembered DEF Next
  <2>. QED  BY <1>1, <2>1, OverlapIsRemembered DEF Holds, IInv
<1>2. ASSUME IInv, UNCHANGED vars PROVE IInv'
  BY <1>2 DEF vars, IInv, TypeOK, Entitled, Row, Orderly, Apart, Current, Approved, LetThrough
<1>. QED  BY <1>1, <1>2

\* Who is being shown a value was let through by another.
LEMMA InvShows == IInv => ShownByAnother
  BY DEF IInv, Orderly, LetThrough, ShownByAnother

\* Until requests collide the row a decider writes is still what it read.
LEMMA DecisionKept == ASSUME IInv, Next, ~overlapped' PROVE DecisionStands
<1>1. Orderly
  BY OverlapIsRemembered DEF IInv
<1>2. CASE UNCHANGED elevations
  BY <1>2 DEF DecisionStands
<1>3. ASSUME NEW s \in Slots, CreateRequest(s) PROVE DecisionStands
  <2>1. job[s].staff \in Staff
    BY <1>1, <1>3 DEF CreateRequest, IInv, Entitled
  <2>. QED  BY <1>1, <1>3, <2>1, CreatingKeepsRows DEF IInv, DecisionStands
<1>4. ASSUME NEW s \in Slots, Approve(s) \/ Deny(s) PROVE DecisionStands
  <2>1. job[s].pc \in {"approve", "deny"} /\ job[s].id \in DOMAIN elevations
    BY <1>1, <1>4 DEF Approve, Deny, IInv, Entitled, Deciding
  <2>2. elevations[job[s].id].status = "PENDING"
    BY <1>1, <2>1 DEF Orderly, Current, Row
  <2>3. \A j \in DOMAIN elevations : j # job[s].id => elevations'[j] = elevations[j]
    BY <1>1, <1>4 DEF Approve, Deny, Decide, IInv, TypeOK
  <2>. QED  BY <2>2, <2>3 DEF DecisionStands
<1>5. ASSUME NEW s \in Slots, Revoke(s) PROVE DecisionStands
  <2>1. job[s].pc = "revoke" /\ job[s].id \in DOMAIN elevations
    BY <1>1, <1>5 DEF Revoke, IInv, Entitled, Deciding
  <2>2. elevations[job[s].id].status = "ACTIVE"
    BY <1>1, <2>1 DEF Orderly, Current, Row
  <2>3. /\ \A j \in DOMAIN elevations : j # job[s].id => elevations'[j] = elevations[j]
        /\ elevations'[job[s].id] = [elevations[job[s].id] EXCEPT !.status = "EXPIRED"]
    BY <1>1, <1>5, <2>1, RevokingWritesOneStatus DEF Revoke, IInv
  <2>. QED  BY <2>2, <2>3 DEF DecisionStands
<1>. QED  BY <1>1, <1>2, <1>3, <1>4, <1>5
          DEF Next, Step, Tick, FindOpen, ReadToApprove, ReadToDeny, ReadToRevoke,
              CheckReveal, Reveal

-----------------------------------------------------------------------------
(* The theorems.                                                               *)

\* Every reachable state has the types the code's rows have.
THEOREM ElevationTypeCorrect ==
    ASSUME ElevationAssumption
    PROVE  Spec => []TypeOK
<1>1. IInv => TypeOK
  BY DEF IInv
<1>. QED  BY InitHolds, NextHolds, <1>1, PTL DEF Spec

\* Nobody is shown a value on the own word, or before an approver let them, as
\* long as no two requests have collided (reveal, with approve of
\* access.service.ts).
THEOREM RevealsAreApproved ==
    ASSUME ElevationAssumption
    PROVE  Spec => []ShownByAnother
<1>. QED  BY InitHolds, NextHolds, InvShows, PTL DEF Spec

\* As long as no two requests have collided, a decision stands (approve, deny and
\* revoke, which update by id what they read before).
THEOREM DecisionsAreFinal ==
    ASSUME ElevationAssumption
    PROVE  Spec => DecisionsStand
<1>1. IInv /\ Next => overlapped' \/ DecisionStands
  BY DecisionKept
<1>2. IInv /\ [Next]_vars => [overlapped' \/ DecisionStands]_vars
  BY <1>1
<1>. QED  BY InitHolds, NextHolds, <1>2, PTL DEF Spec, DecisionsStand
=============================================================================
