----------------------------- MODULE ConsoleProofs -----------------------------
(* What the console shows, for any lists, limits and numbers of requests: the  *)
(* lists, the records, the assistant's page and the gate of MCConsole.         *)
EXTENDS MCConsole, SequenceTheorems, FiniteSetTheorems, WellFoundedInduction, TLAPS

\* A set of naturals that is not empty has a least one.
LEMMA LeastOfNaturals ==
    ASSUME NEW S \in SUBSET Nat, S # {}
    PROVE  \E x \in S : \A y \in S : x <= y
  <1>1. PICK x \in S : \A y \in S : <<y, x>> \notin OpToRel(<, Nat)
    BY NatLessThanWellFounded, WFMin, Zenon
  <1>2. \A y \in S : ~(y < x) BY <1>1 DEF OpToRel
  <1> QED BY <1>2

-----------------------------------------------------------------------------
(* The gate.                                                                   *)

LEMMA GateNumbers ==
    ASSUME Gate!GateHolds
    PROVE  /\ Window \in Nat /\ Session \in Nat /\ StepUp \in Nat \ {0} /\ MaxTime \in Nat
           /\ MaxGrants \in Nat /\ MaxRevokes \in Nat
           /\ s3 \in Nat /\ s8 \in Nat /\ s7 \in 0..Len(s5)
           /\ s5 \in Seq(Gate!Grants) /\ Len(s5) \in Nat /\ DOMAIN s5 = 1..Len(s5)
           /\ Len(s5) <= MaxGrants
           /\ \A i \in 1..Len(s5) : s5[i] \in Gate!Grants
  <1>1. s5 \in Seq(Gate!Grants) /\ s3 \in 1..MaxTime /\ s8 \in Nat /\ s7 \in 0..MaxGrants
        /\ Len(s5) <= MaxGrants /\ s7 <= Len(s5)
    BY DEF Gate!GateHolds, Gate!TypeOK
  <1>2. Len(s5) \in Nat /\ DOMAIN s5 = 1..Len(s5) BY <1>1
  <1>3. \A i \in 1..Len(s5) : s5[i] \in Gate!Grants BY <1>1
  <1>4. /\ Window \in Nat /\ Session \in Nat /\ StepUp \in Nat \ {0} /\ MaxTime \in Nat
        /\ MaxGrants \in Nat /\ MaxRevokes \in Nat
    BY GateConstants DEF Gate!GateAssumption
  <1> QED BY <1>1, <1>2, <1>3, <1>4

\* The newest of some rows is one of them.
LEMMA NewestIsOne ==
    ASSUME NEW n \in Nat, NEW S \in SUBSET (1..n), S # {}
    PROVE  Gate!Newest(S) \in S
  <1> DEFINE D == {n - i : i \in S}
  <1>1. D \in SUBSET Nat
    <2>1. ASSUME NEW i \in S PROVE n - i \in Nat OBVIOUS
    <2> QED BY <2>1
  <1>2. D # {} OBVIOUS
  <1>3. PICK x \in D : \A y \in D : x <= y
    <2> HIDE DEF D
    <2> QED BY <1>1, <1>2, LeastOfNaturals
  <1>4. PICK i \in S : x = n - i BY <1>3
  <1>5. ASSUME NEW j \in S PROVE j <= i
    <2>1. n - j \in D OBVIOUS
    <2>2. n - i <= n - j BY <1>3, <1>4, <2>1
    <2> QED BY <2>2
  <1>6. \E m \in S : \A j \in S : j <= m BY <1>5
  <1> HIDE DEF D
  <1> QED BY <1>6 DEF Gate!Newest

\* What the screen reads of the grants is of one of them that was not revoked.
LEMMA GateReads ==
    ASSUME NEW g \in Seq(Gate!Grants), Len(g) <= MaxGrants, MaxGrants \in Nat, NEW a \in BOOLEAN
    PROVE  Gate!Read(a, g) \in
             [assigned : BOOLEAN, token : 0..MaxGrants,
              status : {"none", "PENDING", "APPROVED", "REDEEMED"}, live : BOOLEAN]
  <1>1. /\ DOMAIN g = 1..Len(g) /\ Len(g) \in Nat /\ \A i \in DOMAIN g : g[i] \in Gate!Grants
    OBVIOUS
  <1>2. Gate!Mine(g) \in SUBSET (1..Len(g)) BY <1>1 DEF Gate!Mine
  <1> DEFINE live == {i \in Gate!Mine(g) : Gate!Live(g[i])}
  <1>3. live \in SUBSET (1..Len(g)) /\ live \subseteq Gate!Mine(g) BY <1>2
  <1>4. Gate!Taken(g) = IF s1 = "gate" /\ live # {} THEN Gate!Newest(live)
                        ELSE IF Gate!Mine(g) # {} THEN Gate!Newest(Gate!Mine(g)) ELSE 0
    BY DEF Gate!Taken
  <1>5. live # {} => Gate!Newest(live) \in live
    <2> HIDE DEF live
    <2> QED BY <1>1, <1>3, NewestIsOne
  <1>6. Gate!Mine(g) # {} => Gate!Newest(Gate!Mine(g)) \in Gate!Mine(g)
    BY <1>1, <1>2, NewestIsOne
  <1>7. Gate!Taken(g) = 0 \/ Gate!Taken(g) \in Gate!Mine(g)
    <2> HIDE DEF live
    <2> QED BY <1>3, <1>4, <1>5, <1>6
  <1> HIDE DEF live
  <1>8. Gate!Taken(g) \in 0..MaxGrants BY <1>1, <1>2, <1>7
  <1>9. Gate!Taken(g) # 0 => g[Gate!Taken(g)].status \in {"PENDING", "APPROVED", "REDEEMED"}
    BY <1>1, <1>7 DEF Gate!Mine, Gate!Grants
  <1>10. Gate!Live(g[Gate!Taken(g)]) \in BOOLEAN BY DEF Gate!Live
  <1> QED BY <1>8, <1>9, <1>10 DEF Gate!Read

\* A row that is replaced leaves the others where they are.
LEMMA GateRewrites ==
    ASSUME Gate!GateHolds, NEW i, NEW g \in Gate!Grants
    PROVE  [s5 EXCEPT ![i] = g] \in Seq(Gate!Grants) /\ Len([s5 EXCEPT ![i] = g]) = Len(s5)
  <1>1. /\ s5 \in Seq(Gate!Grants) /\ Len(s5) \in Nat /\ DOMAIN s5 = 1..Len(s5)
        /\ \A j \in 1..Len(s5) : s5[j] \in Gate!Grants
    BY GateNumbers
  <1> DEFINE q == [s5 EXCEPT ![i] = g]
  <1>2. q \in [1..Len(s5) -> Gate!Grants] BY <1>1
  <1> HIDE DEF q
  <1>3. q \in Seq(Gate!Grants) /\ DOMAIN q = 1..Len(s5) BY <1>1, <1>2
  <1>4. Len(q) = Len(s5) BY <1>1, <1>3
  <1> QED BY <1>3, <1>4 DEF q

LEMMA GateRevokes ==
    ASSUME Gate!GateHolds, NEW i, NEW st \in {"PENDING", "APPROVED", "REDEEMED", "REVOKED"}
    PROVE  /\ [s5 EXCEPT ![i].status = st] \in Seq(Gate!Grants)
           /\ Len([s5 EXCEPT ![i].status = st]) = Len(s5)
  <1> DEFINE q == [s5 EXCEPT ![i].status = st]
  <1>1. CASE i \notin DOMAIN s5
    <2>1. q = s5 BY <1>1, GateNumbers
    <2> QED BY <2>1, GateNumbers
  <1>2. CASE i \in DOMAIN s5
    <2>1. s5[i] \in Gate!Grants BY <1>2, GateNumbers
    <2>2. [s5[i] EXCEPT !.status = st] \in Gate!Grants BY <2>1 DEF Gate!Grants
    <2>3. q = [s5 EXCEPT ![i] = [s5[i] EXCEPT !.status = st]] OBVIOUS
    <2> QED BY <2>2, <2>3, GateRewrites
  <1> QED BY <1>1, <1>2

LEMMA GateInit == ASSUME Gate!Init PROVE Gate!GateHolds
  <1>1. MaxTime \in Nat /\ MaxTime > 0 /\ MaxGrants \in Nat /\ MaxRevokes \in Nat
    BY GateConstants DEF Gate!GateAssumption
  <1>2. <<>> \in Seq(Gate!Grants) /\ Len(<<>>) = 0 OBVIOUS
  <1>3. s1 \in {"gate", "modal"} /\ s2 \in Gate!Labels BY DEF Gate!Init, Gate!Labels
  <1>4. /\ s3 = 1 /\ s4 = FALSE /\ s5 = <<>>
        /\ s6 = [assigned |-> FALSE, token |-> 0, status |-> "none", live |-> FALSE]
        /\ s7 = 0 /\ s8 = 0 /\ s9 = 0 /\ s10 = {} /\ s11 = 0 /\ s12 = "none" /\ s13 = 0
        /\ s14 = FALSE
    BY DEF Gate!Init
  <1>5. s6 \in [assigned : BOOLEAN, token : 0..MaxGrants,
               status : {"none", "PENDING", "APPROVED", "REDEEMED"}, live : BOOLEAN]
    BY <1>1, <1>4
  <1>7. s5 \in Seq(Gate!Grants) /\ Len(s5) = 0 BY <1>2, <1>4
  <1>8. s3 \in 1..MaxTime /\ Len(s5) <= MaxGrants /\ s7 \in 0..MaxGrants /\ s13 \in 0..MaxRevokes
    BY <1>1, <1>4, <1>7
  <1>6. Gate!TypeOK BY <1>3, <1>4, <1>5, <1>7, <1>8 DEF Gate!TypeOK
  <1> QED BY <1>7, <1>4, <1>6 DEF Gate!GateHolds, Gate!LockedShowsNothing, Gate!RecordsMatchHeading

\* What a step leaves of the gate when it only touches the server and what was read.
LEMMA GateAssembles ==
    ASSUME Gate!GateHolds, UNCHANGED <<s1, s2, s9, s10, s11, s14>>,
           s3' = s3, s4' \in BOOLEAN,
           s5' \in Seq(Gate!Grants), Len(s5') <= MaxGrants, Len(s5') >= Len(s5),
           s6' \in [assigned : BOOLEAN, token : 0..MaxGrants,
                    status : {"none", "PENDING", "APPROVED", "REDEEMED"}, live : BOOLEAN],
           s7' = s7 \/ s7' \in 1..Len(s5'),
           s8' = s8 \/ (s8 = 0 /\ s8' \in Nat), s12' = s12 \/ s12' = Gate!Document,
           s13' \in 0..MaxRevokes
    PROVE  Gate!GateHolds'
  <1>1. /\ Len(s5) \in Nat /\ Len(s5') \in Nat /\ s7 \in 0..Len(s5) /\ MaxGrants \in Nat
    BY GateNumbers
  <1>2. s7' \in 0..Len(s5') BY <1>1
  <1>3. s7' \in 0..MaxGrants BY <1>1, <1>2
  <1>4. Gate!Document' = Gate!Document /\ Gate!Document \in Gate!Documents
    BY DEF Gate!Document, Gate!Documents
  <1>5. s12' \in {"none", Gate!Document} /\ s12' \in {"none"} \cup Gate!Documents
    BY <1>4 DEF Gate!GateHolds
  <1>6. Gate!TypeOK' BY <1>3, <1>5 DEF Gate!GateHolds, Gate!TypeOK
  <1>7. Gate!LockedShowsNothing' BY DEF Gate!GateHolds, Gate!LockedShowsNothing
  <1>8. Gate!RecordsMatchHeading' BY DEF Gate!GateHolds, Gate!RecordsMatchHeading
  <1> QED BY <1>1, <1>2, <1>4, <1>5, <1>6, <1>7, <1>8 DEF Gate!GateHolds

LEMMA GateServes ==
    ASSUME Gate!GateHolds,
           \/ Gate!Load \/ Gate!SelfAssign \/ Gate!Request \/ Gate!Reopen \/ Gate!EndSession
           \/ Gate!Unassign \/ Gate!Redeem \/ \E i \in 1..MaxGrants : Gate!Approve(i) \/ Gate!Revoke(i)
    PROVE  Gate!GateHolds'
  <1> DEFINE Seen == [assigned : BOOLEAN, token : 0..MaxGrants,
                      status : {"none", "PENDING", "APPROVED", "REDEEMED"}, live : BOOLEAN]
  <1>1. s4 \in BOOLEAN /\ s6 \in Seen /\ s6.assigned \in BOOLEAN /\ s13 \in 0..MaxRevokes
        /\ s13 \in Nat
    BY GateNumbers DEF Gate!GateHolds, Gate!TypeOK
  <1>2. \A g \in Seq(Gate!Grants) : Len(g) <= MaxGrants =>
            \A a \in BOOLEAN : Gate!Read(a, g) \in Seen
    BY GateReads, GateNumbers
  <1>3. \A g \in Seq(Gate!Grants) : Len(g) <= MaxGrants => Gate!Reread(g) \in Seen
    BY <1>1, <1>2 DEF Gate!Reread
  <1>4. s5 \in Seq(Gate!Grants) /\ Len(s5) <= MaxGrants /\ Len(s5) \in Nat BY GateNumbers
  <1> HIDE DEF Seen
  <1>5. CASE Gate!Load
    BY <1>1, <1>2, <1>4, <1>5, GateAssembles DEF Gate!Load, Gate!server, Gate!viewer, Seen
  <1>6. CASE Gate!SelfAssign
    <2>1. [s6 EXCEPT !.assigned = TRUE] \in Seen BY <1>1 DEF Seen
    <2>2. s6' \in Seen BY <1>1, <1>2, <1>4, <1>6, <2>1 DEF Gate!SelfAssign
    <2> QED BY <1>1, <1>4, <1>6, <2>2, GateAssembles DEF Gate!SelfAssign, Gate!viewer, Seen
  <1>7. CASE Gate!Request
    <2> DEFINE g == [status |-> "PENDING", redeemBy |-> 0, until |-> 0]
    <2>1. g \in Gate!Grants BY DEF Gate!Grants
    <2>2. s5' = s5 \/ (s5' = Append(s5, g) /\ Len(s5) < MaxGrants)
      BY <1>7 DEF Gate!Request
    <2>3. Append(s5, g) \in Seq(Gate!Grants) /\ Len(Append(s5, g)) = Len(s5) + 1
      BY <1>4, <2>1, AppendProperties
    <2>4. s5' \in Seq(Gate!Grants) /\ Len(s5') <= MaxGrants /\ Len(s5') >= Len(s5)
      <3>1. MaxGrants \in Nat BY GateNumbers
      <3> HIDE DEF g
      <3>2. CASE s5' = s5 BY <1>4, <3>2
      <3>3. CASE s5' = Append(s5, g) /\ Len(s5) < MaxGrants BY <1>4, <2>3, <3>1, <3>3
      <3> QED BY <2>2, <3>2, <3>3
    <2>5. s6' \in Seen BY <1>1, <1>3, <1>7, <2>4 DEF Gate!Request
    <2> QED BY <1>1, <1>7, <2>4, <2>5, GateAssembles DEF Gate!Request, Gate!viewer, Seen
  <1>8. CASE Gate!Reopen
    BY <1>1, <1>4, <1>8, GateAssembles DEF Gate!Reopen, Gate!server, Gate!viewer, Seen
  <1>9. CASE Gate!EndSession
    <2>1. s5' = [s5 EXCEPT ![s6.token].status = "REVOKED"] BY <1>9 DEF Gate!EndSession
    <2>2. s5' \in Seq(Gate!Grants) /\ Len(s5') = Len(s5) BY <2>1, GateRevokes
    <2>3. s6' \in Seen BY <1>3, <1>4, <1>9, <2>2 DEF Gate!EndSession
    <2>4. UNCHANGED <<s1, s2, s3, s4, s7, s8, s9, s10, s11, s12, s13, s14>>
      BY <1>9 DEF Gate!EndSession, Gate!viewer
    <2>5. Len(s5') <= MaxGrants /\ Len(s5') >= Len(s5) BY <1>4, <2>2
    <2>6. s4' \in BOOLEAN /\ s13' \in 0..MaxRevokes /\ s7' = s7 /\ s8' = s8 /\ s12' = s12 /\ s3' = s3
      BY <1>1, <2>4
    <2>7. UNCHANGED <<s1, s2, s9, s10, s11, s14>> BY <2>4
    <2> QED BY <2>2, <2>3, <2>5, <2>6, <2>7, GateAssembles DEF Seen
  <1>10. CASE Gate!Unassign
    <2>1. s13' \in 0..MaxRevokes BY <1>1, <1>10, GateNumbers DEF Gate!Unassign
    <2>2. UNCHANGED <<s1, s2, s3, s5, s6, s7, s8, s9, s10, s11, s12, s14>> /\ s4' \in BOOLEAN
      BY <1>10 DEF Gate!Unassign, Gate!viewer
    <2>3. s5' \in Seq(Gate!Grants) /\ Len(s5') <= MaxGrants /\ Len(s5') >= Len(s5) /\ s6' \in Seen
      BY <1>1, <1>4, <2>2
    <2> QED BY <2>1, <2>2, <2>3, GateAssembles DEF Seen
  <1>11. CASE Gate!Redeem
    <2>1. s5' = s5 \/ s5' = [s5 EXCEPT ![s7].status = "REDEEMED", ![s7].until = s3 + Session]
      BY <1>11 DEF Gate!Redeem
    <2>2. s7 \in 1..Len(s5)
      BY <1>11, GateNumbers DEF Gate!Redeem, Gate!CanRedeem
    <2>3. s5[s7] \in Gate!Grants BY <2>2, GateNumbers
    <2> DEFINE g == [s5[s7] EXCEPT !.status = "REDEEMED", !.until = s3 + Session]
    <2>4. g \in Gate!Grants
      <3>1. s3 + Session \in Nat BY GateNumbers
      <3> QED BY <2>3, <3>1 DEF Gate!Grants
    <2>5. [s5 EXCEPT ![s7].status = "REDEEMED", ![s7].until = s3 + Session] = [s5 EXCEPT ![s7] = g]
      BY <2>2, <1>4
    <2>6. s5' \in Seq(Gate!Grants) /\ Len(s5') = Len(s5)
      <3> HIDE DEF g
      <3>1. CASE s5' = s5
        <4>1. s5 \in Seq(Gate!Grants) BY GateNumbers
        <4> QED BY <3>1, <4>1, Zenon
      <3>2. CASE s5' # s5
        <4>1. s5' = [s5 EXCEPT ![s7] = g] BY <2>1, <2>5, <3>2, Zenon
        <4>2. /\ [s5 EXCEPT ![s7] = g] \in Seq(Gate!Grants)
              /\ Len([s5 EXCEPT ![s7] = g]) = Len(s5)
          BY <2>4, GateRewrites, Zenon
        <4> QED BY <4>1, <4>2, Zenon
      <3> QED BY <3>1, <3>2
    <2>7. s6' \in Seen BY <1>1, <1>3, <1>4, <1>11, <2>6 DEF Gate!Redeem
    <2>8. s8 = 0 /\ s8' \in Nat
      BY <1>11, GateNumbers DEF Gate!Redeem, Gate!CanRedeem
    <2>9. s12' = s12 \/ s12' = Gate!Document BY <1>11 DEF Gate!Redeem
    <2> QED BY <1>1, <1>4, <1>11, <2>6, <2>7, <2>8, <2>9, GateAssembles
            DEF Gate!Redeem, Gate!viewer, Seen
  <1>12. ASSUME NEW i \in 1..MaxGrants, Gate!Approve(i) PROVE Gate!GateHolds'
    <2>1. s5' = [s5 EXCEPT ![i].status = "APPROVED", ![i].redeemBy = s3 + Window]
      BY <1>12 DEF Gate!Approve
    <2>2. i \in 1..Len(s5) BY <1>12, GateNumbers DEF Gate!Approve
    <2>3. s5[i] \in Gate!Grants BY <2>2, GateNumbers
    <2> DEFINE g == [s5[i] EXCEPT !.status = "APPROVED", !.redeemBy = s3 + Window]
    <2>4. g \in Gate!Grants
      <3>1. s3 + Window \in Nat BY GateNumbers
      <3> QED BY <2>3, <3>1 DEF Gate!Grants
    <2>5. s5' = [s5 EXCEPT ![i] = g] BY <2>1, <2>2, <1>4
    <2>6. s5' \in Seq(Gate!Grants) /\ Len(s5') = Len(s5)
      <3> HIDE DEF g
      <3> QED BY <1>4, <2>4, <2>5, GateRewrites
    <2>7. s6' \in Seen BY <1>1, <1>3, <1>4, <1>12, <2>6 DEF Gate!Approve
    <2>8. s7' \in 1..Len(s5') BY <1>12, <2>2, <2>6 DEF Gate!Approve
    <2> QED BY <1>1, <1>4, <1>12, <2>6, <2>7, <2>8, GateAssembles DEF Gate!Approve, Gate!viewer, Seen
  <1>13. ASSUME NEW i \in 1..MaxGrants, Gate!Revoke(i) PROVE Gate!GateHolds'
    <2>1. s5' = [s5 EXCEPT ![i].status = "REVOKED"] BY <1>13 DEF Gate!Revoke
    <2>2. s5' \in Seq(Gate!Grants) /\ Len(s5') = Len(s5) BY <2>1, GateRevokes
    <2>3. s13' \in 0..MaxRevokes BY <1>1, <1>13, GateNumbers DEF Gate!Revoke
    <2> QED BY <1>1, <1>4, <1>13, <2>2, <2>3, GateAssembles DEF Gate!Revoke, Gate!viewer, Seen
  <1> QED BY <1>5, <1>6, <1>7, <1>8, <1>9, <1>10, <1>11, <1>12, <1>13

\* The records of the modal come, go and are locked away.
LEMMA GateShows ==
    ASSUME Gate!GateHolds,
           \/ Gate!Tick
           \/ \E u \in Gate!Uploads : \/ Gate!View(u) \/ Gate!NotShown(u)
                                      \/ \E renewed \in BOOLEAN : Gate!Show(u, renewed)
    PROVE  Gate!GateHolds'
  <1>1. /\ s9 \in {0} \cup Gate!Uploads /\ s10 \subseteq Gate!Uploads /\ s11 \in {0} \cup Gate!Uploads
        /\ s14 \in BOOLEAN /\ s3 \in Nat /\ s8 \in Nat /\ StepUp \in Nat /\ StepUp > 0
        /\ s3 + StepUp \in Nat /\ s3 + StepUp > 0 /\ MaxTime \in Nat /\ s3 \in 1..MaxTime
    <2>1. /\ s9 \in {0} \cup Gate!Uploads /\ s10 \subseteq Gate!Uploads /\ s11 \in {0} \cup Gate!Uploads
          /\ s14 \in BOOLEAN /\ s3 \in 1..MaxTime
      BY Zenon DEF Gate!GateHolds, Gate!TypeOK
    <2>2. s3 \in Nat /\ s8 \in Nat /\ StepUp \in Nat \ {0} /\ MaxTime \in Nat
      BY GateNumbers, Zenon
    <2>3. \A a \in Nat, b \in Nat \ {0} : b > 0 /\ a + b \in Nat /\ a + b > 0
      OBVIOUS
    <2>4. StepUp > 0 /\ s3 + StepUp \in Nat /\ s3 + StepUp > 0 BY <2>2, <2>3, Zenon
    <2> QED BY <2>1, <2>2, <2>4, Zenon
  <1>2. Gate!LockedShowsNothing /\ Gate!RecordsMatchHeading BY DEF Gate!GateHolds
  <1>3. \A u \in Gate!Uploads : u # 0 BY DEF Gate!Uploads
  <1>4. UNCHANGED <<s1, s2, s4, s5, s6, s7, s12, s13>>
    BY DEF Gate!Tick, Gate!View, Gate!NotShown, Gate!Show, Gate!server
  <1>5. /\ s3' \in 1..MaxTime /\ s8' \in Nat /\ s9' \in {0} \cup Gate!Uploads
        /\ s10' \subseteq Gate!Uploads /\ s11' \in {0} \cup Gate!Uploads /\ s14' \in BOOLEAN
        /\ s8' = 0 => s9' = 0
        /\ s9' # 0 /\ s11' # 0 /\ ~s14' => s11' = s9'
    <2>1. CASE Gate!Tick
      BY <1>1, <1>2, <2>1 DEF Gate!Tick, Gate!LockedShowsNothing, Gate!RecordsMatchHeading
    <2>2. ASSUME NEW u \in Gate!Uploads, Gate!View(u) PROVE <1>5!:
      BY <1>1, <1>2, <2>2 DEF Gate!View, Gate!server, Gate!LockedShowsNothing
    <2>3. ASSUME NEW u \in Gate!Uploads, Gate!NotShown(u) PROVE <1>5!:
      BY <1>1, <1>2, <2>3
      DEF Gate!NotShown, Gate!server, Gate!LockedShowsNothing, Gate!RecordsMatchHeading
    <2>4. ASSUME NEW u \in Gate!Uploads, NEW renewed \in BOOLEAN, Gate!Show(u, renewed)
          PROVE  <1>5!:
      BY <1>1, <1>2, <1>3, <2>4
      DEF Gate!Show, Gate!server, Gate!LockedShowsNothing, Gate!RecordsMatchHeading
    <2> QED BY <2>1, <2>2, <2>3, <2>4
  <1>6. Gate!Document' = Gate!Document BY <1>4 DEF Gate!Document
  <1>7. Gate!TypeOK' BY <1>4, <1>5 DEF Gate!GateHolds, Gate!TypeOK
  <1> QED BY <1>4, <1>5, <1>6, <1>7
          DEF Gate!GateHolds, Gate!LockedShowsNothing, Gate!RecordsMatchHeading

LEMMA GateNextKeeps ==
    ASSUME Gate!GateHolds, Gate!Next PROVE Gate!GateHolds'
  BY GateServes, GateShows DEF Gate!Next

LEMMA GateTold ==
    ASSUME Gate!GateHolds
    PROVE  /\ Gate!TypeOK /\ Gate!LockedShowsNothing /\ Gate!RecordsMatchHeading
           /\ Gate!OpensWhatWasAsked
  <1>1. s2 \in Gate!Labels /\ s12 \in {"none", Gate!Document} BY DEF Gate!GateHolds, Gate!TypeOK
  <1>2. Gate!OpensWhatWasAsked BY <1>1 DEF Gate!OpensWhatWasAsked, Gate!Document, Gate!Labels
  <1> QED BY <1>2 DEF Gate!GateHolds

-----------------------------------------------------------------------------
(* The assistant's page.                                                       *)

LEMMA PageNumbers ==
    ASSUME Iris!PageHolds
    PROVE  /\ MaxTurns \in Nat /\ MaxTurns > 0 /\ MaxOpens \in Nat
           /\ s1 \in Seq(Iris!Bubble) /\ Len(s1) \in Nat /\ DOMAIN s1 = 1..Len(s1)
           /\ s2 \in Iris!Conv \cup {0} /\ s3.turn \in 0..MaxTurns
           /\ s3.conv \in Iris!Conv \cup {0} /\ s3.text \in BOOLEAN
           /\ s4 \in 0..MaxTurns /\ s7 \in [Iris!Conv -> SUBSET (0..MaxTurns)]
           /\ s8 \in [1..MaxTurns -> {"none", "open", "done", "dropped"}]
           /\ s10 \in [switched : BOOLEAN, cut : BOOLEAN]
  <1>1. s1 \in Seq(Iris!Bubble) BY DEF Iris!PageHolds, Iris!TypeOK
  <1>2. Len(s1) \in Nat /\ DOMAIN s1 = 1..Len(s1) BY <1>1, LenProperties
  <1>3. MaxTurns \in Nat /\ MaxTurns > 0 /\ MaxOpens \in Nat
    BY IrisConstants DEF Iris!PageAssumption
  <1> QED BY <1>1, <1>2, <1>3 DEF Iris!PageHolds, Iris!TypeOK, Iris!Turn, Iris!None

LEMMA PageBubble ==
    ASSUME Iris!PageHolds, NEW i \in DOMAIN s1
    PROVE  /\ i \in Nat /\ s1[i] \in Iris!Bubble /\ s1[i].turn \in 0..MaxTurns
           /\ s1[i].holds \subseteq {s1[i].turn} \/ s10.switched
           /\ s1[i].role = "card" => s1[i].turn \in 1..s4
  <1>1. i \in Nat /\ s1[i] \in Iris!Bubble BY PageNumbers, ElementOfSeq
  <1> QED BY <1>1 DEF Iris!Bubble, Iris!Turn, Iris!PageHolds, Iris!RepliesInPlace, Iris!CardsOfPast

LEMMA PageBubbles ==
    ASSUME NEW n \in 0..MaxTurns
    PROVE  /\ Iris!User(n) \in Iris!Bubble /\ Iris!Reply(n) \in Iris!Bubble /\ Iris!Card(n) \in Iris!Bubble
           /\ Iris!User(n).role = "user" /\ Iris!User(n).turn = n /\ Iris!User(n).holds = {n}
           /\ Iris!Reply(n).role = "reply" /\ Iris!Reply(n).turn = n /\ Iris!Reply(n).holds = {}
           /\ Iris!Card(n).role = "card" /\ Iris!Card(n).turn = n /\ Iris!Card(n).holds = {n}
           /\ Iris!Card(n).state = "pending"
           /\ [Iris!Reply(n) EXCEPT !.holds = {n}] \in Iris!Bubble
           /\ [Iris!Reply(n) EXCEPT !.holds = {n}].role = "reply"
           /\ [Iris!Reply(n) EXCEPT !.holds = {n}].turn = n
           /\ [Iris!Reply(n) EXCEPT !.holds = {n}].holds = {n}
  BY DEF Iris!User, Iris!Reply, Iris!Card, Iris!Bubble, Iris!Turn

\* Of a finite set of naturals each has its place: for i in 1 .. its size there is
\* one with i - 1 before it.
Earlier(held, n) == {m \in held : m < n}
LEMMA EarlierAreFewer ==
    ASSUME NEW held, IsFiniteSet(held), held \subseteq Nat, NEW n \in held, NEW p \in held, n < p
    PROVE  /\ Cardinality(Earlier(held, n)) \in Nat /\ Cardinality(Earlier(held, p)) \in Nat
           /\ Cardinality(Earlier(held, n)) < Cardinality(Earlier(held, p))
  <1>1. Earlier(held, p) \in SUBSET held BY DEF Earlier
  <1>2. IsFiniteSet(Earlier(held, p)) BY <1>1, FS_Subset
  <1>3. Earlier(held, n) \in SUBSET Earlier(held, p)
    <2>1. ASSUME NEW m \in Earlier(held, n) PROVE m \in Earlier(held, p)
      <3>1. m \in held /\ m < n /\ m \in Nat /\ n \in Nat /\ p \in Nat BY DEF Earlier
      <3>2. m < p BY <3>1
      <3> QED BY <3>1, <3>2 DEF Earlier
    <2> QED BY <2>1
  <1>4. n \in Earlier(held, p) /\ n \notin Earlier(held, n) BY DEF Earlier
  <1>5. /\ IsFiniteSet(Earlier(held, n))
        /\ Cardinality(Earlier(held, n)) <= Cardinality(Earlier(held, p))
        /\ Cardinality(Earlier(held, n)) # Cardinality(Earlier(held, p))
    BY <1>2, <1>3, <1>4, FS_Subset
  <1> QED BY <1>2, <1>5, FS_CardinalityType

\* Those with fewer than j before them are at most j.
LEMMA FewHaveFewEarlier ==
    ASSUME NEW held, IsFiniteSet(held), held \subseteq Nat, NEW j \in Nat,
           NEW S \in SUBSET held, \A n \in S : Cardinality(Earlier(held, n)) < j
    PROVE  Cardinality(S) \in Nat /\ Cardinality(S) <= j
  <1> DEFINE f == [n \in S |-> Cardinality(Earlier(held, n))]
  <1>1. IsFiniteSet(S) /\ Cardinality(S) \in Nat BY FS_Subset, FS_CardinalityType
  <1>2. ASSUME NEW n \in S PROVE Cardinality(Earlier(held, n)) \in 0..(j - 1)
    <2>1. Earlier(held, n) \in SUBSET held BY DEF Earlier
    <2>2. Cardinality(Earlier(held, n)) \in Nat BY <2>1, FS_Subset, FS_CardinalityType
    <2> QED BY <2>2
  <1>3. f \in [S -> 0..(j - 1)] BY <1>2
  <1>4. ASSUME NEW n \in S, NEW p \in S, f[n] = f[p] PROVE n = p
    <2>1. n \in Nat /\ p \in Nat OBVIOUS
    <2>2. f[n] = Cardinality(Earlier(held, n)) /\ f[p] = Cardinality(Earlier(held, p)) OBVIOUS
    <2> HIDE DEF f
    <2>3. n \in held /\ p \in held OBVIOUS
    <2>4. n < p => /\ Cardinality(Earlier(held, n)) \in Nat /\ Cardinality(Earlier(held, p)) \in Nat
                   /\ Cardinality(Earlier(held, n)) < Cardinality(Earlier(held, p))
      BY <2>3, EarlierAreFewer
    <2>5. p < n => /\ Cardinality(Earlier(held, n)) \in Nat /\ Cardinality(Earlier(held, p)) \in Nat
                   /\ Cardinality(Earlier(held, p)) < Cardinality(Earlier(held, n))
      BY <2>3, EarlierAreFewer
    <2>6. f[n] = f[p] BY <1>4
    <2>7. ~(n < p) /\ ~(p < n) BY <2>2, <2>4, <2>5, <2>6
    <2> QED BY <2>1, <2>7
  <1>5. DOMAIN f = S OBVIOUS
  <1> HIDE DEF f
  <1>6. f \in Injection(S, 0..(j - 1)) BY <1>3, <1>4, <1>5 DEF Injection, IsInjective
  <1>7. IsFiniteSet(0..(j - 1)) /\ Cardinality(0..(j - 1)) = j
    <2>1. 0 \in Int /\ j - 1 \in Int OBVIOUS
    <2> QED BY <2>1, FS_Interval
  <1>8. Cardinality(S) <= Cardinality(0..(j - 1)) BY <1>6, <1>7, FS_Injection
  <1> QED BY <1>1, <1>7, <1>8

LEMMA EachHasItsPlace ==
    ASSUME NEW held, IsFiniteSet(held), held \subseteq Nat, NEW i \in 1..Cardinality(held)
    PROVE  \E n \in held : Cardinality(Earlier(held, n)) = i - 1
  <1>1. Cardinality(held) \in Nat /\ i \in Nat /\ i - 1 \in Nat /\ i <= Cardinality(held)
    BY FS_CardinalityType
  <1> SUFFICES ASSUME \A n \in held : Cardinality(Earlier(held, n)) # i - 1 PROVE FALSE
    OBVIOUS
  <1>2. \A n \in held : Cardinality(Earlier(held, n)) \in Nat
    <2>1. ASSUME NEW n \in held PROVE Cardinality(Earlier(held, n)) \in Nat
      <3>1. Earlier(held, n) \in SUBSET held BY DEF Earlier
      <3> QED BY <3>1, FS_Subset, FS_CardinalityType
    <2> QED BY <2>1
  <1> DEFINE U == {n \in held : ~(Cardinality(Earlier(held, n)) < i - 1)}
  <1>3. U # {}
    <2> SUFFICES ASSUME U = {} PROVE FALSE OBVIOUS
    <2>1. \A n \in held : Cardinality(Earlier(held, n)) < i - 1 OBVIOUS
    <2>2. Cardinality(held) <= i - 1 BY <1>1, <2>1, FewHaveFewEarlier
    <2> QED BY <1>1, <2>2
  <1>4. U \in SUBSET Nat OBVIOUS
  <1>5. PICK p \in U : \A y \in U : p <= y
    <2> HIDE DEF U
    <2> QED BY <1>3, <1>4, LeastOfNaturals
  <1>6. p \in held /\ p \in Nat OBVIOUS
  <1>7. Earlier(held, p) \in SUBSET held BY DEF Earlier
  <1>8. ASSUME NEW n \in Earlier(held, p) PROVE Cardinality(Earlier(held, n)) < i - 1
    <2>1. n \in held /\ n < p /\ n \in Nat BY DEF Earlier
    <2>2. n \notin U BY <1>5, <1>6, <2>1
    <2> QED BY <2>1, <2>2
  <1>9. Cardinality(Earlier(held, p)) <= i - 1 BY <1>1, <1>7, <1>8, FewHaveFewEarlier
  <1>10. Cardinality(Earlier(held, p)) > i - 1 BY <1>1, <1>2, <1>6
  <1> QED BY <1>1, <1>2, <1>6, <1>9, <1>10

\* An earlier conversation is put on the screen with its own turns, and no card.
LEMMA PageExchange ==
    ASSUME NEW c, s7[c] \in SUBSET (0..MaxTurns), MaxTurns \in Nat
    PROVE  /\ Iris!Exchange(c) \in Seq(Iris!Bubble)
           /\ \A i \in DOMAIN Iris!Exchange(c) :
                 /\ Iris!Exchange(c)[i].role # "card" /\ Iris!Exchange(c)[i].turn \in s7[c]
                 /\ Iris!Exchange(c)[i].holds = {Iris!Exchange(c)[i].turn}
  <1> DEFINE held == s7[c]
             Nth(i) == CHOOSE n \in held : Cardinality(Earlier(held, n)) = i - 1
             k2 == 2 * Cardinality(held)
             Told(i) == IF i % 2 = 1 THEN Iris!User(Nth((i + 1) \div 2))
                        ELSE [Iris!Reply(Nth(i \div 2)) EXCEPT !.holds = {Nth(i \div 2)}]
  <1>1. IsFiniteSet(held) /\ held \subseteq Nat /\ Cardinality(held) \in Nat
    <2>1. IsFiniteSet(0..MaxTurns) BY FS_Interval
    <2>2. IsFiniteSet(held) BY <2>1, FS_Subset
    <2> QED BY <2>2, FS_CardinalityType
  <1>2. ASSUME NEW i \in 1..Cardinality(held) PROVE Nth(i) \in held
    <2>1. \E n \in held : Cardinality(Earlier(held, n)) = i - 1 BY <1>1, EachHasItsPlace
    <2> QED BY <2>1
  <1>3. Iris!Exchange(c) = [i \in 1..k2 |-> Told(i)] BY DEF Iris!Exchange, Earlier, Iris!Cardinality, Cardinality
  <1> HIDE DEF Nth
  <1>4. ASSUME NEW i \in 1..k2
        PROVE  /\ Told(i) \in Iris!Bubble /\ Told(i).role # "card" /\ Told(i).turn \in held
               /\ Told(i).holds = {Told(i).turn}
    <2>1. CASE i % 2 = 1
      <3>1. (i + 1) \div 2 \in 1..Cardinality(held) BY <1>1, <2>1
      <3>2. Nth((i + 1) \div 2) \in held BY <1>2, <3>1
      <3>3. Told(i) = Iris!User(Nth((i + 1) \div 2)) BY <2>1
      <3> HIDE DEF Told
      <3>4. PICK n \in 0..MaxTurns : n = Nth((i + 1) \div 2) BY <3>2
      <3>5. Told(i) = Iris!User(n) /\ n \in held BY <3>2, <3>3, <3>4
      <3>6. /\ Iris!User(n) \in Iris!Bubble /\ Iris!User(n).role = "user" /\ Iris!User(n).turn = n
            /\ Iris!User(n).holds = {n}
        BY PageBubbles
      <3> HIDE DEF held
      <3> QED BY <3>5, <3>6
    <2>2. CASE i % 2 # 1
      <3>1. i \div 2 \in 1..Cardinality(held) BY <1>1, <2>2
      <3>2. Nth(i \div 2) \in held BY <1>2, <3>1
      <3>3. Told(i) = [Iris!Reply(Nth(i \div 2)) EXCEPT !.holds = {Nth(i \div 2)}] BY <2>2
      <3> HIDE DEF Told
      <3>4. PICK n \in 0..MaxTurns : n = Nth(i \div 2) BY <3>2
      <3>5. Told(i) = [Iris!Reply(n) EXCEPT !.holds = {n}] /\ n \in held BY <3>2, <3>3, <3>4
      <3> HIDE DEF held
      <3> QED BY <3>5, PageBubbles
    <2> QED BY <2>1, <2>2
  <1> HIDE DEF Told
  <1>5. k2 \in Nat BY <1>1
  <1> HIDE DEF k2
  <1> DEFINE q == [i \in 1..k2 |-> Told(i)]
  <1>6. q \in [1..k2 -> Iris!Bubble] BY <1>4
  <1>7. q \in Seq(Iris!Bubble) BY <1>5, <1>6
  <1>8. DOMAIN q = 1..k2 /\ \A i \in 1..k2 : q[i] = Told(i) OBVIOUS
  <1> HIDE DEF q
  <1>9. Iris!Exchange(c) = q BY <1>3 DEF q
  <1> QED BY <1>4, <1>7, <1>8, <1>9

\* What the invariant says of the page, piece by piece.
LEMMA PageSays ==
    ASSUME Iris!PageHolds
    PROVE  /\ ~s10.switched => \A i \in DOMAIN s1 : s1[i].holds \subseteq {s1[i].turn}
           /\ s3.turn = 0 /\ ~s10.cut /\ ~s10.switched =>
                 \A i \in DOMAIN s1 : s2 # 0 /\ s1[i].turn \in s7[s2]
           /\ \A i \in DOMAIN s1 : s1[i].role = "card" =>
                 /\ s1[i].state = "confirmed" => s8[s1[i].turn] = "done"
                 /\ s1[i].state = "cancelled" => s8[s1[i].turn] = "dropped"
                 /\ s1[i].turn \in 1..s4 /\ (s3.turn # 0 => s1[i].turn < s3.turn)
           /\ s3.turn # 0 /\ ~s10.switched =>
                 s1 # <<>> /\ s1[Len(s1)].role = "reply" /\ s1[Len(s1)].turn = s3.turn
           /\ s3.turn # 0 => s3.turn = s4 /\ s3.conv \in Iris!Conv
           /\ s3.turn # 0 /\ ~s10.cut /\ ~s10.switched =>
                 /\ s2 # 0 => s3.conv = s2
                 /\ \A i \in DOMAIN s1 : s1[i].turn = s3.turn \/ (s2 # 0 /\ s1[i].turn \in s7[s2])
  BY DEF Iris!PageHolds, Iris!RepliesInPlace, Iris!GoesWhereShown, Iris!CardsAreTrue,
         Iris!CardsOfPast, Iris!OwnBubble, Iris!Streaming, Iris!Loading, Iris!LastIsReply, Iris!None

LEMMA PageInit == ASSUME Iris!Init PROVE Iris!PageHolds
  <1>1. MaxTurns \in Nat /\ MaxTurns > 0 /\ MaxOpens \in Nat
    BY IrisConstants DEF Iris!PageAssumption
  <1>2. /\ s1 = <<>> /\ s2 = 0 /\ s3 = [turn |-> 0, conv |-> 0, text |-> FALSE] /\ s4 = 0 /\ s5 = {}
        /\ s6 = 0 /\ s7 = [c \in Iris!Conv |-> IF c = 1 THEN {0} ELSE {}]
        /\ s8 = [n \in 1..MaxTurns |-> "none"] /\ s9 = {} /\ s10 = [switched |-> FALSE, cut |-> FALSE]
    BY DEF Iris!Init, Iris!Idle, Iris!None, Iris!Earlier
  <1>3. s1 \in Seq(Iris!Bubble) /\ DOMAIN s1 = {} BY <1>2
  <1>4. s7 \in [Iris!Conv -> SUBSET Iris!Turn] BY <1>1, <1>2 DEF Iris!Turn
  <1>5. Iris!TypeOK BY <1>1, <1>2, <1>3, <1>4 DEF Iris!TypeOK, Iris!None, Iris!Turn
  <1>6. ~Iris!Loading BY <1>2 DEF Iris!Loading
  <1> QED
    BY <1>3, <1>5, <1>6 DEF Iris!PageHolds, Iris!RepliesInPlace, Iris!GoesWhereShown,
       Iris!CardsAreTrue, Iris!CardsOfPast, Iris!OwnBubble

LEMMA PageSend == ASSUME Iris!PageHolds, Iris!Send PROVE Iris!PageHolds'
  <1> DEFINE n == s4 + 1
             new == <<Iris!User(n), Iris!Reply(n)>>
  <1>1. /\ s3.turn = 0 /\ s4 < MaxTurns /\ s4' = n /\ s1' = s1 \o new
        /\ s3' = [turn |-> n, conv |-> IF s2 = 0 THEN n + 1 ELSE s2, text |-> FALSE]
        /\ s2' = s2 /\ s5' = s5 /\ s6' = s6 /\ s7' = s7 /\ s8' = s8 /\ s9' = s9 /\ s10' = s10
    BY DEF Iris!Send, Iris!Loading, Iris!None
  <1>2. n \in 1..MaxTurns /\ n \in 0..MaxTurns BY <1>1, PageNumbers
  <1>3. /\ Iris!User(n) \in Iris!Bubble /\ Iris!User(n).turn = n /\ Iris!User(n).holds = {n}
        /\ Iris!User(n).role = "user" /\ Iris!Reply(n) \in Iris!Bubble /\ Iris!Reply(n).turn = n
        /\ Iris!Reply(n).holds = {} /\ Iris!Reply(n).role = "reply"
    BY <1>2, PageBubbles
  <1>4. new \in Seq(Iris!Bubble) /\ Len(new) = 2 /\ new[1] = Iris!User(n) /\ new[2] = Iris!Reply(n)
    BY <1>3
  <1> HIDE DEF new
  <1>5. /\ s1' \in Seq(Iris!Bubble) /\ Len(s1') = Len(s1) + 2 /\ DOMAIN s1' = 1..(Len(s1) + 2)
        /\ \A i \in 1..(Len(s1) + 2) : s1'[i] = IF i <= Len(s1) THEN s1[i] ELSE new[i - Len(s1)]
    <2>1. s1 \in Seq(Iris!Bubble) /\ Len(s1) \in Nat BY PageNumbers
    <2>2. new \in Seq(Iris!Bubble) /\ Len(new) = 2 BY <1>4
    <2>3. /\ s1 \o new \in Seq(Iris!Bubble) /\ Len(s1 \o new) = Len(s1) + Len(new)
          /\ \A i \in 1..(Len(s1) + Len(new)) :
                (s1 \o new)[i] = IF i <= Len(s1) THEN s1[i] ELSE new[i - Len(s1)]
      BY <2>1, <2>2, ConcatProperties
    <2>4. DOMAIN (s1 \o new) = 1..Len(s1 \o new) BY <2>3, LenProperties
    <2> QED BY <1>1, <2>2, <2>3, <2>4
  <1>6. Len(s1) \in Nat /\ DOMAIN s1 = 1..Len(s1) BY PageNumbers
  <1>7. ASSUME NEW i \in DOMAIN s1'
        PROVE  \/ i \in DOMAIN s1 /\ s1'[i] = s1[i]
               \/ s1'[i] = Iris!User(n) \/ s1'[i] = Iris!Reply(n)
    <2>1. i \in 1..(Len(s1) + 2) BY <1>5
    <2>2. CASE i <= Len(s1) BY <1>5, <1>6, <2>1, <2>2
    <2>3. CASE i = Len(s1) + 1
      <3>1. i - Len(s1) = 1 /\ ~(i <= Len(s1)) BY <2>3, <1>6
      <3> QED BY <1>4, <1>5, <2>1, <3>1
    <2>4. CASE i = Len(s1) + 2
      <3>1. i - Len(s1) = 2 /\ ~(i <= Len(s1)) BY <2>4, <1>6
      <3> QED BY <1>4, <1>5, <2>1, <3>1
    <2> QED BY <2>1, <2>2, <2>3, <2>4, <1>6
  <1>8. s1' # <<>> /\ s1'[Len(s1')] = Iris!Reply(n)
    <2>1. Len(s1') = Len(s1) + 2 /\ Len(s1') \in 1..(Len(s1) + 2) /\ Len(s1') - Len(s1) = 2
          /\ ~(Len(s1') <= Len(s1)) /\ Len(s1') # 0
      BY <1>5, <1>6
    <2> QED BY <1>4, <1>5, <2>1
  <1>9. s3'.turn = n /\ s3'.conv \in Iris!Conv /\ n # 0 /\ (s2 # 0 => s3'.conv = s2)
    BY <1>1, <1>2, PageNumbers DEF Iris!Conv
  <1>10. Iris!TypeOK'
    <2>1. s3' \in [turn : Iris!Turn, conv : Iris!Conv \cup {0}, text : BOOLEAN]
      <3>1. s3'.conv = (IF s2 = 0 THEN n + 1 ELSE s2) BY <1>1
      <3> QED BY <1>1, <1>2, <1>9, <3>1 DEF Iris!Turn
    <2> QED BY <1>1, <1>2, <1>5, <2>1 DEF Iris!TypeOK, Iris!PageHolds, Iris!Turn, Iris!None
  <1> HIDE DEF n
  <1>11. Iris!RepliesInPlace' BY <1>1, <1>3, <1>7, PageSays DEF Iris!RepliesInPlace
  <1>12. Iris!CardsAreTrue' BY <1>1, <1>3, <1>7, PageSays DEF Iris!CardsAreTrue
  <1>13. Iris!CardsOfPast'
    <2>1. ASSUME NEW i \in DOMAIN s1', s1'[i].role = "card"
          PROVE  s1'[i].turn \in 1..s4' /\ s1'[i].turn < s3'.turn
      <3>1. i \in DOMAIN s1 /\ s1'[i] = s1[i] /\ s1[i].role = "card" BY <1>3, <1>7, <2>1
      <3>2. s1[i].turn \in 1..s4 BY <3>1, PageBubble
      <3>3. s4 \in Nat /\ s4' = s4 + 1 /\ s3'.turn = s4 + 1 BY <1>1, <1>9, PageNumbers DEF n
      <3> QED BY <3>1, <3>2, <3>3
    <2> QED BY <2>1 DEF Iris!CardsOfPast
  <1>14. Iris!OwnBubble'
    BY <1>3, <1>8, <1>9 DEF Iris!OwnBubble, Iris!LastIsReply
  <1>15. Iris!Loading' BY <1>9 DEF Iris!Loading
  <1>16. ~s10'.cut /\ ~s10'.switched => Iris!Streaming'
    BY <1>1, <1>3, <1>7, <1>9, PageSays DEF Iris!Streaming, Iris!None
  <1>17. s3'.turn = s4' BY <1>1, <1>9
  <1> QED
    BY <1>9, <1>10, <1>11, <1>12, <1>13, <1>14, <1>15, <1>16, <1>17
    DEF Iris!PageHolds, Iris!GoesWhereShown

\* The last bubble loses or gains text, or goes; the others stay.
LEMMA PageRetold ==
    ASSUME Iris!PageHolds, s1 # <<>>, NEW h \in SUBSET (0..MaxTurns)
    PROVE  LET q == [s1 EXCEPT ![Len(s1)].holds = h]
           IN  /\ q \in Seq(Iris!Bubble) /\ DOMAIN q = DOMAIN s1 /\ Len(q) = Len(s1)
               /\ \A i \in DOMAIN s1 :
                     /\ q[i].role = s1[i].role /\ q[i].turn = s1[i].turn /\ q[i].state = s1[i].state
                     /\ q[i].holds = IF i = Len(s1) THEN h ELSE s1[i].holds
  <1> DEFINE q == [s1 EXCEPT ![Len(s1)].holds = h]
  <1>1. s1 \in Seq(Iris!Bubble) /\ Len(s1) \in Nat /\ DOMAIN s1 = 1..Len(s1) BY PageNumbers
  <1>2. DOMAIN q = 1..Len(s1) BY <1>1
  <1>3. ASSUME NEW i \in 1..Len(s1)
        PROVE  /\ q[i] \in Iris!Bubble
               /\ q[i].role = s1[i].role /\ q[i].turn = s1[i].turn /\ q[i].state = s1[i].state
               /\ q[i].holds = IF i = Len(s1) THEN h ELSE s1[i].holds
    <2>1. s1[i] \in Iris!Bubble BY <1>1, ElementOfSeq
    <2>2. q[i] = IF i = Len(s1) THEN [s1[i] EXCEPT !.holds = h] ELSE s1[i] BY <1>1
    <2>3. [s1[i] EXCEPT !.holds = h] \in Iris!Bubble BY <2>1 DEF Iris!Bubble, Iris!Turn
    <2>4. DOMAIN s1[i] = {"role", "turn", "holds", "state"} BY <2>1 DEF Iris!Bubble
    <2> HIDE DEF q
    <2>5. CASE i = Len(s1) BY <2>2, <2>3, <2>4, <2>5
    <2>6. CASE i # Len(s1) BY <2>1, <2>2, <2>6
    <2> QED BY <2>5, <2>6
  <1>4. q = [i \in 1..Len(s1) |-> q[i]] BY <1>1
  <1> HIDE DEF q
  <1>5. q \in [1..Len(s1) -> Iris!Bubble] BY <1>3, <1>4
  <1>6. q \in Seq(Iris!Bubble) BY <1>1, <1>5
  <1>7. Len(q) = Len(s1) BY <1>1, <1>2, <1>6, LenProperties
  <1> QED BY <1>1, <1>2, <1>3, <1>6, <1>7 DEF q

LEMMA PageShortened ==
    ASSUME Iris!PageHolds, s1 # <<>>
    PROVE  LET q == SubSeq(s1, 1, Len(s1) - 1)
           IN  /\ q \in Seq(Iris!Bubble) /\ Len(q) = Len(s1) - 1 /\ DOMAIN q \subseteq DOMAIN s1
               /\ \A i \in DOMAIN q : q[i] = s1[i]
  <1> DEFINE q == SubSeq(s1, 1, Len(s1) - 1)
  <1>1. s1 \in Seq(Iris!Bubble) /\ Len(s1) \in Nat /\ DOMAIN s1 = 1..Len(s1) BY PageNumbers
  <1>2. Len(s1) # 0 BY <1>1, EmptySeq
  <1>3. 1 \in 1..(Len(s1) + 1) /\ Len(s1) - 1 \in (1 - 1)..Len(s1) BY <1>1, <1>2
  <1>4. /\ q \in Seq(Iris!Bubble)
        /\ Len(q) = IF 1 <= Len(s1) - 1 THEN (Len(s1) - 1) - 1 + 1 ELSE 0
        /\ \A i \in 1..((Len(s1) - 1) - 1 + 1) : q[i] = s1[1 + i - 1]
    BY <1>1, <1>3, SubSeqProperties
  <1>5. Len(q) = Len(s1) - 1 /\ (Len(s1) - 1) - 1 + 1 = Len(s1) - 1
    BY <1>1, <1>2, <1>4
  <1>6. DOMAIN q = 1..(Len(s1) - 1) BY <1>4, <1>5, LenProperties
  <1>7. ASSUME NEW i \in DOMAIN q PROVE i \in DOMAIN s1 /\ q[i] = s1[i]
    <2>1. i \in 1..(Len(s1) - 1) /\ 1 + i - 1 = i /\ i \in 1..Len(s1) BY <1>1, <1>6
    <2> QED BY <1>1, <1>4, <1>5, <2>1
  <1> HIDE DEF q
  <1> QED BY <1>4, <1>5, <1>7 DEF q

\* The cards of a turn take a state; nothing else changes.
LEMMA PageMarked ==
    ASSUME Iris!PageHolds, NEW n, NEW st \in {"pending", "working", "confirmed", "cancelled"}
    PROVE  /\ Iris!Marked(n, st) \in Seq(Iris!Bubble) /\ DOMAIN Iris!Marked(n, st) = DOMAIN s1
           /\ Len(Iris!Marked(n, st)) = Len(s1)
           /\ \A i \in DOMAIN s1 :
                 /\ Iris!Marked(n, st)[i].role = s1[i].role /\ Iris!Marked(n, st)[i].turn = s1[i].turn
                 /\ Iris!Marked(n, st)[i].holds = s1[i].holds
                 /\ Iris!Marked(n, st)[i].state =
                       IF s1[i].role = "card" /\ s1[i].turn = n THEN st ELSE s1[i].state
  <1> DEFINE M(i) == IF s1[i].role = "card" /\ s1[i].turn = n THEN [s1[i] EXCEPT !.state = st] ELSE s1[i]
             q == [i \in DOMAIN s1 |-> M(i)]
  <1>1. s1 \in Seq(Iris!Bubble) /\ Len(s1) \in Nat /\ DOMAIN s1 = 1..Len(s1) BY PageNumbers
  <1>2. Iris!Marked(n, st) = q BY DEF Iris!Marked
  <1>3. ASSUME NEW i \in DOMAIN s1
        PROVE  /\ M(i) \in Iris!Bubble /\ M(i).role = s1[i].role /\ M(i).turn = s1[i].turn
               /\ M(i).holds = s1[i].holds
               /\ M(i).state = IF s1[i].role = "card" /\ s1[i].turn = n THEN st ELSE s1[i].state
    <2>1. s1[i] \in Iris!Bubble BY <1>1, ElementOfSeq
    <2>2. [s1[i] EXCEPT !.state = st] \in Iris!Bubble BY <2>1 DEF Iris!Bubble
    <2>3. DOMAIN s1[i] = {"role", "turn", "holds", "state"} BY <2>1 DEF Iris!Bubble
    <2> QED BY <2>1, <2>2, <2>3
  <1>4. DOMAIN q = DOMAIN s1 /\ \A i \in DOMAIN s1 : q[i] = M(i) OBVIOUS
  <1> HIDE DEF M
  <1>5. q \in [1..Len(s1) -> Iris!Bubble] BY <1>1, <1>3
  <1> HIDE DEF q
  <1>6. q \in Seq(Iris!Bubble) BY <1>1, <1>5
  <1>7. Len(q) = Len(s1) BY <1>1, <1>4, <1>6, LenProperties
  <1> QED BY <1>2, <1>3, <1>4, <1>6, <1>7

LEMMA PageDelta == ASSUME Iris!PageHolds, Iris!Delta PROVE Iris!PageHolds'
  <1> DEFINE n == s3.turn
  <1>1. /\ n # 0 /\ s1' = Iris!Patched(n) /\ s3' = [s3 EXCEPT !.text = TRUE]
        /\ s2' = s2 /\ s4' = s4 /\ s5' = s5 /\ s6' = s6 /\ s7' = s7 /\ s8' = s8 /\ s9' = s9 /\ s10' = s10
    BY DEF Iris!Delta, Iris!Loading
  <1>2. n \in 0..MaxTurns /\ n = s4 /\ s3.conv \in Iris!Conv BY <1>1, PageNumbers, PageSays
  <1>3. s3' \in [turn : Iris!Turn, conv : Iris!Conv \cup {0}, text : BOOLEAN]
        /\ s3'.turn = n /\ s3'.conv = s3.conv
    <2>1. s3 \in [turn : Iris!Turn, conv : Iris!Conv \cup {0}, text : BOOLEAN]
      BY DEF Iris!PageHolds, Iris!TypeOK, Iris!None
    <2> QED BY <1>1, <2>1
  <1>4. /\ s1' \in Seq(Iris!Bubble) /\ DOMAIN s1' = DOMAIN s1 /\ Len(s1') = Len(s1)
        /\ (s1 # <<>> => s1' # <<>>)
        /\ \A i \in DOMAIN s1 :
              /\ s1'[i].role = s1[i].role /\ s1'[i].turn = s1[i].turn /\ s1'[i].state = s1[i].state
              /\ s1'[i].holds = s1[i].holds \/ (i = Len(s1) /\ s1'[i].holds = s1[i].holds \cup {n})
    <2>1. CASE ~Iris!LastIsReply
      <3>1. s1' = s1 BY <1>1, <2>1 DEF Iris!Patched
      <3> QED BY <3>1, PageNumbers
    <2>2. CASE Iris!LastIsReply
      <3> DEFINE h == s1[Len(s1)].holds \cup {n}
      <3>1. s1 # <<>> /\ s1' = [s1 EXCEPT ![Len(s1)].holds = h]
        BY <1>1, <2>2 DEF Iris!Patched, Iris!LastIsReply
      <3>2. Len(s1) \in DOMAIN s1 BY <3>1, PageNumbers, EmptySeq
      <3>3. s1[Len(s1)] \in Iris!Bubble BY <3>2, PageBubble
      <3>4. h \in SUBSET (0..MaxTurns) BY <1>2, <3>3 DEF Iris!Bubble, Iris!Turn
      <3>5. s1' # <<>> BY <3>1, <3>2
      <3>6. \A i \in DOMAIN s1 : i = Len(s1) => h = s1[i].holds \cup {n} OBVIOUS
      <3> HIDE DEF h
      <3>7. /\ s1' \in Seq(Iris!Bubble) /\ DOMAIN s1' = DOMAIN s1 /\ Len(s1') = Len(s1)
            /\ \A i \in DOMAIN s1 :
                  /\ s1'[i].role = s1[i].role /\ s1'[i].turn = s1[i].turn /\ s1'[i].state = s1[i].state
                  /\ s1'[i].holds = IF i = Len(s1) THEN h ELSE s1[i].holds
        BY <3>1, <3>4, PageRetold
      <3> QED BY <3>5, <3>6, <3>7
    <2> QED BY <2>1, <2>2
  <1>5. Iris!TypeOK' BY <1>1, <1>3, <1>4 DEF Iris!TypeOK, Iris!PageHolds, Iris!None
  <1> HIDE DEF n
  <1>6. Iris!RepliesInPlace'
    <2>1. ASSUME ~s10.switched, NEW i \in DOMAIN s1 PROVE s1'[i].holds \subseteq {s1'[i].turn}
      <3>1. s1[i].holds \subseteq {s1[i].turn} BY <2>1, PageSays
      <3>2. i = Len(s1) => s1[i].turn = n BY <1>1, <2>1, PageSays DEF n
      <3> QED BY <1>4, <3>1, <3>2
    <2> QED BY <1>1, <1>4, <2>1 DEF Iris!RepliesInPlace
  <1>7. Iris!CardsAreTrue' BY <1>1, <1>4, PageSays DEF Iris!CardsAreTrue
  <1>8. Iris!CardsOfPast' BY <1>1, <1>3, <1>4, PageSays DEF Iris!CardsOfPast, n
  <1>9. Iris!OwnBubble'
    <2>1. ASSUME ~s10.switched PROVE s1' # <<>> /\ s1'[Len(s1')].role = "reply" /\ s1'[Len(s1')].turn = n
      <3>1. s1 # <<>> /\ s1[Len(s1)].role = "reply" /\ s1[Len(s1)].turn = n
        BY <1>1, <2>1, PageSays DEF n
      <3>2. Len(s1) \in DOMAIN s1 BY <3>1, PageNumbers, EmptySeq
      <3> QED BY <1>4, <3>1, <3>2
    <2> QED BY <1>1, <1>3, <2>1 DEF Iris!OwnBubble, Iris!LastIsReply
  <1>10. Iris!Loading' BY <1>1, <1>3 DEF Iris!Loading
  <1>11. ~s10'.cut /\ ~s10'.switched => Iris!Streaming'
    BY <1>1, <1>3, <1>4, PageSays DEF Iris!Streaming, Iris!None, n
  <1> QED
    BY <1>1, <1>2, <1>3, <1>5, <1>6, <1>7, <1>8, <1>9, <1>10, <1>11
    DEF Iris!PageHolds, Iris!GoesWhereShown

LEMMA PageDone ==
    ASSUME Iris!PageHolds, NEW carded \in BOOLEAN, NEW said \in BOOLEAN, Iris!Done(carded, said)
    PROVE  Iris!PageHolds'
  <1> DEFINE n == s3.turn
             replaced == IF Iris!LastIsReply
                         THEN IF said THEN [s1 EXCEPT ![Len(s1)].holds = {n}]
                              ELSE SubSeq(s1, 1, Len(s1) - 1)
                         ELSE s1
  <1>1. /\ n # 0 /\ s1' = (IF carded THEN Append(replaced, Iris!Card(n)) ELSE replaced)
        /\ s8' = (IF carded THEN [s8 EXCEPT ![n] = "open"] ELSE s8)
        /\ s7' = [s7 EXCEPT ![s3.conv] = @ \cup {n}]
        /\ s2' = s3.conv /\ s3' = [turn |-> 0, conv |-> 0, text |-> FALSE]
        /\ s4' = s4 /\ s5' = s5 /\ s6' = s6 /\ s9' = s9 /\ s10' = s10
    BY DEF Iris!Done, Iris!Loading, Iris!Idle, Iris!None
  <1>2. n \in 0..MaxTurns /\ n \in 1..MaxTurns /\ n = s4 /\ s3.conv \in Iris!Conv
    BY <1>1, PageNumbers, PageSays
  <1>3. /\ replaced \in Seq(Iris!Bubble) /\ DOMAIN replaced \subseteq DOMAIN s1
        /\ \A i \in DOMAIN replaced :
              /\ replaced[i].role = s1[i].role /\ replaced[i].turn = s1[i].turn
              /\ replaced[i].state = s1[i].state
              /\ replaced[i].holds = s1[i].holds \/ (i = Len(s1) /\ replaced[i].holds = {n})
    <2>1. CASE ~Iris!LastIsReply BY <2>1, PageNumbers
    <2>2. CASE Iris!LastIsReply /\ said
      <3>1. replaced = [s1 EXCEPT ![Len(s1)].holds = {n}] BY <2>2
      <3>2. s1 # <<>> /\ {n} \in SUBSET (0..MaxTurns) BY <1>2, <2>2 DEF Iris!LastIsReply
      <3> HIDE DEF replaced, n
      <3>3. /\ replaced \in Seq(Iris!Bubble) /\ DOMAIN replaced = DOMAIN s1
            /\ \A i \in DOMAIN s1 :
                  /\ replaced[i].role = s1[i].role /\ replaced[i].turn = s1[i].turn
                  /\ replaced[i].state = s1[i].state
                  /\ replaced[i].holds = IF i = Len(s1) THEN {n} ELSE s1[i].holds
        BY <3>1, <3>2, PageRetold
      <3> QED BY <3>3
    <2>3. CASE Iris!LastIsReply /\ ~said
      <3>1. replaced = SubSeq(s1, 1, Len(s1) - 1) /\ s1 # <<>> BY <2>3 DEF Iris!LastIsReply
      <3> HIDE DEF replaced, n
      <3>2. /\ replaced \in Seq(Iris!Bubble) /\ DOMAIN replaced \subseteq DOMAIN s1
            /\ \A i \in DOMAIN replaced : replaced[i] = s1[i]
        BY <3>1, PageShortened
      <3> QED BY <3>2
    <2> QED BY <2>1, <2>2, <2>3
  <1> HIDE DEF replaced
  <1>4. /\ Iris!Card(n) \in Iris!Bubble /\ Iris!Card(n).turn = n /\ Iris!Card(n).holds = {n}
        /\ Iris!Card(n).role = "card" /\ Iris!Card(n).state = "pending"
    BY <1>2, PageBubbles
  <1>5. /\ s1' \in Seq(Iris!Bubble)
        /\ \A i \in DOMAIN s1' : \/ i \in DOMAIN replaced /\ s1'[i] = replaced[i]
                                 \/ carded /\ s1'[i] = Iris!Card(n)
    <2>1. CASE ~carded BY <1>1, <1>3, <2>1
    <2>2. CASE carded
      <3>1. s1' = Append(replaced, Iris!Card(n)) BY <1>1, <2>2
      <3>2. Len(replaced) \in Nat /\ DOMAIN replaced = 1..Len(replaced) BY <1>3, LenProperties
      <3>3. /\ s1' \in Seq(Iris!Bubble) /\ Len(s1') = Len(replaced) + 1
            /\ \A i \in 1..Len(replaced) : s1'[i] = replaced[i]
            /\ s1'[Len(replaced) + 1] = Iris!Card(n)
        BY <1>3, <1>4, <3>1, AppendProperties
      <3>4. DOMAIN s1' = 1..(Len(replaced) + 1) BY <3>3, LenProperties
      <3> QED BY <2>2, <3>2, <3>3, <3>4
    <2> QED BY <2>1, <2>2
  <1>6. s7' \in [Iris!Conv -> SUBSET (0..MaxTurns)] /\ n \in s7'[s3.conv]
        /\ s7[s3.conv] \subseteq s7'[s3.conv]
    BY <1>1, <1>2, PageNumbers
  <1>7. /\ s8' \in [1..MaxTurns -> {"none", "open", "done", "dropped"}]
        /\ \A m \in 1..MaxTurns : m # n => s8'[m] = s8[m]
    BY <1>1, <1>2, PageNumbers
  <1>8. Iris!TypeOK'
    <2>1. s3' \in [turn : 0..MaxTurns, conv : Iris!Conv \cup {0}, text : BOOLEAN]
      BY <1>1, PageNumbers
    <2>2. s2' \in Iris!Conv \cup {0} BY <1>1, <1>2
    <2>3. /\ s4' \in 0..MaxTurns /\ s5' \subseteq Iris!Conv /\ s6' \in 0..MaxOpens
          /\ s9' \subseteq 1..MaxTurns /\ s10' \in [switched : BOOLEAN, cut : BOOLEAN]
      BY <1>1 DEF Iris!PageHolds, Iris!TypeOK, Iris!Turn
    <2> QED BY <1>5, <1>6, <1>7, <2>1, <2>2, <2>3 DEF Iris!TypeOK, Iris!None, Iris!Turn
  <1> HIDE DEF n
  <1>9. Iris!RepliesInPlace'
    <2>1. ASSUME ~s10.switched, NEW i \in DOMAIN s1' PROVE s1'[i].holds \subseteq {s1'[i].turn}
      <3>1. i \in DOMAIN replaced => s1[i].holds \subseteq {s1[i].turn} BY <1>3, <2>1, PageSays
      <3>2. i = Len(s1) => s1[i].turn = n BY <1>1, <2>1, PageSays DEF n
      <3> QED BY <1>3, <1>4, <1>5, <3>1, <3>2
    <2> QED BY <1>1, <2>1 DEF Iris!RepliesInPlace
  <1>10. ASSUME NEW i \in DOMAIN s1', s1'[i].role = "card"
         PROVE  /\ s1'[i].state = "confirmed" => s8'[s1'[i].turn] = "done"
                /\ s1'[i].state = "cancelled" => s8'[s1'[i].turn] = "dropped"
                /\ s1'[i].turn \in 1..s4'
    <2>1. CASE s1'[i] = Iris!Card(n) BY <1>1, <1>2, <1>4, <2>1
    <2>2. CASE i \in DOMAIN replaced /\ s1'[i] = replaced[i]
      <3>1. i \in DOMAIN s1 /\ s1[i].role = "card" /\ s1'[i].turn = s1[i].turn /\ s1'[i].state = s1[i].state
        BY <1>3, <1>10, <2>2
      <3>2. s1[i].turn < n /\ s1[i].turn \in 1..s4 BY <1>1, <3>1, PageSays DEF n
      <3>3. s1[i].turn \in 1..MaxTurns /\ s1[i].turn # n BY <1>2, <3>2, PageNumbers
      <3>4. /\ s1[i].state = "confirmed" => s8[s1[i].turn] = "done"
            /\ s1[i].state = "cancelled" => s8[s1[i].turn] = "dropped"
        BY <3>1, PageSays
      <3>5. s8'[s1[i].turn] = s8[s1[i].turn] BY <1>7, <3>3
      <3> QED BY <1>1, <3>1, <3>2, <3>4, <3>5
    <2> QED BY <1>5, <2>1, <2>2
  <1>11. Iris!CardsAreTrue' BY <1>10 DEF Iris!CardsAreTrue
  <1>12. ~Iris!Loading' BY <1>1 DEF Iris!Loading
  <1>13. Iris!CardsOfPast' BY <1>10, <1>12 DEF Iris!CardsOfPast
  <1>14. Iris!GoesWhereShown'
    <2>1. ASSUME ~s10.cut, ~s10.switched, NEW i \in DOMAIN s1'
          PROVE  s2' # 0 /\ s1'[i].turn \in s7'[s2']
      <3>1. s2' # 0 BY <1>1, <1>2, PageNumbers DEF Iris!Conv
      <3>2. i \in DOMAIN replaced => s1[i].turn = n \/ s1[i].turn \in s7[s3.conv]
        BY <1>1, <1>3, <2>1, PageSays DEF n
      <3> QED BY <1>1, <1>3, <1>4, <1>5, <1>6, <3>1, <3>2
    <2> QED BY <1>1, <2>1 DEF Iris!GoesWhereShown, Iris!None
  <1>15. Iris!OwnBubble' BY <1>12 DEF Iris!OwnBubble
  <1> QED
    BY <1>8, <1>9, <1>11, <1>12, <1>13, <1>14, <1>15 DEF Iris!PageHolds

\* A step that leaves the bubbles or takes the last, and may be a cut.
LEMMA PageCut ==
    ASSUME Iris!PageHolds, NEW failed \in BOOLEAN, NEW kept \in BOOLEAN, Iris!Cut(failed, kept)
    PROVE  Iris!PageHolds'
  <1>1. /\ s3.turn # 0 /\ s3' = [turn |-> 0, conv |-> 0, text |-> FALSE]
        /\ s1' = s1 \/ (s1 # <<>> /\ s1' = SubSeq(s1, 1, Len(s1) - 1))
        /\ s7' = (IF kept THEN [s7 EXCEPT ![s3.conv] = @ \cup {s3.turn}] ELSE s7)
        /\ s10' = [s10 EXCEPT !.cut = TRUE]
        /\ s2' = s2 /\ s4' = s4 /\ s5' = s5 /\ s6' = s6 /\ s8' = s8 /\ s9' = s9
    BY DEF Iris!Cut, Iris!Loading, Iris!Idle, Iris!None, Iris!LastIsReply
  <1>2. s3.turn \in 0..MaxTurns /\ s3.conv \in Iris!Conv BY <1>1, PageNumbers, PageSays
  <1>3. /\ s1' \in Seq(Iris!Bubble) /\ DOMAIN s1' \subseteq DOMAIN s1
        /\ \A i \in DOMAIN s1' : s1'[i] = s1[i]
    <2>1. CASE s1' = s1 BY <2>1, PageNumbers
    <2>2. CASE s1 # <<>> /\ s1' = SubSeq(s1, 1, Len(s1) - 1) BY <2>2, PageShortened
    <2> QED BY <1>1, <2>1, <2>2
  <1>4. s7' \in [Iris!Conv -> SUBSET (0..MaxTurns)] BY <1>1, <1>2, PageNumbers
  <1>5. /\ s10' \in [switched : BOOLEAN, cut : BOOLEAN] /\ s10'.cut
        /\ s10'.switched = s10.switched
    BY <1>1, PageNumbers
  <1>6. s3' \in [turn : 0..MaxTurns, conv : Iris!Conv \cup {0}, text : BOOLEAN]
    BY <1>1, PageNumbers
  <1>7. Iris!TypeOK'
    BY <1>1, <1>3, <1>4, <1>5, <1>6 DEF Iris!TypeOK, Iris!PageHolds, Iris!None, Iris!Turn
  <1>8. ~Iris!Loading' BY <1>1 DEF Iris!Loading
  <1>9. Iris!RepliesInPlace' BY <1>3, <1>5, PageSays DEF Iris!RepliesInPlace
  <1>10. Iris!CardsAreTrue' BY <1>1, <1>3, PageSays DEF Iris!CardsAreTrue
  <1>11. Iris!CardsOfPast' BY <1>1, <1>3, <1>8, PageSays DEF Iris!CardsOfPast
  <1> QED
    BY <1>5, <1>7, <1>8, <1>9, <1>10, <1>11
    DEF Iris!PageHolds, Iris!GoesWhereShown, Iris!OwnBubble

LEMMA PageNewChat == ASSUME Iris!PageHolds, Iris!NewChat PROVE Iris!PageHolds'
  <1>1. /\ s1' = <<>> /\ s2' = 0 /\ s10' = [s10 EXCEPT !.switched = @ \/ s3.turn # 0 \/ s5 # {}]
        /\ s3' = s3 /\ s4' = s4 /\ s5' = s5 /\ s6' = s6 /\ s7' = s7 /\ s8' = s8 /\ s9' = s9
    BY DEF Iris!NewChat, Iris!Loading, Iris!None
  <1>2. s1' \in Seq(Iris!Bubble) /\ DOMAIN s1' = {} BY <1>1
  <1>3. /\ s10' \in [switched : BOOLEAN, cut : BOOLEAN]
        /\ s3.turn # 0 => s10'.switched
    BY <1>1, PageNumbers
  <1>4. Iris!TypeOK' BY <1>1, <1>2, <1>3 DEF Iris!TypeOK, Iris!PageHolds, Iris!None
  <1>5. s3.turn # 0 => s3.turn = s4 /\ s3.conv \in Iris!Conv BY PageSays
  <1> QED
    BY <1>1, <1>2, <1>3, <1>4, <1>5
    DEF Iris!PageHolds, Iris!RepliesInPlace, Iris!GoesWhereShown, Iris!CardsAreTrue,
        Iris!CardsOfPast, Iris!OwnBubble, Iris!Streaming, Iris!Loading

LEMMA PageOpen == ASSUME Iris!PageHolds, NEW c \in Iris!Conv, Iris!Open(c) PROVE Iris!PageHolds'
  <1>1. /\ s6 < MaxOpens /\ s6' = s6 + 1 /\ s5' = s5 \cup {c}
        /\ s10' = [s10 EXCEPT !.switched = @ \/ s5 # {}]
        /\ s1' = s1 /\ s2' = s2 /\ s3' = s3 /\ s4' = s4 /\ s7' = s7 /\ s8' = s8 /\ s9' = s9
    BY DEF Iris!Open
  <1>2. /\ s10' \in [switched : BOOLEAN, cut : BOOLEAN] /\ s10'.cut = s10.cut
        /\ ~s10'.switched => ~s10.switched
    BY <1>1, PageNumbers
  <1>3. s6' \in 0..MaxOpens
    <2>1. s6 \in 0..MaxOpens BY DEF Iris!PageHolds, Iris!TypeOK
    <2> QED BY <1>1, <2>1, PageNumbers
  <1>4. s5' \subseteq Iris!Conv BY <1>1 DEF Iris!PageHolds, Iris!TypeOK
  <1>5. Iris!TypeOK' BY <1>1, <1>2, <1>3, <1>4 DEF Iris!TypeOK, Iris!PageHolds, Iris!None
  <1> QED
    BY <1>1, <1>2, <1>5
    DEF Iris!PageHolds, Iris!RepliesInPlace, Iris!GoesWhereShown, Iris!CardsAreTrue,
        Iris!CardsOfPast, Iris!OwnBubble, Iris!Streaming, Iris!Loading, Iris!LastIsReply

LEMMA PageOpened == ASSUME Iris!PageHolds, NEW c \in Iris!Conv, Iris!Opened(c) PROVE Iris!PageHolds'
  <1>1. /\ s5' = s5 \ {c} /\ s1' = Iris!Exchange(c) /\ s2' = c
        /\ s10' = [s10 EXCEPT !.switched = @ \/ s3.turn # 0]
        /\ s3' = s3 /\ s4' = s4 /\ s6' = s6 /\ s7' = s7 /\ s8' = s8 /\ s9' = s9
    BY DEF Iris!Opened, Iris!Loading
  <1>2. s7[c] \in SUBSET (0..MaxTurns) /\ MaxTurns \in Nat BY PageNumbers
  <1>3. /\ s1' \in Seq(Iris!Bubble)
        /\ \A i \in DOMAIN s1' : /\ s1'[i].role # "card" /\ s1'[i].turn \in s7[c]
                                 /\ s1'[i].holds = {s1'[i].turn}
    BY <1>1, <1>2, PageExchange
  <1>4. /\ s10' \in [switched : BOOLEAN, cut : BOOLEAN]
        /\ s3.turn # 0 => s10'.switched
    BY <1>1, PageNumbers
  <1>5. c # 0 BY <1>2 DEF Iris!Conv
  <1>6. s5' \subseteq Iris!Conv BY <1>1 DEF Iris!PageHolds, Iris!TypeOK
  <1>7. Iris!TypeOK' BY <1>1, <1>3, <1>4, <1>6 DEF Iris!TypeOK, Iris!PageHolds, Iris!None
  <1>8. s3.turn # 0 => s3.turn = s4 /\ s3.conv \in Iris!Conv BY PageSays
  <1>9. Iris!GoesWhereShown' BY <1>1, <1>3, <1>5 DEF Iris!GoesWhereShown, Iris!None
  <1>10. Iris!RepliesInPlace' /\ Iris!CardsAreTrue' /\ Iris!CardsOfPast'
    BY <1>3 DEF Iris!RepliesInPlace, Iris!CardsAreTrue, Iris!CardsOfPast
  <1>11. Iris!Loading' => s10'.switched BY <1>1, <1>4 DEF Iris!Loading
  <1>12. Iris!OwnBubble' BY <1>11 DEF Iris!OwnBubble
  <1>13. Iris!Loading' => s3'.turn = s4' /\ s3'.conv \in Iris!Conv
    BY <1>1, <1>8 DEF Iris!Loading
  <1> QED
    BY <1>7, <1>9, <1>10, <1>11, <1>12, <1>13 DEF Iris!PageHolds

LEMMA PageNotOpened ==
    ASSUME Iris!PageHolds, NEW c \in Iris!Conv, Iris!NotOpened(c) PROVE Iris!PageHolds'
  <1>1. /\ s5' = s5 \ {c} /\ s1' = s1 /\ s2' = s2 /\ s10' = s10
        /\ s3' = s3 /\ s4' = s4 /\ s6' = s6 /\ s7' = s7 /\ s8' = s8 /\ s9' = s9
    BY DEF Iris!NotOpened
  <1>2. s5' \subseteq Iris!Conv BY <1>1 DEF Iris!PageHolds, Iris!TypeOK
  <1>3. Iris!TypeOK' BY <1>1, <1>2 DEF Iris!TypeOK, Iris!PageHolds
  <1> QED
    BY <1>1, <1>3
    DEF Iris!PageHolds, Iris!RepliesInPlace, Iris!GoesWhereShown, Iris!CardsAreTrue,
        Iris!CardsOfPast, Iris!OwnBubble, Iris!Streaming, Iris!Loading, Iris!LastIsReply

\* Marking cards moves no bubble: what is left to show is that they are true.
LEMMA PageMarks ==
    ASSUME Iris!PageHolds, NEW n, NEW st \in {"pending", "working", "confirmed", "cancelled"},
           s1' = Iris!Marked(n, st), UNCHANGED <<s2, s3, s4, s5, s6, s7, s10>>,
           s8' \in [1..MaxTurns -> {"none", "open", "done", "dropped"}], s9' \subseteq 1..MaxTurns,
           Iris!CardsAreTrue'
    PROVE  Iris!PageHolds'
  <1>1. s2' = s2 /\ s3' = s3 /\ s4' = s4 /\ s5' = s5 /\ s6' = s6 /\ s7' = s7 /\ s10' = s10
    OBVIOUS
  <1>2. /\ s1' \in Seq(Iris!Bubble) /\ DOMAIN s1' = DOMAIN s1 /\ Len(s1') = Len(s1)
        /\ \A i \in DOMAIN s1 : /\ s1'[i].role = s1[i].role /\ s1'[i].turn = s1[i].turn
                                /\ s1'[i].holds = s1[i].holds
    BY PageMarked
  <1>3. Iris!TypeOK' BY <1>1, <1>2 DEF Iris!TypeOK, Iris!PageHolds
  <1>4. Iris!RepliesInPlace' BY <1>1, <1>2, PageSays DEF Iris!RepliesInPlace
  <1>5. Iris!GoesWhereShown' BY <1>1, <1>2, PageSays DEF Iris!GoesWhereShown, Iris!Loading, Iris!None
  <1>6. Iris!CardsOfPast' BY <1>1, <1>2, PageSays DEF Iris!CardsOfPast, Iris!Loading
  <1>7. Iris!OwnBubble'
    <2>1. ASSUME s3.turn # 0, ~s10.switched
          PROVE  s1' # <<>> /\ s1'[Len(s1')].role = "reply" /\ s1'[Len(s1')].turn = s3.turn
      <3>1. s1 # <<>> /\ s1[Len(s1)].role = "reply" /\ s1[Len(s1)].turn = s3.turn BY <2>1, PageSays
      <3>2. Len(s1) \in DOMAIN s1 BY <3>1, PageNumbers, EmptySeq
      <3> QED BY <1>2, <3>1, <3>2
    <2> QED BY <1>1, <2>1 DEF Iris!OwnBubble, Iris!LastIsReply, Iris!Loading
  <1>8. s3'.turn # 0 => s3'.turn = s4' /\ s3'.conv \in Iris!Conv BY <1>1, PageSays
  <1>9. s3'.turn # 0 /\ ~s10'.cut /\ ~s10'.switched => Iris!Streaming'
    BY <1>1, <1>2, PageSays DEF Iris!Streaming, Iris!None
  <1> QED BY <1>3, <1>4, <1>5, <1>6, <1>7, <1>8, <1>9 DEF Iris!PageHolds, Iris!Loading

LEMMA PageDecides ==
    ASSUME Iris!PageHolds, NEW n \in 1..MaxTurns, Iris!Decide(n) PROVE Iris!PageHolds'
  <1>1. /\ s1' = Iris!Marked(n, "working") /\ s9' = s9 \cup {n} /\ s8' = s8
        /\ UNCHANGED <<s2, s3, s4, s5, s6, s7, s10>>
    BY DEF Iris!Decide
  <1>2. /\ DOMAIN s1' = DOMAIN s1
        /\ \A i \in DOMAIN s1 : /\ s1'[i].role = s1[i].role /\ s1'[i].turn = s1[i].turn
              /\ s1'[i].state = IF s1[i].role = "card" /\ s1[i].turn = n THEN "working" ELSE s1[i].state
    BY <1>1, PageMarked
  <1>3. Iris!CardsAreTrue' BY <1>1, <1>2, PageSays DEF Iris!CardsAreTrue
  <1>4. s9' \subseteq 1..MaxTurns BY <1>1 DEF Iris!PageHolds, Iris!TypeOK
  <1>5. s8' \in [1..MaxTurns -> {"none", "open", "done", "dropped"}] BY <1>1, PageNumbers
  <1> QED BY <1>1, <1>3, <1>4, <1>5, PageMarks

LEMMA PageDecided ==
    ASSUME Iris!PageHolds, NEW n \in 1..MaxTurns, NEW o \in {"confirmed", "cancelled", "pending"},
           Iris!Decided(n, o)
    PROVE  Iris!PageHolds'
  <1>1. /\ s1' = Iris!Marked(n, o) /\ s9' = s9 \ {n}
        /\ UNCHANGED <<s2, s3, s4, s5, s6, s7, s10>>
        /\ \/ o \in {"confirmed", "cancelled"} /\ s8[n] = "open"
                 /\ s8' = [s8 EXCEPT ![n] = IF o = "confirmed" THEN "done" ELSE "dropped"]
           \/ o = "pending" /\ s8' = s8
           \/ o = "pending" /\ s8[n] = "open" /\ s8' = [s8 EXCEPT ![n] = "done"]
    BY DEF Iris!Decided
  <1>2. /\ DOMAIN s1' = DOMAIN s1
        /\ \A i \in DOMAIN s1 : /\ s1'[i].role = s1[i].role /\ s1'[i].turn = s1[i].turn
              /\ s1'[i].state = IF s1[i].role = "card" /\ s1[i].turn = n THEN o ELSE s1[i].state
    BY <1>1, PageMarked
  <1>3. /\ s8' \in [1..MaxTurns -> {"none", "open", "done", "dropped"}]
        /\ o = "confirmed" => s8'[n] = "done"
        /\ o = "cancelled" => s8'[n] = "dropped"
    BY <1>1, PageNumbers
  <1>4. \A m \in 1..MaxTurns : m # n => s8'[m] = s8[m]
    <2>1. s8' = s8 \/ \E v : s8' = [s8 EXCEPT ![n] = v] BY <1>1
    <2> QED BY <2>1, PageNumbers
  <1>5. ASSUME NEW i \in DOMAIN s1, s1'[i].role = "card"
        PROVE  /\ s1'[i].state = "confirmed" => s8'[s1'[i].turn] = "done"
               /\ s1'[i].state = "cancelled" => s8'[s1'[i].turn] = "dropped"
    <2>1. CASE s1[i].turn = n BY <1>2, <1>3, <1>5, <2>1
    <2>2. CASE s1[i].turn # n
      <3>1. s1[i].turn \in 1..s4 BY <1>2, <1>5, PageSays
      <3>2. s1[i].turn \in 1..MaxTurns BY <3>1, PageNumbers
      <3> QED BY <1>2, <1>4, <1>5, <2>2, <3>2, PageSays
    <2> QED BY <2>1, <2>2
  <1>6. Iris!CardsAreTrue' BY <1>2, <1>5 DEF Iris!CardsAreTrue
  <1>7. s9' \subseteq 1..MaxTurns BY <1>1 DEF Iris!PageHolds, Iris!TypeOK
  <1> QED BY <1>1, <1>3, <1>6, <1>7, PageMarks

LEMMA PageNextKeeps == ASSUME Iris!PageHolds, Iris!Next PROVE Iris!PageHolds'
  BY PageSend, PageDelta, PageNewChat, PageDone, PageCut, PageOpen, PageOpened, PageNotOpened,
     PageDecides, PageDecided, Zenon DEF Iris!Next

LEMMA PageTold ==
    ASSUME Iris!PageHolds
    PROVE  Iris!TypeOK /\ Iris!RepliesInPlace /\ Iris!GoesWhereShown /\ Iris!CardsAreTrue
  BY DEF Iris!PageHolds

-----------------------------------------------------------------------------
(* The lists.                                                                  *)

\* What the pages have in common: only a page that reloads neither late nor
\* quietly drops answers, and each has a way to fail.
ListPage(p) ==
    /\ p.drops \in BOOLEAN /\ p.spins \in BOOLEAN /\ p.blanks \in BOOLEAN
    /\ p.drops => p.again = "none"
    /\ p.fails \in {"error", "empty", "message", "blank", "waits"}
    /\ p.again \in {"none", "quiet", "late"}
LEMMA ListPagesSay == ASSUME NEW p \in Lists!Pages PROVE ListPage(p)
  <1>1. ListPage(Lists!TaxpayersPage)
    BY DEF ListPage, Lists!TaxpayersPage, Lists!Plain
  <1>2. ListPage(Lists!CasesPage)
    BY DEF ListPage, Lists!CasesPage, Lists!Plain
  <1>3. ListPage(Lists!DataRecordsPage)
    BY DEF ListPage, Lists!DataRecordsPage, Lists!Plain
  <1>4. ListPage(Lists!SubmissionsPage)
    BY DEF ListPage, Lists!SubmissionsPage, Lists!Plain
  <1>5. ListPage(Lists!AuditPage)
    BY DEF ListPage, Lists!AuditPage, Lists!Plain
  <1>6. ListPage(Lists!FlaggedPage)
    BY DEF ListPage, Lists!FlaggedPage, Lists!Plain
  <1>7. ListPage(Lists!SignalsPage)
    BY DEF ListPage, Lists!SignalsPage, Lists!Plain
  <1>8. ListPage(Lists!LinkagePage)
    BY DEF ListPage, Lists!LinkagePage, Lists!Plain
  <1>9. ListPage(Lists!UsersPage)
    BY DEF ListPage, Lists!UsersPage, Lists!Plain
  <1>10. ListPage(Lists!DeclaredPage)
    BY DEF ListPage, Lists!DeclaredPage, Lists!Plain
  <1>11. ListPage(Lists!ScansPage)
    BY DEF ListPage, Lists!ScansPage, Lists!Plain
  <1>12. ListPage(Lists!TaxNetPage)
    BY DEF ListPage, Lists!TaxNetPage, Lists!Plain
  <1>13. ListPage(Lists!FilingsPage)
    BY DEF ListPage, Lists!FilingsPage, Lists!Plain
  <1>14. ListPage(Lists!ReferralsPage)
    BY DEF ListPage, Lists!ReferralsPage, Lists!Plain
  <1>15. ListPage(Lists!QualityPage)
    BY DEF ListPage, Lists!QualityPage, Lists!LinkagePage, Lists!Plain
  <1>16. ListPage(Lists!AnalyticsPage)
    BY DEF ListPage, Lists!AnalyticsPage, Lists!LinkagePage, Lists!Plain
  <1>17. ListPage(Lists!MetricsPage)
    BY DEF ListPage, Lists!MetricsPage, Lists!LinkagePage, Lists!Plain
  <1>18. ListPage(Lists!GovernancePage)
    BY DEF ListPage, Lists!GovernancePage, Lists!LinkagePage, Lists!Plain
  <1>19. ListPage(Lists!ProvidersPage)
    BY DEF ListPage, Lists!ProvidersPage, Lists!LinkagePage, Lists!Plain
  <1>20. ListPage(Lists!CompliancePage)
    BY DEF ListPage, Lists!CompliancePage, Lists!LinkagePage, Lists!Plain
  <1>21. ListPage(Lists!PenaltyList)
    BY DEF ListPage, Lists!PenaltyList, Lists!ReferralsPage, Lists!Plain
  <1>22. ListPage(Lists!DashboardPage)
    BY DEF ListPage, Lists!DashboardPage, Lists!LinkagePage, Lists!Plain
  <1>23. ListPage(Lists!TopCases)
    BY DEF ListPage, Lists!TopCases, Lists!LinkagePage, Lists!Plain
  <1>24. ListPage(Lists!AgentsPanel)
    BY DEF ListPage, Lists!AgentsPanel, Lists!ReferralsPage, Lists!Plain
  <1> QED
    BY <1>1, <1>2, <1>3, <1>4, <1>5, <1>6, <1>7, <1>8, <1>9, <1>10, <1>11, <1>12, <1>13, <1>14, <1>15, <1>16, <1>17, <1>18, <1>19, <1>20, <1>21, <1>22, <1>23, <1>24, Zenon DEF Lists!Pages

LEMMA ListSets ==
    \A S : Lists!IsFiniteSet(S) = IsFiniteSet(S) /\ Lists!Cardinality(S) = Cardinality(S)
  <1>1. \A S : Lists!IsFiniteSet(S) = IsFiniteSet(S) BY DEF IsFiniteSet, Lists!IsFiniteSet
  <1>2. \A S : Lists!Cardinality(S) = Cardinality(S) BY DEF Cardinality, Lists!Cardinality
  <1> QED BY <1>1, <1>2

LEMMA ListNumbers ==
    /\ Row \subseteq Nat /\ IsFiniteSet(Row) /\ Cardinality(Row) \in Nat
    /\ Limit \in Nat \ {0} /\ ListAsks \in Nat \ {0}
  <1>1. Row \subseteq Nat /\ IsFiniteSet(Row) /\ Limit \in Nat \ {0} /\ ListAsks \in Nat \ {0}
    BY ListConstants, ListSets DEF Lists!ListAssumption
  <1> QED BY <1>1, FS_CardinalityType

\* What the invariant says, by the names the proofs use.
LEMMA ListTypes ==
    ASSUME Lists!ListHolds
    PROVE  /\ s1 \in Lists!Pages /\ ListPage(s1) /\ s2 \in Lists!Question /\ s3 \in Text \cup {All}
           /\ s4 \subseteq Lists!Request /\ s5 \in 1..ListAsks /\ s5 \in Nat
           /\ s6 \in Lists!Answer \cup {Nothing} /\ s7 \in BOOLEAN /\ s8 \in BOOLEAN
           /\ s9 \subseteq Row /\ s10 \in Lists!Question \cup {Nothing} /\ s11 \in BOOLEAN
           /\ s10 # Nothing => s1.again = "late"
           /\ \A r \in s4 : r.n \in 1..ListAsks /\ r.n <= s5 /\ r.q \in Lists!Question /\ r.quiet \in BOOLEAN
  <1>1. s1 \in Lists!Pages BY DEF Lists!ListHolds, Lists!TypeOK
  <1>2. ListPage(s1) BY <1>1, ListPagesSay
  <1>3. s5 \in Nat BY ListNumbers DEF Lists!ListHolds, Lists!TypeOK
  <1>4. \A r \in s4 : r.n \in 1..ListAsks /\ r.n <= s5 /\ r.q \in Lists!Question /\ r.quiet \in BOOLEAN
    BY DEF Lists!ListHolds, Lists!TypeOK, Lists!Request
  <1> QED BY <1>1, <1>2, <1>3, <1>4 DEF Lists!ListHolds, Lists!TypeOK

\* The first page of a question that keeps rows is not empty: the least is there.
LEMMA FirstPageHasOne ==
    ASSUME s9 \subseteq Row, NEW q, q.num = 1, Lists!Kept(q) # {}
    PROVE  Lists!OnPage(q) # {}
  <1> DEFINE S == Lists!Kept(q)
  <1>1. S \in SUBSET Nat BY ListNumbers DEF Lists!Kept
  <1>2. PICK x \in S : \A y \in S : x <= y
    <2> HIDE DEF S
    <2> QED BY <1>1, LeastOfNaturals DEF S
  <1>3. {s \in S : s < x} = {} BY <1>1, <1>2
  <1>4. Lists!Before(x, S) = 0 BY <1>3, ListSets, FS_EmptySet DEF Lists!Before
  <1>5. 0 \div Limit = 0 /\ q.num - 1 = 0 BY ListNumbers
  <1> QED BY <1>2, <1>4, <1>5 DEF Lists!OnPage

\* What an answer holds is an answer.
LEMMA AnswerIsOne ==
    ASSUME s9 \subseteq Row, NEW r, r.n \in 1..ListAsks, r.q \in Lists!Question
    PROVE  /\ [n |-> r.n, q |-> r.q, ids |-> Lists!OnPage(r.q), total |-> Lists!Cardinality(Lists!Kept(r.q))]
                 \in Lists!Answer
           /\ [n |-> r.n, q |-> r.q, ids |-> {}, total |-> 0] \in Lists!Answer
  <1>1. Lists!Kept(r.q) \in SUBSET Row BY DEF Lists!Kept
  <1>2. Lists!OnPage(r.q) \in SUBSET Row BY <1>1 DEF Lists!OnPage
  <1>3. /\ Cardinality(Lists!Kept(r.q)) \in Nat
        /\ Cardinality(Lists!Kept(r.q)) <= Cardinality(Row)
    BY <1>1, ListNumbers, FS_Subset, FS_CardinalityType
  <1>4. Lists!Cardinality(Lists!Kept(r.q)) \in 0..Lists!Cardinality(Row)
    BY <1>3, ListSets, ListNumbers
  <1>5. 0 \in 0..Lists!Cardinality(Row) BY ListSets, ListNumbers
  <1> QED BY <1>2, <1>4, <1>5 DEF Lists!Answer

LEMMA ListInit == ASSUME Lists!Init PROVE Lists!ListHolds
  <1>1. /\ s1 \in Lists!Pages /\ s2 = [filter |-> All, text |-> All, num |-> 1] /\ s3 = All
        /\ s4 = {[n |-> 1, q |-> s2, quiet |-> FALSE]} /\ s5 = 1 /\ s6 = Nothing /\ s7 = FALSE
        /\ s8 = s1.spins /\ s9 = Row /\ s10 = Nothing /\ s11 = FALSE
    BY DEF Lists!Init
  <1>2. s2 \in Lists!Question BY <1>1 DEF Lists!Question
  <1>3. s5 \in 1..ListAsks BY <1>1, ListNumbers
  <1>4. s4 \subseteq Lists!Request BY <1>1, <1>2, <1>3 DEF Lists!Request
  <1>5. s8 \in BOOLEAN BY <1>1, ListPagesSay DEF ListPage
  <1>6. Lists!TypeOK BY <1>1, <1>2, <1>3, <1>4, <1>5 DEF Lists!TypeOK
  <1>7. \A r \in s4 : r.n = 1 /\ r.q = s2 /\ r.quiet = FALSE BY <1>1
  <1>8. s4 # {} BY <1>1
  <1>9. Lists!Awaited(1) BY <1>7, <1>8 DEF Lists!Awaited
  <1>10. Lists!AskedLast(1) /\ Lists!AnswersControls(1)
    BY <1>1, <1>7, <1>9 DEF Lists!AskedLast, Lists!AnswersControls
  <1>11. 1 \in 1..s5 /\ \A r \in s4 : r.n <= s5 BY <1>1, <1>7
  <1> QED BY <1>1, <1>6, <1>10, <1>11 DEF Lists!ListHolds

\* Asking leaves the page waiting for its last question, which is the one the
\* controls ask, unless the page is one that reloads late.
LEMMA ListAsking ==
    ASSUME Lists!ListHolds, NEW qs, NEW len \in {1, 2}, Len(qs) = len, DOMAIN qs = 1..len,
           \A i \in 1..len : qs[i] \in Lists!Question, Lists!Asking(qs),
           s2' \in Lists!Question, s3' \in Text \cup {All}, s10' = s10 \/ s10' = Nothing,
           s11' \in BOOLEAN, s2' = qs[len] \/ (s11' /\ ~s1.drops)
    PROVE  Lists!ListHolds'
  <1>1. /\ s5 + len <= ListAsks /\ s5' = s5 + len
        /\ s4' = s4 \cup {[n |-> s5 + i, q |-> qs[i], quiet |-> FALSE] : i \in 1..len}
        /\ s6' = (IF s1.blanks THEN Nothing ELSE s6) /\ s7' = (s7 /\ s1.clears # "asking")
        /\ s8' = s1.spins /\ s1' = s1 /\ s9' = s9
    BY DEF Lists!Asking
  <1>2. s5 \in Nat /\ len \in Nat /\ s5' \in Nat /\ s5' \in 1..ListAsks /\ len \in 1..len
    BY <1>1, ListTypes, ListNumbers
  <1> DEFINE new(i) == [n |-> s5 + i, q |-> qs[i], quiet |-> FALSE]
  <1>3. ASSUME NEW i \in 1..len
        PROVE  /\ new(i) \in Lists!Request /\ new(i).n = s5 + i /\ new(i).q = qs[i] /\ ~new(i).quiet
               /\ s5 + i <= s5' /\ (s5 + i >= s5' => i = len)
    <2>1. s5 + i \in 1..ListAsks /\ s5 + i <= s5' /\ (s5 + i >= s5' => i = len)
      BY <1>1, <1>2, ListNumbers
    <2> QED BY <2>1 DEF Lists!Request
  <1>4. s4' = s4 \cup {new(i) : i \in 1..len} BY <1>1
  <1>5. new(len) \in s4' BY <1>2, <1>4
  <1> HIDE DEF new
  <1>6. ASSUME NEW r \in s4'
        PROVE  /\ r \in Lists!Request /\ r.n <= s5'
               /\ r.n >= s5' => r.q = qs[len] /\ ~r.quiet
    <2>1. CASE r \in s4
      <3>1. r.n <= s5 /\ r.n \in Nat /\ r \in Lists!Request BY <2>1, ListTypes, ListNumbers
      <3>2. r.n <= s5' /\ ~(r.n >= s5') BY <1>1, <1>2, <3>1
      <3> QED BY <3>1, <3>2
    <2>2. CASE \E i \in 1..len : r = new(i)
      <3>1. PICK i \in 1..len : r = new(i) BY <2>2
      <3>2. /\ r \in Lists!Request /\ r.n = s5 + i /\ r.q = qs[i] /\ ~r.quiet
            /\ s5 + i <= s5' /\ (s5 + i >= s5' => i = len)
        BY <1>3, <3>1
      <3> QED BY <3>2
    <2> QED BY <1>4, <2>1, <2>2
  <1>7. new(len).n = s5' BY <1>1, <1>2, <1>3
  <1>9. s5' \in 1..s5' BY <1>2
  <1>10. Lists!TypeOK'
    <2>1. s7' \in BOOLEAN /\ s8' \in BOOLEAN BY <1>1, ListTypes DEF ListPage
    <2>2. s6' \in Lists!Answer \cup {Nothing} BY <1>1, ListTypes
    <2>3. s10' \in Lists!Question \cup {Nothing} BY ListTypes
    <2>4. s1' \in Lists!Pages /\ s9' \subseteq Row BY <1>1, ListTypes
    <2>5. s4' \subseteq Lists!Request BY <1>6
    <2> QED BY <1>2, <2>1, <2>2, <2>3, <2>4, <2>5 DEF Lists!TypeOK
  <1>11. s10' # Nothing => s1'.again = "late" BY <1>1, ListTypes
  <1>12. ASSUME NEW m, m = s5' PROVE Lists!AskedLast(m)'
    <2>1. \A r \in s4' : (r.n > m => r.quiet) /\ (r.n = m => ~r.quiet)
      <3>1. ASSUME NEW r \in s4' PROVE (r.n > m => r.quiet) /\ (r.n = m => ~r.quiet)
        <4>1. r.n \in Nat BY <1>6, ListNumbers DEF Lists!Request
        <4> QED BY <1>2, <1>6, <1>12, <4>1
      <3> QED BY <3>1
    <2>2. \E r \in s4' : r.n = m BY <1>5, <1>7, <1>12
    <2> QED BY <1>12, <2>1, <2>2 DEF Lists!AskedLast, Lists!Awaited
  <1>13. ASSUME NEW m, m = s5', s2' = qs[len] PROVE Lists!AnswersControls(m)'
    <2>1. \A r \in s4' : r.n >= m => r.q = s2' BY <1>6, <1>13
    <2>2. \E r \in s4' : r.n = m BY <1>5, <1>7, <1>13
    <2> QED BY <2>1, <2>2 DEF Lists!AnswersControls, Lists!Awaited
  <1>14. PICK m \in 1..s5' : m = s5' BY <1>9
  <1>15. Lists!AskedLast(m)' BY <1>12, <1>14
  <1>16. (s11' /\ ~s1'.drops) \/ Lists!AnswersControls(m)' BY <1>1, <1>13, <1>14
  <1>17. \A r \in s4' : r.n <= s5' BY <1>6
  <1> QED BY <1>10, <1>11, <1>14, <1>15, <1>16, <1>17 DEF Lists!ListHolds

\* The questions a handler sends: one, or the page it shows and then the first.
LEMMA ListTurnsBack ==
    ASSUME NEW q \in Lists!Question
    PROVE  /\ [q EXCEPT !.num = 1] \in Lists!Question
           /\ LET qs == Lists!FromPageOne(q)
              IN  \E len \in {1, 2} : /\ Len(qs) = len /\ DOMAIN qs = 1..len
                                      /\ \A i \in 1..len : qs[i] \in Lists!Question
                                      /\ qs[len] = [q EXCEPT !.num = 1]
  <1>1. [q EXCEPT !.num = 1] \in Lists!Question BY DEF Lists!Question
  <1>2. CASE q.num = 1
    <2>1. [q EXCEPT !.num = 1] = q BY <1>2 DEF Lists!Question
    <2>2. Lists!FromPageOne(q) = <<q>> BY <1>2 DEF Lists!FromPageOne
    <2>3. Len(<<q>>) = 1 /\ DOMAIN <<q>> = 1..1 /\ <<q>>[1] = q OBVIOUS
    <2> QED BY <1>1, <2>1, <2>2, <2>3
  <1>3. CASE q.num # 1
    <2> DEFINE p == [q EXCEPT !.num = 1]
    <2>1. Lists!FromPageOne(q) = <<q, p>> BY <1>3 DEF Lists!FromPageOne
    <2> HIDE DEF p
    <2>2. Len(<<q, p>>) = 2 /\ DOMAIN <<q, p>> = 1..2 /\ <<q, p>>[1] = q /\ <<q, p>>[2] = p OBVIOUS
    <2> QED BY <1>1, <2>1, <2>2 DEF p
  <1> QED BY <1>1, <1>2, <1>3

LEMMA ListAsksBack ==
    ASSUME Lists!ListHolds, NEW q \in Lists!Question, Lists!Asking(Lists!FromPageOne(q)),
           s2' = [q EXCEPT !.num = 1], s3' \in Text \cup {All}, s10' = s10, s11' = s11
    PROVE  Lists!ListHolds'
  <1> DEFINE qs == Lists!FromPageOne(q)
  <1>1. PICK len \in {1, 2} : /\ Len(qs) = len /\ DOMAIN qs = 1..len
                              /\ \A i \in 1..len : qs[i] \in Lists!Question
                              /\ qs[len] = [q EXCEPT !.num = 1]
    BY ListTurnsBack
  <1>2. s2' \in Lists!Question BY ListTurnsBack
  <1>3. s11' \in BOOLEAN BY ListTypes
  <1>4. Lists!Asking(qs) OBVIOUS
  <1> HIDE DEF qs
  <1> QED BY <1>1, <1>2, <1>3, <1>4, ListAsking

LEMMA ListAsksOne ==
    ASSUME Lists!ListHolds, NEW q \in Lists!Question, Lists!Asking(<<q>>),
           s2' \in Lists!Question, s3' \in Text \cup {All}, s10' = s10 \/ s10' = Nothing,
           s11' \in BOOLEAN, s2' = q \/ (s11' /\ ~s1.drops)
    PROVE  Lists!ListHolds'
  <1> DEFINE qs == <<q>>
  <1>1. Len(qs) = 1 /\ DOMAIN qs = 1..1 /\ qs[1] = q /\ Lists!Asking(qs) OBVIOUS
  <1> HIDE DEF qs
  <1>2. \A i \in 1..1 : qs[i] \in Lists!Question BY <1>1
  <1>3. s2' = qs[1] \/ (s11' /\ ~s1.drops) BY <1>1
  <1> QED BY <1>1, <1>2, <1>3, ListAsking

LEMMA ListQuestions ==
    ASSUME Lists!ListHolds, NEW x \in Text \cup {All}
    PROVE  /\ [s2 EXCEPT !.text = x] \in Lists!Question
           /\ [s2 EXCEPT !.text = x].filter = s2.filter
           /\ \A f \in Kind \cup {All} : [s2 EXCEPT !.filter = f, !.text = x] \in Lists!Question
           /\ \A num \in Nat \ {0} : [s2 EXCEPT !.num = num, !.text = x] \in Lists!Question
           /\ s2.text \in Text \cup {All}
  <1>1. s2 \in Lists!Question BY ListTypes
  <1> QED BY <1>1 DEF Lists!Question

LEMMA ListChooses ==
    ASSUME Lists!ListHolds, NEW f \in Kind \cup {All}, Lists!ChooseFilter(f)
    PROVE  Lists!ListHolds'
  <1> DEFINE q == [s2 EXCEPT !.filter = f, !.text = IF s1.search = "apply" THEN s3 ELSE s2.text]
  <1>1. /\ Lists!Asking(<<[q EXCEPT !.num = 1]>>) \/ Lists!Asking(Lists!FromPageOne(q))
        /\ s2' = [q EXCEPT !.num = 1] /\ s3' = s3 /\ s10' = s10 /\ s11' = s11
    BY DEF Lists!ChooseFilter
  <1>2. (IF s1.search = "apply" THEN s3 ELSE s2.text) \in Text \cup {All}
    BY ListTypes, ListQuestions
  <1>3. q \in Lists!Question BY <1>2, ListQuestions
  <1> HIDE DEF q
  <1>4. [q EXCEPT !.num = 1] \in Lists!Question BY <1>3, ListTurnsBack
  <1>5. s3' \in Text \cup {All} /\ s11' \in BOOLEAN BY <1>1, ListTypes
  <1>6. CASE Lists!Asking(Lists!FromPageOne(q)) BY <1>1, <1>3, <1>5, <1>6, ListAsksBack
  <1>7. CASE Lists!Asking(<<[q EXCEPT !.num = 1]>>) BY <1>1, <1>4, <1>5, <1>7, ListAsksOne
  <1> QED BY <1>1, <1>6, <1>7

\* Nothing that is asked or shown moves.
LEMMA ListRests ==
    ASSUME Lists!ListHolds, s3' \in Text \cup {All},
           s10' \in Lists!Question \cup {Nothing}, s10' # Nothing => s1.again = "late",
           UNCHANGED <<s1, s2, s4, s5, s6, s7, s8, s9, s11>>
    PROVE  Lists!ListHolds'
  BY DEF Lists!ListHolds, Lists!TypeOK, Lists!AskedLast, Lists!AnswersControls, Lists!Awaited,
         Lists!Emptied, Lists!Kept

LEMMA ListTypesText ==
    ASSUME Lists!ListHolds, NEW x \in Text \cup {All}, Lists!Type(x) PROVE Lists!ListHolds'
  <1>1. CASE s1.search = "blur"
    <2> DEFINE q == [s2 EXCEPT !.text = x]
    <2>1. Lists!Asking(<<q>>) /\ s2' = q /\ s3' = x /\ s10' = s10 /\ s11' = s11
      BY <1>1 DEF Lists!Type
    <2>2. q \in Lists!Question BY ListQuestions
    <2>3. s11' \in BOOLEAN BY <2>1, ListTypes
    <2> HIDE DEF q
    <2> QED BY <2>1, <2>2, <2>3, ListAsksOne
  <1>2. CASE s1.search # "blur"
    <2>1. s3' = x /\ s10' = s10 /\ UNCHANGED <<s1, s2, s4, s5, s6, s7, s8, s9, s11>>
      BY <1>2 DEF Lists!Type
    <2>2. s10' \in Lists!Question \cup {Nothing} /\ (s10' # Nothing => s1.again = "late")
      BY <2>1, ListTypes
    <2> QED BY <2>1, <2>2, ListRests
  <1> QED BY <1>1, <1>2

LEMMA ListApplies ==
    ASSUME Lists!ListHolds, Lists!Apply \/ Lists!Debounced PROVE Lists!ListHolds'
  <1> DEFINE q == [s2 EXCEPT !.text = s3]
  <1>1. /\ Lists!Asking(Lists!FromPageOne(q)) /\ s2' = [q EXCEPT !.num = 1]
        /\ s3' = s3 /\ s10' = s10 /\ s11' = s11
    BY DEF Lists!Apply, Lists!Debounced
  <1>2. s3 \in Text \cup {All} BY ListTypes
  <1>3. q \in Lists!Question BY <1>2, ListQuestions
  <1> HIDE DEF q
  <1> QED BY <1>1, <1>2, <1>3, ListAsksBack

LEMMA ListTurns ==
    ASSUME Lists!ListHolds, NEW num \in 1..Lists!Cardinality(Row), Lists!Turn(num)
    PROVE  Lists!ListHolds'
  <1> DEFINE q == [s2 EXCEPT !.num = num, !.text = IF s1.search = "apply" THEN s3 ELSE s2.text]
  <1>1. Lists!Asking(<<q>>) /\ s2' = q /\ s3' = s3 /\ s10' = s10 /\ s11' = s11
    BY DEF Lists!Turn
  <1>2. (IF s1.search = "apply" THEN s3 ELSE s2.text) \in Text \cup {All}
    BY ListTypes, ListQuestions
  <1>3. num \in Nat \ {0} BY ListSets, ListNumbers
  <1>4. q \in Lists!Question BY <1>2, <1>3, ListQuestions
  <1>5. s3' \in Text \cup {All} /\ s11' \in BOOLEAN BY <1>1, ListTypes
  <1> HIDE DEF q
  <1> QED BY <1>1, <1>4, <1>5, ListAsksOne

LEMMA ListRetries == ASSUME Lists!ListHolds, Lists!Retry PROVE Lists!ListHolds'
  <1> DEFINE q == [s2 EXCEPT !.text = IF s1.search = "apply" THEN s3 ELSE s2.text]
  <1>1. Lists!Asking(<<q>>) /\ s2' = q /\ s3' = s3 /\ s10' = s10 /\ s11' = s11
    BY DEF Lists!Retry
  <1>2. (IF s1.search = "apply" THEN s3 ELSE s2.text) \in Text \cup {All}
    BY ListTypes, ListQuestions
  <1>3. q \in Lists!Question BY <1>2, ListQuestions
  <1>4. s3' \in Text \cup {All} /\ s11' \in BOOLEAN BY <1>1, ListTypes
  <1> HIDE DEF q
  <1> QED BY <1>1, <1>3, <1>4, ListAsksOne

LEMMA ListActs == ASSUME Lists!ListHolds, Lists!Act PROVE Lists!ListHolds'
  <1>1. /\ s1.again = "late" /\ s10' = s2 /\ s3' = s3
        /\ UNCHANGED <<s1, s2, s4, s5, s6, s7, s8, s9, s11>>
    BY DEF Lists!Act
  <1> QED BY <1>1, ListTypes, ListRests

LEMMA ListActed == ASSUME Lists!ListHolds, Lists!Acted PROVE Lists!ListHolds'
  <1>1. /\ s10 # Nothing /\ s10' = Nothing /\ Lists!Asking(<<s10>>)
        /\ s11' = (s11 \/ s10 # s2) /\ s2' = s2 /\ s3' = s3
    BY DEF Lists!Acted
  <1>2. s10 \in Lists!Question /\ s1.again = "late" BY <1>1, ListTypes
  <1>3. ~s1.drops BY <1>2, ListTypes DEF ListPage
  <1>4. s2' \in Lists!Question /\ s3' \in Text \cup {All} /\ s11' \in BOOLEAN BY <1>1, ListTypes
  <1>5. s2' = s10 \/ (s11' /\ ~s1.drops) BY <1>1, <1>3
  <1> QED BY <1>1, <1>2, <1>4, <1>5, ListAsksOne

\* The request the reader made last, in the words of the invariant.
LEMMA ListAwaits ==
    ASSUME Lists!ListHolds
    PROVE  \E m \in 1..s5 :
             /\ \A r \in s4 : (r.n > m => r.quiet) /\ (r.n = m => ~r.quiet)
             /\ s1.drops => m = s5
             /\ (\E r \in s4 : r.n = m) \/ s7 \/ s1.fails = "empty" \/ ~Lists!Emptied
             /\ \/ s11 /\ ~s1.drops
                \/ /\ \A r \in s4 : r.n >= m => r.q = s2
                   /\ (\E r \in s4 : r.n = m) \/ s7 \/ s6 = Nothing \/ s6.q = s2
  BY DEF Lists!ListHolds, Lists!AskedLast, Lists!AnswersControls, Lists!Awaited

LEMMA ListAssembles ==
    ASSUME Lists!ListHolds, UNCHANGED <<s1, s2, s3, s10>>, NEW m \in 1..s5', s5' \in 1..ListAsks,
           s6' \in Lists!Answer \cup {Nothing}, s7' \in BOOLEAN, s8' \in BOOLEAN, s9' \subseteq Row,
           s11' \in BOOLEAN,
           \A r \in s4' : r \in Lists!Request /\ r.n <= s5' /\ (r.n > m => r.quiet) /\ (r.n = m => ~r.quiet),
           s1.drops => m = s5',
           (\E r \in s4' : r.n = m) \/ s7' \/ s1.fails = "empty" \/ ~Lists!Emptied',
           \/ s11' /\ ~s1.drops
           \/ /\ \A r \in s4' : r.n >= m => r.q = s2
              /\ (\E r \in s4' : r.n = m) \/ s7' \/ s6' = Nothing \/ s6'.q = s2
    PROVE  Lists!ListHolds'
  <1>1. s4' \subseteq Lists!Request OBVIOUS
  <1>2. s1' = s1 /\ s2' = s2 /\ s3' = s3 /\ s10' = s10 OBVIOUS
  <1>3. Lists!TypeOK' BY <1>1, <1>2 DEF Lists!ListHolds, Lists!TypeOK
  <1>4. Lists!AskedLast(m)' BY <1>2 DEF Lists!AskedLast, Lists!Awaited
  <1>5. (s11' /\ ~s1'.drops) \/ Lists!AnswersControls(m)'
    BY <1>2 DEF Lists!AnswersControls, Lists!Awaited
  <1>6. s10' # Nothing => s1'.again = "late" BY <1>2, ListTypes
  <1> QED BY <1>3, <1>4, <1>5, <1>6 DEF Lists!ListHolds

LEMMA ListRefreshes == ASSUME Lists!ListHolds, Lists!Refresh PROVE Lists!ListHolds'
  <1> DEFINE new == [n |-> s5 + 1, q |-> s2, quiet |-> TRUE]
  <1>1. /\ s1.again = "quiet" /\ s5 < ListAsks /\ s5' = s5 + 1 /\ s4' = s4 \cup {new}
        /\ s1' = s1 /\ s2' = s2 /\ s3' = s3 /\ s6' = s6 /\ s7' = s7 /\ s8' = s8 /\ s9' = s9
        /\ s10' = s10 /\ s11' = s11
    BY DEF Lists!Refresh
  <1>2. ~s1.drops BY <1>1, ListTypes DEF ListPage
  <1>3. s5' \in 1..ListAsks /\ s5 \in Nat BY <1>1, ListTypes, ListNumbers
  <1>4. new \in Lists!Request /\ new.n = s5 + 1 /\ new.q = s2 /\ new.quiet
    BY <1>1, <1>3, ListTypes DEF Lists!Request
  <1> HIDE DEF new
  <1>5. PICK m \in 1..s5 :
             /\ \A r \in s4 : (r.n > m => r.quiet) /\ (r.n = m => ~r.quiet)
             /\ s1.drops => m = s5
             /\ (\E r \in s4 : r.n = m) \/ s7 \/ s1.fails = "empty" \/ ~Lists!Emptied
             /\ \/ s11 /\ ~s1.drops
                \/ /\ \A r \in s4 : r.n >= m => r.q = s2
                   /\ (\E r \in s4 : r.n = m) \/ s7 \/ s6 = Nothing \/ s6.q = s2
    BY ListAwaits
  <1>6. m \in 1..s5' /\ m < s5 + 1 BY <1>1, <1>3
  <1>7. ASSUME NEW r \in s4'
        PROVE  /\ r \in Lists!Request /\ r.n <= s5' /\ (r.n > m => r.quiet) /\ (r.n = m => ~r.quiet)
               /\ (\A x \in s4 : x.n >= m => x.q = s2) => (r.n >= m => r.q = s2)
    <2>1. CASE r \in s4
      <3>1. r.n <= s5 /\ r.n \in 1..ListAsks /\ r \in Lists!Request BY <2>1, ListTypes
      <3> QED BY <1>1, <1>3, <1>5, <2>1, <3>1
    <2>2. CASE r = new BY <1>1, <1>3, <1>4, <1>6, <2>2
    <2> QED BY <1>1, <2>1, <2>2
  <1>8. Lists!Emptied' <=> Lists!Emptied BY <1>1 DEF Lists!Emptied, Lists!Kept
  <1>9. (\E r \in s4 : r.n = m) => (\E r \in s4' : r.n = m) BY <1>1
  <1>10. /\ s6' \in Lists!Answer \cup {Nothing} /\ s7' \in BOOLEAN /\ s8' \in BOOLEAN
         /\ s9' \subseteq Row /\ s11' \in BOOLEAN
    BY <1>1, ListTypes
  <1>11. UNCHANGED <<s1, s2, s3, s10>> BY <1>1
  <1>12. (\E r \in s4' : r.n = m) \/ s7' \/ s1.fails = "empty" \/ ~Lists!Emptied'
    BY <1>1, <1>5, <1>8, <1>9
  <1>13. \/ s11' /\ ~s1.drops
         \/ /\ \A r \in s4' : r.n >= m => r.q = s2
            /\ (\E r \in s4' : r.n = m) \/ s7' \/ s6' = Nothing \/ s6'.q = s2
    BY <1>1, <1>5, <1>7, <1>9
  <1> QED
    BY <1>2, <1>3, <1>6, <1>7, <1>10, <1>11, <1>12, <1>13, ListAssembles

LEMMA ListArrives == ASSUME Lists!ListHolds, NEW r \in s4, Lists!Arrive(r) PROVE Lists!ListHolds'
  <1>1. /\ s4' = s4 \ {r} /\ s1' = s1 /\ s2' = s2 /\ s3' = s3 /\ s5' = s5 /\ s9' = s9 /\ s10' = s10
    BY DEF Lists!Arrive
  <1>2. PICK m \in 1..s5 :
             /\ \A x \in s4 : (x.n > m => x.quiet) /\ (x.n = m => ~x.quiet)
             /\ s1.drops => m = s5
             /\ (\E x \in s4 : x.n = m) \/ s7 \/ s1.fails = "empty" \/ ~Lists!Emptied
             /\ \/ s11 /\ ~s1.drops
                \/ /\ \A x \in s4 : x.n >= m => x.q = s2
                   /\ (\E x \in s4 : x.n = m) \/ s7 \/ s6 = Nothing \/ s6.q = s2
    BY ListAwaits
  <1>3. m \in 1..s5' /\ s5' \in 1..ListAsks /\ m \in Nat /\ s5 \in Nat BY <1>1, ListTypes
  <1>4. /\ r.n \in 1..ListAsks /\ r.n \in Nat /\ r.n <= s5 /\ r.q \in Lists!Question
        /\ s9 \subseteq Row
    BY ListTypes, ListNumbers
  <1>5. \A x \in s4' : x \in Lists!Request /\ x.n <= s5' /\ (x.n > m => x.quiet) /\ (x.n = m => ~x.quiet)
    BY <1>1, <1>2, ListTypes
  <1>6. UNCHANGED <<s1, s2, s3, s10>> /\ (s1.drops => m = s5') BY <1>1, <1>2
  <1>7. r.n # m => ((\E x \in s4 : x.n = m) <=> (\E x \in s4' : x.n = m)) BY <1>1
  <1>8. (\A x \in s4 : x.n >= m => x.q = s2) => (\A x \in s4' : x.n >= m => x.q = s2) BY <1>1
  <1>9. CASE ~Lists!Taken(r)
    <2>1. s6' = s6 /\ s7' = s7 /\ s8' = s8 /\ s11' = s11 BY <1>9 DEF Lists!Arrive
    <2>2. s1.drops /\ r.n # m BY <1>2, <1>9 DEF Lists!Taken
    <2>3. Lists!Emptied' <=> Lists!Emptied BY <1>1, <2>1 DEF Lists!Emptied, Lists!Kept
    <2>4. (\E x \in s4' : x.n = m) \/ s7' \/ s1.fails = "empty" \/ ~Lists!Emptied'
      BY <1>2, <1>7, <2>1, <2>2, <2>3
    <2>5. \/ s11' /\ ~s1.drops
          \/ /\ \A x \in s4' : x.n >= m => x.q = s2
             /\ (\E x \in s4' : x.n = m) \/ s7' \/ s6' = Nothing \/ s6'.q = s2
      BY <1>2, <1>7, <1>8, <2>1, <2>2
    <2>6. /\ s6' \in Lists!Answer \cup {Nothing} /\ s7' \in BOOLEAN /\ s8' \in BOOLEAN
          /\ s9' \subseteq Row /\ s11' \in BOOLEAN
      BY <1>1, <2>1, ListTypes
    <2> QED BY <1>3, <1>5, <1>6, <2>4, <2>5, <2>6, ListAssembles
  <1>10. CASE Lists!Taken(r)
    <2> DEFINE a == [n |-> r.n, q |-> r.q, ids |-> Lists!OnPage(r.q),
                     total |-> Lists!Cardinality(Lists!Kept(r.q))]
    <2>1. /\ s6' = a /\ s7' = (s7 /\ s1.clears = "asking") /\ s8' = FALSE
          /\ s11' = (s11 \/ \E i \in (r.n + 1)..s5 : ~\E o \in s4 : o.n = i)
      BY <1>10 DEF Lists!Arrive
    <2>2. a \in Lists!Answer BY <1>4, AnswerIsOne
    <2>3. a.q = r.q /\ a.ids = Lists!OnPage(r.q) OBVIOUS
    <2> HIDE DEF a
    <2>4. ~Lists!Emptied'
      <3>1. r.q.num = 1 /\ Lists!Kept(r.q) # {} => Lists!OnPage(r.q) # {} BY <1>4, FirstPageHasOne
      <3>2. Lists!Kept(r.q)' = Lists!Kept(r.q) BY <1>1 DEF Lists!Kept
      <3>3. \A x : x = r.q => Lists!Kept(x)' = Lists!Kept(r.q) BY <1>1 DEF Lists!Kept
      <3>4. s6'.q = r.q /\ s6'.ids = Lists!OnPage(r.q) BY <2>1, <2>3
      <3>5. Lists!Emptied' => /\ s6'.ids = {} /\ s6'.q.num = 1
                              /\ {x \in s9' : /\ s6'.q.filter = All \/ x \in Matching[s6'.q.filter]
                                              /\ s6'.q.text = All \/ x \in Naming[s6'.q.text]} # {}
        BY DEF Lists!Emptied, Lists!Kept
      <3> QED BY <1>1, <3>1, <3>4, <3>5 DEF Lists!Kept
    <2>5. \/ s11' /\ ~s1.drops
          \/ /\ \A x \in s4' : x.n >= m => x.q = s2
             /\ (\E x \in s4' : x.n = m) \/ s7' \/ s6' = Nothing \/ s6'.q = s2
      <3>1. CASE s11 /\ ~s1.drops BY <2>1, <3>1
      <3>2. CASE ~(s11 /\ ~s1.drops) /\ r.n >= m BY <1>2, <1>8, <2>1, <2>3, <3>2
      <3>3. CASE ~(s11 /\ ~s1.drops) /\ ~(r.n >= m)
        <4>1. ~s1.drops BY <1>2, <1>4, <1>10, <3>3 DEF Lists!Taken
        <4>2. CASE \E x \in s4 : x.n = m BY <1>2, <1>4, <1>7, <1>8, <3>3, <4>2
        <4>3. CASE ~\E x \in s4 : x.n = m
          <5>1. m \in (r.n + 1)..s5 BY <1>3, <1>4, <3>3
          <5> QED BY <2>1, <4>1, <4>3, <5>1
        <4> QED BY <4>2, <4>3
      <3> QED BY <3>1, <3>2, <3>3
    <2>6. /\ s6' \in Lists!Answer \cup {Nothing} /\ s7' \in BOOLEAN /\ s8' \in BOOLEAN
          /\ s9' \subseteq Row /\ s11' \in BOOLEAN
      BY <1>1, <2>1, <2>2, ListTypes
    <2> QED BY <1>3, <1>5, <1>6, <2>4, <2>5, <2>6, ListAssembles
  <1> QED BY <1>9, <1>10

LEMMA ListFails == ASSUME Lists!ListHolds, NEW r \in s4, Lists!Fail(r) PROVE Lists!ListHolds'
  <1>1. /\ s4' = s4 \ {r} /\ s1' = s1 /\ s2' = s2 /\ s3' = s3 /\ s5' = s5 /\ s9' = s9 /\ s10' = s10
    BY DEF Lists!Fail
  <1>2. PICK m \in 1..s5 :
             /\ \A x \in s4 : (x.n > m => x.quiet) /\ (x.n = m => ~x.quiet)
             /\ s1.drops => m = s5
             /\ (\E x \in s4 : x.n = m) \/ s7 \/ s1.fails = "empty" \/ ~Lists!Emptied
             /\ \/ s11 /\ ~s1.drops
                \/ /\ \A x \in s4 : x.n >= m => x.q = s2
                   /\ (\E x \in s4 : x.n = m) \/ s7 \/ s6 = Nothing \/ s6.q = s2
    BY ListAwaits
  <1>3. m \in 1..s5' /\ s5' \in 1..ListAsks /\ m \in Nat /\ s5 \in Nat BY <1>1, ListTypes
  <1>4. /\ r.n \in 1..ListAsks /\ r.n \in Nat /\ r.n <= s5 /\ r.q \in Lists!Question
        /\ s9 \subseteq Row
    BY ListTypes, ListNumbers
  <1>5. \A x \in s4' : x \in Lists!Request /\ x.n <= s5' /\ (x.n > m => x.quiet) /\ (x.n = m => ~x.quiet)
    BY <1>1, <1>2, ListTypes
  <1>6. UNCHANGED <<s1, s2, s3, s10>> /\ (s1.drops => m = s5') BY <1>1, <1>2
  <1>7. r.n # m => ((\E x \in s4 : x.n = m) <=> (\E x \in s4' : x.n = m)) BY <1>1
  <1>8. (\A x \in s4 : x.n >= m => x.q = s2) => (\A x \in s4' : x.n >= m => x.q = s2) BY <1>1
  <1>9. CASE ~(Lists!Taken(r) /\ ~r.quiet)
    <2>1. s6' = s6 /\ s7' = s7 /\ s8' = s8 /\ s11' = s11 BY <1>9 DEF Lists!Fail
    <2>2. r.n # m BY <1>2, <1>9 DEF Lists!Taken
    <2>3. Lists!Emptied' <=> Lists!Emptied BY <1>1, <2>1 DEF Lists!Emptied, Lists!Kept
    <2>4. (\E x \in s4' : x.n = m) \/ s7' \/ s1.fails = "empty" \/ ~Lists!Emptied'
      BY <1>2, <1>7, <2>1, <2>2, <2>3
    <2>5. \/ s11' /\ ~s1.drops
          \/ /\ \A x \in s4' : x.n >= m => x.q = s2
             /\ (\E x \in s4' : x.n = m) \/ s7' \/ s6' = Nothing \/ s6'.q = s2
      BY <1>2, <1>7, <1>8, <2>1, <2>2
    <2>6. /\ s6' \in Lists!Answer \cup {Nothing} /\ s7' \in BOOLEAN /\ s8' \in BOOLEAN
          /\ s9' \subseteq Row /\ s11' \in BOOLEAN
      BY <1>1, <2>1, ListTypes
    <2> QED BY <1>3, <1>5, <1>6, <2>4, <2>5, <2>6, ListAssembles
  <1>10. CASE Lists!Taken(r) /\ ~r.quiet
    <2> DEFINE a == [n |-> r.n, q |-> r.q, ids |-> {}, total |-> 0]
    <2>1. /\ s6' = (CASE s1.fails \in {"error", "empty"} -> a
                      [] s1.fails = "message" -> s6
                      [] s1.fails \in {"blank", "waits"} -> Nothing)
          /\ s7' = (s7 \/ s1.fails \in {"error", "message"}) /\ s8' = FALSE
          /\ s11' = (s11 \/ \E i \in (r.n + 1)..s5 : ~\E o \in s4 : o.n = i)
      BY <1>10 DEF Lists!Fail
    <2>2. a \in Lists!Answer BY <1>4, AnswerIsOne
    <2>3. a.q = r.q OBVIOUS
    <2> HIDE DEF a
    <2>4. s1.fails \in {"error", "empty", "message", "blank", "waits"} BY ListTypes DEF ListPage
    <2>5. /\ s1.fails \in {"error", "empty"} => s6' = a
          /\ s1.fails = "message" => s6' = s6
          /\ s1.fails \in {"blank", "waits"} => s6' = Nothing
      BY <2>1, <2>4
    <2>6. s7' \/ s1.fails = "empty" \/ ~Lists!Emptied'
      BY <2>1, <2>4, <2>5 DEF Lists!Emptied
    <2>7. \/ s11' /\ ~s1.drops
          \/ /\ \A x \in s4' : x.n >= m => x.q = s2
             /\ (\E x \in s4' : x.n = m) \/ s7' \/ s6' = Nothing \/ s6'.q = s2
      <3>1. CASE s11 /\ ~s1.drops BY <2>1, <3>1
      <3>2. CASE ~(s11 /\ ~s1.drops) /\ r.n >= m
        BY <1>2, <1>8, <2>1, <2>3, <2>4, <2>5, <3>2
      <3>3. CASE ~(s11 /\ ~s1.drops) /\ ~(r.n >= m)
        <4>1. ~s1.drops BY <1>2, <1>4, <1>10, <3>3 DEF Lists!Taken
        <4>2. CASE \E x \in s4 : x.n = m BY <1>2, <1>4, <1>7, <1>8, <3>3, <4>2
        <4>3. CASE ~\E x \in s4 : x.n = m
          <5>1. m \in (r.n + 1)..s5 BY <1>3, <1>4, <3>3
          <5> QED BY <2>1, <4>1, <4>3, <5>1
        <4> QED BY <4>2, <4>3
      <3> QED BY <3>1, <3>2, <3>3
    <2>8. /\ s6' \in Lists!Answer \cup {Nothing} /\ s7' \in BOOLEAN /\ s8' \in BOOLEAN
          /\ s9' \subseteq Row /\ s11' \in BOOLEAN
      BY <1>1, <2>1, <2>2, <2>4, <2>5, ListTypes
    <2> QED BY <1>3, <1>5, <1>6, <2>6, <2>7, <2>8, ListAssembles
  <1> QED BY <1>9, <1>10

LEMMA ListLeaves == ASSUME Lists!ListHolds, NEW r \in Row, Lists!Leave(r) PROVE Lists!ListHolds'
  <1>1. /\ s9' = s9 \ {r} /\ s1' = s1 /\ s2' = s2 /\ s3' = s3 /\ s4' = s4 /\ s5' = s5 /\ s6' = s6
        /\ s7' = s7 /\ s8' = s8 /\ s10' = s10 /\ s11' = s11
    BY DEF Lists!Leave
  <1>2. PICK m \in 1..s5 :
             /\ \A x \in s4 : (x.n > m => x.quiet) /\ (x.n = m => ~x.quiet)
             /\ s1.drops => m = s5
             /\ (\E x \in s4 : x.n = m) \/ s7 \/ s1.fails = "empty" \/ ~Lists!Emptied
             /\ \/ s11 /\ ~s1.drops
                \/ /\ \A x \in s4 : x.n >= m => x.q = s2
                   /\ (\E x \in s4 : x.n = m) \/ s7 \/ s6 = Nothing \/ s6.q = s2
    BY ListAwaits
  <1>3. Lists!Emptied' => Lists!Emptied BY <1>1 DEF Lists!Emptied, Lists!Kept
  <1>4. \A x \in s4' : x \in Lists!Request /\ x.n <= s5' /\ (x.n > m => x.quiet) /\ (x.n = m => ~x.quiet)
    BY <1>1, <1>2, ListTypes
  <1>5. /\ s5' \in 1..ListAsks /\ m \in 1..s5' /\ (s1.drops => m = s5')
        /\ s6' \in Lists!Answer \cup {Nothing} /\ s7' \in BOOLEAN /\ s8' \in BOOLEAN
        /\ s9' \subseteq Row /\ s11' \in BOOLEAN /\ UNCHANGED <<s1, s2, s3, s10>>
    BY <1>1, <1>2, ListTypes
  <1>6. (\E x \in s4' : x.n = m) \/ s7' \/ s1.fails = "empty" \/ ~Lists!Emptied'
    BY <1>1, <1>2, <1>3
  <1>7. \/ s11' /\ ~s1.drops
        \/ /\ \A x \in s4' : x.n >= m => x.q = s2
           /\ (\E x \in s4' : x.n = m) \/ s7' \/ s6' = Nothing \/ s6'.q = s2
    BY <1>1, <1>2
  <1> QED BY <1>4, <1>5, <1>6, <1>7, ListAssembles

LEMMA ListNextKeeps == ASSUME Lists!ListHolds, Lists!Next PROVE Lists!ListHolds'
  BY ListChooses, ListTypesText, ListApplies, ListRetries, ListRefreshes, ListActs, ListActed,
     ListTurns, ListArrives, ListFails, ListLeaves, Zenon DEF Lists!Next

LEMMA ListTold ==
    ASSUME Lists!ListHolds
    PROVE  Lists!TypeOK /\ Lists!ShowsWhatIsAsked /\ Lists!EmptyMeansNone
  <1>1. PICK m \in 1..s5 :
             /\ (\E x \in s4 : x.n = m) \/ s7 \/ s1.fails = "empty" \/ ~Lists!Emptied
             /\ \/ s11 /\ ~s1.drops
                \/ (\E x \in s4 : x.n = m) \/ s7 \/ s6 = Nothing \/ s6.q = s2
    BY ListAwaits
  <1>2. Lists!Screen \in {"rows", "empty"} => ~s7 /\ s6 # Nothing
    BY DEF Lists!Screen
  <1>3. Lists!Screen = "empty" => s6.ids = {} BY DEF Lists!Screen
  <1>4. Lists!ShowsWhatIsAsked BY <1>1, <1>2 DEF Lists!ShowsWhatIsAsked
  <1>5. Lists!EmptyMeansNone BY <1>1, <1>2, <1>3 DEF Lists!EmptyMeansNone, Lists!Emptied
  <1>6. Lists!TypeOK BY DEF Lists!ListHolds
  <1> QED BY <1>4, <1>5, <1>6

-----------------------------------------------------------------------------
(* The records.                                                                *)

\* What the pages have in common.  A page that shows an effect early is alone on
\* the record, and one that never loads it again sets a value; what an answer
\* replaces is guarded or set; a secret is held by a modal that changes nothing
\* else, or by a page that reloads in place.
RecordPage(p) ==
    /\ p.server \in {"once", "sets", "again"}
    /\ p.then \in {"reload", "answer", "leaves", "row", "none"}
    /\ p.lost \in {"kept", "hidden", "emptied", "silent", "waiting"}
    /\ p.says \in BOOLEAN /\ p.opens \in {"load", "form"} /\ p.secret \in {"none", "page", "child"}
    /\ p.then \in {"answer", "leaves", "row"} => p.guard = "busy" \/ p.server = "sets"
    /\ p.early => p.on = "record"
    /\ p.early /\ p.then = "none" =>
         p.server = "sets" /\ ~p.retry /\ ~p.blanks /\ p.secret = "none"
    /\ p.secret = "child" => p.then = "none" /\ ~p.early
    /\ p.secret # "none" /\ p.lost # "hidden" =>
         /\ p.secret = "page" /\ p.opens = "load" /\ ~p.blanks /\ p.then = "reload"
         /\ p.undo = "none" /\ p.tells # "page" /\ ~p.retry
         /\ p.lost \in {"kept", "silent", "emptied"} /\ (p.lost = "emptied" => ~p.says)
         /\ p.on = "form" => p.lost # "kept"
LEMMA RecordPagesSay == ASSUME NEW p \in Records!Pages PROVE RecordPage(p)
  <1>1. RecordPage(Records!CaseTransition)
    BY DEF RecordPage, Records!CaseTransition, Records!Plain
  <1>2. RecordPage(Records!CaseAssignment)
    BY DEF RecordPage, Records!CaseAssignment, Records!Plain
  <1>3. RecordPage(Records!CaseDocuments)
    BY DEF RecordPage, Records!CaseDocuments, Records!Plain
  <1>4. RecordPage(Records!FlagReview)
    BY DEF RecordPage, Records!FlagReview, Records!Plain
  <1>5. RecordPage(Records!RecordReview)
    BY DEF RecordPage, Records!RecordReview, Records!Plain
  <1>6. RecordPage(Records!ProviderUsers)
    BY DEF RecordPage, Records!ProviderUsers, Records!Plain
  <1>7. RecordPage(Records!ProviderForm)
    BY DEF RecordPage, Records!ProviderForm, Records!Plain
  <1>8. RecordPage(Records!ProviderNewUser)
    BY DEF RecordPage, Records!ProviderNewUser, Records!ProviderForm, Records!Plain
  <1>9. RecordPage(Records!ProviderReset)
    BY DEF RecordPage, Records!ProviderReset, Records!Plain
  <1>10. RecordPage(Records!UserForm)
    BY DEF RecordPage, Records!UserForm, Records!Plain
  <1>11. RecordPage(Records!UserSwitch)
    BY DEF RecordPage, Records!UserSwitch, Records!UserForm, Records!Plain
  <1>12. RecordPage(Records!UserReset)
    BY DEF RecordPage, Records!UserReset, Records!Plain
  <1>13. RecordPage(Records!TaxpayerForm)
    BY DEF RecordPage, Records!TaxpayerForm, Records!UserForm, Records!Plain
  <1>14. RecordPage(Records!NewTaxpayer)
    BY DEF RecordPage, Records!NewTaxpayer, Records!Form, Records!Plain
  <1>15. RecordPage(Records!NewProvider)
    BY DEF RecordPage, Records!NewProvider, Records!Form, Records!Plain
  <1>16. RecordPage(Records!NewStaffUser)
    BY DEF RecordPage, Records!NewStaffUser, Records!Form, Records!Plain
  <1>17. RecordPage(Records!ForcedPassword)
    BY DEF RecordPage, Records!ForcedPassword, Records!Form, Records!Plain
  <1>18. RecordPage(Records!StaffLink)
    BY DEF RecordPage, Records!StaffLink, Records!Form, Records!Plain
  <1>19. RecordPage(Records!ProviderLink)
    BY DEF RecordPage, Records!ProviderLink, Records!Form, Records!Plain
  <1>20. RecordPage(Records!SignIn)
    BY DEF RecordPage, Records!SignIn, Records!Form, Records!Plain
  <1>21. RecordPage(Records!ProviderSignIn)
    BY DEF RecordPage, Records!ProviderSignIn, Records!SignIn, Records!Form, Records!Plain
  <1>22. RecordPage(Records!AdminSignIn)
    BY DEF RecordPage, Records!AdminSignIn, Records!SignIn, Records!Form, Records!Plain
  <1>23. RecordPage(Records!Uploader)
    BY DEF RecordPage, Records!Uploader, Records!Form, Records!Plain
  <1>24. RecordPage(Records!TaxpayerImport)
    BY DEF RecordPage, Records!TaxpayerImport, Records!Uploader, Records!Form, Records!Plain
  <1>25. RecordPage(Records!TriageRun)
    BY DEF RecordPage, Records!TriageRun, Records!Uploader, Records!Form, Records!Plain
  <1>26. RecordPage(Records!OwnPassword)
    BY DEF RecordPage, Records!OwnPassword, Records!Plain
  <1>27. RecordPage(Records!OrganisationForm)
    BY DEF RecordPage, Records!OrganisationForm, Records!UserForm, Records!Plain
  <1>28. RecordPage(Records!LogoForm)
    BY DEF RecordPage, Records!LogoForm, Records!UserForm, Records!Plain
  <1>29. RecordPage(Records!StatutoryForm)
    BY DEF RecordPage, Records!StatutoryForm, Records!Plain
  <1>30. RecordPage(Records!PartnerKeys)
    BY DEF RecordPage, Records!PartnerKeys, Records!Plain
  <1>31. RecordPage(Records!PartnerRevoke)
    BY DEF RecordPage, Records!PartnerRevoke, Records!Plain
  <1>32. RecordPage(Records!PenaltyIssue)
    BY DEF RecordPage, Records!PenaltyIssue, Records!Plain
  <1>33. RecordPage(Records!SchemaForm)
    BY DEF RecordPage, Records!SchemaForm, Records!Plain
  <1>34. RecordPage(Records!PortfolioForm)
    BY DEF RecordPage, Records!PortfolioForm, Records!Plain
  <1>35. RecordPage(Records!PortfolioRemove)
    BY DEF RecordPage, Records!PortfolioRemove, Records!PortfolioForm, Records!Plain
  <1>36. RecordPage(Records!TwoFactor)
    BY DEF RecordPage, Records!TwoFactor, Records!Plain
  <1>37. RecordPage(Records!AlertScan)
    BY DEF RecordPage, Records!AlertScan, Records!Plain
  <1>38. RecordPage(Records!AlertRead)
    BY DEF RecordPage, Records!AlertRead, Records!Plain
  <1>39. RecordPage(Records!ProviderAlertRead)
    BY DEF RecordPage, Records!ProviderAlertRead, Records!AlertRead, Records!Plain
  <1>40. RecordPage(Records!BellRead)
    BY DEF RecordPage, Records!BellRead, Records!Plain
  <1>41. RecordPage(Records!Referrals)
    BY DEF RecordPage, Records!Referrals, Records!Plain
  <1>42. RecordPage(Records!Assignments)
    BY DEF RecordPage, Records!Assignments, Records!Plain
  <1>43. RecordPage(Records!AssignmentRevoke)
    BY DEF RecordPage, Records!AssignmentRevoke, Records!Plain
  <1>44. RecordPage(Records!Approvals)
    BY DEF RecordPage, Records!Approvals, Records!Plain
  <1>45. RecordPage(Records!TriageAnswer)
    BY DEF RecordPage, Records!TriageAnswer, Records!Plain
  <1>46. RecordPage(Records!ElevationRequest)
    BY DEF RecordPage, Records!ElevationRequest, Records!StatutoryForm, Records!Plain
  <1>47. RecordPage(Records!ElevationEnd)
    BY DEF RecordPage, Records!ElevationEnd, Records!ElevationRequest, Records!StatutoryForm, Records!Plain
  <1>48. RecordPage(Records!ElevationAnswer)
    BY DEF RecordPage, Records!ElevationAnswer, Records!Plain
  <1>49. RecordPage(Records!NetRegister)
    BY DEF RecordPage, Records!NetRegister, Records!StatutoryForm, Records!Plain
  <1>50. RecordPage(Records!NetRegisterMany)
    BY DEF RecordPage, Records!NetRegisterMany, Records!StatutoryForm, Records!Plain
  <1>51. RecordPage(Records!QuestionForm)
    BY DEF RecordPage, Records!QuestionForm, Records!Plain
  <1>52. RecordPage(Records!QuestionSwitch)
    BY DEF RecordPage, Records!QuestionSwitch, Records!Plain
  <1>53. RecordPage(Records!AccessCodes)
    BY DEF RecordPage, Records!AccessCodes, Records!QuestionForm, Records!Plain
  <1> QED
    BY <1>1, <1>2, <1>3, <1>4, <1>5, <1>6, <1>7, <1>8, <1>9, <1>10, <1>11, <1>12,
       <1>13, <1>14, <1>15, <1>16, <1>17, <1>18, <1>19, <1>20, <1>21, <1>22, <1>23,
       <1>24, <1>25, <1>26, <1>27, <1>28, <1>29, <1>30, <1>31, <1>32, <1>33, <1>34,
       <1>35, <1>36, <1>37, <1>38, <1>39, <1>40, <1>41, <1>42, <1>43, <1>44, <1>45,
       <1>46, <1>47, <1>48, <1>49, <1>50, <1>51, <1>52, <1>53, 
       Zenon DEF Records!Pages

LEMMA RecordSets ==
    \A S : Records!IsFiniteSet(S) = IsFiniteSet(S) /\ Records!Cardinality(S) = Cardinality(S)
  <1>1. \A S : Records!IsFiniteSet(S) = IsFiniteSet(S) BY DEF IsFiniteSet, Records!IsFiniteSet
  <1>2. \A S : Records!Cardinality(S) = Cardinality(S) BY DEF Cardinality, Records!Cardinality
  <1> QED BY <1>1, <1>2

\* Of the requests under way: those that act, and those not served yet.
Calls(F) == {r \in F : r.do # "load"}
Unserved(F) == {r \in F : r.at = "sent"}

\* The requests F are told apart by their numbers, n the last; there is room for the
\* reload of each action, and each that is served was counted in srv.
Counted(F, n, srv) ==
    /\ IsFiniteSet(F) /\ \A r \in F : r.n \in Nat /\ r.n <= n
    /\ \A r, u \in F : r.n = u.n => r = u
    /\ n + Cardinality(Calls(F)) <= RecordAsks
    /\ srv + Cardinality(Unserved(F)) <= n

LEMMA RequestsCounted ==
    ASSUME NEW F, IsFiniteSet(F)
    PROVE  /\ IsFiniteSet(Calls(F)) /\ Cardinality(Calls(F)) \in Nat
           /\ IsFiniteSet(Unserved(F)) /\ Cardinality(Unserved(F)) \in Nat
  <1>1. Calls(F) \in SUBSET F /\ Unserved(F) \in SUBSET F BY DEF Calls, Unserved
  <1>2. IsFiniteSet(Calls(F)) /\ IsFiniteSet(Unserved(F)) BY <1>1, FS_Subset
  <1> QED BY <1>2, FS_CardinalityType

LEMMA RequestDropped ==
    ASSUME NEW F, IsFiniteSet(F), NEW r \in F
    PROVE  /\ IsFiniteSet(F \ {r})
           /\ Cardinality(Calls(F \ {r})) = Cardinality(Calls(F)) - (IF r.do # "load" THEN 1 ELSE 0)
           /\ Cardinality(Unserved(F \ {r})) = Cardinality(Unserved(F)) - (IF r.at = "sent" THEN 1 ELSE 0)
  <1>1. IsFiniteSet(F \ {r}) BY FS_RemoveElement
  <1>2. /\ IsFiniteSet(Calls(F)) /\ Cardinality(Calls(F)) \in Nat
        /\ IsFiniteSet(Unserved(F)) /\ Cardinality(Unserved(F)) \in Nat
    BY RequestsCounted
  <1>3. Calls(F \ {r}) = Calls(F) \ {r} /\ Unserved(F \ {r}) = Unserved(F) \ {r}
    BY DEF Calls, Unserved
  <1>4. r \in Calls(F) <=> r.do # "load" BY DEF Calls
  <1>5. r \in Unserved(F) <=> r.at = "sent" BY DEF Unserved
  <1>6. Cardinality(Calls(F) \ {r}) = IF r \in Calls(F) THEN Cardinality(Calls(F)) - 1 ELSE Cardinality(Calls(F))
    BY <1>2, FS_RemoveElement
  <1>7. Cardinality(Unserved(F) \ {r}) =
           IF r \in Unserved(F) THEN Cardinality(Unserved(F)) - 1 ELSE Cardinality(Unserved(F))
    BY <1>2, FS_RemoveElement
  <1>8. Cardinality(Calls(F \ {r})) = Cardinality(Calls(F)) - (IF r.do # "load" THEN 1 ELSE 0)
    <2>1. CASE r.do # "load" BY <1>3, <1>4, <1>6, <2>1
    <2>2. CASE r.do = "load"
      <3>1. Cardinality(Calls(F \ {r})) = Cardinality(Calls(F)) BY <1>3, <1>4, <1>6, <2>2
      <3> QED BY <1>2, <2>2, <3>1
    <2> QED BY <2>1, <2>2
  <1>9. Cardinality(Unserved(F \ {r})) = Cardinality(Unserved(F)) - (IF r.at = "sent" THEN 1 ELSE 0)
    <2>1. CASE r.at = "sent" BY <1>3, <1>5, <1>7, <2>1
    <2>2. CASE r.at # "sent"
      <3>1. Cardinality(Unserved(F \ {r})) = Cardinality(Unserved(F)) BY <1>3, <1>5, <1>7, <2>2
      <3> QED BY <1>2, <2>2, <3>1
    <2> QED BY <2>1, <2>2
  <1> QED BY <1>1, <1>8, <1>9

LEMMA RequestAdded ==
    ASSUME NEW F, IsFiniteSet(F), NEW r, r \notin F
    PROVE  /\ IsFiniteSet(F \cup {r})
           /\ Cardinality(Calls(F \cup {r})) = Cardinality(Calls(F)) + (IF r.do # "load" THEN 1 ELSE 0)
           /\ Cardinality(Unserved(F \cup {r})) = Cardinality(Unserved(F)) + (IF r.at = "sent" THEN 1 ELSE 0)
  <1>1. IsFiniteSet(F \cup {r}) BY FS_AddElement
  <1>2. /\ IsFiniteSet(Calls(F)) /\ Cardinality(Calls(F)) \in Nat
        /\ IsFiniteSet(Unserved(F)) /\ Cardinality(Unserved(F)) \in Nat
    BY RequestsCounted
  <1>3. /\ Calls(F \cup {r}) = IF r.do # "load" THEN Calls(F) \cup {r} ELSE Calls(F)
        /\ Unserved(F \cup {r}) = IF r.at = "sent" THEN Unserved(F) \cup {r} ELSE Unserved(F)
    BY DEF Calls, Unserved
  <1>4. r \notin Calls(F) /\ r \notin Unserved(F) BY DEF Calls, Unserved
  <1>5. Cardinality(Calls(F) \cup {r}) = Cardinality(Calls(F)) + 1 BY <1>2, <1>4, FS_AddElement
  <1>6. Cardinality(Unserved(F) \cup {r}) = Cardinality(Unserved(F)) + 1 BY <1>2, <1>4, FS_AddElement
  <1>7. Cardinality(Calls(F \cup {r})) = Cardinality(Calls(F)) + (IF r.do # "load" THEN 1 ELSE 0)
    BY <1>2, <1>3, <1>5
  <1>8. Cardinality(Unserved(F \cup {r})) = Cardinality(Unserved(F)) + (IF r.at = "sent" THEN 1 ELSE 0)
    BY <1>2, <1>3, <1>6
  <1> QED BY <1>1, <1>7, <1>8

\* A request is answered.
LEMMA CountedLess ==
    ASSUME NEW F, NEW n \in Nat, NEW srv \in Nat, Counted(F, n, srv), NEW r \in F
    PROVE  /\ Counted(F \ {r}, n, srv)
           /\ r.do # "load" => n + 1 + Cardinality(Calls(F \ {r})) <= RecordAsks
  <1>1. IsFiniteSet(F) BY DEF Counted
  <1>2. /\ IsFiniteSet(F \ {r})
        /\ Cardinality(Calls(F \ {r})) = Cardinality(Calls(F)) - (IF r.do # "load" THEN 1 ELSE 0)
        /\ Cardinality(Unserved(F \ {r})) = Cardinality(Unserved(F)) - (IF r.at = "sent" THEN 1 ELSE 0)
    BY <1>1, RequestDropped
  <1>3. Cardinality(Calls(F)) \in Nat /\ Cardinality(Unserved(F)) \in Nat BY <1>1, RequestsCounted
  <1>4. n + Cardinality(Calls(F)) <= RecordAsks /\ srv + Cardinality(Unserved(F)) <= n BY DEF Counted
  <1>5. RecordAsks \in Nat BY RecordConstants DEF Records!RecordAssumption
  <1>6. /\ n + Cardinality(Calls(F \ {r})) <= RecordAsks /\ srv + Cardinality(Unserved(F \ {r})) <= n
        /\ r.do # "load" => n + 1 + Cardinality(Calls(F \ {r})) <= RecordAsks
    BY <1>2, <1>3, <1>4, <1>5
  <1> QED BY <1>2, <1>6 DEF Counted

\* A request is sent, where there is room.
LEMMA CountedMore ==
    ASSUME NEW F, NEW n \in Nat, NEW srv \in Nat, Counted(F, n, srv),
           NEW r, r.n = n + 1, r.at = "sent",
           n + 1 + Cardinality(Calls(F)) + (IF r.do # "load" THEN 1 ELSE 0) <= RecordAsks
    PROVE  Counted(F \cup {r}, n + 1, srv)
  <1>1. IsFiniteSet(F) /\ \A u \in F : u.n \in Nat /\ u.n <= n BY DEF Counted
  <1>2. r \notin F BY <1>1
  <1>3. /\ IsFiniteSet(F \cup {r})
        /\ Cardinality(Calls(F \cup {r})) = Cardinality(Calls(F)) + (IF r.do # "load" THEN 1 ELSE 0)
        /\ Cardinality(Unserved(F \cup {r})) = Cardinality(Unserved(F)) + (IF r.at = "sent" THEN 1 ELSE 0)
    BY <1>1, <1>2, RequestAdded
  <1>4. Cardinality(Calls(F)) \in Nat /\ Cardinality(Unserved(F)) \in Nat BY <1>1, RequestsCounted
  <1>5. srv + Cardinality(Unserved(F)) <= n BY DEF Counted
  <1>6. RecordAsks \in Nat BY RecordConstants DEF Records!RecordAssumption
  <1>7. /\ (n + 1) + Cardinality(Calls(F \cup {r})) <= RecordAsks
        /\ srv + Cardinality(Unserved(F \cup {r})) <= n + 1
    BY <1>3, <1>4, <1>5, <1>6
  <1>8. \A u \in F \cup {r} : u.n \in Nat /\ u.n <= n + 1 BY <1>1
  <1>9. \A u, v \in F \cup {r} : u.n = v.n => u = v
    <2>1. \A u \in F : u.n # r.n BY <1>1
    <2> QED BY <2>1 DEF Counted
  <1> QED BY <1>3, <1>7, <1>8, <1>9 DEF Counted

\* A request is served: it keeps its number and what it asks.
LEMMA CountedServed ==
    ASSUME NEW F, NEW n \in Nat, NEW srv \in Nat, Counted(F, n, srv), NEW r \in F, r.at = "sent",
           NEW s, s.n = r.n, s.do = r.do, s.at # "sent"
    PROVE  Counted((F \ {r}) \cup {s}, n, srv + 1) /\ srv + 1 <= n
  <1> DEFINE G == F \ {r}
  <1>1. /\ IsFiniteSet(F) /\ (\A u \in F : u.n \in Nat /\ u.n <= n)
        /\ \A u, v \in F : u.n = v.n => u = v
    BY DEF Counted
  <1>2. /\ IsFiniteSet(G)
        /\ Cardinality(Calls(G)) = Cardinality(Calls(F)) - (IF r.do # "load" THEN 1 ELSE 0)
        /\ Cardinality(Unserved(G)) = Cardinality(Unserved(F)) - 1
    BY <1>1, RequestDropped
  <1>3. s \notin G BY <1>1
  <1>4. \A u \in G : u \in F /\ u # r OBVIOUS
  <1> HIDE DEF G
  <1>5. /\ IsFiniteSet(G \cup {s})
        /\ Cardinality(Calls(G \cup {s})) = Cardinality(Calls(G)) + (IF s.do # "load" THEN 1 ELSE 0)
        /\ Cardinality(Unserved(G \cup {s})) = Cardinality(Unserved(G)) + (IF s.at = "sent" THEN 1 ELSE 0)
    BY <1>2, <1>3, RequestAdded
  <1>6. /\ Cardinality(Calls(F)) \in Nat /\ Cardinality(Unserved(F)) \in Nat
        /\ Cardinality(Calls(G)) \in Nat /\ Cardinality(Unserved(G)) \in Nat
    BY <1>1, <1>2, RequestsCounted
  <1>7. n + Cardinality(Calls(F)) <= RecordAsks /\ srv + Cardinality(Unserved(F)) <= n BY DEF Counted
  <1>8. RecordAsks \in Nat BY RecordConstants DEF Records!RecordAssumption
  <1>9. Cardinality(Calls(G \cup {s})) = Cardinality(Calls(F)) BY <1>2, <1>5, <1>6
  <1>10. Cardinality(Unserved(G \cup {s})) = Cardinality(Unserved(F)) - 1 BY <1>2, <1>5, <1>6
  <1>11. /\ n + Cardinality(Calls(G \cup {s})) <= RecordAsks
         /\ (srv + 1) + Cardinality(Unserved(G \cup {s})) <= n /\ srv + 1 <= n
    BY <1>6, <1>7, <1>8, <1>9, <1>2, <1>10
  <1>12. \A u \in G \cup {s} : u.n \in Nat /\ u.n <= n BY <1>1, <1>4
  <1>13. \A u, v \in G \cup {s} : u.n = v.n => u = v BY <1>1, <1>4
  <1>14. Counted(G \cup {s}, n, srv + 1) BY <1>5, <1>11, <1>12, <1>13 DEF Counted
  <1> QED BY <1>11, <1>14 DEF G

\* The actions lose their page: the requests stay as many, and as served.
Lost(r) == IF r.do = "act" THEN [r EXCEPT !.do = "orphan"] ELSE r
LEMMA CountedLost ==
    ASSUME NEW F \in SUBSET Records!Ask, NEW n \in Nat, NEW srv \in Nat, Counted(F, n, srv)
    PROVE  /\ Counted({Lost(r) : r \in F}, n, srv)
           /\ Cardinality(Calls({Lost(r) : r \in F})) <= Cardinality(Calls(F))
  <1> DEFINE G == {Lost(r) : r \in F}
  <1>1. /\ IsFiniteSet(F) /\ (\A u \in F : u.n \in Nat /\ u.n <= n)
        /\ \A u, v \in F : u.n = v.n => u = v
    BY DEF Counted
  <1>2. ASSUME NEW r \in F
        PROVE  /\ Lost(r).n = r.n /\ Lost(r).at = r.at /\ (Lost(r).do # "load" <=> r.do # "load")
    <2>1. r \in Records!Ask OBVIOUS
    <2> QED BY <2>1 DEF Lost, Records!Ask
  <1> DEFINE f == [r \in F |-> Lost(r)]
             c == [r \in Calls(F) |-> Lost(r)]
             w == [r \in Unserved(F) |-> Lost(r)]
  <1>3. f \in Surjection(F, G) BY DEF Surjection
  <1>4. c \in Surjection(Calls(F), Calls(G))
    <2>1. \A r \in Calls(F) : r \in F /\ Lost(r) \in Calls(G) BY <1>2 DEF Calls
    <2>2. \A u \in Calls(G) : \E r \in Calls(F) : Lost(r) = u BY <1>2 DEF Calls
    <2> QED BY <2>1, <2>2 DEF Surjection
  <1>5. w \in Surjection(Unserved(F), Unserved(G))
    <2>1. \A r \in Unserved(F) : r \in F /\ Lost(r) \in Unserved(G) BY <1>2 DEF Unserved
    <2>2. \A u \in Unserved(G) : \E r \in Unserved(F) : Lost(r) = u BY <1>2 DEF Unserved
    <2> QED BY <2>1, <2>2 DEF Surjection
  <1>6. \A u \in G : \E r \in F : u = Lost(r) OBVIOUS
  <1> HIDE DEF G, f, c, w
  <1>7. IsFiniteSet(G) BY <1>1, <1>3, FS_Surjection
  <1>8. /\ IsFiniteSet(Calls(F)) /\ Cardinality(Calls(F)) \in Nat
        /\ IsFiniteSet(Unserved(F)) /\ Cardinality(Unserved(F)) \in Nat
        /\ Cardinality(Calls(G)) \in Nat /\ Cardinality(Unserved(G)) \in Nat
    BY <1>1, <1>7, RequestsCounted
  <1>9. Cardinality(Calls(G)) <= Cardinality(Calls(F)) BY <1>4, <1>8, FS_Surjection
  <1>10. Cardinality(Unserved(G)) <= Cardinality(Unserved(F)) BY <1>5, <1>8, FS_Surjection
  <1>11. n + Cardinality(Calls(F)) <= RecordAsks /\ srv + Cardinality(Unserved(F)) <= n BY DEF Counted
  <1>12. RecordAsks \in Nat BY RecordConstants DEF Records!RecordAssumption
  <1>13. n + Cardinality(Calls(G)) <= RecordAsks /\ srv + Cardinality(Unserved(G)) <= n
    BY <1>8, <1>9, <1>10, <1>11, <1>12
  <1>14. \A u \in G : u.n \in Nat /\ u.n <= n BY <1>1, <1>2, <1>6
  <1>15. \A u, v \in G : u.n = v.n => u = v BY <1>1, <1>2, <1>6
  <1> QED BY <1>7, <1>9, <1>13, <1>14, <1>15 DEF Counted, G

LEMMA RecordBounds == RecordAsks \in Nat /\ RecordAsks > 0 /\ MaxOthers \in Nat
  BY RecordConstants DEF Records!RecordAssumption

LEMMA RecordCounts ==
    Records!Numbered <=> /\ IsFiniteSet(s5) /\ \A r \in s5 : r.n <= s6
                         /\ \A r, u \in s5 : r.n = u.n => r = u
                         /\ s6 + Cardinality(Calls(s5)) <= RecordAsks
                         /\ s11 + Cardinality(Unserved(s5)) <= s6
                         /\ s2.mine <= s11 /\ s12.latest <= s11
  BY RecordSets, Zenon DEF Records!Numbered, Calls, Unserved

\* The type of what is kept, by the names the proofs use.
LEMMA RecordSays ==
    ASSUME Records!RecordHolds
    PROVE  /\ s1 \in Records!Pages /\ RecordPage(s1) /\ s2 \in Records!Record /\ s4 \in Records!Record
           /\ s3 \in {"loading", "record", "hidden", "card", "empty", "left"}
           /\ s5 \subseteq Records!Ask /\ s6 \in 0..RecordAsks /\ s11 \in 0..RecordAsks
           /\ s7 \in BOOLEAN /\ s8 \in BOOLEAN /\ s9 \in 0..RecordAsks /\ s10 \in 0..RecordAsks
           /\ s12 \in Records!History
           /\ s2.mine \in 0..RecordAsks /\ s2.others \in 0..MaxOthers /\ s12.latest \in 0..RecordAsks
           /\ s6 \in Nat /\ s11 \in Nat /\ s2.mine \in Nat /\ s12.latest \in Nat
           /\ Counted(s5, s6, s11) /\ s2.mine <= s11 /\ s12.latest <= s11
  <1>1. Records!TypeOK /\ Records!Numbered BY DEF Records!RecordHolds
  <1>2. s1 \in Records!Pages /\ s5 \subseteq Records!Ask BY <1>1 DEF Records!TypeOK
  <1>3. RecordPage(s1) BY <1>2, RecordPagesSay
  <1>4. \A r \in s5 : r.n \in Nat BY <1>2, RecordBounds DEF Records!Ask
  <1>5. Counted(s5, s6, s11) /\ s2.mine <= s11 /\ s12.latest <= s11
    BY <1>1, <1>4, RecordCounts DEF Counted
  <1>6. /\ s2.mine \in 0..RecordAsks /\ s2.others \in 0..MaxOthers /\ s12.latest \in 0..RecordAsks
        /\ s6 \in 0..RecordAsks /\ s11 \in 0..RecordAsks
    BY <1>1 DEF Records!TypeOK, Records!Record, Records!History
  <1>7. s6 \in Nat /\ s11 \in Nat /\ s2.mine \in Nat /\ s12.latest \in Nat BY <1>6, RecordBounds
  <1> QED BY <1>1, <1>3, <1>5, <1>6, <1>7 DEF Records!TypeOK

LEMMA RequestSays ==
    ASSUME Records!RecordHolds, NEW r \in s5
    PROVE  /\ r \in Records!Ask /\ r.n \in 1..RecordAsks /\ r.n \in Nat /\ r.n <= s6
           /\ r.do \in {"load", "act", "orphan"} /\ r.at \in {"sent", "done", "refused"}
           /\ r.when \in 0..RecordAsks /\ r.when \in Nat /\ r.rec \in Records!Record
           /\ r.rec.mine \in 0..RecordAsks /\ r.rec.mine \in Nat
           /\ r.at # "sent" => /\ r.when <= s11 /\ r.rec.mine <= s2.mine
                               /\ r.when = s11 => r.rec.mine = s2.mine
           /\ r.do = "load" => r.at # "refused"
           /\ r.do = "orphan" => s1.secret = "child" /\ s1.then = "none" /\ ~s1.early
  <1>1. r \in Records!Ask BY RecordSays
  <1>2. /\ r.n \in 1..RecordAsks /\ r.do \in {"load", "act", "orphan"}
        /\ r.at \in {"sent", "done", "refused"} /\ r.when \in 0..RecordAsks
        /\ r.rec \in Records!Record /\ r.rec.mine \in 0..RecordAsks
    BY <1>1 DEF Records!Ask, Records!Record
  <1>3. r.n \in Nat /\ r.when \in Nat /\ r.rec.mine \in Nat BY <1>2, RecordBounds
  <1>4. r.n <= s6 BY RecordSays DEF Counted
  <1>5. /\ r.at # "sent" => /\ r.when <= s11 /\ r.rec.mine <= s2.mine
                            /\ r.when = s11 => r.rec.mine = s2.mine
        /\ r.do = "load" => r.at # "refused"
    BY DEF Records!RecordHolds, Records!InOrder, Records!Served
  <1>6. r.do = "orphan" => s1.secret = "child" BY DEF Records!RecordHolds, Records!Guarded
  <1>7. r.do = "orphan" => s1.then = "none" /\ ~s1.early BY <1>6, RecordSays DEF RecordPage
  <1> QED BY <1>1, <1>2, <1>3, <1>4, <1>5, <1>6, <1>7

LEMMA SentIsOne ==
    ASSUME NEW n \in 1..RecordAsks, NEW do \in {"load", "act"}
    PROVE  /\ Records!Sent(n, do) \in Records!Ask
           /\ Records!Sent(n, do).n = n /\ Records!Sent(n, do).do = do /\ Records!Sent(n, do).at = "sent"
  <1>1. [mine |-> 0, others |-> 0] \in Records!Record BY RecordBounds DEF Records!Record
  <1> QED BY <1>1, RecordBounds DEF Records!Sent, Records!Ask

\* A load is sent beside the requests F.
LEMMA RecordAsksAgain ==
    ASSUME Records!RecordHolds, NEW F \in SUBSET Records!Ask, Counted(F, s6, s11),
           s6 + 1 + Cardinality(Calls(F)) <= RecordAsks
    PROVE  /\ Records!Sent(s6 + 1, "load") \in Records!Ask
           /\ Records!Sent(s6 + 1, "load").n = s6 + 1 /\ Records!Sent(s6 + 1, "load").do = "load"
           /\ Records!Sent(s6 + 1, "load").at = "sent"
           /\ Counted(F \cup {Records!Sent(s6 + 1, "load")}, s6 + 1, s11)
           /\ s6 + 1 \in 0..RecordAsks /\ s6 + 1 \in Nat
           /\ F \cup {Records!Sent(s6 + 1, "load")} \subseteq Records!Ask
  <1>1. IsFiniteSet(F) BY DEF Counted
  <1>2. Cardinality(Calls(F)) \in Nat BY <1>1, RequestsCounted
  <1>3. s6 \in Nat /\ s11 \in Nat BY RecordSays
  <1>4. s6 + 1 \in 1..RecordAsks /\ s6 + 1 \in 0..RecordAsks /\ s6 + 1 \in Nat
    BY <1>2, <1>3, RecordBounds
  <1> DEFINE r == Records!Sent(s6 + 1, "load")
  <1>5. r \in Records!Ask /\ r.n = s6 + 1 /\ r.do = "load" /\ r.at = "sent" BY <1>4, SentIsOne
  <1> HIDE DEF r
  <1>6. s6 + 1 + Cardinality(Calls(F)) + (IF r.do # "load" THEN 1 ELSE 0) <= RecordAsks
    BY <1>2, <1>3, <1>5
  <1>7. Counted(F \cup {r}, s6 + 1, s11) BY <1>3, <1>5, <1>6, CountedMore
  <1> QED BY <1>4, <1>5, <1>7 DEF r

\* What is sent or answered leaves what was served in its order.
LEMMA RecordOrdered ==
    ASSUME Records!RecordHolds, s1' = s1, s2'.mine = s2.mine, s11' = s11,
           \A u \in s5' : u \in s5 \/ u.at = "sent"
    PROVE  Records!InOrder'
  <1>1. Records!InOrder BY DEF Records!RecordHolds
  <1>2. \A u \in s5' : u.at # "sent" => u \in s5 OBVIOUS
  <1>3. \A r \in s5' : r.at # "sent" =>
          r.when <= s11' /\ r.rec.mine <= s2'.mine /\ (r.when = s11' => r.rec.mine = s2'.mine)
    BY <1>1, <1>2 DEF Records!InOrder, Records!Served
  <1>4. \A r, u \in s5' : r.at # "sent" /\ u.at # "sent" /\ r.when <= u.when => r.rec.mine <= u.rec.mine
    BY <1>1, <1>2 DEF Records!InOrder, Records!Served
  <1>5. \A r \in s5' : r.do = "load" => r.at # "refused"
    BY <1>1, <1>2 DEF Records!InOrder
  <1>6. s1'.server = "sets" =>
          s2'.mine <= 1 /\ \A r \in s5' : r.do = "act" /\ r.at # "sent" => r.at = "done" /\ r.rec.mine = 1
    BY <1>1, <1>2 DEF Records!InOrder, Records!Served
  <1> QED BY <1>3, <1>4, <1>5, <1>6 DEF Records!InOrder, Records!Served

\* What was served is not unserved, and the button's guard holds.
LEMMA RecordGuards ==
    ASSUME Records!RecordHolds, s1' = s1, s2'.mine = s2.mine,
           \A u \in s5' : u \in s5 \/ u.do = "load",
           s7' = s7 \/ (s1.guard = "busy" => \A u \in s5' : u.do # "act")
    PROVE  Records!Guarded'
  BY DEF Records!RecordHolds, Records!Guarded

\* The numbers and the types of a step that keeps the page.
LEMMA RecordTyped ==
    ASSUME Records!RecordHolds, s1' = s1, s2' \in Records!Record, s4' \in Records!Record,
           s3' \in {"loading", "record", "hidden", "card", "empty", "left"},
           s5' \subseteq Records!Ask, s6' \in 0..RecordAsks, s11' \in 0..RecordAsks,
           s7' \in BOOLEAN, s8' \in BOOLEAN, s9' \in 0..RecordAsks, s10' \in 0..RecordAsks,
           s12' \in Records!History, Counted(s5', s6', s11'), s2'.mine <= s11', s12'.latest <= s11'
    PROVE  Records!TypeOK' /\ Records!Numbered'
  <1>1. s1' \in Records!Pages BY RecordSays
  <1>2. Records!TypeOK' BY <1>1 DEF Records!TypeOK
  <1>3. Records!IsFiniteSet(s5') BY RecordSets DEF Counted
  <1>4. Records!Numbered' BY <1>3, RecordSets, Zenon DEF Records!Numbered, Counted, Calls, Unserved
  <1> QED BY <1>2, <1>4

LEMMA RecordPresses == ASSUME Records!RecordHolds, Records!Press PROVE Records!RecordHolds'
  <1> DEFINE new == Records!Sent(s6 + 1, "act")
  <1>1. /\ s3 = "record" \/ (s1.on = "form" /\ s3 \in {"empty", "card"})
        /\ s1.guard = "busy" => ~s7
        /\ s1.early => s4.mine = 0
        /\ s6' = s6 + 1 /\ s5' = s5 \cup {new} /\ s7' = TRUE /\ s8' = FALSE /\ s9' = 0 /\ s10' = 0
        /\ s12' = [s12 EXCEPT !.failed = FALSE]
        /\ s4' = (IF s1.early THEN [s4 EXCEPT !.mine = 1] ELSE s4)
        /\ s1' = s1 /\ s2' = s2 /\ s3' = s3 /\ s11' = s11
    BY DEF Records!Press, Records!Enabled
  <1>2. RecordAsks - s6 - Cardinality(Calls(s5)) >= 2
    BY RecordSets DEF Records!Press, Records!Room, Calls
  <1>3. Cardinality(Calls(s5)) \in Nat /\ s6 \in Nat /\ s11 \in Nat /\ Counted(s5, s6, s11)
    BY RecordSays, RequestsCounted DEF Counted
  <1>4. /\ s6 + 1 \in 1..RecordAsks /\ s6 + 1 \in 0..RecordAsks
        /\ s6 + 1 + Cardinality(Calls(s5)) + 1 <= RecordAsks
    BY <1>2, <1>3, RecordBounds
  <1>5. new \in Records!Ask /\ new.n = s6 + 1 /\ new.do = "act" /\ new.at = "sent"
    BY <1>4, SentIsOne
  <1> HIDE DEF new
  <1>6. Counted(s5 \cup {new}, s6 + 1, s11)
    <2>1. s6 + 1 + Cardinality(Calls(s5)) + (IF new.do # "load" THEN 1 ELSE 0) <= RecordAsks
      BY <1>4, <1>5
    <2> QED BY <1>3, <1>5, <2>1, CountedMore
  <1>7. s4' \in Records!Record /\ (s1.early => s4'.mine = 1)
    <2>1. s4 \in Records!Record /\ 1 \in 0..RecordAsks BY RecordSays, RecordBounds
    <2> QED BY <1>1, <2>1 DEF Records!Record
  <1>8. /\ s12' \in Records!History /\ s12'.latest = s12.latest /\ s12'.failed = FALSE
        /\ s12'.covered = s12.covered
    BY <1>1, RecordSays DEF Records!History
  <1>9. Records!TypeOK' /\ Records!Numbered'
    <2>1. /\ s2' \in Records!Record /\ s11' \in 0..RecordAsks /\ s5' \subseteq Records!Ask
          /\ s3' \in {"loading", "record", "hidden", "card", "empty", "left"}
      BY <1>1, <1>5, RecordSays
    <2>2. s7' \in BOOLEAN /\ s8' \in BOOLEAN /\ s9' \in 0..RecordAsks /\ s10' \in 0..RecordAsks
      <3>1. 0 \in 0..RecordAsks BY RecordBounds
      <3> QED BY <1>1, <3>1
    <2>3. Counted(s5', s6', s11') /\ s2'.mine <= s11' /\ s12'.latest <= s11'
      BY <1>1, <1>6, <1>8, RecordSays
    <2>4. s6' \in 0..RecordAsks /\ s1' = s1 BY <1>1, <1>4
    <2> QED BY <1>7, <1>8, <2>1, <2>2, <2>3, <2>4, RecordTyped
  <1>10. Records!InOrder' BY <1>1, <1>5, RecordOrdered
  <1>11. Records!Guarded'
    <2>1. s1.guard = "busy" => \A u \in s5 : u.do # "act"
      BY <1>1 DEF Records!RecordHolds, Records!Guarded
    <2>2. s1.guard = "busy" => \A u \in s5' : u.do = "act" => u = new BY <1>1, <2>1
    <2>3. \A u \in s5' : u.at = "done" \/ u.do = "orphan" => u \in s5 BY <1>1, <1>5
    <2>4. Records!Guarded BY DEF Records!RecordHolds
    <2> QED BY <1>1, <2>2, <2>3, <2>4 DEF Records!Guarded
  <1>12. Records!Early'
    <2> SUFFICES ASSUME s1.early, s1.then = "none" PROVE Records!Early'
      BY <1>1 DEF Records!Early
    <2>1. s1.on = "record" BY RecordSays DEF RecordPage
    <2>2. s3 = "record" /\ s4.mine = 0 BY <1>1, <2>1
    <2>3. s5 = {} BY <2>2 DEF Records!RecordHolds, Records!Early
    <2> QED BY <1>1, <1>7, <2>3 DEF Records!Early
  <1>13. Records!Told' BY <1>1, <1>5 DEF Records!Told
  <1>14. s1'.server = "once" => s2'.mine <= 1 BY <1>1 DEF Records!RecordHolds
  <1>15. /\ s12'.failed => s8' \/ s1'.tells = "nowhere"
         /\ ~s12'.covered => s9' = s10'
         /\ s12'.covered => s1'.secret = "child"
         /\ s1'.secret = "none" => s10' = 0
    BY <1>1, <1>8 DEF Records!RecordHolds
  <1>16. Records!Keeps'
    <2> SUFFICES ASSUME s1.secret # "none", s1.lost # "hidden" PROVE Records!Keeps'
      BY <1>1 DEF Records!Keeps
    <2>1. Records!Keeps BY DEF Records!RecordHolds
    <2>2. s3 \in {"record", "empty"}
      <3>1. s1.on = "form" => s1.lost # "kept" BY RecordSays DEF RecordPage
      <3> QED BY <1>1, <2>1, <3>1 DEF Records!Keeps
    <2>3. s6' > 0 BY <1>1, <1>3
    <2>4. \A r \in s5' : r.n # 1
      <3>1. s6 > 0 /\ \A r \in s5 : r.n # 1 BY <2>1, <2>2 DEF Records!Keeps
      <3>2. new.n # 1 BY <1>3, <1>5, <3>1
      <3> QED BY <1>1, <3>1, <3>2
    <2> QED BY <1>1, <2>2, <2>3, <2>4 DEF Records!Keeps
  <1> QED
    BY <1>9, <1>10, <1>11, <1>12, <1>13, <1>14, <1>15, <1>16 DEF Records!RecordHolds

LEMMA RecordServes ==
    ASSUME Records!RecordHolds, NEW r \in s5, Records!Serve(r) PROVE Records!RecordHolds'
  <1> DEFINE takes == r.do # "load" /\ (s1.server = "once" => s2.mine = 0)
             new == [r EXCEPT !.at = IF r.do # "load" /\ ~takes THEN "refused" ELSE "done",
                              !.when = s11', !.rec = s2']
  <1>1. /\ r.at = "sent" /\ s11' = s11 + 1 /\ s5' = (s5 \ {r}) \cup {new}
        /\ s2' = (IF takes THEN [s2 EXCEPT !.mine = IF s1.server = "sets" THEN 1 ELSE s2.mine + 1] ELSE s2)
        /\ s1' = s1 /\ s3' = s3 /\ s4' = s4 /\ s6' = s6 /\ s7' = s7 /\ s8' = s8 /\ s9' = s9
        /\ s10' = s10 /\ s12' = s12
    BY DEF Records!Serve
  <1>2. /\ r \in Records!Ask /\ r.n \in Nat /\ r.do \in {"load", "act", "orphan"}
    BY RequestSays
  <1>3. /\ new.n = r.n /\ new.do = r.do /\ new.when = s11' /\ new.rec = s2'
        /\ new.at = IF r.do # "load" /\ ~takes THEN "refused" ELSE "done"
    BY <1>2 DEF Records!Ask
  <1>4. /\ Counted(s5, s6, s11) /\ s6 \in 0..RecordAsks /\ s6 \in Nat /\ s11 \in Nat
        /\ s2 \in Records!Record /\ s2.mine \in Nat /\ s2.mine <= s11 /\ s12.latest <= s11
        /\ s12.latest \in Nat
    BY RecordSays
  <1>5. /\ s2'.mine \in Nat /\ s2.mine <= s2'.mine /\ s2'.mine <= s11'
        /\ s1.server = "sets" => s2'.mine <= 1 /\ (takes => s2'.mine = 1)
        /\ s1.server = "once" /\ s2.mine <= 1 => s2'.mine <= 1
        /\ ~takes => s2' = s2
    <2>1. Records!InOrder BY DEF Records!RecordHolds
    <2>2. s1.server = "sets" => s2.mine <= 1 BY <2>1 DEF Records!InOrder
    <2>3. takes => s2'.mine = IF s1.server = "sets" THEN 1 ELSE s2.mine + 1
      BY <1>1, <1>4 DEF Records!Record
    <2>4. ~takes => s2' = s2 BY <1>1
    <2>5. takes => (s1.server = "once" => s2.mine = 0) OBVIOUS
    <2> HIDE DEF takes, new
    <2>6. CASE takes BY <1>1, <1>4, <2>2, <2>3, <2>5, <2>6
    <2>7. CASE ~takes BY <1>1, <1>4, <2>2, <2>4, <2>7
    <2> QED BY <2>6, <2>7
  <1>6. r.do = "act" /\ s1.server = "sets" => takes OBVIOUS
  <1>7. takes => r.do # "load" OBVIOUS
  <1>8. r.do = "load" => ~takes OBVIOUS
  <1> HIDE DEF takes
  <1>9. s2' \in Records!Record /\ s11' \in 0..RecordAsks /\ Counted(s5', s6', s11')
    <2>1. new.at # "sent" BY <1>3
    <2> HIDE DEF new
    <2>2. Counted((s5 \ {r}) \cup {new}, s6, s11 + 1) /\ s11 + 1 <= s6
      BY <1>1, <1>3, <1>4, <2>1, CountedServed
    <2>3. s11' \in 0..RecordAsks /\ s2'.mine \in 0..RecordAsks
      BY <1>1, <1>4, <1>5, <2>2, RecordBounds
    <2>4. s2' = s2 \/ \E v : s2' = [s2 EXCEPT !.mine = v] BY <1>1
    <2>5. s2' \in Records!Record BY <1>4, <2>3, <2>4 DEF Records!Record
    <2> QED BY <1>1, <2>2, <2>3, <2>5
  <1>10. new \in Records!Ask /\ new.at \in {"done", "refused"}
    BY <1>2, <1>9 DEF Records!Ask
  <1> HIDE DEF new
  <1>11. \A u \in s5' : u = new \/ (u \in s5 /\ u # r) BY <1>1
  <1>12. new \in s5' /\ \A u \in s5 : u # r => u \in s5' BY <1>1
  <1>13. Records!TypeOK' /\ Records!Numbered'
    <2>1. s5' \subseteq Records!Ask
      <3>1. s5 \subseteq Records!Ask BY RecordSays
      <3> QED BY <1>10, <1>11, <3>1
    <2>2. s12'.latest <= s11' BY <1>1, <1>4
    <2>3. /\ s4' \in Records!Record /\ s3' \in {"loading", "record", "hidden", "card", "empty", "left"}
          /\ s6' \in 0..RecordAsks /\ s7' \in BOOLEAN /\ s8' \in BOOLEAN /\ s9' \in 0..RecordAsks
          /\ s10' \in 0..RecordAsks /\ s12' \in Records!History /\ s1' = s1
      BY <1>1, RecordSays
    <2> QED BY <1>5, <1>9, <2>1, <2>2, <2>3, RecordTyped
  <1>14. Records!InOrder'
    <2>1. Records!InOrder BY DEF Records!RecordHolds
    <2>2. ASSUME NEW u \in s5' PROVE
            /\ u.at # "sent" => /\ u.when <= s11' /\ u.rec.mine <= s2'.mine
                                /\ (u.when = s11' => u.rec.mine = s2'.mine)
            /\ u.do = "load" => u.at # "refused"
            /\ s1.server = "sets" /\ u.do = "act" /\ u.at # "sent" => u.at = "done" /\ u.rec.mine = 1
      <3>1. CASE u = new
        <4>1. u.when = s11' /\ u.rec.mine = s2'.mine /\ u.do = r.do BY <1>3, <3>1
        <4>2. u.when <= s11' /\ u.rec.mine <= s2'.mine BY <1>1, <1>4, <1>5, <4>1
        <4>3. u.do = "load" => u.at = "done" BY <1>3, <3>1
        <4>4. s1.server = "sets" /\ u.do = "act" => u.at = "done" /\ s2'.mine = 1
          BY <1>3, <1>5, <1>6, <3>1
        <4> QED BY <4>1, <4>2, <4>3, <4>4
      <3>2. CASE u \in s5
        <4>1. /\ u.when \in Nat /\ u.rec.mine \in Nat /\ (u.do = "load" => u.at # "refused")
              /\ u.at # "sent" => u.when <= s11 /\ u.rec.mine <= s2.mine
          BY <3>2, RequestSays
        <4>2. u.at # "sent" => u.when <= s11' /\ u.rec.mine <= s2'.mine /\ u.when # s11'
          BY <1>1, <1>4, <1>5, <4>1
        <4>3. s1.server = "sets" /\ u.do = "act" /\ u.at # "sent" => u.at = "done" /\ u.rec.mine = 1
          BY <2>1, <3>2 DEF Records!InOrder, Records!Served
        <4> QED BY <4>1, <4>2, <4>3
      <3> QED BY <1>11, <3>1, <3>2
    <2>3. ASSUME NEW u \in s5', NEW v \in s5', u.at # "sent", v.at # "sent", u.when <= v.when
          PROVE  u.rec.mine <= v.rec.mine
      <3>1. CASE u \in s5 /\ v \in s5
        BY <2>1, <2>3, <3>1 DEF Records!InOrder, Records!Served
      <3>2. CASE v = new
        <4>1. u.rec.mine <= s2'.mine BY <2>2, <2>3
        <4> QED BY <1>3, <3>2, <4>1
      <3>3. CASE u = new /\ v # new
        <4>1. v \in s5 /\ v.when <= s11 /\ v.when \in Nat BY <1>11, <2>3, <3>3, RequestSays
        <4>2. u.when = s11 + 1 BY <1>1, <1>3, <3>3
        <4> QED BY <1>4, <2>3, <4>1, <4>2
      <3> QED BY <1>11, <3>1, <3>2, <3>3
    <2>4. s1.server = "sets" => s2'.mine <= 1 BY <1>5
    <2> QED BY <1>1, <2>2, <2>3, <2>4 DEF Records!InOrder, Records!Served
  <1>15. Records!Guarded'
    <2>1. Records!Guarded /\ Records!InOrder BY DEF Records!RecordHolds
    <2>2. ASSUME s1.guard = "busy", NEW u \in s5', u.do = "act"
          PROVE  s7 /\ \A v \in s5' : v.do = "act" => v = u
      <3>1. \A x \in s5 : x.do = "act" => s7 /\ \A y \in s5 : y.do = "act" => y = x
        BY <2>1, <2>2 DEF Records!Guarded
      <3> QED BY <1>3, <1>11, <2>2, <3>1
    <2>3. ASSUME s1.then \in {"answer", "leaves", "row"}, NEW u \in s5', u.do = "act", u.at = "done"
          PROVE  u.rec.mine = s2'.mine
      <3>1. CASE u = new BY <1>3, <3>1
      <3>2. CASE u # new
        <4>1. u \in s5 /\ u # r /\ u.rec.mine = s2.mine
          BY <1>11, <2>1, <2>3, <3>2 DEF Records!Guarded
        <4>2. CASE r.do = "load" BY <1>5, <1>8, <4>1, <4>2
        <4>3. CASE r.do = "orphan" BY <2>3, <4>3, RequestSays
        <4>4. CASE r.do = "act"
          <5>1. s1.guard = "busy" \/ s1.server = "sets" BY <2>3, RecordSays DEF RecordPage
          <5>2. CASE s1.guard = "busy" BY <2>1, <2>3, <4>1, <4>4, <5>2 DEF Records!Guarded
          <5>3. CASE s1.server = "sets"
            <6>1. u.rec.mine = 1 BY <2>1, <2>3, <4>1, <5>3 DEF Records!InOrder, Records!Served
            <6> QED BY <1>5, <1>6, <4>4, <5>3, <6>1
          <5> QED BY <5>1, <5>2, <5>3
        <4> QED BY <1>2, <4>2, <4>3, <4>4
      <3> QED BY <3>1, <3>2
    <2>4. ASSUME NEW u \in s5', u.do = "orphan" PROVE s1.secret = "child"
      BY <1>3, <1>11, <2>1, <2>4 DEF Records!Guarded
    <2> QED BY <1>1, <2>2, <2>3, <2>4 DEF Records!Guarded
  <1>16. Records!Early'
    <2> SUFFICES ASSUME s1.early, s1.then = "none" PROVE Records!Early'
      BY <1>1 DEF Records!Early
    <2>1. /\ \A u, v \in s5 : u = v
          /\ s3 = "record" /\ s5 # {} => s4.mine = 1
          /\ \A u \in s5 : u.do = "act" => s4.mine = 1
      BY DEF Records!RecordHolds, Records!Early
    <2>2. \A u, v \in s5' : u = v BY <1>11, <2>1
    <2>3. \A u \in s5' : u.do = "act" => s4.mine = 1 BY <1>3, <1>11, <2>1
    <2>4. s3 = "record" => s4.mine = 1 BY <2>1
    <2> QED BY <1>1, <2>2, <2>3, <2>4 DEF Records!Early
  <1>17. s1.then # "none" \/ s1.early => Records!Told'
    <2> SUFFICES ASSUME s1.then # "none" \/ s1.early PROVE Records!Told'
      OBVIOUS
    <2>1. r.do # "orphan" BY RequestSays
    <2>2. CASE r.do = "act" BY <1>3, <1>12, <2>2 DEF Records!Told
    <2>3. CASE r.do = "load" BY <1>3, <1>12, <2>3 DEF Records!Told
    <2> QED BY <1>2, <2>1, <2>2, <2>3
  <1>18. s1'.server = "once" => s2'.mine <= 1 BY <1>1, <1>5 DEF Records!RecordHolds
  <1>19. /\ s12'.failed => s8' \/ s1'.tells = "nowhere"
         /\ ~s12'.covered => s9' = s10'
         /\ s12'.covered => s1'.secret = "child"
         /\ s1'.secret = "none" => s10' = 0
    BY <1>1 DEF Records!RecordHolds
  <1>20. Records!Keeps'
    <2>1. Records!Keeps BY DEF Records!RecordHolds
    <2>2. (\E u \in s5' : u.do = "act") => \E u \in s5 : u.do = "act" BY <1>3, <1>11
    <2>3. (\E u \in s5' : u.n = 1) => \E u \in s5 : u.n = 1 BY <1>3, <1>11
    <2> QED BY <1>1, <2>1, <2>2, <2>3 DEF Records!Keeps
  <1> QED
    BY <1>1, <1>13, <1>14, <1>15, <1>16, <1>17, <1>18, <1>19, <1>20 DEF Records!RecordHolds

\* An answer is taken in: the history has its place.
LEMMA RecordTook ==
    ASSUME Records!RecordHolds, NEW r \in s5, r.at # "sent"
    PROVE  LET h == Records!Took(r)
           IN  /\ h \in Records!History /\ h.latest <= s11 /\ h.failed = FALSE
               /\ h.covered = s12.covered /\ h.lost = s12.lost
               /\ h.overtaken = (s12.overtaken \/ r.when < s12.latest)
               /\ h.latest = (IF r.when > s12.latest THEN r.when ELSE s12.latest)
  <1>1. /\ s12 \in Records!History /\ s12.latest \in 0..RecordAsks /\ s12.latest <= s11
        /\ s12.latest \in Nat
    BY RecordSays
  <1>2. r.when \in 0..RecordAsks /\ r.when <= s11 /\ r.when \in Nat BY RequestSays
  <1>3. (r.when < s12.latest) \in BOOLEAN BY <1>1, <1>2
  <1>4. (s12.overtaken \/ r.when < s12.latest) \in BOOLEAN BY <1>1, <1>3 DEF Records!History
  <1>5. (IF r.when > s12.latest THEN r.when ELSE s12.latest) \in 0..RecordAsks BY <1>1, <1>2
  <1>6. (IF r.when > s12.latest THEN r.when ELSE s12.latest) <= s11 BY <1>1, <1>2
  <1> QED BY <1>1, <1>4, <1>5, <1>6 DEF Records!Took, Records!History

\* A record that is current when it is taken in is what the page then shows,
\* unless a later one was taken in before.
LEMMA RecordTaken ==
    ASSUME Records!RecordHolds, NEW r \in s5, r.at # "sent",
           r.when < s12.latest \/ r.rec.mine = s2.mine,
           s1' = s1, s2' = s2, s5' = s5 \ {r}, s4' = r.rec,
           s12'.overtaken = (s12.overtaken \/ r.when < s12.latest),
           s12'.latest = (IF r.when > s12.latest THEN r.when ELSE s12.latest)
    PROVE  Records!Told'
  <1>1. CASE r.when < s12.latest BY <1>1 DEF Records!Told
  <1>2. CASE ~(r.when < s12.latest)
    <2>1. r.when \in Nat /\ s12.latest \in Nat BY RequestSays, RecordSays
    <2>2. s12'.latest = r.when /\ r.rec.mine = s2.mine BY <1>2, <2>1
    <2>3. ASSUME NEW u \in s5', u.at = "done", u.when >= s12'.latest PROVE u.rec.mine = s2'.mine
      <3>1. u \in s5 OBVIOUS
      <3>2. /\ u.when \in Nat /\ u.rec.mine \in Nat /\ u.rec.mine <= s2.mine /\ s2.mine \in Nat
        BY <2>3, <3>1, RequestSays, RecordSays
      <3>3. r.when <= u.when BY <2>1, <2>2, <2>3, <3>2
      <3>4. r.rec.mine <= u.rec.mine
        BY <2>3, <3>1, <3>3 DEF Records!RecordHolds, Records!InOrder, Records!Served
      <3> QED BY <2>2, <3>2, <3>4
    <2> QED BY <2>2, <2>3 DEF Records!Told
  <1> QED BY <1>1, <1>2

LEMMA RecordOthers == ASSUME Records!RecordHolds, Records!Other PROVE Records!RecordHolds'
  <1>1. /\ s2.others < MaxOthers /\ s2' = [s2 EXCEPT !.others = @ + 1]
        /\ s1' = s1 /\ s3' = s3 /\ s4' = s4 /\ s5' = s5 /\ s6' = s6 /\ s7' = s7 /\ s8' = s8 /\ s9' = s9
        /\ s10' = s10 /\ s11' = s11 /\ s12' = s12
    BY DEF Records!Other
  <1>2. s2 \in Records!Record BY RecordSays
  <1>3. s2.others + 1 \in 0..MaxOthers BY <1>1, RecordSays, RecordBounds
  <1>4. s2' \in Records!Record /\ s2'.mine = s2.mine BY <1>1, <1>2, <1>3 DEF Records!Record
  <1>5. Records!TypeOK' BY <1>1, <1>4 DEF Records!RecordHolds, Records!TypeOK
  <1>6. Records!Numbered' BY <1>1, <1>4 DEF Records!RecordHolds, Records!Numbered
  <1>7. Records!InOrder' BY <1>1, <1>4, RecordOrdered
  <1>8. Records!Guarded' BY <1>1, <1>4, RecordGuards
  <1>9. s1.then # "none" \/ s1.early => Records!Told'
    BY <1>1, <1>4 DEF Records!RecordHolds, Records!Told
  <1>10. Records!Early' /\ Records!Keeps'
    BY <1>1 DEF Records!RecordHolds, Records!Early, Records!Keeps
  <1>11. /\ s1'.server = "once" => s2'.mine <= 1
         /\ s12'.failed => s8' \/ s1'.tells = "nowhere"
         /\ ~s12'.covered => s9' = s10'
         /\ s12'.covered => s1'.secret = "child"
         /\ s1'.secret = "none" => s10' = 0
    BY <1>1, <1>4 DEF Records!RecordHolds
  <1> QED
    BY <1>1, <1>5, <1>6, <1>7, <1>8, <1>9, <1>10, <1>11 DEF Records!RecordHolds

LEMMA RecordLoads ==
    ASSUME Records!RecordHolds, NEW r \in s5, Records!Loaded(r) PROVE Records!RecordHolds'
  <1>1. /\ r.do = "load" /\ r.at = "done" /\ s5' = s5 \ {r} /\ s4' = r.rec
        /\ s3' = (IF s1.lost = "hidden" /\ s8 THEN "hidden" ELSE "record")
        /\ s12' = [Records!Took(r) EXCEPT !.lost = FALSE, !.failed = s12.failed]
        /\ s1' = s1 /\ s2' = s2 /\ s6' = s6 /\ s7' = s7 /\ s8' = s8 /\ s9' = s9
        /\ s10' = s10 /\ s11' = s11
    BY DEF Records!Loaded
  <1> DEFINE h == Records!Took(r)
  <1>2. /\ h \in Records!History /\ h.latest <= s11 /\ h.covered = s12.covered
        /\ h.overtaken = (s12.overtaken \/ r.when < s12.latest)
        /\ h.latest = (IF r.when > s12.latest THEN r.when ELSE s12.latest)
    BY <1>1, RecordTook
  <1>3. s12' = [h EXCEPT !.lost = FALSE, !.failed = s12.failed] BY <1>1
  <1> HIDE DEF h
  <1>4. s12 \in Records!History BY RecordSays
  <1>5. /\ s12' \in Records!History /\ s12'.latest <= s11 /\ s12'.covered = s12.covered
        /\ s12'.overtaken = (s12.overtaken \/ r.when < s12.latest)
        /\ s12'.latest = (IF r.when > s12.latest THEN r.when ELSE s12.latest)
        /\ s12'.failed = s12.failed
    BY <1>2, <1>3, <1>4 DEF Records!History
  <1>6. Counted(s5 \ {r}, s6, s11) BY RecordSays, CountedLess
  <1>7. Records!TypeOK' /\ Records!Numbered'
    <2>1. /\ s2' \in Records!Record /\ s5' \subseteq Records!Ask /\ s6' \in 0..RecordAsks
          /\ s11' \in 0..RecordAsks /\ s7' \in BOOLEAN /\ s8' \in BOOLEAN /\ s9' \in 0..RecordAsks
          /\ s10' \in 0..RecordAsks /\ s2'.mine <= s11'
      BY <1>1, RecordSays
    <2>2. s4' \in Records!Record BY <1>1, RequestSays
    <2>3. s3' \in {"loading", "record", "hidden", "card", "empty", "left"} BY <1>1
    <2>4. Counted(s5', s6', s11') /\ s12'.latest <= s11' /\ s1' = s1 BY <1>1, <1>5, <1>6
    <2> QED BY <1>5, <2>1, <2>2, <2>3, <2>4, RecordTyped
  <1>8. Records!InOrder' BY <1>1, RecordOrdered
  <1>9. Records!Guarded' BY <1>1, RecordGuards
  <1>10. Records!Early'
    <2> SUFFICES ASSUME s1.early, s1.then = "none" PROVE Records!Early'
      BY <1>1 DEF Records!Early
    <2>1. s5' = {} BY <1>1 DEF Records!RecordHolds, Records!Early
    <2> QED BY <2>1 DEF Records!Early
  <1>11. s1.then # "none" \/ s1.early => Records!Told'
    <2> SUFFICES ASSUME s1.then # "none" \/ s1.early PROVE Records!Told'
      OBVIOUS
    <2>1. Records!Told BY DEF Records!RecordHolds
    <2>2. CASE r.when < s12.latest \/ r.rec.mine = s2.mine BY <1>1, <1>5, <2>2, RecordTaken
    <2>3. CASE ~(r.when < s12.latest) /\ r.rec.mine # s2.mine
      <3>1. r.when >= s12.latest BY <2>3, RequestSays, RecordSays
      <3>2. \/ s12.overtaken \/ (s12.failed /\ s1.undo # "reload") \/ \E u \in s5 : u.do = "act"
            \/ \E u \in s5 : u.do = "load" /\ (u.at = "sent" \/ u.rec.mine = s2.mine)
        BY <1>1, <2>1, <2>3, <3>1 DEF Records!Told
      <3>3. (\E u \in s5 : u.do = "act") => \E u \in s5' : u.do = "act" BY <1>1
      <3>4. (\E u \in s5 : u.do = "load" /\ (u.at = "sent" \/ u.rec.mine = s2.mine))
            => \E u \in s5' : u.do = "load" /\ (u.at = "sent" \/ u.rec.mine = s2'.mine)
        BY <1>1, <2>3
      <3> QED BY <1>1, <1>5, <3>2, <3>3, <3>4 DEF Records!Told
    <2> QED BY <2>2, <2>3
  <1>12. /\ s1'.server = "once" => s2'.mine <= 1
         /\ s12'.failed => s8' \/ s1'.tells = "nowhere"
         /\ ~s12'.covered => s9' = s10'
         /\ s12'.covered => s1'.secret = "child"
         /\ s1'.secret = "none" => s10' = 0
    BY <1>1, <1>5 DEF Records!RecordHolds
  <1>13. Records!Keeps'
    <2> SUFFICES ASSUME s1.secret # "none", s1.lost # "hidden" PROVE Records!Keeps'
      BY <1>1 DEF Records!Keeps
    <2>1. s6 > 0 /\ \A u \in s5 : u.n = 1 => s6 = 1 BY DEF Records!RecordHolds, Records!Keeps
    <2>2. s3' = "record" BY <1>1
    <2>3. \A u \in s5' : u.n # 1
      <3>1. ASSUME NEW u \in s5, u.n = 1 PROVE u = r
        <4>1. s6 = 1 BY <2>1, <3>1
        <4>2. r.n = 1 BY <4>1, RequestSays
        <4> QED BY <3>1, <4>2, RecordSays DEF Counted
      <3> QED BY <1>1, <3>1
    <2> QED BY <1>1, <2>1, <2>2, <2>3 DEF Records!Keeps
  <1> QED
    BY <1>1, <1>7, <1>8, <1>9, <1>10, <1>11, <1>12, <1>13 DEF Records!RecordHolds

LEMMA RecordLoadFails ==
    ASSUME Records!RecordHolds, NEW r \in s5, Records!LoadFailed(r) PROVE Records!RecordHolds'
  <1>1. /\ r.do = "load" /\ s5' = s5 \ {r}
        /\ s3' = (CASE s1.lost = "waiting" -> "loading"
                    [] s1.lost = "emptied" -> IF s1.says THEN "card" ELSE "empty"
                    [] s1.lost = "hidden" -> "hidden"
                    [] s1.lost = "silent" -> IF s3 = "loading" THEN "empty" ELSE s3
                    [] s1.lost = "kept" -> IF r.n = 1 \/ s3 = "card" THEN "card" ELSE "record")
        /\ s8' = (s8 \/ s1.says \/ (r.n = 1 /\ s1.lost \in {"kept", "hidden"}))
        /\ s12' = [s12 EXCEPT !.lost = TRUE, !.latest = s11]
        /\ s1' = s1 /\ s2' = s2 /\ s4' = s4 /\ s6' = s6 /\ s7' = s7 /\ s9' = s9
        /\ s10' = s10 /\ s11' = s11
    BY DEF Records!LoadFailed
  <1>2. s1.lost \in {"kept", "hidden", "emptied", "silent", "waiting"} /\ s1.says \in BOOLEAN
    BY RecordSays DEF RecordPage
  <1>3. /\ s1.lost = "waiting" => s3' = "loading"
        /\ s1.lost = "emptied" => s3' = (IF s1.says THEN "card" ELSE "empty")
        /\ s1.lost = "hidden" => s3' = "hidden"
        /\ s1.lost = "silent" => s3' = (IF s3 = "loading" THEN "empty" ELSE s3)
        /\ s1.lost = "kept" => s3' = (IF r.n = 1 \/ s3 = "card" THEN "card" ELSE "record")
    BY <1>1, <1>2
  <1>4. /\ s12' \in Records!History /\ s12'.latest = s11 /\ s12'.covered = s12.covered
        /\ s12'.overtaken = s12.overtaken /\ s12'.failed = s12.failed /\ s12'.lost
    BY <1>1, RecordSays DEF Records!History
  <1>5. Counted(s5 \ {r}, s6, s11) BY RecordSays, CountedLess
  <1>6. Records!TypeOK' /\ Records!Numbered'
    <2>1. /\ s2' \in Records!Record /\ s5' \subseteq Records!Ask /\ s6' \in 0..RecordAsks
          /\ s11' \in 0..RecordAsks /\ s7' \in BOOLEAN /\ s9' \in 0..RecordAsks
          /\ s10' \in 0..RecordAsks /\ s2'.mine <= s11' /\ s4' \in Records!Record
      BY <1>1, RecordSays
    <2>2. s8' \in BOOLEAN BY <1>1, <1>2, RecordSays
    <2>3. s3' \in {"loading", "record", "hidden", "card", "empty", "left"}
      BY <1>2, <1>3, RecordSays
    <2>4. Counted(s5', s6', s11') /\ s12'.latest <= s11' /\ s1' = s1
      BY <1>1, <1>4, <1>5, RecordSays
    <2> QED BY <1>4, <2>1, <2>2, <2>3, <2>4, RecordTyped
  <1>7. Records!InOrder' BY <1>1, RecordOrdered
  <1>8. Records!Guarded' BY <1>1, RecordGuards
  <1>9. Records!Early'
    <2> SUFFICES ASSUME s1.early, s1.then = "none" PROVE Records!Early'
      BY <1>1 DEF Records!Early
    <2>1. s5' = {} BY <1>1 DEF Records!RecordHolds, Records!Early
    <2> QED BY <2>1 DEF Records!Early
  <1>10. Records!Told'
    <2>1. ASSUME NEW u \in s5', u.at = "done", u.when >= s12'.latest PROVE u.rec.mine = s2'.mine
      <3>1. u \in s5 /\ u.when >= s11 BY <1>1, <1>4, <2>1
      <3>2. u.when \in Nat /\ u.when <= s11 /\ (u.when = s11 => u.rec.mine = s2.mine) /\ s11 \in Nat
        BY <2>1, <3>1, RequestSays, RecordSays
      <3> QED BY <1>1, <3>1, <3>2
    <2> QED BY <1>4, <2>1 DEF Records!Told
  <1>11. /\ s1'.server = "once" => s2'.mine <= 1
         /\ s12'.failed => s8' \/ s1'.tells = "nowhere"
         /\ ~s12'.covered => s9' = s10'
         /\ s12'.covered => s1'.secret = "child"
         /\ s1'.secret = "none" => s10' = 0
    BY <1>1, <1>4 DEF Records!RecordHolds
  <1>12. Records!Keeps'
    <2> SUFFICES ASSUME s1.secret # "none", s1.lost # "hidden" PROVE Records!Keeps'
      BY <1>1 DEF Records!Keeps
    <2>1. /\ s10 # 0 \/ (\E u \in s5 : u.do = "act") => s3 \in {"record", "empty"}
          /\ s3 \in {"loading", "record", "empty", "card"} /\ (s3 = "card" => s1.lost = "kept")
          /\ s6 > 0 /\ \A u \in s5 : u.n = 1 => s3 = "loading" /\ s10 = 0 /\ s6 = 1
      BY DEF Records!RecordHolds, Records!Keeps
    <2>2. s1.lost \in {"kept", "silent", "emptied"} /\ (s1.lost = "emptied" => ~s1.says)
      BY RecordSays DEF RecordPage
    <2>3. \A u \in s5' : u.n # 1
      <3>1. ASSUME NEW u \in s5, u.n = 1 PROVE u = r
        <4>1. s6 = 1 BY <2>1, <3>1
        <4>2. r.n = 1 BY <4>1, RequestSays
        <4> QED BY <3>1, <4>2, RecordSays DEF Counted
      <3> QED BY <1>1, <3>1
    <2>4. (\E u \in s5' : u.do = "act") => \E u \in s5 : u.do = "act" BY <1>1
    <2>5. s10 # 0 \/ (\E u \in s5 : u.do = "act") => s3' \in {"record", "empty"}
      BY <1>3, <2>1, <2>2
    <2>6. s3' \in {"loading", "record", "empty", "card"} /\ (s3' = "card" => s1.lost = "kept")
      BY <1>3, <2>1, <2>2
    <2> QED BY <1>1, <2>1, <2>3, <2>4, <2>5, <2>6 DEF Records!Keeps
  <1> QED
    BY <1>1, <1>6, <1>7, <1>8, <1>9, <1>10, <1>11, <1>12 DEF Records!RecordHolds

LEMMA RecordDone ==
    ASSUME Records!RecordHolds, NEW r \in s5, Records!Done(r) PROVE Records!RecordHolds'
  <1> DEFINE new == Records!Sent(s6 + 1, "load")
             calm == [s12 EXCEPT !.failed = FALSE]
  <1>1. /\ r.do = "act" /\ r.at = "done" /\ s7' = FALSE
        /\ s1' = s1 /\ s2' = s2 /\ s8' = s8 /\ s11' = s11
        /\ \/ s1.secret # "none" /\ s9' = r.n /\ s10' = r.n
           \/ s9' = s9 /\ s10' = s10
    BY DEF Records!Done, Records!EndsBusy
  <1>2. \/ /\ s1.then = "reload" /\ s5' = (s5 \ {r}) \cup {new} /\ s6' = s6 + 1
           /\ s3' = (IF s1.blanks THEN "loading" ELSE s3) /\ s4' = s4 /\ s12' = calm
        \/ /\ s1.then \in {"answer", "leaves", "row"} /\ s5' = s5 \ {r} /\ s6' = s6
           /\ s3' \in {"record", "left"} /\ s4' = r.rec /\ s12' = Records!Took(r)
        \/ /\ s1.then = "none" /\ s5' = s5 \ {r} /\ s6' = s6 /\ s3' = s3 /\ s4' = s4 /\ s12' = calm
    <2>1. s1.then \in {"reload", "answer", "leaves", "row", "none"} BY RecordSays DEF RecordPage
    <2>2. CASE s1.then = "reload" BY <2>2 DEF Records!Done, Records!Reload
    <2>3. CASE s1.then = "answer" BY <2>3 DEF Records!Done
    <2>4. CASE s1.then = "leaves" BY <2>4 DEF Records!Done
    <2>5. CASE s1.then = "row" BY <2>5 DEF Records!Done
    <2>6. CASE s1.then = "none" BY <2>6 DEF Records!Done
    <2> QED BY <2>1, <2>2, <2>3, <2>4, <2>5, <2>6
  <1>3. /\ Counted(s5 \ {r}, s6, s11) /\ s6 + 1 + Cardinality(Calls(s5 \ {r})) <= RecordAsks
        /\ s5 \ {r} \in SUBSET Records!Ask
    BY <1>1, RecordSays, CountedLess
  <1>4. /\ new \in Records!Ask /\ new.n = s6 + 1 /\ new.do = "load" /\ new.at = "sent"
        /\ Counted((s5 \ {r}) \cup {new}, s6 + 1, s11) /\ s6 + 1 \in 0..RecordAsks
    BY <1>3, RecordAsksAgain
  <1>5. /\ calm \in Records!History /\ calm.latest = s12.latest /\ calm.covered = s12.covered
        /\ calm.failed = FALSE /\ calm.overtaken = s12.overtaken
    BY RecordSays DEF Records!History
  <1>6. LET h == Records!Took(r)
        IN  /\ h \in Records!History /\ h.latest <= s11 /\ h.failed = FALSE
            /\ h.covered = s12.covered /\ h.lost = s12.lost
            /\ h.overtaken = (s12.overtaken \/ r.when < s12.latest)
            /\ h.latest = (IF r.when > s12.latest THEN r.when ELSE s12.latest)
    BY <1>1, RecordTook
  <1> HIDE DEF new, calm
  <1>7. s12' \in Records!History /\ s12'.latest <= s11 /\ s12'.covered = s12.covered /\ ~s12'.failed
    BY <1>2, <1>5, <1>6, RecordSays
  <1>8. Counted(s5', s6', s11') /\ s6' \in 0..RecordAsks /\ s5' \subseteq Records!Ask
    BY <1>1, <1>2, <1>3, <1>4, RecordSays
  <1>9. \A u \in s5' : (u = new /\ s1.then = "reload") \/ (u \in s5 /\ u # r) BY <1>2
  <1>10. Records!TypeOK' /\ Records!Numbered'
    <2>1. /\ s2' \in Records!Record /\ s11' \in 0..RecordAsks /\ s8' \in BOOLEAN /\ s2'.mine <= s11'
      BY <1>1, RecordSays
    <2>2. s4' \in Records!Record BY <1>2, RecordSays, RequestSays
    <2>3. s3' \in {"loading", "record", "hidden", "card", "empty", "left"} BY <1>2, RecordSays
    <2>4. s9' \in 0..RecordAsks /\ s10' \in 0..RecordAsks
      <3>1. r.n \in 0..RecordAsks BY RequestSays, RecordBounds
      <3> QED BY <1>1, <3>1, RecordSays
    <2>5. s7' \in BOOLEAN /\ s1' = s1 /\ s12'.latest <= s11' BY <1>1, <1>7
    <2> QED BY <1>7, <1>8, <2>1, <2>2, <2>3, <2>4, <2>5, RecordTyped
  <1>11. Records!InOrder' BY <1>1, <1>4, <1>9, RecordOrdered
  <1>12. Records!Guarded'
    <2>1. s1.guard = "busy" => \A u \in s5 : u.do = "act" => u = r
      BY <1>1 DEF Records!RecordHolds, Records!Guarded
    <2>2. s1.guard = "busy" => \A u \in s5' : u.do # "act" BY <1>4, <1>9, <2>1
    <2>3. \A u \in s5' : u \in s5 \/ u.do = "load" BY <1>4, <1>9
    <2> QED BY <1>1, <2>2, <2>3, RecordGuards
  <1>13. Records!Early'
    <2> SUFFICES ASSUME s1.early, s1.then = "none" PROVE Records!Early'
      BY <1>1 DEF Records!Early
    <2>1. s5' = {} BY <1>9 DEF Records!RecordHolds, Records!Early
    <2> QED BY <2>1 DEF Records!Early
  <1>14. s1.then # "none" \/ s1.early => Records!Told'
    <2> SUFFICES ASSUME s1.then # "none" \/ s1.early PROVE Records!Told'
      OBVIOUS
    <2>1. CASE s1.then = "reload"
      <3>1. new \in s5' BY <1>2, <2>1
      <3> QED BY <1>4, <3>1 DEF Records!Told
    <2>2. CASE s1.then \in {"answer", "leaves", "row"}
      <3>1. s5' = s5 \ {r} /\ s4' = r.rec /\ s12' = Records!Took(r) BY <1>2, <2>2
      <3>2. r.rec.mine = s2.mine BY <1>1, <2>2 DEF Records!RecordHolds, Records!Guarded
      <3> QED BY <1>1, <1>6, <3>1, <3>2, RecordTaken
    <2>3. CASE s1.then = "none"
      <3>1. s5' = {} /\ s4.mine = 1
        BY <1>1, <1>9, <2>3 DEF Records!RecordHolds, Records!Early
      <3>2. s1.server = "sets" BY <2>3, RecordSays DEF RecordPage
      <3>3. r.rec.mine = 1 /\ s2.mine <= 1
        BY <1>1, <3>2 DEF Records!RecordHolds, Records!InOrder, Records!Served
      <3>4. r.rec.mine <= s2.mine /\ s2.mine \in Nat BY <1>1, RequestSays, RecordSays
      <3>5. s4'.mine = s2'.mine BY <1>1, <1>2, <2>3, <3>1, <3>3, <3>4
      <3> QED BY <3>1, <3>5 DEF Records!Told
    <2>4. s1.then \in {"reload", "answer", "leaves", "row", "none"} BY RecordSays DEF RecordPage
    <2> QED BY <2>1, <2>2, <2>3, <2>4
  <1>15. /\ s1'.server = "once" => s2'.mine <= 1
         /\ s12'.failed => s8' \/ s1'.tells = "nowhere"
         /\ ~s12'.covered => s9' = s10'
         /\ s12'.covered => s1'.secret = "child"
         /\ s1'.secret = "none" => s10' = 0
    BY <1>1, <1>7 DEF Records!RecordHolds
  <1>16. Records!Keeps'
    <2> SUFFICES ASSUME s1.secret # "none", s1.lost # "hidden" PROVE Records!Keeps'
      BY <1>1 DEF Records!Keeps
    <2>1. /\ \E u \in s5 : u.do = "act"
          /\ s10 # 0 \/ (\E u \in s5 : u.do = "act") => s3 \in {"record", "empty"}
          /\ s6 > 0 /\ \A u \in s5 : u.n = 1 => s3 = "loading" /\ s10 = 0 /\ s6 = 1
      BY <1>1 DEF Records!RecordHolds, Records!Keeps
    <2>2. s1.then = "reload" /\ ~s1.blanks BY RecordSays DEF RecordPage
    <2>3. s3' = s3 /\ s3 \in {"record", "empty"} /\ s6' = s6 + 1 BY <1>2, <2>1, <2>2
    <2>4. \A u \in s5 : u.n # 1 BY <2>1, <2>3
    <2>5. s6 \in Nat BY RecordSays
    <2>6. s6' > 0 /\ \A u \in s5' : u.n # 1 BY <1>4, <1>9, <2>1, <2>3, <2>4, <2>5
    <2> QED BY <1>1, <2>3, <2>6 DEF Records!Keeps
  <1> QED
    BY <1>1, <1>10, <1>11, <1>12, <1>13, <1>14, <1>15, <1>16 DEF Records!RecordHolds

LEMMA RecordFails ==
    ASSUME Records!RecordHolds, NEW r \in s5, Records!Failed(r) PROVE Records!RecordHolds'
  <1> DEFINE new == Records!Sent(s6 + 1, "load")
  <1>1. /\ r.do = "act" /\ s7' = FALSE /\ s8' = (s8 \/ s1.tells # "nowhere")
        /\ s12' = [s12 EXCEPT !.failed = TRUE]
        /\ s1' = s1 /\ s2' = s2 /\ s4' = s4 /\ s9' = s9 /\ s10' = s10 /\ s11' = s11
    BY DEF Records!Failed, Records!EndsBusy
  <1>2. \/ /\ s1.undo = "reload" /\ s5' = (s5 \ {r}) \cup {new} /\ s6' = s6 + 1
           /\ s3' = (IF s1.blanks THEN "loading" ELSE s3)
        \/ /\ s1.undo # "reload" /\ s5' = s5 \ {r} /\ s6' = s6
           /\ s3' = (IF s1.tells = "page" THEN (IF s1.retry THEN "card" ELSE "hidden") ELSE s3)
    BY DEF Records!Failed, Records!Reload
  <1>3. /\ Counted(s5 \ {r}, s6, s11) /\ s6 + 1 + Cardinality(Calls(s5 \ {r})) <= RecordAsks
        /\ s5 \ {r} \in SUBSET Records!Ask
    BY <1>1, RecordSays, CountedLess
  <1>4. /\ new \in Records!Ask /\ new.n = s6 + 1 /\ new.do = "load" /\ new.at = "sent"
        /\ Counted((s5 \ {r}) \cup {new}, s6 + 1, s11) /\ s6 + 1 \in 0..RecordAsks
    BY <1>3, RecordAsksAgain
  <1> HIDE DEF new
  <1>5. /\ s12' \in Records!History /\ s12'.latest = s12.latest /\ s12'.covered = s12.covered
        /\ s12'.failed /\ s12'.overtaken = s12.overtaken
    BY <1>1, RecordSays DEF Records!History
  <1>6. Counted(s5', s6', s11') /\ s6' \in 0..RecordAsks /\ s5' \subseteq Records!Ask
    BY <1>1, <1>2, <1>3, <1>4, RecordSays
  <1>7. \A u \in s5' : (u = new /\ s1.undo = "reload") \/ (u \in s5 /\ u # r) BY <1>2
  <1>8. Records!TypeOK' /\ Records!Numbered'
    <2>1. /\ s2' \in Records!Record /\ s11' \in 0..RecordAsks /\ s4' \in Records!Record
          /\ s9' \in 0..RecordAsks /\ s10' \in 0..RecordAsks /\ s2'.mine <= s11'
          /\ s12'.latest <= s11'
      BY <1>1, <1>5, RecordSays
    <2>2. s3' \in {"loading", "record", "hidden", "card", "empty", "left"} BY <1>2, RecordSays
    <2>3. s7' \in BOOLEAN /\ s8' \in BOOLEAN /\ s1' = s1 BY <1>1, RecordSays
    <2> QED BY <1>5, <1>6, <2>1, <2>2, <2>3, RecordTyped
  <1>9. Records!InOrder' BY <1>1, <1>4, <1>7, RecordOrdered
  <1>10. Records!Guarded'
    <2>1. s1.guard = "busy" => \A u \in s5 : u.do = "act" => u = r
      BY <1>1 DEF Records!RecordHolds, Records!Guarded
    <2>2. s1.guard = "busy" => \A u \in s5' : u.do # "act" BY <1>4, <1>7, <2>1
    <2>3. \A u \in s5' : u \in s5 \/ u.do = "load" BY <1>4, <1>7
    <2> QED BY <1>1, <2>2, <2>3, RecordGuards
  <1>11. Records!Early'
    <2> SUFFICES ASSUME s1.early, s1.then = "none" PROVE Records!Early'
      BY <1>1 DEF Records!Early
    <2>1. (\A u, v \in s5 : u = v) /\ s4.mine = 1
      BY <1>1 DEF Records!RecordHolds, Records!Early
    <2>2. \A u \in s5' : u = new BY <1>7, <2>1
    <2> QED BY <1>1, <1>4, <2>1, <2>2 DEF Records!Early
  <1>12. Records!Told'
    <2>1. CASE s1.undo = "reload"
      <3>1. new \in s5' BY <1>2, <2>1
      <3> QED BY <1>4, <3>1 DEF Records!Told
    <2>2. CASE s1.undo # "reload" BY <1>1, <1>5, <2>2 DEF Records!Told
    <2> QED BY <2>1, <2>2
  <1>13. /\ s1'.server = "once" => s2'.mine <= 1
         /\ s12'.failed => s8' \/ s1'.tells = "nowhere"
         /\ ~s12'.covered => s9' = s10'
         /\ s12'.covered => s1'.secret = "child"
         /\ s1'.secret = "none" => s10' = 0
    BY <1>1, <1>5 DEF Records!RecordHolds
  <1>14. Records!Keeps'
    <2> SUFFICES ASSUME s1.secret # "none", s1.lost # "hidden" PROVE Records!Keeps'
      BY <1>1 DEF Records!Keeps
    <2>1. /\ \E u \in s5 : u.do = "act"
          /\ s10 # 0 \/ (\E u \in s5 : u.do = "act") => s3 \in {"record", "empty"}
          /\ s6 > 0 /\ \A u \in s5 : u.n = 1 => s3 = "loading" /\ s10 = 0 /\ s6 = 1
      BY <1>1 DEF Records!RecordHolds, Records!Keeps
    <2>2. s1.undo = "none" /\ s1.tells # "page" BY RecordSays DEF RecordPage
    <2>3. s3' = s3 /\ s3 \in {"record", "empty"} /\ s6' = s6 /\ s5' = s5 \ {r}
      BY <1>2, <2>1, <2>2
    <2> QED BY <1>1, <2>1, <2>3 DEF Records!Keeps
  <1> QED
    BY <1>1, <1>8, <1>9, <1>10, <1>11, <1>12, <1>13, <1>14 DEF Records!RecordHolds

LEMMA RecordRetries == ASSUME Records!RecordHolds, Records!Retry PROVE Records!RecordHolds'
  <1> DEFINE new == Records!Sent(s6 + 1, "load")
  <1>1. /\ s1.retry /\ s5' = s5 \cup {new} /\ s6' = s6 + 1 /\ s8' = FALSE
        /\ s3' = (IF s1.blanks THEN "loading" ELSE s3)
        /\ s12' = [s12 EXCEPT !.failed = FALSE]
        /\ s1' = s1 /\ s2' = s2 /\ s4' = s4 /\ s7' = s7 /\ s9' = s9 /\ s10' = s10 /\ s11' = s11
    BY DEF Records!Retry, Records!Reload
  <1>2. RecordAsks - s6 - Cardinality(Calls(s5)) >= 1
    BY RecordSets DEF Records!Retry, Records!Room, Calls
  <1>3. Cardinality(Calls(s5)) \in Nat /\ s6 \in Nat /\ Counted(s5, s6, s11) /\ s5 \in SUBSET Records!Ask
    BY RecordSays, RequestsCounted DEF Counted
  <1>4. s6 + 1 + Cardinality(Calls(s5)) <= RecordAsks BY <1>2, <1>3, RecordBounds
  <1>5. /\ new \in Records!Ask /\ new.n = s6 + 1 /\ new.do = "load" /\ new.at = "sent"
        /\ Counted(s5 \cup {new}, s6 + 1, s11) /\ s6 + 1 \in 0..RecordAsks
    BY <1>3, <1>4, RecordAsksAgain
  <1> HIDE DEF new
  <1>6. /\ s12' \in Records!History /\ s12'.latest = s12.latest /\ s12'.covered = s12.covered
        /\ ~s12'.failed
    BY <1>1, RecordSays DEF Records!History
  <1>7. Records!TypeOK' /\ Records!Numbered'
    <2>1. /\ s2' \in Records!Record /\ s11' \in 0..RecordAsks /\ s4' \in Records!Record
          /\ s9' \in 0..RecordAsks /\ s10' \in 0..RecordAsks /\ s2'.mine <= s11'
          /\ s12'.latest <= s11' /\ s7' \in BOOLEAN
      BY <1>1, <1>6, RecordSays
    <2>2. s3' \in {"loading", "record", "hidden", "card", "empty", "left"} BY <1>1, RecordSays
    <2>3. s8' \in BOOLEAN /\ s1' = s1 BY <1>1
    <2>4. s5' \subseteq Records!Ask /\ Counted(s5', s6', s11') /\ s6' \in 0..RecordAsks
      BY <1>1, <1>3, <1>5
    <2> QED BY <1>6, <2>1, <2>2, <2>3, <2>4, RecordTyped
  <1>8. Records!InOrder' BY <1>1, <1>5, RecordOrdered
  <1>9. Records!Guarded' BY <1>1, <1>5, RecordGuards
  <1>10. ~(s1.early /\ s1.then = "none") /\ ~(s1.secret # "none" /\ s1.lost # "hidden")
    BY <1>1, RecordSays DEF RecordPage
  <1>11. Records!Early' BY <1>1, <1>10 DEF Records!Early
  <1>12. Records!Told' BY <1>1, <1>5 DEF Records!Told
  <1>13. /\ s1'.server = "once" => s2'.mine <= 1
         /\ s12'.failed => s8' \/ s1'.tells = "nowhere"
         /\ ~s12'.covered => s9' = s10'
         /\ s12'.covered => s1'.secret = "child"
         /\ s1'.secret = "none" => s10' = 0
    BY <1>1, <1>6 DEF Records!RecordHolds
  <1>14. Records!Keeps' BY <1>1, <1>10 DEF Records!Keeps
  <1> QED
    BY <1>1, <1>7, <1>8, <1>9, <1>11, <1>12, <1>13, <1>14 DEF Records!RecordHolds

LEMMA RecordElsewhere == ASSUME Records!RecordHolds, Records!Elsewhere PROVE Records!RecordHolds'
  <1> DEFINE F == {Lost(r) : r \in s5}
             new == Records!Sent(s6 + 1, "load")
  <1>1. /\ s1.secret = "child" /\ s5' = F \cup {new} /\ s6' = s6 + 1 /\ s9' = 0 /\ s7' = FALSE
        /\ s3' = (IF s1.blanks THEN "loading" ELSE s3)
        /\ s12' = [s12 EXCEPT !.covered = @ \/ s10 # 0]
        /\ s1' = s1 /\ s2' = s2 /\ s4' = s4 /\ s8' = s8 /\ s10' = s10 /\ s11' = s11
    BY DEF Records!Elsewhere, Records!Reload, Lost
  <1>2. RecordAsks - s6 - Cardinality(Calls(s5)) >= 1
    BY RecordSets DEF Records!Elsewhere, Records!Room, Calls
  <1>3. /\ Cardinality(Calls(s5)) \in Nat /\ s6 \in Nat /\ s11 \in Nat /\ Counted(s5, s6, s11)
        /\ s5 \in SUBSET Records!Ask
    BY RecordSays, RequestsCounted DEF Counted
  <1>4. Counted(F, s6, s11) /\ Cardinality(Calls(F)) <= Cardinality(Calls(s5)) BY <1>3, CountedLost
  <1>5. ASSUME NEW r \in s5
        PROVE  /\ Lost(r) \in Records!Ask /\ Lost(r).at = r.at /\ Lost(r).when = r.when
               /\ Lost(r).rec = r.rec /\ Lost(r).do # "act"
               /\ Lost(r).do = "load" => r.do = "load"
    <2>1. r \in Records!Ask BY <1>3
    <2> QED BY <2>1 DEF Lost, Records!Ask
  <1>6. F \in SUBSET Records!Ask BY <1>5
  <1>7. \A u \in F : \E r \in s5 : u = Lost(r) OBVIOUS
  <1> HIDE DEF F
  <1>8. s6 + 1 + Cardinality(Calls(F)) <= RecordAsks
    <2>1. Cardinality(Calls(F)) \in Nat BY <1>4, RequestsCounted DEF Counted
    <2> QED BY <1>2, <1>3, <1>4, <2>1, RecordBounds
  <1>9. /\ new \in Records!Ask /\ new.n = s6 + 1 /\ new.do = "load" /\ new.at = "sent"
        /\ Counted(F \cup {new}, s6 + 1, s11) /\ s6 + 1 \in 0..RecordAsks
    BY <1>4, <1>6, <1>8, RecordAsksAgain
  <1> HIDE DEF new
  <1>10. /\ s12' \in Records!History /\ s12'.latest = s12.latest
         /\ s12'.covered = (s12.covered \/ s10 # 0) /\ s12'.failed = s12.failed
    BY <1>1, RecordSays DEF Records!History
  <1>11. \A u \in s5' : u = new \/ \E r \in s5 : u = Lost(r) BY <1>1, <1>7
  <1>12. s1.then = "none" /\ ~s1.early /\ ~(s1.secret # "none" /\ s1.lost # "hidden")
    BY <1>1, RecordSays DEF RecordPage
  <1>13. Records!TypeOK' /\ Records!Numbered'
    <2>1. /\ s2' \in Records!Record /\ s11' \in 0..RecordAsks /\ s4' \in Records!Record
          /\ s10' \in 0..RecordAsks /\ s2'.mine <= s11' /\ s12'.latest <= s11' /\ s8' \in BOOLEAN
      BY <1>1, <1>10, RecordSays
    <2>2. s3' \in {"loading", "record", "hidden", "card", "empty", "left"} BY <1>1, RecordSays
    <2>3. s7' \in BOOLEAN /\ s1' = s1 BY <1>1
    <2>4. s9' \in 0..RecordAsks BY <1>1, RecordBounds
    <2>5. s5' \subseteq Records!Ask /\ Counted(s5', s6', s11') /\ s6' \in 0..RecordAsks
      BY <1>1, <1>6, <1>9
    <2> QED BY <1>10, <2>1, <2>2, <2>3, <2>4, <2>5, RecordTyped
  <1>14. Records!InOrder'
    <2>1. Records!InOrder BY DEF Records!RecordHolds
    <2>2. ASSUME NEW u \in s5', u.at # "sent"
          PROVE  \E r \in s5 : /\ u = Lost(r) /\ r.at = u.at /\ r.when = u.when /\ r.rec = u.rec
                               /\ u.do # "act"
      BY <1>5, <1>9, <1>11, <2>2
    <2>3. \A u \in s5' : u.at # "sent" =>
            u.when <= s11' /\ u.rec.mine <= s2'.mine /\ (u.when = s11' => u.rec.mine = s2'.mine)
      BY <1>1, <2>1, <2>2 DEF Records!InOrder, Records!Served
    <2>4. \A u, v \in s5' : u.at # "sent" /\ v.at # "sent" /\ u.when <= v.when => u.rec.mine <= v.rec.mine
      BY <2>1, <2>2 DEF Records!InOrder, Records!Served
    <2>5. \A u \in s5' : u.do = "load" => u.at # "refused"
      BY <1>5, <1>9, <1>11, <2>1 DEF Records!InOrder
    <2>6. s1'.server = "sets" =>
            s2'.mine <= 1 /\ \A u \in s5' : u.do = "act" /\ u.at # "sent" => u.at = "done" /\ u.rec.mine = 1
      BY <1>1, <2>1, <2>2 DEF Records!InOrder
    <2> QED BY <2>3, <2>4, <2>5, <2>6 DEF Records!InOrder, Records!Served
  <1>15. Records!Guarded'
    <2>1. \A u \in s5' : u.do # "act" BY <1>5, <1>9, <1>11
    <2> QED BY <1>1, <2>1 DEF Records!Guarded
  <1>16. Records!Early' BY <1>1, <1>12 DEF Records!Early
  <1>17. /\ s1'.server = "once" => s2'.mine <= 1
         /\ s12'.failed => s8' \/ s1'.tells = "nowhere"
         /\ ~s12'.covered => s9' = s10'
         /\ s12'.covered => s1'.secret = "child"
         /\ s1'.secret = "none" => s10' = 0
    BY <1>1, <1>10 DEF Records!RecordHolds
  <1>18. Records!Keeps' BY <1>1, <1>12 DEF Records!Keeps
  <1> QED
    BY <1>1, <1>12, <1>13, <1>14, <1>15, <1>16, <1>17, <1>18 DEF Records!RecordHolds

LEMMA RecordOrphaned ==
    ASSUME Records!RecordHolds, NEW r \in s5, Records!Orphaned(r) PROVE Records!RecordHolds'
  <1>1. /\ r.do = "orphan" /\ s5' = s5 \ {r}
        /\ s12' = [s12 EXCEPT !.covered = @ \/ r.at = "done"]
        /\ s1' = s1 /\ s2' = s2 /\ s3' = s3 /\ s4' = s4 /\ s6' = s6 /\ s7' = s7 /\ s8' = s8
        /\ s9' = s9 /\ s10' = s10 /\ s11' = s11
    BY DEF Records!Orphaned
  <1>2. s1.secret = "child" /\ s1.then = "none" /\ ~s1.early BY <1>1, RequestSays
  <1>3. ~(s1.secret # "none" /\ s1.lost # "hidden") BY <1>2, RecordSays DEF RecordPage
  <1>4. Counted(s5 \ {r}, s6, s11) BY RecordSays, CountedLess
  <1>5. /\ s12' \in Records!History /\ s12'.latest = s12.latest /\ s12'.failed = s12.failed
        /\ s12.covered => s12'.covered
    BY <1>1, RecordSays DEF Records!History
  <1>6. Records!TypeOK' /\ Records!Numbered'
    <2>1. /\ s2' \in Records!Record /\ s11' \in 0..RecordAsks /\ s4' \in Records!Record
          /\ s9' \in 0..RecordAsks /\ s10' \in 0..RecordAsks /\ s2'.mine <= s11'
          /\ s12'.latest <= s11' /\ s7' \in BOOLEAN /\ s8' \in BOOLEAN
          /\ s3' \in {"loading", "record", "hidden", "card", "empty", "left"}
      BY <1>1, <1>5, RecordSays
    <2>2. s5' \subseteq Records!Ask /\ Counted(s5', s6', s11') /\ s6' \in 0..RecordAsks /\ s1' = s1
      BY <1>1, <1>4, RecordSays
    <2> QED BY <1>5, <2>1, <2>2, RecordTyped
  <1>7. Records!InOrder' BY <1>1, RecordOrdered
  <1>8. Records!Guarded' BY <1>1, RecordGuards
  <1>9. Records!Early' BY <1>1, <1>2 DEF Records!Early
  <1>10. /\ s1'.server = "once" => s2'.mine <= 1
         /\ s12'.failed => s8' \/ s1'.tells = "nowhere"
         /\ ~s12'.covered => s9' = s10'
         /\ s12'.covered => s1'.secret = "child"
         /\ s1'.secret = "none" => s10' = 0
    BY <1>1, <1>2, <1>5 DEF Records!RecordHolds
  <1>11. Records!Keeps' BY <1>1, <1>3 DEF Records!Keeps
  <1> QED BY <1>1, <1>2, <1>6, <1>7, <1>8, <1>9, <1>10, <1>11 DEF Records!RecordHolds

LEMMA RecordDismisses == ASSUME Records!RecordHolds, Records!Dismiss PROVE Records!RecordHolds'
  <1>1. /\ s9' = 0 /\ s10' = 0
        /\ s1' = s1 /\ s2' = s2 /\ s3' = s3 /\ s4' = s4 /\ s5' = s5 /\ s6' = s6 /\ s7' = s7
        /\ s8' = s8 /\ s11' = s11 /\ s12' = s12
    BY DEF Records!Dismiss
  <1>2. 0 \in 0..RecordAsks BY RecordBounds
  <1>3. Records!TypeOK' BY <1>1, <1>2 DEF Records!RecordHolds, Records!TypeOK
  <1>4. Records!Numbered' BY <1>1 DEF Records!RecordHolds, Records!Numbered
  <1>5. Records!InOrder' BY <1>1, RecordOrdered
  <1>6. Records!Guarded' BY <1>1, RecordGuards
  <1>7. Records!Early' BY <1>1 DEF Records!RecordHolds, Records!Early
  <1>8. s1.then # "none" \/ s1.early => Records!Told' BY <1>1 DEF Records!RecordHolds, Records!Told
  <1>9. Records!Keeps' BY <1>1 DEF Records!RecordHolds, Records!Keeps
  <1>10. /\ s1'.server = "once" => s2'.mine <= 1
         /\ s12'.failed => s8' \/ s1'.tells = "nowhere"
         /\ ~s12'.covered => s9' = s10'
         /\ s12'.covered => s1'.secret = "child"
         /\ s1'.secret = "none" => s10' = 0
    BY <1>1 DEF Records!RecordHolds
  <1> QED
    BY <1>1, <1>3, <1>4, <1>5, <1>6, <1>7, <1>8, <1>9, <1>10 DEF Records!RecordHolds

LEMMA RecordInit == ASSUME Records!Init PROVE Records!RecordHolds
  <1> DEFINE first == Records!Sent(1, "load")
  <1>1. /\ s1 \in Records!Pages /\ s2 = [mine |-> 0, others |-> 0] /\ s4 = s2
        /\ \/ s1.opens = "form" /\ s3 = "record" /\ s5 = {} /\ s6 = 0
           \/ s1.opens # "form" /\ s3 = "loading" /\ s5 = {first} /\ s6 = 1
        /\ s7 = FALSE /\ s8 = FALSE /\ s9 = 0 /\ s10 = 0 /\ s11 = 0
        /\ s12 = [overtaken |-> FALSE, lost |-> FALSE, covered |-> FALSE, failed |-> FALSE, latest |-> 0]
    BY DEF Records!Init
  <1>2. 0 \in 0..RecordAsks /\ 1 \in 0..RecordAsks /\ 1 \in 1..RecordAsks /\ 0 \in 0..MaxOthers
    BY RecordBounds
  <1>3. first \in Records!Ask /\ first.n = 1 /\ first.do = "load" /\ first.at = "sent"
    BY <1>2, SentIsOne
  <1> HIDE DEF first
  <1>4. s2 \in Records!Record /\ s2.mine = 0 BY <1>1, <1>2 DEF Records!Record
  <1>5. s12 \in Records!History BY <1>1, <1>2 DEF Records!History
  <1>6. RecordPage(s1) BY <1>1, RecordPagesSay
  <1>7. \A r \in s5 : r = first /\ s6 = 1 /\ s3 = "loading" BY <1>1
  <1>8. Records!TypeOK
    <2>1. s6 \in 0..RecordAsks /\ s11 \in 0..RecordAsks /\ s9 \in 0..RecordAsks /\ s10 \in 0..RecordAsks
      BY <1>1, <1>2
    <2>2. s5 \subseteq Records!Ask BY <1>3, <1>7
    <2>3. s3 \in {"loading", "record", "hidden", "card", "empty", "left"} BY <1>1
    <2>4. s7 \in BOOLEAN /\ s8 \in BOOLEAN /\ s1 \in Records!Pages /\ s4 \in Records!Record
      BY <1>1, <1>4
    <2> QED BY <1>4, <1>5, <2>1, <2>2, <2>3, <2>4 DEF Records!TypeOK
  <1>9. Records!Numbered
    <2>1. CASE s5 = {} /\ s6 = 0
      <3>1. Calls(s5) = {} /\ Unserved(s5) = {} BY <2>1 DEF Calls, Unserved
      <3>2. IsFiniteSet(s5) /\ Cardinality(Calls(s5)) = 0 /\ Cardinality(Unserved(s5)) = 0
        BY <2>1, <3>1, FS_EmptySet
      <3> QED BY <1>1, <1>4, <2>1, <3>2, RecordBounds, RecordCounts
    <2>2. CASE s5 = {first} /\ s6 = 1
      <3>1. Calls(s5) = {} /\ Unserved(s5) = {first} BY <1>3, <2>2 DEF Calls, Unserved
      <3>2. IsFiniteSet(s5) /\ Cardinality(Calls(s5)) = 0 /\ Cardinality(Unserved(s5)) = 1
        BY <2>2, <3>1, FS_EmptySet, FS_Singleton
      <3> QED BY <1>1, <1>3, <1>4, <2>2, <3>2, RecordBounds, RecordCounts
    <2> QED BY <1>1, <2>1, <2>2
  <1>10. Records!InOrder
    <2>1. \A r \in s5 : r.at = "sent" BY <1>3, <1>7
    <2> QED BY <1>4, <2>1 DEF Records!InOrder, Records!Served
  <1>11. Records!Guarded BY <1>3, <1>7 DEF Records!Guarded
  <1>12. Records!Early BY <1>3, <1>7 DEF Records!Early
  <1>13. Records!Told
    <2>1. CASE s5 = {} BY <1>1, <2>1 DEF Records!Told
    <2>2. CASE s5 = {first} BY <1>3, <2>2 DEF Records!Told
    <2> QED BY <1>1, <2>1, <2>2
  <1>14. Records!Keeps
    <2> SUFFICES ASSUME s1.secret # "none", s1.lost # "hidden" PROVE Records!Keeps
      BY DEF Records!Keeps
    <2>1. s1.opens # "form" BY <1>6 DEF RecordPage
    <2> QED BY <1>1, <1>3, <1>7, <2>1 DEF Records!Keeps
  <1> QED
    BY <1>1, <1>4, <1>8, <1>9, <1>10, <1>11, <1>12, <1>13, <1>14 DEF Records!RecordHolds

LEMMA RecordNextKeeps == ASSUME Records!RecordHolds, Records!Next PROVE Records!RecordHolds'
  BY RecordPresses, RecordOthers, RecordRetries, RecordElsewhere, RecordDismisses, RecordServes,
     RecordLoads, RecordLoadFails, RecordDone, RecordFails, RecordOrphaned, Zenon DEF Records!Next

LEMMA RecordTold ==
    ASSUME Records!RecordHolds
    PROVE  /\ Records!TypeOK /\ Records!ShowsWhatWasDone /\ Records!FailureIsTold
           /\ Records!SecretStays /\ Records!OneEffectPerDecision
  <1>1. Records!TypeOK BY DEF Records!RecordHolds
  <1>2. Records!ShowsWhatWasDone
    BY DEF Records!RecordHolds, Records!Told, Records!ShowsWhatWasDone, Records!AtRest
  <1>3. Records!FailureIsTold BY DEF Records!RecordHolds, Records!FailureIsTold
  <1>4. Records!SecretStays
    BY DEF Records!RecordHolds, Records!SecretStays, Records!Keeps
  <1>5. Records!OneEffectPerDecision
    <2> DEFINE acts == {r \in s5 : r.do = "act"}
    <2>1. ASSUME s1.guard = "busy" PROVE Cardinality(acts) <= 1
      <3>1. \A u, v \in acts : u = v BY <2>1 DEF Records!RecordHolds, Records!Guarded
      <3>2. acts = {} \/ \E u : acts = {u} BY <3>1
      <3> HIDE DEF acts
      <3>3. \A u : Cardinality({u}) = 1 BY FS_Singleton
      <3>4. Cardinality({}) = 0 BY FS_EmptySet
      <3>5. CASE acts = {} BY <3>4, <3>5
      <3>6. CASE \E u : acts = {u}
        <4>1. PICK u : acts = {u} BY <3>6
        <4>2. Cardinality(acts) = 1 BY <4>1, <3>3
        <4> QED BY <4>2
      <3> QED BY <3>2, <3>5, <3>6
    <2>2. s1.server = "once" => s2.mine <= 1 BY DEF Records!RecordHolds
    <2> QED BY <2>1, <2>2, RecordSets DEF Records!OneEffectPerDecision
  <1> QED BY <1>1, <1>2, <1>3, <1>4, <1>5

-----------------------------------------------------------------------------
(* Together: every part keeps what it holds while it is the one explored.      *)

LEMMA ListsRest ==
    ASSUME Lists!ListHolds, UNCHANGED <<s1, s2, s3, s4, s5, s6, s7, s8, s9, s10, s11>>
    PROVE  Lists!ListHolds'
  <1>1. /\ s3' \in Text \cup {All} /\ s10' \in Lists!Question \cup {Nothing}
        /\ s10' # Nothing => s1.again = "late"
    BY DEF Lists!ListHolds, Lists!TypeOK
  <1> QED BY <1>1, ListRests

LEMMA RecordsRest ==
    ASSUME Records!RecordHolds,
           UNCHANGED <<s1, s2, s3, s4, s5, s6, s7, s8, s9, s10, s11, s12>>
    PROVE  Records!RecordHolds'
  BY DEF Records!RecordHolds, Records!TypeOK, Records!Numbered, Records!InOrder, Records!Served,
         Records!Guarded, Records!Early, Records!Told, Records!Keeps

LEMMA IrisRests ==
    ASSUME Iris!PageHolds, UNCHANGED <<s1, s2, s3, s4, s5, s6, s7, s8, s9, s10>>
    PROVE  Iris!PageHolds'
  BY DEF Iris!PageHolds, Iris!TypeOK, Iris!RepliesInPlace, Iris!GoesWhereShown, Iris!CardsAreTrue,
         Iris!CardsOfPast, Iris!OwnBubble, Iris!Streaming, Iris!Loading, Iris!LastIsReply

LEMMA GateRests ==
    ASSUME Gate!GateHolds,
           UNCHANGED <<s1, s2, s3, s4, s5, s6, s7, s8, s9, s10, s11, s12, s13, s14>>
    PROVE  Gate!GateHolds'
  BY DEF Gate!GateHolds, Gate!TypeOK, Gate!LockedShowsNothing, Gate!RecordsMatchHeading,
         Gate!Document

\* The inductive invariant of the whole: that of the part explored.
ConsoleHolds ==
    /\ focus \in {"lists", "records", "iris", "gate"}
    /\ focus = "lists" => Lists!ListHolds
    /\ focus = "records" => Records!RecordHolds
    /\ focus = "iris" => Iris!PageHolds
    /\ focus = "gate" => Gate!GateHolds

LEMMA ConsoleInit == ASSUME MCInit PROVE ConsoleHolds
  <1>1. CASE focus = "lists" /\ Lists!Init BY <1>1, ListInit DEF ConsoleHolds
  <1>2. CASE focus = "records" /\ Records!Init BY <1>2, RecordInit DEF ConsoleHolds
  <1>3. CASE focus = "iris" /\ Iris!Init BY <1>3, PageInit DEF ConsoleHolds
  <1>4. CASE focus = "gate" /\ Gate!Init BY <1>4, GateInit DEF ConsoleHolds
  <1> QED BY <1>1, <1>2, <1>3, <1>4 DEF MCInit

LEMMA ConsoleNext == ASSUME ConsoleHolds, [MCNext]_all PROVE ConsoleHolds'
  <1>1. CASE MCNext
    <2>0. focus' = focus BY <1>1 DEF MCNext
    <2>1. CASE focus = "lists" /\ ListsNext
      <3>1. Lists!ListHolds' BY <2>1, ListNextKeeps DEF ConsoleHolds, ListsNext
      <3> QED BY <2>0, <2>1, <3>1 DEF ConsoleHolds
    <2>2. CASE focus = "records" /\ RecordsNext
      <3>1. Records!RecordHolds' BY <2>2, RecordNextKeeps DEF ConsoleHolds, RecordsNext
      <3> QED BY <2>0, <2>2, <3>1 DEF ConsoleHolds
    <2>3. CASE focus = "iris" /\ IrisNext
      <3>1. Iris!PageHolds' BY <2>3, PageNextKeeps DEF ConsoleHolds, IrisNext
      <3> QED BY <2>0, <2>3, <3>1 DEF ConsoleHolds
    <2>4. CASE focus = "gate" /\ Gate!Next
      <3>1. Gate!GateHolds' BY <2>4, GateNextKeeps DEF ConsoleHolds
      <3> QED BY <2>0, <2>4, <3>1 DEF ConsoleHolds
    <2> QED BY <1>1, <2>1, <2>2, <2>3, <2>4 DEF MCNext
  <1>2. CASE UNCHANGED all
    <2>1. UNCHANGED <<focus, s1, s2, s3, s4, s5, s6, s7, s8, s9, s10, s11, s12, s13, s14>>
      BY <1>2 DEF all, ten, rest
    <2>2. ASSUME Lists!ListHolds PROVE Lists!ListHolds'
      <3>1. UNCHANGED <<s1, s2, s3, s4, s5, s6, s7, s8, s9, s10, s11>> BY <2>1
      <3> QED BY <2>2, <3>1, ListsRest
    <2>3. Records!RecordHolds => Records!RecordHolds' BY <2>1, RecordsRest
    <2>4. Iris!PageHolds => Iris!PageHolds' BY <2>1, IrisRests
    <2>5. Gate!GateHolds => Gate!GateHolds' BY <2>1, GateRests
    <2> QED BY <2>1, <2>2, <2>3, <2>4, <2>5 DEF ConsoleHolds
  <1> QED BY <1>1, <1>2

LEMMA ConsoleAlways == MCSpec => []ConsoleHolds
  BY ConsoleInit, ConsoleNext, PTL DEF MCSpec

\* Every page keeps to its types, for any rows, filters and words, any number of
\* requests and of turns, any window and any length of a session.
THEOREM ConsoleKeepsItsTypes == MCSpec => []TypesOK
  <1>1. ASSUME ConsoleHolds PROVE TypesOK
    <2>1. CASE focus = "lists"
      <3>1. Lists!TypeOK BY <1>1, <2>1, ListTold DEF ConsoleHolds
      <3> QED BY <2>1, <3>1, Zenon DEF TypesOK
    <2>2. CASE focus = "records"
      <3>1. Records!TypeOK BY <1>1, <2>2, RecordTold DEF ConsoleHolds
      <3> QED BY <2>2, <3>1, Zenon DEF TypesOK
    <2>3. CASE focus = "iris"
      <3>1. Iris!TypeOK BY <1>1, <2>3, PageTold DEF ConsoleHolds
      <3> QED BY <2>3, <3>1, Zenon DEF TypesOK
    <2>4. CASE focus = "gate"
      <3>1. Gate!TypeOK BY <1>1, <2>4, GateTold DEF ConsoleHolds
      <3> QED BY <2>4, <3>1, Zenon DEF TypesOK
    <2> QED BY <1>1, <2>1, <2>2, <2>3, <2>4 DEF ConsoleHolds
  <1> QED BY <1>1, ConsoleAlways, PTL

\* What is on the screen belongs there, on every page: rows answer what the controls
\* ask, a record has what the officer did to it, a bubble the reply to the message
\* above it, and raw records stand under their own upload's heading.
THEOREM WhatIsShownIsAsked == MCSpec => []ShownIsAsked
  <1>1. ASSUME ConsoleHolds PROVE ShownIsAsked
    <2>1. CASE focus = "lists"
      <3>1. Lists!ShowsWhatIsAsked /\ Lists!EmptyMeansNone
        BY <1>1, <2>1, ListTold DEF ConsoleHolds
      <3> QED BY <2>1, <3>1, Zenon DEF ShownIsAsked
    <2>2. CASE focus = "records"
      <3>1. Records!ShowsWhatWasDone /\ Records!FailureIsTold /\ Records!SecretStays
        BY <1>1, <2>2, RecordTold DEF ConsoleHolds
      <3> QED BY <2>2, <3>1, Zenon DEF ShownIsAsked
    <2>3. CASE focus = "iris"
      <3>1. Iris!RepliesInPlace /\ Iris!GoesWhereShown BY <1>1, <2>3, PageTold DEF ConsoleHolds
      <3> QED BY <2>3, <3>1, Zenon DEF ShownIsAsked
    <2>4. CASE focus = "gate"
      <3>1. Gate!LockedShowsNothing /\ Gate!RecordsMatchHeading
        BY <1>1, <2>4, GateTold DEF ConsoleHolds
      <3> QED BY <2>4, <3>1, Zenon DEF ShownIsAsked
    <2> QED BY <1>1, <2>1, <2>2, <2>3, <2>4 DEF ConsoleHolds
  <1> QED BY <1>1, ConsoleAlways, PTL

\* One decision has one effect, and the one that was meant: no action is taken twice
\* for one press, a card says done only when its draft is, and what opens behind the
\* gate is the document that was refused.
THEOREM EachDecisionOnce == MCSpec => []DoneOnce
  <1>1. ASSUME ConsoleHolds PROVE DoneOnce
    <2>1. CASE focus = "records"
      <3>1. Records!OneEffectPerDecision BY <1>1, <2>1, RecordTold DEF ConsoleHolds
      <3> QED BY <2>1, <3>1, Zenon DEF DoneOnce
    <2>2. CASE focus = "iris"
      <3>1. Iris!CardsAreTrue BY <1>1, <2>2, PageTold DEF ConsoleHolds
      <3> QED BY <2>2, <3>1, Zenon DEF DoneOnce
    <2>3. CASE focus = "gate"
      <3>1. Gate!OpensWhatWasAsked BY <1>1, <2>3, GateTold DEF ConsoleHolds
      <3> QED BY <2>3, <3>1, Zenon DEF DoneOnce
    <2>4. CASE focus = "lists" BY <2>4, Zenon DEF DoneOnce
    <2> QED BY <1>1, <2>1, <2>2, <2>3, <2>4 DEF ConsoleHolds
  <1> QED BY <1>1, ConsoleAlways, PTL
=============================================================================
