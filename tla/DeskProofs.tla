----------------------------- MODULE DeskProofs ------------------------------
(* What the decisions of the desk rest on, for any number of requests, of      *)
(* versions, cases, recommendations, drafts, taxpayers, payments and notices.  *)
EXTENDS MCDesk, FiniteSetTheorems, SequenceTheorems, WellFoundedInduction, TLAPS

-----------------------------------------------------------------------------
(* Numbers.                                                                    *)

LEMMA LeastExists ==
    ASSUME NEW T \in SUBSET Nat, T # {}
    PROVE  \E x \in T : \A y \in T : x <= y
<1>1. PICK x \in T : \A y \in T : <<y, x>> \notin OpToRel(<, Nat)
  BY NatLessThanWellFounded, WFMin, Zenon
<1>2. \A y \in T : ~(y < x)
  BY <1>1 DEF OpToRel
<1>. QED  BY <1>2

LEMMA QuotientGrows ==
    ASSUME NEW m \in Nat \ {0}, NEW a \in Nat, NEW b \in Nat, a <= b
    PROVE  a \div m \in Nat /\ a \div m <= b \div m
  OBVIOUS

LEMMA QuotientOfMore ==
    ASSUME NEW m \in Nat \ {0}, NEW a \in Nat, m <= a
    PROVE  a \div m >= 1
  OBVIOUS

LEMMA ProductGrows ==
    ASSUME NEW k \in Nat, NEW a \in Nat, NEW b \in Nat, a <= b
    PROVE  a * k \in Nat /\ a * k <= b * k
  OBVIOUS

\* What is not more than one is one.
LEMMA AtMostOne ==
    ASSUME NEW S, IsFiniteSet(S), NEW A \in SUBSET S, ~(Cardinality(A) > 1), NEW q \in A, NEW r \in A
    PROVE  q = r
<1>. SUFFICES ASSUME q # r
              PROVE  FALSE
  OBVIOUS
<1>1. IsFiniteSet(A)
  BY FS_Subset
<1>2. Cardinality({q}) = 1 /\ IsFiniteSet({q})
  BY FS_Singleton
<1>3. Cardinality({q} \cup {r}) = 2
  <2>1. r \notin {q}
    OBVIOUS
  <2>2. Cardinality({q} \cup {r}) = Cardinality({q}) + 1
    BY <1>2, <2>1, FS_AddElement
  <2>. QED  BY <1>2, <2>2
<1>4. Cardinality({q} \cup {r}) <= Cardinality(A) /\ Cardinality(A) \in Nat
  BY <1>1, FS_Subset, FS_CardinalityType
<1>. QED  BY <1>3, <1>4

-----------------------------------------------------------------------------
(* Penalties.                                                                  *)

\* What the component says of sets is what the library proves of them.
LEMMA PenaltySets ==
    \A S : /\ Penalty!IsFiniteSet(S) = IsFiniteSet(S)
          /\ Penalty!Cardinality(S) = Cardinality(S)
<1>1. \A S : Penalty!IsFiniteSet(S) = IsFiniteSet(S)
  BY DEF IsFiniteSet, Penalty!IsFiniteSet
<1>2. \A S : Penalty!Cardinality(S) = Cardinality(S)
  BY DEF Cardinality, Penalty!Cardinality
<1>. QED  BY <1>1, <1>2

\* A later day is in default for as many months or more; past the due date, one.
LEMMA MonthsGrow ==
    ASSUME Penalty!PenaltyAssumption, NEW due \in Nat, NEW a \in Nat, NEW b \in Nat, a <= b
    PROVE  /\ Penalty!MonthsInDefault(due, a) \in Nat
           /\ Penalty!MonthsInDefault(due, a) <= Penalty!MonthsInDefault(due, b)
           /\ due < a => Penalty!MonthsInDefault(due, a) >= 1
<1>1. Month \in Nat \ {0}
  BY DEF Penalty!PenaltyAssumption
<1>2. CASE a <= due
  <2>1. Penalty!MonthsInDefault(due, a) = 0
    BY <1>2 DEF Penalty!MonthsInDefault
  <2>2. Penalty!MonthsInDefault(due, b) \in Nat
    <3>1. CASE b <= due
      BY <3>1 DEF Penalty!MonthsInDefault
    <3>2. CASE due < b
      <4>1. b - due + Month - 1 \in Nat
        BY <1>1, <3>2
      <4>. QED  BY <1>1, <3>2, <4>1, QuotientGrows DEF Penalty!MonthsInDefault
    <3>. QED  BY <3>1, <3>2
  <2>. QED  BY <1>2, <2>1, <2>2
<1>3. CASE due < a
  <2> DEFINE x == a - due + Month - 1
             y == b - due + Month - 1
  <2>1. x \in Nat /\ y \in Nat /\ x <= y /\ Month <= x
    BY <1>1, <1>3
  <2>2. Penalty!MonthsInDefault(due, a) = x \div Month /\ Penalty!MonthsInDefault(due, b) = y \div Month
    BY <1>3 DEF Penalty!MonthsInDefault
  <2>. HIDE DEF x, y
  <2>. QED  BY <1>1, <2>1, <2>2, QuotientGrows, QuotientOfMore
<1>. QED  BY <1>2, <1>3

\* More months cost as much or more.
LEMMA FinesGrow ==
    ASSUME NEW first \in Nat, NEW per \in Nat, NEW m \in Nat, NEW n \in Nat, 1 <= m, m <= n
    PROVE  Penalty!S101(m, first, per) \in Nat /\ Penalty!S101(m, first, per) <= Penalty!S101(n, first, per)
<1> DEFINE a == (m - 1) * per
           b == (n - 1) * per
<1>1. a \in Nat /\ b \in Nat /\ a <= b
  <2>1. m - 1 \in Nat /\ n - 1 \in Nat /\ m - 1 <= n - 1
    OBVIOUS
  <2>. QED  BY <2>1, ProductGrows
<1>2. Penalty!S101(m, first, per) = first + a /\ Penalty!S101(n, first, per) = first + b
  BY DEF Penalty!S101
<1>. HIDE DEF a, b
<1>. QED  BY <1>1, <1>2

\* The first return that counts is the earliest of them.
LEMMA FirstIsEarliest ==
    ASSUME Penalty!TypeOK, Penalty!Counted # {}
    PROVE  /\ \E x \in Penalty!Counted : Penalty!FirstAt = x.at
           /\ \A x \in Penalty!Counted : Penalty!FirstAt <= x.at
           /\ Penalty!FirstAt \in Nat
<1> DEFINE T == {x.at : x \in Penalty!Counted}
<1>1. T \in SUBSET Nat /\ T # {}
  BY DEF Penalty!TypeOK, Penalty!Counted
<1>2. PICK t \in T : \A u \in T : t <= u
  <2>. HIDE DEF T
  <2>. QED  BY <1>1, LeastExists
<1>3. \E u \in T : \A x \in Penalty!Counted : u <= x.at
  BY <1>2
<1>4. Penalty!FirstAt = CHOOSE u \in T : \A x \in Penalty!Counted : u <= x.at
  BY DEF Penalty!FirstAt
<1>5. Penalty!FirstAt \in T /\ \A x \in Penalty!Counted : Penalty!FirstAt <= x.at
  <2>. HIDE DEF T
  <2>. QED  BY <1>3, <1>4
<1>. QED  BY <1>1, <1>5

LEMMA PenaltyNumbers ==
    ASSUME Penalty!PenaltyAssumption, Penalty!TypeOK
    PROVE  /\ s1 \in Nat /\ s2 \in Nat /\ 1 \in Penalty!Versions /\ s2 >= 1
           /\ Penalty!Versions \subseteq Nat \ {0} /\ s2 \in Penalty!Versions
           /\ \A v \in Penalty!Versions : /\ Figures[v].due \in Nat /\ Figures[v].from \in Nat
                                          /\ Figures[v].first \in Nat /\ Figures[v].per \in Nat
           /\ \A x \in s3 : x.at \in Nat
<1>1. Penalty!Versions \subseteq Nat \ {0}
  <2>1. Cardinality(Penalty!Versions) \in Nat
    BY PenaltySets, FS_CardinalityType DEF Penalty!PenaltyAssumption
  <2>. QED  BY <2>1, PenaltySets DEF Penalty!PenaltyAssumption
<1>2. \A v \in Penalty!Versions : Figures[v] \in [due : Nat, first : Nat, per : Nat, from : Nat]
  BY DEF Penalty!PenaltyAssumption
<1>3. s1 \in Nat
  BY DEF Penalty!PenaltyAssumption, Penalty!TypeOK
<1>. QED  BY <1>1, <1>2, <1>3 DEF Penalty!PenaltyAssumption, Penalty!TypeOK

\* A request that has gone on, or ended, is a request.
LEMMA PenaltyJob ==
    ASSUME Penalty!TypeOK, NEW r \in Clerks, NEW j \in Penalty!Jobs, s6' = [s6 EXCEPT ![r] = j]
    PROVE  s6' \in [Clerks -> Penalty!Jobs] /\ s6'[r] = j /\ \A q \in Clerks \ {r} : s6'[q] = s6[q]
  BY DEF Penalty!TypeOK

LEMMA PenaltyIdle ==
    ASSUME Penalty!PenaltyAssumption, Penalty!TypeOK, NEW pc \in {"idle", "done"}
    PROVE  /\ [Penalty!IdleJob EXCEPT !.pc = pc] \in Penalty!Jobs
           /\ Penalty!Grounded([Penalty!IdleJob EXCEPT !.pc = pc])
           /\ Penalty!Refers([Penalty!IdleJob EXCEPT !.pc = pc])
           /\ Penalty!Calm([Penalty!IdleJob EXCEPT !.pc = pc])
           /\ Penalty!IdleJob \in Penalty!Jobs
<1> DEFINE j == [Penalty!IdleJob EXCEPT !.pc = pc]
<1>1. 1 \in Penalty!Versions /\ s1 \in Nat /\ s2 \in Nat /\ s2 >= 1
  BY PenaltyNumbers
<1>2. j \in Penalty!Jobs /\ Penalty!IdleJob \in Penalty!Jobs
  BY <1>1 DEF Penalty!Jobs, Penalty!IdleJob
<1>3. j.pc = pc /\ j.seen = 0 /\ j.v = 1 /\ j.w = 1
  BY DEF Penalty!IdleJob
<1>. HIDE DEF j
<1>4. Penalty!Grounded(j)
  BY <1>1, <1>3 DEF Penalty!Grounded, Penalty!Charging
<1>5. Penalty!Refers(j) /\ Penalty!Calm(j)
  BY <1>3 DEF Penalty!Refers, Penalty!Calm, Penalty!Charging
<1>. QED  BY <1>2, <1>4, <1>5 DEF j

\* A step of one request that changes nothing but itself.
LEMMA PenaltyRequestMoves ==
    ASSUME Penalty!IInv, NEW r \in Clerks, NEW j \in Penalty!Jobs, s6' = [s6 EXCEPT ![r] = j],
           UNCHANGED <<s1, s2, s3, s4, s5>>, Penalty!Grounded(j), Penalty!Refers(j)
    PROVE  Penalty!IInv'
<1>1. /\ s6' \in [Clerks -> Penalty!Jobs] /\ s6'[r] = j
      /\ \A q \in Clerks \ {r} : s6'[q] = s6[q]
  BY PenaltyJob DEF Penalty!IInv
<1>2. Penalty!TypeOK'
  BY <1>1 DEF Penalty!IInv, Penalty!TypeOK
<1>3. \A q \in Clerks : Penalty!Grounded(s6'[q]) /\ Penalty!Refers(s6'[q])
  BY <1>1 DEF Penalty!IInv, Penalty!Grounds, Penalty!References
<1>4. Penalty!Grounds' /\ Penalty!References'
  BY <1>3 DEF Penalty!IInv, Penalty!Grounds, Penalty!Grounded, Penalty!References, Penalty!Refers, Penalty!InDefault, Penalty!Counted
<1>5. Penalty!Stamped'
  BY DEF Penalty!IInv, Penalty!Stamped
<1>. QED  BY <1>2, <1>4, <1>5 DEF Penalty!IInv

LEMMA PenaltyJobFields ==
    ASSUME Penalty!TypeOK, NEW r \in Clerks
    PROVE  /\ s6[r] \in Penalty!Jobs /\ s6[r].v \in Penalty!Versions /\ s6[r].w \in Penalty!Versions
           /\ s6[r].seen \in Nat /\ s6[r].months \in Nat /\ s6[r].amount \in Nat
           /\ s6[r].row \in Penalty!Rows \cup {Penalty!NoRow}
<1>1. s6[r] \in Penalty!Jobs
  BY DEF Penalty!TypeOK
<1>. QED  BY <1>1 DEF Penalty!Jobs

\* What forYear makes of the period for a request under way: in default, its figures
\* are those of the months begun, at the configuration it works with.
LEMMA PenaltyOf ==
    ASSUME Penalty!PenaltyAssumption, Penalty!IInv, NEW r \in Clerks,
           NEW f, f = Figures[s6[r].v],
           NEW s, s = Penalty!PeriodStatus(f.due, s6[r].seen), s \in Penalty!Reasons,
           NEW n, n = Penalty!MonthsInDefault(f.due, Penalty!AsOf(s, s6[r].seen))
    PROVE  /\ n \in Nat /\ n >= 1 /\ Penalty!S101(n, f.first, f.per) \in Nat
           /\ f.due \in Nat /\ f.due < s1 /\ \A x \in Penalty!Counted : x.at > f.due
           /\ Penalty!AsOf(s, s6[r].seen) = Penalty!Reached(s6[r].seen)
           /\ Penalty!Reached(s6[r].seen) \in Nat /\ Penalty!Reached(s6[r].seen) <= s1
<1> DEFINE at == Penalty!AsOf(s, s6[r].seen)
<1>0. Penalty!TypeOK /\ Penalty!Grounds
  BY DEF Penalty!IInv
<1>1. f.due \in Nat /\ f.first \in Nat /\ f.per \in Nat /\ s1 \in Nat /\ s6[r].seen \in Nat
  BY <1>0, PenaltyNumbers, PenaltyJobFields
<1>2. s6[r].seen <= s1 /\ \A x \in s3 : x.at <= s1
  BY <1>0 DEF Penalty!Grounds, Penalty!Grounded
<1>3. /\ at \in Nat /\ f.due < at /\ at <= s1 /\ at = Penalty!Reached(s6[r].seen)
      /\ \A x \in Penalty!Counted : x.at > f.due
  <2>1. CASE Penalty!Counted # {}
    <3>1. s = "LATE" /\ ~(Penalty!FirstAt <= f.due)
      BY <2>1 DEF Penalty!PeriodStatus, Penalty!Reasons
    <3>2. /\ \E x \in Penalty!Counted : Penalty!FirstAt = x.at
          /\ \A x \in Penalty!Counted : Penalty!FirstAt <= x.at
          /\ Penalty!FirstAt \in Nat
      BY <1>0, <2>1, FirstIsEarliest
    <3>3. at = Penalty!FirstAt /\ at = Penalty!Reached(s6[r].seen)
      BY <2>1, <3>1 DEF Penalty!AsOf, Penalty!Reached
    <3>4. \A x \in Penalty!Counted : x \in s3 /\ x.at \in Nat
      BY <1>0, PenaltyNumbers DEF Penalty!Counted
    <3>. QED  BY <1>1, <1>2, <3>1, <3>2, <3>3, <3>4
  <2>2. CASE Penalty!Counted = {}
    <3>1. s = "MISSING" /\ f.due < s6[r].seen
      BY <2>2 DEF Penalty!PeriodStatus, Penalty!Reasons
    <3>2. at = s6[r].seen /\ at = Penalty!Reached(s6[r].seen)
      BY <2>2, <3>1 DEF Penalty!AsOf, Penalty!Reached
    <3>. QED  BY <1>1, <1>2, <2>2, <3>1, <3>2
  <2>. QED  BY <2>1, <2>2
<1>4. n \in Nat /\ n >= 1
  <2>. HIDE DEF at
  <2>1. n = Penalty!MonthsInDefault(f.due, at)
    BY DEF at
  <2>2. \A y \in Nat : y <= y
    OBVIOUS
  <2>3. \A x, y \in Nat : x < y => Penalty!MonthsInDefault(x, y) \in Nat /\ Penalty!MonthsInDefault(x, y) >= 1
    BY <1>1, <2>2, MonthsGrow, Zenon
  <2>4. at \in Nat /\ f.due \in Nat /\ f.due < at
    BY <1>1, <1>3
  <2>. QED  BY <2>1, <2>3, <2>4, Zenon
<1>5. Penalty!S101(n, f.first, f.per) \in Nat
  <2>1. \A m, first, per \in Nat : 1 <= m => Penalty!S101(m, first, per) \in Nat
    BY FinesGrow
  <2>. QED  BY <1>1, <1>4, <2>1
<1>6. f.due < s1
  <2>. HIDE DEF at
  <2>. QED  BY <1>1, <1>3
<1>. QED  BY <1>1, <1>3, <1>4, <1>5, <1>6

\* The steps of issuePenalty and penaltyNotice that read.
LEMMA PenaltyReads ==
    ASSUME Penalty!PenaltyAssumption, Penalty!IInv, NEW r \in Clerks,
           \/ Penalty!Issue(r) \/ Penalty!ReadReturns(r) \/ Penalty!ReadExisting(r)
           \/ Penalty!ReadConfig(r) \/ Penalty!Serve(r)
    PROVE  Penalty!IInv'
<1>0. /\ Penalty!TypeOK /\ Penalty!Grounds /\ Penalty!References
      /\ s6[r] \in Penalty!Jobs /\ Penalty!Grounded(s6[r]) /\ Penalty!Refers(s6[r])
      /\ s1 \in Nat /\ s2 \in Nat /\ s2 \in Penalty!Versions
  BY PenaltyJobFields, PenaltyNumbers DEF Penalty!IInv, Penalty!Grounds, Penalty!References, Penalty!TypeOK
<1>i. /\ [Penalty!IdleJob EXCEPT !.pc = "done"] \in Penalty!Jobs
      /\ Penalty!Grounded([Penalty!IdleJob EXCEPT !.pc = "done"])
      /\ Penalty!Refers([Penalty!IdleJob EXCEPT !.pc = "done"])
  BY <1>0, PenaltyIdle
<1>1. CASE Penalty!Issue(r)
  <2> DEFINE j == [s6[r] EXCEPT !.pc = "returns", !.seen = s1, !.v = s2]
  <2>1. j \in Penalty!Jobs /\ j.pc = "returns" /\ j.seen = s1 /\ j.v = s2 /\ j.w = s6[r].w
    BY <1>0 DEF Penalty!Jobs, Penalty!Steps
  <2>2. s6' = [s6 EXCEPT ![r] = j] /\ UNCHANGED <<s1, s2, s3, s4, s5>>
    BY <1>0, <1>1 DEF Penalty!Issue, Penalty!TypeOK
  <2>. HIDE DEF j
  <2>3. Penalty!Grounded(j) /\ Penalty!Refers(j)
    BY <1>0, <2>1 DEF Penalty!Grounded, Penalty!Charging, Penalty!Refers
  <2>. QED  BY <2>1, <2>2, <2>3, PenaltyRequestMoves
<1>2. CASE Penalty!ReadReturns(r)
  <2> DEFINE f == Figures[s6[r].v]
             s == Penalty!PeriodStatus(f.due, s6[r].seen)
             n == Penalty!MonthsInDefault(f.due, Penalty!AsOf(s, s6[r].seen))
             a == Penalty!S101(n, f.first, f.per)
             j == [s6[r] EXCEPT !.pc = "existing", !.reason = s, !.months = n, !.amount = a]
  <2>1. /\ UNCHANGED <<s1, s2, s3, s4, s5>>
        /\ \/ s6' = [s6 EXCEPT ![r] = [Penalty!IdleJob EXCEPT !.pc = "done"]]
           \/ s \in Penalty!Reasons /\ s6' = [s6 EXCEPT ![r] = j]
    BY <1>0, <1>2 DEF Penalty!ReadReturns, Penalty!TypeOK
  <2>2. CASE s \in Penalty!Reasons /\ s6' = [s6 EXCEPT ![r] = j]
    <3>1. /\ n \in Nat /\ n >= 1 /\ a \in Nat
          /\ f.due < s1 /\ \A x \in Penalty!Counted : x.at > f.due
      <4>. HIDE DEF s, n, f
      <4>. QED  BY <2>2, PenaltyOf DEF s, n, f
    <3>2. /\ j \in Penalty!Jobs /\ j.pc = "existing" /\ j.reason = s /\ j.months = n /\ j.amount = a
          /\ j.seen = s6[r].seen /\ j.v = s6[r].v /\ j.w = s6[r].w
      <4>. HIDE DEF s, n, a
      <4>. QED  BY <1>0, <2>2, <3>1 DEF Penalty!Jobs, Penalty!Steps, j
    <3>3. s2 = 1 => Penalty!InDefault
      <4>1. s6[r].v \in Nat \ {0}
        BY <1>0, PenaltyNumbers, PenaltyJobFields
      <4>3. s6[r].v <= s2
        BY <1>0 DEF Penalty!Grounded
      <4>2. s2 = 1 => s6[r].v = 1
        BY <1>0, <4>1, <4>3
      <4>. QED  BY <3>1, <4>2 DEF Penalty!InDefault
    <3>4. Penalty!Grounded(j) /\ Penalty!Refers(j)
      <4>1. a = Penalty!S101(j.months, Figures[j.v].first, Figures[j.v].per)
        BY <3>2
      <4>. HIDE DEF j, s, n, a, f
      <4>. QED  BY <1>0, <2>2, <3>1, <3>2, <3>3, <4>1 DEF Penalty!Grounded, Penalty!Charging, Penalty!Refers
    <3>. HIDE DEF j
    <3>. QED  BY <2>1, <2>2, <3>2, <3>4, PenaltyRequestMoves
  <2>. HIDE DEF s, j
  <2>. QED  BY <1>i, <2>1, <2>2, PenaltyRequestMoves
<1>3. CASE Penalty!ReadExisting(r)
  <2> DEFINE j == [s6[r] EXCEPT !.pc = "config"]
  <2>1. /\ UNCHANGED <<s1, s2, s3, s4, s5>> /\ s6[r].pc = "existing"
        /\ \/ s6' = [s6 EXCEPT ![r] = [Penalty!IdleJob EXCEPT !.pc = "done"]]
           \/ s6' = [s6 EXCEPT ![r] = j]
    BY <1>0, <1>3 DEF Penalty!ReadExisting, Penalty!Goto, Penalty!TypeOK
  <2>2. /\ j \in Penalty!Jobs /\ j.pc = "config" /\ j.reason = s6[r].reason /\ j.months = s6[r].months
        /\ j.amount = s6[r].amount /\ j.seen = s6[r].seen /\ j.v = s6[r].v /\ j.w = s6[r].w
    BY <1>0 DEF Penalty!Jobs, Penalty!Steps
  <2>. HIDE DEF j
  <2>3. Penalty!Grounded(j) /\ Penalty!Refers(j)
    BY <1>0, <2>1, <2>2 DEF Penalty!Grounded, Penalty!Charging, Penalty!Refers
  <2>. QED  BY <1>i, <2>1, <2>2, <2>3, PenaltyRequestMoves
<1>4. CASE Penalty!ReadConfig(r)
  <2> DEFINE j == [s6[r] EXCEPT !.pc = "upsert", !.w = s2]
  <2>1. UNCHANGED <<s1, s2, s3, s4, s5>> /\ s6[r].pc = "config" /\ s6' = [s6 EXCEPT ![r] = j]
    BY <1>0, <1>4 DEF Penalty!ReadConfig, Penalty!TypeOK
  <2>2. /\ j \in Penalty!Jobs /\ j.pc = "upsert" /\ j.reason = s6[r].reason /\ j.months = s6[r].months
        /\ j.amount = s6[r].amount /\ j.seen = s6[r].seen /\ j.v = s6[r].v /\ j.w = s2
    BY <1>0 DEF Penalty!Jobs, Penalty!Steps
  <2>. HIDE DEF j
  <2>3. Penalty!Grounded(j) /\ Penalty!Refers(j)
    BY <1>0, <2>1, <2>2 DEF Penalty!Grounded, Penalty!Charging, Penalty!Refers
  <2>. QED  BY <2>1, <2>2, <2>3, PenaltyRequestMoves
<1>5. CASE Penalty!Serve(r)
  <2> DEFINE pc == IF s4.status = "ASSESSED" THEN "mark" ELSE "render"
             j  == [s6[r] EXCEPT !.pc = pc, !.row = s4]
  <2>1. UNCHANGED <<s1, s2, s3, s4, s5>> /\ s4 # Penalty!NoRow /\ s6' = [s6 EXCEPT ![r] = j]
    BY <1>0, <1>5 DEF Penalty!Serve, Penalty!TypeOK
  <2>2. /\ j \in Penalty!Jobs /\ j.pc \in {"mark", "render"} /\ j.row = s4
        /\ j.seen = s6[r].seen /\ j.v = s6[r].v /\ j.w = s6[r].w
    <3>1. s4 \in Penalty!Rows \cup {Penalty!NoRow} /\ pc \in {"mark", "render"}
      BY <1>0 DEF Penalty!TypeOK
    <3>. HIDE DEF pc
    <3>. QED  BY <1>0, <3>1 DEF Penalty!Jobs, Penalty!Steps
  <2>. HIDE DEF j
  <2>3. Penalty!Grounded(j)
    BY <1>0, <2>1, <2>2 DEF Penalty!Grounded, Penalty!Charging
  <2>4. Penalty!Refers(j)
    BY <1>0, <2>1, <2>2 DEF Penalty!Refers, Penalty!References
  <2>. QED  BY <2>1, <2>2, <2>3, <2>4, PenaltyRequestMoves
<1>. QED  BY <1>1, <1>2, <1>3, <1>4, <1>5

\* The steps of issuePenalty and penaltyNotice that write.
LEMMA PenaltyWrites ==
    ASSUME Penalty!PenaltyAssumption, Penalty!IInv, NEW r \in Clerks,
           NEW j \in Penalty!Jobs, s6' = [s6 EXCEPT ![r] = j], UNCHANGED <<s1, s2, s3>>,
           Penalty!Grounded(j), j.pc \in {"mark", "render"} => s4' # Penalty!NoRow /\ j.row.ref = 1,
           s4' \in Penalty!Rows \cup {Penalty!NoRow}, s5' \subseteq Penalty!Letters,
           s4 # Penalty!NoRow => s4' # Penalty!NoRow,
           s4' # Penalty!NoRow => s4'.ref = 1 /\ s4'.months >= 1 /\ (s2 = 1 => Penalty!InDefault),
           Penalty!Stamped', \A l \in s5' : s4' # Penalty!NoRow /\ l.ref = 1
    PROVE  Penalty!IInv'
<1>1. /\ s6' \in [Clerks -> Penalty!Jobs] /\ s6'[r] = j
      /\ \A q \in Clerks \ {r} : s6'[q] = s6[q]
  BY PenaltyJob DEF Penalty!IInv
<1>2. Penalty!TypeOK'
  BY <1>1 DEF Penalty!IInv, Penalty!TypeOK
<1>3. \A q \in Clerks : Penalty!Grounded(s6'[q])
  BY <1>1 DEF Penalty!IInv, Penalty!Grounds
<1>4. Penalty!Grounds'
  <2>1. \A q \in Clerks : Penalty!Grounded(s6[q])'
    BY <1>3 DEF Penalty!Grounded, Penalty!InDefault, Penalty!Counted
  <2>2. Penalty!IsFiniteSet(s3') /\ \A x \in s3' : x.at <= s1'
    BY DEF Penalty!IInv, Penalty!Grounds
  <2>3. s4' # Penalty!NoRow /\ s2' = 1 => Penalty!InDefault'
    BY DEF Penalty!InDefault, Penalty!Counted
  <2>. QED  BY <2>1, <2>2, <2>3 DEF Penalty!Grounds
<1>5. Penalty!References'
  <2>1. \A q \in Clerks : Penalty!Refers(s6[q])'
    BY <1>1 DEF Penalty!IInv, Penalty!References, Penalty!Refers
  <2>. QED  BY <2>1 DEF Penalty!References
<1>. QED  BY <1>2, <1>4, <1>5 DEF Penalty!IInv

\* What the upsert makes of the record.
LEMMA PenaltyUpserted ==
    ASSUME Penalty!PenaltyAssumption, Penalty!IInv, NEW r \in Clerks, Penalty!Upsert(r)
    PROVE  /\ s4' \in Penalty!Rows
           /\ s4'.status = IF s4.status = "NONE" THEN "ASSESSED" ELSE s4.status
           /\ s4'.ref = 1 /\ s4'.months = s6[r].months /\ s4'.amount = s6[r].amount
           /\ s4'.version = s6[r].w /\ s4'.first = Figures[s6[r].w].first
           /\ s4'.per = Figures[s6[r].w].per
<1>0. Penalty!TypeOK /\ Penalty!References /\ Penalty!Grounded(s6[r])
  BY DEF Penalty!IInv, Penalty!Grounds
<1>1. /\ s6[r].w \in Penalty!Versions /\ s6[r].months \in Nat /\ s6[r].amount \in Nat
      /\ Figures[s6[r].w].first \in Nat /\ Figures[s6[r].w].per \in Nat
  BY <1>0, PenaltyJobFields, PenaltyNumbers
<1>2. s6[r].reason \in Penalty!Reasons
  BY <1>0 DEF Penalty!Upsert, Penalty!Grounded, Penalty!Charging
<1>3. CASE s4 \in Penalty!Rows
  <2>1. s4.ref = 1 /\ s4.status # "NONE" /\ s4.status \in Penalty!Statuses /\ s4 # Penalty!NoRow
    BY <1>0, <1>3 DEF Penalty!References, Penalty!Rows, Penalty!Statuses, Penalty!NoRow
  <2>2. s4' = [s4 EXCEPT !.reason = s6[r].reason, !.version = s6[r].w, !.months = s6[r].months,
                         !.first = Figures[s6[r].w].first, !.per = Figures[s6[r].w].per,
                         !.amount = s6[r].amount]
    BY <1>3, <2>1 DEF Penalty!Upsert, Penalty!Refreshed, Penalty!Rows
  <2>. QED  BY <1>1, <1>2, <1>3, <2>1, <2>2 DEF Penalty!Rows
<1>4. CASE s4 = Penalty!NoRow
  <2>1. s4' = [status |-> "ASSESSED", reason |-> s6[r].reason, version |-> s6[r].w,
               months |-> s6[r].months, first |-> Figures[s6[r].w].first,
               per |-> Figures[s6[r].w].per, amount |-> s6[r].amount, ref |-> 1]
    BY <1>4 DEF Penalty!Upsert, Penalty!Refreshed, Penalty!NoRow
  <2>. QED  BY <1>1, <1>2, <1>4, <2>1 DEF Penalty!Rows, Penalty!Statuses, Penalty!NoRow
<1>. QED  BY <1>0, <1>3, <1>4 DEF Penalty!TypeOK

LEMMA PenaltyRequestWrites ==
    ASSUME Penalty!PenaltyAssumption, Penalty!IInv, NEW r \in Clerks,
           Penalty!Upsert(r) \/ Penalty!Mark(r) \/ Penalty!Render(r)
    PROVE  Penalty!IInv'
<1> DEFINE done == [Penalty!IdleJob EXCEPT !.pc = "done"]
<1>0. /\ Penalty!TypeOK /\ Penalty!Grounds /\ Penalty!References /\ Penalty!Stamped
      /\ s6[r] \in Penalty!Jobs /\ Penalty!Grounded(s6[r]) /\ Penalty!Refers(s6[r])
      /\ s4 \in Penalty!Rows \cup {Penalty!NoRow} /\ s5 \subseteq Penalty!Letters
  BY PenaltyJobFields DEF Penalty!IInv, Penalty!Grounds, Penalty!References, Penalty!TypeOK
<1>i. /\ done \in Penalty!Jobs /\ done.pc = "done" /\ Penalty!Grounded(done)
  BY <1>0, PenaltyIdle DEF Penalty!IdleJob
<1>n. Penalty!NoRow \notin Penalty!Rows
  BY DEF Penalty!NoRow, Penalty!Rows, Penalty!Statuses
<1>. HIDE DEF done
<1>1. CASE Penalty!Upsert(r)
  <2>1. /\ s4' \in Penalty!Rows /\ s4'.ref = 1 /\ s4'.months = s6[r].months
        /\ s4'.version = s6[r].w /\ s4'.first = Figures[s6[r].w].first
        /\ s4'.per = Figures[s6[r].w].per
    BY <1>1, PenaltyUpserted
  <2>2. s6' = [s6 EXCEPT ![r] = done] /\ UNCHANGED <<s1, s2, s3>> /\ s5' = s5
    BY <1>1 DEF Penalty!Upsert, Penalty!Goto, done
  <2>3. s6[r].w <= s2 /\ s6[r].months >= 1 /\ (s2 = 1 => Penalty!InDefault)
    BY <1>0, <1>1 DEF Penalty!Upsert, Penalty!Grounded, Penalty!Charging
  <2>4. Penalty!Stamped'
    BY <2>1, <2>2, <2>3 DEF Penalty!Stamped
  <2>5. s4' # Penalty!NoRow
    BY <1>n, <2>1
  <2>6. \A l \in s5' : s4' # Penalty!NoRow /\ l.ref = 1
    BY <1>0, <2>2, <2>5 DEF Penalty!References
  <2>. QED  BY <1>0, <1>i, <2>1, <2>2, <2>3, <2>4, <2>5, <2>6, PenaltyWrites
<1>2. CASE Penalty!Mark(r)
  <2> DEFINE j == [s6[r] EXCEPT !.pc = "render"]
  <2>1. UNCHANGED <<s1, s2, s3>> /\ s5' = s5 /\ s6' = [s6 EXCEPT ![r] = j] /\ s6[r].pc = "mark"
    BY <1>0, <1>2 DEF Penalty!Mark, Penalty!Goto, Penalty!TypeOK
  <2>2. s4' = [s4 EXCEPT !.status = "NOTIFIED"] \/ s4' = s4
    BY <1>2 DEF Penalty!Mark
  <2>3. /\ j \in Penalty!Jobs /\ j.pc = "render" /\ j.row = s6[r].row /\ j.seen = s6[r].seen
        /\ j.v = s6[r].v /\ j.w = s6[r].w
    BY <1>0 DEF Penalty!Jobs, Penalty!Steps
  <2>. HIDE DEF j
  <2>4. s4 \in Penalty!Rows /\ s4 # Penalty!NoRow /\ s6[r].row.ref = 1
    BY <1>0, <2>1 DEF Penalty!Refers
  <2>5. /\ s4' \in Penalty!Rows /\ s4'.ref = s4.ref /\ s4'.months = s4.months /\ s4'.version = s4.version
        /\ s4'.first = s4.first /\ s4'.per = s4.per
    BY <2>2, <2>4 DEF Penalty!Rows, Penalty!Statuses
  <2>6. Penalty!Grounded(j)
    BY <1>0, <2>3 DEF Penalty!Grounded, Penalty!Charging
  <2>7. s4' # Penalty!NoRow
    BY <1>n, <2>5
  <2>8. j.pc \in {"mark", "render"} => s4' # Penalty!NoRow /\ j.row.ref = 1
    BY <2>3, <2>4, <2>7
  <2>9. Penalty!Stamped'
    BY <1>0, <2>1, <2>4, <2>5 DEF Penalty!Stamped
  <2>10. s4'.ref = 1 /\ s4'.months >= 1 /\ (s2 = 1 => Penalty!InDefault)
    BY <1>0, <2>4, <2>5 DEF Penalty!References, Penalty!Grounds
  <2>11. \A l \in s5' : s4' # Penalty!NoRow /\ l.ref = 1
    BY <1>0, <2>1, <2>7 DEF Penalty!References
  <2>. QED  BY <1>0, <2>1, <2>3, <2>5, <2>6, <2>7, <2>8, <2>9, <2>10, <2>11, PenaltyWrites
<1>3. CASE Penalty!Render(r)
  <2> DEFINE letter == [ref |-> s6[r].row.ref, amount |-> s6[r].row.amount]
  <2>1. /\ UNCHANGED <<s1, s2, s3>> /\ s4' = s4 /\ s5' = s5 \cup {letter}
        /\ s6' = [s6 EXCEPT ![r] = done]
    BY <1>3 DEF Penalty!Render, Penalty!Goto, done
  <2>2. s6[r].row \in Penalty!Rows \cup {Penalty!NoRow} /\ s6[r].row.ref = 1 /\ s4 # Penalty!NoRow
    BY <1>0, <1>3, PenaltyJobFields DEF Penalty!Refers, Penalty!Render
  <2>3. letter \in Penalty!Letters /\ letter.ref = 1
    BY <2>2 DEF Penalty!Letters, Penalty!Rows, Penalty!NoRow
  <2>. HIDE DEF letter
  <2>4. s5' \subseteq Penalty!Letters /\ \A l \in s5' : s4' # Penalty!NoRow /\ l.ref = 1
    BY <1>0, <2>1, <2>2, <2>3 DEF Penalty!References
  <2>5. Penalty!Stamped'
    BY <1>0, <2>1 DEF Penalty!Stamped
  <2>6. s4'.ref = 1 /\ s4'.months >= 1 /\ (s2 = 1 => Penalty!InDefault)
    BY <1>0, <2>1, <2>2 DEF Penalty!References, Penalty!Grounds
  <2>. QED  BY <1>0, <1>i, <2>1, <2>4, <2>5, <2>6, PenaltyWrites
<1>. QED  BY <1>1, <1>2, <1>3

\* The world does not disturb what the requests rest on.
LEMMA PenaltyWorld ==
    ASSUME Penalty!PenaltyAssumption, Penalty!IInv,
           \/ Penalty!File \/ Penalty!Reject \/ Penalty!Reconfigure
           \/ Penalty!Settle \/ Penalty!Tick
    PROVE  Penalty!IInv'
<1>0. /\ Penalty!TypeOK /\ Penalty!Grounds /\ Penalty!References /\ Penalty!Stamped
      /\ s1 \in Nat /\ s2 \in Nat /\ s2 \in Penalty!Versions /\ s2 >= 1 /\ Penalty!Versions \subseteq Nat \ {0}
      /\ 1 \in Penalty!Versions /\ Figures[1].due \in Nat
      /\ \A x \in s3 : x.at \in Nat /\ x.at <= s1
  BY PenaltyNumbers DEF Penalty!IInv, Penalty!Grounds
<1>m. MaxTime \in Nat /\ MaxFilings \in Nat
  BY DEF Penalty!PenaltyAssumption
\* A step that leaves the record and the requests alone.
<1>w. ASSUME UNCHANGED <<s4, s5, s6>>, s1' \in 0 .. MaxTime, s2' \in Penalty!Versions,
             s3' \subseteq [id : 1 .. MaxFilings, at : Nat, rejected : BOOLEAN],
             Penalty!IsFiniteSet(s3'), \A x \in s3' : x.at <= s1', s1 <= s1', s2 <= s2',
             s2' = 1 /\ Penalty!InDefault => Penalty!InDefault'
      PROVE  Penalty!IInv'
  <2>1. Penalty!TypeOK'
    BY <1>0, <1>w DEF Penalty!TypeOK
  <2>2. s2' = 1 => s2 = 1
    BY <1>0, <1>w
  <2>3. ASSUME NEW q \in Clerks
        PROVE  Penalty!Grounded(s6[q])'
    <3>1. Penalty!Grounded(s6[q])
      BY <1>0 DEF Penalty!Grounds
    <3>2. s6[q].seen \in Nat /\ s6[q].v \in Nat /\ s6[q].w \in Nat
      BY <1>0, PenaltyJobFields
    <3>3. s1' \in Nat /\ s2' \in Nat
      <4>1. s1' \in 0 .. MaxTime /\ s2' \in Penalty!Versions
        BY <1>w
      <4>2. Penalty!Versions \subseteq Nat
        BY <1>0
      <4>3. s2' \in Nat
        BY <4>1, <4>2
      <4>. QED  BY <4>1, <4>3
    <3>4. s6[q].seen <= s1' /\ s6[q].v <= s2' /\ s6[q].w <= s2'
      BY <1>0, <1>w, <3>1, <3>2, <3>3 DEF Penalty!Grounded
    <3>. QED  BY <1>w, <2>2, <3>1, <3>4 DEF Penalty!Grounded, Penalty!Charging
  <2>4. Penalty!Grounds'
    BY <1>0, <1>w, <2>2, <2>3 DEF Penalty!Grounds
  <2>5. Penalty!References'
    BY <1>0, <1>w DEF Penalty!References, Penalty!Refers
  <2>6. Penalty!Stamped'
    <3>1. s4 # Penalty!NoRow => s4.version \in Nat
      BY <1>0 DEF Penalty!TypeOK, Penalty!Rows
    <3>2. s4 # Penalty!NoRow => s4.version <= s2
      BY <1>0 DEF Penalty!Stamped
    <3>3. s2' \in Nat
      BY <1>0, <1>w
    <3>4. s4 # Penalty!NoRow => s4.version <= s2'
      BY <1>0, <1>w, <3>1, <3>2, <3>3
    <3>. QED  BY <1>0, <1>w, <3>4 DEF Penalty!Stamped
  <2>. QED  BY <2>1, <2>4, <2>5, <2>6 DEF Penalty!IInv
<1>1. CASE Penalty!File
  <2> DEFINE x == [id |-> Cardinality(s3) + 1, at |-> s1, rejected |-> FALSE]
  <2>1. s3' = s3 \cup {x} /\ UNCHANGED <<s1, s2, s4, s5, s6>> /\ Cardinality(s3) < MaxFilings
    BY <1>1, PenaltySets DEF Penalty!File
  <2>2. IsFiniteSet(s3) /\ Cardinality(s3) \in Nat
    BY <1>0, PenaltySets, FS_CardinalityType DEF Penalty!Grounds
  <2>3. x \in [id : 1 .. MaxFilings, at : Nat, rejected : BOOLEAN] /\ x.at = s1 /\ ~ x.rejected
    BY <1>0, <1>m, <2>1, <2>2
  <2>. HIDE DEF x
  <2>4. Penalty!IsFiniteSet(s3')
    BY <2>1, <2>2, FS_AddElement, PenaltySets
  <2>5. s3' \subseteq [id : 1 .. MaxFilings, at : Nat, rejected : BOOLEAN]
    BY <1>0, <2>1, <2>3 DEF Penalty!TypeOK
  <2>6. \A y \in s3' : y.at <= s1'
    BY <1>0, <2>1, <2>3
  <2>7. Penalty!InDefault => Penalty!InDefault'
    BY <1>0, <2>1, <2>3 DEF Penalty!InDefault, Penalty!Counted
  <2>. QED  BY <1>0, <1>w, <2>1, <2>4, <2>5, <2>6, <2>7 DEF Penalty!TypeOK
<1>2. CASE Penalty!Reject
  <2>1. PICK y \in Penalty!Counted : s3' = (s3 \ {y}) \cup {[y EXCEPT !.rejected = TRUE]}
    BY <1>2 DEF Penalty!Reject
  <2> DEFINE x == [y EXCEPT !.rejected = TRUE]
  <2>2. UNCHANGED <<s1, s2, s4, s5, s6>> /\ y \in s3
    BY <1>2 DEF Penalty!Reject, Penalty!Counted
  <2>3. x \in [id : 1 .. MaxFilings, at : Nat, rejected : BOOLEAN] /\ x.at = y.at /\ x.rejected
    BY <1>0, <2>2 DEF Penalty!TypeOK
  <2>4. s3' = (s3 \ {y}) \cup {x}
    BY <2>1
  <2>. HIDE DEF x
  <2>5. Penalty!IsFiniteSet(s3')
    <3>1. IsFiniteSet(s3 \ {y})
      BY <1>0, PenaltySets, FS_Subset DEF Penalty!Grounds
    <3>. QED  BY <2>4, <3>1, FS_AddElement, PenaltySets
  <2>6. s3' \subseteq [id : 1 .. MaxFilings, at : Nat, rejected : BOOLEAN]
    BY <1>0, <2>3, <2>4 DEF Penalty!TypeOK
  <2>7. \A z \in s3' : z.at <= s1'
    BY <1>0, <2>2, <2>3, <2>4
  <2>8. Penalty!InDefault => Penalty!InDefault'
    BY <2>2, <2>3, <2>4 DEF Penalty!InDefault, Penalty!Counted
  <2>. QED  BY <1>0, <1>w, <2>2, <2>5, <2>6, <2>7, <2>8 DEF Penalty!TypeOK
<1>3. CASE Penalty!Reconfigure
  <2>1. UNCHANGED <<s1, s3, s4, s5, s6>> /\ s2' = s2 + 1 /\ s2' \in Penalty!Versions
    BY <1>3 DEF Penalty!Reconfigure
  <2>2. s2' # 1 /\ s2 <= s2'
    BY <1>0, <2>1
  <2>. QED  BY <1>0, <1>w, <2>1, <2>2 DEF Penalty!TypeOK, Penalty!Grounds
<1>4. CASE Penalty!Settle
  <2>1. PICK st \in {"WAIVED", "PAID"} : s4' = [s4 EXCEPT !.status = st]
    BY <1>4 DEF Penalty!Settle
  <2>2. UNCHANGED <<s1, s2, s3, s5, s6>> /\ s4.status \in {"ASSESSED", "NOTIFIED"}
    BY <1>4 DEF Penalty!Settle
  <2>3. s4 \in Penalty!Rows /\ s4 # Penalty!NoRow
    BY <1>0, <2>2 DEF Penalty!TypeOK, Penalty!NoRow
  <2>4. /\ s4' \in Penalty!Rows /\ s4'.ref = s4.ref /\ s4'.months = s4.months /\ s4'.version = s4.version
        /\ s4'.first = s4.first /\ s4'.per = s4.per /\ s4' # Penalty!NoRow
    BY <2>1, <2>3 DEF Penalty!Rows, Penalty!Statuses, Penalty!NoRow
  <2>5. Penalty!TypeOK'
    BY <1>0, <2>2, <2>4 DEF Penalty!TypeOK
  <2>6. Penalty!Grounds'
    BY <1>0, <2>2, <2>3 DEF Penalty!Grounds, Penalty!Grounded, Penalty!InDefault, Penalty!Counted
  <2>7. Penalty!References'
    BY <1>0, <2>2, <2>3, <2>4 DEF Penalty!References, Penalty!Refers
  <2>8. Penalty!Stamped'
    BY <1>0, <2>2, <2>3, <2>4 DEF Penalty!Stamped
  <2>. QED  BY <2>5, <2>6, <2>7, <2>8 DEF Penalty!IInv
<1>5. CASE Penalty!Tick
  <2>1. s1' = s1 + 1 /\ s1 < MaxTime /\ UNCHANGED <<s2, s3, s4, s5, s6>>
    BY <1>5 DEF Penalty!Tick
  <2>2. s1' \in 0 .. MaxTime /\ s1 <= s1' /\ \A x \in s3' : x.at <= s1'
    BY <1>0, <1>m, <2>1
  <2>3. Penalty!InDefault => Penalty!InDefault'
    BY <1>0, <2>1 DEF Penalty!InDefault, Penalty!Counted
  <2>. QED  BY <1>0, <1>w, <2>1, <2>2, <2>3 DEF Penalty!TypeOK, Penalty!Grounds
<1>. QED  BY <1>1, <1>2, <1>3, <1>4, <1>5

LEMMA PenaltyInit ==
    ASSUME Penalty!PenaltyAssumption, Penalty!Init
    PROVE  Penalty!IInv /\ Penalty!Undisturbed
<1>1. /\ 1 \in Penalty!Versions /\ MaxTime \in Nat
      /\ Penalty!NoRow \notin Penalty!Rows
  BY DEF Penalty!PenaltyAssumption, Penalty!NoRow, Penalty!Rows, Penalty!Statuses
<1>2. Penalty!IdleJob \in Penalty!Jobs /\ Penalty!IdleJob.pc = "idle" /\ Penalty!IdleJob.seen = 0
      /\ Penalty!IdleJob.v = 1 /\ Penalty!IdleJob.w = 1
  BY <1>1 DEF Penalty!Jobs, Penalty!IdleJob
<1>3. /\ s1 = 0 /\ s2 = 1 /\ s3 = {} /\ s4 = Penalty!NoRow /\ s5 = {}
      /\ s6 = [r \in Clerks |-> Penalty!IdleJob]
  BY DEF Penalty!Init
<1>4. Penalty!TypeOK
  BY <1>1, <1>2, <1>3 DEF Penalty!TypeOK
<1>5. \A r \in Clerks : s6[r] = Penalty!IdleJob
  BY <1>3
<1>6. Penalty!Grounds
  <2>1. Penalty!IsFiniteSet(s3)
    BY <1>3, PenaltySets, FS_EmptySet
  <2>2. \A r \in Clerks : Penalty!Grounded(s6[r])
    BY <1>2, <1>3, <1>5 DEF Penalty!Grounded, Penalty!Charging
  <2>. QED  BY <1>3, <2>1, <2>2 DEF Penalty!Grounds
<1>7. Penalty!References /\ Penalty!Stamped
  BY <1>2, <1>3, <1>5 DEF Penalty!References, Penalty!Refers, Penalty!Stamped
<1>8. Penalty!Undisturbed
  <2>1. Penalty!AmountMatchesFigures
    BY <1>3 DEF Penalty!AmountMatchesFigures, Penalty!S101, Penalty!NoRow
  <2>2. \A r \in Clerks : Penalty!Calm(s6[r]) /\ ~ Penalty!Active(r)
    BY <1>2, <1>3, <1>5 DEF Penalty!Calm, Penalty!Charging, Penalty!Active, Penalty!Steps
  <2>. QED  BY <1>3, <2>1, <2>2 DEF Penalty!Undisturbed
<1>. QED  BY <1>4, <1>6, <1>7, <1>8 DEF Penalty!IInv

LEMMA PenaltyStep ==
    ASSUME Penalty!PenaltyAssumption, Penalty!IInv, [Penalty!Next]_(Penalty!vars)
    PROVE  Penalty!IInv'
<1>1. CASE Penalty!Next
  BY <1>1, PenaltyReads, PenaltyRequestWrites, PenaltyWorld DEF Penalty!Next
<1>2. CASE UNCHANGED Penalty!vars
  BY <1>2 DEF Penalty!vars, Penalty!IInv, Penalty!TypeOK, Penalty!Grounds, Penalty!Grounded,
              Penalty!Charging, Penalty!InDefault, Penalty!Counted, Penalty!References, Penalty!Refers,
              Penalty!Stamped
<1>. QED  BY <1>1, <1>2

\* As long as nothing overlapped, one request is under way at a time, and while it is
\* neither the configuration changes nor is the penalty settled.
LEMMA PenaltyAlone ==
    ASSUME Penalty!PenaltyAssumption, PenaltyNext, ~overlapped'
    PROVE  /\ ~overlapped
           /\ \A q, r \in Clerks : Penalty!Active(q)' /\ Penalty!Active(r)' => q = r
           /\ s2' # s2 \/ Settled' # Settled => \A q \in Clerks : ~ Penalty!Active(q)
<1>1. ~overlapped /\ ~(Cardinality(InFlight') > 1)
      /\ ~(InFlight # {} /\ (s2' # s2 \/ Settled' # Settled))
  BY DEF PenaltyNext
<1>2. ASSUME NEW q \in Clerks, NEW r \in Clerks, Penalty!Active(q)', Penalty!Active(r)'
      PROVE  q = r
  <2>1. IsFiniteSet(Clerks) /\ InFlight' \subseteq Clerks /\ q \in InFlight' /\ r \in InFlight'
    BY <1>2, PenaltySets DEF Penalty!PenaltyAssumption, InFlight
  <2>. QED  BY <1>1, <2>1, AtMostOne
<1>3. InFlight = {r \in Clerks : Penalty!Active(r)}
  BY DEF InFlight
<1>. QED  BY <1>1, <1>2, <1>3

\* The earliest of some times.
Earliest(S) == CHOOSE u \in {x.at : x \in S} : \A x \in S : u <= x.at
LEMMA EarliestOf ==
    ASSUME NEW S, S # {}, \A x \in S : x.at \in Nat
    PROVE  /\ Earliest(S) \in Nat /\ \E x \in S : Earliest(S) = x.at
           /\ \A x \in S : Earliest(S) <= x.at
<1> DEFINE T == {x.at : x \in S}
<1>1. T \in SUBSET Nat /\ T # {}
  OBVIOUS
<1>2. PICK w \in T : \A u \in T : w <= u
  <2>. HIDE DEF T
  <2>. QED  BY <1>1, LeastExists
<1>3. \E u \in T : \A x \in S : u <= x.at
  BY <1>2
<1>4. Earliest(S) \in T /\ \A x \in S : Earliest(S) <= x.at
  <2>1. Earliest(S) = CHOOSE u \in T : \A x \in S : u <= x.at
    BY DEF Earliest
  <2>. HIDE DEF T
  <2>. QED  BY <1>3, <2>1
<1>. QED  BY <1>1, <1>4

\* The time default is counted to never moves back, or no further than where the
\* request that counts it stood.
LEMMA PenaltyReach ==
    ASSUME Penalty!PenaltyAssumption, Penalty!IInv,
           \/ s3' = s3 /\ s1' \in Nat /\ s1 <= s1'
           \/ Penalty!File
           \/ Penalty!Reject,
           NEW t \in Nat, t <= s1
    PROVE  /\ Penalty!Reached(t) \in Nat /\ Penalty!Reached(t)' \in Nat
           /\ Penalty!Reached(s1) \in Nat /\ Penalty!Reached(s1)' \in Nat
           /\ Penalty!Reached(t) <= Penalty!Reached(s1) /\ Penalty!Reached(s1) <= s1
           /\ Penalty!Reached(s1) <= Penalty!Reached(s1)'
           /\ t <= Penalty!Reached(t)' \/ Penalty!Reached(t) <= Penalty!Reached(t)'
<1> DEFINE C == Penalty!Counted
           D == Penalty!Counted'
           f == Penalty!FirstAt
           g == Penalty!FirstAt'
<1>0. /\ Penalty!TypeOK /\ s1 \in Nat
      /\ \A x \in s3 : x.at \in Nat /\ x.at <= s1
  BY PenaltyNumbers DEF Penalty!IInv, Penalty!Grounds
<1>1. C \subseteq s3 /\ C = {x \in s3 : ~ x.rejected} /\ D = {x \in s3' : ~ x.rejected}
  BY DEF Penalty!Counted
<1>2. f = Earliest(C) /\ g = Earliest(D)
  BY DEF Penalty!FirstAt, Earliest
<1>3. /\ Penalty!Reached(t) = (IF C # {} THEN f ELSE t)
      /\ Penalty!Reached(s1) = (IF C # {} THEN f ELSE s1)
      /\ Penalty!Reached(t)' = (IF D # {} THEN g ELSE t)
      /\ Penalty!Reached(s1)' = (IF D # {} THEN g ELSE s1')
  BY DEF Penalty!Reached
<1>. HIDE DEF C, D, f, g
<1>4. /\ s1' \in Nat /\ s1 <= s1'
      /\ \A y \in D : y.at \in Nat /\ (y.at = s1 \/ \E x \in C : y.at = x.at)
      /\ D = {} => C = {} \/ s1' = s1
      /\ C = {} => \A y \in D : y.at = s1
  <2>1. CASE s3' = s3 /\ s1' \in Nat /\ s1 <= s1'
    BY <1>0, <1>1, <2>1
  <2>2. CASE Penalty!File
    <3> DEFINE z == [id |-> Penalty!Cardinality(s3) + 1, at |-> s1, rejected |-> FALSE]
    <3>1. s3' = s3 \cup {z} /\ s1' = s1 /\ z.at = s1
      BY <2>2 DEF Penalty!File
    <3>. HIDE DEF z
    <3>2. \A y \in D : y = z \/ y \in C
      BY <1>1, <3>1
    <3>. QED  BY <1>0, <1>1, <3>1, <3>2
  <2>3. CASE Penalty!Reject
    <3>1. PICK y \in C : s3' = (s3 \ {y}) \cup {[y EXCEPT !.rejected = TRUE]}
      BY <2>3 DEF Penalty!Reject, C
    <3>2. [y EXCEPT !.rejected = TRUE].rejected /\ s1' = s1
      BY <1>0, <1>1, <2>3 DEF Penalty!TypeOK, Penalty!Reject
    <3>3. D \subseteq C
      BY <1>1, <3>1, <3>2
    <3>. QED  BY <1>0, <1>1, <3>2, <3>3
  <2>. QED  BY <2>1, <2>2, <2>3
<1>5. C # {} => f \in Nat /\ f <= s1 /\ \A x \in C : f <= x.at
  <2>1. \A x \in C : x.at \in Nat /\ x.at <= s1
    BY <1>0, <1>1
  <2>2. C # {} => f \in Nat /\ (\E x \in C : f = x.at) /\ \A x \in C : f <= x.at
    <3>. HIDE DEF C, f
    <3>. QED  BY <1>2, <2>1, EarliestOf
  <2>. QED  BY <2>1, <2>2
<1>6. D # {} => g \in Nat /\ \E y \in D : g = y.at
  <2>1. \A x \in D : x.at \in Nat
    BY <1>4
  <2>. HIDE DEF D, g
  <2>. QED  BY <1>2, <2>1, EarliestOf
<1>7. D # {} /\ C # {} => f <= g
  BY <1>0, <1>4, <1>5, <1>6
<1>8. D # {} /\ C = {} => g = s1
  BY <1>4, <1>6
<1>. QED  BY <1>0, <1>3, <1>4, <1>5, <1>6, <1>7, <1>8

\* Months in default at the configuration in force, of one day and a later one.
LEMMA PenaltyMonthsAt ==
    ASSUME Penalty!PenaltyAssumption, Penalty!IInv, NEW a \in Nat, NEW b \in Nat, a <= b
    PROVE  Penalty!MonthsAt(a) \in Nat /\ Penalty!MonthsAt(a) <= Penalty!MonthsAt(b)
<1>1. Figures[s2].due \in Nat
  BY PenaltyNumbers DEF Penalty!IInv
<1>. QED  BY <1>1, MonthsGrow DEF Penalty!MonthsAt

\* What makes a request calm, and the record undisturbed, once a request has moved.
LEMMA PenaltyCalm ==
    ASSUME NEW r, NEW j, s6'[r] = j, UNCHANGED <<s1, s2, s3>>,
           j.pc = "returns" \/ Penalty!Charging(j) => j.v = s2,
           j.pc = "upsert" => j.w = s2,
           j.pc \in {"config", "upsert", "mark"} => s4'.status \notin {"WAIVED", "PAID"},
           Penalty!Charging(j) => j.months <= Penalty!MonthsAt(Penalty!Reached(s1)),
           s4' # Penalty!NoRow /\ s4'.version = s2 =>
               /\ j.pc = "returns" => /\ s4'.months <= Penalty!MonthsAt(j.seen)
                                      /\ s4'.months <= Penalty!MonthsAt(Penalty!Reached(j.seen))
               /\ Penalty!Charging(j) => s4'.months <= j.months
    PROVE  Penalty!Calm(s6[r])'
  BY DEF Penalty!Calm, Penalty!Charging, Penalty!MonthsAt, Penalty!Reached, Penalty!FirstAt, Penalty!Counted

LEMMA PenaltyOneMoves ==
    ASSUME Penalty!PenaltyAssumption, Penalty!IInv, Penalty!Undisturbed, PenaltyNext, ~overlapped',
           NEW r \in Clerks, NEW j \in Penalty!Jobs, s6' = [s6 EXCEPT ![r] = j],
           UNCHANGED <<s1, s2, s3>>, Penalty!Active(r) \/ Penalty!Active(r)',
           Penalty!AmountMatchesFigures',
           s4' # Penalty!NoRow /\ s4'.version = s2 => s4'.months <= Penalty!MonthsAt(Penalty!Reached(s1)),
           Penalty!Calm(s6[r])'
    PROVE  Penalty!Undisturbed'
<1>1. \A q \in Clerks \ {r} : s6'[q] = s6[q]
  BY PenaltyJob DEF Penalty!IInv
<1>2. \A q, p \in Clerks : Penalty!Active(q)' /\ Penalty!Active(p)' => q = p
  BY PenaltyAlone
<1>3. ASSUME NEW q \in Clerks, q # r
      PROVE  Penalty!Calm(s6[q])'
  <2>1. CASE Penalty!Active(r)'
    <3>1. s6'[q].pc \notin Penalty!Steps
      BY <1>2, <1>3, <2>1 DEF Penalty!Active
    <3>. QED  BY <3>1 DEF Penalty!Calm, Penalty!Charging, Penalty!Steps
  <2>2. CASE Penalty!Active(r)
    <3>1. s6'[q].pc \notin Penalty!Steps
      BY <1>1, <1>3, <2>2 DEF Penalty!Undisturbed, Penalty!Active
    <3>. QED  BY <3>1 DEF Penalty!Calm, Penalty!Charging, Penalty!Steps
  <2>. QED  BY <2>1, <2>2
<1>4. s4' # Penalty!NoRow /\ s4'.version = s2' => s4'.months <= Penalty!MonthsAt(Penalty!Reached(s1))'
  BY DEF Penalty!MonthsAt, Penalty!Reached, Penalty!FirstAt, Penalty!Counted
<1>. QED  BY <1>2, <1>3, <1>4 DEF Penalty!Undisturbed

\* A request under way alone leaves the record undisturbed.
LEMMA PenaltyQuietRequest ==
    ASSUME Penalty!PenaltyAssumption, Penalty!IInv, Penalty!Undisturbed, PenaltyNext, ~overlapped',
           NEW r \in Clerks,
           \/ Penalty!Issue(r) \/ Penalty!ReadReturns(r) \/ Penalty!ReadExisting(r)
           \/ Penalty!ReadConfig(r) \/ Penalty!Serve(r)
           \/ Penalty!Upsert(r) \/ Penalty!Mark(r) \/ Penalty!Render(r)
    PROVE  Penalty!Undisturbed'
<1> DEFINE done == [Penalty!IdleJob EXCEPT !.pc = "done"]
<1>0. /\ Penalty!TypeOK /\ Penalty!AmountMatchesFigures /\ Penalty!Calm(s6[r])
      /\ s6[r] \in Penalty!Jobs /\ Penalty!Grounded(s6[r]) /\ Penalty!Refers(s6[r])
      /\ s4 # Penalty!NoRow /\ s4.version = s2 => s4.months <= Penalty!MonthsAt(Penalty!Reached(s1))
      /\ s4 \in Penalty!Rows \cup {Penalty!NoRow}
  BY PenaltyJobFields DEF Penalty!IInv, Penalty!Grounds, Penalty!References, Penalty!Undisturbed, Penalty!TypeOK
<1>n. /\ s1 \in Nat /\ s2 \in Nat /\ s6[r].seen \in Nat /\ s6[r].months \in Nat /\ s4.months \in Nat
      /\ s6[r].seen <= s1
  <2>1. s4.months \in Nat
    BY <1>0 DEF Penalty!Rows, Penalty!NoRow
  <2>. QED  BY <1>0, <2>1, PenaltyNumbers, PenaltyJobFields DEF Penalty!Grounded
<1>u. UNCHANGED <<s1, s2, s3>>
  BY DEF Penalty!Issue, Penalty!ReadReturns, Penalty!ReadExisting, Penalty!ReadConfig, Penalty!Serve,
         Penalty!Upsert, Penalty!Mark, Penalty!Render
<1>t. /\ Penalty!Reached(s6[r].seen) \in Nat /\ Penalty!Reached(s1) \in Nat
      /\ Penalty!Reached(s6[r].seen) <= Penalty!Reached(s1) /\ Penalty!Reached(s1) <= s1
  BY <1>n, <1>u, PenaltyReach
<1>v. /\ Penalty!MonthsAt(Penalty!Reached(s6[r].seen)) \in Nat /\ Penalty!MonthsAt(s1) \in Nat
      /\ Penalty!MonthsAt(Penalty!Reached(s1)) \in Nat
      /\ Penalty!MonthsAt(Penalty!Reached(s6[r].seen)) <= Penalty!MonthsAt(Penalty!Reached(s1))
      /\ Penalty!MonthsAt(Penalty!Reached(s1)) <= Penalty!MonthsAt(s1)
  BY <1>n, <1>t, PenaltyMonthsAt
<1>d. done \in Penalty!Jobs /\ done.pc = "done"
  BY <1>0, PenaltyIdle DEF Penalty!IdleJob
<1>. HIDE DEF done
\* The record and its amount stand as long as the record does.
<1>s. ASSUME s4' = s4
      PROVE  /\ Penalty!AmountMatchesFigures'
             /\ s4' # Penalty!NoRow /\ s4'.version = s2 => s4'.months <= Penalty!MonthsAt(Penalty!Reached(s1))
  BY <1>0, <1>s DEF Penalty!AmountMatchesFigures
\* A request that has ended.
<1>e. ASSUME s6' = [s6 EXCEPT ![r] = done], Penalty!Active(r), Penalty!AmountMatchesFigures',
             s4' # Penalty!NoRow /\ s4'.version = s2 => s4'.months <= Penalty!MonthsAt(Penalty!Reached(s1))
      PROVE  Penalty!Undisturbed'
  <2>1. s6'[r] = done
    BY <1>0, <1>d, <1>e, PenaltyJob
  <2>2. Penalty!Calm(s6[r])'
    BY <1>d, <2>1 DEF Penalty!Calm, Penalty!Charging
  <2>. QED  BY <1>d, <1>e, <1>u, <2>2, PenaltyOneMoves
<1>1. CASE Penalty!Issue(r)
  <2> DEFINE j == [s6[r] EXCEPT !.pc = "returns", !.seen = s1, !.v = s2]
  <2>1. j \in Penalty!Jobs /\ j.pc = "returns" /\ j.seen = s1 /\ j.v = s2
    <3>1. s2 \in Penalty!Versions
      BY <1>0 DEF Penalty!TypeOK
    <3>. QED  BY <1>0, <1>n, <3>1 DEF Penalty!Jobs, Penalty!Steps
  <2>2. s6' = [s6 EXCEPT ![r] = j] /\ s4' = s4
    BY <1>0, <1>1 DEF Penalty!Issue, Penalty!TypeOK
  <2>. HIDE DEF j
  <2>3. s6'[r] = j
    BY <1>0, <2>1, <2>2, PenaltyJob
  <2>4. s4 # Penalty!NoRow /\ s4.version = s2 =>
            s4.months <= Penalty!MonthsAt(s1) /\ s4.months <= Penalty!MonthsAt(Penalty!Reached(s1))
    BY <1>0, <1>n, <1>v
  <2>5. Penalty!Calm(s6[r])'
    BY <1>u, <2>1, <2>2, <2>3, <2>4, PenaltyCalm DEF Penalty!Charging
  <2>6. Penalty!Active(r)'
    BY <2>1, <2>3 DEF Penalty!Active, Penalty!Steps
  <2>. QED  BY <1>s, <1>u, <2>1, <2>2, <2>5, <2>6, PenaltyOneMoves
<1>2. CASE Penalty!ReadReturns(r)
  <2> DEFINE f == Figures[s6[r].v]
             s == Penalty!PeriodStatus(f.due, s6[r].seen)
             n == Penalty!MonthsInDefault(f.due, Penalty!AsOf(s, s6[r].seen))
             a == Penalty!S101(n, f.first, f.per)
             j == [s6[r] EXCEPT !.pc = "existing", !.reason = s, !.months = n, !.amount = a]
  <2>1. /\ s4' = s4 /\ s6[r].pc = "returns"
        /\ \/ s6' = [s6 EXCEPT ![r] = done]
           \/ s \in Penalty!Reasons /\ s6' = [s6 EXCEPT ![r] = j]
    BY <1>0, <1>2 DEF Penalty!ReadReturns, Penalty!TypeOK, done
  <2>2. Penalty!Active(r)
    BY <2>1 DEF Penalty!Active, Penalty!Steps
  <2>3. CASE s \in Penalty!Reasons /\ s6' = [s6 EXCEPT ![r] = j]
    <3>1. /\ n \in Nat /\ n >= 1 /\ a \in Nat
          /\ Penalty!AsOf(s, s6[r].seen) = Penalty!Reached(s6[r].seen)
      <4>. HIDE DEF s, n, f
      <4>. QED  BY <2>3, PenaltyOf DEF s, n, f
    <3>2. /\ j \in Penalty!Jobs /\ j.pc = "existing" /\ j.months = n /\ j.v = s6[r].v
      <4>. HIDE DEF s, n, a
      <4>. QED  BY <1>0, <2>3, <3>1 DEF Penalty!Jobs, Penalty!Steps, j
    <3>3. s6[r].v = s2 /\ n = Penalty!MonthsAt(Penalty!Reached(s6[r].seen))
      <4>1. s6[r].v = s2
        BY <1>0, <2>1 DEF Penalty!Calm
      <4>. QED  BY <3>1, <4>1 DEF Penalty!MonthsAt
    <3>4. s4 # Penalty!NoRow /\ s4.version = s2 => s4.months <= n
      BY <1>0, <2>1, <3>3 DEF Penalty!Calm
    <3>5. n <= Penalty!MonthsAt(Penalty!Reached(s1))
      BY <1>v, <3>3
    <3>. HIDE DEF j, n, s
    <3>6. s6'[r] = j
      BY <1>0, <2>3, <3>2, PenaltyJob
    <3>7. Penalty!Calm(s6[r])'
      BY <1>u, <2>1, <3>2, <3>3, <3>4, <3>5, <3>6, PenaltyCalm DEF Penalty!Charging
    <3>. QED  BY <1>s, <1>u, <2>1, <2>2, <2>3, <3>2, <3>7, PenaltyOneMoves
  <2>. HIDE DEF j, s
  <2>. QED  BY <1>e, <1>s, <2>1, <2>2, <2>3
<1>3. CASE Penalty!ReadExisting(r)
  <2> DEFINE j == [s6[r] EXCEPT !.pc = "config"]
  <2>1. /\ s4' = s4 /\ s6[r].pc = "existing"
        /\ \/ s6' = [s6 EXCEPT ![r] = done]
           \/ s4.status \notin {"WAIVED", "PAID"} /\ s6' = [s6 EXCEPT ![r] = j]
    BY <1>0, <1>3 DEF Penalty!ReadExisting, Penalty!Goto, Penalty!TypeOK, done
  <2>2. Penalty!Active(r)
    BY <2>1 DEF Penalty!Active, Penalty!Steps
  <2>3. /\ j \in Penalty!Jobs /\ j.pc = "config" /\ j.months = s6[r].months /\ j.v = s6[r].v
    BY <1>0 DEF Penalty!Jobs, Penalty!Steps
  <2>. HIDE DEF j
  <2>4. CASE s4.status \notin {"WAIVED", "PAID"} /\ s6' = [s6 EXCEPT ![r] = j]
    <3>1. s6'[r] = j
      BY <1>0, <2>3, <2>4, PenaltyJob
    <3>2. Penalty!Calm(s6[r])'
      <4>1. /\ j.v = s2 /\ j.months <= Penalty!MonthsAt(Penalty!Reached(s1))
            /\ s4 # Penalty!NoRow /\ s4.version = s2 => s4.months <= j.months
        BY <1>0, <2>1, <2>3 DEF Penalty!Calm, Penalty!Charging
      <4>. QED  BY <1>u, <2>1, <2>3, <2>4, <3>1, <4>1, PenaltyCalm
    <3>. QED  BY <1>s, <1>u, <2>1, <2>2, <2>3, <2>4, <3>2, PenaltyOneMoves
  <2>. QED  BY <1>e, <1>s, <2>1, <2>2, <2>4
<1>4. CASE Penalty!ReadConfig(r)
  <2> DEFINE j == [s6[r] EXCEPT !.pc = "upsert", !.w = s2]
  <2>1. s4' = s4 /\ s6[r].pc = "config" /\ s6' = [s6 EXCEPT ![r] = j]
    BY <1>0, <1>4 DEF Penalty!ReadConfig, Penalty!TypeOK
  <2>2. Penalty!Active(r)
    BY <2>1 DEF Penalty!Active, Penalty!Steps
  <2>3. /\ j \in Penalty!Jobs /\ j.pc = "upsert" /\ j.months = s6[r].months /\ j.v = s6[r].v
        /\ j.w = s2
    <3>1. s2 \in Penalty!Versions
      BY <1>0 DEF Penalty!TypeOK
    <3>. QED  BY <1>0, <3>1 DEF Penalty!Jobs, Penalty!Steps
  <2>. HIDE DEF j
  <2>4. s6'[r] = j
    BY <1>0, <2>1, <2>3, PenaltyJob
  <2>5. Penalty!Calm(s6[r])'
    <3>1. /\ j.v = s2 /\ j.months <= Penalty!MonthsAt(Penalty!Reached(s1))
          /\ s4 # Penalty!NoRow /\ s4.version = s2 => s4.months <= j.months
          /\ s4.status \notin {"WAIVED", "PAID"}
      BY <1>0, <2>1, <2>3 DEF Penalty!Calm, Penalty!Charging
    <3>. QED  BY <1>u, <2>1, <2>3, <2>4, <3>1, PenaltyCalm
  <2>. QED  BY <1>s, <1>u, <2>1, <2>2, <2>3, <2>5, PenaltyOneMoves
<1>5. CASE Penalty!Serve(r)
  <2> DEFINE pc == IF s4.status = "ASSESSED" THEN "mark" ELSE "render"
             j  == [s6[r] EXCEPT !.pc = pc, !.row = s4]
  <2>1. s4' = s4 /\ s6' = [s6 EXCEPT ![r] = j]
    BY <1>0, <1>5 DEF Penalty!Serve, Penalty!TypeOK
  <2>2. j \in Penalty!Jobs /\ j.pc \in {"mark", "render"} /\ j.pc = pc
    <3>1. pc \in {"mark", "render"}
      OBVIOUS
    <3>. HIDE DEF pc
    <3>. QED  BY <1>0, <3>1 DEF Penalty!Jobs, Penalty!Steps
  <2>. HIDE DEF j
  <2>3. s6'[r] = j
    BY <1>0, <2>1, <2>2, PenaltyJob
  <2>4. j.pc = "mark" => s4.status = "ASSESSED"
    BY <2>2
  <2>5. Penalty!Calm(s6[r])'
    BY <2>1, <2>2, <2>3, <2>4 DEF Penalty!Calm, Penalty!Charging
  <2>6. Penalty!Active(r)'
    BY <2>2, <2>3 DEF Penalty!Active, Penalty!Steps
  <2>. QED  BY <1>s, <1>u, <2>1, <2>2, <2>5, <2>6, PenaltyOneMoves
<1>6. CASE Penalty!Upsert(r)
  <2>1. /\ s4' \in Penalty!Rows /\ s4'.months = s6[r].months /\ s4'.amount = s6[r].amount
        /\ s4'.version = s6[r].w /\ s4'.first = Figures[s6[r].w].first
        /\ s4'.per = Figures[s6[r].w].per
    BY <1>6, PenaltyUpserted
  <2>2. s6' = [s6 EXCEPT ![r] = done] /\ s6[r].pc = "upsert"
    BY <1>6 DEF Penalty!Upsert, Penalty!Goto, done
  <2>3. /\ s6[r].v = s2 /\ s6[r].w = s2 /\ s6[r].months <= Penalty!MonthsAt(Penalty!Reached(s1))
        /\ s6[r].amount = Penalty!S101(s6[r].months, Figures[s6[r].v].first, Figures[s6[r].v].per)
    BY <1>0, <2>2 DEF Penalty!Calm, Penalty!Charging, Penalty!Grounded
  <2>4. Penalty!AmountMatchesFigures'
    BY <2>1, <2>3 DEF Penalty!AmountMatchesFigures
  <2>5. Penalty!Active(r)
    BY <2>2 DEF Penalty!Active, Penalty!Steps
  <2>. QED  BY <1>e, <2>1, <2>2, <2>3, <2>4, <2>5
<1>7. CASE Penalty!Mark(r)
  <2> DEFINE j == [s6[r] EXCEPT !.pc = "render"]
  <2>1. s6' = [s6 EXCEPT ![r] = j] /\ s6[r].pc = "mark"
    BY <1>0, <1>7 DEF Penalty!Mark, Penalty!Goto, Penalty!TypeOK
  <2>2. s4' = [s4 EXCEPT !.status = "NOTIFIED"] \/ s4' = s4
    BY <1>7 DEF Penalty!Mark
  <2>3. j \in Penalty!Jobs /\ j.pc = "render"
    BY <1>0 DEF Penalty!Jobs, Penalty!Steps
  <2>. HIDE DEF j
  <2>4. s4 \in Penalty!Rows /\ s4 # Penalty!NoRow
    BY <1>0, <2>1 DEF Penalty!Refers
  <2>5. /\ s4'.months = s4.months /\ s4'.version = s4.version /\ s4'.amount = s4.amount
        /\ s4'.first = s4.first /\ s4'.per = s4.per
    BY <2>2, <2>4 DEF Penalty!Rows, Penalty!Statuses
  <2>6. s6'[r] = j
    BY <1>0, <2>1, <2>3, PenaltyJob
  <2>7. Penalty!Calm(s6[r])'
    BY <2>3, <2>6 DEF Penalty!Calm, Penalty!Charging
  <2>8. Penalty!AmountMatchesFigures'
    BY <1>0, <2>5 DEF Penalty!AmountMatchesFigures
  <2>9. Penalty!Active(r)
    BY <2>1 DEF Penalty!Active, Penalty!Steps
  <2>10. s4' # Penalty!NoRow /\ s4'.version = s2 => s4'.months <= Penalty!MonthsAt(Penalty!Reached(s1))
    BY <1>0, <2>4, <2>5
  <2>. QED  BY <1>u, <2>1, <2>3, <2>7, <2>8, <2>9, <2>10, PenaltyOneMoves
<1>8. CASE Penalty!Render(r)
  <2>1. s4' = s4 /\ s6' = [s6 EXCEPT ![r] = done] /\ s6[r].pc = "render"
    BY <1>8 DEF Penalty!Render, Penalty!Goto, done
  <2>2. Penalty!Active(r)
    BY <2>1 DEF Penalty!Active, Penalty!Steps
  <2>. QED  BY <1>e, <1>s, <2>1, <2>2
<1>. QED  BY <1>1, <1>2, <1>3, <1>4, <1>5, <1>6, <1>7, <1>8

\* Returns, time, and a configuration or a settlement that meets no request leave the
\* record undisturbed.
LEMMA PenaltyQuietWorld ==
    ASSUME Penalty!PenaltyAssumption, Penalty!IInv, Penalty!Undisturbed, PenaltyNext, ~overlapped',
           \/ Penalty!File \/ Penalty!Reject \/ Penalty!Reconfigure
           \/ Penalty!Settle \/ Penalty!Tick
    PROVE  Penalty!Undisturbed'
<1>0. /\ Penalty!TypeOK /\ Penalty!AmountMatchesFigures /\ Penalty!Stamped
      /\ \A r \in Clerks : Penalty!Calm(s6[r])
      /\ \A q, r \in Clerks : Penalty!Active(q) /\ Penalty!Active(r) => q = r
      /\ s4 # Penalty!NoRow /\ s4.version = s2 => s4.months <= Penalty!MonthsAt(Penalty!Reached(s1))
      /\ s1 \in Nat /\ s2 \in Nat /\ s4.months \in Nat /\ Figures[s2].due \in Nat
  <2>1. Penalty!TypeOK
    BY DEF Penalty!IInv
  <2>2. s4.months \in Nat
    BY <2>1 DEF Penalty!TypeOK, Penalty!Rows, Penalty!NoRow
  <2>. QED  BY <2>1, <2>2, PenaltyNumbers DEF Penalty!IInv, Penalty!Undisturbed
<1>j. s6' = s6
  BY DEF Penalty!File, Penalty!Reject, Penalty!Reconfigure, Penalty!Settle, Penalty!Tick
<1>o. \A q, r \in Clerks : Penalty!Active(q)' /\ Penalty!Active(r)' => q = r
  BY <1>0, <1>j DEF Penalty!Active
\* Nothing under way is disturbed.
<1>i. ASSUME \A q \in Clerks : ~ Penalty!Active(q)
      PROVE  \A r \in Clerks : Penalty!Calm(s6[r])'
  BY <1>i, <1>j DEF Penalty!Active, Penalty!Calm, Penalty!Charging, Penalty!Steps
<1>1. CASE Penalty!Reconfigure
  <2>1. s2' = s2 + 1 /\ s4' = s4
    BY <1>1 DEF Penalty!Reconfigure
  <2>2. s2' # s2
    BY <1>0, <2>1
  <2>3. \A q \in Clerks : ~ Penalty!Active(q)
    BY <2>2, PenaltyAlone
  <2>4. s4 = Penalty!NoRow \/ s4.version # s2'
    <3>1. s4 # Penalty!NoRow => s4.version \in Nat /\ s4.version <= s2
      BY <1>0, PenaltyNumbers DEF Penalty!TypeOK, Penalty!Rows, Penalty!Stamped
    <3>. QED  BY <1>0, <2>1, <3>1
  <2>. QED  BY <1>0, <1>i, <1>o, <2>1, <2>3, <2>4 DEF Penalty!Undisturbed, Penalty!AmountMatchesFigures
<1>2. CASE Penalty!Settle
  <2>1. PICK st \in {"WAIVED", "PAID"} : s4' = [s4 EXCEPT !.status = st]
    BY <1>2 DEF Penalty!Settle
  <2>2. UNCHANGED <<s1, s2, s3>> /\ s4.status \in {"ASSESSED", "NOTIFIED"}
    BY <1>2 DEF Penalty!Settle
  <2>3. s4 \in Penalty!Rows /\ s4 # Penalty!NoRow
    BY <1>0, <2>2 DEF Penalty!TypeOK, Penalty!NoRow
  <2>4. /\ s4'.months = s4.months /\ s4'.version = s4.version /\ s4'.amount = s4.amount
        /\ s4'.first = s4.first /\ s4'.per = s4.per /\ s4'.status = st
    BY <2>1, <2>3 DEF Penalty!Rows
  <2>5. Settled' # Settled
    BY <2>2, <2>4 DEF Settled
  <2>6. \A q \in Clerks : ~ Penalty!Active(q)
    BY <2>5, PenaltyAlone
  <2>7. Penalty!AmountMatchesFigures'
    BY <1>0, <2>4 DEF Penalty!AmountMatchesFigures
  <2>8. s4' # Penalty!NoRow /\ s4'.version = s2' => s4'.months <= Penalty!MonthsAt(Penalty!Reached(s1))'
    <3>1. Penalty!MonthsAt(Penalty!Reached(s1))' = Penalty!MonthsAt(Penalty!Reached(s1))
      BY <2>2 DEF Penalty!MonthsAt, Penalty!Reached, Penalty!FirstAt, Penalty!Counted
    <3>. QED  BY <1>0, <2>2, <2>3, <2>4, <3>1
  <2>. QED  BY <1>i, <1>o, <2>6, <2>7, <2>8 DEF Penalty!Undisturbed
<1>3. CASE Penalty!File \/ Penalty!Reject \/ Penalty!Tick
  <2>1. /\ s2' = s2 /\ s4' = s4
        /\ \/ s3' = s3 /\ s1' \in Nat /\ s1 <= s1'
           \/ Penalty!File
           \/ Penalty!Reject
    BY <1>0, <1>3 DEF Penalty!File, Penalty!Reject, Penalty!Tick
  <2>m. \A a, b \in Nat : a <= b => /\ Penalty!MonthsAt(a) \in Nat
                                    /\ Penalty!MonthsAt(a) <= Penalty!MonthsAt(b)
    BY PenaltyMonthsAt
  <2>2. /\ Penalty!Reached(s1) \in Nat /\ Penalty!Reached(s1)' \in Nat
        /\ Penalty!Reached(s1) <= Penalty!Reached(s1)'
    BY <1>0, <2>1, PenaltyReach
  <2>3. Penalty!MonthsAt(Penalty!Reached(s1))' = Penalty!MonthsInDefault(Figures[s2].due, Penalty!Reached(s1)')
    BY <2>1 DEF Penalty!MonthsAt
  <2>4. /\ Penalty!MonthsAt(Penalty!Reached(s1)) \in Nat
        /\ Penalty!MonthsInDefault(Figures[s2].due, Penalty!Reached(s1)') \in Nat
        /\ Penalty!MonthsAt(Penalty!Reached(s1)) <= Penalty!MonthsInDefault(Figures[s2].due, Penalty!Reached(s1)')
    <3>1. \A a, b \in Nat : a <= b => /\ Penalty!MonthsInDefault(Figures[s2].due, a) \in Nat
                                      /\ Penalty!MonthsInDefault(Figures[s2].due, a)
                                           <= Penalty!MonthsInDefault(Figures[s2].due, b)
      BY <1>0, MonthsGrow
    <3>2. Penalty!MonthsAt(Penalty!Reached(s1))
            = Penalty!MonthsInDefault(Figures[s2].due, Penalty!Reached(s1))
      BY DEF Penalty!MonthsAt
    <3>3. Penalty!Reached(s1)' <= Penalty!Reached(s1)'
      BY <2>2
    <3>. QED  BY <2>2, <3>1, <3>2, <3>3
  <2>5. s4' # Penalty!NoRow /\ s4'.version = s2' => s4'.months <= Penalty!MonthsAt(Penalty!Reached(s1))'
    BY <1>0, <2>1, <2>3, <2>4
  <2>6. ASSUME NEW r \in Clerks
        PROVE  Penalty!Calm(s6[r])'
    <3> DEFINE j == s6[r]
               c == Penalty!MonthsInDefault(Figures[s2].due, Penalty!Reached(s1)')
               d == IF Penalty!Counted' # {} THEN Penalty!FirstAt' ELSE j.seen
    <3>1. /\ j \in Penalty!Jobs /\ j.seen \in Nat /\ j.months \in Nat /\ j.seen <= s1
      BY <1>0, PenaltyJobFields DEF Penalty!IInv, Penalty!Grounds, Penalty!Grounded
    <3>2. /\ d \in Nat /\ Penalty!Reached(j.seen) \in Nat
          /\ j.seen <= d \/ Penalty!Reached(j.seen) <= d
      <4>1. ASSUME NEW t \in Nat, t <= s1, t = j.seen
            PROVE  /\ d \in Nat /\ Penalty!Reached(t) \in Nat
                   /\ t <= d \/ Penalty!Reached(t) <= d
        <5>1. Penalty!Reached(t)' = d
          BY <4>1 DEF Penalty!Reached
        <5>. HIDE DEF d, j
        <5>. QED  BY <2>1, <4>1, <5>1, PenaltyReach
      <4>. HIDE DEF d
      <4>. QED  BY <3>1, <4>1
    <3>3. Penalty!Calm(j)
      BY <1>0
    <3>4. s6'[r] = j
      BY <1>j
    <3>5. Penalty!Charging(j) => j.months <= c
      <4>1. Penalty!Charging(j) => j.months <= Penalty!MonthsAt(Penalty!Reached(s1))
        BY <3>3 DEF Penalty!Calm
      <4>2. Penalty!MonthsAt(Penalty!Reached(s1)) \in Nat /\ c \in Nat
            /\ Penalty!MonthsAt(Penalty!Reached(s1)) <= c
        BY <2>4
      <4>. HIDE DEF c, j
      <4>. QED  BY <3>1, <4>1, <4>2
    <3>6. j.pc = "returns" /\ s4 # Penalty!NoRow /\ s4.version = s2 =>
              /\ s4.months <= Penalty!MonthsAt(j.seen)
              /\ s4.months <= Penalty!MonthsAt(d)
      <4>. HIDE DEF d, j
      <4>. SUFFICES ASSUME j.pc = "returns", s4 # Penalty!NoRow, s4.version = s2
                    PROVE  s4.months <= Penalty!MonthsAt(j.seen) /\ s4.months <= Penalty!MonthsAt(d)
        OBVIOUS
      <4>1. s4.months <= Penalty!MonthsAt(j.seen) /\ s4.months <= Penalty!MonthsAt(Penalty!Reached(j.seen))
        BY <3>3 DEF Penalty!Calm
      <4>2. CASE j.seen <= d
        <5>1. Penalty!MonthsAt(j.seen) \in Nat /\ Penalty!MonthsAt(d) \in Nat
              /\ Penalty!MonthsAt(j.seen) <= Penalty!MonthsAt(d)
          BY <2>m, <3>1, <3>2, <4>2
        <5>. QED  BY <1>0, <4>1, <5>1
      <4>3. CASE Penalty!Reached(j.seen) <= d
        <5>1. Penalty!MonthsAt(Penalty!Reached(j.seen)) \in Nat /\ Penalty!MonthsAt(d) \in Nat
              /\ Penalty!MonthsAt(Penalty!Reached(j.seen)) <= Penalty!MonthsAt(d)
          BY <2>m, <3>1, <3>2, <4>3
        <5>. QED  BY <1>0, <4>1, <5>1
      <4>. QED  BY <3>2, <4>2, <4>3
    <3>7. Penalty!Calm(s6[r])' =
            /\ j.pc = "returns" \/ Penalty!Charging(j) => j.v = s2
            /\ j.pc = "upsert" => j.w = s2
            /\ j.pc \in {"config", "upsert", "mark"} => s4.status \notin {"WAIVED", "PAID"}
            /\ Penalty!Charging(j) => j.months <= c
            /\ s4 # Penalty!NoRow /\ s4.version = s2 =>
                  /\ j.pc = "returns" => /\ s4.months <= Penalty!MonthsAt(j.seen)
                                         /\ s4.months <= Penalty!MonthsAt(d)
                  /\ Penalty!Charging(j) => s4.months <= j.months
      BY <2>1, <3>4 DEF Penalty!Calm, Penalty!Charging, Penalty!MonthsAt, Penalty!Reached
    <3>. HIDE DEF c, d, j
    <3>. QED  BY <3>3, <3>5, <3>6, <3>7 DEF Penalty!Calm
  <2>7. Penalty!AmountMatchesFigures'
    BY <1>0, <2>1 DEF Penalty!AmountMatchesFigures
  <2>. QED  BY <1>o, <2>5, <2>6, <2>7 DEF Penalty!Undisturbed
<1>. QED  BY <1>1, <1>2, <1>3

\* Undisturbed, a step leaves a settled penalty alone, and default only accrues.
LEMMA PenaltyActs ==
    ASSUME Penalty!PenaltyAssumption, Penalty!IInv, Penalty!Undisturbed, Penalty!Next
    PROVE  Penalty!SettledStays /\ Penalty!DefaultOnlyAccrues
<1>0. /\ Penalty!TypeOK /\ Penalty!AmountMatchesFigures /\ Penalty!Stamped /\ Penalty!References
      /\ \A r \in Clerks : Penalty!Calm(s6[r]) /\ Penalty!Grounded(s6[r]) /\ Penalty!Refers(s6[r])
      /\ s4 \in Penalty!Rows \cup {Penalty!NoRow}
  BY DEF Penalty!IInv, Penalty!Grounds, Penalty!References, Penalty!Undisturbed, Penalty!TypeOK
<1>n. /\ s4 # Penalty!NoRow => s4 \in Penalty!Rows /\ s4.months \in Nat /\ s4.months >= 1 /\ s4.amount \in Nat
  BY <1>0 DEF Penalty!Rows, Penalty!References
<1>1. CASE \E r \in Clerks : Penalty!Upsert(r)
  <2>1. PICK r \in Clerks : Penalty!Upsert(r)
    BY <1>1
  <2>2. s6[r].pc = "upsert"
    BY <2>1 DEF Penalty!Upsert
  <2>3. /\ s4'.months = s6[r].months /\ s4'.amount = s6[r].amount /\ s4'.version = s6[r].w
    BY <2>1, PenaltyUpserted
  <2>4. /\ s6[r].v = s2 /\ s6[r].w = s2 /\ s4.status \notin {"WAIVED", "PAID"}
        /\ s4 # Penalty!NoRow /\ s4.version = s2 => s4.months <= s6[r].months
        /\ s6[r].amount = Penalty!S101(s6[r].months, Figures[s2].first, Figures[s2].per)
        /\ s6[r].months >= 1
    BY <1>0, <2>2 DEF Penalty!Calm, Penalty!Charging, Penalty!Grounded
  <2>5. Penalty!SettledStays
    BY <2>4 DEF Penalty!SettledStays
  <2>6. ASSUME s4 # Penalty!NoRow, s4'.version = s4.version
        PROVE  s4'.months >= s4.months /\ s4'.amount >= s4.amount /\ s4'.months >= 1
    <3>1. s4.version = s2 /\ s4.months <= s6[r].months
      BY <2>3, <2>4, <2>6
    <3>2. /\ s4.amount = Penalty!S101(s4.months, Figures[s2].first, Figures[s2].per)
      BY <1>0, <2>6, <3>1 DEF Penalty!Stamped, Penalty!AmountMatchesFigures
    <3>3. /\ Figures[s2].first \in Nat /\ Figures[s2].per \in Nat /\ s6[r].months \in Nat /\ s6[r].amount \in Nat
      BY <1>0, PenaltyNumbers, PenaltyJobFields
    <3>4. \A first, per, m, n \in Nat : 1 <= m /\ m <= n =>
              Penalty!S101(m, first, per) <= Penalty!S101(n, first, per)
      BY FinesGrow
    <3>5. Penalty!S101(s4.months, Figures[s2].first, Figures[s2].per)
              <= Penalty!S101(s6[r].months, Figures[s2].first, Figures[s2].per)
      BY <1>n, <2>6, <3>1, <3>3, <3>4
    <3>6. s4.amount <= s6[r].amount
      BY <2>4, <3>2, <3>5
    <3>. QED  BY <1>n, <2>3, <2>4, <2>6, <3>1, <3>3, <3>6
  <2>. QED  BY <2>5, <2>6 DEF Penalty!DefaultOnlyAccrues
<1>2. CASE (\E r \in Clerks : Penalty!Mark(r)) \/ Penalty!Settle
  <2>1. /\ s4 \in Penalty!Rows /\ s4 # Penalty!NoRow
        /\ s4.status \notin {"WAIVED", "PAID"}
        /\ s4' = s4 \/ \E st \in Penalty!Statuses : s4' = [s4 EXCEPT !.status = st]
    <3>1. CASE Penalty!Settle
      BY <1>0, <3>1 DEF Penalty!Settle, Penalty!NoRow, Penalty!Statuses
    <3>2. CASE \E r \in Clerks : Penalty!Mark(r)
      BY <1>0, <1>n, <3>2 DEF Penalty!Mark, Penalty!Calm, Penalty!Refers, Penalty!Statuses
    <3>. QED  BY <1>2, <3>1, <3>2
  <2>2. s4'.months = s4.months /\ s4'.amount = s4.amount
    BY <2>1 DEF Penalty!Rows
  <2>. QED  BY <1>n, <2>1, <2>2 DEF Penalty!SettledStays, Penalty!DefaultOnlyAccrues
<1>3. CASE s4' = s4
  BY <1>n, <1>3 DEF Penalty!SettledStays, Penalty!DefaultOnlyAccrues
<1>. QED
  BY <1>1, <1>2, <1>3 DEF Penalty!Next, Penalty!Issue, Penalty!ReadReturns, Penalty!ReadExisting,
     Penalty!ReadConfig, Penalty!Serve, Penalty!Render, Penalty!File, Penalty!Reject,
     Penalty!Reconfigure, Penalty!Tick

\* The penalties of a provider, as this desk explores them.
PenaltyHolds == Penalty!IInv /\ (overlapped \/ Penalty!Undisturbed)

LEMMA PenaltyNextHolds ==
    ASSUME Penalty!PenaltyAssumption, PenaltyHolds, PenaltyNext
    PROVE  /\ PenaltyHolds'
           /\ overlapped' \/ (Penalty!SettledStays /\ Penalty!DefaultOnlyAccrues)
<1>1. Penalty!Next /\ Penalty!IInv
  BY DEF PenaltyNext, PenaltyHolds
<1>2. Penalty!IInv'
  BY <1>1, PenaltyStep
<1>3. ASSUME ~overlapped'
      PROVE  /\ Penalty!Undisturbed' /\ Penalty!SettledStays /\ Penalty!DefaultOnlyAccrues
  <2>1. Penalty!Undisturbed
    BY <1>3, PenaltyAlone DEF PenaltyHolds
  <2>. QED  BY <1>1, <1>3, <2>1, PenaltyActs, PenaltyQuietRequest, PenaltyQuietWorld DEF Penalty!Next
<1>. QED  BY <1>2, <1>3 DEF PenaltyHolds

LEMMA PenaltyFollows ==
    ASSUME Penalty!PenaltyAssumption, PenaltyHolds
    PROVE  /\ Penalty!TypeOK
           /\ Penalty!OnlyDefaultersPenalised
           /\ Penalty!LettersCiteTheRecord
           /\ overlapped \/ Penalty!AmountMatchesFigures
<1>1. s4 # Penalty!NoRow /\ s2 = 1 => Penalty!InDefault
  BY DEF PenaltyHolds, Penalty!IInv, Penalty!Grounds
<1>2. Penalty!OnlyDefaultersPenalised
  BY <1>1 DEF Penalty!OnlyDefaultersPenalised, Penalty!InDefault
<1>3. Penalty!LettersCiteTheRecord
  BY DEF PenaltyHolds, Penalty!IInv, Penalty!References, Penalty!LettersCiteTheRecord
<1>. QED  BY <1>2, <1>3 DEF PenaltyHolds, Penalty!IInv, Penalty!Undisturbed

-----------------------------------------------------------------------------
(* The statutory configuration.                                                *)

\* Appending keeps the type, the length and the rows that were there.
LEMMA AppendFacts ==
    ASSUME NEW S, NEW q \in Seq(S), NEW e \in S
    PROVE  /\ Append(q, e) \in Seq(S)
           /\ Append(q, e) # <<>>
           /\ Len(Append(q, e)) = Len(q) + 1
           /\ \A n \in DOMAIN q : Append(q, e)[n] = q[n]
  OBVIOUS

\* A patch laid over a configuration is a configuration.
LEMMA StatutoryLaid ==
    ASSUME NEW j \in Statutory!Jobs PROVE Statutory!Laid(j) \in Statutory!Configs
  BY DEF Statutory!Laid, Statutory!Jobs, Statutory!Configs

\* An update changed in its place in the procedure, or its version, is an update.
LEMMA StatutoryJobMoves ==
    ASSUME Statutory!TypeOK, NEW s \in Hands, NEW pc \in {"idle", "seed", "max", "file"}, NEW n \in Nat
    PROVE  /\ [s3 EXCEPT ![s].pc = pc] \in [Hands -> Statutory!Jobs]
           /\ [s3 EXCEPT ![s].pc = pc, ![s].version = n] \in [Hands -> Statutory!Jobs]
  <1>1. s3[s] \in Statutory!Jobs  BY DEF Statutory!TypeOK
  <1>2. [s3[s] EXCEPT !.pc = pc] \in Statutory!Jobs  BY <1>1 DEF Statutory!Jobs
  <1>3. [s3[s] EXCEPT !.pc = pc, !.version = n] \in Statutory!Jobs  BY <1>1 DEF Statutory!Jobs
  <1> QED  BY <1>2, <1>3 DEF Statutory!TypeOK

\* At the start there is no version, none is active and no update is under way.
LEMMA StatutoryInit ==
    ASSUME Statutory!StatutoryAssumption PROVE Statutory!Init => Statutory!IInv
  <1> SUFFICES ASSUME Statutory!Init PROVE Statutory!IInv  OBVIOUS
  <1>1. /\ Default \in Statutory!Configs
        /\ (CHOOSE f \in Fields : TRUE) \in Fields
        /\ (CHOOSE v \in Values : TRUE) \in Values
    BY DEF Statutory!Configs, Statutory!StatutoryAssumption
  <1>2. s3 \in [Hands -> Statutory!Jobs]
    <2> DEFINE j0 == [pc |-> "idle", field |-> CHOOSE f \in Fields : TRUE,
                      value |-> CHOOSE v \in Values : TRUE,
                      base |-> Default, version |-> 0]
    <2>1. j0 \in Statutory!Jobs  BY <1>1 DEF Statutory!Jobs
    <2>2. s3 = [s \in Hands |-> j0]  BY DEF Statutory!Init
    <2> HIDE DEF j0
    <2> QED  BY <2>1, <2>2
  <1>3. s1 = <<>> /\ s2 = {}  BY DEF Statutory!Init
  <1>4. Statutory!TypeOK  BY <1>2, <1>3 DEF Statutory!TypeOK
  <1>5. Statutory!Ahead  BY DEF Statutory!Init, Statutory!Ahead
  <1> QED  BY <1>3, <1>4, <1>5 DEF Statutory!IInv, Statutory!ActiveIsLatest

\* Every step keeps the invariant and every version on file.
LEMMA StatutoryStep ==
    ASSUME Statutory!StatutoryAssumption
    PROVE  Statutory!IInv /\ [Statutory!Next]_(Statutory!vars) => /\ Statutory!IInv'
                                  /\ Len(s1') >= Len(s1)
                                  /\ \A n \in DOMAIN s1 : s1'[n] = s1[n]
  <1> DEFINE Kept == /\ Len(s1') >= Len(s1)
                     /\ \A n \in DOMAIN s1 : s1'[n] = s1[n]
  <1> SUFFICES ASSUME Statutory!IInv, [Statutory!Next]_(Statutory!vars) PROVE Statutory!IInv' /\ Kept  OBVIOUS
  <1> USE DEF Statutory!IInv
  <1>0. s1 \in Seq(Statutory!Configs) /\ Len(s1) \in Nat  BY DEF Statutory!TypeOK
  <1>a. ASSUME UNCHANGED <<s1, s2>>, s3' \in [Hands -> Statutory!Jobs], Statutory!Ahead' PROVE Statutory!IInv' /\ Kept
    BY <1>a, <1>0 DEF Statutory!TypeOK, Statutory!ActiveIsLatest
  <1>1. ASSUME NEW s \in Hands, Statutory!Update(s) PROVE Statutory!IInv' /\ Kept
    <2>1. PICK f \in Fields, v \in Values :
            /\ s3[s].pc = "idle"
            /\ \/ \E n \in s2 :
                    s3' = [s3 EXCEPT ![s] = [pc |-> "max", field |-> f, value |-> v,
                                               base |-> s1[n], version |-> 0]]
               \/ /\ s2 = {}
                  /\ s3' = [s3 EXCEPT ![s] = [pc |-> "seed", field |-> f, value |-> v,
                                                base |-> Default, version |-> 0]]
            /\ UNCHANGED <<s1, s2>>
      BY <1>1 DEF Statutory!Update
    <2>2. CASE s2 = {}
      <3>1. s3' = [s3 EXCEPT ![s] = [pc |-> "seed", field |-> f, value |-> v,
                                       base |-> Default, version |-> 0]]
        BY <2>1, <2>2
      <3>2. [pc |-> "seed", field |-> f, value |-> v, base |-> Default, version |-> 0] \in Statutory!Jobs
        BY DEF Statutory!Jobs, Statutory!Configs, Statutory!StatutoryAssumption
      <3>3. s3' \in [Hands -> Statutory!Jobs] /\ Statutory!Ahead'  BY <2>1, <3>1, <3>2 DEF Statutory!TypeOK, Statutory!Ahead
      <3> QED  BY <1>a, <2>1, <3>3
    <2>3. CASE s2 # {}
      <3>1. s1 # <<>> /\ s2 = {Len(s1)}  BY <2>3 DEF Statutory!ActiveIsLatest
      <3>2. s3' = [s3 EXCEPT ![s] = [pc |-> "max", field |-> f, value |-> v,
                                       base |-> s1[Len(s1)], version |-> 0]]
        BY <2>1, <3>1
      <3>3. s1[Len(s1)] \in Statutory!Configs  BY <1>0, <3>1
      <3>4. [pc |-> "max", field |-> f, value |-> v, base |-> s1[Len(s1)],
             version |-> 0] \in Statutory!Jobs
        BY <3>3 DEF Statutory!Jobs
      <3>5. s3' \in [Hands -> Statutory!Jobs] /\ Statutory!Ahead'  BY <2>1, <3>1, <3>2, <3>4 DEF Statutory!TypeOK, Statutory!Ahead
      <3> QED  BY <1>a, <2>1, <3>5
    <2> QED  BY <2>2, <2>3
  <1>2. ASSUME NEW s \in Hands, Statutory!Seed(s) PROVE Statutory!IInv' /\ Kept
    <2>1. CASE s1 = <<>>
      <3>1. s1' = <<Default>> /\ s2' = {1} /\ s3' = [s3 EXCEPT ![s].pc = "max"]
        BY <1>2, <2>1 DEF Statutory!Seed
      <3>2. s1' \in Seq(Statutory!Configs) /\ Len(s1') = 1 /\ s1' # <<>>
        BY <3>1 DEF Statutory!Configs, Statutory!StatutoryAssumption
      <3>3. s3' \in [Hands -> Statutory!Jobs]  BY <3>1, StatutoryJobMoves
      <3>4. \A x \in Hands : s3[x].pc # "file"  BY <2>1 DEF Statutory!Ahead
      <3>5. Statutory!Ahead'  BY <3>1, <3>2, <3>4 DEF Statutory!Ahead, Statutory!TypeOK
      <3>6. Statutory!TypeOK' /\ Statutory!ActiveIsLatest'  BY <3>1, <3>2, <3>3 DEF Statutory!TypeOK, Statutory!ActiveIsLatest
      <3>7. Kept  BY <2>1, <3>2
      <3> QED  BY <3>5, <3>6, <3>7
    <2>2. CASE s1 # <<>>
      <3>1. UNCHANGED <<s1, s2>> /\ s3' = [s3 EXCEPT ![s].pc = "idle"]
        BY <1>2, <2>2 DEF Statutory!Seed
      <3>2. s3' \in [Hands -> Statutory!Jobs]  BY <3>1, StatutoryJobMoves
      <3>3. Statutory!Ahead'  BY <3>1 DEF Statutory!Ahead, Statutory!TypeOK
      <3> QED  BY <1>a, <3>1, <3>2, <3>3
    <2> QED  BY <2>1, <2>2
  <1>3. ASSUME NEW s \in Hands, Statutory!ReadMax(s) PROVE Statutory!IInv' /\ Kept
    <2>1. /\ s3[s].pc = "max" /\ UNCHANGED <<s1, s2>>
          /\ s3' = [s3 EXCEPT ![s].pc = "file", ![s].version = Len(s1) + 1]
      BY <1>3 DEF Statutory!ReadMax
    <2>2. s3' \in [Hands -> Statutory!Jobs]
      <3> DEFINE n == Len(s1) + 1
      <3>1. n \in Nat  BY <1>0
      <3>2. s3' = [s3 EXCEPT ![s].pc = "file", ![s].version = n]  BY <2>1
      <3> HIDE DEF n
      <3> QED  BY <3>1, <3>2, StatutoryJobMoves
    <2>3. Statutory!Ahead'  BY <1>0, <2>1 DEF Statutory!Ahead, Statutory!TypeOK, Statutory!Jobs
    <2> QED  BY <1>a, <2>1, <2>2, <2>3
  <1>4. ASSUME NEW s \in Hands, Statutory!File(s) PROVE Statutory!IInv' /\ Kept
    <2>1. s3[s].pc = "file" /\ s3' = [s3 EXCEPT ![s].pc = "idle"]
      BY <1>4 DEF Statutory!File, Statutory!Idles
    <2>2. s3' \in [Hands -> Statutory!Jobs]  BY <2>1, StatutoryJobMoves
    <2>3. CASE s3[s].version = Len(s1) + 1
      <3>1. s1' = Append(s1, Statutory!Laid(s3[s])) /\ s2' = {s3[s].version}
        BY <1>4, <2>3 DEF Statutory!File
      <3>2. Statutory!Laid(s3[s]) \in Statutory!Configs  BY StatutoryLaid DEF Statutory!TypeOK
      <3>3. /\ s1' \in Seq(Statutory!Configs) /\ s1' # <<>>
            /\ Len(s1') = Len(s1) + 1
            /\ \A n \in DOMAIN s1 : s1'[n] = s1[n]
        BY <1>0, <3>1, <3>2, AppendFacts
      <3>4. s2' = {Len(s1')} /\ s2' \subseteq Nat  BY <1>0, <2>3, <3>1, <3>3
      <3>5. Statutory!TypeOK' /\ Statutory!ActiveIsLatest'  BY <2>2, <3>3, <3>4 DEF Statutory!TypeOK, Statutory!ActiveIsLatest
      <3>6. Statutory!Ahead'  BY <1>0, <2>1, <3>3 DEF Statutory!Ahead, Statutory!TypeOK, Statutory!Jobs
      <3>7. Kept  BY <1>0, <3>3
      <3> QED  BY <3>5, <3>6, <3>7
    <2>4. CASE s3[s].version # Len(s1) + 1
      <3>1. UNCHANGED <<s1, s2>>  BY <1>4, <2>4 DEF Statutory!File
      <3>2. Statutory!Ahead'  BY <2>1, <3>1 DEF Statutory!Ahead, Statutory!TypeOK
      <3> QED  BY <1>a, <2>2, <3>1, <3>2
    <2> QED  BY <2>3, <2>4
  <1>5. CASE UNCHANGED Statutory!vars
    <2>1. UNCHANGED <<s1, s2>> /\ s3' = s3  BY <1>5 DEF Statutory!vars
    <2>2. s3' \in [Hands -> Statutory!Jobs] /\ Statutory!Ahead'  BY <2>1 DEF Statutory!TypeOK, Statutory!Ahead
    <2> QED  BY <1>a, <2>1, <2>2
  <1> QED  BY <1>1, <1>2, <1>3, <1>4, <1>5 DEF Statutory!Next

\* Updates that never met are undisturbed.
LEMMA StatutoryQuiet ==
    ASSUME IsFiniteSet(Hands), Statutory!StatutoryAssumption, Statutory!IInv, Statutory!Undisturbed,
           StatutoryNext, ~overlapped'
    PROVE  Statutory!Undisturbed' /\ Statutory!OnlyPatchedChanges
<1>0. /\ Statutory!TypeOK /\ Statutory!ActiveIsLatest /\ Statutory!Ahead
      /\ s1 \in Seq(Statutory!Configs) /\ Len(s1) \in Nat
      /\ \A s \in Hands : s3[s] \in Statutory!Jobs
  BY DEF Statutory!IInv, Statutory!TypeOK
<1>1. ~(Cardinality({s \in Hands : s3'[s].pc # "idle"}) > 1)
  BY DEF StatutoryNext
<1>2. \A q, s \in Hands : s3'[q].pc # "idle" /\ s3'[s].pc # "idle" => q = s
  BY <1>1, AtMostOne
<1>3. PICK s \in Hands : Statutory!Update(s) \/ Statutory!Seed(s) \/ Statutory!ReadMax(s) \/ Statutory!File(s)
  BY DEF StatutoryNext, Statutory!Next
\* The requests that stay idle, and the one that moves.
<1>4. ASSUME NEW j, s3' = [s3 EXCEPT ![s] = j], s3[s].pc # "idle" \/ j.pc # "idle",
             j.pc = "seed" => s1' = <<>> /\ j.base = Default,
             j.pc \in {"max", "file"} => j.base = s1'[Len(s1')]
      PROVE  Statutory!Undisturbed'
  <2>1. s3'[s] = j /\ \A q \in Hands \ {s} : s3'[q] = s3[q]
    BY <1>0, <1>4 DEF Statutory!TypeOK
  <2>2. \A q \in Hands \ {s} : s3'[q].pc = "idle"
    BY <1>2, <1>4, <2>1 DEF Statutory!Undisturbed
  <2>3. \A q \in Hands : /\ s3'[q].pc = "seed" => s1' = <<>> /\ s3'[q].base = Default
                         /\ s3'[q].pc \in {"max", "file"} => s3'[q].base = s1'[Len(s1')]
    BY <1>4, <2>1, <2>2
  <2>. QED  BY <1>2, <2>3 DEF Statutory!Undisturbed
<1>5. CASE Statutory!Update(s)
  <2>1. PICK f \in Fields, v \in Values :
            /\ s3[s].pc = "idle"
            /\ \/ \E n \in s2 :
                    s3' = [s3 EXCEPT ![s] = [pc |-> "max", field |-> f, value |-> v,
                                             base |-> s1[n], version |-> 0]]
               \/ /\ s2 = {}
                  /\ s3' = [s3 EXCEPT ![s] = [pc |-> "seed", field |-> f, value |-> v,
                                              base |-> Default, version |-> 0]]
            /\ UNCHANGED <<s1, s2>>
    BY <1>5 DEF Statutory!Update
  <2>2. Statutory!OnlyPatchedChanges
    BY <1>0, <2>1 DEF Statutory!OnlyPatchedChanges
  <2>3. CASE s2 = {}
    <3> DEFINE j == [pc |-> "seed", field |-> f, value |-> v, base |-> Default, version |-> 0]
    <3>1. s3' = [s3 EXCEPT ![s] = j] /\ j.pc = "seed" /\ j.base = Default
      BY <2>1, <2>3
    <3>2. s1' = <<>>
      BY <1>0, <2>1, <2>3 DEF Statutory!ActiveIsLatest
    <3>. HIDE DEF j
    <3>. QED  BY <1>4, <2>2, <3>1, <3>2
  <2>4. CASE s2 # {}
    <3> DEFINE j == [pc |-> "max", field |-> f, value |-> v, base |-> s1[Len(s1)], version |-> 0]
    <3>1. s2 = {Len(s1)}
      BY <1>0, <2>4 DEF Statutory!ActiveIsLatest
    <3>2. s3' = [s3 EXCEPT ![s] = j] /\ j.pc = "max" /\ j.base = s1'[Len(s1')]
      BY <2>1, <3>1
    <3>. HIDE DEF j
    <3>. QED  BY <1>4, <2>2, <3>2
  <2>. QED  BY <2>3, <2>4
<1>6. CASE Statutory!Seed(s)
  <2>1. s1 = <<>> /\ s3[s].base = Default
    BY <1>6 DEF Statutory!Seed, Statutory!Undisturbed
  <2>2. s1' = <<Default>> /\ s3' = [s3 EXCEPT ![s].pc = "max"] /\ s3[s].pc = "seed"
    BY <1>6, <2>1 DEF Statutory!Seed
  <2> DEFINE j == [s3[s] EXCEPT !.pc = "max"]
  <2>3. s3' = [s3 EXCEPT ![s] = j] /\ j.pc = "max" /\ j.base = s1'[Len(s1')]
    BY <1>0, <2>1, <2>2 DEF Statutory!Jobs
  <2>4. Statutory!OnlyPatchedChanges
    BY <1>0, <2>1 DEF Statutory!OnlyPatchedChanges, Statutory!Ahead
  <2>. HIDE DEF j
  <2>. QED  BY <1>4, <2>2, <2>3, <2>4
<1>7. CASE Statutory!ReadMax(s)
  <2> DEFINE j == [s3[s] EXCEPT !.pc = "file", !.version = Len(s1) + 1]
  <2>1. s3' = [s3 EXCEPT ![s] = j] /\ s3[s].pc = "max" /\ UNCHANGED <<s1, s2>>
    BY <1>7 DEF Statutory!ReadMax
  <2>2. j.pc = "file" /\ j.base = s3[s].base
    BY <1>0 DEF Statutory!Jobs
  <2>3. s3[s].base = s1[Len(s1)]
    BY <2>1 DEF Statutory!Undisturbed
  <2>4. Statutory!OnlyPatchedChanges
    BY <1>0, <2>1 DEF Statutory!OnlyPatchedChanges
  <2>. HIDE DEF j
  <2>. QED  BY <1>4, <2>1, <2>2, <2>3, <2>4
<1>8. CASE Statutory!File(s)
  <2> DEFINE j == [s3[s] EXCEPT !.pc = "idle"]
  <2>1. s3' = [s3 EXCEPT ![s] = j] /\ s3[s].pc = "file"
    BY <1>8 DEF Statutory!File, Statutory!Idles
  <2>2. j.pc = "idle"
    BY <1>0 DEF Statutory!Jobs
  <2>3. Statutory!Undisturbed'
    <3>. HIDE DEF j
    <3>. QED  BY <1>4, <2>1, <2>2
  <2>4. ASSUME NEW q \in Hands, s3[q].pc = "file", Len(s1') > Len(s1), NEW f \in Fields \ {s3[q].field}
        PROVE  s1'[Len(s1')][f] = s1[Len(s1)][f]
    <3>1. q = s
      BY <2>1, <2>4 DEF Statutory!Undisturbed
    <3>2. s1' = Append(s1, Statutory!Laid(s3[s]))
      BY <1>0, <1>8, <2>4 DEF Statutory!File
    <3>3. s1'[Len(s1')] = Statutory!Laid(s3[s])
      BY <1>0, <3>2
    <3>4. s3[s].base = s1[Len(s1)] /\ s3[s].base \in [Fields -> Values]
      BY <1>0, <2>1 DEF Statutory!Undisturbed, Statutory!Jobs, Statutory!Configs
    <3>. QED  BY <2>4, <3>1, <3>3, <3>4 DEF Statutory!Laid
  <2>. QED  BY <2>3, <2>4 DEF Statutory!OnlyPatchedChanges
<1>. QED  BY <1>3, <1>5, <1>6, <1>7, <1>8

StatutoryHolds == Statutory!IInv /\ (overlapped \/ Statutory!Undisturbed)

LEMMA StatutoryNextHolds ==
    ASSUME IsFiniteSet(Hands), Statutory!StatutoryAssumption, StatutoryHolds, StatutoryNext
    PROVE  /\ StatutoryHolds' /\ Statutory!KeepsHistory
           /\ overlapped' \/ Statutory!OnlyPatchedChanges
<1>1. Statutory!IInv /\ Statutory!Next /\ (~overlapped' => ~overlapped)
  BY DEF StatutoryHolds, StatutoryNext
<1>2. Statutory!IInv' /\ Statutory!KeepsHistory
  BY <1>1, StatutoryStep DEF Statutory!KeepsHistory
<1>. QED  BY <1>1, <1>2, StatutoryQuiet DEF StatutoryHolds

LEMMA StatutoryStarts ==
    ASSUME Statutory!StatutoryAssumption, Statutory!Init
    PROVE  Statutory!IInv /\ Statutory!Undisturbed
<1>1. Statutory!IInv
  BY StatutoryInit
<1>2. s3 \in [Hands -> Statutory!Jobs] /\ \A s \in Hands : s3[s].pc = "idle"
  BY <1>1 DEF Statutory!Init, Statutory!IInv, Statutory!TypeOK
<1>. QED  BY <1>1, <1>2 DEF Statutory!Undisturbed

LEMMA StatutoryAlways ==
    ASSUME Statutory!StatutoryAssumption PROVE Statutory!Spec => []Statutory!IInv
<1>1. Statutory!IInv /\ [Statutory!Next]_(Statutory!vars) => Statutory!IInv'
  BY StatutoryStep
<1>. QED  BY StatutoryInit, <1>1, PTL DEF Statutory!Spec

\* The versions, the active set and the updates under way keep their types
\* (statutory.service.ts active and update).
THEOREM StatutoryTypeCorrect ==
    ASSUME Statutory!StatutoryAssumption PROVE Statutory!Spec => []Statutory!TypeOK
<1>1. Statutory!IInv => Statutory!TypeOK
  BY DEF Statutory!IInv
<1>. QED  BY StatutoryAlways, <1>1, PTL

\* However many updates overlap, exactly the latest version is active: the
\* UNIQUE version turns away whoever read the maximum too early.
THEOREM LatestIsActive ==
    ASSUME Statutory!StatutoryAssumption PROVE Statutory!Spec => []Statutory!ActiveIsLatest
<1>1. Statutory!IInv => Statutory!ActiveIsLatest
  BY DEF Statutory!IInv
<1>. QED  BY StatutoryAlways, <1>1, PTL

\* No update, however late, changes a version that a case or a penalty was
\* stamped with.
THEOREM VersionsNeverChange ==
    ASSUME Statutory!StatutoryAssumption PROVE Statutory!Spec => Statutory!HistoryIsKept
<1>1. Statutory!IInv /\ [Statutory!Next]_(Statutory!vars) =>
          [/\ Len(s1') >= Len(s1)
           /\ \A n \in DOMAIN s1 : s1'[n] = s1[n]]_(Statutory!vars)
  BY StatutoryStep
<1>. QED  BY StatutoryAlways, <1>1, PTL DEF Statutory!Spec, Statutory!HistoryIsKept, Statutory!KeepsHistory

\* A penalty falls on defaulters only, and every letter about it cites the record
\* (provider-compliance.service.ts issuePenalty and penaltyNotice).
THEOREM PenaltiesStand ==
    ASSUME Penalty!PenaltyAssumption
    PROVE  Penalty!Spec => [](Penalty!OnlyDefaultersPenalised /\ Penalty!LettersCiteTheRecord)
<1>1. Penalty!Init => Penalty!IInv
  BY PenaltyInit
<1>2. Penalty!IInv /\ [Penalty!Next]_(Penalty!vars) => Penalty!IInv'
  BY PenaltyStep
<1>3. Penalty!IInv => Penalty!OnlyDefaultersPenalised /\ Penalty!LettersCiteTheRecord
  BY DEF Penalty!IInv, Penalty!Grounds, Penalty!References, Penalty!OnlyDefaultersPenalised,
         Penalty!LettersCiteTheRecord, Penalty!InDefault
<1>. QED  BY <1>1, <1>2, <1>3, PTL DEF Penalty!Spec

-----------------------------------------------------------------------------
(* Triage.                                                                     *)

LEMMA TriageSets == \A S : Triage!Cardinality(S) = Cardinality(S)
  BY DEF Cardinality, Triage!Cardinality

\* What a request holds, by where it is.
LEMMA TriageJob ==
    ASSUME NEW j \in Triage!Jobs
    PROVE  /\ j.pc \in {"idle", "recommend", "supersede", "create", "transition", "move", "record", "skip"}
           /\ j.pc = "recommend" => j.left \in Triage!Rows
           /\ j.pc \in {"supersede", "create"} => /\ j.left \in Triage!Rows /\ j.case \in Cases
                                                  /\ j.seen \in Triage!Law!Status /\ j.action \in Triage!Actions
           /\ j.pc \in {"transition", "move", "record", "skip"} => j.id \in 1 .. Len(s2)
           /\ Triage!Deciding(j) \subseteq 1 .. Len(s2) /\ Triage!Adding(j) \subseteq Cases
  BY DEF Triage!Jobs, Triage!Deciding, Triage!Adding

LEMMA TriageGoesOn ==
    ASSUME NEW j \in Triage!Jobs
    PROVE  /\ j.pc = "supersede" =>
                /\ [j EXCEPT !.pc = "create"] \in Triage!Jobs
                /\ [j EXCEPT !.pc = "create"].pc = "create"
                /\ [j EXCEPT !.pc = "create"].case = j.case
                /\ [j EXCEPT !.pc = "create"].seen = j.seen
                /\ [j EXCEPT !.pc = "create"].action = j.action
           /\ \A pc \in {"move", "record"} : j.pc \in {"transition", "move"} =>
                /\ [j EXCEPT !.pc = pc] \in Triage!Jobs
                /\ [j EXCEPT !.pc = pc].pc = pc
                /\ [j EXCEPT !.pc = pc].id = j.id
  BY DEF Triage!Jobs

\* Every race is put on record, and none is taken off.
LEMMA TriageRaces ==
    ASSUME Triage!IInv, Triage!Next, s3' \in [Hands -> Triage!Jobs]
    PROVE  /\ s5' \in [recs : SUBSET (1 .. Len(s2)), cases : SUBSET Cases]
           /\ s5.recs \subseteq s5'.recs /\ s5.cases \subseteq s5'.cases
           /\ Triage!RacesNoted'
           /\ \A s \in Hands : s3'[s].pc = "move" /\ s1'[s2[s3'[s].id].case] # s1[s2[s3'[s].id].case]
                  => s2[s3'[s].id].case \in s5'.cases
<1> DEFINE D == UNION {Triage!Deciding(s3'[p[1]]) \cap Triage!Deciding(s3'[p[2]]) : p \in Triage!Pairs}
           A == UNION {Triage!Adding(s3'[p[1]]) \cap Triage!Adding(s3'[p[2]]) : p \in Triage!Pairs}
           M == {c \in UNION {Triage!Moving(s3'[s]) : s \in Hands} : s1'[c] # s1[c]}
<1>1. s5' = [recs |-> s5.recs \cup D, cases |-> s5.cases \cup M \cup A]
  BY DEF Triage!Next
<1>2. \A s \in Hands : /\ Triage!Deciding(s3'[s]) \subseteq 1 .. Len(s2) /\ Triage!Adding(s3'[s]) \subseteq Cases
                       /\ s3'[s].pc = "move" => s3'[s].id \in 1 .. Len(s2)
  BY TriageJob
<1>3. s2 \in Seq(Triage!Recommendation) /\ \A r \in 1 .. Len(s2) : s2[r].case \in Cases
  <2>1. s2 \in Seq(Triage!Recommendation)
    BY DEF Triage!IInv, Triage!TypeOK
  <2>2. \A r \in 1 .. Len(s2) : s2[r] \in Triage!Recommendation
    BY <2>1, ElementOfSeq
  <2>3. \A x \in Triage!Recommendation : x.case \in Cases
    BY DEF Triage!Recommendation
  <2>. QED  BY <2>1, <2>2, <2>3
<1>4. \A s \in Hands : Triage!Moving(s3'[s]) \subseteq Cases
  BY <1>2, <1>3 DEF Triage!Moving
<1>5. Triage!Pairs = {p \in Hands \X Hands : p[1] # p[2]}
  BY DEF Triage!Pairs
<1>6. D \subseteq 1 .. Len(s2) /\ A \subseteq Cases /\ M \subseteq Cases
  BY <1>2, <1>4, <1>5
<1>7. s5 \in [recs : SUBSET (1 .. Len(s2)), cases : SUBSET Cases]
  BY DEF Triage!IInv
<1>8. \A p \in Triage!Pairs : /\ Triage!Deciding(s3'[p[1]]) \cap Triage!Deciding(s3'[p[2]]) \subseteq D
                              /\ Triage!Adding(s3'[p[1]]) \cap Triage!Adding(s3'[p[2]]) \subseteq A
  OBVIOUS
<1>9. \A s \in Hands : s3'[s].pc = "move" /\ s1'[s2[s3'[s].id].case] # s1[s2[s3'[s].id].case]
                  => s2[s3'[s].id].case \in M
  BY DEF Triage!Moving
<1>. HIDE DEF D, A, M
<1>10. /\ s5' \in [recs : SUBSET (1 .. Len(s2)), cases : SUBSET Cases]
       /\ s5'.recs = s5.recs \cup D /\ s5'.cases = s5.cases \cup M \cup A
  BY <1>1, <1>6, <1>7
<1>11. Triage!RacesNoted'
  <2>1. \A p \in Triage!Pairs : /\ Triage!Deciding(s3'[p[1]]) \cap Triage!Deciding(s3'[p[2]]) \subseteq s5'.recs
                                /\ Triage!Adding(s3'[p[1]]) \cap Triage!Adding(s3'[p[2]]) \subseteq s5'.cases
    BY <1>8, <1>10
  <2>. QED  BY <2>1 DEF Triage!RacesNoted, Triage!Pairs
<1>. QED  BY <1>9, <1>10, <1>11

LEMMA TriageHas ==
    ASSUME Triage!IInv
    PROVE  /\ \A s \in Hands : s3[s] \in Triage!Jobs
           /\ s2 \in Seq(Triage!Recommendation) /\ Len(s2) \in Nat /\ DOMAIN s2 = 1 .. Len(s2)
           /\ \A r \in 1 .. Len(s2) : s2[r] \in Triage!Recommendation
           /\ s1 \in [Cases -> Triage!Law!Status] /\ s4 \in [1 .. MaxRows -> Nat] /\ Len(s2) <= MaxRows
           /\ s5 \in [recs : SUBSET (1 .. Len(s2)), cases : SUBSET Cases]
<1>1. s2 \in Seq(Triage!Recommendation)
  BY DEF Triage!IInv, Triage!TypeOK
<1>2. \A r \in 1 .. Len(s2) : s2[r] \in Triage!Recommendation
  BY <1>1, ElementOfSeq
<1>3. Len(s2) \in Nat /\ DOMAIN s2 = 1 .. Len(s2)
  BY <1>1
<1>. QED  BY <1>1, <1>2, <1>3 DEF Triage!IInv, Triage!TypeOK

\* Two requests that decide a recommendation, or add to a case, have raced over it.
LEMMA TriageApart ==
    ASSUME Triage!IInv, NEW q \in Hands, NEW s \in Hands, q # s
    PROVE  /\ Triage!Deciding(s3[q]) \cap Triage!Deciding(s3[s]) \subseteq s5.recs
           /\ Triage!Adding(s3[q]) \cap Triage!Adding(s3[s]) \subseteq s5.cases
<1> DEFINE p == <<q, s>>
<1>1. p \in Triage!Pairs /\ p[1] = q /\ p[2] = s
  BY DEF Triage!Pairs
<1>. HIDE DEF p
<1>2. /\ Triage!Deciding(s3[p[1]]) \cap Triage!Deciding(s3[p[2]]) \subseteq s5.recs
      /\ Triage!Adding(s3[p[1]]) \cap Triage!Adding(s3[p[2]]) \subseteq s5.cases
  BY <1>1 DEF Triage!IInv, Triage!RacesNoted
<1>. QED  BY <1>1, <1>2

\* The types are kept when one request goes on.
LEMMA TriageTypes ==
    ASSUME Triage!IInv, Triage!Next, NEW s \in Hands, NEW j \in Triage!Jobs, s3' = [s3 EXCEPT ![s] = j],
           s1' \in [Cases -> Triage!Law!Status], s2' \in Seq(Triage!Recommendation),
           Len(s2) <= Len(s2'), Len(s2') <= MaxRows, s4' \in [1 .. MaxRows -> Nat]
    PROVE  /\ s3'[s] = j /\ \A q \in Hands \ {s} : s3'[q] = s3[q]
           /\ Triage!TypeOK' /\ (s3 \in [Hands -> Triage!Jobs])' /\ (Len(s2) <= MaxRows)'
           /\ (s5 \in [recs : SUBSET (1 .. Len(s2)), cases : SUBSET Cases])'
           /\ s5.recs \subseteq s5'.recs /\ s5.cases \subseteq s5'.cases /\ Triage!RacesNoted'
           /\ \A q \in Hands : s3'[q].pc = "move" /\ s1'[s2[s3'[q].id].case] # s1[s2[s3'[q].id].case]
                  => s2[s3'[q].id].case \in s5'.cases
<1>1. s3 \in [Hands -> Triage!Jobs] /\ s3' \in [Hands -> Triage!Jobs]
      /\ s3'[s] = j /\ \A q \in Hands \ {s} : s3'[q] = s3[q]
  BY DEF Triage!IInv
<1>2. Len(s2) \in Nat /\ Len(s2') \in Nat
  BY TriageHas
<1>3. 1 .. Len(s2) \subseteq 1 .. Len(s2')
  BY <1>2
<1>4. Triage!Jobs \subseteq Triage!Jobs'
  BY <1>3 DEF Triage!Jobs, Triage!Rows
<1>5. (s3 \in [Hands -> Triage!Jobs])'
  BY <1>1, <1>4
<1>6. \A q \in Hands : s3'[q].pc \in {"idle", "recommend", "supersede", "create", "transition", "move", "record", "skip"}
  BY <1>1, TriageJob
<1>7. Triage!TypeOK'
  BY <1>6 DEF Triage!TypeOK
<1>8. /\ s5' \in [recs : SUBSET (1 .. Len(s2)), cases : SUBSET Cases]
      /\ s5.recs \subseteq s5'.recs /\ s5.cases \subseteq s5'.cases
      /\ Triage!RacesNoted'
      /\ \A q \in Hands : s3'[q].pc = "move" /\ s1'[s2[s3'[q].id].case] # s1[s2[s3'[q].id].case]
                  => s2[s3'[q].id].case \in s5'.cases
  BY <1>1, TriageRaces
<1>9. (s5 \in [recs : SUBSET (1 .. Len(s2)), cases : SUBSET Cases])'
  BY <1>3, <1>8
<1>. QED  BY <1>1, <1>5, <1>7, <1>8, <1>9

\* A step of one request that changes nothing but itself.
LEMMA TriageReads ==
    ASSUME Triage!IInv, Triage!Next, NEW s \in Hands, NEW j \in Triage!Jobs, s3' = [s3 EXCEPT ![s] = j],
           UNCHANGED <<s1, s2, s4>>, j.pc \notin {"create", "record"},
           j.pc \in {"transition", "move"} => Triage!Target(j.id) # Triage!NoTarget,
           j.pc = "move" => Triage!Open(j.id),
           \A r \in 1 .. Len(s2) : r \in Triage!Deciding(j) =>
                r \in Triage!Deciding(s3[s]) \/ Triage!Pending(r),
           j.pc = "supersede" =>
                /\ j.action \in Triage!AllowedFor(j.seen)
                /\ Triage!ApplyTo(j.action) # Triage!NoTarget =>
                      <<j.seen, Triage!ApplyTo(j.action)>> \in Triage!Law!Transitions
    PROVE  Triage!IInv' /\ Triage!DecisionKept
<1>1. /\ \A q \in Hands : s3[q] \in Triage!Jobs
      /\ s2 \in Seq(Triage!Recommendation) /\ Len(s2) \in Nat /\ DOMAIN s2 = 1 .. Len(s2)
      /\ s1 \in [Cases -> Triage!Law!Status] /\ s4 \in [1 .. MaxRows -> Nat] /\ Len(s2) <= MaxRows
  BY TriageHas
<1>2. /\ s3'[s] = j /\ \A q \in Hands \ {s} : s3'[q] = s3[q]
      /\ Triage!TypeOK' /\ (s3 \in [Hands -> Triage!Jobs])' /\ (Len(s2) <= MaxRows)'
      /\ (s5 \in [recs : SUBSET (1 .. Len(s2)), cases : SUBSET Cases])'
      /\ s5.recs \subseteq s5'.recs /\ s5.cases \subseteq s5'.cases /\ Triage!RacesNoted'
  <2>1. /\ s1' \in [Cases -> Triage!Law!Status] /\ s2' \in Seq(Triage!Recommendation)
        /\ s4' \in [1 .. MaxRows -> Nat] /\ Len(s2) <= Len(s2') /\ Len(s2') <= MaxRows
    BY <1>1
  <2>. QED  BY <2>1, TriageTypes
<1>3. Triage!OnePending'
  BY <1>2 DEF Triage!IInv, Triage!OnePending, Triage!Pending
<1>4. Triage!MovedOnce'
  BY <1>2 DEF Triage!IInv, Triage!MovedOnce, Triage!Target, Triage!Open
<1>5. Triage!Decided'
  BY <1>1, <1>2 DEF Triage!IInv, Triage!Decided, Triage!Pending
<1>6. Triage!FitsWhatWasSeen'
  BY <1>2 DEF Triage!IInv, Triage!FitsWhatWasSeen
<1>7. Triage!DecisionKept
  BY DEF Triage!DecisionKept
<1>. QED  BY <1>2, <1>3, <1>4, <1>5, <1>6, <1>7 DEF Triage!IInv

\* Whatever the model answers, what is recommended fits the status seen.
LEMMA TriageClamps ==
    ASSUME NEW seen \in Triage!Law!Status
    PROVE  /\ Triage!AllowedFor(seen) \subseteq Triage!Actions
           /\ \A x : Triage!ClampAction(x, seen) \in Triage!AllowedFor(seen)
           /\ \A c : Triage!RecommendFor(c, seen) \subseteq Triage!AllowedFor(seen)
           /\ \A a \in Triage!AllowedFor(seen) : Triage!ApplyTo(a) # Triage!NoTarget =>
                 <<seen, Triage!ApplyTo(a)>> \in Triage!Law!Transitions
<1>1. /\ Triage!AllowedFor(seen) \subseteq Triage!Actions
      /\ "HOLD" \in Triage!AllowedFor(seen)
  BY DEF Triage!AllowedFor, Triage!Actions
<1>2. \A x : Triage!ClampAction(x, seen) \in Triage!AllowedFor(seen)
  BY <1>1 DEF Triage!ClampAction
<1>3. \A c : Triage!RecommendFor(c, seen) \subseteq Triage!AllowedFor(seen)
  BY <1>2 DEF Triage!RecommendFor
<1>4. ASSUME NEW a \in Triage!AllowedFor(seen), Triage!ApplyTo(a) # Triage!NoTarget
      PROVE  <<seen, Triage!ApplyTo(a)>> \in Triage!Law!Transitions
  <2>1. CASE seen = "OPEN"
    BY <1>4, <2>1 DEF Triage!AllowedFor, Triage!ApplyTo, Triage!Actions, Triage!NoTarget, Triage!Law!Transitions
  <2>2. CASE seen = "UNDER_REVIEW"
    BY <1>4, <2>2 DEF Triage!AllowedFor, Triage!ApplyTo, Triage!Actions, Triage!NoTarget, Triage!Law!Transitions
  <2>3. CASE seen \notin {"OPEN", "UNDER_REVIEW"}
    BY <1>4, <2>3 DEF Triage!AllowedFor, Triage!ApplyTo, Triage!NoTarget
  <2>. QED  BY <2>1, <2>2, <2>3
<1>. QED  BY <1>1, <1>2, <1>3, <1>4

LEMMA TriageRequestReads ==
    ASSUME Triage!IInv, Triage!Next, NEW s \in Hands,
           \/ Triage!Run(s) \/ Triage!Investigate(s) \/ Triage!Recommend(s) \/ Triage!ReadToApply(s)
           \/ Triage!CheckMove(s) \/ Triage!ReadToSkip(s) \/ Triage!Crash(s)
    PROVE  Triage!IInv' /\ Triage!DecisionKept
<1>0. /\ \A q \in Hands : s3[q] \in Triage!Jobs
      /\ s3 \in [Hands -> Triage!Jobs] /\ DOMAIN s2 = 1 .. Len(s2) /\ s1 \in [Cases -> Triage!Law!Status]
  BY TriageHas DEF Triage!IInv
<1>i. /\ Triage!IdleJob \in Triage!Jobs /\ Triage!IdleJob.pc = "idle"
      /\ Triage!Deciding(Triage!IdleJob) = {}
  BY DEF Triage!IdleJob, Triage!Jobs, Triage!Deciding
<1>u. UNCHANGED <<s1, s2, s4>>
  BY DEF Triage!Run, Triage!Investigate, Triage!Recommend, Triage!ReadToApply,
         Triage!CheckMove, Triage!ReadToSkip, Triage!Crash
<1>1. ASSUME NEW l \in Triage!Rows, s3' = [s3 EXCEPT ![s] = [pc |-> "recommend", left |-> l]]
      PROVE  Triage!IInv' /\ Triage!DecisionKept
  <2> DEFINE j == [pc |-> "recommend", left |-> l]
  <2>1. j \in Triage!Jobs /\ j.pc = "recommend" /\ Triage!Deciding(j) = {}
    BY DEF Triage!Jobs, Triage!Deciding
  <2>2. s3' = [s3 EXCEPT ![s] = j]
    BY <1>1
  <2>. HIDE DEF j
  <2>. QED  BY <1>u, <2>1, <2>2, TriageReads
<1>2. CASE Triage!Run(s)
  <2>1. PICK took \in SUBSET Cases : s3' = [s3 EXCEPT ![s] = [pc |-> "recommend", left |-> {<<c, s1[c]>> : c \in took}]]
    BY <1>2 DEF Triage!Run
  <2>2. {<<c, s1[c]>> : c \in took} \in Triage!Rows
    BY <1>0 DEF Triage!Rows
  <2>. QED  BY <1>1, <2>1, <2>2
<1>3. CASE Triage!Investigate(s)
  <2>1. PICK c \in Cases : s3' = [s3 EXCEPT ![s] = [pc |-> "recommend", left |-> {<<c, s1[c]>>}]]
    BY <1>3 DEF Triage!Investigate
  <2>2. {<<c, s1[c]>>} \in Triage!Rows
    BY <1>0 DEF Triage!Rows
  <2>. QED  BY <1>1, <2>1, <2>2
<1>4. CASE Triage!Recommend(s)
  <2>1. PICK row \in s3[s].left, a \in Triage!Actions :
           /\ a \in Triage!RecommendFor(row[1], row[2])
           /\ s3' = [s3 EXCEPT ![s] = [pc |-> "supersede", left |-> s3[s].left \ {row},
                                       case |-> row[1], seen |-> row[2], action |-> a]]
    BY <1>0, <1>4 DEF Triage!Recommend
  <2>2. s3[s].left \in Triage!Rows
    BY <1>0, <1>4, TriageJob DEF Triage!Recommend
  <2>3. s3[s].left \ {row} \in Triage!Rows /\ row[1] \in Cases /\ row[2] \in Triage!Law!Status
    BY <2>2 DEF Triage!Rows
  <2> DEFINE j == [pc |-> "supersede", left |-> s3[s].left \ {row}, case |-> row[1], seen |-> row[2], action |-> a]
  <2>4. /\ j \in Triage!Jobs /\ j.pc = "supersede" /\ j.seen = row[2] /\ j.action = a
        /\ Triage!Deciding(j) = {}
    BY <2>3 DEF Triage!Jobs, Triage!Deciding
  <2>5. s3' = [s3 EXCEPT ![s] = j]
    BY <2>1
  <2>6. a \in Triage!AllowedFor(row[2]) /\ (Triage!ApplyTo(a) # Triage!NoTarget =>
                      <<row[2], Triage!ApplyTo(a)>> \in Triage!Law!Transitions)
    BY <2>1, <2>3, TriageClamps
  <2>. HIDE DEF j
  <2>. QED  BY <1>u, <2>4, <2>5, <2>6, TriageReads
<1>5. CASE Triage!ReadToApply(s)
  <2>1. PICK r \in 1 .. Len(s2) : /\ Triage!MayApply(r)
                                  /\ s3' = [s3 EXCEPT ![s] = [pc |-> "transition", id |-> r]]
    BY <1>0, <1>5 DEF Triage!ReadToApply
  <2> DEFINE j == [pc |-> "transition", id |-> r]
  <2>2. j \in Triage!Jobs /\ j.pc = "transition" /\ j.id = r /\ Triage!Deciding(j) = {r}
    BY DEF Triage!Jobs, Triage!Deciding
  <2>3. Triage!Pending(r) /\ Triage!Target(r) # Triage!NoTarget
    BY <2>1 DEF Triage!MayApply, Triage!Target
  <2>4. s3' = [s3 EXCEPT ![s] = j]
    BY <2>1
  <2>. HIDE DEF j
  <2>. QED  BY <1>u, <2>2, <2>3, <2>4, TriageReads
<1>6. CASE Triage!ReadToSkip(s)
  <2>1. PICK r \in 1 .. Len(s2) : /\ Triage!Pending(r)
                                  /\ s3' = [s3 EXCEPT ![s] = [pc |-> "skip", id |-> r]]
    BY <1>0, <1>6 DEF Triage!ReadToSkip
  <2> DEFINE j == [pc |-> "skip", id |-> r]
  <2>2. j \in Triage!Jobs /\ j.pc = "skip" /\ j.id = r /\ Triage!Deciding(j) = {r}
    BY DEF Triage!Jobs, Triage!Deciding
  <2>3. s3' = [s3 EXCEPT ![s] = j]
    BY <2>1
  <2>. HIDE DEF j
  <2>. QED  BY <1>u, <2>1, <2>2, <2>3, TriageReads
<1>7. CASE s3' = [s3 EXCEPT ![s] = Triage!IdleJob]
  BY <1>i, <1>u, <1>7, TriageReads
<1>8. CASE Triage!CheckMove(s)
  <2> DEFINE j == [s3[s] EXCEPT !.pc = "move"]
  <2>1. /\ s3[s].pc = "transition"
        /\ \/ s3' = [s3 EXCEPT ![s] = Triage!IdleJob]
           \/ Triage!Open(s3[s].id) /\ s3' = [s3 EXCEPT ![s] = j]
    BY <1>0, <1>8 DEF Triage!CheckMove, Triage!Done, Triage!Open, Triage!Target
  <2>2. j \in Triage!Jobs /\ j.pc = "move" /\ j.id = s3[s].id
    BY <1>0, <2>1, TriageGoesOn
  <2>. HIDE DEF j
  <2>3. Triage!Target(j.id) # Triage!NoTarget
    BY <2>1, <2>2 DEF Triage!IInv, Triage!MovedOnce
  <2>4. Triage!Deciding(j) = Triage!Deciding(s3[s])
    BY <2>1, <2>2 DEF Triage!Deciding
  <2>5. CASE Triage!Open(s3[s].id) /\ s3' = [s3 EXCEPT ![s] = j]
    <3>1. Triage!Open(j.id)
      BY <2>2, <2>5
    <3>. QED  BY <1>u, <2>2, <2>3, <2>4, <2>5, <3>1, TriageReads
  <2>. QED  BY <1>7, <2>1, <2>5
<1>9. CASE Triage!Crash(s)
  BY <1>7, <1>9 DEF Triage!Crash, Triage!Done
<1>. QED  BY <1>2, <1>3, <1>4, <1>5, <1>6, <1>8, <1>9

\* Every move of a case raises its rank.
LEMMA TriageRanks ==
    /\ \A d \in Triage!Law!Status : Triage!Rank[d] \in Nat
    /\ \A d, e : <<d, e>> \in Triage!Law!Transitions =>
          /\ d \in Triage!Law!Status /\ e \in Triage!Law!Status
          /\ Triage!Rank[d] < Triage!Rank[e]
    /\ \A a : Triage!ApplyTo(a) # Triage!NoTarget => Triage!ApplyTo(a) \in Triage!Law!Status
<1>1. \A d \in Triage!Law!Status : Triage!Rank[d] \in Nat
  BY DEF Triage!Law!Status, Triage!Rank
<1>2. \A d, e : <<d, e>> \in Triage!Law!Transitions =>
          d \in Triage!Law!Status /\ e \in Triage!Law!Status
  BY DEF Triage!Law!Status, Triage!Law!Transitions
<1>3. /\ Triage!Rank["OPEN"] = 0 /\ Triage!Rank["UNDER_REVIEW"] = 1 /\ Triage!Rank["NOTICE_ISSUED"] = 2
      /\ Triage!Rank["OBJECTION"] = 3 /\ Triage!Rank["CONFIRMED"] = 4 /\ Triage!Rank["SETTLED"] = 5
      /\ Triage!Rank["RECOVERED"] = 6 /\ Triage!Rank["DISMISSED"] = 7 /\ Triage!Rank["CLOSED"] = 8
  BY DEF Triage!Law!Status, Triage!Rank
<1>4. \A d, e : <<d, e>> \in Triage!Law!Transitions => Triage!Rank[d] < Triage!Rank[e]
  BY <1>3 DEF Triage!Law!Transitions
<1>5. \A a : Triage!ApplyTo(a) # Triage!NoTarget => Triage!ApplyTo(a) \in Triage!Law!Status
  BY DEF Triage!ApplyTo, Triage!NoTarget, Triage!Law!Status
<1>. QED  BY <1>1, <1>2, <1>4, <1>5

\* A step of one request that does no more to the recommendations than set their
\* status.
LEMMA TriageRewrites ==
    ASSUME Triage!IInv, Triage!Next, NEW s \in Hands, NEW j \in Triage!Jobs, s3' = [s3 EXCEPT ![s] = j],
           UNCHANGED <<s1, s4>>, s2' \in Seq(Triage!Recommendation), Len(s2') = Len(s2),
           \A r \in 1 .. Len(s2) :
               /\ s2'[r].case = s2[r].case /\ s2'[r].action = s2[r].action
               /\ s2'[r].status = "PENDING" => s2[r].status = "PENDING"
               /\ s2'[r].status = "APPLIED" => s4[r] >= 1
               /\ s2'[r] # s2[r] => \/ r \in Triage!Deciding(s3[s])
                                    \/ s2[r].status = "PENDING" /\ s2'[r].status = "SUPERSEDED",
           Triage!Deciding(j) = {}, j.pc \in {"idle", "create"},
           j.pc = "create" =>
               /\ \A r \in 1 .. Len(s2) : s2'[r].case = j.case => s2'[r].status # "PENDING"
               /\ j.action \in Triage!AllowedFor(j.seen)
               /\ Triage!ApplyTo(j.action) # Triage!NoTarget =>
                      <<j.seen, Triage!ApplyTo(j.action)>> \in Triage!Law!Transitions
    PROVE  Triage!IInv' /\ Triage!DecisionKept
<1> DEFINE Rewritten == \A r \in 1 .. Len(s2) :
               /\ s2'[r].case = s2[r].case /\ s2'[r].action = s2[r].action
               /\ s2'[r].status = "PENDING" => s2[r].status = "PENDING"
               /\ s2'[r].status = "APPLIED" => s4[r] >= 1
               /\ s2'[r] # s2[r] => \/ r \in Triage!Deciding(s3[s])
                                    \/ s2[r].status = "PENDING" /\ s2'[r].status = "SUPERSEDED"
<1>0. Rewritten
  OBVIOUS
<1>1. /\ \A q \in Hands : s3[q] \in Triage!Jobs
      /\ Len(s2) \in Nat /\ DOMAIN s2 = 1 .. Len(s2) /\ DOMAIN s2' = 1 .. Len(s2)
      /\ s1 \in [Cases -> Triage!Law!Status] /\ s4 \in [1 .. MaxRows -> Nat] /\ Len(s2) <= MaxRows
  BY TriageHas
<1>2. /\ s3'[s] = j /\ \A q \in Hands \ {s} : s3'[q] = s3[q]
      /\ Triage!TypeOK' /\ (s3 \in [Hands -> Triage!Jobs])' /\ (Len(s2) <= MaxRows)'
      /\ (s5 \in [recs : SUBSET (1 .. Len(s2)), cases : SUBSET Cases])'
      /\ s5.recs \subseteq s5'.recs /\ s5.cases \subseteq s5'.cases /\ Triage!RacesNoted'
  <2>1. /\ s1' \in [Cases -> Triage!Law!Status] /\ s4' \in [1 .. MaxRows -> Nat]
        /\ Len(s2) <= Len(s2') /\ Len(s2') <= MaxRows
    BY <1>1
  <2>. QED  BY <2>1, TriageTypes
<1>. HIDE DEF Rewritten
<1>3. Triage!OnePending'
  <2>1. ASSUME NEW k \in Cases \ s5'.cases
        PROVE  /\ \A q, r \in 1 .. Len(s2) : s2'[q].case = k /\ s2'[r].case = k
                                              /\ s2'[q].status = "PENDING" /\ s2'[r].status = "PENDING" => q = r
               /\ \A q \in Hands : s3'[q].pc = "create" /\ s3'[q].case = k =>
                     \A r \in 1 .. Len(s2) : s2'[r].case = k => s2'[r].status # "PENDING"
    <3>1. /\ \A q, r \in 1 .. Len(s2) : s2[q].case = k /\ s2[r].case = k
                                              /\ s2[q].status = "PENDING" /\ s2[r].status = "PENDING" => q = r
          /\ \A q \in Hands : s3[q].pc = "create" /\ s3[q].case = k =>
                     \A r \in 1 .. Len(s2) : s2[r].case = k => s2[r].status # "PENDING"
      <4>1. k \in Cases \ s5.cases /\ Triage!OnePending
        BY <1>2, <2>1 DEF Triage!IInv
      <4>2. /\ \A q, r \in DOMAIN s2 : s2[q].case = k /\ s2[r].case = k
                                         /\ Triage!Pending(q) /\ Triage!Pending(r) => q = r
            /\ \A q \in Hands : s3[q].pc = "create" /\ s3[q].case = k =>
                     \A r \in DOMAIN s2 : s2[r].case = k => ~ Triage!Pending(r)
        BY <4>1, Zenon DEF Triage!OnePending
      <4>3. \A r : Triage!Pending(r) <=> s2[r].status = "PENDING"
        BY DEF Triage!Pending
      <4>4. DOMAIN s2 = 1 .. Len(s2)
        BY <1>1
      <4>. QED  BY <4>2, <4>3, <4>4
    <3>2. \A q \in Hands : s3'[q].pc = "create" /\ s3'[q].case = k =>
                     \A r \in 1 .. Len(s2) : s2'[r].case = k => s2'[r].status # "PENDING"
      BY <1>0, <1>2, <3>1 DEF Rewritten
    <3>. QED  BY <1>0, <3>1, <3>2 DEF Rewritten
  <2>. QED  BY <1>1, <2>1 DEF Triage!OnePending, Triage!Pending
<1>4. Triage!MovedOnce'
  <2>1. \A q \in Hands : s3'[q].pc \in {"transition", "move", "record"} =>
            s3'[q] = s3[q] /\ s3[q].id \in 1 .. Len(s2)
    BY <1>1, <1>2, TriageJob
  <2>2. /\ \A q \in Hands : s3[q].pc \in {"transition", "move", "record"} =>
              Triage!ApplyTo(s2[s3[q].id].action) # Triage!NoTarget
        /\ \A r \in 1 .. Len(s2) : s2[r].case \notin s5.cases /\ s4[r] >= 1 =>
              /\ Triage!ApplyTo(s2[r].action) # Triage!NoTarget
              /\ Triage!Rank[s1[s2[r].case]] >= Triage!Rank[Triage!ApplyTo(s2[r].action)]
        /\ \A q \in Hands : s3[q].pc = "move" /\ s2[s3[q].id].case \notin s5.cases =>
              <<s1[s2[s3[q].id].case], Triage!ApplyTo(s2[s3[q].id].action)>> \in Triage!Law!Transitions
        /\ \A q \in Hands : s3[q].pc = "record" => s4[s3[q].id] >= 1
        /\ \A r \in 1 .. Len(s2) : s2[r].case \notin s5.cases => s4[r] <= 1
        /\ \A r \in 1 .. MaxRows \ (1 .. Len(s2)) : s4[r] = 0
    BY <1>1 DEF Triage!IInv, Triage!MovedOnce, Triage!Target, Triage!Open
  <2>3. \A q \in Hands : s3'[q].pc \in {"transition", "move", "record"} =>
              Triage!ApplyTo(s2'[s3'[q].id].action) # Triage!NoTarget
    BY <1>0, <2>1, <2>2 DEF Rewritten
  <2>4. \A r \in 1 .. Len(s2) : s2'[r].case \notin s5'.cases /\ s4'[r] >= 1 =>
              /\ Triage!ApplyTo(s2'[r].action) # Triage!NoTarget
              /\ Triage!Rank[s1'[s2'[r].case]] >= Triage!Rank[Triage!ApplyTo(s2'[r].action)]
    BY <1>0, <1>2, <2>2 DEF Rewritten
  <2>5. \A q \in Hands : s3'[q].pc = "move" /\ s2'[s3'[q].id].case \notin s5'.cases =>
              <<s1'[s2'[s3'[q].id].case], Triage!ApplyTo(s2'[s3'[q].id].action)>> \in Triage!Law!Transitions
    BY <1>0, <1>2, <2>1, <2>2 DEF Rewritten
  <2>6. \A q \in Hands : s3'[q].pc = "record" => s4'[s3'[q].id] >= 1
    BY <2>1, <2>2
  <2>7. /\ \A r \in 1 .. Len(s2) : s2'[r].case \notin s5'.cases => s4'[r] <= 1
        /\ \A r \in 1 .. Len(s2) : s2'[r].status = "APPLIED" => s4'[r] >= 1
        /\ \A r \in 1 .. MaxRows \ (1 .. Len(s2)) : s4'[r] = 0
    BY <1>0, <1>2, <2>2 DEF Rewritten
  <2>. QED  BY <1>1, <2>3, <2>4, <2>5, <2>6, <2>7 DEF Triage!MovedOnce, Triage!Target, Triage!Open
<1>5. \A r \in (1 .. Len(s2)) \ s5'.recs : r \in Triage!Deciding(s3[s]) =>
          \A q \in Hands : r \notin Triage!Deciding(s3'[q])
  <2>1. \A q \in Hands \ {s} : Triage!Deciding(s3[q]) \cap Triage!Deciding(s3[s]) \subseteq s5.recs
    BY TriageApart
  <2>. QED  BY <1>2, <2>1
<1>6. Triage!Decided'
  <2>1. ASSUME NEW r \in (1 .. Len(s2)) \ s5'.recs, s2'[r].status \in {"APPLIED", "SKIPPED"}, NEW q \in Hands
        PROVE  r \notin Triage!Deciding(s3'[q])
    <3>1. CASE s2'[r] = s2[r]
      <4>1. r \notin Triage!Deciding(s3[q])
        BY <1>1, <1>2, <2>1, <3>1 DEF Triage!IInv, Triage!Decided
      <4>. QED  BY <1>2, <4>1
    <3>2. CASE s2'[r] # s2[r]
      <4>1. r \in Triage!Deciding(s3[s])
        BY <1>0, <2>1, <3>2 DEF Rewritten
      <4>. QED  BY <1>5, <2>1, <4>1
    <3>. QED  BY <3>1, <3>2
  <2>. QED  BY <1>1, <2>1 DEF Triage!Decided
<1>7. Triage!FitsWhatWasSeen'
  BY <1>2 DEF Triage!IInv, Triage!FitsWhatWasSeen
<1>8. Triage!DecisionKept
  <2>1. ASSUME NEW r \in (1 .. Len(s2)) \ s5'.recs, s2[r].status \in {"APPLIED", "SKIPPED"}
        PROVE  s2'[r] = s2[r]
    <3>1. r \notin Triage!Deciding(s3[s])
      BY <1>1, <1>2, <2>1 DEF Triage!IInv, Triage!Decided
    <3>. QED  BY <1>0, <2>1, <3>1 DEF Rewritten
  <2>. QED  BY <1>1, <2>1 DEF Triage!DecisionKept
<1>. QED  BY <1>2, <1>3, <1>4, <1>6, <1>7, <1>8 DEF Triage!IInv

LEMMA TriageSupersedes ==
    ASSUME Triage!IInv, Triage!Next, NEW s \in Hands, Triage!Supersede(s)
    PROVE  Triage!IInv' /\ Triage!DecisionKept
<1> DEFINE j == [s3[s] EXCEPT !.pc = "create"]
           c == s3[s].case
<1>1. /\ \A q \in Hands : s3[q] \in Triage!Jobs
      /\ s2 \in Seq(Triage!Recommendation) /\ Len(s2) \in Nat /\ DOMAIN s2 = 1 .. Len(s2)
      /\ \A r \in 1 .. Len(s2) : s2[r] \in Triage!Recommendation
  BY TriageHas
<1>2. s3[s].pc = "supersede" /\ s3' = [s3 EXCEPT ![s] = j] /\ UNCHANGED <<s1, s4>>
  BY DEF Triage!Supersede
<1>3. /\ j \in Triage!Jobs /\ j.pc = "create" /\ j.case = c /\ j.seen = s3[s].seen /\ j.action = s3[s].action
      /\ Triage!Deciding(j) = {}
  BY <1>1, <1>2, TriageGoesOn DEF Triage!Deciding
<1>4. s2' = [r \in 1 .. Len(s2) |-> IF s2[r].case = c /\ Triage!Pending(r)
                                    THEN [s2[r] EXCEPT !.status = "SUPERSEDED"] ELSE s2[r]]
  BY <1>1 DEF Triage!Supersede, Triage!Superseded
<1>. HIDE DEF j, c
<1>5. \A r \in 1 .. Len(s2) : s2'[r] = IF s2[r].case = c /\ s2[r].status = "PENDING"
                                       THEN [s2[r] EXCEPT !.status = "SUPERSEDED"] ELSE s2[r]
  BY <1>4 DEF Triage!Pending
<1>6. ASSUME NEW r \in 1 .. Len(s2)
      PROVE  /\ s2'[r] \in Triage!Recommendation /\ s2'[r].case = s2[r].case
             /\ s2'[r].action = s2[r].action
             /\ s2'[r].status = IF s2[r].case = c /\ s2[r].status = "PENDING"
                                THEN "SUPERSEDED" ELSE s2[r].status
  <2>1. s2[r] \in Triage!Recommendation
    BY <1>1
  <2>2. CASE s2[r].case = c /\ s2[r].status = "PENDING"
    <3>1. s2'[r] = [s2[r] EXCEPT !.status = "SUPERSEDED"]
      BY <1>5, <2>2
    <3>2. LET x == [s2[r] EXCEPT !.status = "SUPERSEDED"] IN
             /\ x \in Triage!Recommendation /\ x.case = s2[r].case
             /\ x.action = s2[r].action /\ x.status = "SUPERSEDED"
      BY <2>1 DEF Triage!Recommendation
    <3>. QED  BY <2>2, <3>1, <3>2
  <2>3. CASE ~(s2[r].case = c /\ s2[r].status = "PENDING")
    <3>1. s2'[r] = s2[r]
      BY <1>5, <2>3
    <3>. QED  BY <2>1, <2>3, <3>1
  <2>. QED  BY <2>2, <2>3
<1>7. s2' \in [1 .. Len(s2) -> Triage!Recommendation]
  BY <1>4, <1>6
<1>8. s2' \in Seq(Triage!Recommendation) /\ Len(s2') = Len(s2)
  BY <1>1, <1>7
<1>9. \A r \in 1 .. Len(s2) :
               /\ s2'[r].case = s2[r].case /\ s2'[r].action = s2[r].action
               /\ s2'[r].status = "PENDING" => s2[r].status = "PENDING"
               /\ s2'[r].status = "APPLIED" => s4[r] >= 1
               /\ s2'[r] # s2[r] => \/ r \in Triage!Deciding(s3[s])
                                    \/ s2[r].status = "PENDING" /\ s2'[r].status = "SUPERSEDED"
  <2>1. \A r \in 1 .. Len(s2) : s2[r].status = "APPLIED" => s4[r] >= 1
    BY <1>1 DEF Triage!IInv, Triage!MovedOnce
  <2>2. \A r \in 1 .. Len(s2) : s2'[r] # s2[r] => s2[r].case = c /\ s2[r].status = "PENDING"
    BY <1>5
  <2>. QED  BY <1>6, <2>1, <2>2
<1>10. \A r \in 1 .. Len(s2) : s2'[r].case = j.case => s2'[r].status # "PENDING"
  BY <1>3, <1>6
<1>11. /\ j.action \in Triage!AllowedFor(j.seen)
       /\ Triage!ApplyTo(j.action) # Triage!NoTarget =>
              <<j.seen, Triage!ApplyTo(j.action)>> \in Triage!Law!Transitions
  BY <1>2, <1>3 DEF Triage!IInv, Triage!FitsWhatWasSeen
<1>. QED  BY <1>2, <1>3, <1>8, <1>9, <1>10, <1>11, TriageRewrites

LEMMA TriageDecides ==
    ASSUME Triage!IInv, Triage!Next, NEW s \in Hands, Triage!RecordApplied(s) \/ Triage!Skip(s)
    PROVE  Triage!IInv' /\ Triage!DecisionKept
<1> DEFINE k == s3[s].id
<1>1. /\ \A q \in Hands : s3[q] \in Triage!Jobs
      /\ s2 \in Seq(Triage!Recommendation) /\ Len(s2) \in Nat /\ DOMAIN s2 = 1 .. Len(s2)
      /\ \A r \in 1 .. Len(s2) : s2[r] \in Triage!Recommendation
  BY TriageHas
<1>2. PICK st \in {"APPLIED", "SKIPPED"} :
         /\ s2' = [s2 EXCEPT ![k].status = st]
         /\ s3[s].pc = IF st = "APPLIED" THEN "record" ELSE "skip"
  BY DEF Triage!RecordApplied, Triage!Skip
<1>3. s3' = [s3 EXCEPT ![s] = Triage!IdleJob] /\ UNCHANGED <<s1, s4>>
  BY DEF Triage!RecordApplied, Triage!Skip, Triage!Done
<1>4. k \in 1 .. Len(s2) /\ Triage!Deciding(s3[s]) = {k}
  BY <1>1, <1>2, TriageJob DEF Triage!Deciding
<1>5. /\ Triage!IdleJob \in Triage!Jobs /\ Triage!IdleJob.pc = "idle" /\ Triage!Deciding(Triage!IdleJob) = {}
  BY DEF Triage!IdleJob, Triage!Jobs, Triage!Deciding
<1>6. st = "APPLIED" => s4[k] >= 1
  BY <1>2 DEF Triage!IInv, Triage!MovedOnce
<1> DEFINE e == [s2[k] EXCEPT !.status = st]
<1>7. /\ e \in Triage!Recommendation /\ e.case = s2[k].case /\ e.action = s2[k].action /\ e.status = st
  <2>1. s2[k] \in Triage!Recommendation
    BY <1>1, <1>4
  <2>. QED  BY <2>1 DEF Triage!Recommendation
<1>8. s2' = [s2 EXCEPT ![k] = e]
  BY <1>2
<1>. HIDE DEF e, k
<1>9. /\ s2' \in Seq(Triage!Recommendation) /\ Len(s2') = Len(s2)
      /\ \A r \in 1 .. Len(s2) : s2'[r] = IF r = k THEN e ELSE s2[r]
  BY <1>1, <1>4, <1>7, <1>8, ExceptSeq
<1>10. \A r \in 1 .. Len(s2) :
               /\ s2'[r].case = s2[r].case /\ s2'[r].action = s2[r].action
               /\ s2'[r].status = "PENDING" => s2[r].status = "PENDING"
               /\ s2'[r].status = "APPLIED" => s4[r] >= 1
               /\ s2'[r] # s2[r] => r \in Triage!Deciding(s3[s])
  <2>1. \A r \in 1 .. Len(s2) : s2[r].status = "APPLIED" => s4[r] >= 1
    BY <1>1 DEF Triage!IInv, Triage!MovedOnce
  <2>. QED  BY <1>4, <1>6, <1>7, <1>9, <2>1
<1>. QED  BY <1>3, <1>5, <1>9, <1>10, TriageRewrites

\* What the invariant says of every recommendation and of every request.
LEMMA TriageKnows ==
    ASSUME Triage!IInv
    PROVE  /\ \A q \in Hands : s3[q].pc \in {"transition", "move", "record"} =>
                 Triage!ApplyTo(s2[s3[q].id].action) # Triage!NoTarget
           /\ \A r \in 1 .. Len(s2) : s2[r].case \notin s5.cases /\ s4[r] >= 1 =>
                 /\ Triage!ApplyTo(s2[r].action) # Triage!NoTarget
                 /\ Triage!Rank[s1[s2[r].case]] >= Triage!Rank[Triage!ApplyTo(s2[r].action)]
           /\ \A q \in Hands : s3[q].pc = "move" /\ s2[s3[q].id].case \notin s5.cases =>
                 <<s1[s2[s3[q].id].case], Triage!ApplyTo(s2[s3[q].id].action)>> \in Triage!Law!Transitions
           /\ \A q \in Hands : s3[q].pc = "record" => s4[s3[q].id] >= 1
           /\ \A r \in 1 .. Len(s2) : s2[r].case \notin s5.cases => s4[r] <= 1
           /\ \A r \in 1 .. Len(s2) : s2[r].status = "APPLIED" => s4[r] >= 1
           /\ \A r \in 1 .. MaxRows \ (1 .. Len(s2)) : s4[r] = 0
           /\ \A r \in (1 .. Len(s2)) \ s5.recs : s2[r].status \in {"APPLIED", "SKIPPED"} =>
                 \A q \in Hands : r \notin Triage!Deciding(s3[q])
<1>1. DOMAIN s2 = 1 .. Len(s2)
  BY TriageHas
<1>. QED  BY <1>1 DEF Triage!IInv, Triage!MovedOnce, Triage!Target, Triage!Open, Triage!Decided

LEMMA TriagePending ==
    ASSUME Triage!IInv, NEW k \in Cases \ s5.cases
    PROVE  /\ \A q, r \in 1 .. Len(s2) : s2[q].case = k /\ s2[r].case = k
                                          /\ s2[q].status = "PENDING" /\ s2[r].status = "PENDING" => q = r
           /\ \A q \in Hands : s3[q].pc = "create" /\ s3[q].case = k =>
                 \A r \in 1 .. Len(s2) : s2[r].case = k => s2[r].status # "PENDING"
<1>1. Triage!OnePending
  BY DEF Triage!IInv
<1>2. /\ \A q, r \in DOMAIN s2 : s2[q].case = k /\ s2[r].case = k
                                   /\ Triage!Pending(q) /\ Triage!Pending(r) => q = r
      /\ \A q \in Hands : s3[q].pc = "create" /\ s3[q].case = k =>
               \A r \in DOMAIN s2 : s2[r].case = k => ~ Triage!Pending(r)
  BY <1>1, Zenon DEF Triage!OnePending
<1>3. \A r : Triage!Pending(r) <=> s2[r].status = "PENDING"
  BY DEF Triage!Pending
<1>4. DOMAIN s2 = 1 .. Len(s2)
  BY TriageHas
<1>. QED  BY <1>2, <1>3, <1>4

LEMMA TriageCreates ==
    ASSUME Triage!IInv, Triage!Next, NEW s \in Hands, Triage!Create(s)
    PROVE  Triage!IInv' /\ Triage!DecisionKept
<1> DEFINE n == Len(s2) + 1
           c == s3[s].case
           e == [case |-> c, action |-> s3[s].action, status |-> "PENDING"]
           j == IF s3[s].left = {} THEN Triage!IdleJob ELSE [pc |-> "recommend", left |-> s3[s].left]
<1>1. /\ \A q \in Hands : s3[q] \in Triage!Jobs
      /\ s2 \in Seq(Triage!Recommendation) /\ Len(s2) \in Nat /\ DOMAIN s2 = 1 .. Len(s2)
      /\ s1 \in [Cases -> Triage!Law!Status] /\ s4 \in [1 .. MaxRows -> Nat]
  BY TriageHas
<1>2. /\ s3[s].pc = "create" /\ s2' = Append(s2, e) /\ s3' = [s3 EXCEPT ![s] = j] /\ UNCHANGED <<s1, s4>>
      /\ Len(s2) < MaxRows
  BY DEF Triage!Create
<1>3. s3[s].left \in Triage!Rows /\ c \in Cases /\ s3[s].action \in Triage!Actions
      /\ Triage!Adding(s3[s]) = {c}
  BY <1>1, <1>2, TriageJob DEF Triage!Adding
<1>4. j \in Triage!Jobs /\ j.pc \in {"idle", "recommend"} /\ Triage!Deciding(j) = {}
  BY <1>3 DEF Triage!Jobs, Triage!IdleJob, Triage!Deciding
<1>5. e \in Triage!Recommendation /\ e.case = c /\ e.status = "PENDING"
  BY <1>3 DEF Triage!Recommendation
<1>. HIDE DEF e, j, c
<1>6. /\ s2' \in Seq(Triage!Recommendation) /\ Len(s2') = n /\ DOMAIN s2' = 1 .. n
      /\ \A r \in 1 .. Len(s2) : s2'[r] = s2[r]
      /\ s2'[n] = e
  BY <1>1, <1>2, <1>5, AppendProperties
<1>7. Len(s2) <= Len(s2') /\ Len(s2') <= MaxRows /\ n \in 1 .. n /\ n \notin 1 .. Len(s2)
      /\ n \in 1 .. MaxRows
      /\ \A r \in 1 .. n : r = n \/ r \in 1 .. Len(s2)
  <2>1. MaxRows \in Nat
    BY DeskAssumption
  <2>. QED  BY <1>1, <1>2, <1>6, <2>1
<1>8. /\ s3'[s] = j /\ \A q \in Hands \ {s} : s3'[q] = s3[q]
      /\ Triage!TypeOK' /\ (s3 \in [Hands -> Triage!Jobs])' /\ (Len(s2) <= MaxRows)'
      /\ (s5 \in [recs : SUBSET (1 .. Len(s2)), cases : SUBSET Cases])'
      /\ s5.recs \subseteq s5'.recs /\ s5.cases \subseteq s5'.cases /\ Triage!RacesNoted'
  <2>1. /\ s1' \in [Cases -> Triage!Law!Status] /\ s4' \in [1 .. MaxRows -> Nat]
    BY <1>1, <1>2
  <2>. QED  BY <1>2, <1>4, <1>6, <1>7, <2>1, TriageTypes
<1>. HIDE DEF n
<1>9. ASSUME NEW k \in Cases \ s5'.cases
      PROVE  /\ \A q, r \in 1 .. n : s2'[q].case = k /\ s2'[r].case = k
                                      /\ s2'[q].status = "PENDING" /\ s2'[r].status = "PENDING" => q = r
             /\ \A q \in Hands : s3'[q].pc = "create" /\ s3'[q].case = k =>
                   \A r \in 1 .. n : s2'[r].case = k => s2'[r].status # "PENDING"
  <2>0. k \in Cases \ s5.cases
    BY <1>8, <1>9
  <2>1. /\ \A q, r \in 1 .. Len(s2) : s2[q].case = k /\ s2[r].case = k
                                       /\ s2[q].status = "PENDING" /\ s2[r].status = "PENDING" => q = r
        /\ \A q \in Hands : s3[q].pc = "create" /\ s3[q].case = k =>
              \A r \in 1 .. Len(s2) : s2[r].case = k => s2[r].status # "PENDING"
    BY <2>0, TriagePending
  <2>2. CASE k = c
    <3>1. \A r \in 1 .. Len(s2) : s2[r].case = k => s2[r].status # "PENDING"
      BY <1>2, <2>1, <2>2 DEF c
    <3>2. ASSUME NEW q \in Hands, s3'[q].pc = "create", s3'[q].case = k PROVE FALSE
      <4>1. q # s /\ s3'[q] = s3[q]
        BY <1>4, <1>8, <3>2
      <4>2. Triage!Adding(s3[q]) \cap Triage!Adding(s3[s]) \subseteq s5.cases
        BY <4>1, TriageApart
      <4>3. k \in Triage!Adding(s3[q])
        BY <3>2, <4>1 DEF Triage!Adding
      <4>. QED  BY <1>3, <2>0, <2>2, <4>2, <4>3
    <3>. QED  BY <1>6, <1>7, <3>1, <3>2
  <2>3. CASE k # c
    <3>1. \A q \in Hands : s3'[q].pc = "create" => s3'[q] = s3[q]
      BY <1>4, <1>8
    <3>2. \A q \in 1 .. n : s2'[q].case = k => q \in 1 .. Len(s2) /\ s2'[q] = s2[q]
      BY <1>5, <1>6, <1>7, <2>3, Zenon
    <3>3. \A q, r \in 1 .. n : s2'[q].case = k /\ s2'[r].case = k
                               /\ s2'[q].status = "PENDING" /\ s2'[r].status = "PENDING" => q = r
      BY <2>1, <3>2, Zenon
    <3>4. \A q \in Hands : s3'[q].pc = "create" /\ s3'[q].case = k =>
              \A r \in 1 .. n : s2'[r].case = k => s2'[r].status # "PENDING"
      BY <2>1, <3>1, <3>2, Zenon
    <3>. QED  BY <3>3, <3>4, Zenon
  <2>. QED  BY <2>2, <2>3
<1>10. Triage!OnePending'
  BY <1>6, <1>9 DEF Triage!OnePending, Triage!Pending
<1>11. Triage!MovedOnce'
  <2>1. \A q \in Hands : s3'[q].pc \in {"transition", "move", "record"} =>
            s3'[q] = s3[q] /\ s3[q].id \in 1 .. Len(s2)
    BY <1>1, <1>4, <1>8, TriageJob
  <2>2. /\ \A q \in Hands : s3[q].pc \in {"transition", "move", "record"} =>
              Triage!ApplyTo(s2[s3[q].id].action) # Triage!NoTarget
        /\ \A q \in Hands : s3[q].pc = "move" /\ s2[s3[q].id].case \notin s5.cases =>
              <<s1[s2[s3[q].id].case], Triage!ApplyTo(s2[s3[q].id].action)>> \in Triage!Law!Transitions
        /\ \A q \in Hands : s3[q].pc = "record" => s4[s3[q].id] >= 1
    BY TriageKnows
  <2>3. /\ \A r \in 1 .. Len(s2) : s2[r].case \notin s5.cases /\ s4[r] >= 1 =>
              /\ Triage!ApplyTo(s2[r].action) # Triage!NoTarget
              /\ Triage!Rank[s1[s2[r].case]] >= Triage!Rank[Triage!ApplyTo(s2[r].action)]
        /\ \A r \in 1 .. Len(s2) : s2[r].case \notin s5.cases => s4[r] <= 1
        /\ \A r \in 1 .. Len(s2) : s2[r].status = "APPLIED" => s4[r] >= 1
        /\ \A r \in 1 .. MaxRows \ (1 .. Len(s2)) : s4[r] = 0
    BY TriageKnows
  <2>4. s4[n] = 0
    BY <1>7, <2>3
  <2>5. \A q \in Hands : s3'[q].pc \in {"transition", "move", "record"} =>
              Triage!ApplyTo(s2'[s3'[q].id].action) # Triage!NoTarget
    BY <1>6, <2>1, <2>2
  <2>6. \A r \in 1 .. n : s2'[r].case \notin s5'.cases /\ s4'[r] >= 1 =>
              /\ Triage!ApplyTo(s2'[r].action) # Triage!NoTarget
              /\ Triage!Rank[s1'[s2'[r].case]] >= Triage!Rank[Triage!ApplyTo(s2'[r].action)]
    <3>1. ASSUME NEW r \in 1 .. n, s2'[r].case \notin s5'.cases, s4'[r] >= 1
          PROVE  r \in 1 .. Len(s2) /\ s2'[r] = s2[r] /\ s2[r].case \notin s5.cases /\ s4[r] >= 1
      <4>1. r # n
        BY <1>2, <2>4, <3>1
      <4>. QED  BY <1>2, <1>6, <1>7, <1>8, <3>1, <4>1
    <3>. QED  BY <1>2, <2>3, <3>1
  <2>7. \A q \in Hands : s3'[q].pc = "move" /\ s2'[s3'[q].id].case \notin s5'.cases =>
              <<s1'[s2'[s3'[q].id].case], Triage!ApplyTo(s2'[s3'[q].id].action)>> \in Triage!Law!Transitions
    BY <1>2, <1>6, <1>8, <2>1, <2>2
  <2>8. \A q \in Hands : s3'[q].pc = "record" => s4'[s3'[q].id] >= 1
    BY <1>2, <2>1, <2>2
  <2>9. \A r \in 1 .. n : s2'[r].case \notin s5'.cases => s4'[r] <= 1
    BY <1>2, <1>6, <1>7, <1>8, <2>3, <2>4
  <2>10. \A r \in 1 .. n : s2'[r].status = "APPLIED" => s4'[r] >= 1
    BY <1>2, <1>5, <1>6, <1>7, <2>3
  <2>11. \A r \in 1 .. MaxRows \ (1 .. n) : s4'[r] = 0
    BY <1>1, <1>2, <2>3 DEF n
  <2>. QED  BY <1>6, <2>5, <2>6, <2>7, <2>8, <2>9, <2>10, <2>11 DEF Triage!MovedOnce, Triage!Target, Triage!Open
<1>12. Triage!Decided'
  <2>1. ASSUME NEW r \in (1 .. n) \ s5'.recs, s2'[r].status \in {"APPLIED", "SKIPPED"}, NEW q \in Hands
        PROVE  r \notin Triage!Deciding(s3'[q])
    <3>1. r # n
      BY <1>5, <1>6, <2>1
    <3>2. r \in (1 .. Len(s2)) \ s5.recs /\ s2[r].status \in {"APPLIED", "SKIPPED"}
      BY <1>6, <1>7, <1>8, <2>1, <3>1
    <3>3. r \notin Triage!Deciding(s3[q])
      BY <3>2, TriageKnows
    <3>. QED  BY <1>4, <1>8, <3>3
  <2>. QED  BY <1>6, <2>1 DEF Triage!Decided
<1>13. Triage!FitsWhatWasSeen'
  BY <1>4, <1>8 DEF Triage!IInv, Triage!FitsWhatWasSeen
<1>14. Triage!DecisionKept
  BY <1>1, <1>2, <1>6 DEF Triage!DecisionKept
<1>. QED  BY <1>8, <1>10, <1>11, <1>12, <1>13, <1>14 DEF Triage!IInv

\* A case is moved on: by a request that applies k, or by hand (k = 0).
LEMMA TriageCaseMoves ==
    ASSUME Triage!IInv, UNCHANGED s2, NEW k \in 0 .. Len(s2), NEW c \in Cases, NEW to,
           s1' = [s1 EXCEPT ![c] = to],
           k # 0 => s2[k].case = c /\ Triage!ApplyTo(s2[k].action) = to /\ to # Triage!NoTarget,
           c \notin s5.cases => <<s1[c], to>> \in Triage!Law!Transitions,
           \A r \in 1 .. MaxRows : s4'[r] = IF r = k THEN s4[r] + 1 ELSE s4[r],
           s5.cases \subseteq s5'.cases,
           \A q \in Hands : s3'[q].pc = "move" /\ s1'[s2[s3'[q].id].case] # s1[s2[s3'[q].id].case]
                  => s2[s3'[q].id].case \in s5'.cases,
           \A q \in Hands : s3'[q] = s3[q] \/ (s3'[q].pc = "record" /\ s3'[q].id = k /\ k # 0)
    PROVE  Triage!MovedOnce'
<1>1. /\ \A q \in Hands : s3[q] \in Triage!Jobs
      /\ Len(s2) \in Nat /\ DOMAIN s2 = 1 .. Len(s2) /\ Len(s2) <= MaxRows
      /\ s1 \in [Cases -> Triage!Law!Status] /\ s4 \in [1 .. MaxRows -> Nat]
      /\ \A r \in 1 .. Len(s2) : s2[r] \in Triage!Recommendation
  BY TriageHas
<1>2. MaxRows \in Nat /\ \A r \in 1 .. Len(s2) : r \in 1 .. MaxRows
  BY <1>1, DeskAssumption
<1>3. \A r \in 1 .. Len(s2) : s2[r].case \in Cases
  BY <1>1 DEF Triage!Recommendation
<1>4. \A d \in Cases : s1'[d] = IF d = c THEN to ELSE s1[d]
  BY <1>1
<1>5. \A q \in Hands : s3[q].pc \in {"transition", "move", "record"} => s3[q].id \in 1 .. Len(s2)
  BY <1>1, TriageJob
<1>6. c \notin s5.cases =>
          /\ s1[c] \in Triage!Law!Status /\ to \in Triage!Law!Status
          /\ Triage!Rank[s1[c]] \in Nat /\ Triage!Rank[to] \in Nat /\ Triage!Rank[s1[c]] < Triage!Rank[to]
          /\ to # s1[c]
  BY TriageRanks
<1>7. \A r \in 1 .. Len(s2) : Triage!ApplyTo(s2[r].action) # Triage!NoTarget =>
          Triage!Rank[Triage!ApplyTo(s2[r].action)] \in Nat
  BY TriageRanks
<1>8. \A q \in Hands : s3'[q].pc \in {"transition", "move", "record"} =>
              Triage!ApplyTo(s2'[s3'[q].id].action) # Triage!NoTarget
  <2>1. \A q \in Hands : s3[q].pc \in {"transition", "move", "record"} =>
                 Triage!ApplyTo(s2[s3[q].id].action) # Triage!NoTarget
    BY TriageKnows
  <2>. QED  BY <2>1
<1>9. \A r \in 1 .. Len(s2) : s2[r].case \notin s5.cases /\ s4[r] >= 1 =>
                 /\ Triage!ApplyTo(s2[r].action) # Triage!NoTarget
                 /\ Triage!Rank[s1[s2[r].case]] >= Triage!Rank[Triage!ApplyTo(s2[r].action)]
  BY TriageKnows
<1>10. ASSUME NEW r \in 1 .. Len(s2), s2[r].case \notin s5'.cases, s4'[r] >= 1
       PROVE  /\ Triage!ApplyTo(s2[r].action) # Triage!NoTarget
              /\ Triage!Rank[s1'[s2[r].case]] >= Triage!Rank[Triage!ApplyTo(s2[r].action)]
  <2>0. s2[r].case \notin s5.cases /\ s2[r].case \in Cases
    BY <1>3, <1>10
  <2>1. CASE r = k
    BY <1>4, <1>6, <2>0, <2>1
  <2>2. CASE r # k
    <3>1. s4[r] >= 1
      BY <1>2, <1>10, <2>2
    <3>2. /\ Triage!ApplyTo(s2[r].action) # Triage!NoTarget
          /\ Triage!Rank[s1[s2[r].case]] >= Triage!Rank[Triage!ApplyTo(s2[r].action)]
      BY <1>9, <2>0, <3>1
    <3>. QED  BY <1>4, <1>6, <1>7, <2>0, <3>2
  <2>. QED  BY <2>1, <2>2
<1>11. ASSUME NEW q \in Hands, s3'[q].pc = "move", s2[s3'[q].id].case \notin s5'.cases
       PROVE  <<s1'[s2[s3'[q].id].case], Triage!ApplyTo(s2[s3'[q].id].action)>> \in Triage!Law!Transitions
  <2>1. s3'[q] = s3[q] /\ s3[q].id \in 1 .. Len(s2) /\ s2[s3[q].id].case \notin s5.cases
    BY <1>5, <1>11
  <2>2. <<s1[s2[s3[q].id].case], Triage!ApplyTo(s2[s3[q].id].action)>> \in Triage!Law!Transitions
    BY <1>11, <2>1, TriageKnows
  <2>. QED  BY <1>11, <2>1, <2>2
<1>12. \A q \in Hands : s3'[q].pc = "record" => s4'[s3'[q].id] >= 1
  <2>1. ASSUME NEW q \in Hands, s3'[q].pc = "record" PROVE s4'[s3'[q].id] >= 1
    <3>1. CASE s3'[q] = s3[q]
      <4>1. s4[s3[q].id] >= 1 /\ s3[q].id \in 1 .. MaxRows
        BY <1>2, <1>5, <2>1, <3>1, TriageKnows
      <4>. QED  BY <1>1, <3>1, <4>1
    <3>2. CASE s3'[q].id = k /\ k # 0
      <4>1. k \in 1 .. MaxRows /\ s4[k] \in Nat
        BY <1>1, <1>2, <3>2
      <4>. QED  BY <3>2, <4>1
    <3>. QED  BY <2>1, <3>1, <3>2
  <2>. QED  BY <2>1
<1>13. \A r \in 1 .. Len(s2) : s2[r].case \notin s5'.cases => s4'[r] <= 1
  <2>1. ASSUME NEW r \in 1 .. Len(s2), s2[r].case \notin s5'.cases PROVE s4'[r] <= 1
    <3>1. s4[r] <= 1 /\ s4[r] \in Nat
      BY <1>1, <1>2, <2>1, TriageKnows
    <3>2. CASE r = k
      <4>1. ~ (s4[r] >= 1)
        BY <1>6, <1>9, <2>1, <3>2
      <4>. QED  BY <1>2, <3>1, <3>2, <4>1
    <3>. QED  BY <1>2, <3>1, <3>2
  <2>. QED  BY <2>1
<1>14. \A r \in 1 .. Len(s2) : s2[r].status = "APPLIED" => s4'[r] >= 1
  <2>1. \A r \in 1 .. Len(s2) : s2[r].status = "APPLIED" => s4[r] >= 1
    BY TriageKnows
  <2>. QED  BY <1>1, <1>2, <2>1
<1>15. \A r \in 1 .. MaxRows \ (1 .. Len(s2)) : s4'[r] = 0
  <2>1. \A r \in 1 .. MaxRows \ (1 .. Len(s2)) : s4[r] = 0
    BY TriageKnows
  <2>. QED  BY <1>1, <2>1
<1>. QED  BY <1>1, <1>8, <1>10, <1>11, <1>12, <1>13, <1>14, <1>15
          DEF Triage!MovedOnce, Triage!Target, Triage!Open

\* What is left of the invariant when the recommendations stand and no request
\* takes one up.
LEMMA TriageStands ==
    ASSUME Triage!IInv, UNCHANGED s2, s5.recs \subseteq s5'.recs, s5.cases \subseteq s5'.cases,
           \A q \in Hands : \/ s3'[q] = s3[q]
                            \/ s3'[q].pc = "record" /\ Triage!Deciding(s3'[q]) = Triage!Deciding(s3[q])
    PROVE  Triage!OnePending' /\ Triage!Decided' /\ Triage!FitsWhatWasSeen'
<1>1. DOMAIN s2 = 1 .. Len(s2)
  BY TriageHas
<1>2. \A k \in Cases \ s5'.cases :
         /\ \A q, r \in 1 .. Len(s2) : s2[q].case = k /\ s2[r].case = k
                                          /\ s2[q].status = "PENDING" /\ s2[r].status = "PENDING" => q = r
         /\ \A q \in Hands : s3'[q].pc = "create" /\ s3'[q].case = k =>
                 \A r \in 1 .. Len(s2) : s2[r].case = k => s2[r].status # "PENDING"
  BY TriagePending
<1>3. Triage!OnePending'
  BY <1>1, <1>2 DEF Triage!OnePending, Triage!Pending
<1>4. \A r \in (1 .. Len(s2)) \ s5'.recs : s2[r].status \in {"APPLIED", "SKIPPED"} =>
          \A q \in Hands : r \notin Triage!Deciding(s3'[q])
  <2>1. \A r \in (1 .. Len(s2)) \ s5.recs : s2[r].status \in {"APPLIED", "SKIPPED"} =>
          \A q \in Hands : r \notin Triage!Deciding(s3[q])
    BY TriageKnows
  <2>. QED  BY <2>1
<1>5. Triage!Decided'
  BY <1>1, <1>4 DEF Triage!Decided
<1>6. Triage!FitsWhatWasSeen'
  BY DEF Triage!IInv, Triage!FitsWhatWasSeen
<1>. QED  BY <1>3, <1>5, <1>6

LEMMA TriageApplies ==
    ASSUME Triage!IInv, Triage!Next, NEW s \in Hands, Triage!Move(s)
    PROVE  Triage!IInv' /\ Triage!DecisionKept
<1> DEFINE k == s3[s].id
           c == s2[k].case
           to == Triage!ApplyTo(s2[k].action)
           j == [s3[s] EXCEPT !.pc = "record"]
<1>1. /\ \A q \in Hands : s3[q] \in Triage!Jobs
      /\ s2 \in Seq(Triage!Recommendation) /\ Len(s2) \in Nat /\ DOMAIN s2 = 1 .. Len(s2)
      /\ \A r \in 1 .. Len(s2) : s2[r] \in Triage!Recommendation
      /\ s1 \in [Cases -> Triage!Law!Status] /\ s4 \in [1 .. MaxRows -> Nat] /\ Len(s2) <= MaxRows
  BY TriageHas
<1>2. /\ s3[s].pc = "move" /\ s1' = [s1 EXCEPT ![c] = to] /\ s4' = [s4 EXCEPT ![k] = @ + 1]
      /\ s3' = [s3 EXCEPT ![s] = j] /\ s2' = s2
  BY DEF Triage!Move
<1>3. k \in 1 .. Len(s2) /\ s2[k] \in Triage!Recommendation /\ c \in Cases
      /\ Triage!Deciding(s3[s]) = {k}
  <2>1. k \in 1 .. Len(s2)
    BY <1>1, <1>2, TriageJob
  <2>2. s2[k] \in Triage!Recommendation
    BY <1>1, <2>1
  <2>3. Triage!Deciding(s3[s]) = {k}
    BY <1>2 DEF Triage!Deciding
  <2>. QED  BY <2>1, <2>2, <2>3 DEF Triage!Recommendation
<1>4. to # Triage!NoTarget /\ (c \notin s5.cases => <<s1[c], to>> \in Triage!Law!Transitions)
  BY <1>2, TriageKnows
<1>5. to \in Triage!Law!Status
  BY <1>4, TriageRanks
<1>6. j \in Triage!Jobs /\ j.pc = "record" /\ j.id = k /\ Triage!Deciding(j) = {k}
  BY <1>1, <1>2, TriageGoesOn DEF Triage!Deciding
<1>. HIDE DEF j, k, to, c
<1>7. /\ s1' \in [Cases -> Triage!Law!Status] /\ s4' \in [1 .. MaxRows -> Nat]
      /\ \A r \in 1 .. MaxRows : s4'[r] = IF r = k THEN s4[r] + 1 ELSE s4[r]
  <2>1. s1' \in [Cases -> Triage!Law!Status]
    BY <1>1, <1>2, <1>3, <1>5
  <2>2. s4 \in [1 .. MaxRows -> Nat] /\ s4' = [s4 EXCEPT ![k] = s4[k] + 1] /\ k \in 1 .. MaxRows
    <3>1. MaxRows \in Nat
      BY DeskAssumption
    <3>. QED  BY <1>1, <1>2, <1>3, <3>1
  <2>. QED  BY <2>1, <2>2
<1>8. /\ s3'[s] = j /\ \A q \in Hands \ {s} : s3'[q] = s3[q]
      /\ Triage!TypeOK' /\ (s3 \in [Hands -> Triage!Jobs])' /\ (Len(s2) <= MaxRows)'
      /\ (s5 \in [recs : SUBSET (1 .. Len(s2)), cases : SUBSET Cases])'
      /\ s5.recs \subseteq s5'.recs /\ s5.cases \subseteq s5'.cases /\ Triage!RacesNoted'
      /\ \A q \in Hands : s3'[q].pc = "move" /\ s1'[s2[s3'[q].id].case] # s1[s2[s3'[q].id].case]
                  => s2[s3'[q].id].case \in s5'.cases
  <2>1. /\ s2' \in Seq(Triage!Recommendation) /\ Len(s2) <= Len(s2') /\ Len(s2') <= MaxRows
    BY <1>1, <1>2
  <2>. QED  BY <1>2, <1>6, <1>7, <2>1, TriageTypes
<1>9. /\ \A q \in Hands : s3'[q] = s3[q] \/ (s3'[q].pc = "record" /\ s3'[q].id = k /\ k # 0)
      /\ \A q \in Hands : \/ s3'[q] = s3[q]
                          \/ s3'[q].pc = "record" /\ Triage!Deciding(s3'[q]) = Triage!Deciding(s3[q])
      /\ k \in 0 .. Len(s2)
  <2>1. k \in 0 .. Len(s2) /\ k # 0
    BY <1>1, <1>3
  <2>2. \A q \in Hands : q = s \/ s3'[q] = s3[q]
    BY <1>8
  <2>3. s3'[s].pc = "record" /\ s3'[s].id = k /\ Triage!Deciding(s3'[s]) = Triage!Deciding(s3[s])
    BY <1>3, <1>6, <1>8
  <2>. QED  BY <2>1, <2>2, <2>3
<1>10. Triage!MovedOnce'
  <2>1. s2[k].case = c /\ Triage!ApplyTo(s2[k].action) = to
    BY DEF c, to
  <2>. QED  BY <1>2, <1>3, <1>4, <1>7, <1>8, <1>9, <2>1, TriageCaseMoves
<1>11. Triage!OnePending' /\ Triage!Decided' /\ Triage!FitsWhatWasSeen'
  BY <1>2, <1>8, <1>9, TriageStands
<1>12. Triage!DecisionKept
  <2>1. ASSUME NEW r \in (1 .. Len(s2)) \ s5'.recs, s2[r].status \in {"APPLIED", "SKIPPED"}
        PROVE  s4'[r] = s4[r]
    <3>1. r \notin Triage!Deciding(s3[s])
      BY <1>8, <2>1, TriageKnows
    <3>. QED  BY <1>1, <1>2, <1>3, <3>1
  <2>. QED  BY <1>1, <1>2, <2>1 DEF Triage!DecisionKept
<1>. QED  BY <1>8, <1>10, <1>11, <1>12 DEF Triage!IInv

LEMMA TriageByHand ==
    ASSUME Triage!IInv, Triage!Next, Triage!MoveByHand
    PROVE  Triage!IInv' /\ Triage!DecisionKept
<1>1. /\ \A q \in Hands : s3[q] \in Triage!Jobs
      /\ s1 \in [Cases -> Triage!Law!Status] /\ s4 \in [1 .. MaxRows -> Nat] /\ Len(s2) \in Nat
  BY TriageHas
<1>2. PICK c \in Cases, to \in Triage!Law!Status :
         <<s1[c], to>> \in Triage!Law!Transitions /\ s1' = [s1 EXCEPT ![c] = to]
  BY DEF Triage!MoveByHand
<1>3. s2' = s2 /\ s3' = s3 /\ s4' = s4
  BY DEF Triage!MoveByHand
<1>4. s1' \in [Cases -> Triage!Law!Status] /\ 0 \in 0 .. Len(s2)
  BY <1>1, <1>2
<1>5. /\ (s5 \in [recs : SUBSET (1 .. Len(s2)), cases : SUBSET Cases])'
      /\ s5.recs \subseteq s5'.recs /\ s5.cases \subseteq s5'.cases /\ Triage!RacesNoted'
      /\ \A q \in Hands : s3'[q].pc = "move" /\ s1'[s2[s3'[q].id].case] # s1[s2[s3'[q].id].case]
                  => s2[s3'[q].id].case \in s5'.cases
  <2>1. s3' \in [Hands -> Triage!Jobs]
    BY <1>3 DEF Triage!IInv
  <2>. QED  BY <1>3, <2>1, TriageRaces
<1>6. Triage!TypeOK' /\ (s3 \in [Hands -> Triage!Jobs])' /\ (Len(s2) <= MaxRows)'
  BY <1>3, <1>4 DEF Triage!IInv, Triage!TypeOK, Triage!Jobs, Triage!Rows
<1>7. \A r \in 1 .. MaxRows : s4'[r] = IF r = 0 THEN s4[r] + 1 ELSE s4[r]
  BY <1>3
<1>8. Triage!MovedOnce'
  BY <1>2, <1>3, <1>4, <1>5, <1>7, TriageCaseMoves
<1>9. Triage!OnePending' /\ Triage!Decided' /\ Triage!FitsWhatWasSeen'
  BY <1>3, <1>5, TriageStands
<1>10. Triage!DecisionKept
  BY <1>3 DEF Triage!DecisionKept
<1>. QED  BY <1>5, <1>6, <1>8, <1>9, <1>10 DEF Triage!IInv

LEMMA TriageInit ==
    ASSUME Triage!Init PROVE Triage!IInv
<1>1. /\ s1 = [c \in Cases |-> "OPEN"] /\ s2 = <<>> /\ s3 = [s \in Hands |-> Triage!IdleJob]
      /\ s4 = [r \in 1 .. MaxRows |-> 0] /\ s5 = [recs |-> {}, cases |-> {}]
  BY DEF Triage!Init
<1>2. MaxRows \in Nat /\ Len(s2) = 0 /\ DOMAIN s2 = {} /\ s2 \in Seq(Triage!Recommendation)
  BY <1>1, DeskAssumption
<1>3. Triage!IdleJob \in Triage!Jobs /\ Triage!IdleJob.pc = "idle"
  BY DEF Triage!Jobs, Triage!IdleJob
<1>4. s3 \in [Hands -> Triage!Jobs] /\ \A s \in Hands : s3[s].pc = "idle"
  BY <1>1, <1>3
<1>5. Triage!TypeOK
  BY <1>1, <1>2, <1>4 DEF Triage!TypeOK, Triage!Law!Status
<1>6. s5 \in [recs : SUBSET (1 .. Len(s2)), cases : SUBSET Cases]
  BY <1>1
<1>7. Triage!RacesNoted
  <2>1. \A s \in Hands : Triage!Deciding(s3[s]) = {} /\ Triage!Adding(s3[s]) = {}
    BY <1>4 DEF Triage!Deciding, Triage!Adding
  <2>. QED  BY <2>1 DEF Triage!RacesNoted, Triage!Pairs
<1>8. Triage!OnePending
  BY <1>2, <1>4 DEF Triage!OnePending
<1>9. Triage!MovedOnce
  BY <1>1, <1>2, <1>4 DEF Triage!MovedOnce
<1>10. Triage!Decided /\ Triage!FitsWhatWasSeen
  BY <1>2, <1>4 DEF Triage!Decided, Triage!FitsWhatWasSeen
<1>. QED  BY <1>2, <1>4, <1>5, <1>6, <1>7, <1>8, <1>9, <1>10 DEF Triage!IInv

\* Every step, whatever the requests are about.
LEMMA TriageStep ==
    ASSUME Triage!IInv, Triage!Next PROVE Triage!IInv' /\ Triage!DecisionKept
<1>1. Triage!Step
  BY DEF Triage!Next
<1>2. CASE Triage!MoveByHand
  BY <1>2, TriageByHand
<1>3. CASE \E s \in Hands :
               \/ Triage!Run(s) \/ Triage!Investigate(s) \/ Triage!Recommend(s) \/ Triage!Supersede(s)
               \/ Triage!Create(s) \/ Triage!ReadToApply(s) \/ Triage!CheckMove(s) \/ Triage!Move(s)
               \/ Triage!RecordApplied(s) \/ Triage!ReadToSkip(s) \/ Triage!Skip(s) \/ Triage!Crash(s)
  <2>1. PICK s \in Hands :
               \/ Triage!Run(s) \/ Triage!Investigate(s) \/ Triage!Recommend(s) \/ Triage!Supersede(s)
               \/ Triage!Create(s) \/ Triage!ReadToApply(s) \/ Triage!CheckMove(s) \/ Triage!Move(s)
               \/ Triage!RecordApplied(s) \/ Triage!ReadToSkip(s) \/ Triage!Skip(s) \/ Triage!Crash(s)
    BY <1>3
  <2>2. CASE \/ Triage!Run(s) \/ Triage!Investigate(s) \/ Triage!Recommend(s) \/ Triage!ReadToApply(s)
             \/ Triage!CheckMove(s) \/ Triage!ReadToSkip(s) \/ Triage!Crash(s)
    BY <2>2, TriageRequestReads
  <2>3. CASE Triage!Supersede(s)
    BY <2>3, TriageSupersedes
  <2>4. CASE Triage!Create(s)
    BY <2>4, TriageCreates
  <2>5. CASE Triage!Move(s)
    BY <2>5, TriageApplies
  <2>6. CASE Triage!RecordApplied(s) \/ Triage!Skip(s)
    BY <2>6, TriageDecides
  <2>. QED  BY <2>1, <2>2, <2>3, <2>4, <2>5, <2>6
<1>. QED  BY <1>1, <1>2, <1>3 DEF Triage!Step

LEMMA TriageFollows ==
    ASSUME Triage!IInv
    PROVE  Triage!TypeOK /\ Triage!OneAnswerPerCase /\ Triage!FitsWhatWasSeen
<1>1. DOMAIN s2 = 1 .. Len(s2)
  BY TriageHas
<1>2. ASSUME NEW c \in Cases \ s5.cases
      PROVE  Triage!Cardinality({r \in DOMAIN s2 : s2[r].case = c /\ Triage!Pending(r)}) <= 1
  <2> DEFINE P == {r \in DOMAIN s2 : s2[r].case = c /\ Triage!Pending(r)}
  <2>1. \A q, r \in P : q = r
    BY <1>1, TriagePending DEF Triage!Pending
  <2>. HIDE DEF P
  <2>2. P = {} \/ \E r : P = {r}
    BY <2>1
  <2>3. Cardinality(P) <= 1
    BY <2>2, FS_EmptySet, FS_Singleton
  <2>. QED  BY <2>3, TriageSets DEF P
<1>3. ASSUME NEW r \in DOMAIN s2, s2[r].case \notin s5.cases
      PROVE  s4[r] <= 1 /\ (s2[r].status = "APPLIED" => s4[r] = 1)
  <2>1. s4[r] <= 1 /\ (s2[r].status = "APPLIED" => s4[r] >= 1)
    BY <1>1, <1>3, TriageKnows
  <2>2. s4[r] \in Nat
    BY <1>1, TriageHas, DeskAssumption
  <2>. QED  BY <2>1, <2>2
<1>. QED  BY <1>2, <1>3 DEF Triage!IInv, Triage!OneAnswerPerCase

-----------------------------------------------------------------------------
(* The drafts of Iris.                                                         *)

LEMMA DraftsJob ==
    ASSUME NEW j \in Drafts!Jobs
    PROVE  /\ j.pc \in {"idle", "commit", "move", "record", "cancel"}
           /\ j.pc # "idle" => /\ j.staff \in Staff /\ j.id \in 1 .. Len(s3)
                               /\ Drafts!Deciding(j) = {j.id}
           /\ j.pc = "idle" => Drafts!Deciding(j) = {}
           /\ Drafts!Deciding(j) \subseteq 1 .. Len(s3)
  BY DEF Drafts!Jobs, Drafts!Deciding

LEMMA DraftsGoOn ==
    ASSUME NEW j \in Drafts!Jobs, j.pc # "idle", NEW pc \in {"move", "record"}
    PROVE  /\ [j EXCEPT !.pc = pc] \in Drafts!Jobs
           /\ [j EXCEPT !.pc = pc].pc = pc
           /\ [j EXCEPT !.pc = pc].id = j.id
           /\ Drafts!Deciding([j EXCEPT !.pc = pc]) = {j.id}
  BY DEF Drafts!Jobs, Drafts!Deciding

LEMMA DraftsIdle ==
    Drafts!IdleJob \in Drafts!Jobs /\ Drafts!IdleJob.pc = "idle" /\ Drafts!Deciding(Drafts!IdleJob) = {}
  BY DEF Drafts!Jobs, Drafts!IdleJob, Drafts!Deciding

LEMMA DraftsHas ==
    ASSUME Drafts!IInv
    PROVE  /\ \A q \in Hands : s5[q] \in Drafts!Jobs
           /\ s3 \in Seq(Drafts!Draft) /\ Len(s3) \in Nat /\ DOMAIN s3 = 1 .. Len(s3)
           /\ \A d \in 1 .. Len(s3) : s3[d] \in Drafts!Draft
           /\ s6 \in [1 .. MaxDrafts -> Nat] /\ Len(s3) <= MaxDrafts /\ MaxDrafts \in Nat
           /\ \A d \in 1 .. Len(s3) : d \in 1 .. MaxDrafts /\ s6[d] \in Nat
           /\ s7 \subseteq 1 .. Len(s3)
<1>1. s3 \in Seq(Drafts!Draft) /\ Len(s3) <= MaxDrafts /\ s6 \in [1 .. MaxDrafts -> Nat]
  BY DEF Drafts!IInv, Drafts!TypeOK
<1>2. \A d \in 1 .. Len(s3) : s3[d] \in Drafts!Draft
  BY <1>1, ElementOfSeq
<1>3. Len(s3) \in Nat /\ DOMAIN s3 = 1 .. Len(s3)
  BY <1>1
<1>4. \A d \in 1 .. Len(s3) : d \in 1 .. MaxDrafts /\ s6[d] \in Nat
  BY <1>1, <1>3, DeskAssumption
<1>. QED  BY <1>1, <1>2, <1>3, <1>4, DeskAssumption DEF Drafts!IInv

\* What the invariant says of every draft, and of every request that decides one.
LEMMA DraftsKnow ==
    ASSUME Drafts!IInv
    PROVE  /\ \A q, r \in Hands : q # r => Drafts!Deciding(s5[q]) \cap Drafts!Deciding(s5[r]) \subseteq s7
           /\ \A q \in Hands : s5[q].pc # "idle" /\ s5[q].id \notin s7 =>
                /\ s3[s5[q].id].status = "PENDING"
                /\ s5[q].pc \in {"commit", "cancel"} /\ s3[s5[q].id].kind # "notice" => s6[s5[q].id] = 0
                /\ s5[q].pc = "move" => s3[s5[q].id].kind = "notice" /\ s6[s5[q].id] = 0
                /\ s5[q].pc = "record" => s6[s5[q].id] = 1
           /\ \A d \in (1 .. Len(s3)) \ s7 : s3[d].status = "PENDING" /\ s3[d].kind # "notice" /\ s6[d] >= 1 =>
                \E q \in Hands : s5[q].pc = "record" /\ s5[q].id = d
           /\ \A d \in 1 .. Len(s3) : s3[d].kind = "notice" /\ s6[d] >= 1 =>
                s2[Case] \notin {"OPEN", "UNDER_REVIEW"}
           /\ \A d \in 1 .. MaxDrafts \ (1 .. Len(s3)) : s6[d] = 0
           /\ \A d \in (1 .. Len(s3)) \ s7 :
                /\ s6[d] <= 1
                /\ s3[d].status = "CONFIRMED" => s6[d] = 1
                /\ s3[d].status = "CANCELLED" => s6[d] = 0 \/ s3[d].kind = "notice"
<1>1. DOMAIN s3 = 1 .. Len(s3)
  BY DraftsHas
<1>. QED  BY <1>1 DEF Drafts!IInv, Drafts!TogetherNoted, Drafts!Undecided, Drafts!Undone, Drafts!Single,
                     Drafts!ActedOnOnce

\* One request takes draft k up, goes on with it, or lets it go; the invariant is
\* kept where it holds of k.
LEMMA DraftsTouch ==
    ASSUME Drafts!IInv, NEW s \in Hands, NEW k \in 1 .. Len(s3), NEW j \in Drafts!Jobs,
           s5' = [s5 EXCEPT ![s] = j],
           Drafts!Deciding(s5[s]) \subseteq {k}, Drafts!Deciding(j) \subseteq {k},
           k \in Drafts!Deciding(s5[s]) \cup Drafts!Deciding(j),
           s3' \in Seq(Drafts!Draft), Len(s3') = Len(s3), s3'[k].kind = s3[k].kind,
           \A d \in 1 .. Len(s3) : d # k => s3'[d] = s3[d],
           s6' \in [1 .. MaxDrafts -> Nat], \A d \in 1 .. MaxDrafts : d # k => s6'[d] = s6[d],
           s1' = s1, s2' \in [{Case} -> Drafts!Law!Status],
           s4' \in Seq([staff : Staff, downloaded : BOOLEAN]),
           s7 \subseteq s7', s7' \subseteq 1 .. Len(s3),
           s2[Case] \notin {"OPEN", "UNDER_REVIEW"} => s2'[Case] \notin {"OPEN", "UNDER_REVIEW"},
           \A q \in Hands \ {s} : Drafts!Deciding(s5[q]) \cap Drafts!Deciding(j) \subseteq s7',
           s3[k].kind = "notice" /\ s6'[k] >= 1 => s2'[Case] \notin {"OPEN", "UNDER_REVIEW"},
           k \notin s7' =>
               /\ j.pc # "idle" =>
                    /\ s3'[k].status = "PENDING"
                    /\ j.pc \in {"commit", "cancel"} /\ s3[k].kind # "notice" => s6'[k] = 0
                    /\ j.pc = "move" => s3[k].kind = "notice" /\ s6'[k] = 0
                    /\ j.pc = "record" => s6'[k] = 1
               /\ s3'[k].status = "PENDING" /\ s3[k].kind # "notice" /\ s6'[k] >= 1 => j.pc = "record"
               /\ s6'[k] <= 1
               /\ s3'[k].status = "CONFIRMED" => s6'[k] = 1
               /\ s3'[k].status = "CANCELLED" => s6'[k] = 0 \/ s3[k].kind = "notice"
    PROVE  Drafts!IInv'
<1> DEFINE Holds == k \notin s7' =>
               /\ j.pc # "idle" =>
                    /\ s3'[k].status = "PENDING"
                    /\ j.pc \in {"commit", "cancel"} /\ s3[k].kind # "notice" => s6'[k] = 0
                    /\ j.pc = "move" => s3[k].kind = "notice" /\ s6'[k] = 0
                    /\ j.pc = "record" => s6'[k] = 1
               /\ s3'[k].status = "PENDING" /\ s3[k].kind # "notice" /\ s6'[k] >= 1 => j.pc = "record"
               /\ s6'[k] <= 1
               /\ s3'[k].status = "CONFIRMED" => s6'[k] = 1
               /\ s3'[k].status = "CANCELLED" => s6'[k] = 0 \/ s3[k].kind = "notice"
<1>0. Holds
  OBVIOUS
<1>. HIDE DEF Holds
<1>1. /\ \A q \in Hands : s5[q] \in Drafts!Jobs
      /\ Len(s3) \in Nat /\ DOMAIN s3 = 1 .. Len(s3) /\ DOMAIN s3' = 1 .. Len(s3) /\ Len(s3) <= MaxDrafts
      /\ \A d \in 1 .. Len(s3) : d \in 1 .. MaxDrafts
  BY DraftsHas
<1>2. s5 \in [Hands -> Drafts!Jobs] /\ s5' \in [Hands -> Drafts!Jobs]
      /\ s5'[s] = j /\ \A q \in Hands \ {s} : s5'[q] = s5[q]
  BY DEF Drafts!IInv
<1>3. (s5 \in [Hands -> Drafts!Jobs])' /\ (Len(s3) <= MaxDrafts)' /\ (s7 \subseteq 1 .. Len(s3))'
  BY <1>1, <1>2 DEF Drafts!Jobs
<1>4. Drafts!TypeOK'
  <2>1. \A q \in Hands : s5'[q].pc \in {"idle", "commit", "move", "record", "cancel"}
    BY <1>2, DraftsJob
  <2>2. s7' \subseteq 1 .. MaxDrafts
    BY <1>1
  <2>. QED  BY <2>1, <2>2 DEF Drafts!IInv, Drafts!TypeOK
<1>5. Drafts!TogetherNoted'
  <2>1. \A q, r \in Hands : q # r => Drafts!Deciding(s5[q]) \cap Drafts!Deciding(s5[r]) \subseteq s7
    BY DraftsKnow
  <2>2. \A q \in Hands \ {s} : Drafts!Deciding(s5'[q]) \cap Drafts!Deciding(s5'[s]) \subseteq s7'
    BY <1>2
  <2>3. ASSUME NEW q \in Hands, NEW r \in Hands, q # r
        PROVE  Drafts!Deciding(s5'[q]) \cap Drafts!Deciding(s5'[r]) \subseteq s7'
    <3>1. CASE q = s
      BY <2>2, <2>3, <3>1
    <3>2. CASE r = s
      BY <2>2, <2>3, <3>2
    <3>3. CASE q # s /\ r # s
      BY <1>2, <2>1, <2>3, <3>3
    <3>. QED  BY <3>1, <3>2, <3>3
  <2>. QED  BY <2>3 DEF Drafts!TogetherNoted
\* Nobody else decides k where it is not spoilt.
<1>6. k \notin s7' => \A q \in Hands \ {s} : s5[q].pc # "idle" => s5[q].id # k
  <2>1. ASSUME k \notin s7', NEW q \in Hands \ {s}, s5[q].pc # "idle", s5[q].id = k PROVE FALSE
    <3>1. k \in Drafts!Deciding(s5[q])
      BY <1>1, <2>1, DraftsJob
    <3>2. Drafts!Deciding(s5[q]) \cap Drafts!Deciding(s5[s]) \subseteq s7
      BY DraftsKnow
    <3>. QED  BY <2>1, <3>1, <3>2
  <2>. QED  BY <2>1
<1>7. ASSUME NEW q \in Hands, s5'[q].pc # "idle", s5'[q].id \notin s7'
      PROVE  /\ s3'[s5'[q].id].status = "PENDING"
             /\ s5'[q].pc \in {"commit", "cancel"} /\ s3'[s5'[q].id].kind # "notice" => s6'[s5'[q].id] = 0
             /\ s5'[q].pc = "move" => s3'[s5'[q].id].kind = "notice" /\ s6'[s5'[q].id] = 0
             /\ s5'[q].pc = "record" => s6'[s5'[q].id] = 1
  <2>1. CASE q = s
    <3>1. s5'[q] = j /\ j.pc # "idle"
      BY <1>2, <1>7, <2>1
    <3>2. j.id = k
      BY <3>1, DraftsJob
    <3>. QED  BY <1>0, <1>7, <3>1, <3>2 DEF Holds
  <2>2. CASE q # s
    <3> DEFINE d == s5[q].id
    <3>1. s5'[q] = s5[q] /\ d \in 1 .. Len(s3) /\ s5[q].pc # "idle" /\ d \notin s7 /\ d \notin s7'
      BY <1>1, <1>2, <1>7, <2>2, DraftsJob
    <3>2. d # k
      BY <1>6, <2>2, <3>1
    <3>3. s3'[d] = s3[d] /\ s6'[d] = s6[d]
      BY <1>1, <3>1, <3>2
    <3>4. /\ s3[d].status = "PENDING"
          /\ s5[q].pc \in {"commit", "cancel"} /\ s3[d].kind # "notice" => s6[d] = 0
          /\ s5[q].pc = "move" => s3[d].kind = "notice" /\ s6[d] = 0
          /\ s5[q].pc = "record" => s6[d] = 1
      BY <3>1, DraftsKnow
    <3>5. s5'[q].id = d /\ s5'[q].pc = s5[q].pc
      BY <3>1
    <3>. HIDE DEF d
    <3>. QED  BY <3>3, <3>4, <3>5
  <2>. QED  BY <2>1, <2>2
<1>8. ASSUME NEW d \in (1 .. Len(s3)) \ s7', s3'[d].status = "PENDING", s3'[d].kind # "notice", s6'[d] >= 1
      PROVE  \E q \in Hands : s5'[q].pc = "record" /\ s5'[q].id = d
  <2>1. CASE d = k
    <3>1. j.pc = "record" /\ j.id = k
      BY <1>0, <1>8, <2>1, DraftsJob DEF Holds
    <3>. QED  BY <1>2, <2>1, <3>1
  <2>2. CASE d # k
    <3>1. d \in (1 .. Len(s3)) \ s7 /\ s3'[d] = s3[d] /\ s6'[d] = s6[d]
      BY <1>1, <1>8, <2>2
    <3>2. PICK q \in Hands : s5[q].pc = "record" /\ s5[q].id = d
      BY <1>8, <3>1, DraftsKnow
    <3>3. q # s
      BY <1>1, <2>2, <3>2, DraftsJob
    <3>. QED  BY <1>2, <3>2, <3>3
  <2>. QED  BY <2>1, <2>2
<1>9. \A d \in 1 .. Len(s3) : s3'[d].kind = "notice" /\ s6'[d] >= 1 => s2'[Case] \notin {"OPEN", "UNDER_REVIEW"}
  <2>1. \A d \in 1 .. Len(s3) : s3[d].kind = "notice" /\ s6[d] >= 1 => s2[Case] \notin {"OPEN", "UNDER_REVIEW"}
    BY DraftsKnow
  <2>2. ASSUME NEW d \in 1 .. Len(s3), s3'[d].kind = "notice", s6'[d] >= 1
        PROVE  s2'[Case] \notin {"OPEN", "UNDER_REVIEW"}
    <3>1. CASE d = k
      BY <2>2, <3>1
    <3>2. CASE d # k
      BY <1>1, <2>1, <2>2, <3>2
    <3>. QED  BY <3>1, <3>2
  <2>. QED  BY <2>2
<1>10. \A d \in 1 .. MaxDrafts \ (1 .. Len(s3)) : s6'[d] = 0
  BY DraftsKnow
<1>11. ASSUME NEW d \in (1 .. Len(s3)) \ s7'
       PROVE  /\ s6'[d] <= 1
              /\ s3'[d].status = "CONFIRMED" => s6'[d] = 1
              /\ s3'[d].status = "CANCELLED" => s6'[d] = 0 \/ s3'[d].kind = "notice"
  <2>1. CASE d = k
    BY <1>0, <1>11, <2>1 DEF Holds
  <2>2. CASE d # k
    <3>1. d \in (1 .. Len(s3)) \ s7 /\ s3'[d] = s3[d] /\ s6'[d] = s6[d]
      BY <1>1, <1>11, <2>2
    <3>. QED  BY <3>1, DraftsKnow
  <2>. QED  BY <2>1, <2>2
<1>12. Drafts!Undecided'
  BY <1>1, <1>7, <1>8, <1>9, <1>10, ZenonT(60) DEF Drafts!Undecided, Drafts!Undone, Drafts!Single
<1>13. Drafts!ActedOnOnce'
  BY <1>1, <1>11 DEF Drafts!ActedOnOnce
<1>. QED  BY <1>3, <1>4, <1>5, <1>12, <1>13 DEF Drafts!IInv

\* Two requests that decide a draft at once are noted, and nothing noted is lost.
LEMMA DraftsTogether ==
    ASSUME Drafts!IInv, s5' \in [Hands -> Drafts!Jobs], s7' = s7 \cup Drafts!Together
    PROVE  /\ s7 \subseteq s7' /\ s7' \subseteq 1 .. Len(s3)
           /\ \A q, r \in Hands : q # r => Drafts!Deciding(s5'[q]) \cap Drafts!Deciding(s5'[r]) \subseteq s7'
<1> DEFINE P == {q \in Hands \X Hands : q[1] # q[2]}
           T == UNION {Drafts!Deciding(s5'[p[1]]) \cap Drafts!Deciding(s5'[p[2]]) : p \in P}
<1>1. s7' = s7 \cup T
  BY DEF Drafts!Together
<1>2. \A q \in Hands : Drafts!Deciding(s5'[q]) \subseteq 1 .. Len(s3)
  BY DraftsJob
<1>3. T \subseteq 1 .. Len(s3)
  BY <1>2
<1>4. \A p \in P : Drafts!Deciding(s5'[p[1]]) \cap Drafts!Deciding(s5'[p[2]]) \subseteq T
  OBVIOUS
<1>5. ASSUME NEW q \in Hands, NEW r \in Hands, q # r
      PROVE  Drafts!Deciding(s5'[q]) \cap Drafts!Deciding(s5'[r]) \subseteq T
  <2> DEFINE p == <<q, r>>
  <2>1. p \in P /\ p[1] = q /\ p[2] = r
    BY <1>5
  <2>. HIDE DEF p, P, T
  <2>2. Drafts!Deciding(s5'[p[1]]) \cap Drafts!Deciding(s5'[p[2]]) \subseteq T
    BY <1>4, <2>1
  <2>. QED  BY <2>1, <2>2
<1>. HIDE DEF P, T
<1>6. s7 \subseteq 1 .. Len(s3)
  BY DraftsHas
<1>. QED  BY <1>1, <1>3, <1>5, <1>6

\* An officer takes a draft up, to confirm or to cancel it.
LEMMA DraftsReads ==
    ASSUME Drafts!IInv, NEW s \in Hands, Drafts!ReadToConfirm(s) \/ Drafts!ReadToCancel(s),
           s7' = s7 \cup Drafts!Together
    PROVE  Drafts!IInv'
<1>1. PICK o \in Staff, k \in DOMAIN s3, pc \in {"commit", "cancel"} :
         /\ s5[s] = Drafts!IdleJob /\ s3[k].status = "PENDING"
         /\ s5' = [s5 EXCEPT ![s] = [pc |-> pc, staff |-> o, id |-> k]]
         /\ UNCHANGED <<s1, s2, s3, s4, s6>>
  BY DEF Drafts!ReadToConfirm, Drafts!ReadToCancel, Drafts!MayConfirm, Drafts!MayCancel, Drafts!Idle
<1> DEFINE j == [pc |-> pc, staff |-> o, id |-> k]
<1>2. k \in 1 .. Len(s3)
  BY DraftsHas
<1>3. j \in Drafts!Jobs /\ j.pc = pc /\ j.id = k /\ Drafts!Deciding(j) = {k}
  BY <1>2 DEF Drafts!Jobs, Drafts!Deciding
<1>4. s5' = [s5 EXCEPT ![s] = j]
  BY <1>1
<1>. HIDE DEF j
<1>5. s5 \in [Hands -> Drafts!Jobs] /\ s5' \in [Hands -> Drafts!Jobs]
      /\ s5'[s] = j /\ \A q \in Hands \ {s} : s5'[q] = s5[q]
  BY <1>3, <1>4 DEF Drafts!IInv
<1>6. /\ s7 \subseteq s7' /\ s7' \subseteq 1 .. Len(s3)
      /\ \A q \in Hands \ {s} : Drafts!Deciding(s5[q]) \cap Drafts!Deciding(j) \subseteq s7'
  <2>1. /\ s7 \subseteq s7' /\ s7' \subseteq 1 .. Len(s3)
        /\ \A q, r \in Hands : q # r => Drafts!Deciding(s5'[q]) \cap Drafts!Deciding(s5'[r]) \subseteq s7'
    BY <1>5, DraftsTogether
  <2>. QED  BY <1>5, <2>1
<1>7. /\ s3 \in Seq(Drafts!Draft) /\ s6 \in [1 .. MaxDrafts -> Nat] /\ s6[k] \in Nat
      /\ s2 \in [{Case} -> Drafts!Law!Status] /\ s4 \in Seq([staff : Staff, downloaded : BOOLEAN])
  BY <1>2, DraftsHas DEF Drafts!IInv, Drafts!TypeOK
<1>8. Drafts!Deciding(s5[s]) = {} /\ s5[s].pc = "idle"
  BY <1>1, DraftsIdle
<1>9. k \notin s7' /\ s3[k].kind # "notice" => s6[k] = 0
  <2>1. ASSUME k \notin s7', s3[k].kind # "notice", s6[k] >= 1 PROVE FALSE
    <3>1. PICK q \in Hands : s5[q].pc = "record" /\ s5[q].id = k
      BY <1>1, <1>2, <1>6, <2>1, DraftsKnow
    <3>2. q # s
      BY <1>8, <3>1
    <3>3. k \in Drafts!Deciding(s5[q])
      BY <3>1 DEF Drafts!Deciding
    <3>. QED  BY <1>3, <1>6, <2>1, <3>2, <3>3
  <2>. QED  BY <1>7, <2>1
<1>10. /\ s3[k].kind = "notice" /\ s6[k] >= 1 => s2[Case] \notin {"OPEN", "UNDER_REVIEW"}
       /\ k \notin s7' => s6[k] <= 1
  BY <1>2, <1>6, DraftsKnow
<1>11. k \notin s7' =>
               /\ j.pc # "idle" =>
                    /\ s3'[k].status = "PENDING"
                    /\ j.pc \in {"commit", "cancel"} /\ s3[k].kind # "notice" => s6'[k] = 0
                    /\ j.pc = "move" => s3[k].kind = "notice" /\ s6'[k] = 0
                    /\ j.pc = "record" => s6'[k] = 1
               /\ s3'[k].status = "PENDING" /\ s3[k].kind # "notice" /\ s6'[k] >= 1 => j.pc = "record"
               /\ s6'[k] <= 1
               /\ s3'[k].status = "CONFIRMED" => s6'[k] = 1
               /\ s3'[k].status = "CANCELLED" => s6'[k] = 0 \/ s3[k].kind = "notice"
  BY <1>1, <1>3, <1>9, <1>10
<1>12. UNCHANGED <<s1, s2, s3, s4, s6>>
  BY <1>1
<1>. QED  BY <1>2, <1>3, <1>4, <1>6, <1>7, <1>8, <1>10, <1>11, <1>12, DraftsTouch

\* A request acts on its draft, or finds that the case takes no notice.
LEMMA DraftsActs ==
    ASSUME Drafts!IInv, NEW s \in Hands, s7' = s7 \cup Drafts!Together,
           Drafts!CommitScan(s) \/ Drafts!CommitReport(s) \/ Drafts!CheckNotice(s) \/ Drafts!CommitNotice(s)
    PROVE  Drafts!IInv'
<1> DEFINE k == s5[s].id
<1>1. s5[s].pc \in {"commit", "move"} /\ s1' = s1 /\ s3' = s3
  BY DEF Drafts!CommitScan, Drafts!CommitReport, Drafts!CheckNotice, Drafts!CommitNotice
<1>2. s5[s] \in Drafts!Jobs /\ k \in 1 .. Len(s3) /\ Drafts!Deciding(s5[s]) = {k}
      /\ s5[s].staff \in Staff
  BY <1>1, DraftsHas, DraftsJob
<1>3. /\ s3 \in Seq(Drafts!Draft) /\ s6 \in [1 .. MaxDrafts -> Nat] /\ s6[k] \in Nat /\ k \in 1 .. MaxDrafts
      /\ s2 \in [{Case} -> Drafts!Law!Status] /\ s4 \in Seq([staff : Staff, downloaded : BOOLEAN])
      /\ s5 \in [Hands -> Drafts!Jobs]
  BY <1>2, DraftsHas DEF Drafts!IInv, Drafts!TypeOK
<1>4. ASSUME NEW j \in Drafts!Jobs, s5' = [s5 EXCEPT ![s] = j], Drafts!Deciding(j) \subseteq {k}
      PROVE  /\ s7 \subseteq s7' /\ s7' \subseteq 1 .. Len(s3)
             /\ \A q \in Hands \ {s} : Drafts!Deciding(s5[q]) \cap Drafts!Deciding(j) \subseteq s7'
  <2>1. s5' \in [Hands -> Drafts!Jobs] /\ s5'[s] = j /\ \A q \in Hands \ {s} : s5'[q] = s5[q]
    BY <1>3, <1>4
  <2>2. /\ s7 \subseteq s7' /\ s7' \subseteq 1 .. Len(s3)
        /\ \A q, r \in Hands : q # r => Drafts!Deciding(s5'[q]) \cap Drafts!Deciding(s5'[r]) \subseteq s7'
    BY <2>1, DraftsTogether
  <2>. QED  BY <2>1, <2>2
<1>5. /\ k \notin s7 =>
            /\ s3[k].status = "PENDING" /\ s6[k] <= 1
            /\ s5[s].pc = "commit" /\ s3[k].kind # "notice" => s6[k] = 0
            /\ s5[s].pc = "move" => s3[k].kind = "notice" /\ s6[k] = 0
      /\ s3[k].kind = "notice" /\ s6[k] >= 1 => s2[Case] \notin {"OPEN", "UNDER_REVIEW"}
  BY <1>1, <1>2, DraftsKnow
<1>6. CASE Drafts!CommitScan(s) \/ Drafts!CommitReport(s) \/ Drafts!CommitNotice(s)
  <2> DEFINE j == [s5[s] EXCEPT !.pc = "record"]
  <2>1. s5' = [s5 EXCEPT ![s] = j] /\ s6' = [s6 EXCEPT ![k] = s6[k] + 1]
    BY <1>6 DEF Drafts!CommitScan, Drafts!CommitReport, Drafts!CommitNotice, Drafts!Acted
  <2>2. j \in Drafts!Jobs /\ j.pc = "record" /\ Drafts!Deciding(j) = {k}
    BY <1>1, <1>2, DraftsGoOn
  <2>. HIDE DEF j
  <2>3. s6' \in [1 .. MaxDrafts -> Nat] /\ s6'[k] = s6[k] + 1
        /\ \A d \in 1 .. MaxDrafts : d # k => s6'[d] = s6[d]
    BY <1>3, <2>1
  <2>4. /\ s2' \in [{Case} -> Drafts!Law!Status]
        /\ s2[Case] \notin {"OPEN", "UNDER_REVIEW"} => s2'[Case] \notin {"OPEN", "UNDER_REVIEW"}
        /\ s3[k].kind = "notice" => s2'[Case] \notin {"OPEN", "UNDER_REVIEW"}
    <3>1. CASE Drafts!CommitScan(s) \/ Drafts!CommitReport(s)
      <4>1. s2' = s2 /\ s3[k].kind # "notice"
        BY <3>1 DEF Drafts!CommitScan, Drafts!CommitReport
      <4>. QED  BY <1>3, <4>1
    <3>2. CASE Drafts!CommitNotice(s)
      <4>1. s2' = [s2 EXCEPT ![Case] = "NOTICE_ISSUED"]
        BY <3>2 DEF Drafts!CommitNotice
      <4>. QED  BY <1>3, <4>1 DEF Drafts!Law!Status
    <3>. QED  BY <1>6, <3>1, <3>2
  <2>5. s4' \in Seq([staff : Staff, downloaded : BOOLEAN])
    <3>1. CASE Drafts!CommitReport(s)
      <4> DEFINE e == [staff |-> s5[s].staff, downloaded |-> FALSE]
      <4>1. s4' = Append(s4, e)
        BY <3>1 DEF Drafts!CommitReport
      <4>2. e \in [staff : Staff, downloaded : BOOLEAN]
        BY <1>2
      <4>. HIDE DEF e
      <4>. QED  BY <1>3, <4>1, <4>2, AppendProperties
    <3>2. CASE Drafts!CommitScan(s) \/ Drafts!CommitNotice(s)
      BY <1>3, <3>2 DEF Drafts!CommitScan, Drafts!CommitNotice
    <3>. QED  BY <1>6, <3>1, <3>2
  <2>6. k \notin s7 => s6[k] = 0
    BY <1>5, <1>6 DEF Drafts!CommitScan, Drafts!CommitReport, Drafts!CommitNotice
  <2>7. /\ s7 \subseteq s7' /\ s7' \subseteq 1 .. Len(s3)
        /\ \A q \in Hands \ {s} : Drafts!Deciding(s5[q]) \cap Drafts!Deciding(j) \subseteq s7'
    BY <1>4, <2>1, <2>2
  <2>8. k \notin s7' => s3[k].status = "PENDING" /\ s6'[k] = 1
    BY <1>3, <1>5, <2>3, <2>6, <2>7
  <2>9. k \notin s7' =>
               /\ j.pc # "idle" =>
                    /\ s3'[k].status = "PENDING"
                    /\ j.pc \in {"commit", "cancel"} /\ s3[k].kind # "notice" => s6'[k] = 0
                    /\ j.pc = "move" => s3[k].kind = "notice" /\ s6'[k] = 0
                    /\ j.pc = "record" => s6'[k] = 1
               /\ s3'[k].status = "PENDING" /\ s3[k].kind # "notice" /\ s6'[k] >= 1 => j.pc = "record"
               /\ s6'[k] <= 1
               /\ s3'[k].status = "CONFIRMED" => s6'[k] = 1
               /\ s3'[k].status = "CANCELLED" => s6'[k] = 0 \/ s3[k].kind = "notice"
    BY <1>1, <2>2, <2>8
  <2>. HIDE DEF k
  <2>. QED  BY <1>1, <1>2, <1>3, <2>1, <2>2, <2>3, <2>4, <2>5, <2>7, <2>9, DraftsTouch
<1>7. CASE Drafts!CheckNotice(s)
  <2>1. s3[k].kind = "notice" /\ s5[s].pc = "commit" /\ UNCHANGED <<s2, s4, s6>>
    BY <1>7 DEF Drafts!CheckNotice
  <2>2. PICK j \in Drafts!Jobs :
          /\ s5' = [s5 EXCEPT ![s] = j] /\ Drafts!Deciding(j) \subseteq {k}
          /\ \/ j.pc = "idle"
             \/ j.pc = "move" /\ <<s2[Case], "NOTICE_ISSUED">> \in Drafts!Law!Transitions
    <3>1. CASE <<s2[Case], "NOTICE_ISSUED">> \in Drafts!Law!Transitions
      <4>1. s5' = [s5 EXCEPT ![s] = [s5[s] EXCEPT !.pc = "move"]]
        BY <1>7, <3>1 DEF Drafts!CheckNotice
      <4>. QED  BY <1>1, <1>2, <3>1, <4>1, DraftsGoOn
    <3>2. CASE <<s2[Case], "NOTICE_ISSUED">> \notin Drafts!Law!Transitions
      <4>1. s5' = [s5 EXCEPT ![s] = Drafts!IdleJob]
        BY <1>7, <3>2 DEF Drafts!CheckNotice, Drafts!Done
      <4>. QED  BY <4>1, DraftsIdle
    <3>. QED  BY <3>1, <3>2
  <2>3. j.pc = "move" => s6[k] = 0
    <3>1. j.pc = "move" => s2[Case] = "UNDER_REVIEW"
      BY <2>2 DEF Drafts!Law!Transitions
    <3>. QED  BY <1>3, <1>5, <2>1, <3>1
  <2>4. /\ s7 \subseteq s7' /\ s7' \subseteq 1 .. Len(s3)
        /\ \A q \in Hands \ {s} : Drafts!Deciding(s5[q]) \cap Drafts!Deciding(j) \subseteq s7'
    BY <1>4, <2>2
  <2>5. k \notin s7' =>
               /\ j.pc # "idle" =>
                    /\ s3'[k].status = "PENDING"
                    /\ j.pc \in {"commit", "cancel"} /\ s3[k].kind # "notice" => s6'[k] = 0
                    /\ j.pc = "move" => s3[k].kind = "notice" /\ s6'[k] = 0
                    /\ j.pc = "record" => s6'[k] = 1
               /\ s3'[k].status = "PENDING" /\ s3[k].kind # "notice" /\ s6'[k] >= 1 => j.pc = "record"
               /\ s6'[k] <= 1
               /\ s3'[k].status = "CONFIRMED" => s6'[k] = 1
               /\ s3'[k].status = "CANCELLED" => s6'[k] = 0 \/ s3[k].kind = "notice"
    BY <1>1, <1>5, <2>1, <2>2, <2>3, <2>4
  <2>. HIDE DEF k
  <2>. QED  BY <1>1, <1>2, <1>3, <1>5, <2>1, <2>2, <2>4, <2>5, DraftsTouch
<1>. QED  BY <1>6, <1>7

\* The decision is recorded, or what is left of the request is lost.
LEMMA DraftsEnds ==
    ASSUME Drafts!IInv, NEW s \in Hands,
           \/ Drafts!RecordConfirmed(s) /\ s7' = s7 \cup Drafts!Together
           \/ Drafts!Cancel(s) /\ s7' = s7 \cup Drafts!Together
           \/ /\ Drafts!Fail(s)
              /\ s7' = s7 \cup (IF s5[s].pc = "record" /\ s3[s5[s].id].kind # "notice"
                                THEN {s5[s].id} ELSE {})
    PROVE  Drafts!IInv'
<1> DEFINE k == s5[s].id
           j == Drafts!IdleJob
<1>1. s5[s].pc # "idle" /\ s5' = [s5 EXCEPT ![s] = j] /\ UNCHANGED <<s1, s2, s4, s6>>
  <2>1. s5[s] \in Drafts!Jobs
    BY DraftsHas
  <2>2. s5[s].pc = "idle" => s5[s] = Drafts!IdleJob
    BY <2>1 DEF Drafts!Jobs, Drafts!IdleJob
  <2>. QED  BY <2>2 DEF Drafts!RecordConfirmed, Drafts!Cancel, Drafts!Fail, Drafts!Done, Drafts!Idle
<1>2. /\ s5[s] \in Drafts!Jobs /\ k \in 1 .. Len(s3) /\ Drafts!Deciding(s5[s]) = {k}
      /\ s5[s].pc \in {"commit", "move", "record", "cancel"}
  BY <1>1, DraftsHas, DraftsJob
<1>3. j \in Drafts!Jobs /\ j.pc = "idle" /\ Drafts!Deciding(j) = {}
  BY DraftsIdle
<1>4. /\ s3 \in Seq(Drafts!Draft) /\ s3[k] \in Drafts!Draft /\ s7 \subseteq 1 .. Len(s3)
      /\ s6 \in [1 .. MaxDrafts -> Nat] /\ s6[k] \in Nat
      /\ s2 \in [{Case} -> Drafts!Law!Status] /\ s4 \in Seq([staff : Staff, downloaded : BOOLEAN])
      /\ s5 \in [Hands -> Drafts!Jobs]
  BY <1>2, DraftsHas DEF Drafts!IInv, Drafts!TypeOK
<1>5. /\ k \notin s7 =>
            /\ s3[k].status = "PENDING" /\ s6[k] <= 1
            /\ s5[s].pc \in {"commit", "cancel"} /\ s3[k].kind # "notice" => s6[k] = 0
            /\ s5[s].pc = "move" => s3[k].kind = "notice" /\ s6[k] = 0
            /\ s5[s].pc = "record" => s6[k] = 1
      /\ s3[k].kind = "notice" /\ s6[k] >= 1 => s2[Case] \notin {"OPEN", "UNDER_REVIEW"}
  BY <1>1, <1>2, DraftsKnow
<1>. HIDE DEF j
<1>6. s7 \subseteq s7' /\ s7' \subseteq 1 .. Len(s3)
  <2>1. CASE s7' = s7 \cup Drafts!Together
    <3>1. s5' \in [Hands -> Drafts!Jobs]
      BY <1>1, <1>3, <1>4
    <3>. QED  BY <2>1, <3>1, DraftsTogether
  <2>2. CASE s7' = s7 \cup (IF s5[s].pc = "record" /\ s3[k].kind # "notice" THEN {k} ELSE {})
    BY <1>2, <1>4, <2>2
  <2>. QED  BY <2>1, <2>2
<1>7. CASE Drafts!RecordConfirmed(s) \/ Drafts!Cancel(s)
  <2>1. PICK st \in {"CONFIRMED", "CANCELLED"} :
          s3' = [s3 EXCEPT ![k].status = st]
          /\ s5[s].pc = IF st = "CONFIRMED" THEN "record" ELSE "cancel"
    BY <1>7 DEF Drafts!RecordConfirmed, Drafts!Cancel
  <2> DEFINE e == [s3[k] EXCEPT !.status = st]
  <2>2. s3' = [s3 EXCEPT ![k] = e]
    BY <2>1
  <2>3. e \in Drafts!Draft /\ e.kind = s3[k].kind /\ e.status = st
    BY <1>4 DEF Drafts!Draft
  <2>. HIDE DEF e, k
  <2>4. /\ s3' \in Seq(Drafts!Draft) /\ Len(s3') = Len(s3)
        /\ \A d \in 1 .. Len(s3) : s3'[d] = IF d = k THEN e ELSE s3[d]
    BY <1>2, <1>4, <2>2, <2>3, ExceptSeq
  <2>5. s3'[k].kind = s3[k].kind /\ s3'[k].status = st
    BY <1>2, <2>3, <2>4
  <2>6. k \notin s7' =>
               /\ j.pc # "idle" =>
                    /\ s3'[k].status = "PENDING"
                    /\ j.pc \in {"commit", "cancel"} /\ s3[k].kind # "notice" => s6'[k] = 0
                    /\ j.pc = "move" => s3[k].kind = "notice" /\ s6'[k] = 0
                    /\ j.pc = "record" => s6'[k] = 1
               /\ s3'[k].status = "PENDING" /\ s3[k].kind # "notice" /\ s6'[k] >= 1 => j.pc = "record"
               /\ s6'[k] <= 1
               /\ s3'[k].status = "CONFIRMED" => s6'[k] = 1
               /\ s3'[k].status = "CANCELLED" => s6'[k] = 0 \/ s3[k].kind = "notice"
    BY <1>1, <1>3, <1>5, <1>6, <2>1, <2>5
  <2>. QED  BY <1>1, <1>2, <1>3, <1>4, <1>5, <1>6, <2>4, <2>5, <2>6, DraftsTouch
<1>8. CASE Drafts!Fail(s) /\ s7' = s7 \cup (IF s5[s].pc = "record" /\ s3[k].kind # "notice"
                                            THEN {k} ELSE {})
  <2>1. s3' = s3
    BY <1>8 DEF Drafts!Fail
  <2>2. k \notin s7' => ~ (s5[s].pc = "record" /\ s3[k].kind # "notice")
    BY <1>8
  <2>. HIDE DEF k
  <2>3. k \notin s7' =>
               /\ j.pc # "idle" =>
                    /\ s3'[k].status = "PENDING"
                    /\ j.pc \in {"commit", "cancel"} /\ s3[k].kind # "notice" => s6'[k] = 0
                    /\ j.pc = "move" => s3[k].kind = "notice" /\ s6'[k] = 0
                    /\ j.pc = "record" => s6'[k] = 1
               /\ s3'[k].status = "PENDING" /\ s3[k].kind # "notice" /\ s6'[k] >= 1 => j.pc = "record"
               /\ s6'[k] <= 1
               /\ s3'[k].status = "CONFIRMED" => s6'[k] = 1
               /\ s3'[k].status = "CANCELLED" => s6'[k] = 0 \/ s3[k].kind = "notice"
    <3>1. k \notin s7' => s3[k].status = "PENDING" /\ s6[k] <= 1 /\ (s3[k].kind # "notice" => s6[k] = 0)
      BY <1>2, <1>5, <1>6, <2>2
    <3>. QED  BY <1>1, <1>3, <2>1, <3>1
  <2>. QED  BY <1>1, <1>2, <1>3, <1>4, <1>5, <1>6, <2>1, <2>3, DraftsTouch
<1>. QED  BY <1>7, <1>8

\* What is left of the invariant when the requests, the acts and the drafts that
\* were there stand and the case is not led back.
LEMMA DraftsStand ==
    ASSUME Drafts!IInv, s5' = s5, s6' = s6, s1' \in [Staff -> Drafts!Roles], s7' = s7 \cup Drafts!Together,
           s2' \in [{Case} -> Drafts!Law!Status],
           s2[Case] \notin {"OPEN", "UNDER_REVIEW"} => s2'[Case] \notin {"OPEN", "UNDER_REVIEW"},
           s4' \in Seq([staff : Staff, downloaded : BOOLEAN]),
           s3' \in Seq(Drafts!Draft), Len(s3) <= Len(s3'), Len(s3') <= MaxDrafts,
           \A d \in 1 .. Len(s3') : IF d \in 1 .. Len(s3) THEN s3'[d] = s3[d] ELSE s3'[d].status = "PENDING"
    PROVE  Drafts!IInv'
<1>1. /\ \A q \in Hands : s5[q] \in Drafts!Jobs
      /\ Len(s3) \in Nat /\ Len(s3') \in Nat /\ DOMAIN s3 = 1 .. Len(s3) /\ DOMAIN s3' = 1 .. Len(s3')
      /\ MaxDrafts \in Nat /\ s6 \in [1 .. MaxDrafts -> Nat]
      /\ \A d \in 1 .. Len(s3) : d \in 1 .. Len(s3')
      /\ \A d \in 1 .. Len(s3') : d \in 1 .. MaxDrafts
  <2>1. DOMAIN s3' = 1 .. Len(s3') /\ Len(s3') \in Nat
    OBVIOUS
  <2>. QED  BY <2>1, DraftsHas
<1>2. /\ s7 \subseteq s7' /\ s7' \subseteq 1 .. Len(s3)
      /\ \A q, r \in Hands : q # r => Drafts!Deciding(s5'[q]) \cap Drafts!Deciding(s5'[r]) \subseteq s7'
  <2>1. s5' \in [Hands -> Drafts!Jobs]
    BY DEF Drafts!IInv
  <2>. QED  BY <2>1, DraftsTogether
<1>3. (s5 \in [Hands -> Drafts!Jobs])' /\ (Len(s3) <= MaxDrafts)' /\ (s7 \subseteq 1 .. Len(s3))'
  <2>1. Drafts!Jobs \subseteq Drafts!Jobs'
    BY <1>1 DEF Drafts!Jobs
  <2>2. s5' \in [Hands -> Drafts!Jobs]
    BY DEF Drafts!IInv
  <2>. QED  BY <1>1, <1>2, <2>1, <2>2
<1>4. Drafts!TypeOK'
  <2>1. s7' \subseteq 1 .. MaxDrafts
    BY <1>1, <1>2
  <2>. QED  BY <2>1 DEF Drafts!IInv, Drafts!TypeOK
<1>5. Drafts!TogetherNoted'
  BY <1>2 DEF Drafts!TogetherNoted
<1>6. \A d \in 1 .. Len(s3') : d \notin 1 .. Len(s3) => s6[d] = 0
  BY <1>1, DraftsKnow
<1>7. ASSUME NEW q \in Hands, s5[q].pc # "idle", s5[q].id \notin s7'
      PROVE  /\ s3'[s5[q].id].status = "PENDING"
             /\ s5[q].pc \in {"commit", "cancel"} /\ s3'[s5[q].id].kind # "notice" => s6[s5[q].id] = 0
             /\ s5[q].pc = "move" => s3'[s5[q].id].kind = "notice" /\ s6[s5[q].id] = 0
             /\ s5[q].pc = "record" => s6[s5[q].id] = 1
  <2>1. s5[q].id \in 1 .. Len(s3) /\ s5[q].id \notin s7
    BY <1>1, <1>2, <1>7, DraftsJob
  <2>2. s3'[s5[q].id] = s3[s5[q].id]
    BY <1>1, <2>1
  <2>. QED  BY <1>7, <2>1, <2>2, DraftsKnow
<1>8. ASSUME NEW d \in (1 .. Len(s3')) \ s7', s3'[d].status = "PENDING", s3'[d].kind # "notice", s6[d] >= 1
      PROVE  \E q \in Hands : s5[q].pc = "record" /\ s5[q].id = d
  <2>1. d \in (1 .. Len(s3)) \ s7
    BY <1>2, <1>6, <1>8
  <2>2. s3'[d] = s3[d]
    BY <1>1, <2>1
  <2>. QED  BY <1>8, <2>1, <2>2, DraftsKnow
<1>9. ASSUME NEW d \in 1 .. Len(s3'), s3'[d].kind = "notice", s6[d] >= 1
      PROVE  s2'[Case] \notin {"OPEN", "UNDER_REVIEW"}
  <2>1. d \in 1 .. Len(s3)
    BY <1>6, <1>9
  <2>2. s3'[d] = s3[d]
    BY <1>1, <2>1
  <2>. QED  BY <1>9, <2>1, <2>2, DraftsKnow
<1>10. \A d \in 1 .. MaxDrafts \ (1 .. Len(s3')) : s6[d] = 0
  BY <1>1, DraftsKnow
<1>11. ASSUME NEW d \in (1 .. Len(s3')) \ s7'
       PROVE  /\ s6[d] <= 1
              /\ s3'[d].status = "CONFIRMED" => s6[d] = 1
              /\ s3'[d].status = "CANCELLED" => s6[d] = 0 \/ s3'[d].kind = "notice"
  <2>1. CASE d \in 1 .. Len(s3)
    <3>1. s3'[d] = s3[d] /\ d \in (1 .. Len(s3)) \ s7
      BY <1>1, <1>2, <1>11, <2>1
    <3>. QED  BY <3>1, DraftsKnow
  <2>2. CASE d \notin 1 .. Len(s3)
    BY <1>6, <1>11, <2>2
  <2>. QED  BY <2>1, <2>2
<1>12. Drafts!Undecided'
  BY <1>1, <1>7, <1>8, <1>9, <1>10 DEF Drafts!Undecided, Drafts!Undone, Drafts!Single
<1>13. Drafts!ActedOnOnce'
  BY <1>1, <1>11 DEF Drafts!ActedOnOnce
<1>. QED  BY <1>3, <1>4, <1>5, <1>12, <1>13 DEF Drafts!IInv

LEMMA DraftsWorld ==
    ASSUME Drafts!IInv, s7' = s7 \cup Drafts!Together,
           \/ Drafts!ChangeRole \/ Drafts!MoveByHand
           \/ \E s \in Hands : Drafts!Propose(s) \/ Drafts!Download(s)
    PROVE  Drafts!IInv'
<1>1. /\ s1 \in [Staff -> Drafts!Roles] /\ s2 \in [{Case} -> Drafts!Law!Status]
      /\ s3 \in Seq(Drafts!Draft) /\ s4 \in Seq([staff : Staff, downloaded : BOOLEAN])
      /\ Len(s3) \in Nat /\ Len(s3) <= MaxDrafts /\ MaxDrafts \in Nat
  BY DraftsHas DEF Drafts!IInv, Drafts!TypeOK
<1>2. CASE Drafts!ChangeRole
  <2>1. s1' \in [Staff -> Drafts!Roles] /\ UNCHANGED <<s2, s3, s4, s5, s6>>
    BY <1>1, <1>2 DEF Drafts!ChangeRole
  <2>. QED  BY <1>1, <2>1, DraftsStand
<1>3. CASE Drafts!MoveByHand
  <2>1. PICK to \in Drafts!Law!Status :
          <<s2[Case], to>> \in Drafts!Law!Transitions /\ s2' = [s2 EXCEPT ![Case] = to]
    BY <1>3 DEF Drafts!MoveByHand
  <2>2. /\ s2' \in [{Case} -> Drafts!Law!Status] /\ s2'[Case] = to
    BY <1>1, <2>1
  <2>3. s2[Case] \notin {"OPEN", "UNDER_REVIEW"} => to \notin {"OPEN", "UNDER_REVIEW"}
    BY <2>1 DEF Drafts!Law!Transitions
  <2>4. UNCHANGED <<s1, s3, s4, s5, s6>>
    BY <1>3 DEF Drafts!MoveByHand
  <2>. QED  BY <1>1, <2>2, <2>3, <2>4, DraftsStand
<1>4. ASSUME NEW s \in Hands, Drafts!Propose(s) PROVE Drafts!IInv'
  <2>1. PICK o \in Staff, kind \in Drafts!Kinds :
          s3' = Append(s3, [staff |-> o, kind |-> kind, status |-> "PENDING"])
    BY <1>4 DEF Drafts!Propose
  <2> DEFINE e == [staff |-> o, kind |-> kind, status |-> "PENDING"]
  <2>2. e \in Drafts!Draft /\ e.status = "PENDING" /\ s3' = Append(s3, e)
    BY <2>1 DEF Drafts!Draft
  <2>. HIDE DEF e
  <2>3. /\ s3' \in Seq(Drafts!Draft) /\ Len(s3') = Len(s3) + 1
        /\ \A d \in 1 .. Len(s3) : s3'[d] = s3[d]
        /\ s3'[Len(s3) + 1] = e
    BY <1>1, <2>2, AppendProperties
  <2>4. Len(s3) <= Len(s3') /\ Len(s3') <= MaxDrafts /\ UNCHANGED <<s1, s2, s4, s5, s6>>
    <3>1. Len(s3) < MaxDrafts
      BY <1>4 DEF Drafts!Propose
    <3>2. UNCHANGED <<s1, s2, s4, s5, s6>>
      BY <1>4 DEF Drafts!Propose
    <3>. QED  BY <1>1, <2>3, <3>1, <3>2
  <2>5. \A d \in 1 .. Len(s3') : IF d \in 1 .. Len(s3) THEN s3'[d] = s3[d] ELSE s3'[d].status = "PENDING"
    BY <1>1, <2>2, <2>3
  <2>. QED  BY <1>1, <2>3, <2>4, <2>5, DraftsStand
<1>5. ASSUME NEW s \in Hands, Drafts!Download(s) PROVE Drafts!IInv'
  <2>1. PICK e \in DOMAIN s4 : s4' = [s4 EXCEPT ![e].downloaded = TRUE]
    BY <1>5 DEF Drafts!Download
  <2>2. UNCHANGED <<s1, s2, s3, s5, s6>>
    BY <1>5 DEF Drafts!Download
  <2> DEFINE x == [s4[e] EXCEPT !.downloaded = TRUE]
  <2>3. e \in 1 .. Len(s4) /\ s4[e] \in [staff : Staff, downloaded : BOOLEAN]
    <3>1. e \in 1 .. Len(s4)
      BY <1>1
    <3>. QED  BY <1>1, <3>1, ElementOfSeq
  <2>4. x \in [staff : Staff, downloaded : BOOLEAN] /\ s4' = [s4 EXCEPT ![e] = x]
    BY <2>1, <2>3
  <2>. HIDE DEF x
  <2>5. s4' \in Seq([staff : Staff, downloaded : BOOLEAN])
    BY <1>1, <2>3, <2>4, ExceptSeq
  <2>. QED  BY <1>1, <2>2, <2>5, DraftsStand
<1>. QED  BY <1>2, <1>3, <1>4, <1>5

LEMMA DraftsInit ==
    ASSUME Drafts!Init PROVE Drafts!IInv
<1>1. /\ s1 \in [Staff -> {"SUPERVISOR"}] /\ s2 = [c \in {Case} |-> "UNDER_REVIEW"]
      /\ s3 = <<>> /\ s4 = <<>> /\ s5 = [s \in Hands |-> Drafts!IdleJob]
      /\ s6 = [d \in 1 .. MaxDrafts |-> 0] /\ s7 = {}
  BY DEF Drafts!Init
<1>2. MaxDrafts \in Nat /\ Len(s3) = 0 /\ DOMAIN s3 = {} /\ s3 \in Seq(Drafts!Draft)
  BY <1>1, DeskAssumption
<1>3. s5 \in [Hands -> Drafts!Jobs] /\ \A s \in Hands : s5[s].pc = "idle" /\ Drafts!Deciding(s5[s]) = {}
  BY <1>1, DraftsIdle
<1>4. Drafts!TypeOK
  <2>1. s1 \in [Staff -> Drafts!Roles] /\ s2 \in [{Case} -> Drafts!Law!Status]
    BY <1>1 DEF Drafts!Roles, Drafts!Law!Status
  <2>2. s4 \in Seq([staff : Staff, downloaded : BOOLEAN]) /\ s6 \in [1 .. MaxDrafts -> Nat]
    BY <1>1
  <2>. QED  BY <1>1, <1>2, <1>3, <2>1, <2>2 DEF Drafts!TypeOK
<1>5. Drafts!TogetherNoted
  BY <1>3 DEF Drafts!TogetherNoted
<1>6. Drafts!Undecided /\ Drafts!ActedOnOnce
  BY <1>1, <1>2, <1>3 DEF Drafts!Undecided, Drafts!ActedOnOnce
<1>. QED  BY <1>1, <1>2, <1>3, <1>4, <1>5, <1>6 DEF Drafts!IInv

LEMMA DraftsStep ==
    ASSUME Drafts!IInv, Drafts!Next PROVE Drafts!IInv'
<1>1. CASE /\ \/ Drafts!ChangeRole \/ Drafts!MoveByHand
              \/ \E s \in Hands : Drafts!Propose(s) \/ Drafts!Download(s)
           /\ s7' = s7 \cup Drafts!Together
  BY <1>1, DraftsWorld
<1>2. ASSUME NEW s \in Hands, s7' = s7 \cup Drafts!Together,
             \/ Drafts!ReadToConfirm(s) \/ Drafts!ReadToCancel(s) \/ Drafts!CommitScan(s)
             \/ Drafts!CommitReport(s) \/ Drafts!CheckNotice(s) \/ Drafts!CommitNotice(s)
             \/ Drafts!RecordConfirmed(s) \/ Drafts!Cancel(s)
      PROVE  Drafts!IInv'
  BY <1>2, DraftsReads, DraftsActs, DraftsEnds
<1>3. ASSUME NEW s \in Hands, Drafts!Fail(s),
             s7' = s7 \cup (IF s5[s].pc = "record" /\ s3[s5[s].id].kind # "notice" THEN {s5[s].id} ELSE {})
      PROVE  Drafts!IInv'
  BY <1>3, DraftsEnds
<1>. QED  BY <1>1, <1>2, <1>3 DEF Drafts!Next, Drafts!Single

-----------------------------------------------------------------------------
(* Sets as sequences.                                                          *)

\* A finite set can be laid out one by one, each element once.
LEMMA LaidOut ==
    ASSUME NEW S, IsFiniteSet(S)
    PROVE  /\ Cardinality(S) \in Nat
           /\ \E f \in [1 .. Cardinality(S) -> S] : \A a, b \in DOMAIN f : a # b => f[a] # f[b]
           /\ \A f \in [1 .. Cardinality(S) -> S] :
                  (\A a, b \in DOMAIN f : a # b => f[a] # f[b])
                  => \A x \in S : \E i \in DOMAIN f : f[i] = x
<1>1. Cardinality(S) \in Nat /\ ExistsBijection(1 .. Cardinality(S), S)
  BY FS_CardinalityType
<1>2. PICK f \in Bijection(1 .. Cardinality(S), S) : TRUE
  BY <1>1 DEF ExistsBijection
<1>3. f \in [1 .. Cardinality(S) -> S] /\ \A a, b \in DOMAIN f : a # b => f[a] # f[b]
  BY <1>2 DEF Bijection, Injection, IsInjective
<1>4. ASSUME NEW g \in [1 .. Cardinality(S) -> S], \A a, b \in DOMAIN g : a # b => g[a] # g[b]
      PROVE  \A x \in S : \E i \in DOMAIN g : g[i] = x
  <2>1. g \in Injection(1 .. Cardinality(S), S)
    BY <1>4 DEF Injection, IsInjective
  <2>2. IsFiniteSet(1 .. Cardinality(S)) /\ Cardinality(1 .. Cardinality(S)) = Cardinality(S)
    BY <1>1, FS_Interval
  <2>3. g \in Surjection(1 .. Cardinality(S), S)
    BY <2>1, <2>2, FS_Injection
  <2>. QED  BY <2>3 DEF Surjection
<1>. QED  BY <1>1, <1>3, <1>4

\* The sequence of a finite set holds its elements and nothing else.
LEMMA NoticesInTurn ==
    ASSUME NEW S, IsFiniteSet(S)
    PROVE  /\ Notices!SetToSeq(S) \in Seq(S)
           /\ \A x \in S : \E i \in DOMAIN Notices!SetToSeq(S) : Notices!SetToSeq(S)[i] = x
<1>1. Notices!Cardinality(S) = Cardinality(S)
  BY DEF Notices!Cardinality, Cardinality, Notices!IsFiniteSet, IsFiniteSet
<1>2. Notices!SetToSeq(S) = CHOOSE f \in [1 .. Cardinality(S) -> S] : \A a, b \in DOMAIN f : a # b => f[a] # f[b]
  BY <1>1 DEF Notices!SetToSeq, Notices!IsInjective
<1>3. /\ Notices!SetToSeq(S) \in [1 .. Cardinality(S) -> S]
      /\ \A a, b \in DOMAIN Notices!SetToSeq(S) : a # b => Notices!SetToSeq(S)[a] # Notices!SetToSeq(S)[b]
  BY <1>2, LaidOut, Zenon
<1>4. Cardinality(S) \in Nat
  BY LaidOut
<1>5. Notices!SetToSeq(S) \in Seq(S)
  BY <1>3, <1>4
<1>6. \A x \in S : \E i \in DOMAIN Notices!SetToSeq(S) : Notices!SetToSeq(S)[i] = x
  BY <1>3, LaidOut, ZenonT(60)
<1>. QED  BY <1>5, <1>6

-----------------------------------------------------------------------------
(* Notices.                                                                    *)

LEMMA NoticeNumbers ==
    /\ IsFiniteSet(Institutions) /\ IsFiniteSet(Matters) /\ Flagged \subseteq Matters
    /\ Readers # {} /\ "none" \notin Institutions \cup Readers
    /\ YearDays \in Nat \ {0} /\ PeriodsPerYear \in Nat \ {0}
    /\ DueDays \in Nat /\ Horizon \in Nat /\ MaxDay \in Nat /\ MaxNotices \in Nat
<1>1. \A S : Notices!IsFiniteSet(S) = IsFiniteSet(S)
  BY DEF Notices!IsFiniteSet, IsFiniteSet
<1>. QED  BY <1>1, DeskAssumption DEF Notices!NoticeAssumption, Notices!None

LEMMA NoticeYears ==
    ASSUME NEW d \in 0 .. MaxDay
    PROVE  Notices!YearOf(MaxDay) \in Nat /\ Notices!YearOf(d) \in 0 .. Notices!YearOf(MaxDay)
<1>1. d \in Nat /\ MaxDay \in Nat /\ d <= MaxDay /\ YearDays \in Nat \ {0}
  BY NoticeNumbers
<1>2. d \div YearDays \in Nat /\ d \div YearDays <= MaxDay \div YearDays
  BY <1>1, QuotientGrows
<1>3. MaxDay \div YearDays \in Nat
  BY <1>1, QuotientGrows
<1>. QED  BY <1>2, <1>3 DEF Notices!YearOf

LEMMA NoticeDue ==
    ASSUME NEW period \in Notices!Periods
    PROVE  Notices!Due(period) \in Int
<1>1. period.year \in Nat /\ period.n \in Nat
  BY NoticeYears, NoticeNumbers DEF Notices!Periods
<1>2. YearDays \in Nat /\ PeriodsPerYear \in Nat \ {0} /\ DueDays \in Nat
  BY NoticeNumbers
<1>3. period.year * YearDays \in Nat /\ period.n * YearDays \in Nat
  BY <1>1, <1>2
<1> DEFINE k == period.n * YearDays
<1>4. k \div PeriodsPerYear \in Nat
  <2>1. k \in Nat /\ k <= k
    BY <1>3
  <2>. HIDE DEF k
  <2>. QED  BY <1>2, <2>1, QuotientGrows
<1>. QED  BY <1>2, <1>3, <1>4 DEF Notices!Due

LEMMA NoticePeriods ==
    IsFiniteSet(Institutions \X Notices!Periods)
<1> DEFINE Y == 0 .. Notices!YearOf(MaxDay)
           N == 1 .. PeriodsPerYear
           f == [x \in Y \X N |-> [year |-> x[1], n |-> x[2]]]
<1>1. Notices!YearOf(MaxDay) \in Nat /\ PeriodsPerYear \in Nat
  BY NoticeYears, NoticeNumbers
<1>2. IsFiniteSet(Y) /\ IsFiniteSet(N)
  BY <1>1, FS_Interval
<1>3. Notices!Periods = [year : Y, n : N]
  BY DEF Notices!Periods
<1>. HIDE DEF Y, N
<1>4. IsFiniteSet(Y \X N)
  BY <1>2, FS_Product
<1>5. f \in [Y \X N -> [year : Y, n : N]]
  OBVIOUS
<1>6. \A z \in [year : Y, n : N] : \E x \in Y \X N : f[x] = z
  <2>1. ASSUME NEW z \in [year : Y, n : N] PROVE \E x \in Y \X N : f[x] = z
    <3>1. <<z.year, z.n>> \in Y \X N /\ f[<<z.year, z.n>>] = z
      BY <2>1
    <3>. QED  BY <3>1
  <2>. QED  BY <2>1
<1>. HIDE DEF f
<1>7. f \in Surjection(Y \X N, [year : Y, n : N])
  BY <1>5, <1>6 DEF Surjection
<1>8. IsFiniteSet([year : Y, n : N])
  BY <1>4, <1>7, FS_Surjection
<1>. QED  BY <1>3, <1>8, NoticeNumbers, FS_Product

\* The three lists of a generation are of alerts about finitely many matters.
LEMMA NoticeAlerts ==
    ASSUME NEW phase, NEW year, Notices!TypeOK
    PROVE  /\ Notices!Alerts(phase, year) \in Seq(Notices!Row)
           /\ \A i \in DOMAIN Notices!Alerts(phase, year) :
                  /\ Notices!Alerts(phase, year)[i].type \in Notices!GeneratedTypes
                  /\ Notices!Alerts(phase, year)[i].provider = "none"
<1> DEFINE Good == {r \in Notices!Row : r.type \in Notices!GeneratedTypes /\ r.provider = "none"}
<1>1. IsFiniteSet(Notices!HighValueAlerts) /\ Notices!HighValueAlerts \subseteq Good
  <2> DEFINE T == {k \in Flagged : s3[k].status = "OPEN"}
             f == [c \in T |-> Notices!StaffNotice("HIGH_VALUE_FLAG", c, "tax", "none")]
  <2>1. IsFiniteSet(T)
    BY NoticeNumbers, FS_Subset
  <2>2. Notices!HighValueAlerts = {f[c] : c \in T}
    BY DEF Notices!HighValueAlerts, Notices!None
  <2>3. \A c \in T : f[c] \in Good
    BY NoticeNumbers DEF Notices!Row, Notices!StaffNotice, Notices!None, Notices!NoticeTypes, Notices!GeneratedTypes
  <2>. HIDE DEF T, Good
  <2>4. f \in Surjection(T, {f[c] : c \in T})
    BY DEF Surjection
  <2>. HIDE DEF f
  <2>. QED  BY <2>1, <2>2, <2>3, <2>4, FS_Surjection
<1>2. IsFiniteSet(Notices!DeadlineAlerts) /\ Notices!DeadlineAlerts \subseteq Good
  <2> DEFINE T == {k \in Matters : /\ s3[k].status \in {"NOTICE_ISSUED", "OBJECTION"}
                                   /\ Notices!NearDeadline(k) # "none"}
             f == [c \in T |-> Notices!StaffNotice("OBJECTION_DEADLINE", c, Notices!NearDeadline(c), "none")]
  <2>1. IsFiniteSet(T)
    BY NoticeNumbers, FS_Subset
  <2>2. Notices!DeadlineAlerts = {f[c] : c \in T}
    BY DEF Notices!DeadlineAlerts, Notices!None
  <2>3. \A c \in T : f[c] \in Good
    <3>1. ASSUME NEW c \in T PROVE Notices!NearDeadline(c) \in {"objection", "authority_response"}
      BY <3>1, Zenon DEF Notices!NearDeadline, Notices!None
    <3>. QED  BY <3>1, NoticeNumbers DEF Notices!Row, Notices!StaffNotice, Notices!None, Notices!NoticeTypes, Notices!GeneratedTypes
  <2>. HIDE DEF T, Good
  <2>4. f \in Surjection(T, {f[c] : c \in T})
    BY DEF Surjection
  <2>. HIDE DEF f
  <2>. QED  BY <2>1, <2>2, <2>3, <2>4, FS_Surjection
<1>3. IsFiniteSet(Notices!MissedAlerts(year)) /\ Notices!MissedAlerts(year) \subseteq Good
  <2> DEFINE T == {q \in Institutions : \A period \in s2[q] : period.year # year}
             f == [p \in T |-> Notices!StaffNotice("MISSED_SUBMISSION", p, "year", "none")]
  <2>1. IsFiniteSet(T)
    BY NoticeNumbers, FS_Subset
  <2>2. Notices!MissedAlerts(year) = {f[p] : p \in T}
    BY DEF Notices!MissedAlerts, Notices!None
  <2>3. \A p \in T : f[p] \in Good
    BY NoticeNumbers DEF Notices!Row, Notices!StaffNotice, Notices!None, Notices!NoticeTypes, Notices!GeneratedTypes
  <2>. HIDE DEF T, Good
  <2>4. f \in Surjection(T, {f[p] : p \in T})
    BY DEF Surjection
  <2>. HIDE DEF f
  <2>. QED  BY <2>1, <2>2, <2>3, <2>4, FS_Surjection
<1>4. \E S : IsFiniteSet(S) /\ S \subseteq Good /\ Notices!Alerts(phase, year) = Notices!SetToSeq(S)
  <2>1. CASE phase = 1
    <3>1. phase # 2
      BY <2>1
    <3>2. Notices!Alerts(phase, year) = Notices!SetToSeq(Notices!HighValueAlerts)
      BY <2>1, <3>1, Zenon DEF Notices!Alerts
    <3>. QED  BY <1>1, <3>2, Zenon
  <2>2. CASE phase = 2
    <3>1. phase # 1
      BY <2>2
    <3>2. Notices!Alerts(phase, year) = Notices!SetToSeq(Notices!DeadlineAlerts)
      BY <2>2, <3>1, Zenon DEF Notices!Alerts
    <3>. QED  BY <1>2, <3>2, Zenon
  <2>3. CASE phase # 1 /\ phase # 2
    <3>1. Notices!Alerts(phase, year) = Notices!SetToSeq(Notices!MissedAlerts(year))
      BY <2>3, Zenon DEF Notices!Alerts
    <3>. QED  BY <1>3, <3>1, Zenon
  <2>. QED  BY <2>1, <2>2, <2>3
<1>5. PICK S : IsFiniteSet(S) /\ S \subseteq Good /\ Notices!Alerts(phase, year) = Notices!SetToSeq(S)
  BY <1>4
<1>6. Notices!Alerts(phase, year) \in Seq(S)
  BY <1>5, NoticesInTurn
<1>. QED  BY <1>5, <1>6

\* No two notices that must not both be there.
Apart(q) == \A i, j \in DOMAIN q : q[i].type = q[j].type =>
    /\ q[i].type = "SUBMISSION_OVERDUE" =>
           (q[i].provider = q[j].provider /\ q[i].entity = q[j].entity => i = j)
    /\ q[i].type \in Notices!GeneratedTypes =>
           (~q[i].read /\ ~q[j].read /\ q[i].entity = q[j].entity => i = j)

LEMMA BoardApart == (Notices!NothingTwice <=> Apart(s4)) /\ (Notices!NothingTwice' <=> Apart(s4'))
<1> DEFINE One(a, b, i, j) ==
        CASE a.type = "SUBMISSION_OVERDUE" -> (a.provider = b.provider /\ a.entity = b.entity) => i = j
          [] a.type \in {"OBJECTION_DEADLINE", "MISSED_SUBMISSION", "HIGH_VALUE_FLAG"} ->
                (~a.read /\ ~b.read /\ a.entity = b.entity) => i = j
          [] OTHER -> TRUE
<1>1. \A a, b, i, j : One(a, b, i, j) <=>
          /\ a.type = "SUBMISSION_OVERDUE" => (a.provider = b.provider /\ a.entity = b.entity => i = j)
          /\ a.type \in Notices!GeneratedTypes => (~a.read /\ ~b.read /\ a.entity = b.entity => i = j)
  <2>. SUFFICES ASSUME NEW a, NEW b, NEW i, NEW j
                PROVE  One(a, b, i, j) <=>
          /\ a.type = "SUBMISSION_OVERDUE" => (a.provider = b.provider /\ a.entity = b.entity => i = j)
          /\ a.type \in Notices!GeneratedTypes => (~a.read /\ ~b.read /\ a.entity = b.entity => i = j)
    OBVIOUS
  <2>0. Notices!GeneratedTypes = {"OBJECTION_DEADLINE", "MISSED_SUBMISSION", "HIGH_VALUE_FLAG"}
    BY DEF Notices!GeneratedTypes
  <2>1. CASE a.type = "SUBMISSION_OVERDUE"
    <3>1. a.type \notin {"OBJECTION_DEADLINE", "MISSED_SUBMISSION", "HIGH_VALUE_FLAG"}
      BY <2>1
    <3>. QED  BY <2>0, <2>1, <3>1, Zenon
  <2>2. CASE a.type \in {"OBJECTION_DEADLINE", "MISSED_SUBMISSION", "HIGH_VALUE_FLAG"}
    <3>1. a.type # "SUBMISSION_OVERDUE"
      BY <2>2
    <3>. QED  BY <2>0, <2>2, <3>1, Zenon
  <2>3. CASE a.type # "SUBMISSION_OVERDUE" /\ a.type \notin {"OBJECTION_DEADLINE", "MISSED_SUBMISSION", "HIGH_VALUE_FLAG"}
    BY <2>0, <2>3, Zenon
  <2>. QED  BY <2>1, <2>2, <2>3
<1>2. Notices!NothingTwice <=> \A i, j \in DOMAIN s4 : s4[i].type = s4[j].type => One(s4[i], s4[j], i, j)
  BY DEF Notices!NothingTwice
<1>3. Notices!NothingTwice' <=> \A i, j \in DOMAIN s4' : s4'[i].type = s4'[j].type => One(s4'[i], s4'[j], i, j)
  BY DEF Notices!NothingTwice
<1>. HIDE DEF One
<1>4. (\A i, j \in DOMAIN s4 : s4[i].type = s4[j].type => One(s4[i], s4[j], i, j)) <=> Apart(s4)
  BY <1>1 DEF Apart
<1>5. (\A i, j \in DOMAIN s4' : s4'[i].type = s4'[j].type => One(s4'[i], s4'[j], i, j)) <=> Apart(s4')
  BY <1>1 DEF Apart
<1>. QED  BY <1>2, <1>3, <1>4, <1>5

\* A notice is posted that nobody has yet.
LEMMA BoardPosted ==
    ASSUME s4 \in Seq(Notices!Row), Apart(s4), Notices!Addressed,
           NEW n \in Notices!Row, s4' = Append(s4, n), n.provider # "none" => n.user = "none",
           n.type = "SUBMISSION_OVERDUE" => ~Notices!AlreadyReminded(n.provider, n.entity),
           n.type \in Notices!GeneratedTypes => ~Notices!StandsUnread(n)
    PROVE  /\ s4' \in Seq(Notices!Row) /\ Apart(s4') /\ Notices!Addressed'
           /\ \A p, e : Notices!Told(p, e) => Notices!Told(p, e)'
           /\ \A p, e : n.type = "SUBMISSION_OVERDUE" /\ n.provider = p /\ n.entity = e => Notices!Told(p, e)'
           /\ \A p, e : Notices!AlreadyReminded(p, e)' =>
                 Notices!AlreadyReminded(p, e) \/ (n.type = "SUBMISSION_OVERDUE" /\ n.provider = p /\ n.entity = e)
           /\ \A a : Notices!StandsUnread(a)' =>
                 Notices!StandsUnread(a) \/ (n.type = a.type /\ n.entity = a.entity)
<1>1. /\ s4' \in Seq(Notices!Row) /\ Len(s4') = Len(s4) + 1 /\ Len(s4) \in Nat
      /\ \A d \in 1 .. Len(s4) : s4'[d] = s4[d]
      /\ s4'[Len(s4) + 1] = n
  BY AppendProperties
<1>2. DOMAIN s4 = 1 .. Len(s4) /\ DOMAIN s4' = 1 .. Len(s4')
  BY <1>1, LenProperties
<1>3. \A d \in DOMAIN s4' : \/ d \in DOMAIN s4 /\ s4'[d] = s4[d]
                            \/ d = Len(s4) + 1 /\ d \notin DOMAIN s4 /\ s4'[d] = n
  BY <1>1, <1>2
<1>4. \A d \in DOMAIN s4 : d \in DOMAIN s4' /\ s4'[d] = s4[d]
  BY <1>1, <1>2
<1>5. Len(s4) + 1 \in DOMAIN s4' /\ s4'[Len(s4) + 1] = n
  BY <1>1, <1>2
<1>6. Apart(s4')
  <2>. SUFFICES ASSUME NEW i \in DOMAIN s4', NEW j \in DOMAIN s4', s4'[i].type = s4'[j].type
                PROVE  /\ s4'[i].type = "SUBMISSION_OVERDUE" =>
                             (s4'[i].provider = s4'[j].provider /\ s4'[i].entity = s4'[j].entity => i = j)
                       /\ s4'[i].type \in Notices!GeneratedTypes =>
                             (~s4'[i].read /\ ~s4'[j].read /\ s4'[i].entity = s4'[j].entity => i = j)
    BY DEF Apart
  <2>1. CASE i \in DOMAIN s4 /\ j \in DOMAIN s4
    BY <1>4, <2>1 DEF Apart
  <2>2. CASE i \in DOMAIN s4 /\ j \notin DOMAIN s4
    BY <1>3, <1>4, <2>2 DEF Notices!AlreadyReminded, Notices!StandsUnread
  <2>3. CASE i \notin DOMAIN s4 /\ j \in DOMAIN s4
    BY <1>3, <1>4, <2>3 DEF Notices!AlreadyReminded, Notices!StandsUnread
  <2>4. CASE i \notin DOMAIN s4 /\ j \notin DOMAIN s4
    BY <1>3, <2>4
  <2>. QED  BY <2>1, <2>2, <2>3, <2>4
<1>7. Notices!Addressed'
  BY <1>3 DEF Notices!Addressed, Notices!None
<1>8. /\ \A p, e : Notices!Told(p, e) => Notices!Told(p, e)'
      /\ \A p, e : n.type = "SUBMISSION_OVERDUE" /\ n.provider = p /\ n.entity = e => Notices!Told(p, e)'
  BY <1>4, <1>5 DEF Notices!Told, Notices!ProviderSees
<1>9. /\ \A p, e : Notices!AlreadyReminded(p, e)' =>
            Notices!AlreadyReminded(p, e) \/ (n.type = "SUBMISSION_OVERDUE" /\ n.provider = p /\ n.entity = e)
      /\ \A a : Notices!StandsUnread(a)' =>
            Notices!StandsUnread(a) \/ (n.type = a.type /\ n.entity = a.entity)
  BY <1>3 DEF Notices!AlreadyReminded, Notices!StandsUnread
<1>. QED  BY <1>1, <1>6, <1>7, <1>8, <1>9

\* A notice is read.
LEMMA BoardMarked ==
    ASSUME s4 \in Seq(Notices!Row), Apart(s4), Notices!Addressed,
           NEW i \in DOMAIN s4, s4' = [s4 EXCEPT ![i].read = TRUE]
    PROVE  /\ s4' \in Seq(Notices!Row) /\ Apart(s4') /\ Notices!Addressed'
           /\ \A p, e : Notices!Told(p, e) => Notices!Told(p, e)'
           /\ \A p, e : Notices!AlreadyReminded(p, e)' => Notices!AlreadyReminded(p, e)
           /\ \A a : Notices!StandsUnread(a)' => Notices!StandsUnread(a)
<1> DEFINE x == [s4[i] EXCEPT !.read = TRUE]
<1>1. i \in 1 .. Len(s4) /\ DOMAIN s4 = 1 .. Len(s4) /\ s4[i] \in Notices!Row
  BY LenProperties, ElementOfSeq
<1>2. /\ x \in Notices!Row /\ s4' = [s4 EXCEPT ![i] = x]
      /\ x.type = s4[i].type /\ x.entity = s4[i].entity /\ x.provider = s4[i].provider
      /\ x.user = s4[i].user /\ x.read
  BY <1>1 DEF Notices!Row
<1>. HIDE DEF x
<1>3. /\ s4' \in Seq(Notices!Row) /\ Len(s4') = Len(s4)
      /\ \A d \in 1 .. Len(s4) : s4'[d] = IF d = i THEN x ELSE s4[d]
  <2>1. /\ [s4 EXCEPT ![i] = x] \in Seq(Notices!Row) /\ Len([s4 EXCEPT ![i] = x]) = Len(s4)
        /\ \A d \in 1 .. Len(s4) : [s4 EXCEPT ![i] = x][d] = IF d = i THEN x ELSE s4[d]
    BY <1>1, <1>2, ExceptSeq
  <2>. QED  BY <1>2, <2>1, Zenon
<1>4. DOMAIN s4' = DOMAIN s4
  BY <1>1, <1>3, LenProperties
<1>5. \A d \in DOMAIN s4 : /\ s4'[d].type = s4[d].type /\ s4'[d].entity = s4[d].entity
                           /\ s4'[d].provider = s4[d].provider /\ s4'[d].user = s4[d].user
                           /\ ~s4'[d].read => ~s4[d].read
  BY <1>1, <1>2, <1>3
<1>6. Apart(s4')
  BY <1>4, <1>5 DEF Apart
<1>7. Notices!Addressed'
  BY <1>4, <1>5 DEF Notices!Addressed
<1>. QED  BY <1>3, <1>4, <1>5, <1>6, <1>7
          DEF Notices!Told, Notices!ProviderSees, Notices!AlreadyReminded, Notices!StandsUnread

LEMMA BoardStays ==
    ASSUME Notices!BoardHolds, UNCHANGED <<s4, s5, s6>>,
           s1' \in 0 .. MaxDay, s2' \in [Institutions -> SUBSET Notices!Periods],
           s3' \in [Matters -> [status : {"OPEN", "NOTICE_ISSUED", "OBJECTION", "ASSESSED"},
                                objectionDueAt : Nat, authorityResponseDueAt : Nat]],
           \A p \in Institutions : s2[p] \subseteq s2'[p]
    PROVE  Notices!BoardHolds'
<1>1. Notices!TypeOK'
  BY DEF Notices!BoardHolds, Notices!TypeOK
<1>2. Notices!NothingTwice'
  BY BoardApart DEF Notices!BoardHolds
<1>3. Notices!NotToldYet'
  BY DEF Notices!BoardHolds, Notices!NotToldYet, Notices!AlreadyReminded, Notices!StandsUnread
<1>4. Notices!Addressed'
  BY DEF Notices!BoardHolds, Notices!Addressed
<1>5. Notices!ReachedOrToDo'
  <2>1. \A p, e : Notices!Told(p, e)' <=> Notices!Told(p, e)
    BY DEF Notices!Told, Notices!ProviderSees
  <2>. SUFFICES ASSUME s5.pc # "idle", NEW p \in Institutions, NEW period \in Notices!Periods,
                       period.year = Notices!YearOf(s5.since), s5.since - Notices!Due(period) > 1
                PROVE  \/ period \in s2'[p] \/ Notices!Told(p, period)
                       \/ s5.pc # "done" /\ \E i \in DOMAIN s5.todo : s5.todo[i] = <<p, period>>
    BY <2>1 DEF Notices!ReachedOrToDo
  <2>2. \/ period \in s2[p] \/ Notices!Told(p, period)
        \/ s5.pc # "done" /\ \E i \in DOMAIN s5.todo : s5.todo[i] = <<p, period>>
    BY DEF Notices!BoardHolds, Notices!ReachedOrToDo
  <2>. QED  BY <2>2
<1>. QED  BY <1>1, <1>2, <1>3, <1>4, <1>5 DEF Notices!BoardHolds

\* The rest of what stands when only the pass moves.
LEMMA BoardPassed ==
    ASSUME Notices!BoardHolds, UNCHANGED <<s1, s2, s3, s4, s6>>,
           s5' \in [pc : {"idle", "check", "create", "done"}, todo : Seq(Institutions \X Notices!Periods),
                    since : 0 .. MaxDay],
           s5'.pc = "create" =>
               s5'.todo # <<>> /\ ~Notices!AlreadyReminded(Head(s5'.todo)[1], Head(s5'.todo)[2]),
           Notices!ReachedOrToDo'
    PROVE  Notices!BoardHolds'
<1>1. Notices!TypeOK'
  BY DEF Notices!BoardHolds, Notices!TypeOK
<1>2. Notices!NothingTwice'
  BY BoardApart DEF Notices!BoardHolds
<1>3. Notices!NotToldYet'
  BY DEF Notices!BoardHolds, Notices!NotToldYet, Notices!AlreadyReminded, Notices!StandsUnread
<1>4. Notices!Addressed'
  BY DEF Notices!BoardHolds, Notices!Addressed
<1>. QED  BY <1>1, <1>2, <1>3, <1>4 DEF Notices!BoardHolds

LEMMA BoardPasses ==
    ASSUME Notices!BoardHolds, Notices!PassStart \/ Notices!PassCheck \/ Notices!PassEnd
    PROVE  Notices!BoardHolds'
<1>0. /\ s1 \in 0 .. MaxDay /\ s4 \in Seq(Notices!Row)
      /\ s5 \in [pc : {"idle", "check", "create", "done"}, todo : Seq(Institutions \X Notices!Periods),
                 since : 0 .. MaxDay]
      /\ s5.todo \in Seq(Institutions \X Notices!Periods)
  BY DEF Notices!BoardHolds, Notices!TypeOK
<1>1. UNCHANGED <<s1, s2, s3, s4, s6>>
  BY DEF Notices!PassStart, Notices!PassCheck, Notices!PassEnd
<1>2. \A p, e : Notices!Told(p, e)' <=> Notices!Told(p, e)
  BY <1>1 DEF Notices!Told, Notices!ProviderSees
<1>3. CASE Notices!PassStart
  <2> DEFINE S == {row \in Notices!ForYear(Notices!CurrentTaxYear, s1) : s1 - Notices!Due(row[2]) > 1}
  <2>1. s5' = [pc |-> "check", since |-> s1, todo |-> Notices!SetToSeq(S)]
    BY <1>3 DEF Notices!PassStart
  <2>2. S \in SUBSET (Institutions \X Notices!Periods)
    BY DEF Notices!ForYear
  <2>3. IsFiniteSet(S)
    BY <2>2, NoticePeriods, FS_Subset
  <2>4. \A p \in Institutions, period \in Notices!Periods :
            period.year = Notices!YearOf(s1) /\ s1 - Notices!Due(period) > 1 =>
                period \in s2[p] \/ <<p, period>> \in S
    <3>. SUFFICES ASSUME NEW p \in Institutions, NEW period \in Notices!Periods,
                         period.year = Notices!YearOf(s1), s1 - Notices!Due(period) > 1,
                         period \notin s2[p]
                  PROVE  <<p, period>> \in S
      OBVIOUS
    <3>1. Notices!Due(period) < s1
      <4>1. Notices!Due(period) \in Int /\ s1 \in Int
        BY <1>0, NoticeDue
      <4>. QED  BY <4>1
    <3>2. Notices!Missing(p, period, s1)
      BY <3>1 DEF Notices!Missing
    <3>. QED  BY <3>2 DEF Notices!ForYear, Notices!CurrentTaxYear
  <2>. HIDE DEF S
  <2>5. /\ Notices!SetToSeq(S) \in Seq(S)
        /\ \A x \in S : \E i \in DOMAIN Notices!SetToSeq(S) : Notices!SetToSeq(S)[i] = x
    BY <2>3, NoticesInTurn
  <2>6. Notices!SetToSeq(S) \in Seq(Institutions \X Notices!Periods)
    BY <2>2, <2>5, SeqMonotonic
  <2>7. s5' \in [pc : {"idle", "check", "create", "done"}, todo : Seq(Institutions \X Notices!Periods),
                 since : 0 .. MaxDay]
    BY <1>0, <2>1, <2>6
  <2>8. s5'.pc = "check" /\ s5'.since = s1 /\ s5'.todo = Notices!SetToSeq(S)
    BY <2>1
  <2>9. Notices!ReachedOrToDo'
    <3>. SUFFICES ASSUME NEW p \in Institutions, NEW period \in Notices!Periods,
                         period.year = Notices!YearOf(s1), s1 - Notices!Due(period) > 1
                  PROVE  \/ period \in s2[p]
                         \/ \E i \in DOMAIN s5'.todo : s5'.todo[i] = <<p, period>>
      BY <1>1, <2>8 DEF Notices!ReachedOrToDo
    <3>. QED  BY <2>4, <2>5, <2>8
  <2>. QED  BY <1>1, <2>7, <2>8, <2>9, BoardPassed
<1>4. CASE Notices!PassCheck
  <2>0. s5.pc = "check" /\ s5.todo # <<>>
    BY <1>4 DEF Notices!PassCheck
  <2> DEFINE row == Head(s5.todo)
  <2>1. s5' = IF Notices!AlreadyReminded(row[1], row[2])
              THEN [s5 EXCEPT !.todo = Tail(@)] ELSE [s5 EXCEPT !.pc = "create"]
    BY <1>4 DEF Notices!PassCheck
  <2>2. /\ Tail(s5.todo) \in Seq(Institutions \X Notices!Periods)
        /\ Len(Tail(s5.todo)) = Len(s5.todo) - 1 /\ Len(s5.todo) \in Nat
        /\ \A i \in 1 .. Len(Tail(s5.todo)) : Tail(s5.todo)[i] = s5.todo[i + 1]
        /\ row = s5.todo[1]
    BY <1>0, <2>0, HeadTailProperties, LenProperties
  <2>3. DOMAIN s5.todo = 1 .. Len(s5.todo) /\ DOMAIN Tail(s5.todo) = 1 .. Len(Tail(s5.todo))
    BY <1>0, <2>2, LenProperties
  <2>4. CASE Notices!AlreadyReminded(row[1], row[2])
    <3>1. s5' = [s5 EXCEPT !.todo = Tail(s5.todo)]
      BY <2>1, <2>4
    <3>2. s5'.pc = "check" /\ s5'.since = s5.since /\ s5'.todo = Tail(s5.todo)
      BY <1>0, <2>0, <3>1
    <3>3. s5' \in [pc : {"idle", "check", "create", "done"}, todo : Seq(Institutions \X Notices!Periods),
                   since : 0 .. MaxDay]
      BY <1>0, <2>2, <3>1
    <3>4. \A p \in Institutions, period \in Notices!Periods, i \in DOMAIN s5.todo :
              s5.todo[i] = <<p, period>> =>
                  Notices!Told(p, period) \/ \E j \in DOMAIN Tail(s5.todo) : Tail(s5.todo)[j] = <<p, period>>
      <4>. SUFFICES ASSUME NEW p \in Institutions, NEW period \in Notices!Periods, NEW i \in DOMAIN s5.todo,
                           s5.todo[i] = <<p, period>>
                    PROVE  Notices!Told(p, period) \/ \E j \in DOMAIN Tail(s5.todo) : Tail(s5.todo)[j] = <<p, period>>
        OBVIOUS
      <4>1. CASE i = 1
        <5>1. row[1] = p /\ row[2] = period
          BY <2>2, <4>1
        <5>. QED  BY <2>4, <5>1 DEF Notices!AlreadyReminded, Notices!Told, Notices!ProviderSees
      <4>2. CASE i # 1
        <5>1. i - 1 \in DOMAIN Tail(s5.todo) /\ Tail(s5.todo)[i - 1] = s5.todo[i]
          BY <2>2, <2>3, <4>2
        <5>. QED  BY <5>1
      <4>. QED  BY <4>1, <4>2
    <3>5. Notices!ReachedOrToDo'
      <4>. SUFFICES ASSUME NEW p \in Institutions, NEW period \in Notices!Periods,
                           period.year = Notices!YearOf(s5.since), s5.since - Notices!Due(period) > 1
                    PROVE  \/ period \in s2[p] \/ Notices!Told(p, period)
                           \/ \E i \in DOMAIN Tail(s5.todo) : Tail(s5.todo)[i] = <<p, period>>
        BY <1>1, <1>2, <3>2 DEF Notices!ReachedOrToDo
      <4>. QED  BY <2>0, <3>4 DEF Notices!BoardHolds, Notices!ReachedOrToDo
    <3>. QED  BY <1>1, <3>2, <3>3, <3>5, BoardPassed
  <2>5. CASE ~Notices!AlreadyReminded(row[1], row[2])
    <3>1. s5' = [s5 EXCEPT !.pc = "create"]
      BY <2>1, <2>5
    <3>2. s5'.pc = "create" /\ s5'.since = s5.since /\ s5'.todo = s5.todo
      BY <1>0, <3>1
    <3>3. s5' \in [pc : {"idle", "check", "create", "done"}, todo : Seq(Institutions \X Notices!Periods),
                   since : 0 .. MaxDay]
      BY <1>0, <3>1
    <3>5. Notices!ReachedOrToDo'
      <4>. SUFFICES ASSUME NEW p \in Institutions, NEW period \in Notices!Periods,
                           period.year = Notices!YearOf(s5.since), s5.since - Notices!Due(period) > 1
                    PROVE  \/ period \in s2[p] \/ Notices!Told(p, period)
                           \/ \E i \in DOMAIN s5.todo : s5.todo[i] = <<p, period>>
        BY <1>1, <1>2, <3>2 DEF Notices!ReachedOrToDo
      <4>. QED  BY <2>0 DEF Notices!BoardHolds, Notices!ReachedOrToDo
    <3>. QED  BY <1>1, <2>0, <2>5, <3>2, <3>3, <3>5, BoardPassed
  <2>. QED  BY <2>4, <2>5
<1>5. CASE Notices!PassEnd
  <2>0. s5.pc = "check" /\ s5.todo = <<>> /\ s5' = [s5 EXCEPT !.pc = "done"]
    BY <1>5 DEF Notices!PassEnd
  <2>1. s5'.pc = "done" /\ s5'.since = s5.since /\ s5'.todo = s5.todo
    BY <1>0, <2>0
  <2>2. s5' \in [pc : {"idle", "check", "create", "done"}, todo : Seq(Institutions \X Notices!Periods),
                 since : 0 .. MaxDay]
    BY <1>0, <2>0
  <2>3. DOMAIN s5.todo = {}
    BY <2>0
  <2>4. Notices!ReachedOrToDo'
    <3>. SUFFICES ASSUME NEW p \in Institutions, NEW period \in Notices!Periods,
                         period.year = Notices!YearOf(s5.since), s5.since - Notices!Due(period) > 1
                  PROVE  period \in s2[p] \/ Notices!Told(p, period)
      BY <1>1, <1>2, <2>1 DEF Notices!ReachedOrToDo
    <3>. QED  BY <2>0, <2>3 DEF Notices!BoardHolds, Notices!ReachedOrToDo
  <2>. QED  BY <1>1, <2>1, <2>2, <2>4, BoardPassed
<1>. QED  BY <1>3, <1>4, <1>5

\* The rest of what stands when only a generation moves.
LEMMA BoardGenerated ==
    ASSUME Notices!BoardHolds, UNCHANGED <<s1, s2, s3, s4, s5>>,
           s6' \in [pc : {"idle", "check", "create", "done"}, todo : Seq(Notices!Row),
                    since : 0 .. MaxDay, phase : 0 .. 3, year : 0 .. Notices!YearOf(MaxDay)],
           s6'.pc = "create" => s6'.todo # <<>> /\ ~Notices!StandsUnread(Head(s6'.todo)),
           \A i \in DOMAIN s6'.todo :
               s6'.todo[i].type \in Notices!GeneratedTypes /\ s6'.todo[i].provider = "none"
    PROVE  Notices!BoardHolds'
<1>1. Notices!TypeOK'
  BY DEF Notices!BoardHolds, Notices!TypeOK
<1>2. Notices!NothingTwice'
  BY BoardApart DEF Notices!BoardHolds
<1>3. Notices!NotToldYet'
  BY DEF Notices!BoardHolds, Notices!NotToldYet, Notices!AlreadyReminded, Notices!StandsUnread, Notices!None
<1>4. Notices!Addressed'
  BY DEF Notices!BoardHolds, Notices!Addressed
<1>5. Notices!ReachedOrToDo'
  <2>1. \A p, e : Notices!Told(p, e)' <=> Notices!Told(p, e)
    BY DEF Notices!Told, Notices!ProviderSees
  <2>. QED  BY <2>1 DEF Notices!BoardHolds, Notices!ReachedOrToDo
<1>. QED  BY <1>1, <1>2, <1>3, <1>4, <1>5 DEF Notices!BoardHolds

\* What is left of a list of alerts is one.
LEMMA BoardTail ==
    ASSUME NEW q \in Seq(Notices!Row), q # <<>>,
           \A i \in DOMAIN q : q[i].type \in Notices!GeneratedTypes /\ q[i].provider = "none"
    PROVE  /\ Head(q) \in Notices!Row /\ Tail(q) \in Seq(Notices!Row)
           /\ Head(q).type \in Notices!GeneratedTypes /\ Head(q).provider = "none"
           /\ \A i \in DOMAIN Tail(q) : Tail(q)[i].type \in Notices!GeneratedTypes /\ Tail(q)[i].provider = "none"
<1>1. /\ Head(q) \in Notices!Row /\ Tail(q) \in Seq(Notices!Row)
      /\ Len(Tail(q)) = Len(q) - 1 /\ Len(q) \in Nat /\ Head(q) = q[1]
      /\ \A i \in 1 .. Len(Tail(q)) : Tail(q)[i] = q[i + 1]
  BY HeadTailProperties, LenProperties
<1>2. DOMAIN q = 1 .. Len(q) /\ DOMAIN Tail(q) = 1 .. Len(Tail(q))
  BY <1>1, LenProperties
<1>3. 1 \in DOMAIN q
  <2>1. Len(q) # 0
    BY EmptySeq
  <2>. QED  BY <1>1, <1>2, <2>1
<1>4. \A i \in DOMAIN Tail(q) : i + 1 \in DOMAIN q /\ Tail(q)[i] = q[i + 1]
  BY <1>1, <1>2
<1>. QED  BY <1>1, <1>3, <1>4

LEMMA BoardGenerates ==
    ASSUME Notices!BoardHolds,
           \/ \E year \in 0 .. Notices!YearOf(MaxDay) : Notices!GenerateStart(year)
           \/ Notices!GenerateCheck \/ Notices!GenerateTurn
    PROVE  Notices!BoardHolds'
<1>0. /\ s1 \in 0 .. MaxDay /\ s4 \in Seq(Notices!Row) /\ Notices!TypeOK
      /\ s6 \in [pc : {"idle", "check", "create", "done"}, todo : Seq(Notices!Row),
                 since : 0 .. MaxDay, phase : 0 .. 3, year : 0 .. Notices!YearOf(MaxDay)]
      /\ s6.todo \in Seq(Notices!Row)
  BY DEF Notices!BoardHolds, Notices!TypeOK
<1>1. UNCHANGED <<s1, s2, s3, s4, s5>>
  BY DEF Notices!GenerateStart, Notices!GenerateCheck, Notices!GenerateTurn
<1>2. \A i \in DOMAIN s6.todo : s6.todo[i].type \in Notices!GeneratedTypes /\ s6.todo[i].provider = "none"
  BY DEF Notices!BoardHolds, Notices!NotToldYet, Notices!None
<1>3. ASSUME NEW year \in 0 .. Notices!YearOf(MaxDay), Notices!GenerateStart(year) PROVE Notices!BoardHolds'
  <2>1. s6' = [pc |-> "check", since |-> s1, todo |-> Notices!Alerts(1, year), phase |-> 1, year |-> year]
    BY <1>3 DEF Notices!GenerateStart
  <2>2. /\ Notices!Alerts(1, year) \in Seq(Notices!Row)
        /\ \A i \in DOMAIN Notices!Alerts(1, year) :
               Notices!Alerts(1, year)[i].type \in Notices!GeneratedTypes /\ Notices!Alerts(1, year)[i].provider = "none"
    BY <1>0, NoticeAlerts
  <2> DEFINE q == Notices!Alerts(1, year)
  <2>. HIDE DEF q
  <2>3. /\ s6'.pc = "check" /\ s6'.todo = q
        /\ s6' \in [pc : {"idle", "check", "create", "done"}, todo : Seq(Notices!Row),
                    since : 0 .. MaxDay, phase : 0 .. 3, year : 0 .. Notices!YearOf(MaxDay)]
    <3>1. s6' = [pc |-> "check", since |-> s1, todo |-> q, phase |-> 1, year |-> year] /\ q \in Seq(Notices!Row)
      BY <2>1, <2>2 DEF q
    <3>. QED  BY <1>0, <3>1
  <2>4. \A i \in DOMAIN q : q[i].type \in Notices!GeneratedTypes /\ q[i].provider = "none"
    BY <2>2 DEF q
  <2>. QED  BY <1>1, <2>3, <2>4, BoardGenerated
<1>4. CASE Notices!GenerateCheck
  <2>0. s6.pc = "check" /\ s6.todo # <<>>
    BY <1>4 DEF Notices!GenerateCheck
  <2>1. s6' = IF Notices!StandsUnread(Head(s6.todo))
              THEN [s6 EXCEPT !.todo = Tail(@)] ELSE [s6 EXCEPT !.pc = "create"]
    BY <1>4 DEF Notices!GenerateCheck
  <2>2. /\ Tail(s6.todo) \in Seq(Notices!Row)
        /\ \A i \in DOMAIN Tail(s6.todo) :
               Tail(s6.todo)[i].type \in Notices!GeneratedTypes /\ Tail(s6.todo)[i].provider = "none"
    BY <1>0, <1>2, <2>0, BoardTail
  <2>3. CASE Notices!StandsUnread(Head(s6.todo))
    <3>1. s6' = [s6 EXCEPT !.todo = Tail(s6.todo)]
      BY <2>1, <2>3
    <3>2. s6'.pc = "check" /\ s6'.todo = Tail(s6.todo)
      BY <1>0, <2>0, <3>1
    <3>3. s6' \in [pc : {"idle", "check", "create", "done"}, todo : Seq(Notices!Row),
                   since : 0 .. MaxDay, phase : 0 .. 3, year : 0 .. Notices!YearOf(MaxDay)]
      BY <1>0, <2>2, <3>1
    <3>. QED  BY <1>1, <2>2, <3>2, <3>3, BoardGenerated
  <2>4. CASE ~Notices!StandsUnread(Head(s6.todo))
    <3>1. s6' = [s6 EXCEPT !.pc = "create"]
      BY <2>1, <2>4
    <3>2. s6'.pc = "create" /\ s6'.todo = s6.todo
      BY <1>0, <3>1
    <3>3. s6' \in [pc : {"idle", "check", "create", "done"}, todo : Seq(Notices!Row),
                   since : 0 .. MaxDay, phase : 0 .. 3, year : 0 .. Notices!YearOf(MaxDay)]
      BY <1>0, <3>1
    <3>. QED  BY <1>1, <1>2, <2>0, <2>4, <3>2, <3>3, BoardGenerated
  <2>. QED  BY <2>3, <2>4
<1>5. CASE Notices!GenerateTurn
  <2>0. s6.pc = "check" /\ s6.todo = <<>>
    BY <1>5 DEF Notices!GenerateTurn
  <2>1. CASE s6.phase = 3
    <3>1. s6' = [s6 EXCEPT !.pc = "done"]
      BY <1>5, <2>1 DEF Notices!GenerateTurn
    <3>2. s6'.pc = "done" /\ s6'.todo = s6.todo
      BY <1>0, <3>1
    <3>3. s6' \in [pc : {"idle", "check", "create", "done"}, todo : Seq(Notices!Row),
                   since : 0 .. MaxDay, phase : 0 .. 3, year : 0 .. Notices!YearOf(MaxDay)]
      BY <1>0, <3>1
    <3>. QED  BY <1>1, <1>2, <3>2, <3>3, BoardGenerated
  <2>2. CASE s6.phase # 3
    <3> DEFINE q == Notices!Alerts(s6.phase + 1, s6.year)
    <3>1. s6' = [s6 EXCEPT !.phase = @ + 1, !.todo = q]
      BY <1>5, <2>2 DEF Notices!GenerateTurn
    <3>2. /\ q \in Seq(Notices!Row)
          /\ \A i \in DOMAIN q : q[i].type \in Notices!GeneratedTypes /\ q[i].provider = "none"
      BY <1>0, NoticeAlerts
    <3>. HIDE DEF q
    <3>3. s6.phase + 1 \in 0 .. 3
      BY <1>0, <2>2
    <3>4. s6'.pc = "check" /\ s6'.todo = q
      BY <1>0, <2>0, <3>1
    <3>5. s6' \in [pc : {"idle", "check", "create", "done"}, todo : Seq(Notices!Row),
                   since : 0 .. MaxDay, phase : 0 .. 3, year : 0 .. Notices!YearOf(MaxDay)]
      BY <1>0, <3>1, <3>2, <3>3
    <3>. QED  BY <1>1, <3>2, <3>4, <3>5, BoardGenerated
  <2>. QED  BY <2>1, <2>2
<1>. QED  BY <1>3, <1>4, <1>5

LEMMA BoardRestarts ==
    ASSUME Notices!BoardHolds, Notices!Restart
    PROVE  Notices!BoardHolds'
<1>0. /\ s1 \in 0 .. MaxDay
      /\ s5 \in [pc : {"idle", "check", "create", "done"}, todo : Seq(Institutions \X Notices!Periods),
                 since : 0 .. MaxDay]
      /\ s6 \in [pc : {"idle", "check", "create", "done"}, todo : Seq(Notices!Row),
                 since : 0 .. MaxDay, phase : 0 .. 3, year : 0 .. Notices!YearOf(MaxDay)]
  BY DEF Notices!BoardHolds, Notices!TypeOK
<1>1. UNCHANGED <<s1, s2, s3, s4>>
  BY DEF Notices!Restart
<1>2. s5' = s5 \/ s5' = [pc |-> "idle", todo |-> <<>>, since |-> s5.since]
  BY DEF Notices!Restart, Notices!Idle
<1>3. (s6' = s6 /\ s6.pc = "done") \/ s6' = [pc |-> "idle", todo |-> <<>>, since |-> 0, phase |-> 0, year |-> 0]
  BY DEF Notices!Restart, Notices!IdleGeneration
<1>4. 0 \in 0 .. MaxDay /\ 0 \in 0 .. Notices!YearOf(MaxDay) /\ 0 \in 0 .. 3
  BY <1>0, NoticeYears, NoticeNumbers
<1>5. Notices!TypeOK'
  <2>1. s5' \in [pc : {"idle", "check", "create", "done"}, todo : Seq(Institutions \X Notices!Periods),
                 since : 0 .. MaxDay]
    <3>1. CASE s5' = s5
      BY <1>0, <3>1
    <3>2. CASE s5' = [pc |-> "idle", todo |-> <<>>, since |-> s5.since]
      <4>1. s5.since \in 0 .. MaxDay /\ <<>> \in Seq(Institutions \X Notices!Periods)
        BY <1>0
      <4>. QED  BY <3>2, <4>1
    <3>. QED  BY <1>2, <3>1, <3>2
  <2>2. s6' \in [pc : {"idle", "check", "create", "done"}, todo : Seq(Notices!Row),
                 since : 0 .. MaxDay, phase : 0 .. 3, year : 0 .. Notices!YearOf(MaxDay)]
    <3>1. CASE s6' = s6
      BY <1>0, <3>1
    <3>2. CASE s6' = [pc |-> "idle", todo |-> <<>>, since |-> 0, phase |-> 0, year |-> 0]
      <4>1. <<>> \in Seq(Notices!Row)
        OBVIOUS
      <4>. QED  BY <1>4, <3>2, <4>1
    <3>. QED  BY <1>3, <3>1, <3>2
  <2>. QED  BY <1>1, <2>1, <2>2 DEF Notices!BoardHolds, Notices!TypeOK
<1>6. Notices!NothingTwice'
  BY <1>1, BoardApart DEF Notices!BoardHolds
<1>7. Notices!Addressed'
  BY <1>1 DEF Notices!BoardHolds, Notices!Addressed
<1>8. Notices!NotToldYet'
  <2>1. s5'.pc = "create" => s5' = s5
    BY <1>2
  <2>2. s6'.pc # "create" /\ (s6' = s6 \/ DOMAIN s6'.todo = {})
    BY <1>3
  <2>. QED  BY <1>1, <2>1, <2>2 DEF Notices!BoardHolds, Notices!NotToldYet, Notices!AlreadyReminded
<1>9. Notices!ReachedOrToDo'
  <2>1. \A p, e : Notices!Told(p, e)' <=> Notices!Told(p, e)
    BY <1>1 DEF Notices!Told, Notices!ProviderSees
  <2>2. s5'.pc # "idle" => s5' = s5
    BY <1>2
  <2>. QED  BY <1>1, <2>1, <2>2 DEF Notices!BoardHolds, Notices!ReachedOrToDo
<1>. QED  BY <1>5, <1>6, <1>7, <1>8, <1>9 DEF Notices!BoardHolds

\* What stands when a notice is posted and the pass and the generation go on.
LEMMA BoardWritten ==
    ASSUME Notices!BoardHolds, UNCHANGED <<s1, s2, s3>>,
           NEW n \in Notices!Row, s4' = Append(s4, n), n.provider # "none" => n.user = "none",
           n.type = "SUBMISSION_OVERDUE" => ~Notices!AlreadyReminded(n.provider, n.entity),
           n.type \in Notices!GeneratedTypes => ~Notices!StandsUnread(n),
           s5' \in [pc : {"idle", "check", "create", "done"}, todo : Seq(Institutions \X Notices!Periods),
                    since : 0 .. MaxDay],
           s6' \in [pc : {"idle", "check", "create", "done"}, todo : Seq(Notices!Row),
                    since : 0 .. MaxDay, phase : 0 .. 3, year : 0 .. Notices!YearOf(MaxDay)],
           s5'.pc = "create" => s5' = s5 /\ n.type # "SUBMISSION_OVERDUE",
           s6'.pc = "create" => s6' = s6 /\ n.type \notin Notices!GeneratedTypes,
           \A i \in DOMAIN s6'.todo :
               s6'.todo[i].type \in Notices!GeneratedTypes /\ s6'.todo[i].provider = "none",
           s5'.pc # "idle" =>
               /\ s5.pc # "idle" /\ s5'.since = s5.since
               /\ \A p \in Institutions, period \in Notices!Periods :
                      s5.pc # "done" /\ (\E i \in DOMAIN s5.todo : s5.todo[i] = <<p, period>>) =>
                          \/ n.type = "SUBMISSION_OVERDUE" /\ n.provider = p /\ n.entity = period
                          \/ s5'.pc # "done" /\ \E i \in DOMAIN s5'.todo : s5'.todo[i] = <<p, period>>
    PROVE  Notices!BoardHolds'
<1>1. s4 \in Seq(Notices!Row) /\ Apart(s4) /\ Notices!Addressed
  BY BoardApart DEF Notices!BoardHolds, Notices!TypeOK
<1>2. /\ s4' \in Seq(Notices!Row) /\ Apart(s4') /\ Notices!Addressed'
      /\ \A p, e : Notices!Told(p, e) => Notices!Told(p, e)'
      /\ \A p, e : n.type = "SUBMISSION_OVERDUE" /\ n.provider = p /\ n.entity = e => Notices!Told(p, e)'
      /\ \A p, e : Notices!AlreadyReminded(p, e)' =>
            Notices!AlreadyReminded(p, e) \/ (n.type = "SUBMISSION_OVERDUE" /\ n.provider = p /\ n.entity = e)
      /\ \A a : Notices!StandsUnread(a)' =>
            Notices!StandsUnread(a) \/ (n.type = a.type /\ n.entity = a.entity)
  BY <1>1, BoardPosted
<1>3. Notices!TypeOK'
  BY <1>2 DEF Notices!BoardHolds, Notices!TypeOK
<1>4. Notices!NothingTwice'
  BY <1>2, BoardApart
<1>5. Notices!NotToldYet'
  <2>1. ASSUME s5'.pc = "create"
        PROVE  s5'.todo # <<>> /\ \A p, e : p = Head(s5'.todo)[1] /\ e = Head(s5'.todo)[2] => ~Notices!AlreadyReminded(p, e)'
    <3>1. s5' = s5 /\ s5.todo # <<>> /\ ~Notices!AlreadyReminded(Head(s5.todo)[1], Head(s5.todo)[2])
      BY <2>1 DEF Notices!BoardHolds, Notices!NotToldYet
    <3>2. n.type # "SUBMISSION_OVERDUE"
      BY <2>1
    <3>. QED  BY <1>2, <3>1, <3>2
  <2>2. ASSUME s6'.pc = "create"
        PROVE  s6'.todo # <<>> /\ \A a : a = Head(s6'.todo) => ~Notices!StandsUnread(a)'
    <3>1. s6' = s6 /\ s6.todo # <<>> /\ ~Notices!StandsUnread(Head(s6.todo))
      BY <2>2 DEF Notices!BoardHolds, Notices!NotToldYet
    <3>2. Head(s6.todo).type \in Notices!GeneratedTypes
      <4>1. s6.todo \in Seq(Notices!Row)
        BY DEF Notices!BoardHolds, Notices!TypeOK
      <4>2. \A i \in DOMAIN s6.todo : s6.todo[i].type \in Notices!GeneratedTypes /\ s6.todo[i].provider = "none"
        BY <3>1
      <4>. QED  BY <3>1, <4>1, <4>2, BoardTail
    <3>3. n.type \notin Notices!GeneratedTypes
      BY <2>2
    <3>. QED  BY <1>2, <3>1, <3>2, <3>3
  <2>. QED  BY <2>1, <2>2, ZenonT(60) DEF Notices!NotToldYet, Notices!None, Notices!AlreadyReminded, Notices!StandsUnread
<1>6. Notices!ReachedOrToDo'
  <2>. SUFFICES ASSUME s5'.pc # "idle", NEW p \in Institutions, NEW period \in Notices!Periods,
                       period.year = Notices!YearOf(s5'.since), s5'.since - Notices!Due(period) > 1
                PROVE  \/ period \in s2'[p] \/ Notices!Told(p, period)'
                       \/ s5'.pc # "done" /\ \E i \in DOMAIN s5'.todo : s5'.todo[i] = <<p, period>>
    BY DEF Notices!ReachedOrToDo
  <2>1. \/ period \in s2[p] \/ Notices!Told(p, period)
        \/ s5.pc # "done" /\ \E i \in DOMAIN s5.todo : s5.todo[i] = <<p, period>>
    BY DEF Notices!BoardHolds, Notices!ReachedOrToDo
  <2>2. CASE period \in s2[p]
    BY <2>2
  <2>3. CASE Notices!Told(p, period)
    BY <1>2, <2>3, Zenon
  <2>4. CASE s5.pc # "done" /\ \E i \in DOMAIN s5.todo : s5.todo[i] = <<p, period>>
    <3>1. \/ n.type = "SUBMISSION_OVERDUE" /\ n.provider = p /\ n.entity = period
          \/ s5'.pc # "done" /\ \E i \in DOMAIN s5'.todo : s5'.todo[i] = <<p, period>>
      BY <2>4
    <3>2. n.type = "SUBMISSION_OVERDUE" /\ n.provider = p /\ n.entity = period => Notices!Told(p, period)'
      BY <1>2, Zenon
    <3>. QED  BY <3>1, <3>2
  <2>. QED  BY <2>1, <2>2, <2>3, <2>4
<1>. QED  BY <1>2, <1>3, <1>4, <1>5, <1>6 DEF Notices!BoardHolds

LEMMA BoardPosts ==
    ASSUME Notices!BoardHolds,
           \/ Notices!PassCreate \/ Notices!GenerateCreate
           \/ \E p \in Institutions, period \in Notices!Periods : Notices!GrantResubmit(p, period)
           \/ \E c \in Matters, s \in Readers : Notices!CaseAssigned(c, s)
    PROVE  Notices!BoardHolds'
<1>0. /\ s4 \in Seq(Notices!Row)
      /\ s5 \in [pc : {"idle", "check", "create", "done"}, todo : Seq(Institutions \X Notices!Periods),
                 since : 0 .. MaxDay]
      /\ s6 \in [pc : {"idle", "check", "create", "done"}, todo : Seq(Notices!Row),
                 since : 0 .. MaxDay, phase : 0 .. 3, year : 0 .. Notices!YearOf(MaxDay)]
      /\ s5.todo \in Seq(Institutions \X Notices!Periods) /\ s6.todo \in Seq(Notices!Row)
  BY DEF Notices!BoardHolds, Notices!TypeOK
<1>1. \A i \in DOMAIN s6.todo : s6.todo[i].type \in Notices!GeneratedTypes /\ s6.todo[i].provider = "none"
  BY DEF Notices!BoardHolds, Notices!NotToldYet, Notices!None
<1>2. "SUBMISSION_OVERDUE" \notin Notices!GeneratedTypes
  BY DEF Notices!GeneratedTypes
<1>3. CASE Notices!PassCreate
  <2>0. s5.pc = "create" /\ UNCHANGED <<s1, s2, s3, s6>>
    BY <1>3 DEF Notices!PassCreate
  <2> DEFINE row == Head(s5.todo)
             n == Notices!ProviderNotice("SUBMISSION_OVERDUE", row[1], row[2])
  <2>1. s4' = Append(s4, n) /\ s5' = [s5 EXCEPT !.pc = "check", !.todo = Tail(s5.todo)]
    BY <1>0, <1>3 DEF Notices!PassCreate, Notices!Post
  <2>2. s5.todo # <<>> /\ ~Notices!AlreadyReminded(row[1], row[2])
    BY <2>0 DEF Notices!BoardHolds, Notices!NotToldYet
  <2>3. /\ row \in Institutions \X Notices!Periods
        /\ Tail(s5.todo) \in Seq(Institutions \X Notices!Periods)
        /\ Len(Tail(s5.todo)) = Len(s5.todo) - 1 /\ Len(s5.todo) \in Nat
        /\ \A i \in 1 .. Len(Tail(s5.todo)) : Tail(s5.todo)[i] = s5.todo[i + 1]
        /\ row = s5.todo[1]
    BY <1>0, <2>2, HeadTailProperties, LenProperties
  <2>4. DOMAIN s5.todo = 1 .. Len(s5.todo) /\ DOMAIN Tail(s5.todo) = 1 .. Len(Tail(s5.todo))
    BY <1>0, <2>3, LenProperties
  <2>5. n \in Notices!Row /\ n.type = "SUBMISSION_OVERDUE" /\ n.provider = row[1] /\ n.entity = row[2] /\ n.user = "none"
    BY <2>3 DEF Notices!ProviderNotice, Notices!Row, Notices!NoticeTypes, Notices!None
  <2>6. s5'.pc = "check" /\ s5'.since = s5.since /\ s5'.todo = Tail(s5.todo)
    BY <1>0, <2>1
  <2>7. s5' \in [pc : {"idle", "check", "create", "done"}, todo : Seq(Institutions \X Notices!Periods),
                 since : 0 .. MaxDay]
    BY <1>0, <2>1, <2>3
  <2>8. \A p \in Institutions, period \in Notices!Periods, i \in DOMAIN s5.todo :
            s5.todo[i] = <<p, period>> =>
                \/ row[1] = p /\ row[2] = period
                \/ \E j \in DOMAIN Tail(s5.todo) : Tail(s5.todo)[j] = <<p, period>>
    <3>. SUFFICES ASSUME NEW p \in Institutions, NEW period \in Notices!Periods, NEW i \in DOMAIN s5.todo,
                         s5.todo[i] = <<p, period>>
                  PROVE  \/ row[1] = p /\ row[2] = period
                         \/ \E j \in DOMAIN Tail(s5.todo) : Tail(s5.todo)[j] = <<p, period>>
      OBVIOUS
    <3>1. CASE i = 1
      BY <2>3, <3>1
    <3>2. CASE i # 1
      <4>1. i - 1 \in DOMAIN Tail(s5.todo) /\ Tail(s5.todo)[i - 1] = s5.todo[i]
        BY <2>3, <2>4, <3>2
      <4>. QED  BY <4>1
    <3>. QED  BY <3>1, <3>2
  <2>. HIDE DEF n, row
  <2>9. /\ s6' \in [pc : {"idle", "check", "create", "done"}, todo : Seq(Notices!Row),
                    since : 0 .. MaxDay, phase : 0 .. 3, year : 0 .. Notices!YearOf(MaxDay)]
        /\ s6'.pc = "create" => s6' = s6 /\ n.type \notin Notices!GeneratedTypes
        /\ \A i \in DOMAIN s6'.todo :
               s6'.todo[i].type \in Notices!GeneratedTypes /\ s6'.todo[i].provider = "none"
    BY <1>0, <1>1, <1>2, <2>0, <2>5
  <2>10. \A p \in Institutions, period \in Notices!Periods :
             s5.pc # "done" /\ (\E i \in DOMAIN s5.todo : s5.todo[i] = <<p, period>>) =>
                 \/ n.type = "SUBMISSION_OVERDUE" /\ n.provider = p /\ n.entity = period
                 \/ s5'.pc # "done" /\ \E i \in DOMAIN s5'.todo : s5'.todo[i] = <<p, period>>
    BY <2>5, <2>6, <2>8
  <2>11. /\ n.type = "SUBMISSION_OVERDUE" => ~Notices!AlreadyReminded(n.provider, n.entity)
         /\ n.type \in Notices!GeneratedTypes => ~Notices!StandsUnread(n)
         /\ n.provider # "none" => n.user = "none"
    BY <1>2, <2>2, <2>5
  <2>. QED  BY <2>0, <2>1, <2>5, <2>6, <2>7, <2>9, <2>10, <2>11, BoardWritten
<1>4. CASE Notices!GenerateCreate
  <2>0. s6.pc = "create" /\ UNCHANGED <<s1, s2, s3, s5>>
    BY <1>4 DEF Notices!GenerateCreate
  <2> DEFINE n == Head(s6.todo)
  <2>1. s4' = Append(s4, n) /\ s6' = [s6 EXCEPT !.pc = "check", !.todo = Tail(s6.todo)]
    BY <1>0, <1>4 DEF Notices!GenerateCreate, Notices!Post
  <2>2. s6.todo # <<>> /\ ~Notices!StandsUnread(n)
    BY <2>0 DEF Notices!BoardHolds, Notices!NotToldYet
  <2>3. /\ n \in Notices!Row /\ Tail(s6.todo) \in Seq(Notices!Row)
        /\ n.type \in Notices!GeneratedTypes /\ n.provider = "none"
        /\ \A i \in DOMAIN Tail(s6.todo) :
               Tail(s6.todo)[i].type \in Notices!GeneratedTypes /\ Tail(s6.todo)[i].provider = "none"
    BY <1>0, <1>1, <2>2, BoardTail
  <2>4. s6'.pc = "check" /\ s6'.todo = Tail(s6.todo)
    BY <1>0, <2>1
  <2>5. s6' \in [pc : {"idle", "check", "create", "done"}, todo : Seq(Notices!Row),
                 since : 0 .. MaxDay, phase : 0 .. 3, year : 0 .. Notices!YearOf(MaxDay)]
    BY <1>0, <2>1, <2>3
  <2>6. n.type # "SUBMISSION_OVERDUE"
    BY <1>2, <2>3
  <2>. HIDE DEF n
  <2>7. /\ s5'.pc = "create" => s5' = s5 /\ n.type # "SUBMISSION_OVERDUE"
        /\ s5'.pc # "idle" =>
               /\ s5.pc # "idle" /\ s5'.since = s5.since
               /\ \A p \in Institutions, period \in Notices!Periods :
                      s5.pc # "done" /\ (\E i \in DOMAIN s5.todo : s5.todo[i] = <<p, period>>) =>
                          s5'.pc # "done" /\ \E i \in DOMAIN s5'.todo : s5'.todo[i] = <<p, period>>
    BY <2>0, <2>6
  <2>. QED  BY <1>0, <2>0, <2>1, <2>2, <2>3, <2>4, <2>5, <2>6, <2>7, BoardWritten
<1>5. ASSUME NEW n \in Notices!Row, s4' = Append(s4, n), UNCHANGED <<s1, s2, s3, s5, s6>>,
             n.type # "SUBMISSION_OVERDUE", n.type \notin Notices!GeneratedTypes,
             n.provider # "none" => n.user = "none"
      PROVE  Notices!BoardHolds'
  <2>1. /\ s5'.pc = "create" => s5' = s5 /\ n.type # "SUBMISSION_OVERDUE"
        /\ s5'.pc # "idle" =>
               /\ s5.pc # "idle" /\ s5'.since = s5.since
               /\ \A p \in Institutions, period \in Notices!Periods :
                      s5.pc # "done" /\ (\E i \in DOMAIN s5.todo : s5.todo[i] = <<p, period>>) =>
                          s5'.pc # "done" /\ \E i \in DOMAIN s5'.todo : s5'.todo[i] = <<p, period>>
    BY <1>5
  <2>. QED  BY <1>0, <1>1, <1>5, <2>1, BoardWritten
<1>6. ASSUME NEW p \in Institutions, NEW period \in Notices!Periods, Notices!GrantResubmit(p, period)
      PROVE  Notices!BoardHolds'
  <2> DEFINE n == Notices!ProviderNotice("RESUBMIT_PERMISSION", p, period)
  <2>1. /\ n \in Notices!Row /\ n.type = "RESUBMIT_PERMISSION" /\ n.user = "none"
    BY DEF Notices!ProviderNotice, Notices!Row, Notices!NoticeTypes, Notices!None
  <2>2. s4' = Append(s4, n) /\ UNCHANGED <<s1, s2, s3, s5, s6>>
    BY <1>6 DEF Notices!GrantResubmit, Notices!Post
  <2>. HIDE DEF n
  <2>3. n.type # "SUBMISSION_OVERDUE" /\ n.type \notin Notices!GeneratedTypes
    BY <2>1 DEF Notices!GeneratedTypes
  <2>. QED  BY <1>5, <2>1, <2>2, <2>3
<1>7. ASSUME NEW c \in Matters, NEW s \in Readers, Notices!CaseAssigned(c, s)
      PROVE  Notices!BoardHolds'
  <2> DEFINE n == Notices!StaffNotice("CASE_ASSIGNED", c, "CASE_ASSIGNED", s)
  <2>1. /\ n \in Notices!Row /\ n.type = "CASE_ASSIGNED" /\ n.provider = "none"
    BY DEF Notices!StaffNotice, Notices!Row, Notices!NoticeTypes, Notices!None
  <2>2. s4' = Append(s4, n) /\ UNCHANGED <<s1, s2, s3, s5, s6>>
    BY <1>7 DEF Notices!CaseAssigned, Notices!Post
  <2>. HIDE DEF n
  <2>3. n.type # "SUBMISSION_OVERDUE" /\ n.type \notin Notices!GeneratedTypes
    BY <2>1 DEF Notices!GeneratedTypes
  <2>. QED  BY <1>5, <2>1, <2>2, <2>3
<1>. QED  BY <1>3, <1>4, <1>6, <1>7

LEMMA BoardReads ==
    ASSUME Notices!BoardHolds, NEW i \in 1 .. MaxNotices, Notices!MarkRead(i)
    PROVE  Notices!BoardHolds'
<1>1. i \in DOMAIN s4 /\ s4' = [s4 EXCEPT ![i].read = TRUE] /\ UNCHANGED <<s1, s2, s3, s5, s6>>
  BY DEF Notices!MarkRead
<1>2. s4 \in Seq(Notices!Row) /\ Apart(s4) /\ Notices!Addressed
  BY BoardApart DEF Notices!BoardHolds, Notices!TypeOK
<1>3. /\ s4' \in Seq(Notices!Row) /\ Apart(s4') /\ Notices!Addressed'
      /\ \A p, e : Notices!Told(p, e) => Notices!Told(p, e)'
      /\ \A p, e : Notices!AlreadyReminded(p, e)' => Notices!AlreadyReminded(p, e)
      /\ \A a : Notices!StandsUnread(a)' => Notices!StandsUnread(a)
  BY <1>1, <1>2, BoardMarked
<1>4. Notices!TypeOK'
  BY <1>1, <1>3 DEF Notices!BoardHolds, Notices!TypeOK
<1>5. Notices!NothingTwice'
  BY <1>3, BoardApart
<1>6. Notices!NotToldYet'
  <2>1. s5.pc = "create" =>
            s5.todo # <<>> /\ \A p, e : p = Head(s5.todo)[1] /\ e = Head(s5.todo)[2] => ~Notices!AlreadyReminded(p, e)'
    BY <1>3 DEF Notices!BoardHolds, Notices!NotToldYet
  <2>2. s6.pc = "create" => s6.todo # <<>> /\ \A a : a = Head(s6.todo) => ~Notices!StandsUnread(a)'
    BY <1>3 DEF Notices!BoardHolds, Notices!NotToldYet
  <2>3. \A d \in DOMAIN s6.todo : s6.todo[d].type \in Notices!GeneratedTypes /\ s6.todo[d].provider = Notices!None
    BY DEF Notices!BoardHolds, Notices!NotToldYet
  <2>. QED  BY <1>1, <2>1, <2>2, <2>3 DEF Notices!NotToldYet, Notices!AlreadyReminded, Notices!StandsUnread
<1>7. Notices!ReachedOrToDo'
  <2>. SUFFICES ASSUME s5.pc # "idle", NEW p \in Institutions, NEW period \in Notices!Periods,
                       period.year = Notices!YearOf(s5.since), s5.since - Notices!Due(period) > 1
                PROVE  \/ period \in s2[p] \/ Notices!Told(p, period)'
                       \/ s5.pc # "done" /\ \E d \in DOMAIN s5.todo : s5.todo[d] = <<p, period>>
    BY <1>1 DEF Notices!ReachedOrToDo
  <2>1. \/ period \in s2[p] \/ Notices!Told(p, period)
        \/ s5.pc # "done" /\ \E d \in DOMAIN s5.todo : s5.todo[d] = <<p, period>>
    BY DEF Notices!BoardHolds, Notices!ReachedOrToDo
  <2>. QED  BY <1>3, <2>1, Zenon
<1>. QED  BY <1>3, <1>4, <1>5, <1>6, <1>7 DEF Notices!BoardHolds

LEMMA BoardInit ==
    ASSUME Notices!Init PROVE Notices!BoardHolds
<1>1. /\ s1 = 0 /\ s2 = [p \in Institutions |-> {}] /\ s4 = <<>>
      /\ s3 = [c \in Matters |-> [status |-> "OPEN", objectionDueAt |-> 0, authorityResponseDueAt |-> 0]]
      /\ s5 = [pc |-> "idle", todo |-> <<>>, since |-> 0]
      /\ s6 = [pc |-> "idle", todo |-> <<>>, since |-> 0, phase |-> 0, year |-> 0]
  BY DEF Notices!Init, Notices!Idle, Notices!IdleGeneration
<1>2. 0 \in 0 .. MaxDay /\ 0 \in 0 .. Notices!YearOf(MaxDay) /\ 0 \in 0 .. 3
  BY NoticeYears, NoticeNumbers
<1>3. DOMAIN s4 = {} /\ DOMAIN s6.todo = {} /\ s5.pc = "idle" /\ s6.pc = "idle"
  BY <1>1
<1>4. Notices!TypeOK
  <2>1. s2 \in [Institutions -> SUBSET Notices!Periods] /\ s4 \in Seq(Notices!Row)
    BY <1>1
  <2>2. s3 \in [Matters -> [status : {"OPEN", "NOTICE_ISSUED", "OBJECTION", "ASSESSED"},
                            objectionDueAt : Nat, authorityResponseDueAt : Nat]]
    BY <1>1
  <2>3. <<>> \in Seq(Institutions \X Notices!Periods) /\ <<>> \in Seq(Notices!Row)
    OBVIOUS
  <2>4. s5 \in [pc : {"idle", "check", "create", "done"}, todo : Seq(Institutions \X Notices!Periods),
                since : 0 .. MaxDay]
    BY <1>1, <1>2, <2>3
  <2>5. s6 \in [pc : {"idle", "check", "create", "done"}, todo : Seq(Notices!Row),
                since : 0 .. MaxDay, phase : 0 .. 3, year : 0 .. Notices!YearOf(MaxDay)]
    BY <1>1, <1>2, <2>3
  <2>. QED  BY <1>1, <1>2, <2>1, <2>2, <2>4, <2>5 DEF Notices!TypeOK
<1>5. Notices!NothingTwice
  BY <1>3, BoardApart DEF Apart
<1>6. Notices!NotToldYet /\ Notices!Addressed /\ Notices!ReachedOrToDo
  BY <1>3 DEF Notices!NotToldYet, Notices!Addressed, Notices!ReachedOrToDo
<1>. QED  BY <1>4, <1>5, <1>6 DEF Notices!BoardHolds

LEMMA BoardStutters ==
    ASSUME Notices!BoardHolds, UNCHANGED <<s1, s2, s3, s4, s5, s6>> PROVE Notices!BoardHolds'
<1>1. /\ s1 \in 0 .. MaxDay /\ s2 \in [Institutions -> SUBSET Notices!Periods]
      /\ s3 \in [Matters -> [status : {"OPEN", "NOTICE_ISSUED", "OBJECTION", "ASSESSED"},
                             objectionDueAt : Nat, authorityResponseDueAt : Nat]]
  BY DEF Notices!BoardHolds, Notices!TypeOK
<1>. QED  BY <1>1, BoardStays

\* What the rest of the system does besides leaves the notices alone.
LEMMA BoardWorld ==
    ASSUME Notices!BoardHolds,
           \/ Notices!Sleep
           \/ \E p \in Institutions, period \in Notices!Periods : Notices!File(p, period)
           \/ \E c \in Matters : Notices!IssueNotice(c) \/ Notices!Object(c) \/ Notices!Decide(c)
    PROVE  Notices!BoardHolds'
<1>1. /\ s1 \in 0 .. MaxDay /\ s2 \in [Institutions -> SUBSET Notices!Periods]
      /\ s3 \in [Matters -> [status : {"OPEN", "NOTICE_ISSUED", "OBJECTION", "ASSESSED"},
                             objectionDueAt : Nat, authorityResponseDueAt : Nat]]
  BY DEF Notices!BoardHolds, Notices!TypeOK
<1>2. s1 \in Nat /\ MaxDay \in Nat /\ Horizon \in Nat /\ s1 + Horizon \in Nat
  BY <1>1, NoticeNumbers
<1>3. UNCHANGED <<s4, s5, s6>>
  BY DEF Notices!Sleep, Notices!File, Notices!IssueNotice, Notices!Object, Notices!Decide
<1>4. CASE Notices!Sleep
  <2>1. s1 < MaxDay /\ s1' = s1 + 1 /\ UNCHANGED <<s2, s3>>
    BY <1>4 DEF Notices!Sleep
  <2>2. s1' \in 0 .. MaxDay
    BY <1>2, <2>1
  <2>. QED  BY <1>1, <1>3, <2>1, <2>2, BoardStays
<1>5. ASSUME NEW p \in Institutions, NEW period \in Notices!Periods, Notices!File(p, period)
      PROVE  Notices!BoardHolds'
  <2>1. s2' = [s2 EXCEPT ![p] = s2[p] \cup {period}] /\ UNCHANGED <<s1, s3>>
    BY <1>5 DEF Notices!File
  <2>2. s2' \in [Institutions -> SUBSET Notices!Periods] /\ \A q \in Institutions : s2[q] \subseteq s2'[q]
    BY <1>1, <2>1
  <2>. QED  BY <1>1, <1>3, <2>1, <2>2, BoardStays
<1>6. ASSUME NEW c \in Matters, Notices!IssueNotice(c) \/ Notices!Object(c) \/ Notices!Decide(c)
      PROVE  Notices!BoardHolds'
  <2>1. UNCHANGED <<s1, s2>>
    BY <1>6 DEF Notices!IssueNotice, Notices!Object, Notices!Decide
  <2>2. s3' \in [Matters -> [status : {"OPEN", "NOTICE_ISSUED", "OBJECTION", "ASSESSED"},
                             objectionDueAt : Nat, authorityResponseDueAt : Nat]]
    <3>1. CASE Notices!IssueNotice(c)
      BY <1>1, <1>2, <3>1 DEF Notices!IssueNotice
    <3>2. CASE Notices!Object(c)
      BY <1>1, <1>2, <3>2 DEF Notices!Object
    <3>3. CASE Notices!Decide(c)
      BY <1>1, <3>3 DEF Notices!Decide
    <3>. QED  BY <1>6, <3>1, <3>2, <3>3
  <2>. QED  BY <1>1, <1>3, <2>1, <2>2, BoardStays
<1>. QED  BY <1>4, <1>5, <1>6

LEMMA BoardStep ==
    ASSUME Notices!BoardHolds, Notices!Reminders \/ Notices!Alerting PROVE Notices!BoardHolds'
<1>1. CASE Notices!PassStart \/ Notices!PassCheck \/ Notices!PassEnd
  BY <1>1, BoardPasses
<1>2. CASE Notices!Restart
  BY <1>2, BoardRestarts
<1>3. CASE \/ Notices!Sleep
           \/ \E p \in Institutions, period \in Notices!Periods : Notices!File(p, period)
           \/ \E c \in Matters : Notices!IssueNotice(c) \/ Notices!Object(c) \/ Notices!Decide(c)
  BY <1>3, BoardWorld
<1>4. CASE \/ Notices!PassCreate \/ Notices!GenerateCreate
           \/ \E p \in Institutions, period \in Notices!Periods : Notices!GrantResubmit(p, period)
           \/ \E c \in Matters, s \in Readers : Notices!CaseAssigned(c, s)
  BY <1>4, BoardPosts
<1>5. CASE \/ \E year \in 0 .. Notices!YearOf(MaxDay) : Notices!GenerateStart(year)
           \/ Notices!GenerateCheck \/ Notices!GenerateTurn
  BY <1>5, BoardGenerates
<1>6. CASE \E i \in 1 .. MaxNotices : Notices!MarkRead(i)
  BY <1>6, BoardReads
<1>. QED  BY <1>1, <1>2, <1>3, <1>4, <1>5, <1>6 DEF Notices!Reminders, Notices!Alerting

LEMMA BoardFollows ==
    ASSUME Notices!BoardHolds
    PROVE  Notices!NothingTwice /\ Notices!OneAudience /\ Notices!PassReachesAll
<1>1. s4 \in Seq(Notices!Row)
  BY DEF Notices!BoardHolds, Notices!TypeOK
<1>2. ASSUME NEW i \in DOMAIN s4
      PROVE  LET officers == {s \in Readers : Notices!StaffSees(s, s4[i])}
                 institutions == {p \in Institutions : Notices!ProviderSees(p, s4[i])}
             IN  \/ officers = {} /\ Notices!Cardinality(institutions) = 1
                 \/ officers # {} /\ institutions = {}
  <2> DEFINE n == s4[i]
             officers == {s \in Readers : Notices!StaffSees(s, n)}
             institutions == {p \in Institutions : Notices!ProviderSees(p, n)}
  <2>1. n \in Notices!Row
    BY <1>1, LenProperties, ElementOfSeq
  <2>2. n.provider \in Institutions \cup {"none"} /\ n.user \in Readers \cup {"none"}
    BY <2>1 DEF Notices!Row, Notices!None
  <2>3. CASE n.provider = "none"
    <3>1. institutions = {}
      BY <2>3, NoticeNumbers DEF Notices!ProviderSees
    <3>2. officers # {}
      <4>1. \A s \in Readers : n.user \in {"none", s} => s \in officers
        BY <2>3 DEF Notices!StaffSees, Notices!None
      <4>. QED  BY <2>2, <4>1, NoticeNumbers
    <3>. QED  BY <3>1, <3>2
  <2>4. CASE n.provider \in Institutions
    <3>1. officers = {}
      BY <2>4, NoticeNumbers DEF Notices!StaffSees, Notices!None
    <3>2. institutions = {n.provider}
      BY <2>4 DEF Notices!ProviderSees
    <3>3. Cardinality({n.provider}) = 1
      BY FS_Singleton
    <3>4. Notices!Cardinality({n.provider}) = Cardinality({n.provider})
      BY DEF Notices!Cardinality, Cardinality, Notices!IsFiniteSet, IsFiniteSet
    <3>. QED  BY <3>1, <3>2, <3>3, <3>4
  <2>. QED  BY <2>2, <2>3, <2>4
<1>3. Notices!OneAudience
  BY <1>2 DEF Notices!OneAudience
<1>4. Notices!PassReachesAll
  BY DEF Notices!BoardHolds, Notices!ReachedOrToDo, Notices!PassReachesAll
<1>. QED  BY <1>3, <1>4 DEF Notices!BoardHolds

-----------------------------------------------------------------------------
(* Declarations, payments and registrations.                                   *)

LEMMA TaxNumbers ==
    /\ Batches \subseteq Seq([nin : Taxpayers \cup {"none", "unknown"},
                             rc : Taxpayers \cup {"none", "unknown"}, sound : BOOLEAN, amount : Int])
    /\ <<>> \notin Batches /\ Largest \in Int /\ Amounts \subseteq Int
    /\ IsFiniteSet(Employers) /\ Employers \subseteq Taxpayers
    /\ Official \in BOOLEAN /\ MaxPayments \in Nat
<1>1. \A S : Tax!IsFiniteSet(S) = IsFiniteSet(S)
  BY DEF Tax!IsFiniteSet, IsFiniteSet
<1>. QED  BY <1>1, DeskAssumption DEF Tax!TaxAssumption

\* What each of the three parts says of its own variables.
Declared ==
    /\ s1 \in [Taxpayers -> Int]
    /\ s2 \in [file : Tax!Files, phase : {"choose", "previewed", "done"}, preview : Tax!Counts,
               of : Tax!Files, result : Tax!Counts]
    /\ s3 \in [Tax!Slots -> Tax!Import]
    /\ s8 \in BOOLEAN /\ s9 \in BOOLEAN

PayRow  == [t : Taxpayers, amount : Amounts]
Pushes  == {Tax!Idle} \cup [pc : {"write"}, t : Taxpayers, amount : Amounts, i : Nat]
Paid ==
    /\ s4 \in Seq(PayRow) /\ s5 \in [{1, 2} -> Pushes]
    /\ s10 \in [Taxpayers -> Int] /\ s11 \subseteq Taxpayers

PayeRow == [status : {"UNKNOWN", "REGISTERED", "NOT_REGISTERED"}, number : {"none", "provisional", "official"}]
Asks    == {Tax!Idle} \cup [pc : {"look", "ask", "write"}, queue : Seq(Employers)]
Registered ==
    /\ s6 \in [Taxpayers -> PayeRow] /\ s7 \in [Hands -> Asks] /\ s12 \in [Taxpayers -> Nat]

LEMMA TaxTypes ==
    /\ Tax!TypeOK <=> Declared /\ Paid /\ Registered
    /\ Tax!TypeOK' <=> Declared' /\ Paid' /\ Registered'
<1>1. Tax!TypeOK <=> Declared /\ Paid /\ Registered
  BY DEF Tax!TypeOK, Declared, Paid, Registered, PayRow, Pushes, PayeRow, Asks
<1>2. Tax!TypeOK' <=> Declared' /\ Paid' /\ Registered'
  BY DEF Tax!TypeOK, Declared, Paid, Registered, PayRow, Pushes, PayeRow, Asks
<1>. QED  BY <1>1, <1>2

LEMMA DeclaredStays ==
    ASSUME Declared, UNCHANGED <<s1, s2, s3, s8, s9>> PROVE Declared'
  BY DEF Declared

LEMMA PaidStays ==
    ASSUME Paid, UNCHANGED <<s4, s5, s10, s11>> PROVE Paid'
  BY DEF Paid

LEMMA RegisteredStays ==
    ASSUME Registered, UNCHANGED <<s6, s7, s12>> PROVE Registered'
  BY DEF Registered

LEMMA TaxInTurn ==
    ASSUME NEW S, IsFiniteSet(S)
    PROVE  /\ Tax!SetToSeq(S) \in Seq(S)
           /\ \A x \in S : \E i \in DOMAIN Tax!SetToSeq(S) : Tax!SetToSeq(S)[i] = x
<1>1. Tax!Cardinality(S) = Cardinality(S)
  BY DEF Tax!Cardinality, Cardinality, Tax!IsFiniteSet, IsFiniteSet
<1>2. Tax!SetToSeq(S) = CHOOSE f \in [1 .. Cardinality(S) -> S] : \A a, b \in DOMAIN f : a # b => f[a] # f[b]
  BY <1>1 DEF Tax!SetToSeq, Tax!IsInjective
<1>3. /\ Tax!SetToSeq(S) \in [1 .. Cardinality(S) -> S]
      /\ \A a, b \in DOMAIN Tax!SetToSeq(S) : a # b => Tax!SetToSeq(S)[a] # Tax!SetToSeq(S)[b]
  BY <1>2, LaidOut, Zenon
<1>4. Cardinality(S) \in Nat
  BY LaidOut
<1>5. Tax!SetToSeq(S) \in Seq(S)
  BY <1>3, <1>4
<1>6. \A x \in S : \E i \in DOMAIN Tax!SetToSeq(S) : Tax!SetToSeq(S)[i] = x
  BY <1>3, LaidOut, ZenonT(60)
<1>. QED  BY <1>5, <1>6

LEMMA TaxInit ==
    ASSUME Tax!Init PROVE Tax!TypeOK
<1>1. Declared
  <2>1. /\ s1 = [t \in Taxpayers |-> Tax!None] /\ s3 = [s \in Tax!Slots |-> Tax!NoImport]
        /\ s2 = [file |-> <<>>, phase |-> "choose", preview |-> Tax!NoCounts, of |-> <<>>, result |-> Tax!NoCounts]
        /\ s8 = FALSE /\ s9 = FALSE
    BY DEF Tax!Init
  <2>2. Tax!NoCounts \in Tax!Counts
    BY DEF Tax!NoCounts, Tax!Counts
  <2>3. <<>> \in Tax!Files
    BY DEF Tax!Files
  <2>4. Tax!NoImport \in Tax!Import
    BY <2>2, <2>3 DEF Tax!NoImport, Tax!Import
  <2>5. s2 \in [file : Tax!Files, phase : {"choose", "previewed", "done"}, preview : Tax!Counts,
                of : Tax!Files, result : Tax!Counts]
    BY <2>1, <2>2, <2>3
  <2>6. s1 \in [Taxpayers -> Int]
    BY <2>1 DEF Tax!None
  <2>7. s3 \in [Tax!Slots -> Tax!Import]
    BY <2>1, <2>4
  <2>. QED  BY <2>1, <2>5, <2>6, <2>7 DEF Declared
<1>2. Paid
  <2>1. s4 = <<>> /\ s5 = [s \in {1, 2} |-> Tax!Idle] /\ s10 = [t \in Taxpayers |-> Tax!None] /\ s11 = {}
    BY DEF Tax!Init
  <2>. QED  BY <2>1 DEF Paid, Pushes, Tax!None
<1>3. Registered
  <2>1. /\ s6 = [t \in Taxpayers |-> [status |-> "UNKNOWN", number |-> "none"]]
        /\ s7 = [o \in Hands |-> Tax!Idle] /\ s12 = [t \in Taxpayers |-> 0]
    BY DEF Tax!Init
  <2>. QED  BY <2>1 DEF Registered, PayeRow, Asks
<1>. QED  BY <1>1, <1>2, <1>3, TaxTypes

-----------------------------------------------------------------------------
(* Registrations.                                                              *)

LEMMA AsksOf ==
    ASSUME NEW r \in Asks
    PROVE  /\ r.pc \in {"idle", "look", "ask", "write"}
           /\ r.pc # "idle" => r.queue \in Seq(Employers) /\ r = [pc |-> r.pc, queue |-> r.queue]
<1>1. CASE r = Tax!Idle
  BY <1>1 DEF Tax!Idle
<1>2. CASE r \in [pc : {"look", "ask", "write"}, queue : Seq(Employers)]
  BY <1>2
<1>. QED  BY <1>1, <1>2 DEF Asks

\* The rest of the queue, once its first is dealt with.
LEMMA AsksAfter ==
    ASSUME NEW o \in Hands, Registered, s7[o].pc # "idle", s7[o].queue # <<>>
    PROVE  /\ Tax!After(o) \in Asks /\ Tax!After(o).pc \in {"idle", "look"}
           /\ Tax!After(o).pc # "idle" => Tax!After(o).queue # <<>>
           /\ Head(s7[o].queue) \in Taxpayers
<1>1. s7[o] \in Asks
  BY DEF Registered
<1>2. s7[o].queue \in Seq(Employers)
  BY <1>1, AsksOf
<1>3. /\ Head(s7[o].queue) \in Employers /\ Tail(s7[o].queue) \in Seq(Employers)
      /\ Len(Tail(s7[o].queue)) = Len(s7[o].queue) - 1
  BY <1>2, HeadTailProperties
<1>4. CASE Len(s7[o].queue) = 1
  BY <1>3, <1>4, TaxNumbers DEF Tax!After, Tax!Idle, Asks
<1>5. CASE Len(s7[o].queue) # 1
  <2>1. Len(Tail(s7[o].queue)) # 0
    BY <1>2, <1>3, <1>5, LenProperties
  <2>2. Tail(s7[o].queue) # <<>>
    BY <2>1, EmptySeq
  <2>3. Tax!After(o) = [pc |-> "look", queue |-> Tail(s7[o].queue)]
    BY <1>5 DEF Tax!After
  <2>. QED  BY <1>3, <2>2, <2>3, TaxNumbers DEF Asks
<1>. QED  BY <1>4, <1>5

\* One request moves; the rest of what stands.
LEMMA RegistrationMoves ==
    ASSUME Tax!RegistrationsHold, NEW o \in Hands, NEW r \in Asks, s7' = [s7 EXCEPT ![o] = r],
           r.pc # "idle" => r.queue # <<>>, s6' \in [Taxpayers -> PayeRow], s12' \in [Taxpayers -> Nat],
           UNCHANGED <<s1, s2, s3, s4, s5, s8, s9, s10, s11>>, Tax!OneAtATime'
    PROVE  Tax!RegistrationsHold'
<1>1. Declared /\ Paid /\ Registered /\ \A q \in Hands : s7[q].pc # "idle" => s7[q].queue # <<>>
  BY TaxTypes DEF Tax!RegistrationsHold
<1>2. /\ s7' \in [Hands -> Asks]
      /\ \A q \in Hands : s7'[q].pc # "idle" => s7'[q].queue # <<>>
  BY <1>1 DEF Registered
<1>3. Declared' /\ Paid'
  BY <1>1, DeclaredStays, PaidStays
<1>4. Registered'
  BY <1>2 DEF Registered
<1>. QED  BY <1>2, <1>3, <1>4, TaxTypes DEF Tax!RegistrationsHold

\* Who is asked for once: what the steps below rest on.
LEMMA AskedOnce ==
    ASSUME Tax!RegistrationsHold, ~overlapped, NEW t \in Taxpayers
    PROVE  /\ s12[t] \in Nat /\ s12[t] <= 1
           /\ \A o, q \in Hands : Tax!Asking(o, t) /\ Tax!Asking(q, t) => o = q
           /\ \A o \in Hands : Tax!Asking(o, t) /\ s7[o].pc = "ask" => s12[t] = 0
           /\ s6[t].status # "REGISTERED" /\ (\A o \in Hands : ~Tax!Asking(o, t)) => s12[t] = 0
<1>1. Registered
  BY TaxTypes DEF Tax!RegistrationsHold
<1>. QED  BY <1>1 DEF Tax!RegistrationsHold, Tax!OneAtATime, Registered

LEMMA RegistrationSet ==
    ASSUME Tax!RegistrationsHold,
           NEW t \in Taxpayers, NEW status \in {"REGISTERED", "NOT_REGISTERED"}, NEW n \in {"none", "official"},
           Tax!SetStatus(t, status, n)
    PROVE  Tax!RegistrationsHold'
<1>1. Declared /\ Paid /\ Registered
  BY TaxTypes DEF Tax!RegistrationsHold
<1>2. /\ s6' = [s6 EXCEPT ![t] = [status |-> status, number |-> IF n = "none" THEN s6[t].number ELSE n]]
      /\ s12' = IF status = "REGISTERED" THEN s12 ELSE [s12 EXCEPT ![t] = 0]
      /\ UNCHANGED <<s7, s1, s2, s3, s8, s9, s4, s5, s10, s11>>
  BY <1>1 DEF Tax!SetStatus, Tax!decl, Tax!pays, Registered
<1>3. ~overlapped' => ~overlapped /\ \A o \in Hands : ~Tax!Asking(o, t)
  BY DEF Tax!SetStatus, Tax!Asking
<1>4. s6' \in [Taxpayers -> PayeRow] /\ s12' \in [Taxpayers -> Nat]
  <2>1. [status |-> status, number |-> IF n = "none" THEN s6[t].number ELSE n] \in PayeRow
    BY <1>1 DEF Registered, PayeRow
  <2>. QED  BY <1>1, <1>2, <2>1 DEF Registered
<1>5. \A o \in Hands : \A u : Tax!Asking(o, u)' <=> Tax!Asking(o, u)
  BY <1>2 DEF Tax!Asking
<1>6. Tax!OneAtATime'
  <2>. SUFFICES ASSUME ~overlapped', NEW u \in Taxpayers
                PROVE  /\ s12'[u] <= 1
                       /\ \A o, q \in Hands : Tax!Asking(o, u) /\ Tax!Asking(q, u) => o = q
                       /\ \A o \in Hands : Tax!Asking(o, u) /\ s7[o].pc = "ask" => s12'[u] = 0
                       /\ s6'[u].status # "REGISTERED" /\ (\A o \in Hands : ~Tax!Asking(o, u)) => s12'[u] = 0
    BY <1>2, <1>5 DEF Tax!OneAtATime
  <2>1. /\ s12[u] \in Nat /\ s12[u] <= 1
        /\ \A o, q \in Hands : Tax!Asking(o, u) /\ Tax!Asking(q, u) => o = q
        /\ \A o \in Hands : Tax!Asking(o, u) /\ s7[o].pc = "ask" => s12[u] = 0
        /\ s6[u].status # "REGISTERED" /\ (\A o \in Hands : ~Tax!Asking(o, u)) => s12[u] = 0
    BY <1>3, AskedOnce
  <2>2. CASE u = t
    <3>1. s6'[t].status = status /\ s12'[t] = IF status = "REGISTERED" THEN s12[t] ELSE 0
      BY <1>1, <1>2 DEF Registered
    <3>. QED  BY <1>3, <2>1, <2>2, <3>1
  <2>3. CASE u # t
    <3>1. s6'[u] = s6[u] /\ s12'[u] = s12[u]
      BY <1>1, <1>2, <2>3 DEF Registered
    <3>. QED  BY <2>1, <3>1
  <2>. QED  BY <2>2, <2>3
<1>7. Declared' /\ Paid'
  BY <1>1, <1>2, DeclaredStays, PaidStays
<1>8. Registered'
  BY <1>1, <1>2, <1>4 DEF Registered
<1>. QED  BY <1>2, <1>6, <1>7, <1>8, TaxTypes DEF Tax!RegistrationsHold

\* What is filed and what stands is left as it is, and nobody begins to ask.
LEMMA AskedLess ==
    ASSUME Tax!RegistrationsHold, NEW o \in Hands, NEW r \in Asks, s7' = [s7 EXCEPT ![o] = r],
           r.pc \notin {"ask", "write"}, s12' = s12,
           ~overlapped' => /\ ~overlapped
                           /\ \A t \in Taxpayers : s6'[t].status = "REGISTERED" \/ s6'[t].status = s6[t].status
                           /\ \A t \in Taxpayers : Tax!Asking(o, t) =>
                                  s7[o].pc = "ask" \/ s6'[t].status = "REGISTERED"
    PROVE  Tax!OneAtATime'
<1>1. Registered
  BY TaxTypes DEF Tax!RegistrationsHold
<1>2. \A q \in Hands : s7'[q] = IF q = o THEN r ELSE s7[q]
  BY <1>1 DEF Registered
<1>3. \A q \in Hands : \A u : Tax!Asking(q, u)' => q # o /\ Tax!Asking(q, u)
  BY <1>2 DEF Tax!Asking
<1>4. \A q \in Hands : \A u : Tax!Asking(q, u) /\ q # o => Tax!Asking(q, u)'
  BY <1>2 DEF Tax!Asking
<1>. SUFFICES ASSUME ~overlapped', NEW u \in Taxpayers
              PROVE  /\ s12'[u] <= 1
                     /\ \A p, q \in Hands : Tax!Asking(p, u)' /\ Tax!Asking(q, u)' => p = q
                     /\ \A q \in Hands : Tax!Asking(q, u)' /\ s7'[q].pc = "ask" => s12'[u] = 0
                     /\ s6'[u].status # "REGISTERED" /\ (\A q \in Hands : ~Tax!Asking(q, u)') => s12'[u] = 0
  BY DEF Tax!OneAtATime
<1>5. /\ s12[u] \in Nat /\ s12[u] <= 1
      /\ \A p, q \in Hands : Tax!Asking(p, u) /\ Tax!Asking(q, u) => p = q
      /\ \A q \in Hands : Tax!Asking(q, u) /\ s7[q].pc = "ask" => s12[u] = 0
      /\ s6[u].status # "REGISTERED" /\ (\A q \in Hands : ~Tax!Asking(q, u)) => s12[u] = 0
  BY AskedOnce
<1>6. \A q \in Hands : Tax!Asking(q, u)' /\ s7'[q].pc = "ask" => s12'[u] = 0
  BY <1>2, <1>3, <1>5
<1>7. ASSUME s6'[u].status # "REGISTERED", \A q \in Hands : ~Tax!Asking(q, u)' PROVE s12'[u] = 0
  <2>1. s6[u].status # "REGISTERED" /\ (Tax!Asking(o, u) => s7[o].pc = "ask")
    BY <1>7
  <2>2. \A q \in Hands : Tax!Asking(q, u) => q = o
    BY <1>4, <1>7
  <2>3. CASE Tax!Asking(o, u)
    BY <1>5, <2>1, <2>3
  <2>4. CASE ~Tax!Asking(o, u)
    BY <1>5, <2>1, <2>2, <2>4
  <2>. QED  BY <2>3, <2>4
<1>. QED  BY <1>3, <1>5, <1>6, <1>7

LEMMA RegistrationBegins ==
    ASSUME Tax!RegistrationsHold, NEW o \in Hands, NEW queue \in Seq(Employers), queue # <<>>,
           Tax!Register(o, queue)
    PROVE  Tax!RegistrationsHold'
<1>1. Registered
  BY TaxTypes DEF Tax!RegistrationsHold
<1> DEFINE r == [pc |-> "look", queue |-> queue]
<1>2. /\ s7[o].pc = "idle" /\ s7' = [s7 EXCEPT ![o] = r]
      /\ UNCHANGED <<s6, s12, s1, s2, s3, s8, s9, s4, s5, s10, s11, overlapped>>
  BY DEF Tax!Register, Tax!decl, Tax!pays
<1>3. r \in Asks /\ r.pc = "look" /\ r.queue # <<>>
  BY DEF Asks
<1>. HIDE DEF r
<1>4. s6' \in [Taxpayers -> PayeRow] /\ s12' \in [Taxpayers -> Nat]
  BY <1>1, <1>2 DEF Registered
<1>5. \A t : ~Tax!Asking(o, t)
  BY <1>2 DEF Tax!Asking
<1>6. Tax!OneAtATime'
  BY <1>2, <1>3, <1>5, AskedLess
<1>. QED  BY <1>2, <1>3, <1>4, <1>6, RegistrationMoves

LEMMA RegistrationLooks ==
    ASSUME Tax!RegistrationsHold, NEW o \in Hands, Tax!RegLook(o)
    PROVE  Tax!RegistrationsHold'
<1>1. Registered /\ \A q \in Hands : s7[q].pc # "idle" => s7[q].queue # <<>>
  BY TaxTypes DEF Tax!RegistrationsHold
<1> DEFINE t == Head(s7[o].queue)
<1>2. /\ s7[o].pc = "look"
      /\ s7' = [s7 EXCEPT ![o] = IF t \in Employers /\ Tax!MayRegister(t) THEN [s7[o] EXCEPT !.pc = "ask"]
                                 ELSE Tax!After(o)]
      /\ UNCHANGED <<s6, s12, s1, s2, s3, s8, s9, s4, s5, s10, s11>>
  BY <1>1 DEF Tax!RegLook, Tax!decl, Tax!pays, Registered
<1>3. ~overlapped' => ~overlapped /\ \A q \in Hands \ {o} : ~Tax!Asking(q, t)
  BY DEF Tax!RegLook, Tax!Asking
<1>4. /\ Tax!After(o) \in Asks /\ Tax!After(o).pc \in {"idle", "look"}
      /\ Tax!After(o).pc # "idle" => Tax!After(o).queue # <<>>
      /\ t \in Taxpayers
  BY <1>1, <1>2, AsksAfter
<1>5. s7[o] \in Asks /\ s7[o].queue \in Seq(Employers) /\ s7[o] = [pc |-> "look", queue |-> s7[o].queue]
  BY <1>1, <1>2, AsksOf DEF Registered
<1>6. s6' \in [Taxpayers -> PayeRow] /\ s12' \in [Taxpayers -> Nat]
  BY <1>1, <1>2 DEF Registered
<1>7. CASE t \in Employers /\ Tax!MayRegister(t)
  <2> DEFINE r == [pc |-> "ask", queue |-> s7[o].queue]
  <2>1. s7' = [s7 EXCEPT ![o] = r]
    <3>1. [s7[o] EXCEPT !.pc = "ask"] = r
      <4>1. PICK Q : s7[o] = [pc |-> "look", queue |-> Q]
        BY <1>5
      <4>. QED  BY <4>1
    <3>2. s7' = [s7 EXCEPT ![o] = [s7[o] EXCEPT !.pc = "ask"]]
      BY <1>2, <1>7
    <3>. QED  BY <3>1, <3>2
  <2>2. r \in Asks /\ r.pc = "ask" /\ r.queue # <<>> /\ Head(r.queue) = t
    BY <1>1, <1>2, <1>5 DEF Asks
  <2>. HIDE DEF r, t
  <2>3. \A q \in Hands : s7'[q] = IF q = o THEN r ELSE s7[q]
    BY <1>1, <2>1 DEF Registered
  <2>4. \A q \in Hands : \A u : Tax!Asking(q, u)' => (q = o /\ u = t) \/ (q # o /\ Tax!Asking(q, u))
    BY <2>2, <2>3 DEF Tax!Asking
  <2>5. \A q \in Hands : \A u : Tax!Asking(q, u) => q # o /\ Tax!Asking(q, u)'
    BY <1>2, <2>3 DEF Tax!Asking
  <2>6. Tax!OneAtATime'
    <3>. SUFFICES ASSUME ~overlapped', NEW u \in Taxpayers
                  PROVE  /\ s12'[u] <= 1
                         /\ \A p, q \in Hands : Tax!Asking(p, u)' /\ Tax!Asking(q, u)' => p = q
                         /\ \A q \in Hands : Tax!Asking(q, u)' /\ s7'[q].pc = "ask" => s12'[u] = 0
                         /\ s6'[u].status # "REGISTERED" /\ (\A q \in Hands : ~Tax!Asking(q, u)') => s12'[u] = 0
      BY DEF Tax!OneAtATime
    <3>1. /\ s12[u] \in Nat /\ s12[u] <= 1
          /\ \A p, q \in Hands : Tax!Asking(p, u) /\ Tax!Asking(q, u) => p = q
          /\ \A q \in Hands : Tax!Asking(q, u) /\ s7[q].pc = "ask" => s12[u] = 0
          /\ s6[u].status # "REGISTERED" /\ (\A q \in Hands : ~Tax!Asking(q, u)) => s12[u] = 0
      BY <1>3, AskedOnce
    <3>2. \A p, q \in Hands : Tax!Asking(p, u)' /\ Tax!Asking(q, u)' => p = q
      BY <1>3, <2>4, <3>1
    <3>3. u = t => s12[u] = 0
      <4>1. u = t => s6[u].status # "REGISTERED"
        BY <1>7 DEF Tax!MayRegister
      <4>2. u = t => \A q \in Hands : ~Tax!Asking(q, u)
        BY <1>3, <2>5
      <4>. QED  BY <3>1, <4>1, <4>2
    <3>4. \A q \in Hands : Tax!Asking(q, u)' /\ s7'[q].pc = "ask" => s12'[u] = 0
      BY <1>2, <2>3, <2>4, <3>1, <3>3
    <3>5. s6'[u].status # "REGISTERED" /\ (\A q \in Hands : ~Tax!Asking(q, u)') => s12'[u] = 0
      BY <1>2, <2>5, <3>1
    <3>. QED  BY <1>2, <3>1, <3>2, <3>4, <3>5
  <2>. QED  BY <1>2, <1>6, <2>1, <2>2, <2>6, RegistrationMoves
<1>8. CASE ~(t \in Employers /\ Tax!MayRegister(t))
  <2>1. s7' = [s7 EXCEPT ![o] = Tax!After(o)]
    BY <1>2, <1>8
  <2>2. \A u : ~Tax!Asking(o, u)
    BY <1>2 DEF Tax!Asking
  <2>3. Tax!OneAtATime'
    BY <1>2, <1>3, <1>4, <2>1, <2>2, AskedLess
  <2>. QED  BY <1>2, <1>4, <1>6, <2>1, <2>3, RegistrationMoves
<1>. QED  BY <1>7, <1>8

LEMMA RegistrationAsks ==
    ASSUME Tax!RegistrationsHold, NEW o \in Hands, Tax!RegAsk(o)
    PROVE  Tax!RegistrationsHold'
<1>1. Registered /\ \A q \in Hands : s7[q].pc # "idle" => s7[q].queue # <<>>
  BY TaxTypes DEF Tax!RegistrationsHold
<1> DEFINE t == Head(s7[o].queue)
<1>2. s7[o].pc = "ask" /\ UNCHANGED <<s6, s1, s2, s3, s8, s9, s4, s5, s10, s11, overlapped>>
  BY DEF Tax!RegAsk, Tax!decl, Tax!pays
<1>3. \/ /\ s7' = [s7 EXCEPT ![o].pc = "write"]
         /\ s12' = s12 \/ s12' = [s12 EXCEPT ![t] = @ + 1]
      \/ s7' = [s7 EXCEPT ![o] = Tax!After(o)] /\ s12' = s12
  BY DEF Tax!RegAsk
<1>4. /\ Tax!After(o) \in Asks /\ Tax!After(o).pc \in {"idle", "look"}
      /\ Tax!After(o).pc # "idle" => Tax!After(o).queue # <<>>
      /\ t \in Taxpayers
  BY <1>1, <1>2, AsksAfter
<1>5. s7[o] \in Asks /\ s7[o].queue \in Seq(Employers) /\ s7[o] = [pc |-> "ask", queue |-> s7[o].queue]
  BY <1>1, <1>2, AsksOf DEF Registered
<1>6. s6' \in [Taxpayers -> PayeRow]
  BY <1>1, <1>2 DEF Registered
<1>7. CASE s7' = [s7 EXCEPT ![o].pc = "write"] /\ (s12' = s12 \/ s12' = [s12 EXCEPT ![t] = @ + 1])
  <2> DEFINE r == [pc |-> "write", queue |-> s7[o].queue]
  <2>1. s7' = [s7 EXCEPT ![o] = r]
    <3>1. [s7[o] EXCEPT !.pc = "write"] = r
      <4>1. PICK Q : s7[o] = [pc |-> "ask", queue |-> Q]
        BY <1>5
      <4>. QED  BY <4>1
    <3>2. s7' = [s7 EXCEPT ![o] = [s7[o] EXCEPT !.pc = "write"]]
      BY <1>1, <1>7 DEF Registered
    <3>. QED  BY <3>1, <3>2
  <2>2. r \in Asks /\ r.pc = "write" /\ r.queue # <<>> /\ Head(r.queue) = t
    BY <1>1, <1>2, <1>5 DEF Asks
  <2>. HIDE DEF r
  <2>3. Tax!Asking(o, t)
    BY <1>2 DEF Tax!Asking
  <2>. HIDE DEF t
  <2>4. \A q \in Hands : s7'[q] = IF q = o THEN r ELSE s7[q]
    BY <1>1, <2>1 DEF Registered
  <2>5. \A q \in Hands : \A u : Tax!Asking(q, u)' <=> Tax!Asking(q, u)
    <3>1. \A u : Tax!Asking(o, u) <=> u = t
      BY <1>2, <2>3 DEF Tax!Asking
    <3>2. \A u : Tax!Asking(o, u)' <=> u = t
      BY <2>2, <2>4 DEF Tax!Asking
    <3>3. \A q \in Hands : \A u : q # o => (Tax!Asking(q, u)' <=> Tax!Asking(q, u))
      BY <2>4 DEF Tax!Asking
    <3>. QED  BY <3>1, <3>2, <3>3
  <2>6. s12' \in [Taxpayers -> Nat]
    BY <1>1, <1>7 DEF Registered
  <2>7. Tax!OneAtATime'
    <3>. SUFFICES ASSUME ~overlapped', NEW u \in Taxpayers
                  PROVE  /\ s12'[u] <= 1
                         /\ \A p, q \in Hands : Tax!Asking(p, u) /\ Tax!Asking(q, u) => p = q
                         /\ \A q \in Hands : Tax!Asking(q, u) /\ s7'[q].pc = "ask" => s12'[u] = 0
                         /\ s6'[u].status # "REGISTERED" /\ (\A q \in Hands : ~Tax!Asking(q, u)) => s12'[u] = 0
      BY <2>5 DEF Tax!OneAtATime
    <3>1. /\ s12[u] \in Nat /\ s12[u] <= 1
          /\ \A p, q \in Hands : Tax!Asking(p, u) /\ Tax!Asking(q, u) => p = q
          /\ \A q \in Hands : Tax!Asking(q, u) /\ s7[q].pc = "ask" => s12[u] = 0
          /\ s6[u].status # "REGISTERED" /\ (\A q \in Hands : ~Tax!Asking(q, u)) => s12[u] = 0
      BY <1>2, AskedOnce
    <3>2. CASE u # t
      <4>1. s12'[u] = s12[u]
        BY <1>1, <1>7, <3>2 DEF Registered
      <4>2. ~Tax!Asking(o, u)
        BY <1>2, <2>3, <3>2 DEF Tax!Asking
      <4>3. \A q \in Hands : Tax!Asking(q, u) /\ s7'[q].pc = "ask" => s12'[u] = 0
        BY <2>4, <3>1, <4>1, <4>2
      <4>. QED  BY <1>2, <3>1, <4>1, <4>3
    <3>3. CASE u = t
      <4>1. s12[u] = 0
        BY <1>2, <2>3, <3>1, <3>3
      <4>2. s12'[u] = 0 \/ s12'[u] = 1
        BY <1>1, <1>7, <3>3, <4>1 DEF Registered
      <4>3. \A q \in Hands : ~(Tax!Asking(q, u) /\ s7'[q].pc = "ask")
        BY <2>2, <2>3, <2>4, <3>1, <3>3
      <4>. QED  BY <2>3, <3>1, <3>3, <4>2, <4>3
    <3>. QED  BY <3>2, <3>3
  <2>. QED  BY <1>2, <1>6, <2>1, <2>2, <2>6, <2>7, RegistrationMoves
<1>8. CASE s7' = [s7 EXCEPT ![o] = Tax!After(o)] /\ s12' = s12
  <2>1. Tax!OneAtATime'
    BY <1>2, <1>4, <1>8, AskedLess
  <2>2. s12' \in [Taxpayers -> Nat]
    BY <1>1, <1>8 DEF Registered
  <2>. QED  BY <1>2, <1>4, <1>6, <1>8, <2>1, <2>2, RegistrationMoves
<1>. QED  BY <1>3, <1>7, <1>8

LEMMA RegistrationWrites ==
    ASSUME Tax!RegistrationsHold, NEW o \in Hands, Tax!RegWrite(o)
    PROVE  Tax!RegistrationsHold'
<1>1. Registered /\ \A q \in Hands : s7[q].pc # "idle" => s7[q].queue # <<>>
  BY TaxTypes DEF Tax!RegistrationsHold
<1> DEFINE t == Head(s7[o].queue)
           x == [status |-> "REGISTERED", number |-> IF Official THEN "official" ELSE "provisional"]
<1>2. /\ s7[o].pc = "write" /\ s7' = [s7 EXCEPT ![o] = Tax!After(o)]
      /\ (s6' = [s6 EXCEPT ![t] = x] /\ overlapped' = overlapped) \/ (s6' = s6 /\ overlapped')
      /\ UNCHANGED <<s12, s1, s2, s3, s8, s9, s4, s5, s10, s11>>
  BY DEF Tax!RegWrite, Tax!decl, Tax!pays
<1>3. /\ Tax!After(o) \in Asks /\ Tax!After(o).pc \in {"idle", "look"}
      /\ Tax!After(o).pc # "idle" => Tax!After(o).queue # <<>>
      /\ t \in Taxpayers
  BY <1>1, <1>2, AsksAfter
<1>4. x \in PayeRow /\ x.status = "REGISTERED"
  BY DEF PayeRow
<1>5. \A u : Tax!Asking(o, u) => u = t
  BY DEF Tax!Asking
<1>. HIDE DEF t, x
<1>6. s6' \in [Taxpayers -> PayeRow] /\ s12' \in [Taxpayers -> Nat]
  BY <1>1, <1>2, <1>4 DEF Registered
<1>7. ~overlapped' => /\ ~overlapped
                      /\ \A u \in Taxpayers : s6'[u].status = "REGISTERED" \/ s6'[u].status = s6[u].status
                      /\ \A u \in Taxpayers : Tax!Asking(o, u) => s6'[u].status = "REGISTERED"
  BY <1>1, <1>2, <1>3, <1>4, <1>5 DEF Registered
<1>8. Tax!OneAtATime'
  BY <1>2, <1>3, <1>7, AskedLess
<1>. QED  BY <1>2, <1>3, <1>6, <1>8, RegistrationMoves

LEMMA RegistrationStep ==
    ASSUME Tax!RegistrationsHold, Tax!Registrations PROVE Tax!RegistrationsHold'
<1>1. ASSUME NEW t \in Taxpayers, NEW status \in {"REGISTERED", "NOT_REGISTERED"}, NEW n \in {"none", "official"},
             Tax!SetStatus(t, status, n)
      PROVE  Tax!RegistrationsHold'
  BY <1>1, RegistrationSet
<1>2. ASSUME NEW o \in Hands, NEW t \in Employers, Tax!Register(o, <<t>>)
      PROVE  Tax!RegistrationsHold'
  <2>1. <<t>> \in Seq(Employers) /\ <<t>> # <<>>
    OBVIOUS
  <2>. QED  BY <1>2, <2>1, RegistrationBegins
<1>3. ASSUME NEW o \in Hands, Tax!Gap # {}, Tax!Register(o, Tax!SetToSeq(Tax!Gap))
      PROVE  Tax!RegistrationsHold'
  <2>1. Tax!Gap \in SUBSET Employers
    BY DEF Tax!Gap
  <2>2. IsFiniteSet(Tax!Gap)
    BY <2>1, TaxNumbers, FS_Subset
  <2>3. /\ Tax!SetToSeq(Tax!Gap) \in Seq(Tax!Gap)
        /\ \A x \in Tax!Gap : \E i \in DOMAIN Tax!SetToSeq(Tax!Gap) : Tax!SetToSeq(Tax!Gap)[i] = x
    BY <2>2, TaxInTurn
  <2>4. Tax!SetToSeq(Tax!Gap) \in Seq(Employers)
    BY <2>1, <2>3, SeqMonotonic
  <2>5. Tax!SetToSeq(Tax!Gap) # <<>>
    BY <1>3, <2>3
  <2>. QED  BY <1>3, <2>4, <2>5, RegistrationBegins
<1>4. ASSUME NEW o \in Hands, Tax!RegLook(o) \/ Tax!RegAsk(o) \/ Tax!RegWrite(o)
      PROVE  Tax!RegistrationsHold'
  BY <1>4, RegistrationLooks, RegistrationAsks, RegistrationWrites
<1>. QED  BY <1>1, <1>2, <1>3, <1>4 DEF Tax!Registrations

LEMMA RegistrationInit ==
    ASSUME Tax!Init PROVE Tax!RegistrationsHold
<1>1. /\ s7 = [o \in Hands |-> Tax!Idle] /\ s12 = [t \in Taxpayers |-> 0]
  BY DEF Tax!Init
<1>2. \A o \in Hands : s7[o].pc = "idle"
  BY <1>1 DEF Tax!Idle
<1>3. Tax!OneAtATime
  BY <1>1, <1>2 DEF Tax!OneAtATime, Tax!Asking
<1>. QED  BY <1>2, <1>3, TaxInit DEF Tax!RegistrationsHold

LEMMA RegistrationStutters ==
    ASSUME Tax!RegistrationsHold, UNCHANGED <<s1, s2, s3, s4, s5, s6, s7, s8, s9, s10, s11, s12, overlapped>>
    PROVE  Tax!RegistrationsHold'
<1>1. Tax!TypeOK'
  BY TaxTypes, DeclaredStays, PaidStays, RegisteredStays DEF Tax!RegistrationsHold
<1>2. Tax!OneAtATime'
  BY DEF Tax!RegistrationsHold, Tax!OneAtATime, Tax!Asking
<1>. QED  BY <1>1, <1>2 DEF Tax!RegistrationsHold

-----------------------------------------------------------------------------
(* Payments.                                                                   *)

LEMMA PushesOf ==
    ASSUME NEW p \in Pushes
    PROVE  /\ p.pc \in {"idle", "write"}
           /\ p.pc = "write" => p.t \in Taxpayers /\ p.amount \in Amounts /\ p.i \in Nat
<1>1. CASE p = Tax!Idle
  BY <1>1 DEF Tax!Idle
<1>2. CASE p \in [pc : {"write"}, t : Taxpayers, amount : Amounts, i : Nat]
  BY <1>2
<1>. QED  BY <1>1, <1>2 DEF Pushes

LEMMA RowAdded ==
    ASSUME s4 \in Seq(PayRow), NEW row \in PayRow, s4' = Append(s4, row)
    PROVE  /\ s4' \in Seq(PayRow)
           /\ \A i \in DOMAIN s4 : s4'[i] = s4[i]
           /\ \E n : n \notin DOMAIN s4 /\ s4'[n] = row
                     /\ \A u : Tax!OnFile(u)' = IF u = row.t THEN Tax!OnFile(u) \cup {n} ELSE Tax!OnFile(u)
<1>1. /\ s4' \in Seq(PayRow) /\ Len(s4') = Len(s4) + 1 /\ Len(s4) \in Nat
      /\ \A d \in 1 .. Len(s4) : s4'[d] = s4[d]
      /\ s4'[Len(s4) + 1] = row
  BY AppendProperties
<1>2. DOMAIN s4 = 1 .. Len(s4) /\ DOMAIN s4' = 1 .. Len(s4')
  BY <1>1, LenProperties
<1> DEFINE n == Len(s4) + 1
<1>3. n \notin DOMAIN s4 /\ DOMAIN s4' = DOMAIN s4 \cup {n} /\ s4'[n] = row /\ \A i \in DOMAIN s4 : s4'[i] = s4[i]
  BY <1>1, <1>2
<1>. HIDE DEF n
<1>4. ASSUME NEW u PROVE Tax!OnFile(u)' = IF u = row.t THEN Tax!OnFile(u) \cup {n} ELSE Tax!OnFile(u)
  BY <1>3 DEF Tax!OnFile
<1>. QED  BY <1>1, <1>3, <1>4

LEMMA RowReplaced ==
    ASSUME s4 \in Seq(PayRow), NEW row \in PayRow, NEW n \in Tax!OnFile(row.t), s4' = [s4 EXCEPT ![n] = row]
    PROVE  /\ s4' \in Seq(PayRow) /\ s4'[n] = row
           /\ \A i \in DOMAIN s4 : i # n => s4'[i] = s4[i]
           /\ \A u : Tax!OnFile(u)' = Tax!OnFile(u)
<1>1. n \in DOMAIN s4 /\ s4[n].t = row.t
  BY DEF Tax!OnFile
<1>2. n \in 1 .. Len(s4) /\ DOMAIN s4 = 1 .. Len(s4)
  BY <1>1, LenProperties
<1>3. /\ [s4 EXCEPT ![n] = row] \in Seq(PayRow) /\ Len([s4 EXCEPT ![n] = row]) = Len(s4)
      /\ \A d \in 1 .. Len(s4) : [s4 EXCEPT ![n] = row][d] = IF d = n THEN row ELSE s4[d]
  BY <1>2, ExceptSeq
<1>4. /\ s4' \in Seq(PayRow) /\ DOMAIN s4' = DOMAIN s4
      /\ \A d \in DOMAIN s4 : s4'[d] = IF d = n THEN row ELSE s4[d]
  BY <1>2, <1>3, Zenon
<1>5. ASSUME NEW u PROVE Tax!OnFile(u)' = Tax!OnFile(u)
  BY <1>1, <1>4 DEF Tax!OnFile
<1>. QED  BY <1>1, <1>4, <1>5

\* What the report adds up when there is one row.
LEMMA OneSum ==
    ASSUME NEW t, NEW j, Tax!OnFile(t) = {j}, s4[j].amount \in Int
    PROVE  Tax!ReportPaid(t) = s4[j].amount
<1> DEFINE S == {j}
           F(g) == [x \in SUBSET S |-> IF x = {} THEN 0
                                       ELSE s4[CHOOSE y \in x : TRUE].amount + g[x \ {CHOOSE y \in x : TRUE}]]
           f == [x \in SUBSET S |-> IF x = {} THEN 0 ELSE s4[CHOOSE y \in x : TRUE].amount + 0]
           h == CHOOSE g : g = F(g)
<1>1. (CHOOSE y \in S : TRUE) = j
  OBVIOUS
<1>2. f = F(f)
  <2>1. ASSUME NEW x \in SUBSET S PROVE f[x] = F(f)[x]
    <3>1. CASE x = {}
      BY <3>1
    <3>2. CASE x = S
      <4>1. x \ {CHOOSE y \in x : TRUE} = {}
        BY <3>2, <1>1
      <4>2. f[{}] = 0
        OBVIOUS
      <4>. QED  BY <3>2, <4>1, <4>2
    <3>. QED  BY <3>1, <3>2
  <2>. QED  BY <2>1
<1>3. h = F(h)
  BY <1>2
<1>4. h[{}] = 0
  BY <1>3
<1>5. h[S] = s4[j].amount + 0
  <2>1. S \ {CHOOSE y \in S : TRUE} = {}
    BY <1>1
  <2>. HIDE DEF h
  <2>. QED  BY <1>1, <1>3, <1>4, <2>1
<1>6. Tax!ReportPaid(t) = h[S]
  BY Zenon DEF Tax!ReportPaid, Tax!MapThenSumSet, Tax!MapThenFoldSet
<1>. QED  BY <1>5, <1>6

\* What stands of one taxpayer.
OneRowOf(t) ==
    /\ \A s \in {1, 2} : Tax!Pushed(s, t) /\ s5[s].i # 0 => s5[s].i \in Tax!OnFile(t)
    /\ t \notin s11 /\ ~overlapped =>
          /\ \A i, j \in Tax!OnFile(t) : i = j
          /\ s10[t] # Tax!None => \E i \in Tax!OnFile(t) : s4[i].amount = s10[t]
          /\ \A s \in {1, 2} : Tax!Pushed(s, t) /\ s5[s].i = 0 => Tax!OnFile(t) = {}
          /\ \A s, q \in {1, 2} : Tax!Pushed(s, t) /\ Tax!Pushed(q, t) => s = q

LEMMA OneRowEach ==
    /\ Tax!OneRow <=> \A t \in Taxpayers : OneRowOf(t)
    /\ Tax!OneRow' <=> \A t \in Taxpayers : OneRowOf(t)'
  BY DEF Tax!OneRow, OneRowOf

LEMMA PaymentsAre ==
    ASSUME Tax!PaymentsHold
    PROVE  Declared /\ Paid /\ Registered /\ \A t \in Taxpayers : OneRowOf(t)
  BY TaxTypes, OneRowEach DEF Tax!PaymentsHold

LEMMA PaymentsStand ==
    ASSUME Declared, Registered, UNCHANGED <<s1, s2, s3, s6, s7, s8, s9, s12>>, Paid',
           \A t \in Taxpayers : OneRowOf(t)'
    PROVE  Tax!PaymentsHold'
<1>1. Declared' /\ Registered'
  BY DeclaredStays, RegisteredStays
<1>. QED  BY <1>1, TaxTypes, OneRowEach DEF Tax!PaymentsHold

LEMMA PaymentLooks ==
    ASSUME Tax!PaymentsHold, NEW t \in Taxpayers, NEW a \in Amounts, NEW s \in {1, 2}, Tax!SyncLook(s, t, a)
    PROVE  Tax!PaymentsHold'
<1>1. Declared /\ Paid /\ Registered /\ \A u \in Taxpayers : OneRowOf(u)
  BY PaymentsAre
<1>2. /\ s5[s].pc = "idle"
      /\ UNCHANGED <<s4, s10, s11, s1, s2, s3, s8, s9, s6, s7, s12>>
  BY DEF Tax!SyncLook, Tax!decl, Tax!regs
<1>3. PICK n \in IF Tax!OnFile(t) = {} THEN {0} ELSE Tax!OnFile(t) :
          s5' = [s5 EXCEPT ![s] = [pc |-> "write", t |-> t, amount |-> a, i |-> n]]
  BY DEF Tax!SyncLook
<1> DEFINE p == [pc |-> "write", t |-> t, amount |-> a, i |-> n]
<1>4. DOMAIN s4 \subseteq Nat /\ DOMAIN s5 = {1, 2}
  BY <1>1, LenProperties DEF Paid
<1>5. n \in Nat /\ (n # 0 => n \in Tax!OnFile(t)) /\ (n = 0 => Tax!OnFile(t) = {})
  <2>1. \A i \in DOMAIN s4 : i # 0
    BY <1>1, LenProperties DEF Paid
  <2>. QED  BY <1>3, <1>4, <2>1 DEF Tax!OnFile
<1>6. p \in Pushes /\ p.pc = "write" /\ p.t = t /\ p.i = n
  BY <1>5 DEF Pushes
<1>7. ~overlapped' => ~overlapped /\ \A q \in {1, 2} : ~Tax!Pushed(q, t)
  BY <1>4 DEF Tax!SyncLook, Tax!Pushed
<1>8. s5' = [s5 EXCEPT ![s] = p]
  BY <1>3
<1>. HIDE DEF p
<1>9. s5' \in [{1, 2} -> Pushes] /\ \A q \in {1, 2} : s5'[q] = IF q = s THEN p ELSE s5[q]
  BY <1>1, <1>6, <1>8 DEF Paid
<1>10. Paid'
  BY <1>1, <1>2, <1>9 DEF Paid
<1>11. \A u : Tax!OnFile(u)' = Tax!OnFile(u)
  BY <1>2 DEF Tax!OnFile
<1>12. ASSUME NEW u \in Taxpayers PROVE OneRowOf(u)'
  <2>1. OneRowOf(u)
    BY <1>1
  <2>2. \A q \in {1, 2} : Tax!Pushed(q, u)' <=> (q = s /\ u = t) \/ (q # s /\ Tax!Pushed(q, u))
    BY <1>6, <1>9 DEF Tax!Pushed
  <2>3. \A q \in {1, 2} : Tax!Pushed(q, u)' /\ s5'[q].i # 0 => s5'[q].i \in Tax!OnFile(u)'
    BY <1>5, <1>6, <1>9, <1>11, <2>1, <2>2 DEF OneRowOf
  <2>4. ASSUME u \notin s11', ~overlapped'
        PROVE  /\ \A i, j \in Tax!OnFile(u)' : i = j
               /\ s10'[u] # Tax!None => \E i \in Tax!OnFile(u)' : s4'[i].amount = s10'[u]
               /\ \A q \in {1, 2} : Tax!Pushed(q, u)' /\ s5'[q].i = 0 => Tax!OnFile(u)' = {}
               /\ \A q, r \in {1, 2} : Tax!Pushed(q, u)' /\ Tax!Pushed(r, u)' => q = r
    <3>1. u \notin s11 /\ ~overlapped /\ \A q \in {1, 2} : ~Tax!Pushed(q, t)
      BY <1>2, <1>7, <2>4
    <3>2. /\ \A i, j \in Tax!OnFile(u) : i = j
          /\ s10[u] # Tax!None => \E i \in Tax!OnFile(u) : s4[i].amount = s10[u]
          /\ \A q \in {1, 2} : Tax!Pushed(q, u) /\ s5[q].i = 0 => Tax!OnFile(u) = {}
          /\ \A q, r \in {1, 2} : Tax!Pushed(q, u) /\ Tax!Pushed(r, u) => q = r
      BY <2>1, <3>1 DEF OneRowOf
    <3>3. \A q \in {1, 2} : Tax!Pushed(q, u)' /\ s5'[q].i = 0 => Tax!OnFile(u)' = {}
      BY <1>5, <1>6, <1>9, <1>11, <2>2, <3>2
    <3>4. \A q, r \in {1, 2} : Tax!Pushed(q, u)' /\ Tax!Pushed(r, u)' => q = r
      BY <2>2, <3>1, <3>2
    <3>. QED  BY <1>2, <1>11, <3>2, <3>3, <3>4
  <2>. QED  BY <2>3, <2>4 DEF OneRowOf
<1>. QED  BY <1>1, <1>2, <1>10, <1>12, PaymentsStand

LEMMA PaymentWrites ==
    ASSUME Tax!PaymentsHold, NEW s \in {1, 2}, Tax!SyncWrite(s)
    PROVE  Tax!PaymentsHold'
<1>1. Declared /\ Paid /\ Registered /\ \A u \in Taxpayers : OneRowOf(u)
  BY PaymentsAre
<1>2. PICK p : p = s5[s]
  OBVIOUS
<1> DEFINE row == [t |-> p.t, amount |-> p.amount]
<1>3. p.pc = "write" /\ p.t \in Taxpayers /\ p.amount \in Amounts /\ p.i \in Nat
  <2>1. p.pc = "write" /\ p \in Pushes
    BY <1>1, <1>2 DEF Tax!SyncWrite, Paid
  <2>. QED  BY <2>1, PushesOf
<1>4. /\ s4' = IF p.i = 0 THEN Append(s4, row) ELSE [s4 EXCEPT ![p.i] = row]
      /\ s10' = [s10 EXCEPT ![p.t] = p.amount] /\ s5' = [s5 EXCEPT ![s] = Tax!Idle]
      /\ UNCHANGED <<s11, s1, s2, s3, s8, s9, s6, s7, s12, overlapped>>
  BY <1>2 DEF Tax!SyncWrite, Tax!Adds, Tax!decl, Tax!regs
<1>5. row \in PayRow /\ row.t = p.t /\ row.amount = p.amount /\ p.amount \in Int
  BY <1>3, TaxNumbers DEF PayRow
<1>6. Tax!Pushed(s, p.t)
  BY <1>2, <1>3 DEF Tax!Pushed
<1>7. p.i # 0 => p.i \in Tax!OnFile(p.t)
  BY <1>1, <1>2, <1>3, <1>6 DEF OneRowOf
<1>8. /\ s5' \in [{1, 2} -> Pushes] /\ s5'[s].pc = "idle" /\ \A q \in {1, 2} : q # s => s5'[q] = s5[q]
      /\ s10' \in [Taxpayers -> Int] /\ s10'[p.t] = p.amount /\ \A u \in Taxpayers : u # p.t => s10'[u] = s10[u]
  BY <1>1, <1>3, <1>4, <1>5 DEF Paid, Pushes, Tax!Idle
<1>. HIDE DEF row
\* After either write the row found or added is the only change.
<1>9. /\ s4' \in Seq(PayRow)
      /\ \E n : /\ s4'[n] = row
                /\ \A i \in DOMAIN s4 : i # n => s4'[i] = s4[i]
                /\ \A u : Tax!OnFile(u)' = IF u = p.t /\ p.i = 0 THEN Tax!OnFile(u) \cup {n} ELSE Tax!OnFile(u)
                /\ \A u : u # p.t => n \notin Tax!OnFile(u)
                /\ p.i # 0 => n = p.i
  <2>0. s4 \in Seq(PayRow)
    BY <1>1 DEF Paid
  <2>1. CASE p.i = 0
    <3>1. s4' = Append(s4, row)
      BY <1>4, <2>1
    <3>2. /\ s4' \in Seq(PayRow)
          /\ \A i \in DOMAIN s4 : s4'[i] = s4[i]
          /\ \E n : n \notin DOMAIN s4 /\ s4'[n] = row
                    /\ \A u : Tax!OnFile(u)' = IF u = row.t THEN Tax!OnFile(u) \cup {n} ELSE Tax!OnFile(u)
      BY <1>5, <2>0, <3>1, RowAdded
    <3>3. PICK n : /\ n \notin DOMAIN s4 /\ s4'[n] = row
                   /\ \A u : Tax!OnFile(u)' = IF u = row.t THEN Tax!OnFile(u) \cup {n} ELSE Tax!OnFile(u)
      BY <3>2
    <3>4. \A u : n \notin Tax!OnFile(u)
      BY <3>3 DEF Tax!OnFile
    <3>5. \A u : Tax!OnFile(u)' = IF u = p.t /\ p.i = 0 THEN Tax!OnFile(u) \cup {n} ELSE Tax!OnFile(u)
      BY <1>5, <2>1, <3>3
    <3>. QED  BY <2>1, <3>2, <3>3, <3>4, <3>5
  <2>2. CASE p.i # 0
    <3>1. s4' = [s4 EXCEPT ![p.i] = row] /\ p.i \in Tax!OnFile(row.t)
      BY <1>4, <1>5, <1>7, <2>2
    <3>2. /\ s4' \in Seq(PayRow) /\ s4'[p.i] = row
          /\ \A i \in DOMAIN s4 : i # p.i => s4'[i] = s4[i]
          /\ \A u : Tax!OnFile(u)' = Tax!OnFile(u)
      BY <1>5, <2>0, <3>1, RowReplaced
    <3>3. \A u : u # p.t => p.i \notin Tax!OnFile(u)
      BY <1>7, <2>2 DEF Tax!OnFile
    <3>4. \A u : Tax!OnFile(u)' = IF u = p.t /\ p.i = 0 THEN Tax!OnFile(u) \cup {p.i} ELSE Tax!OnFile(u)
      BY <2>2, <3>2
    <3>. QED  BY <3>2, <3>3, <3>4
  <2>. QED  BY <2>1, <2>2
<1>10. PICK n : /\ s4'[n] = row
                /\ \A i \in DOMAIN s4 : i # n => s4'[i] = s4[i]
                /\ \A u : Tax!OnFile(u)' = IF u = p.t /\ p.i = 0 THEN Tax!OnFile(u) \cup {n} ELSE Tax!OnFile(u)
                /\ \A u : u # p.t => n \notin Tax!OnFile(u)
                /\ p.i # 0 => n = p.i
  BY <1>9
<1>11. Paid'
  BY <1>1, <1>4, <1>8, <1>9 DEF Paid
<1>12. ASSUME NEW u \in Taxpayers PROVE OneRowOf(u)'
  <2>1. OneRowOf(u)
    BY <1>1
  <2>2. \A q \in {1, 2} : Tax!Pushed(q, u)' => q # s /\ s5'[q] = s5[q] /\ Tax!Pushed(q, u)
    BY <1>8 DEF Tax!Pushed
  <2>3. Tax!OnFile(u)' = IF u = p.t /\ p.i = 0 THEN Tax!OnFile(u) \cup {n} ELSE Tax!OnFile(u)
    BY <1>10, Zenon
  <2>4. \A q \in {1, 2} : Tax!Pushed(q, u)' /\ s5'[q].i # 0 => s5'[q].i \in Tax!OnFile(u)'
    <3>1. \A q \in {1, 2} : Tax!Pushed(q, u) /\ s5[q].i # 0 => s5[q].i \in Tax!OnFile(u)
      BY <2>1 DEF OneRowOf
    <3>2. Tax!OnFile(u) \subseteq Tax!OnFile(u)'
      BY <2>3
    <3>. QED  BY <2>2, <3>1, <3>2
  <2>5. ASSUME u \notin s11', ~overlapped'
        PROVE  /\ \A i, j \in Tax!OnFile(u)' : i = j
               /\ s10'[u] # Tax!None => \E i \in Tax!OnFile(u)' : s4'[i].amount = s10'[u]
               /\ \A q \in {1, 2} : Tax!Pushed(q, u)' /\ s5'[q].i = 0 => Tax!OnFile(u)' = {}
               /\ \A q, r \in {1, 2} : Tax!Pushed(q, u)' /\ Tax!Pushed(r, u)' => q = r
    <3>1. u \notin s11 /\ ~overlapped
      BY <1>4, <2>5
    <3>2. /\ \A i, j \in Tax!OnFile(u) : i = j
          /\ s10[u] # Tax!None => \E i \in Tax!OnFile(u) : s4[i].amount = s10[u]
          /\ \A q \in {1, 2} : Tax!Pushed(q, u) /\ s5[q].i = 0 => Tax!OnFile(u) = {}
          /\ \A q, r \in {1, 2} : Tax!Pushed(q, u) /\ Tax!Pushed(r, u) => q = r
      BY <2>1, <3>1 DEF OneRowOf
    <3>3. CASE u # p.t
      <4>1. Tax!OnFile(u)' = Tax!OnFile(u) /\ n \notin Tax!OnFile(u) /\ s10'[u] = s10[u]
        BY <1>8, <1>10, <2>3, <3>3
      <4>2. \A i \in Tax!OnFile(u) : s4'[i] = s4[i]
        BY <1>10, <4>1 DEF Tax!OnFile
      <4>. QED  BY <2>2, <3>2, <4>1, <4>2
    <3>4. CASE u = p.t
      <4>1. \A q \in {1, 2} : ~Tax!Pushed(q, u)'
        BY <1>6, <2>2, <3>2, <3>4
      <4>2. Tax!OnFile(u)' = {n}
        <5>1. CASE p.i = 0
          <6>1. Tax!OnFile(u) = {}
            BY <1>2, <1>6, <3>2, <3>4, <5>1
          <6>. QED  BY <2>3, <3>4, <5>1, <6>1
        <5>2. CASE p.i # 0
          BY <1>7, <1>10, <2>3, <3>2, <3>4, <5>2
        <5>. QED  BY <5>1, <5>2
      <4>3. s4'[n].amount = p.amount /\ s10'[u] = p.amount
        BY <1>5, <1>8, <1>10, <3>4
      <4>. QED  BY <4>1, <4>2, <4>3
    <3>. QED  BY <3>3, <3>4
  <2>. QED  BY <2>4, <2>5 DEF OneRowOf
<1>. QED  BY <1>1, <1>4, <1>11, <1>12, PaymentsStand

LEMMA PaymentAdds ==
    ASSUME Tax!PaymentsHold, NEW t \in Taxpayers, NEW a \in Amounts, Tax!AddPayment(t, a)
    PROVE  Tax!PaymentsHold'
<1>1. Declared /\ Paid /\ Registered /\ \A u \in Taxpayers : OneRowOf(u)
  BY PaymentsAre
<1> DEFINE row == [t |-> t, amount |-> a]
<1>2. /\ s4' = Append(s4, row) /\ s11' = s11 \cup {t}
      /\ UNCHANGED <<s5, s10, s1, s2, s3, s8, s9, s6, s7, s12, overlapped>>
  BY DEF Tax!AddPayment, Tax!decl, Tax!regs
<1>3. row \in PayRow /\ row.t = t
  BY DEF PayRow
<1>. HIDE DEF row
<1>4. /\ s4' \in Seq(PayRow)
      /\ \A i \in DOMAIN s4 : s4'[i] = s4[i]
      /\ \E n : n \notin DOMAIN s4 /\ s4'[n] = row
                /\ \A u : Tax!OnFile(u)' = IF u = row.t THEN Tax!OnFile(u) \cup {n} ELSE Tax!OnFile(u)
  <2>1. s4 \in Seq(PayRow)
    BY <1>1 DEF Paid
  <2>. QED  BY <1>2, <1>3, <2>1, RowAdded
<1>5. Paid'
  BY <1>1, <1>2, <1>4 DEF Paid
<1>6. ASSUME NEW u \in Taxpayers PROVE OneRowOf(u)'
  <2>1. OneRowOf(u)
    BY <1>1
  <2>2. \A q \in {1, 2} : Tax!Pushed(q, u)' <=> Tax!Pushed(q, u)
    BY <1>2 DEF Tax!Pushed
  <2>3. Tax!OnFile(u) \subseteq Tax!OnFile(u)' /\ (u # t => Tax!OnFile(u)' = Tax!OnFile(u))
    BY <1>3, <1>4
  <2>4. \A q \in {1, 2} : Tax!Pushed(q, u)' /\ s5'[q].i # 0 => s5'[q].i \in Tax!OnFile(u)'
    BY <1>2, <2>1, <2>2, <2>3 DEF OneRowOf
  <2>5. ASSUME u \notin s11', ~overlapped'
        PROVE  /\ \A i, j \in Tax!OnFile(u)' : i = j
               /\ s10'[u] # Tax!None => \E i \in Tax!OnFile(u)' : s4'[i].amount = s10'[u]
               /\ \A q \in {1, 2} : Tax!Pushed(q, u)' /\ s5'[q].i = 0 => Tax!OnFile(u)' = {}
               /\ \A q, r \in {1, 2} : Tax!Pushed(q, u)' /\ Tax!Pushed(r, u)' => q = r
    <3>1. u # t /\ u \notin s11 /\ ~overlapped
      BY <1>2, <2>5
    <3>2. Tax!OnFile(u)' = Tax!OnFile(u) /\ \A i \in Tax!OnFile(u) : s4'[i] = s4[i]
      BY <1>4, <2>3, <3>1 DEF Tax!OnFile
    <3>3. /\ \A i, j \in Tax!OnFile(u) : i = j
          /\ s10[u] # Tax!None => \E i \in Tax!OnFile(u) : s4[i].amount = s10[u]
          /\ \A q \in {1, 2} : Tax!Pushed(q, u) /\ s5[q].i = 0 => Tax!OnFile(u) = {}
          /\ \A q, r \in {1, 2} : Tax!Pushed(q, u) /\ Tax!Pushed(r, u) => q = r
      BY <2>1, <3>1 DEF OneRowOf
    <3>. QED  BY <1>2, <2>2, <3>2, <3>3
  <2>. QED  BY <2>4, <2>5 DEF OneRowOf
<1>. QED  BY <1>1, <1>2, <1>5, <1>6, PaymentsStand

LEMMA PaymentStep ==
    ASSUME Tax!PaymentsHold, Tax!Payments PROVE Tax!PaymentsHold'
<1>1. s5 \in [{1, 2} -> Pushes]
  BY TaxTypes DEF Tax!PaymentsHold, Paid
<1>2. DOMAIN s5 = {1, 2}
  BY <1>1
<1>3. PICK t \in Taxpayers, a \in Amounts :
          \/ \E s \in {1, 2} : Tax!SyncLook(s, t, a) \/ Tax!SyncWrite(s)
          \/ Tax!AddPayment(t, a)
  BY <1>2 DEF Tax!Payments
<1>. QED  BY <1>3, PaymentLooks, PaymentWrites, PaymentAdds

LEMMA PaymentInit ==
    ASSUME Tax!Init PROVE Tax!PaymentsHold
<1>1. s4 = <<>> /\ s5 = [s \in {1, 2} |-> Tax!Idle] /\ s10 = [t \in Taxpayers |-> Tax!None]
  BY DEF Tax!Init
<1>2. DOMAIN s4 = {} /\ \A s \in {1, 2} : s5[s].pc = "idle"
  BY <1>1 DEF Tax!Idle
<1>3. Tax!OneRow
  BY <1>1, <1>2 DEF Tax!OneRow, Tax!Pushed, Tax!OnFile
<1>. QED  BY <1>3, TaxInit DEF Tax!PaymentsHold

LEMMA PaymentStutters ==
    ASSUME Tax!PaymentsHold, UNCHANGED <<s1, s2, s3, s4, s5, s6, s7, s8, s9, s10, s11, s12, overlapped>>
    PROVE  Tax!PaymentsHold'
<1>1. Tax!TypeOK'
  BY TaxTypes, DeclaredStays, PaidStays, RegisteredStays DEF Tax!PaymentsHold
<1>2. Tax!OneRow'
  BY DEF Tax!PaymentsHold, Tax!OneRow, Tax!Pushed, Tax!OnFile
<1>. QED  BY <1>1, <1>2 DEF Tax!PaymentsHold

LEMMA PaymentFollows ==
    ASSUME Tax!PaymentsHold PROVE Tax!PaidAsPushed
<1>1. Paid /\ \A t \in Taxpayers : OneRowOf(t)
  BY PaymentsAre
<1>. SUFFICES ASSUME NEW t \in Taxpayers, s10[t] # Tax!None, t \notin s11, ~overlapped
              PROVE  Tax!ReportPaid(t) = s10[t]
  BY DEF Tax!PaidAsPushed
<1>2. /\ \A i, j \in Tax!OnFile(t) : i = j
      /\ \E i \in Tax!OnFile(t) : s4[i].amount = s10[t]
  BY <1>1 DEF OneRowOf
<1>3. PICK i \in Tax!OnFile(t) : s4[i].amount = s10[t]
  BY <1>2
<1>4. Tax!OnFile(t) = {i} /\ s4[i].amount \in Int
  BY <1>1, <1>2, <1>3 DEF Paid
<1>. QED  BY <1>3, <1>4, OneSum

-----------------------------------------------------------------------------
(* Imports: what the rows of a batch come to.                                  *)

LEMMA TaxSets == \A S : Tax!Cardinality(S) = Cardinality(S)
  BY DEF Tax!Cardinality, Cardinality, Tax!IsFiniteSet, IsFiniteSet

LEMMA RowsBegin ==
    ASSUME NEW batch, NEW D
    PROVE  Tax!Seen(batch, 0) = {} /\ Tax!Tally(batch, D, 0) = Tax!NoCounts
<1>1. 1 .. 0 = {}
  OBVIOUS
<1>2. Tax!Seen(batch, 0) = {} /\ Tax!Counting(batch, 0) = {} /\ Tax!Updating(batch, D, 0) = {}
  BY <1>1 DEF Tax!Seen, Tax!Counting, Tax!Updating
<1>3. Cardinality({}) = 0
  BY FS_EmptySet
<1>4. {} \ {} = {} /\ (1 .. 0) \ {} = {}
  BY <1>1
<1>. QED  BY <1>2, <1>3, <1>4, TaxSets, Zenon DEF Tax!Tally, Tax!NoCounts

LEMMA SeenNext ==
    ASSUME NEW batch, NEW i \in Nat \ {0}, batch[i].sound \in BOOLEAN
    PROVE  Tax!Seen(batch, i) =
             IF batch[i].sound THEN Tax!Seen(batch, i - 1) \cup Tax!Matches(batch[i]) ELSE Tax!Seen(batch, i - 1)
<1>1. \A x : x \in 1 .. i <=> x \in 1 .. (i - 1) \/ x = i
  OBVIOUS
<1>2. ASSUME NEW t PROVE t \in Tax!Seen(batch, i) <=> \E h \in 1 .. i : batch[h].sound /\ t \in Tax!Matches(batch[h])
  BY DEF Tax!Seen
<1>3. ASSUME NEW t
      PROVE  t \in Tax!Seen(batch, i - 1) <=> \E h \in 1 .. (i - 1) : batch[h].sound /\ t \in Tax!Matches(batch[h])
  BY DEF Tax!Seen
<1>4. \A t : t \in Tax!Seen(batch, i) <=>
                 t \in Tax!Seen(batch, i - 1) \/ (batch[i].sound /\ t \in Tax!Matches(batch[i]))
  BY <1>1, <1>2, <1>3
<1>. QED  BY <1>4

\* The rows taken of the first i are those of the first i - 1, and row i if it is
\* the first of somebody.
FirstOf(batch, i) == /\ batch[i].sound /\ Tax!Matches(batch[i]) # {}
                     /\ Tax!Matches(batch[i]) \cap Tax!Seen(batch, i - 1) = {}

LEMMA CountingNext ==
    ASSUME NEW batch, NEW i \in Nat \ {0}
    PROVE  /\ Tax!Counting(batch, i) =
                IF FirstOf(batch, i) THEN Tax!Counting(batch, i - 1) \cup {i} ELSE Tax!Counting(batch, i - 1)
           /\ Tax!Counting(batch, i - 1) \subseteq 1 .. (i - 1) /\ i \notin Tax!Counting(batch, i - 1)
<1>1. \A x : x \in 1 .. i <=> x \in 1 .. (i - 1) \/ x = i
  OBVIOUS
<1>2. \A n, h : h \in Tax!Counting(batch, n) <=> h \in 1 .. n /\ FirstOf(batch, h)
  BY DEF Tax!Counting, FirstOf
<1>3. i \notin 1 .. (i - 1)
  OBVIOUS
<1>4. \A h : h \in Tax!Counting(batch, i) <=> h \in Tax!Counting(batch, i - 1) \/ (h = i /\ FirstOf(batch, i))
  BY <1>1, <1>2
<1>. QED  BY <1>2, <1>3, <1>4

LEMMA TallyNext ==
    ASSUME NEW batch, NEW i \in Nat \ {0}, NEW D
    PROVE  LET a == Tax!Tally(batch, D, i - 1)
               b == Tax!Tally(batch, D, i)
           IN  /\ a.created \in Nat /\ a.updated \in Nat /\ a.skipped \in Nat
               /\ ~FirstOf(batch, i) =>
                      b = [created |-> a.created, updated |-> a.updated, skipped |-> a.skipped + 1]
               /\ FirstOf(batch, i) /\ Tax!Matches(batch[i]) \subseteq D =>
                      b = [created |-> a.created, updated |-> a.updated + 1, skipped |-> a.skipped]
               /\ FirstOf(batch, i) /\ ~(Tax!Matches(batch[i]) \subseteq D) =>
                      b = [created |-> a.created + 1, updated |-> a.updated, skipped |-> a.skipped]
<1> DEFINE C == Tax!Counting(batch, i - 1)
           U == Tax!Updating(batch, D, i - 1)
           C1 == Tax!Counting(batch, i)
           U1 == Tax!Updating(batch, D, i)
           R == (1 .. (i - 1)) \ C
           R1 == (1 .. i) \ C1
<1>1. /\ C1 = IF FirstOf(batch, i) THEN C \cup {i} ELSE C
      /\ C \subseteq 1 .. (i - 1) /\ i \notin C
  BY CountingNext
<1>2. U = {h \in C : Tax!Matches(batch[h]) \subseteq D} /\ U1 = {h \in C1 : Tax!Matches(batch[h]) \subseteq D}
  BY DEF Tax!Updating
<1>3. IsFiniteSet(1 .. (i - 1))
  BY FS_Interval
<1>. HIDE DEF C, U, C1, U1
<1>4. \A x : x \in 1 .. i <=> x \in 1 .. (i - 1) \/ x = i
  OBVIOUS
<1>5. i \notin 1 .. (i - 1)
  OBVIOUS
<1>6. IsFiniteSet(C \ U) /\ IsFiniteSet(U) /\ IsFiniteSet(R) /\ i \notin C \ U /\ i \notin U /\ i \notin R
  <2>1. C \ U \subseteq 1 .. (i - 1) /\ U \subseteq 1 .. (i - 1) /\ R \subseteq 1 .. (i - 1)
    BY <1>1, <1>2
  <2>2. IsFiniteSet(C \ U) /\ IsFiniteSet(U) /\ IsFiniteSet(R)
    BY <1>3, <2>1, FS_Subset
  <2>. QED  BY <1>1, <1>2, <1>5, <2>2
<1>7. Cardinality(C \ U) \in Nat /\ Cardinality(U) \in Nat /\ Cardinality(R) \in Nat
  BY <1>6, FS_CardinalityType
<1>8. /\ Cardinality((C \ U) \cup {i}) = Cardinality(C \ U) + 1
      /\ Cardinality(U \cup {i}) = Cardinality(U) + 1
      /\ Cardinality(R \cup {i}) = Cardinality(R) + 1
  BY <1>6, FS_AddElement
<1>9. /\ Tax!Tally(batch, D, i - 1) = [created |-> Cardinality(C \ U), updated |-> Cardinality(U), skipped |-> Cardinality(R)]
      /\ Tax!Tally(batch, D, i) = [created |-> Cardinality(C1 \ U1), updated |-> Cardinality(U1), skipped |-> Cardinality(R1)]
  BY TaxSets, Zenon DEF Tax!Tally, C, U, C1, U1, R, R1
<1>13. /\ Tax!Tally(batch, D, i - 1).created = Cardinality(C \ U)
       /\ Tax!Tally(batch, D, i - 1).updated = Cardinality(U)
       /\ Tax!Tally(batch, D, i - 1).skipped = Cardinality(R)
  <2>. HIDE DEF R
  <2>1. PICK c, u, k : /\ c = Cardinality(C \ U) /\ u = Cardinality(U) /\ k = Cardinality(R)
                       /\ Tax!Tally(batch, D, i - 1) = [created |-> c, updated |-> u, skipped |-> k]
    BY <1>9, Zenon
  <2>. QED  BY <2>1
<1>10. CASE ~FirstOf(batch, i)
  <2>1. C1 = C
    BY <1>1, <1>10
  <2>2. U1 = U
    BY <1>2, <2>1
  <2>3. R1 = R \cup {i}
    BY <1>1, <1>4, <2>1
  <2>4. Tax!Tally(batch, D, i) = [created |-> Cardinality(C \ U), updated |-> Cardinality(U), skipped |-> Cardinality(R) + 1]
    BY <1>8, <1>9, <2>1, <2>2, <2>3, Zenon
  <2>. HIDE DEF R
  <2>. QED  BY <1>7, <1>10, <1>13, <2>4, Zenon
<1>11. CASE FirstOf(batch, i) /\ Tax!Matches(batch[i]) \subseteq D
  <2>1. C1 = C \cup {i}
    BY <1>1, <1>11
  <2>2. U1 = U \cup {i} /\ C1 \ U1 = C \ U
    BY <1>1, <1>2, <1>11, <2>1
  <2>3. R1 = R
    BY <1>1, <1>4, <1>5, <2>1
  <2>4. Tax!Tally(batch, D, i) = [created |-> Cardinality(C \ U), updated |-> Cardinality(U) + 1, skipped |-> Cardinality(R)]
    BY <1>8, <1>9, <2>2, <2>3, Zenon
  <2>. HIDE DEF R
  <2>. QED  BY <1>7, <1>11, <1>13, <2>4, Zenon
<1>12. CASE FirstOf(batch, i) /\ ~(Tax!Matches(batch[i]) \subseteq D)
  <2>1. C1 = C \cup {i}
    BY <1>1, <1>12
  <2>2. U1 = U /\ C1 \ U1 = (C \ U) \cup {i}
    BY <1>1, <1>2, <1>12, <2>1
  <2>3. R1 = R
    BY <1>1, <1>4, <1>5, <2>1
  <2>4. Tax!Tally(batch, D, i) = [created |-> Cardinality(C \ U) + 1, updated |-> Cardinality(U), skipped |-> Cardinality(R)]
    BY <1>8, <1>9, <2>2, <2>3, Zenon
  <2>. HIDE DEF R
  <2>. QED  BY <1>7, <1>12, <1>13, <2>4, Zenon
<1>. QED  BY <1>10, <1>11, <1>12

LEMMA RowOfBatch ==
    ASSUME NEW batch \in Tax!Files, NEW i \in Nat, i >= 1, i <= Len(batch), batch # <<>>
    PROVE  /\ i \in DOMAIN batch /\ Len(batch) \in Nat /\ batch[i].sound \in BOOLEAN /\ batch[i].amount \in Int
           /\ Tax!Matches(batch[i]) \subseteq Taxpayers
           /\ IsFiniteSet(Tax!Matches(batch[i]))
<1>1. batch \in Seq([nin : Taxpayers \cup {"none", "unknown"},
                     rc : Taxpayers \cup {"none", "unknown"}, sound : BOOLEAN, amount : Int])
  BY TaxNumbers DEF Tax!Files
<1>2. Len(batch) \in Nat /\ DOMAIN batch = 1 .. Len(batch)
  BY <1>1, LenProperties
<1>3. i \in DOMAIN batch
  BY <1>2
<1>4. batch[i] \in [nin : Taxpayers \cup {"none", "unknown"},
                    rc : Taxpayers \cup {"none", "unknown"}, sound : BOOLEAN, amount : Int]
  BY <1>1, <1>2, <1>3, ElementOfSeq
<1>5. IsFiniteSet({batch[i].nin, batch[i].rc})
  <2>1. IsFiniteSet({batch[i].nin})
    BY FS_Singleton
  <2>2. IsFiniteSet({batch[i].nin} \cup {batch[i].rc})
    BY <2>1, FS_AddElement
  <2>3. {batch[i].nin} \cup {batch[i].rc} = {batch[i].nin, batch[i].rc}
    OBVIOUS
  <2>. QED  BY <2>2, <2>3
<1>6. Tax!Matches(batch[i]) \in SUBSET {batch[i].nin, batch[i].rc} /\ Tax!Matches(batch[i]) \subseteq Taxpayers
  BY DEF Tax!Matches
<1>7. IsFiniteSet(Tax!Matches(batch[i]))
  BY <1>5, <1>6, FS_Subset
<1>. QED  BY <1>2, <1>3, <1>4, <1>6, <1>7

LEMMA Bumped ==
    ASSUME NEW j \in Tax!Import, NEW what \in {"created", "updated", "skipped"}
    PROVE  LET k == Tax!Bump(j, what)
           IN  /\ k \in Tax!Import /\ k.batch = j.batch /\ k.dry = j.dry /\ k.seen = j.seen /\ k.i = j.i + 1
               /\ k.pc = IF j.i = Len(j.batch) THEN "done" ELSE "look"
               /\ k.counts = [created |-> IF what = "created" THEN j.counts.created + 1 ELSE j.counts.created,
                              updated |-> IF what = "updated" THEN j.counts.updated + 1 ELSE j.counts.updated,
                              skipped |-> IF what = "skipped" THEN j.counts.skipped + 1 ELSE j.counts.skipped]
<1> DEFINE c == [j.counts EXCEPT ![what] = @ + 1]
           p == IF j.i = Len(j.batch) THEN "done" ELSE "look"
           d == [created |-> IF what = "created" THEN j.counts.created + 1 ELSE j.counts.created,
                 updated |-> IF what = "updated" THEN j.counts.updated + 1 ELSE j.counts.updated,
                 skipped |-> IF what = "skipped" THEN j.counts.skipped + 1 ELSE j.counts.skipped]
<1>1. j.counts \in [created : Nat, updated : Nat, skipped : Nat] /\ j.i \in Nat
  BY DEF Tax!Import, Tax!Counts
<1>2. c = d
  <2>1. PICK a \in Nat, b \in Nat, e \in Nat : j.counts = [created |-> a, updated |-> b, skipped |-> e]
    BY <1>1
  <2>2. CASE what = "created"
    BY <2>1, <2>2
  <2>3. CASE what = "updated"
    BY <2>1, <2>3
  <2>4. CASE what = "skipped"
    BY <2>1, <2>4
  <2>. QED  BY <2>2, <2>3, <2>4
<1>3. d \in Tax!Counts
  BY <1>1 DEF Tax!Counts
<1>4. Tax!Bump(j, what) = [j EXCEPT !.counts = c, !.i = j.i + 1, !.pc = p]
  <2>1. Tax!Bump(j, what) = [j EXCEPT !.counts[what] = @ + 1, !.i = @ + 1, !.pc = p]
    BY Zenon DEF Tax!Bump
  <2>. QED  BY <2>1 DEF Tax!Import
<1>5. p \in {"idle", "look", "write", "done"} /\ j.i + 1 \in Nat
  BY <1>1
<1>. HIDE DEF c, d, p
<1>6. Tax!Bump(j, what) = [j EXCEPT !.counts = d, !.i = j.i + 1, !.pc = p]
  BY <1>2, <1>4
<1>7. Tax!Bump(j, what) \in Tax!Import
  BY <1>3, <1>5, <1>6 DEF Tax!Import
<1>8. /\ Tax!Bump(j, what).batch = j.batch /\ Tax!Bump(j, what).dry = j.dry /\ Tax!Bump(j, what).seen = j.seen
      /\ Tax!Bump(j, what).i = j.i + 1 /\ Tax!Bump(j, what).pc = p /\ Tax!Bump(j, what).counts = d
  BY <1>6 DEF Tax!Import
<1>. QED  BY <1>7, <1>8 DEF d, p

Begun(batch, dry) == [Tax!NoImport EXCEPT !.pc = "look", !.batch = batch, !.dry = dry]

LEMMA FollowsBegin ==
    /\ Tax!NoImport \in Tax!Import /\ Tax!NoImport.pc = "idle"
    /\ \A batch \in Tax!Files, dry \in BOOLEAN :
          LET k == Begun(batch, dry)
          IN  /\ k \in Tax!Import /\ k.pc = "look" /\ k.batch = batch /\ k.dry = dry /\ k.i = 1 /\ k.seen = {}
              /\ \A D : Tax!Follows(k, D)
<1>1. PICK c, e, o, n : c = Tax!NoCounts /\ e = <<>> /\ o = {} /\ n = Tax!NoImport
  OBVIOUS
<1>2. n = [pc |-> "idle", batch |-> e, dry |-> TRUE, i |-> 1, seen |-> o, counts |-> c,
           t |-> "none", there |-> FALSE]
  BY <1>1, Zenon DEF Tax!NoImport
<1>3. c \in Tax!Counts /\ e \in Tax!Files /\ o \in SUBSET Taxpayers
  BY <1>1 DEF Tax!NoCounts, Tax!Counts, Tax!Files
<1>4. n \in Tax!Import /\ n.i = 1 /\ n.seen = o /\ n.counts = c /\ n.pc = "idle"
  BY <1>2, <1>3 DEF Tax!Import
<1>5. ASSUME NEW batch \in Tax!Files, NEW dry \in BOOLEAN
      PROVE  LET k == Begun(batch, dry)
             IN  /\ k \in Tax!Import /\ k.pc = "look" /\ k.batch = batch /\ k.dry = dry /\ k.i = 1 /\ k.seen = {}
                 /\ \A D : Tax!Follows(k, D)
  <2>1. PICK k : k = Begun(batch, dry)
    OBVIOUS
  <2>2. k = [n EXCEPT !.pc = "look", !.batch = batch, !.dry = dry]
    BY <1>1, <2>1, Zenon DEF Begun
  <2>3. k \in Tax!Import
    BY <1>4, <2>2 DEF Tax!Import
  <2>4. k.pc = "look" /\ k.batch = batch /\ k.dry = dry /\ k.i = 1 /\ k.seen = {} /\ k.counts = Tax!NoCounts
    BY <1>1, <1>4, <2>2 DEF Tax!Import
  <2>5. k.i - 1 = 0
    BY <2>4
  <2>6. ASSUME NEW D PROVE Tax!Follows(k, D)
    <3>1. Tax!Seen(batch, 0) = {} /\ Tax!Tally(batch, D, 0) = Tax!NoCounts
      BY RowsBegin
    <3>. QED  BY <2>4, <2>5, <3>1 DEF Tax!Follows
  <2>. QED  BY <2>1, <2>3, <2>4, <2>6
<1>. QED  BY <1>1, <1>4, <1>5

\* A row passed over is counted as skipped; a row taken is counted when written.
LEMMA FollowsSkips ==
    ASSUME NEW j \in Tax!Import, NEW D, Tax!Follows(j, D), j.pc = "look", j.i >= 1, j.i <= Len(j.batch),
           ~FirstOf(j.batch, j.i), Tax!Seen(j.batch, j.i) = j.seen
    PROVE  Tax!Follows(Tax!Bump(j, "skipped"), D)
<1>1. PICK k : k = Tax!Bump(j, "skipped")
  OBVIOUS
<1>2. PICK a : a = Tax!Tally(j.batch, D, j.i - 1)
  OBVIOUS
<1>3. j.i \in Nat \ {0}
  BY DEF Tax!Import
<1>4. a = j.counts
  BY <1>2 DEF Tax!Follows
<1>5. Tax!Tally(j.batch, D, j.i) = [created |-> a.created, updated |-> a.updated, skipped |-> a.skipped + 1]
  BY <1>2, <1>3, TallyNext
<1>6. k.counts = [created |-> a.created, updated |-> a.updated, skipped |-> a.skipped + 1]
  <2>1. k.counts = [created |-> IF "skipped" = "created" THEN j.counts.created + 1 ELSE j.counts.created,
                    updated |-> IF "skipped" = "updated" THEN j.counts.updated + 1 ELSE j.counts.updated,
                    skipped |-> IF "skipped" = "skipped" THEN j.counts.skipped + 1 ELSE j.counts.skipped]
    BY <1>1, Bumped
  <2>. QED  BY <1>4, <2>1
<1>7. k.batch = j.batch /\ k.seen = j.seen /\ k.i = j.i + 1 /\ k.pc # "write"
  BY <1>1, Bumped
<1>8. k.i - 1 = j.i
  BY <1>3, <1>7
<1>9. k.counts = Tax!Tally(k.batch, D, k.i - 1) /\ k.seen = Tax!Seen(k.batch, k.i - 1)
  BY <1>5, <1>6, <1>7, <1>8
<1>. QED  BY <1>1, <1>7, <1>9 DEF Tax!Follows

LEMMA FollowsTakes ==
    ASSUME NEW j \in Tax!Import, NEW D, Tax!Follows(j, D), j.pc = "look", j.i >= 1, j.i <= Len(j.batch),
           j.batch[j.i].sound = TRUE, NEW t, Tax!Matches(j.batch[j.i]) = {t}, t \notin j.seen,
           NEW k, k.pc = "write", k.batch = j.batch, k.i = j.i, k.counts = j.counts, k.seen = j.seen \cup {t},
           k.t = t, k.there = (t \in D)
    PROVE  Tax!Follows(k, D)
<1>1. j.i \in Nat \ {0}
  BY DEF Tax!Import
<1>2. j.counts = Tax!Tally(j.batch, D, j.i - 1) /\ j.seen = Tax!Seen(j.batch, j.i - 1)
  BY DEF Tax!Follows
<1>3. FirstOf(j.batch, j.i)
  BY <1>2 DEF FirstOf
<1>4. j.i \in Tax!Counting(j.batch, j.i)
  BY <1>1, <1>3, CountingNext
<1>5. Tax!Seen(j.batch, j.i) = j.seen \cup {t}
  BY <1>1, <1>2, SeenNext
<1>6. k.counts = Tax!Tally(k.batch, D, k.i - 1)
  BY <1>2
<1>7. k.seen = Tax!Seen(k.batch, k.i)
  BY <1>5
<1>8. k.i \in Tax!Counting(k.batch, k.i) /\ Tax!Matches(k.batch[k.i]) = {k.t} /\ k.there = (k.t \in D)
  BY <1>4
<1>. QED  BY <1>6, <1>7, <1>8 DEF Tax!Follows

LEMMA FollowsCounts ==
    ASSUME NEW j \in Tax!Import, NEW D, Tax!Follows(j, D), j.pc = "write", j.i >= 1, j.i <= Len(j.batch)
    PROVE  Tax!Follows(Tax!Bump(j, IF j.there THEN "updated" ELSE "created"), D)
<1>1. PICK w : w = IF j.there THEN "updated" ELSE "created"
  OBVIOUS
<1>2. PICK k : k = Tax!Bump(j, w)
  OBVIOUS
<1>3. PICK a : a = Tax!Tally(j.batch, D, j.i - 1)
  OBVIOUS
<1>4. j.i \in Nat \ {0} /\ j.there \in BOOLEAN
  BY DEF Tax!Import
<1>5. /\ a = j.counts /\ j.seen = Tax!Seen(j.batch, j.i) /\ j.i \in Tax!Counting(j.batch, j.i)
      /\ Tax!Matches(j.batch[j.i]) = {j.t} /\ j.there = (j.t \in D)
  BY <1>3 DEF Tax!Follows
<1>6. FirstOf(j.batch, j.i)
  BY <1>4, <1>5, CountingNext
<1>7. w \in {"created", "updated", "skipped"}
  BY <1>1
<1>8. k.counts = [created |-> IF w = "created" THEN j.counts.created + 1 ELSE j.counts.created,
                  updated |-> IF w = "updated" THEN j.counts.updated + 1 ELSE j.counts.updated,
                  skipped |-> IF w = "skipped" THEN j.counts.skipped + 1 ELSE j.counts.skipped]
  BY <1>2, <1>7, Bumped
<1>9. k.counts = Tax!Tally(j.batch, D, j.i)
  <2>1. CASE j.there
    <3>1. w = "updated"
      BY <1>1, <2>1
    <3>2. k.counts = [created |-> a.created, updated |-> a.updated + 1, skipped |-> a.skipped]
      BY <1>5, <1>8, <3>1
    <3>3. Tax!Matches(j.batch[j.i]) \subseteq D
      BY <1>5, <2>1
    <3>. QED  BY <1>3, <1>4, <1>6, <3>2, <3>3, TallyNext
  <2>2. CASE ~j.there
    <3>1. w = "created"
      BY <1>1, <2>2
    <3>2. k.counts = [created |-> a.created + 1, updated |-> a.updated, skipped |-> a.skipped]
      BY <1>5, <1>8, <3>1
    <3>3. ~(Tax!Matches(j.batch[j.i]) \subseteq D)
      BY <1>5, <2>2
    <3>. QED  BY <1>3, <1>4, <1>6, <3>2, <3>3, TallyNext
  <2>. QED  BY <2>1, <2>2
<1>10. k.batch = j.batch /\ k.seen = j.seen /\ k.i = j.i + 1 /\ k.pc # "write"
  BY <1>2, <1>7, Bumped
<1>11. k.i - 1 = j.i
  BY <1>4, <1>10
<1>12. k.counts = Tax!Tally(k.batch, D, k.i - 1) /\ k.seen = Tax!Seen(k.batch, k.i - 1)
  BY <1>5, <1>9, <1>10, <1>11
<1>. QED  BY <1>1, <1>2, <1>10, <1>12 DEF Tax!Follows

\* The invariant of the imports, of the values of its variables: the page p, the
\* job j of the page, what is declared, changed and stale.
Sheet == [file : Tax!Files, phase : {"choose", "previewed", "done"}, preview : Tax!Counts,
          of : Tax!Files, result : Tax!Counts]
On(d) == {t \in Taxpayers : d[t] # Tax!None}
RowOf(j) ==
    j.pc # "idle" => /\ j.batch # <<>> /\ j.i >= 1
                     /\ IF j.pc = "done" THEN j.i = Len(j.batch) + 1 ELSE j.i <= Len(j.batch)
                     /\ j.pc = "write" => j.t \in Taxpayers
FileOf(p, j) ==
    /\ j.pc # "idle" => j.batch = p.file
    /\ (j.pc # "idle" /\ ~j.dry) => p.phase = "previewed" /\ p.of = p.file
    /\ (j.pc = "idle" /\ p.phase = "previewed") => p.of = p.file
Commits(p, j, d, D) ==
    /\ p.preview = Tax!Tally(p.of, D, Len(p.of)) /\ Tax!Follows(j, D)
    /\ \A t \in Taxpayers \ j.seen : t \in On(d) <=> t \in D
    /\ j.pc = "write" => (j.t \in On(d) <=> j.there)
DryOf(j, d) == j.pc # "idle" /\ j.dry /\ Tax!Clear(j.batch) => Tax!Follows(j, On(d))
WetOf(p, j, d) == Tax!Clear(p.of) =>
    /\ j.pc = "idle" /\ p.phase = "previewed" => p.preview = Tax!Tally(p.of, On(d), Len(p.of))
    /\ j.pc # "idle" /\ ~j.dry => \E D \in SUBSET Taxpayers : Commits(p, j, d, D)
PageStands(p, j, d, ch, st) ==
    /\ RowOf(j)
    /\ p.file = <<>> => p.phase = "choose" /\ j.pc = "idle"
    /\ ~st => FileOf(p, j)
    /\ ~ch => DryOf(j, d)
    /\ ~ch /\ ~st => WetOf(p, j, d)
    /\ p.phase = "done" /\ ~ch /\ ~st /\ Tax!Clear(p.of) => p.result = p.preview

ImportsStand == Tax!AtARow /\ Tax!OfTheFile /\ Tax!Counted /\ Tax!CommitAsPreviewed

LEMMA ImportsAre ==
    /\ ImportsStand <=> RowOf(s3["partner"]) /\ PageStands(s2, s3["page"], s1, s8, s9)
    /\ ImportsStand' <=> RowOf(s3'["partner"]) /\ PageStands(s2', s3'["page"], s1', s8', s9')
<1>1. /\ Tax!Known = On(s1)
      /\ Tax!Known' = On(s1')
  BY DEF Tax!Known, On
<1>2. /\ \A D : Tax!Committing(s3["page"], D) <=> Commits(s2, s3["page"], s1, D)
      /\ \A D : Tax!Committing(s3["page"], D)' <=> Commits(s2', s3'["page"], s1', D)
  BY <1>1, Zenon DEF Tax!Committing, Commits
<1>3. /\ Tax!Counted <=> (~s8 => DryOf(s3["page"], s1)) /\ (~s8 /\ ~s9 => WetOf(s2, s3["page"], s1))
      /\ Tax!Counted' <=> (~s8' => DryOf(s3'["page"], s1')) /\ (~s8' /\ ~s9' => WetOf(s2', s3'["page"], s1'))
  BY <1>1, <1>2, Zenon DEF Tax!Counted, DryOf, WetOf
<1>4. /\ Tax!OfTheFile <=> (~s9 => FileOf(s2, s3["page"]))
      /\ Tax!OfTheFile' <=> (~s9' => FileOf(s2', s3'["page"]))
  BY Zenon DEF Tax!OfTheFile, FileOf
<1>5. /\ Tax!AtARow <=> /\ RowOf(s3["partner"]) /\ RowOf(s3["page"])
                        /\ s2.file = <<>> => s2.phase = "choose" /\ s3["page"].pc = "idle"
      /\ Tax!AtARow' <=> /\ RowOf(s3'["partner"]) /\ RowOf(s3'["page"])
                         /\ s2'.file = <<>> => s2'.phase = "choose" /\ s3'["page"].pc = "idle"
  BY DEF Tax!AtARow, Tax!Slots, RowOf
<1>. QED  BY <1>3, <1>4, <1>5, Zenon DEF ImportsStand, PageStands, Tax!CommitAsPreviewed

\* What a step of LookRow makes of the job j, and of WriteRow.
Looked(j, k, d) ==
    \/ /\ ~j.batch[j.i].sound \/ Tax!Matches(j.batch[j.i]) = {}
       /\ k = Tax!Bump(j, "skipped")
    \/ /\ j.batch[j.i].sound
       /\ \E t \in Tax!Matches(j.batch[j.i]) :
           k = IF Tax!Repeats(j, t) THEN Tax!Bump(j, "skipped")
               ELSE [j EXCEPT !.pc = "write", !.seen = @ \cup {t}, !.t = t, !.there = (d[t] # Tax!None)]
Fails(j, d) == ~j.dry /\ (j.batch[j.i].amount > Largest \/ (~j.there /\ d[j.t] # Tax!None))
Written(j, d) == Tax!Bump(j, IF Fails(j, d) THEN "skipped" ELSE IF j.there THEN "updated" ELSE "created")

LEMMA RowBumped ==
    ASSUME NEW j \in Tax!Import, NEW what \in {"created", "updated", "skipped"},
           RowOf(j), j.pc \in {"look", "write"}
    PROVE  LET k == Tax!Bump(j, what)
           IN  /\ k \in Tax!Import /\ RowOf(k) /\ k.batch = j.batch /\ k.dry = j.dry /\ k.pc \in {"look", "done"}
               /\ k.seen = j.seen
<1>1. PICK k : k = Tax!Bump(j, what)
  OBVIOUS
<1>2. /\ k \in Tax!Import /\ k.batch = j.batch /\ k.dry = j.dry /\ k.seen = j.seen /\ k.i = j.i + 1
      /\ k.pc = IF j.i = Len(j.batch) THEN "done" ELSE "look"
  BY <1>1, Bumped
<1>3. j.batch # <<>> /\ j.i >= 1 /\ j.i <= Len(j.batch) /\ j.i \in Nat /\ j.batch \in Tax!Files
  BY DEF RowOf, Tax!Import
<1>4. Len(j.batch) \in Nat
  BY <1>3, RowOfBatch
<1>5. RowOf(k)
  <2>1. k.batch # <<>> /\ k.i >= 1
    BY <1>2, <1>3
  <2>2. IF k.pc = "done" THEN k.i = Len(k.batch) + 1 ELSE k.i <= Len(k.batch)
    BY <1>2, <1>3, <1>4
  <2>3. k.pc # "write"
    BY <1>2
  <2>. QED  BY <2>1, <2>2, <2>3 DEF RowOf
<1>. QED  BY <1>1, <1>2, <1>5

LEMMA SameTruth == \A t, D : \A b \in BOOLEAN : (b <=> t \in D) => b = (t \in D)
  OBVIOUS

LEMMA JobLooks ==
    ASSUME NEW j \in Tax!Import, NEW d \in [Taxpayers -> Int], NEW k, Looked(j, k, d), RowOf(j), j.pc = "look"
    PROVE  /\ k \in Tax!Import /\ RowOf(k) /\ k.batch = j.batch /\ k.dry = j.dry /\ k.pc # "idle"
           /\ j.seen \subseteq k.seen
           /\ k.pc = "write" => (k.t \in On(d) <=> k.there)
           /\ \A D : Tax!Clear(j.batch) /\ Tax!Follows(j, D) /\ (\A t \in Taxpayers \ j.seen : t \in On(d) <=> t \in D)
                       => Tax!Follows(k, D)
<1> DEFINE row == j.batch[j.i]
<1>1. j.batch # <<>> /\ j.i >= 1 /\ j.i <= Len(j.batch) /\ j.i \in Nat \ {0} /\ j.batch \in Tax!Files
  BY DEF RowOf, Tax!Import
<1>2. /\ j.i \in DOMAIN j.batch /\ row.sound \in BOOLEAN /\ Tax!Matches(row) \subseteq Taxpayers
      /\ IsFiniteSet(Tax!Matches(row))
  BY <1>1, RowOfBatch
<1>3. ASSUME Tax!Clear(j.batch), NEW t \in Tax!Matches(row) PROVE Tax!Matches(row) = {t}
  <2>1. Tax!Cardinality(Tax!Matches(row)) <= 1
    BY <1>2, <1>3 DEF Tax!Clear
  <2>2. Cardinality(Tax!Matches(row)) <= 1 /\ Cardinality(Tax!Matches(row)) \in Nat
    BY <1>2, <2>1, TaxSets, FS_CardinalityType
  <2>3. Cardinality(Tax!Matches(row)) # 0
    BY <1>2, <1>3, FS_EmptySet
  <2>4. Cardinality(Tax!Matches(row)) = 1
    BY <2>2, <2>3
  <2>5. \E x : Tax!Matches(row) = {x}
    BY <1>2, <2>4, FS_Singleton
  <2>. QED  BY <1>3, <2>5
<1>4. CASE ~row.sound \/ Tax!Matches(row) = {}
  <2>1. k = Tax!Bump(j, "skipped")
    BY <1>4 DEF Looked
  <2>2. /\ k \in Tax!Import /\ RowOf(k) /\ k.batch = j.batch /\ k.dry = j.dry /\ k.pc \in {"look", "done"}
        /\ k.seen = j.seen
    BY <2>1, RowBumped
  <2>3. ASSUME NEW D, Tax!Follows(j, D) PROVE Tax!Follows(k, D)
    <3>1. j.seen = Tax!Seen(j.batch, j.i - 1)
      BY <2>3 DEF Tax!Follows
    <3>2. ~FirstOf(j.batch, j.i)
      BY <1>4 DEF FirstOf
    <3>3. Tax!Seen(j.batch, j.i) = j.seen
      <4>1. Tax!Seen(j.batch, j.i) =
              IF row.sound THEN Tax!Seen(j.batch, j.i - 1) \cup Tax!Matches(row) ELSE Tax!Seen(j.batch, j.i - 1)
        BY <1>1, <1>2, SeenNext
      <4>. QED  BY <1>4, <3>1, <4>1
    <3>. QED  BY <1>1, <2>1, <2>3, <3>2, <3>3, FollowsSkips
  <2>. QED  BY <2>2, <2>3
<1>5. CASE row.sound /\ Tax!Matches(row) # {}
  <2>1. PICK t \in Tax!Matches(row) :
           k = IF Tax!Repeats(j, t) THEN Tax!Bump(j, "skipped")
               ELSE [j EXCEPT !.pc = "write", !.seen = @ \cup {t}, !.t = t, !.there = (d[t] # Tax!None)]
    BY <1>5 DEF Looked
  <2>2. CASE t \in j.seen
    <3>1. k = Tax!Bump(j, "skipped")
      BY <2>1, <2>2 DEF Tax!Repeats
    <3>2. /\ k \in Tax!Import /\ RowOf(k) /\ k.batch = j.batch /\ k.dry = j.dry /\ k.pc \in {"look", "done"}
          /\ k.seen = j.seen
      BY <3>1, RowBumped
    <3>3. ASSUME NEW D, Tax!Clear(j.batch), Tax!Follows(j, D) PROVE Tax!Follows(k, D)
      <4>1. j.seen = Tax!Seen(j.batch, j.i - 1)
        BY <3>3 DEF Tax!Follows
      <4>2. Tax!Matches(row) = {t}
        BY <1>3, <2>1, <3>3
      <4>3. ~FirstOf(j.batch, j.i)
        BY <2>2, <4>1, <4>2 DEF FirstOf
      <4>4. Tax!Seen(j.batch, j.i) = Tax!Seen(j.batch, j.i - 1) \cup Tax!Matches(row)
        BY <1>1, <1>2, <1>5, SeenNext
      <4>5. Tax!Seen(j.batch, j.i) = j.seen
        BY <2>2, <4>1, <4>2, <4>4
      <4>. QED  BY <1>1, <3>1, <3>3, <4>3, <4>5, FollowsSkips
    <3>. QED  BY <3>2, <3>3
  <2>3. CASE t \notin j.seen
    <3>1. t \in Taxpayers /\ (d[t] # Tax!None) \in BOOLEAN
      BY <1>2, <2>1
    <3>2. PICK b \in BOOLEAN : b = (d[t] # Tax!None)
      BY <3>1
    <3>3. k = [j EXCEPT !.pc = "write", !.seen = @ \cup {t}, !.t = t, !.there = b]
      BY <2>1, <2>3, <3>2 DEF Tax!Repeats
    <3>4. k \in Tax!Import
      BY <3>1, <3>3 DEF Tax!Import
    <3>5. /\ k.pc = "write" /\ k.batch = j.batch /\ k.i = j.i /\ k.counts = j.counts /\ k.seen = j.seen \cup {t}
          /\ k.t = t /\ k.there = b /\ k.dry = j.dry
      BY <3>3 DEF Tax!Import
    <3>6. RowOf(k)
      BY <1>1, <3>1, <3>5 DEF RowOf
    <3>7. k.t \in On(d) <=> k.there
      BY <3>1, <3>2, <3>5 DEF On
    <3>8. ASSUME NEW D, Tax!Clear(j.batch), Tax!Follows(j, D), \A u \in Taxpayers \ j.seen : u \in On(d) <=> u \in D
          PROVE  Tax!Follows(k, D)
      <4>1. Tax!Matches(row) = {t}
        BY <1>3, <2>1, <3>8
      <4>2. k.there = (t \in D)
        <5>1. t \in On(d) <=> t \in D
          BY <2>3, <3>1, <3>8
        <5>2. b <=> t \in D
          BY <3>5, <3>7, <5>1
        <5>3. b = (t \in D)
          BY <5>2, SameTruth
        <5>. QED  BY <3>5, <5>3, Zenon
      <4>3. row.sound = TRUE
        BY <1>2, <1>5
      <4>. QED  BY <1>1, <2>3, <3>5, <3>8, <4>1, <4>2, <4>3, FollowsTakes
    <3>. QED  BY <3>4, <3>5, <3>6, <3>7, <3>8
  <2>. QED  BY <2>2, <2>3
<1>. QED  BY <1>4, <1>5

LEMMA JobWrites ==
    ASSUME NEW j \in Tax!Import, NEW d \in [Taxpayers -> Int], RowOf(j), j.pc = "write"
    PROVE  LET k == Written(j, d)
           IN  /\ k \in Tax!Import /\ RowOf(k) /\ k.batch = j.batch /\ k.dry = j.dry /\ k.pc \in {"look", "done"}
               /\ k.seen = j.seen
               /\ \A D : ~Fails(j, d) /\ Tax!Follows(j, D) => Tax!Follows(k, D)
<1>1. PICK w : w = IF Fails(j, d) THEN "skipped" ELSE IF j.there THEN "updated" ELSE "created"
  OBVIOUS
<1>2. PICK k : k = Written(j, d)
  OBVIOUS
<1>3. k = Tax!Bump(j, w) /\ w \in {"created", "updated", "skipped"}
  BY <1>1, <1>2 DEF Written
<1>4. /\ k \in Tax!Import /\ RowOf(k) /\ k.batch = j.batch /\ k.dry = j.dry /\ k.pc \in {"look", "done"}
      /\ k.seen = j.seen
  BY <1>3, RowBumped
<1>5. j.i >= 1 /\ j.i <= Len(j.batch)
  BY DEF RowOf
<1>6. ASSUME NEW D, ~Fails(j, d), Tax!Follows(j, D) PROVE Tax!Follows(k, D)
  <2>1. Tax!Follows(Tax!Bump(j, IF j.there THEN "updated" ELSE "created"), D)
    BY <1>5, <1>6, FollowsCounts
  <2>. QED  BY <1>1, <1>3, <1>6, <2>1
<1>. QED  BY <1>2, <1>4, <1>6

\* A row of the page's file is looked up, and written.
LEMMA PageLooks ==
    ASSUME NEW p \in Sheet, NEW j \in Tax!Import, NEW d \in [Taxpayers -> Int], NEW ch \in BOOLEAN, NEW st \in BOOLEAN,
           PageStands(p, j, d, ch, st), j.pc = "look", NEW k, Looked(j, k, d)
    PROVE  k \in Tax!Import /\ PageStands(p, k, d, ch, st)
<1>1. RowOf(j)
  BY DEF PageStands
<1>2. /\ k \in Tax!Import /\ RowOf(k) /\ k.batch = j.batch /\ k.dry = j.dry /\ k.pc # "idle"
      /\ j.seen \subseteq k.seen
      /\ k.pc = "write" => (k.t \in On(d) <=> k.there)
  BY <1>1, JobLooks
<1>3. \A D : Tax!Clear(j.batch) /\ Tax!Follows(j, D) /\ (\A t \in Taxpayers \ j.seen : t \in On(d) <=> t \in D)
               => Tax!Follows(k, D)
  BY <1>1, JobLooks
<1>4. p.file # <<>>
  BY DEF PageStands
<1>5. ASSUME ~st PROVE FileOf(p, j) /\ FileOf(p, k)
  BY <1>2, <1>5 DEF PageStands, FileOf
<1>6. ASSUME ~ch PROVE DryOf(k, d)
  <2>1. SUFFICES ASSUME k.dry, Tax!Clear(k.batch) PROVE Tax!Follows(k, On(d))
    BY DEF DryOf
  <2>2. Tax!Follows(j, On(d))
    BY <1>2, <1>6, <2>1 DEF PageStands, DryOf
  <2>. QED  BY <1>2, <1>3, <2>1, <2>2
<1>7. ASSUME ~ch, ~st PROVE WetOf(p, k, d)
  <2>1. SUFFICES ASSUME Tax!Clear(p.of), ~k.dry PROVE \E D \in SUBSET Taxpayers : Commits(p, k, d, D)
    BY <1>2 DEF WetOf
  <2>2. j.batch = p.of
    BY <1>2, <1>5, <1>7, <2>1 DEF FileOf
  <2>3. PICK D \in SUBSET Taxpayers : Commits(p, j, d, D)
    BY <1>2, <1>7, <2>1 DEF PageStands, WetOf
  <2>4. /\ p.preview = Tax!Tally(p.of, D, Len(p.of)) /\ Tax!Follows(j, D)
        /\ \A t \in Taxpayers \ j.seen : t \in On(d) <=> t \in D
    BY <2>3 DEF Commits
  <2>5. Tax!Follows(k, D)
    BY <1>3, <2>1, <2>2, <2>4
  <2>6. Commits(p, k, d, D)
    BY <1>2, <2>4, <2>5 DEF Commits
  <2>. QED  BY <2>6
<1>8. p.phase = "done" /\ ~ch /\ ~st /\ Tax!Clear(p.of) => p.result = p.preview
  BY DEF PageStands
<1>. QED  BY <1>2, <1>4, <1>5, <1>6, <1>7, <1>8 DEF PageStands

LEMMA PageWrites ==
    ASSUME NEW p \in Sheet, NEW j \in Tax!Import, NEW d \in [Taxpayers -> Int], NEW ch \in BOOLEAN, NEW st \in BOOLEAN,
           PageStands(p, j, d, ch, st), j.pc = "write",
           NEW e, e = IF j.dry \/ Fails(j, d) THEN d ELSE [d EXCEPT ![j.t] = j.batch[j.i].amount]
    PROVE  /\ Written(j, d) \in Tax!Import /\ PageStands(p, Written(j, d), e, ch, st)
<1>1. RowOf(j)
  BY DEF PageStands
<1>2. PICK k : k = Written(j, d)
  OBVIOUS
<1>3. /\ k \in Tax!Import /\ RowOf(k) /\ k.batch = j.batch /\ k.dry = j.dry /\ k.pc \in {"look", "done"}
      /\ k.seen = j.seen
      /\ \A D : ~Fails(j, d) /\ Tax!Follows(j, D) => Tax!Follows(k, D)
  BY <1>1, <1>2, JobWrites
<1>4. p.file # <<>>
  BY DEF PageStands
<1>5. ASSUME ~st PROVE FileOf(p, j) /\ FileOf(p, k)
  BY <1>3, <1>5 DEF PageStands, FileOf
<1>6. ASSUME ~ch PROVE DryOf(k, e)
  <2>1. SUFFICES ASSUME k.dry, Tax!Clear(k.batch) PROVE Tax!Follows(k, On(e))
    BY DEF DryOf
  <2>2. Tax!Follows(j, On(d))
    BY <1>3, <1>6, <2>1 DEF PageStands, DryOf
  <2>3. ~Fails(j, d) /\ e = d
    BY <1>3, <2>1 DEF Fails
  <2>. QED  BY <1>3, <2>2, <2>3
<1>7. ASSUME ~ch, ~st PROVE WetOf(p, k, e)
  <2>1. SUFFICES ASSUME Tax!Clear(p.of), ~k.dry PROVE \E D \in SUBSET Taxpayers : Commits(p, k, e, D)
    BY <1>3 DEF WetOf
  <2>2. j.batch = p.of
    BY <1>3, <1>5, <1>7, <2>1 DEF FileOf
  <2>3. PICK D \in SUBSET Taxpayers : Commits(p, j, d, D)
    BY <1>3, <1>7, <2>1 DEF PageStands, WetOf
  <2>4. /\ p.preview = Tax!Tally(p.of, D, Len(p.of)) /\ Tax!Follows(j, D)
        /\ \A t \in Taxpayers \ j.seen : t \in On(d) <=> t \in D
        /\ j.t \in On(d) <=> j.there
    BY <2>3 DEF Commits
  <2>5. /\ j.batch # <<>> /\ j.i >= 1 /\ j.i <= Len(j.batch) /\ j.i \in Nat \ {0} /\ j.batch \in Tax!Files
        /\ j.t \in Taxpayers /\ j.there \in BOOLEAN
    BY <1>1 DEF RowOf, Tax!Import
  <2>6. j.i \in DOMAIN j.batch /\ j.batch[j.i].amount \in Int
    BY <2>5, RowOfBatch
  <2>7. j.batch[j.i].amount <= Largest
    BY <2>1, <2>2, <2>6 DEF Tax!Clear
  <2>8. ~(j.batch[j.i].amount > Largest)
    BY <2>6, <2>7, TaxNumbers
  <2>9. j.there \/ d[j.t] = Tax!None
    BY <2>4, <2>5 DEF On
  <2>10. ~Fails(j, d)
    BY <2>8, <2>9 DEF Fails
  <2>11. e = [d EXCEPT ![j.t] = j.batch[j.i].amount]
    BY <1>3, <2>1, <2>10
  <2>12. j.t \in j.seen
    <3>1. /\ j.seen = Tax!Seen(j.batch, j.i) /\ j.i \in Tax!Counting(j.batch, j.i)
          /\ Tax!Matches(j.batch[j.i]) = {j.t}
      BY <2>4 DEF Tax!Follows
    <3>2. j.batch[j.i].sound
      BY <3>1 DEF Tax!Counting
    <3>3. Tax!Seen(j.batch, j.i) = Tax!Seen(j.batch, j.i - 1) \cup Tax!Matches(j.batch[j.i])
      <4>1. j.batch[j.i].sound \in BOOLEAN
        BY <2>5, RowOfBatch
      <4>. QED  BY <2>5, <3>2, <4>1, SeenNext
    <3>. QED  BY <3>1, <3>3
  <2>13. \A t \in Taxpayers \ k.seen : t \in On(e) <=> t \in D
    BY <1>3, <2>4, <2>11, <2>12 DEF On
  <2>14. Tax!Follows(k, D)
    BY <1>3, <2>4, <2>10
  <2>15. Commits(p, k, e, D)
    BY <1>3, <2>4, <2>13, <2>14 DEF Commits
  <2>. QED  BY <2>15
<1>8. p.phase = "done" /\ ~ch /\ ~st /\ Tax!Clear(p.of) => p.result = p.preview
  BY DEF PageStands
<1>. QED  BY <1>2, <1>3, <1>4, <1>5, <1>6, <1>7, <1>8 DEF PageStands

\* The page starts a dry run of its file, and a commit of what it previewed.
LEMMA PageBegins ==
    ASSUME NEW p \in Sheet, NEW j \in Tax!Import, NEW d \in [Taxpayers -> Int],
           NEW ch \in BOOLEAN, NEW st \in BOOLEAN, NEW c2 \in BOOLEAN,
           PageStands(p, j, d, ch, st), j.pc = "idle", p.file # <<>>, NEW dry \in BOOLEAN,
           IF dry THEN p.phase # "done" ELSE p.phase = "previewed" /\ c2 = ch
    PROVE  LET k == Begun(p.file, dry)
           IN  k \in Tax!Import /\ PageStands(p, k, d, c2, st)
<1>2. p.file \in Tax!Files
  BY DEF Sheet
<1>1. PICK k : k = Begun(p.file, dry)
  OBVIOUS
<1>3. /\ k \in Tax!Import /\ k.pc = "look" /\ k.batch = p.file /\ k.dry = dry /\ k.i = 1 /\ k.seen = {}
      /\ \A D : Tax!Follows(k, D)
  BY <1>1, <1>2, FollowsBegin
<1>4. RowOf(k)
  <2>1. Len(p.file) >= 1
    <3>1. p.file \in Batches
      BY <1>2 DEF Tax!Files
    <3>2. p.file \in Seq([nin : Taxpayers \cup {"none", "unknown"},
                          rc : Taxpayers \cup {"none", "unknown"}, sound : BOOLEAN, amount : Int])
      BY <3>1, TaxNumbers
    <3>. QED  BY <3>2, EmptySeq, LenProperties
  <2>. QED  BY <1>3, <2>1 DEF RowOf
<1>5. ASSUME ~st PROVE FileOf(p, k)
  <2>1. ~dry => p.of = p.file
    BY <1>5 DEF PageStands, FileOf
  <2>. QED  BY <1>3, <2>1 DEF FileOf
<1>6. DryOf(k, d)
  BY <1>3 DEF DryOf
<1>7. ASSUME ~c2, ~st PROVE WetOf(p, k, d)
  <2>1. SUFFICES ASSUME Tax!Clear(p.of), ~dry PROVE \E D \in SUBSET Taxpayers : Commits(p, k, d, D)
    BY <1>3 DEF WetOf
  <2>2. p.preview = Tax!Tally(p.of, On(d), Len(p.of))
    BY <1>7, <2>1 DEF PageStands, WetOf
  <2>3. On(d) \in SUBSET Taxpayers
    BY DEF On
  <2>4. Commits(p, k, d, On(d))
    BY <1>3, <2>2 DEF Commits
  <2>. QED  BY <2>3, <2>4
<1>8. p.phase # "done"
  OBVIOUS
<1>. QED  BY <1>1, <1>3, <1>4, <1>5, <1>6, <1>7, <1>8 DEF PageStands

\* The page once its import is answered.
Answered(p, j) == IF j.dry THEN [p EXCEPT !.phase = "previewed", !.preview = j.counts, !.of = j.batch]
                  ELSE [p EXCEPT !.phase = "done", !.result = j.counts]

\* The answer to a dry run is the preview, the answer to a commit the result.
LEMMA PageAnswers ==
    ASSUME NEW p \in Sheet, NEW j \in Tax!Import, NEW d \in [Taxpayers -> Int], NEW ch \in BOOLEAN, NEW st \in BOOLEAN,
           PageStands(p, j, d, ch, st), j.pc = "done",
           NEW q, q = Answered(p, j)
    PROVE  q \in Sheet /\ PageStands(q, Tax!NoImport, d, ch, st)
<1>1. j.counts \in Tax!Counts /\ j.batch \in Tax!Files /\ j.dry \in BOOLEAN /\ j.i \in Nat
  BY DEF Tax!Import
<1>2. /\ q \in Sheet /\ q.file = p.file
      /\ j.dry => q.phase = "previewed" /\ q.preview = j.counts /\ q.of = j.batch
      /\ ~j.dry => q.phase = "done" /\ q.result = j.counts /\ q.of = p.of /\ q.preview = p.preview
  <2>1. CASE j.dry
    <3>1. q = [p EXCEPT !.phase = "previewed", !.preview = j.counts, !.of = j.batch]
      BY <2>1 DEF Answered
    <3>. QED  BY <1>1, <2>1, <3>1 DEF Sheet
  <2>2. CASE ~j.dry
    <3>1. q = [p EXCEPT !.phase = "done", !.result = j.counts]
      BY <2>2 DEF Answered
    <3>. QED  BY <1>1, <2>2, <3>1 DEF Sheet
  <2>. QED  BY <2>1, <2>2
<1>3. PICK n : n = Tax!NoImport
  OBVIOUS
<1>4. n.pc = "idle"
  BY <1>3, FollowsBegin
<1>5. RowOf(j) /\ p.file # <<>>
  BY DEF PageStands
<1>6. j.i - 1 = Len(j.batch)
  <2>1. Len(j.batch) \in Nat
    BY <1>1, TaxNumbers, EmptySeq, LenProperties DEF Tax!Files
  <2>. QED  BY <1>1, <1>5, <2>1 DEF RowOf
<1>7. ASSUME NEW D, Tax!Follows(j, D) PROVE j.counts = Tax!Tally(j.batch, D, Len(j.batch))
  BY <1>6, <1>7 DEF Tax!Follows
<1>8. ASSUME ~st PROVE FileOf(q, n)
  <2>1. j.batch = p.file
    BY <1>8 DEF PageStands, FileOf
  <2>. QED  BY <1>2, <1>4, <2>1 DEF FileOf
<1>9. ASSUME ~ch, ~st PROVE WetOf(q, n, d)
  <2>1. SUFFICES ASSUME Tax!Clear(q.of), q.phase = "previewed" PROVE q.preview = Tax!Tally(q.of, On(d), Len(q.of))
    BY <1>4 DEF WetOf
  <2>2. j.dry /\ q.of = j.batch
    BY <1>1, <1>2, <2>1
  <2>3. Tax!Follows(j, On(d))
    BY <1>9, <2>1, <2>2 DEF PageStands, DryOf
  <2>. QED  BY <1>2, <1>7, <2>2, <2>3
<1>10. ASSUME q.phase = "done", ~ch, ~st, Tax!Clear(q.of) PROVE q.result = q.preview
  <2>1. ~j.dry /\ q.of = p.of
    BY <1>1, <1>2, <1>10
  <2>2. j.batch = p.of
    BY <1>10, <2>1 DEF PageStands, FileOf
  <2>3. PICK D \in SUBSET Taxpayers : Commits(p, j, d, D)
    BY <1>10, <2>1 DEF PageStands, WetOf
  <2>4. p.preview = Tax!Tally(p.of, D, Len(p.of)) /\ Tax!Follows(j, D)
    BY <2>3 DEF Commits
  <2>. QED  BY <1>2, <1>7, <2>1, <2>2, <2>4
<1>11. RowOf(n) /\ DryOf(n, d)
  BY <1>4 DEF RowOf, DryOf
<1>12. PageStands(q, n, d, ch, st)
  BY <1>2, <1>5, <1>8, <1>9, <1>10, <1>11 DEF PageStands
<1>. QED  BY <1>2, <1>3, <1>12

\* Another file is chosen.
Chosen(p, b, c) == [p EXCEPT !.file = b, !.phase = "choose", !.preview = c, !.result = c]

LEMMA PageChooses ==
    ASSUME NEW p \in Sheet, NEW j \in Tax!Import, NEW d \in [Taxpayers -> Int], NEW ch \in BOOLEAN, NEW st \in BOOLEAN,
           PageStands(p, j, d, ch, st), NEW b \in Batches, NEW c \in Tax!Counts,
           NEW q, q = Chosen(p, b, c),
           NEW after, after = (st \/ j.pc # "idle")
    PROVE  q \in Sheet /\ PageStands(q, j, d, ch, after)
<1>1. b \in Tax!Files /\ b # <<>>
  BY TaxNumbers DEF Tax!Files
<1>2. q \in Sheet /\ q.file = b /\ q.phase = "choose"
  BY <1>1 DEF Sheet, Chosen
<1>3. RowOf(j) /\ (~ch => DryOf(j, d))
  BY DEF PageStands
<1>4. ASSUME ~after PROVE FileOf(q, j) /\ WetOf(q, j, d)
  BY <1>2, <1>4 DEF FileOf, WetOf
<1>. QED  BY <1>1, <1>2, <1>3, <1>4 DEF PageStands

\* The partner's job is nobody's concern but its own.
LEMMA ImportsFollow ==
    ASSUME s2' \in Sheet, s3' \in [Tax!Slots -> Tax!Import], s1' \in [Taxpayers -> Int],
           s8' \in BOOLEAN, s9' \in BOOLEAN,
           RowOf(s3'["partner"]), PageStands(s2', s3'["page"], s1', s8', s9')
    PROVE  Declared' /\ ImportsStand'
<1>1. Declared'
  BY DEF Declared, Sheet
<1>2. ImportsStand'
  BY ImportsAre
<1>. QED  BY <1>1, <1>2

LEMMA ImportsNow ==
    ASSUME Declared, ImportsStand
    PROVE  /\ s2 \in Sheet /\ s1 \in [Taxpayers -> Int] /\ s8 \in BOOLEAN /\ s9 \in BOOLEAN
           /\ s3 \in [Tax!Slots -> Tax!Import] /\ s3["page"] \in Tax!Import /\ s3["partner"] \in Tax!Import
           /\ RowOf(s3["partner"]) /\ RowOf(s3["page"]) /\ PageStands(s2, s3["page"], s1, s8, s9)
<1>1. s3 \in [Tax!Slots -> Tax!Import] /\ "page" \in Tax!Slots /\ "partner" \in Tax!Slots
  BY DEF Declared, Tax!Slots
<1>2. s3["page"] \in Tax!Import /\ s3["partner"] \in Tax!Import
  BY <1>1
<1>3. RowOf(s3["partner"]) /\ PageStands(s2, s3["page"], s1, s8, s9)
  BY ImportsAre
<1>. QED  BY <1>1, <1>2, <1>3 DEF Declared, Sheet, PageStands

\* What holds of the page still holds when declarations change and it is noted.
LEMMA PageWarned ==
    ASSUME NEW p, NEW j, NEW d, NEW e, NEW ch \in BOOLEAN, NEW c2 \in BOOLEAN, NEW st,
           PageStands(p, j, d, ch, st), IF c2 THEN TRUE ELSE ~ch /\ e = d
    PROVE  PageStands(p, j, e, c2, st)
  BY DEF PageStands

LEMMA ImportLooks ==
    ASSUME Declared, ImportsStand, NEW s \in Tax!Slots, Tax!LookRow(s)
    PROVE  Declared' /\ ImportsStand'
<1>1. /\ s2 \in Sheet /\ s1 \in [Taxpayers -> Int] /\ s8 \in BOOLEAN /\ s9 \in BOOLEAN
      /\ s3 \in [Tax!Slots -> Tax!Import] /\ s3["page"] \in Tax!Import /\ s3["partner"] \in Tax!Import
      /\ RowOf(s3["partner"]) /\ RowOf(s3["page"]) /\ PageStands(s2, s3["page"], s1, s8, s9)
  BY ImportsNow
<1>2. s3[s].pc = "look" /\ UNCHANGED <<s1, s2, s8, s9>>
  BY DEF Tax!LookRow
<1>3. PICK k : Looked(s3[s], k, s1) /\ s3' = [s3 EXCEPT ![s] = k]
  BY Zenon DEF Tax!LookRow, Looked
<1>4. CASE s = "page"
  <2>1. k \in Tax!Import /\ PageStands(s2, k, s1, s8, s9)
    BY <1>1, <1>2, <1>3, <1>4, PageLooks
  <2>2. s3' \in [Tax!Slots -> Tax!Import] /\ s3'["page"] = k /\ s3'["partner"] = s3["partner"]
    BY <1>1, <1>3, <1>4, <2>1 DEF Tax!Slots
  <2>. QED  BY <1>1, <1>2, <2>1, <2>2, ImportsFollow
<1>5. CASE s = "partner"
  <2>1. k \in Tax!Import /\ RowOf(k)
    BY <1>1, <1>2, <1>3, <1>5, JobLooks
  <2>2. s3' \in [Tax!Slots -> Tax!Import] /\ s3'["page"] = s3["page"] /\ s3'["partner"] = k
    BY <1>1, <1>3, <1>5, <2>1 DEF Tax!Slots
  <2>. QED  BY <1>1, <1>2, <2>1, <2>2, ImportsFollow
<1>. QED  BY <1>4, <1>5 DEF Tax!Slots

LEMMA ImportWrites ==
    ASSUME Declared, ImportsStand, NEW s \in Tax!Slots, Tax!WriteRow(s)
    PROVE  Declared' /\ ImportsStand'
<1>1. /\ s2 \in Sheet /\ s1 \in [Taxpayers -> Int] /\ s8 \in BOOLEAN /\ s9 \in BOOLEAN
      /\ s3 \in [Tax!Slots -> Tax!Import] /\ s3["page"] \in Tax!Import /\ s3["partner"] \in Tax!Import
      /\ RowOf(s3["partner"]) /\ RowOf(s3["page"]) /\ PageStands(s2, s3["page"], s1, s8, s9)
  BY ImportsNow
<1>2. s3[s].pc = "write" /\ UNCHANGED <<s2, s9>>
  BY DEF Tax!WriteRow
<1>3. PICK j, k, f : j = s3[s] /\ k = Written(j, s1) /\ f = Fails(j, s1)
  OBVIOUS
<1>4. /\ s3' = [s3 EXCEPT ![s] = k]
      /\ s1' = IF ~j.dry /\ ~f THEN [s1 EXCEPT ![j.t] = j.batch[j.i].amount] ELSE s1
      /\ s8' = (s8 \/ (~j.dry /\ ~f /\ s = "partner"))
  BY <1>3, Zenon DEF Tax!WriteRow, Written, Fails
<1>5. j \in Tax!Import /\ RowOf(j) /\ j.pc = "write"
  BY <1>1, <1>2, <1>3 DEF Tax!Slots
<1>6. j.t \in Taxpayers /\ j.batch[j.i].amount \in Int
  <2>1. j.batch # <<>> /\ j.i >= 1 /\ j.i <= Len(j.batch) /\ j.i \in Nat /\ j.batch \in Tax!Files /\ j.t \in Taxpayers
    BY <1>5 DEF RowOf, Tax!Import
  <2>. QED  BY <2>1, RowOfBatch
<1>7. s1' \in [Taxpayers -> Int] /\ s8' \in BOOLEAN
  BY <1>1, <1>4, <1>6
<1>8. CASE s = "page"
  <2>1. s1' = IF j.dry \/ Fails(j, s1) THEN s1 ELSE [s1 EXCEPT ![j.t] = j.batch[j.i].amount]
    BY <1>3, <1>4
  <2>2. PICK e : e = s1'
    OBVIOUS
  <2>3. PageStands(s2, j, s1, s8, s9) /\ j \in Tax!Import
    BY <1>1, <1>3, <1>8
  <2>4. k \in Tax!Import /\ PageStands(s2, k, e, s8, s9)
    BY <1>1, <1>3, <1>5, <2>1, <2>2, <2>3, PageWrites
  <2>5. s3' \in [Tax!Slots -> Tax!Import] /\ s3'["page"] = k /\ s3'["partner"] = s3["partner"]
    BY <1>1, <1>4, <1>8, <2>4 DEF Tax!Slots
  <2>6. s8' = s8
    BY <1>1, <1>4, <1>8
  <2>. QED  BY <1>1, <1>2, <1>7, <2>2, <2>4, <2>5, <2>6, ImportsFollow
<1>9. CASE s = "partner"
  <2>1. k \in Tax!Import /\ RowOf(k)
    BY <1>1, <1>3, <1>5, JobWrites
  <2>2. s3' \in [Tax!Slots -> Tax!Import] /\ s3'["page"] = s3["page"] /\ s3'["partner"] = k
    BY <1>1, <1>4, <1>9, <2>1 DEF Tax!Slots
  <2>3. IF s8' THEN TRUE ELSE ~s8 /\ s1' = s1
    BY <1>1, <1>4, <1>9
  <2>4. PageStands(s2, s3["page"], s1', s8', s9)
    BY <1>1, <1>7, <2>3, PageWarned
  <2>. QED  BY <1>1, <1>2, <1>7, <2>1, <2>2, <2>4, ImportsFollow
<1>. QED  BY <1>8, <1>9 DEF Tax!Slots

LEMMA RowBegun ==
    ASSUME NEW batch \in Batches, NEW dry \in BOOLEAN
    PROVE  Begun(batch, dry) \in Tax!Import /\ RowOf(Begun(batch, dry))
<1>1. PICK k : k = Begun(batch, dry)
  OBVIOUS
<1>2. batch \in Tax!Files
  BY DEF Tax!Files
<1>3. k \in Tax!Import /\ k.pc = "look" /\ k.batch = batch /\ k.i = 1
  BY <1>1, <1>2, FollowsBegin
<1>4. Len(batch) >= 1 /\ batch # <<>>
  <2>1. batch \in Seq([nin : Taxpayers \cup {"none", "unknown"},
                       rc : Taxpayers \cup {"none", "unknown"}, sound : BOOLEAN, amount : Int])
    BY TaxNumbers
  <2>. QED  BY <2>1, TaxNumbers, EmptySeq, LenProperties
<1>. QED  BY <1>1, <1>3, <1>4 DEF RowOf

LEMMA ImportBegins ==
    ASSUME Declared, ImportsStand, Tax!Validate \/ Tax!Commit \/ \E b \in Batches : Tax!PartnerPush(b)
    PROVE  Declared' /\ ImportsStand'
<1>1. /\ s2 \in Sheet /\ s1 \in [Taxpayers -> Int] /\ s8 \in BOOLEAN /\ s9 \in BOOLEAN
      /\ s3 \in [Tax!Slots -> Tax!Import] /\ s3["page"] \in Tax!Import /\ s3["partner"] \in Tax!Import
      /\ RowOf(s3["partner"]) /\ RowOf(s3["page"]) /\ PageStands(s2, s3["page"], s1, s8, s9)
  BY ImportsNow
<1>2. CASE Tax!Validate
  <2>1. /\ s2.file # <<>> /\ s2.phase # "done" /\ s3["page"].pc = "idle" /\ UNCHANGED <<s1, s2, s9>>
        /\ s8' = (s3["partner"].pc \notin {"idle", "done"})
    BY <1>2 DEF Tax!Validate
  <2>2. PICK k : k = Begun(s2.file, TRUE)
    OBVIOUS
  <2>3. s3' = [s3 EXCEPT !["page"] = k]
    BY <1>2, <2>2, Zenon DEF Tax!Validate, Tax!Start, Begun
  <2>4. PICK c2 \in BOOLEAN : c2 = s8'
    BY <2>1
  <2>5. k \in Tax!Import /\ PageStands(s2, k, s1, c2, s9)
    BY <1>1, <2>1, <2>2, PageBegins
  <2>6. s3' \in [Tax!Slots -> Tax!Import] /\ s3'["page"] = k /\ s3'["partner"] = s3["partner"]
    BY <1>1, <2>3, <2>5 DEF Tax!Slots
  <2>. QED  BY <1>1, <2>1, <2>4, <2>5, <2>6, ImportsFollow
<1>3. CASE Tax!Commit
  <2>1. s2.phase = "previewed" /\ s3["page"].pc = "idle" /\ UNCHANGED <<s1, s2, s8, s9>>
    BY <1>3 DEF Tax!Commit
  <2>2. PICK k : k = Begun(s2.file, FALSE)
    OBVIOUS
  <2>3. s3' = [s3 EXCEPT !["page"] = k]
    BY <1>3, <2>2, Zenon DEF Tax!Commit, Tax!Start, Begun
  <2>4. s2.file # <<>>
    BY <1>1, <2>1 DEF PageStands
  <2>5. k \in Tax!Import /\ PageStands(s2, k, s1, s8, s9)
    BY <1>1, <2>1, <2>2, <2>4, PageBegins
  <2>6. s3' \in [Tax!Slots -> Tax!Import] /\ s3'["page"] = k /\ s3'["partner"] = s3["partner"]
    BY <1>1, <2>3, <2>5 DEF Tax!Slots
  <2>. QED  BY <1>1, <2>1, <2>5, <2>6, ImportsFollow
<1>4. CASE \E b \in Batches : Tax!PartnerPush(b)
  <2>1. PICK b \in Batches : Tax!PartnerPush(b)
    BY <1>4
  <2>2. UNCHANGED <<s1, s2, s8, s9>>
    BY <2>1 DEF Tax!PartnerPush
  <2>3. PICK k : k = Begun(b, FALSE)
    OBVIOUS
  <2>4. s3' = [s3 EXCEPT !["partner"] = k]
    BY <2>1, <2>3, Zenon DEF Tax!PartnerPush, Tax!Start, Begun
  <2>5. k \in Tax!Import /\ RowOf(k)
    BY <2>3, RowBegun
  <2>6. s3' \in [Tax!Slots -> Tax!Import] /\ s3'["page"] = s3["page"] /\ s3'["partner"] = k
    BY <1>1, <2>4, <2>5 DEF Tax!Slots
  <2>. QED  BY <1>1, <2>2, <2>5, <2>6, ImportsFollow
<1>. QED  BY <1>2, <1>3, <1>4

LEMMA ImportAnswers ==
    ASSUME Declared, ImportsStand, Tax!Answer \/ \E b \in Batches : Tax!Choose(b)
    PROVE  Declared' /\ ImportsStand'
<1>1. /\ s2 \in Sheet /\ s1 \in [Taxpayers -> Int] /\ s8 \in BOOLEAN /\ s9 \in BOOLEAN
      /\ s3 \in [Tax!Slots -> Tax!Import] /\ s3["page"] \in Tax!Import /\ s3["partner"] \in Tax!Import
      /\ RowOf(s3["partner"]) /\ RowOf(s3["page"]) /\ PageStands(s2, s3["page"], s1, s8, s9)
  BY ImportsNow
<1>2. CASE Tax!Answer
  <2>1. PICK j, q, n, p, d : j = s3["page"] /\ q = s2' /\ n = Tax!NoImport /\ p = s2 /\ d = s1
    OBVIOUS
  <2>2. /\ j.pc = "done" /\ UNCHANGED <<s1, s8, s9>>
        /\ q = IF j.dry THEN [p EXCEPT !.phase = "previewed", !.preview = j.counts, !.of = j.batch]
               ELSE [p EXCEPT !.phase = "done", !.result = j.counts]
        /\ s3' = [s3 EXCEPT !["page"] = n]
    BY <1>2, <2>1, Zenon DEF Tax!Answer
  <2>3. /\ j \in Tax!Import /\ p \in Sheet /\ d \in [Taxpayers -> Int]
        /\ s8 \in BOOLEAN /\ s9 \in BOOLEAN /\ PageStands(p, j, d, s8, s9)
    BY <1>1, <2>1
  <2>4. q \in Sheet /\ PageStands(q, n, s1, s8, s9)
    <3>1. j.pc = "done" /\ q = Answered(p, j)
      BY <2>2, Zenon DEF Answered
    <3>2. q \in Sheet /\ PageStands(q, Tax!NoImport, d, s8, s9)
      BY <2>3, <3>1, PageAnswers, Zenon
    <3>. QED  BY <2>1, <3>2
  <2>5. n \in Tax!Import
    BY <2>1, FollowsBegin
  <2>6. s3' \in [Tax!Slots -> Tax!Import] /\ s3'["page"] = n /\ s3'["partner"] = s3["partner"]
    BY <1>1, <2>2, <2>5 DEF Tax!Slots
  <2>. QED  BY <1>1, <2>1, <2>2, <2>4, <2>6, ImportsFollow
<1>3. CASE \E b \in Batches : Tax!Choose(b)
  <2>1. PICK b \in Batches : Tax!Choose(b)
    BY <1>3
  <2>2. PICK j, q, p, d, st, after, c :
           j = s3["page"] /\ q = s2' /\ p = s2 /\ d = s1 /\ st = s9 /\ after = s9' /\ c = Tax!NoCounts
    OBVIOUS
  <2>3. /\ UNCHANGED <<s1, s3, s8>> /\ after = (st \/ j.pc # "idle")
        /\ q = Chosen(p, b, c)
    BY <2>1, <2>2, Zenon DEF Tax!Choose, Chosen
  <2>4. /\ j \in Tax!Import /\ p \in Sheet /\ d \in [Taxpayers -> Int] /\ c \in Tax!Counts
        /\ s8 \in BOOLEAN /\ st \in BOOLEAN /\ PageStands(p, j, d, s8, st)
    BY <1>1, <2>2 DEF Tax!NoCounts, Tax!Counts
  <2>5. q \in Sheet /\ PageStands(q, j, d, s8, after)
    BY <2>3, <2>4, PageChooses
  <2>6. after \in BOOLEAN
    BY <2>3, <2>4
  <2>. QED  BY <1>1, <2>2, <2>3, <2>5, <2>6, ImportsFollow
<1>. QED  BY <1>2, <1>3

LEMMA ImportStep ==
    ASSUME Declared, ImportsStand, Tax!Imports
    PROVE  Declared' /\ ImportsStand'
<1>1. \/ \E s \in Tax!Slots : Tax!LookRow(s) \/ Tax!WriteRow(s)
      \/ Tax!Validate \/ Tax!Commit \/ \E b \in Batches : Tax!PartnerPush(b)
      \/ Tax!Answer \/ \E b \in Batches : Tax!Choose(b)
  BY Zenon DEF Tax!Imports
<1>. QED  BY <1>1, ImportLooks, ImportWrites, ImportBegins, ImportAnswers

LEMMA ImportKeeps ==
    ASSUME Tax!Imports
    PROVE  UNCHANGED <<s4, s5, s6, s7, s10, s11, s12>> /\ UNCHANGED overlapped
  BY Zenon DEF Tax!Imports, Tax!LookRow, Tax!WriteRow, Tax!PartnerPush, Tax!Choose, Tax!Validate, Tax!Commit,
     Tax!Answer, Tax!pays, Tax!regs

LEMMA ImportInit ==
    ASSUME Tax!Init PROVE Declared /\ ImportsStand
<1>1. Declared
  BY TaxInit, TaxTypes
<1>2. PICK n : n = Tax!NoImport
  OBVIOUS
<1>3. n.pc = "idle"
  BY <1>2, FollowsBegin
<1>4. s3 = [s \in Tax!Slots |-> n]
  BY <1>2, Zenon DEF Tax!Init
<1>5. s3["page"] = n /\ s3["partner"] = n
  BY <1>4 DEF Tax!Slots
<1>6. s2.file = <<>> /\ s2.phase = "choose"
  BY DEF Tax!Init
<1>7. RowOf(n) /\ PageStands(s2, n, s1, s8, s9)
  BY <1>3, <1>6 DEF RowOf, PageStands, FileOf, DryOf, WetOf
<1>. QED  BY <1>1, <1>5, <1>7, ImportsAre

LEMMA ImportStutters ==
    ASSUME Declared, ImportsStand, UNCHANGED <<s1, s2, s3, s8, s9>>
    PROVE  Declared' /\ ImportsStand'
<1>1. Declared'
  BY DeclaredStays
<1>2. RowOf(s3["partner"]) /\ PageStands(s2, s3["page"], s1, s8, s9)
  BY ImportsAre
<1>3. s1' = s1 /\ s2' = s2 /\ s3' = s3 /\ s8' = s8 /\ s9' = s9
  OBVIOUS
<1>4. RowOf(s3'["partner"]) /\ PageStands(s2', s3'["page"], s1', s8', s9')
  BY <1>2, <1>3, Zenon
<1>. QED  BY <1>1, <1>4, ImportsAre

-----------------------------------------------------------------------------
(* The desk: whichever part is explored, its invariant holds.                  *)

\* Where only imports are explored nothing is paid and nobody registered, and so on.
NothingPaid == s10 = [t \in Taxpayers |-> Tax!None]
NobodyFiled == s12 = [t \in Taxpayers |-> 0]
ImportsDesk == Tax!ImportsHold /\ NothingPaid /\ NobodyFiled
PaymentsDesk == Tax!PaymentsHold /\ s2.phase = "choose" /\ NobodyFiled
RegistrationsDesk == Tax!RegistrationsHold /\ s2.phase = "choose" /\ NothingPaid

Parts == {"penalty", "statutory", "triage", "drafts", "reminders", "alerts"} \cup TaxParts

DeskHolds ==
    /\ focus \in Parts
    /\ focus = "penalty" => PenaltyHolds
    /\ focus = "statutory" => StatutoryHolds
    /\ focus = "triage" => Triage!IInv
    /\ focus = "drafts" => Drafts!IInv
    /\ focus = "imports" => ImportsDesk
    /\ focus = "payments" => PaymentsDesk
    /\ focus = "registrations" => RegistrationsDesk
    /\ focus \in {"reminders", "alerts"} => Notices!BoardHolds

LEMMA TaxBegins ==
    ASSUME Tax!Init PROVE ImportsDesk /\ PaymentsDesk /\ RegistrationsDesk
<1>1. NothingPaid /\ NobodyFiled /\ s2.phase = "choose"
  BY DEF Tax!Init, NothingPaid, NobodyFiled
<1>2. Tax!ImportsHold
  BY TaxInit, ImportInit DEF ImportsStand, Tax!ImportsHold
<1>. QED  BY <1>1, <1>2, PaymentInit, RegistrationInit DEF ImportsDesk, PaymentsDesk, RegistrationsDesk

LEMMA TaxStands ==
    ASSUME UNCHANGED <<s1, s2, s3, s4, s5, s6, s7, s8, s9, s10, s11, s12, overlapped>>
    PROVE  /\ ImportsDesk => ImportsDesk'
           /\ PaymentsDesk => PaymentsDesk'
           /\ RegistrationsDesk => RegistrationsDesk'
<1>1. (NothingPaid => NothingPaid') /\ (NobodyFiled => NobodyFiled') /\ s2' = s2
  BY DEF NothingPaid, NobodyFiled
<1>2. ASSUME Tax!ImportsHold PROVE Tax!ImportsHold'
  <2>1. Declared /\ ImportsStand /\ Paid /\ Registered
    BY <1>2, TaxTypes DEF Tax!ImportsHold, ImportsStand
  <2>2. Declared' /\ ImportsStand'
    BY <2>1, ImportStutters
  <2>3. Paid' /\ Registered'
    BY <2>1, PaidStays, RegisteredStays
  <2>. QED  BY <2>2, <2>3, TaxTypes DEF Tax!ImportsHold, ImportsStand
<1>3. ASSUME Tax!PaymentsHold PROVE Tax!PaymentsHold'
  BY <1>3, PaymentStutters
<1>4. ASSUME Tax!RegistrationsHold PROVE Tax!RegistrationsHold'
  BY <1>4, RegistrationStutters
<1>. QED  BY <1>1, <1>2, <1>3, <1>4 DEF ImportsDesk, PaymentsDesk, RegistrationsDesk

LEMMA TaxGoesOn ==
    /\ ImportsDesk /\ Tax!Imports => ImportsDesk'
    /\ PaymentsDesk /\ Tax!Payments => PaymentsDesk'
    /\ RegistrationsDesk /\ Tax!Registrations => RegistrationsDesk'
<1>1. ASSUME ImportsDesk, Tax!Imports PROVE ImportsDesk'
  <2>1. Declared /\ ImportsStand /\ Paid /\ Registered /\ NothingPaid /\ NobodyFiled
    BY <1>1, TaxTypes DEF ImportsDesk, Tax!ImportsHold, ImportsStand
  <2>2. Declared' /\ ImportsStand'
    BY <1>1, <2>1, ImportStep
  <2>3. UNCHANGED <<s4, s5, s6, s7, s10, s11, s12>>
    BY <1>1, ImportKeeps
  <2>4. Paid' /\ Registered'
    BY <2>1, <2>3, PaidStays, RegisteredStays
  <2>5. NothingPaid' /\ NobodyFiled'
    BY <2>1, <2>3 DEF NothingPaid, NobodyFiled
  <2>. QED  BY <2>2, <2>4, <2>5, TaxTypes DEF ImportsDesk, Tax!ImportsHold, ImportsStand
<1>2. ASSUME PaymentsDesk, Tax!Payments PROVE PaymentsDesk'
  <2>1. Tax!PaymentsHold' /\ s2.phase = "choose" /\ NobodyFiled
    BY <1>2, PaymentStep DEF PaymentsDesk
  <2>2. UNCHANGED <<s2, s12>>
    BY <1>2, Zenon DEF Tax!Payments, Tax!SyncLook, Tax!SyncWrite, Tax!AddPayment, Tax!decl, Tax!regs
  <2>. QED  BY <2>1, <2>2 DEF PaymentsDesk, NobodyFiled
<1>3. ASSUME RegistrationsDesk, Tax!Registrations PROVE RegistrationsDesk'
  <2>1. Tax!RegistrationsHold' /\ s2.phase = "choose" /\ NothingPaid
    BY <1>3, RegistrationStep DEF RegistrationsDesk
  <2>2. UNCHANGED <<s2, s10>>
    BY <1>3, Zenon DEF Tax!Registrations, Tax!SetStatus, Tax!Register, Tax!RegLook, Tax!RegAsk, Tax!RegWrite,
       Tax!decl, Tax!pays
  <2>. QED  BY <2>1, <2>2 DEF RegistrationsDesk, NothingPaid
<1>. QED  BY <1>1, <1>2, <1>3

LEMMA DeskInit ==
    ASSUME MCInit PROVE DeskHolds
<1>1. CASE focus = "penalty"
  BY <1>1, PenaltyInit, DeskAssumption DEF MCInit, TaxParts, PenaltyHolds, DeskHolds, Parts
<1>2. CASE focus = "statutory"
  BY <1>2, StatutoryStarts, DeskAssumption DEF MCInit, TaxParts, StatutoryHolds, DeskHolds, Parts
<1>3. CASE focus = "triage"
  BY <1>3, TriageInit DEF MCInit, TaxParts, DeskHolds, Parts
<1>4. CASE focus = "drafts"
  BY <1>4, DraftsInit DEF MCInit, TaxParts, DeskHolds, Parts
<1>5. CASE focus \in TaxParts
  <2>1. Tax!Init
    BY <1>5 DEF MCInit, TaxParts
  <2>. QED  BY <1>5, <2>1, TaxBegins DEF TaxParts, DeskHolds, Parts
<1>6. CASE focus \in {"reminders", "alerts"}
  <2>1. Notices!Init
    BY <1>6 DEF MCInit, TaxParts
  <2>. QED  BY <1>6, <2>1, BoardInit DEF DeskHolds, Parts, TaxParts
<1>. QED  BY <1>1, <1>2, <1>3, <1>4, <1>5, <1>6 DEF MCInit, TaxParts

LEMMA DeskStutters ==
    ASSUME DeskHolds, UNCHANGED <<focus, slots, overlapped>> PROVE DeskHolds'
<1>1. UNCHANGED <<focus, s1, s2, s3, s4, s5, s6, s7, s8, s9, s10, s11, s12, overlapped>>
  BY DEF slots
<1>2. focus = "penalty" => PenaltyHolds'
  <2>1. ASSUME PenaltyHolds PROVE PenaltyHolds'
    <3>1. Penalty!IInv'
      <4>1. UNCHANGED Penalty!vars
        BY <1>1 DEF Penalty!vars
      <4>. QED  BY <2>1, <4>1, PenaltyStep, DeskAssumption DEF PenaltyHolds
    <3>2. ASSUME Penalty!Undisturbed PROVE Penalty!Undisturbed'
      <4>0. Penalty!Counted' = Penalty!Counted /\ Penalty!FirstAt' = Penalty!FirstAt
        BY <1>1 DEF Penalty!Counted, Penalty!FirstAt
      <4>1. Penalty!AmountMatchesFigures'
        BY <1>1, <3>2 DEF Penalty!Undisturbed, Penalty!AmountMatchesFigures, Penalty!S101
      <4>2. (\A q, r \in Clerks : Penalty!Active(q) /\ Penalty!Active(r) => q = r)'
        BY <1>1, <3>2 DEF Penalty!Undisturbed, Penalty!Active
      <4>3. (s4 # Penalty!NoRow /\ s4.version = s2 => s4.months <= Penalty!MonthsAt(Penalty!Reached(s1)))'
        BY <1>1, <3>2, <4>0 DEF Penalty!Undisturbed, Penalty!MonthsAt, Penalty!Reached
      <4>4. (\A r \in Clerks : Penalty!Calm(s6[r]))'
        BY <1>1, <3>2, <4>0 DEF Penalty!Undisturbed, Penalty!Calm, Penalty!MonthsAt, Penalty!Reached, Penalty!Charging
      <4>. QED  BY <4>1, <4>2, <4>3, <4>4 DEF Penalty!Undisturbed
    <3>. QED  BY <1>1, <2>1, <3>1, <3>2 DEF PenaltyHolds
  <2>. QED  BY <2>1 DEF DeskHolds
<1>3. focus = "statutory" => StatutoryHolds'
  <2>1. ASSUME StatutoryHolds PROVE StatutoryHolds'
    <3>1. Statutory!IInv'
      <4>1. UNCHANGED Statutory!vars
        BY <1>1 DEF Statutory!vars
      <4>. QED  BY <2>1, <4>1, StatutoryStep, DeskAssumption DEF StatutoryHolds
    <3>2. Statutory!Undisturbed => Statutory!Undisturbed'
      BY <1>1 DEF Statutory!Undisturbed
    <3>. QED  BY <1>1, <2>1, <3>1, <3>2 DEF StatutoryHolds
  <2>. QED  BY <2>1 DEF DeskHolds
<1>4. focus = "triage" => Triage!IInv'
  <2>1. ASSUME Triage!IInv PROVE Triage!IInv'
    <3>1. Triage!TypeOK' /\ (s3 \in [Hands -> Triage!Jobs])' /\ (Len(s2) <= MaxRows)'
          /\ (s5 \in [recs : SUBSET (1 .. Len(s2)), cases : SUBSET Cases])'
      BY <1>1, <2>1 DEF Triage!IInv, Triage!TypeOK, Triage!Jobs, Triage!Rows
    <3>2. Triage!RacesNoted'
      BY <1>1, <2>1 DEF Triage!IInv, Triage!RacesNoted
    <3>3. Triage!OnePending' /\ Triage!Decided' /\ Triage!FitsWhatWasSeen'
      BY <1>1, <2>1 DEF Triage!IInv, Triage!OnePending, Triage!Pending, Triage!Decided, Triage!FitsWhatWasSeen
    <3>4. Triage!MovedOnce'
      BY <1>1, <2>1 DEF Triage!IInv, Triage!MovedOnce, Triage!Target, Triage!Open
    <3>. QED  BY <3>1, <3>2, <3>3, <3>4 DEF Triage!IInv
  <2>. QED  BY <2>1 DEF DeskHolds
<1>5. focus = "drafts" => Drafts!IInv'
  <2>1. ASSUME Drafts!IInv PROVE Drafts!IInv'
    <3>1. Drafts!TypeOK' /\ (s5 \in [Hands -> Drafts!Jobs])' /\ (Len(s3) <= MaxDrafts)'
          /\ (s7 \subseteq 1 .. Len(s3))'
      BY <1>1, <2>1 DEF Drafts!IInv, Drafts!TypeOK, Drafts!Jobs
    <3>2. Drafts!TogetherNoted' /\ Drafts!ActedOnOnce'
      BY <1>1, <2>1 DEF Drafts!IInv, Drafts!TogetherNoted, Drafts!ActedOnOnce
    <3>3. Drafts!Undecided'
      BY <1>1, <2>1 DEF Drafts!IInv, Drafts!Undecided, Drafts!Undone, Drafts!Single
    <3>. QED  BY <3>1, <3>2, <3>3 DEF Drafts!IInv
  <2>. QED  BY <2>1 DEF DeskHolds
<1>6. /\ focus = "imports" => ImportsDesk'
      /\ focus = "payments" => PaymentsDesk'
      /\ focus = "registrations" => RegistrationsDesk'
  BY <1>1, TaxStands DEF DeskHolds
<1>7. focus \in {"reminders", "alerts"} => Notices!BoardHolds'
  <2>1. ASSUME Notices!BoardHolds PROVE Notices!BoardHolds'
    BY <1>1, <2>1, BoardStutters
  <2>. QED  BY <2>1 DEF DeskHolds
<1>. QED  BY <1>1, <1>2, <1>3, <1>4, <1>5, <1>6, <1>7 DEF DeskHolds

\* What a step of the desk may not undo.
Kept == CASE focus = "statutory" -> /\ Statutory!KeepsHistory
                                    /\ overlapped' \/ Statutory!OnlyPatchedChanges
          [] focus = "penalty" -> overlapped' \/ (Penalty!SettledStays /\ Penalty!DefaultOnlyAccrues)
          [] focus = "triage" -> Triage!DecisionKept
          [] OTHER -> TRUE

LEMMA DeskNext ==
    ASSUME DeskHolds, MCNext PROVE DeskHolds' /\ Kept
<1>1. focus' = focus
  BY DEF MCNext
<1>2. CASE focus = "penalty"
  <2>1. PenaltyHolds /\ PenaltyNext
    BY <1>2 DEF DeskHolds, MCNext, TaxNext
  <2>2. PenaltyHolds' /\ (overlapped' \/ (Penalty!SettledStays /\ Penalty!DefaultOnlyAccrues))
    BY <2>1, PenaltyNextHolds, DeskAssumption
  <2>. QED  BY <1>1, <1>2, <2>2, Zenon DEF DeskHolds, Kept
<1>3. CASE focus = "statutory"
  <2>1. StatutoryHolds /\ StatutoryNext
    BY <1>3 DEF DeskHolds, MCNext, TaxNext
  <2>2. StatutoryHolds' /\ Statutory!KeepsHistory /\ (overlapped' \/ Statutory!OnlyPatchedChanges)
    BY <2>1, StatutoryNextHolds, DeskAssumption
  <2>. QED  BY <1>1, <1>3, <2>2, Zenon DEF DeskHolds, Kept
<1>4. CASE focus = "triage"
  <2>1. Triage!IInv /\ Triage!Next
    BY <1>4 DEF DeskHolds, MCNext, TaxNext, TriageNext
  <2>2. Triage!IInv' /\ Triage!DecisionKept
    BY <2>1, TriageStep
  <2>. QED  BY <1>1, <1>4, <2>2, Zenon DEF DeskHolds, Kept
<1>5. CASE focus = "drafts"
  <2>1. Drafts!IInv /\ Drafts!Next
    BY <1>5 DEF DeskHolds, MCNext, TaxNext, DraftsNext
  <2>2. Drafts!IInv'
    BY <2>1, DraftsStep
  <2>. QED  BY <1>1, <1>5, <2>2, Zenon DEF DeskHolds, Kept
<1>6. CASE focus \in TaxParts
  <2>1. Kept
    BY <1>6, Zenon DEF Kept, TaxParts
  <2>2. /\ focus = "imports" => ImportsDesk /\ Tax!Imports
        /\ focus = "payments" => PaymentsDesk /\ Tax!Payments
        /\ focus = "registrations" => RegistrationsDesk /\ Tax!Registrations
    BY <1>6 DEF DeskHolds, MCNext, TaxNext, TaxParts
  <2>. QED  BY <1>1, <1>6, <2>1, <2>2, TaxGoesOn DEF DeskHolds, TaxParts
<1>7. CASE focus \in {"reminders", "alerts"}
  <2>1. Kept
    BY <1>7, Zenon DEF Kept
  <2>2. Notices!BoardHolds /\ (Notices!Reminders \/ Notices!Alerting)
    BY <1>7 DEF DeskHolds, MCNext, TaxNext, RemindersNext, AlertsNext
  <2>. QED  BY <1>1, <1>7, <2>1, <2>2, BoardStep DEF DeskHolds
<1>. QED  BY <1>2, <1>3, <1>4, <1>5, <1>6, <1>7 DEF DeskHolds, Parts

LEMMA DeskAlways == MCSpec => []DeskHolds
<1>1. DeskHolds /\ [MCNext]_<<focus, slots, overlapped>> => DeskHolds'
  BY DeskNext, DeskStutters
<1>. QED  BY DeskInit, <1>1, PTL DEF MCSpec

\* Whatever the numbers of requests, of versions and of months, the active
\* configuration is the latest one, only defaulters are penalised, letters cite the
\* record, and where nothing overlapped the record accounts for its amount.
THEOREM ObligationsAlwaysStand == MCSpec => []ObligationsStand
<1>1. ASSUME DeskHolds PROVE ObligationsStand
  <2>1. CASE focus = "penalty"
    <3>1. /\ Penalty!OnlyDefaultersPenalised /\ Penalty!LettersCiteTheRecord
          /\ overlapped \/ Penalty!AmountMatchesFigures
      BY <1>1, <2>1, PenaltyFollows, DeskAssumption DEF DeskHolds
    <3>. QED  BY <2>1, <3>1, Zenon DEF ObligationsStand
  <2>2. CASE focus = "statutory"
    <3>1. Statutory!ActiveIsLatest
      BY <1>1, <2>2 DEF DeskHolds, StatutoryHolds, Statutory!IInv
    <3>. QED  BY <2>2, <3>1, Zenon DEF ObligationsStand
  <2>3. CASE focus \notin {"penalty", "statutory"}
    BY <2>3, Zenon DEF ObligationsStand
  <2>. QED  BY <2>1, <2>2, <2>3
<1>. QED  BY <1>1, DeskAlways, PTL

\* However many officers and machines decide at once, a version is never rewritten,
\* a settled penalty and a decided recommendation stay so, each with the overlap
\* that its exception names.
THEOREM NothingIsEverUndone == MCSpec => NothingIsUndone
<1>1. DeskHolds /\ [MCNext]_<<focus, slots, overlapped>> => [Kept]_<<focus, slots, overlapped>>
  BY DeskNext
<1>2. MCSpec => [][Kept]_<<focus, slots, overlapped>>
  BY <1>1, DeskAlways, PTL DEF MCSpec
<1>. QED  BY <1>2 DEF NothingIsUndone, Kept

\* However many requests, recommendations and drafts, a case carries one pending
\* recommendation and moves by it once, a draft is acted on once, unless they raced.
THEOREM ProposalsAreAnsweredOnce == MCSpec => []ProposalsAnsweredOnce
<1>1. ASSUME DeskHolds PROVE ProposalsAnsweredOnce
  <2>1. CASE focus = "triage"
    <3>1. Triage!OneAnswerPerCase /\ Triage!FitsWhatWasSeen
      BY <1>1, <2>1, TriageFollows DEF DeskHolds
    <3>. QED  BY <2>1, <3>1, Zenon DEF ProposalsAnsweredOnce
  <2>2. CASE focus = "drafts"
    <3>1. Drafts!ActedOnOnce
      BY <1>1, <2>2 DEF DeskHolds, Drafts!IInv
    <3>. QED  BY <2>2, <3>1, Zenon DEF ProposalsAnsweredOnce
  <2>3. CASE focus \notin {"triage", "drafts"}
    BY <2>3, Zenon DEF ProposalsAnsweredOnce
  <2>. QED  BY <2>1, <2>2, <2>3
<1>. QED  BY <1>1, DeskAlways, PTL

\* Whatever the taxpayers, the files, the officers and the pushes, an import commits
\* what its preview said, what is reported as paid is what was pushed last, and no
\* employer is registered twice, each with the exceptions its property names.
THEOREM TaxRecordsStayFaithful == MCSpec => []TaxRecordsAreFaithful
<1>1. ASSUME DeskHolds PROVE TaxRecordsAreFaithful
  <2>1. NothingPaid => Tax!PaidAsPushed
    BY DEF NothingPaid, Tax!PaidAsPushed
  <2>2. NobodyFiled => Tax!FiledOnce
    BY DEF NobodyFiled, Tax!FiledOnce
  <2>3. s2.phase = "choose" => Tax!CommitAsPreviewed
    BY DEF Tax!CommitAsPreviewed
  <2>4. ImportsDesk => Tax!CommitAsPreviewed /\ Tax!PaidAsPushed /\ Tax!FiledOnce
    BY <2>1, <2>2 DEF ImportsDesk, Tax!ImportsHold
  <2>5. PaymentsDesk => Tax!CommitAsPreviewed /\ Tax!PaidAsPushed /\ Tax!FiledOnce
    BY <2>2, <2>3, PaymentFollows DEF PaymentsDesk
  <2>6. RegistrationsDesk => Tax!CommitAsPreviewed /\ Tax!PaidAsPushed /\ Tax!FiledOnce
    BY <2>1, <2>3 DEF RegistrationsDesk, Tax!RegistrationsHold, Tax!OneAtATime, Tax!FiledOnce
  <2>. QED  BY <1>1, <2>4, <2>5, <2>6 DEF DeskHolds, TaxParts, TaxRecordsAreFaithful
<1>. QED  BY <1>1, DeskAlways, PTL

\* However many institutions, cases, readers and passes, no notice is given twice, each
\* has one audience, and a pass that is over has reached every defaulter of its year.
THEOREM NoticesAlwaysReach == MCSpec => []NoticesReach
<1>1. ASSUME DeskHolds PROVE NoticesReach
  BY <1>1, BoardFollows DEF DeskHolds, NoticesReach
<1>. QED  BY <1>1, DeskAlways, PTL

\* The state of every part of the desk stays of its type.
THEOREM DeskKeepsItsTypes == MCSpec => []TypesOK
<1>1. ASSUME DeskHolds PROVE TypesOK
  <2>1. CASE focus = "penalty"
    <3>1. Penalty!TypeOK
      BY <1>1, <2>1 DEF DeskHolds, PenaltyHolds, Penalty!IInv
    <3>. QED  BY <2>1, <3>1, Zenon DEF TypesOK, TaxParts
  <2>2. CASE focus = "statutory"
    <3>1. Statutory!TypeOK
      BY <1>1, <2>2 DEF DeskHolds, StatutoryHolds, Statutory!IInv
    <3>. QED  BY <2>2, <3>1, Zenon DEF TypesOK, TaxParts
  <2>3. CASE focus = "triage"
    <3>1. Triage!TypeOK
      BY <1>1, <2>3 DEF DeskHolds, Triage!IInv
    <3>. QED  BY <2>3, <3>1, Zenon DEF TypesOK, TaxParts
  <2>4. CASE focus = "drafts"
    <3>1. Drafts!TypeOK
      BY <1>1, <2>4 DEF DeskHolds, Drafts!IInv
    <3>. QED  BY <2>4, <3>1, Zenon DEF TypesOK, TaxParts
  <2>5. CASE focus \in TaxParts
    <3>1. Tax!TypeOK
      BY <1>1, <2>5 DEF DeskHolds, TaxParts, ImportsDesk, PaymentsDesk, RegistrationsDesk,
         Tax!ImportsHold, Tax!PaymentsHold, Tax!RegistrationsHold
    <3>. QED  BY <2>5, <3>1, Zenon DEF TypesOK, TaxParts
  <2>6. CASE focus \in {"reminders", "alerts"}
    <3>1. Notices!TypeOK
      BY <1>1, <2>6 DEF DeskHolds, Notices!BoardHolds
    <3>. QED  BY <2>6, <3>1, Zenon DEF TypesOK, TaxParts
  <2>. QED  BY <1>1, <2>1, <2>2, <2>3, <2>4, <2>5, <2>6 DEF DeskHolds, Parts
<1>. QED  BY <1>1, DeskAlways, PTL
=============================================================================
