--------------------------- MODULE DetectionProofs ---------------------------
(* Detection, for every value of the constants: the arithmetic of the          *)
(* methodology (the runs check it at and beside the marks only), then the      *)
(* scans, for any number of taxpayers, scans and changes under way, the whole  *)
(* run, agents and all, and the reading of what is filed.                      *)
EXTENDS MCDetection, FiniteSetTheorems, SequenceTheorems, WellFoundedInduction, TLAPS

-----------------------------------------------------------------------------
(* The tax.                                                                    *)

\* A slice grows with the income and by no more than the income does.
LEMMA SliceGrows ==
    ASSUME NEW x \in Nat, NEW y \in Nat, x <= y, NEW b \in 1..6
    PROVE  /\ Slice(x, b) \in Nat /\ Slice(y, b) \in Nat
           /\ Slice(x, b) <= Slice(y, b)
  BY SMTT(30) DEF Slice, BandStart, Least

\* The slices of an income make up the income: nothing is taxed twice or missed.
LEMMA SlicesCoverIncome ==
    ASSUME NEW x \in Nat
    PROVE  Slice(x, 1) + Slice(x, 2) + Slice(x, 3) + Slice(x, 4) + Slice(x, 5) + Slice(x, 6) = x
  BY SMTT(30) DEF Slice, BandStart, Least

\* The tax of the bands (progressivePit) grows with the income, and a further
\* amount is never taxed above the top rate.
LEMMA TaxGrows ==
    ASSUME NEW x \in Nat, NEW y \in Nat, x <= y
    PROVE  /\ ProgressivePit(x) \in Nat /\ ProgressivePit(y) \in Nat
           /\ ProgressivePit(x) <= ProgressivePit(y)
           /\ ProgressivePit(y) - ProgressivePit(x) <= 25 * (y - x)
<1>1. \A b \in 1..6 : Slice(x, b) \in Nat /\ Slice(y, b) \in Nat /\ Slice(x, b) <= Slice(y, b)
  BY SliceGrows
<1>2. /\ Slice(x, 1) + Slice(x, 2) + Slice(x, 3) + Slice(x, 4) + Slice(x, 5) + Slice(x, 6) = x
      /\ Slice(y, 1) + Slice(y, 2) + Slice(y, 3) + Slice(y, 4) + Slice(y, 5) + Slice(y, 6) = y
  BY SlicesCoverIncome
<1>3. /\ ProgressivePit(x) = 15 * Slice(x, 2) + 18 * Slice(x, 3) + 21 * Slice(x, 4)
                               + 23 * Slice(x, 5) + 25 * Slice(x, 6)
      /\ ProgressivePit(y) = 15 * Slice(y, 2) + 18 * Slice(y, 3) + 21 * Slice(y, 4)
                               + 23 * Slice(y, 5) + 25 * Slice(y, 6)
  BY <1>1 DEF ProgressivePit, BandRate
<1>. QED  BY <1>1, <1>2, <1>3

\* The tax on a gap is marginal (estimateAdditionalTax): two gaps end to end are
\* taxed as one, and never above the top rate of the gap.
THEOREM GapTaxIsMarginal == \A d, m, o \in Nat : TaxIsMarginal(d, m, o)
<1>. SUFFICES ASSUME NEW d \in Nat, NEW m \in Nat, NEW o \in Nat, d <= m, m <= o
              PROVE  /\ AdditionalTax(d, o) = AdditionalTax(d, m) + AdditionalTax(m, o)
                     /\ AdditionalTax(d, o) <= FlatTax(d, o, 25)
  BY DEF TaxIsMarginal
<1>1. /\ ProgressivePit(d) \in Nat /\ ProgressivePit(m) \in Nat /\ ProgressivePit(o) \in Nat
      /\ ProgressivePit(d) <= ProgressivePit(m) /\ ProgressivePit(m) <= ProgressivePit(o)
      /\ ProgressivePit(o) - ProgressivePit(d) <= 25 * (o - d)
  <2>0. d <= o  OBVIOUS
  <2>1. /\ ProgressivePit(d) \in Nat /\ ProgressivePit(m) \in Nat
        /\ ProgressivePit(d) <= ProgressivePit(m)
    BY TaxGrows
  <2>2. ProgressivePit(o) \in Nat /\ ProgressivePit(m) <= ProgressivePit(o)
    BY TaxGrows
  <2>3. ProgressivePit(o) - ProgressivePit(d) <= 25 * (o - d)
    BY <2>0, TaxGrows
  <2>. QED  BY <2>1, <2>2, <2>3
<1>2. /\ AdditionalTax(d, o) = ProgressivePit(o) - ProgressivePit(d)
      /\ AdditionalTax(d, m) = ProgressivePit(m) - ProgressivePit(d)
      /\ AdditionalTax(m, o) = ProgressivePit(o) - ProgressivePit(m)
  BY <1>1 DEF AdditionalTax, Greatest
<1>3. FlatTax(d, o, 25) = 25 * (o - d)
  BY DEF FlatTax, Greatest
<1>. QED  BY <1>1, <1>2, <1>3

-----------------------------------------------------------------------------
(* The discount of circulating money.                                          *)

\* Normalising (normalizeInflow) takes at most half of an inflow; more inflow
\* never makes a smaller income, more outflow never a larger one.
THEOREM NormalisingIsFair == \A i, o \in Nat : DiscountIsFair(i, o)
<1>. SUFFICES ASSUME NEW i \in Nat, NEW o \in Nat PROVE DiscountIsFair(i, o)
  OBVIOUS
<1>1. /\ Observed(i, o) \in 10 * i .. 20 * i
      /\ Observed(i, o) <= Observed(i + 1, o)
      /\ Observed(i, o + 1) <= Observed(i, o)
  BY SMTT(30) DEF Observed, Discount, Within, Least, Greatest
<1>. QED  BY <1>1 DEF DiscountIsFair
-----------------------------------------------------------------------------
(* The evidence.                                                               *)

\* A surer finding is never a lower risk, nor a better score for the taxpayer.
LEMMA SurerIsGraver ==
    ASSUME NEW c \in 0..100, NEW more \in 0..100, c <= more
    PROVE  RiskLevel(c) <= RiskLevel(more) /\ NewScore(more) <= NewScore(c)
  BY SMTT(30) DEF RiskLevel, NewScore

\* The confidence is a percentage, and each piece of evidence raises it or leaves it.
LEMMA ConfidenceGrows ==
    ASSUME NEW pct \in Int, NEW n \in Nat, NEW match \in Nat
    PROVE  LET c == Confidence(pct, n, match, TRUE, FALSE)
           IN  /\ c \in 0..100
               /\ \A more \in {Confidence(pct + 1, n, match, TRUE, FALSE),
                               Confidence(pct, n + 1, match, TRUE, FALSE),
                               Confidence(pct, n, match + 1, TRUE, FALSE),
                               Confidence(pct, n, match, FALSE, FALSE)} :
                     more \in 0..100 /\ c <= more
  BY SMTT(60) DEF Confidence, Within, Least, Greatest, GapWeight, ProviderWeight, MatchWeight

\* A set of percentages that is not empty has a least one.
LEMMA LeastExists ==
    ASSUME NEW T \in SUBSET Nat, T # {}
    PROVE  \E x \in T : \A y \in T : x <= y
<1>1. PICK x \in T : \A y \in T : <<y, x>> \notin OpToRel(<, Nat)
  BY NatLessThanWellFounded, WFMin, Zenon
<1>2. \A y \in T : ~(y < x)
  BY <1>1 DEF OpToRel
<1>. QED  BY <1>2

\* The complement of a percentage reverses the order.
LEMMA Complement ==
    \A a, b \in 0..100 : 100 - a \in Nat /\ (100 - a <= 100 - b => b <= a)
  OBVIOUS

\* One of the scores is the top one, and it is what the fusion starts from.
LEMMA TopExists ==
    ASSUME NEW s \in Seq(0..100), s # <<>>
    PROVE  \E i \in DOMAIN s : \A j \in DOMAIN s : s[j] <= s[i]
<1> DEFINE T == {100 - s[i] : i \in DOMAIN s}
<1>1. DOMAIN s = 1..Len(s) /\ Len(s) \in Nat /\ \A i \in 1..Len(s) : s[i] \in 0..100
  <2>1. DOMAIN s = 1..Len(s) /\ Len(s) \in Nat
    BY LenProperties
  <2>. QED  BY <2>1, ElementOfSeq
<1>2. Len(s) # 0
  BY EmptySeq
<1>3. T \in SUBSET Nat
  <2>1. ASSUME NEW i \in DOMAIN s PROVE 100 - s[i] \in Nat
    <3>1. s[i] \in 0..100
      BY <1>1
    <3>. QED  BY <3>1, Complement
  <2>. QED  BY <2>1
<1>4. 100 - s[1] \in T
  BY <1>1, <1>2
<1>5. PICK x \in T : \A y \in T : x <= y
  <2>. HIDE DEF T
  <2>. QED  BY <1>3, <1>4, LeastExists
<1>6. PICK i \in DOMAIN s : x = 100 - s[i]
  BY <1>5
<1>7. ASSUME NEW j \in DOMAIN s PROVE s[j] <= s[i]
  <2>1. 100 - s[i] <= 100 - s[j]
    BY <1>5, <1>6
  <2>2. s[i] \in 0..100 /\ s[j] \in 0..100
    BY <1>1, <1>6
  <2>. QED  BY <2>1, <2>2, Complement
<1>. QED  BY <1>7

\* The signals that corroborate (aggregateAgentScore, 0.4 or more).
StrongOf(s) == {i \in DOMAIN s : s[i] >= 40}

\* What the fusion makes of a top score and a number of corroborating signals.
Fused(top, strong) == Within(top + 8 * Greatest(0, strong - 1), 0, 100)

LEMMA FusedGrows ==
    \A t, u \in 0..100, m, n \in Nat :
        /\ Fused(t, m) \in 0..100
        /\ t <= u /\ m <= n => Fused(t, m) <= Fused(u, n)
  BY SMTT(30) DEF Fused, Within, Least, Greatest

\* The score of some signals is the fusion of the top one and the strong ones.
LEMMA ScoreIsFused ==
    ASSUME NEW s \in Seq(0..100), s # <<>>
    PROVE  \E i \in DOMAIN s : /\ \A j \in DOMAIN s : s[j] <= s[i]
                               /\ s[i] \in 0..100
                               /\ AgentScore(s) = Fused(s[i], Cardinality(StrongOf(s)))
<1> DEFINE Top == CHOOSE i \in DOMAIN s : \A j \in DOMAIN s : s[j] <= s[i]
<1>1. Top \in DOMAIN s /\ \A j \in DOMAIN s : s[j] <= s[Top]
  BY TopExists
<1>2. s[Top] \in 0..100
  BY <1>1, LenProperties, ElementOfSeq
<1>3. AgentScore(s) = Fused(s[Top], Cardinality(StrongOf(s)))
  BY DEF AgentScore, Fused, StrongOf
<1>. QED
  <2>. HIDE DEF Top
  <2>. QED  BY <1>1, <1>2, <1>3

LEMMA StrongIsFinite ==
    ASSUME NEW s \in Seq(0..100)
    PROVE  IsFiniteSet(StrongOf(s)) /\ Cardinality(StrongOf(s)) \in Nat
<1>1. IsFiniteSet(1..Len(s)) /\ StrongOf(s) \in SUBSET (1..Len(s))
  <2>1. Len(s) \in Nat /\ DOMAIN s = 1..Len(s)
    BY LenProperties
  <2>2. IsFiniteSet(1..Len(s))
    BY <2>1, FS_Interval
  <2>. QED  BY <2>1, <2>2 DEF StrongOf
<1>2. IsFiniteSet(StrongOf(s))
  BY <1>1, FS_Subset
<1>. QED  BY <1>2, FS_CardinalityType

\* One more signal never lowers the score of the agents.
LEMMA AgentScoreGrows ==
    ASSUME NEW s \in Seq(0..100), NEW e \in 0..100
    PROVE  /\ AgentScore(s) \in 0..100 /\ AgentScore(Append(s, e)) \in 0..100
           /\ AgentScore(s) <= AgentScore(Append(s, e))
<1>0. PICK t : t = Append(s, e)
  OBVIOUS
<1>1. /\ t \in Seq(0..100) /\ t # <<>> /\ Len(t) = Len(s) + 1 /\ Len(s) \in Nat
      /\ DOMAIN s = 1..Len(s) /\ DOMAIN t = 1..(Len(s) + 1)
      /\ \A i \in 1..Len(s) : t[i] = s[i]
  BY <1>0, AppendProperties, LenProperties
<1>2. /\ IsFiniteSet(StrongOf(t)) /\ Cardinality(StrongOf(t)) \in Nat
      /\ Cardinality(StrongOf(s)) \in Nat
  BY <1>1, StrongIsFinite
<1>3. StrongOf(s) \in SUBSET StrongOf(t)
  BY <1>1 DEF StrongOf
<1>4. Cardinality(StrongOf(s)) <= Cardinality(StrongOf(t))
  BY <1>2, <1>3, FS_Subset
<1>5. PICK k \in DOMAIN t : /\ \A j \in DOMAIN t : t[j] <= t[k]
                            /\ t[k] \in 0..100
                            /\ AgentScore(t) = Fused(t[k], Cardinality(StrongOf(t)))
  BY <1>1, ScoreIsFused
<1>6. AgentScore(t) \in 0..100
  BY <1>2, <1>5, FusedGrows
<1>7. CASE s = <<>>
  <2>1. AgentScore(s) = 0
    BY <1>7 DEF AgentScore
  <2>2. \A a \in 0..100 : 0 \in 0..100 /\ 0 <= a
    OBVIOUS
  <2>. QED  BY <2>1, <2>2, <1>6, <1>0
<1>8. CASE s # <<>>
  <2>1. PICK i \in DOMAIN s : /\ s[i] \in 0..100
                              /\ AgentScore(s) = Fused(s[i], Cardinality(StrongOf(s)))
    BY <1>8, ScoreIsFused
  <2>2. i \in DOMAIN t /\ t[i] = s[i]
    BY <1>1
  <2>3. s[i] <= t[k]
    BY <1>5, <2>2
  <2>4. AgentScore(s) \in 0..100 /\ AgentScore(s) <= AgentScore(t)
    BY <1>2, <1>4, <1>5, <2>1, <2>3, FusedGrows
  <2>. QED  BY <1>0, <1>6, <2>4
<1>. QED  BY <1>7, <1>8

LEMMA CompositeGrows ==
    \A c, a, b \in 0..100 : a <= b => Composite(c, a) <= Composite(c, b)
  BY SMTT(30) DEF Composite, Within, Least, Greatest

\* Evidence counts one way: more of any kind never lowers the confidence, the
\* risk or the composite, nor raises the taxpayer's score (calculateConfidence,
\* confidenceToRisk, aggregateAgentScore and compositeConfidence).
THEOREM MoreEvidenceNeverHelps ==
    \A pct \in Int, n, match \in Nat, scores \in Seq(0..100), score \in 0..100 :
        EvidenceCountsOneWay(pct, n, match, scores, score)
<1>. SUFFICES ASSUME NEW pct \in Int, NEW n \in Nat, NEW match \in Nat,
                     NEW scores \in Seq(0..100), NEW score \in 0..100
              PROVE  EvidenceCountsOneWay(pct, n, match, scores, score)
  OBVIOUS
<1> DEFINE c == Confidence(pct, n, match, TRUE, FALSE)
           Surer == {Confidence(pct + 1, n, match, TRUE, FALSE),
                     Confidence(pct, n + 1, match, TRUE, FALSE),
                     Confidence(pct, n, match + 1, TRUE, FALSE),
                     Confidence(pct, n, match, FALSE, FALSE)}
<1>1. c \in 0..100 /\ \A more \in Surer : more \in 0..100 /\ c <= more
  BY ConfidenceGrows
<1>2. /\ AgentScore(scores) \in 0..100 /\ AgentScore(Append(scores, score)) \in 0..100
      /\ AgentScore(scores) <= AgentScore(Append(scores, score))
  BY AgentScoreGrows
<1>3. Composite(c, AgentScore(scores)) <= Composite(c, AgentScore(Append(scores, score)))
  <2>. HIDE DEF c
  <2>. QED  BY <1>1, <1>2, CompositeGrows
<1>4. \A more \in Surer : c <= more /\ RiskLevel(c) <= RiskLevel(more) /\ NewScore(more) <= NewScore(c)
  <2>. HIDE DEF c, Surer
  <2>. QED  BY <1>1, SurerIsGraver
<1>. QED  BY <1>2, <1>3, <1>4 DEF EvidenceCountsOneWay

-----------------------------------------------------------------------------
(* The scans.  A scan holds what it read while uploads, patches, officers and  *)
(* other scans go on, so the invariant says of each scan what it may still     *)
(* rely on.                                                                    *)

WrittenBy(n) == {t \in Taxpayers : cases[t].scan = n}

\* Nothing is dated later than now, and no scan is beyond the bound.
Dated ==
    /\ memo \in [at : Int, ids : SUBSET Taxpayers] /\ memo.at <= now
    /\ query \in [running : BOOLEAN, at : Nat, limit : Nat]
    /\ changes \in Nat /\ Len(scans) <= MaxScans
    /\ \A t \in Taxpayers : since[t] <= now
    /\ \A n \in 1 .. MaxScans : job[n].at <= now

\* Whose state has not changed from `at' on is in the set, or is not.
Known(ids, at) ==
    \A t \in Taxpayers : since[t] < at => (t \in ids <=> Reportable(t, income, limit))

\* The query in flight asks with the limit in force, and what it told is known.
Recent ==
    /\ query.running => query.limit = limit
    /\ Known(memo.ids, memo.at)
    /\ \A n \in 1 .. MaxScans : job[n].pc = "aggregate" =>
          Known(job[n].ids, job[n].at - (Ttl + QueryLimit))

\* A scan that runs has counted every case it was the last to write.
Counted ==
    /\ \A t \in Taxpayers : cases[t].scan <= Len(scans)
    /\ \A n \in 1 .. MaxScans : job[n].pc \in {"ask", "wait", "aggregate"} => job[n].flagged = 0
    /\ \A n \in DOMAIN scans : Running(n) => Cardinality(WrittenBy(n)) <= job[n].flagged
    /\ TotalsCoverCases

\* A scan works on one case at a time, and about to write one that is assigned
\* it holds its owner.
HoldsOwner ==
    /\ \A n \in 1 .. MaxScans : \A t, u \in job[n].cur : t = u
    /\ \A n \in 1 .. MaxScans : job[n].pc = "upsert" /\ ~overlapped =>
          \A t \in job[n].cur : cases[t].owner # NoOne => cases[t].owner = job[n].owner

IInv == TypeOK /\ Dated /\ (overlapped \/ Recent) /\ Counted /\ HoldsOwner

-----------------------------------------------------------------------------
(* The jobs under the steps.                                                   *)

LEMMA AtMostChains == \A a, b, c \in Nat : a <= b /\ b <= c => a <= c
  OBVIOUS

Aggs == UNION {[D -> 0 .. MaxIncome] : D \in SUBSET Taxpayers}

LEMMA Constants ==
    ASSUME ScanAssumption
    PROVE  /\ MaxTime \in Nat /\ MaxIncome \in Nat \ {0} /\ MaxScans \in Nat /\ MaxChanges \in Nat
           /\ Ttl \in Nat \ {0} /\ QueryLimit \in Nat \ {0} /\ Threshold \in Nat
           /\ Limits \subseteq Nat /\ DefaultLimit \in Limits /\ Overrides \subseteq Nat
           /\ Confidences \subseteq 0 .. 100 /\ IsFiniteSet(Taxpayers) /\ Suffixed \subseteq Taxpayers
  BY DEF ScanAssumption

JobRecords == [pc : {"idle", "dead", "ask", "wait", "aggregate", "party", "case", "upsert"},
               at : Nat, ids : SUBSET Taxpayers, agg : Aggs, bar : Nat,
               owner : Owners, cur : SUBSET Taxpayers, flagged : Nat]

\* The amounts of a job are a function on some of the taxpayers.
LEMMA JobFields == Jobs = JobRecords
  BY DEF Jobs, JobRecords, Aggs

ScanRows == [status : {"RUNNING", "COMPLETED", "FAILED"}, flagged : Nat]
Queries  == [running : BOOLEAN, at : Nat, limit : Nat]
Flags    == [flag : BOOLEAN, source : {"none", "NAME_SUFFIX", "MANUAL"}]
Memos    == [at : Int, ids : SUBSET Taxpayers]
Marks    == [flagged : BOOLEAN, review : Reviews]
CaseRows == [status : {"none", "OPEN", "MOVED"}, owner : Owners, scan : Nat]

LEMMA IdleIsJob == IdleJob \in JobRecords
<1>1. <<>> \in [{} -> 0 .. MaxIncome]
  OBVIOUS
<1>2. <<>> \in Aggs
  BY <1>1 DEF Aggs
<1>. QED  BY <1>2 DEF JobRecords, IdleJob, Owners

LEMMA GotoJob ==
    ASSUME TypeOK, NEW n \in 1 .. MaxScans, NEW j \in JobRecords, Goto(n, j)
    PROVE  /\ job' \in [1 .. MaxScans -> Jobs]
           /\ job'[n] = j /\ \A m \in 1 .. MaxScans \ {n} : job'[m] = job[m]
  BY JobFields DEF TypeOK, Goto

LEMMA WithoutIsLess ==
    ASSUME TypeOK, NEW n \in 1 .. MaxScans, NEW t
    PROVE  Without(n, t) \in Aggs
<1>1. job[n].agg \in Aggs
  BY JobFields DEF JobRecords, TypeOK
<1>2. PICK D \in SUBSET Taxpayers : job[n].agg \in [D -> 0 .. MaxIncome]
  BY <1>1 DEF Aggs
<1>3. Without(n, t) \in [D \ {t} -> 0 .. MaxIncome]
  BY <1>2 DEF Without, Restrict
<1>. QED  BY <1>3 DEF Aggs

-----------------------------------------------------------------------------
(* Types.                                                                      *)

\* Types and dates of everything but the history, which Watch keeps.
Shapes ==
    /\ now \in 0 .. MaxTime
    /\ income \in [Taxpayers -> 0 .. MaxIncome] /\ limit \in Limits
    /\ llc \in [Taxpayers -> Flags]
    /\ override \in Overrides \cup {NoOverride}
    /\ portfolio \in [Range(Scopes) -> Owners]
    /\ record \in [Taxpayers -> Marks]
    /\ cases \in [Taxpayers -> CaseRows]
    /\ risk \in [Taxpayers -> 0 .. 100]
    /\ memo \in Memos /\ memo.at <= now
    /\ query \in Queries
    /\ scans \in Seq(ScanRows)
    /\ Len(scans) <= MaxScans /\ changes \in Nat
    /\ job \in [1 .. MaxScans -> Jobs]
    /\ \A n \in 1 .. MaxScans : job[n].at <= now

LEMMA AreNumbers ==
    ASSUME ScanAssumption, TypeOK
    PROVE  now \in Nat /\ MaxScans \in Nat
<1>1. now \in 0 .. MaxTime
  BY DEF TypeOK
<1>2. MaxTime \in Nat /\ MaxScans \in Nat
  BY Constants
<1>. QED  BY <1>1, <1>2

LEMMA DatesOfJobs ==
    ASSUME ScanAssumption, TypeOK, Dated, NEW n \in 1 .. MaxScans, NEW j, j.at <= now,
           job'[n] = j, \A m \in 1 .. MaxScans \ {n} : job'[m] = job[m]
    PROVE  \A m \in 1 .. MaxScans : job'[m].at <= now
<1>1. \A m \in 1 .. MaxScans : job[m].at <= now
  BY DEF Dated
<1>. QED  BY <1>1

LEMMA TypedHasShape == TypeOK /\ Dated => Shapes
  BY DEF TypeOK, Dated, Shapes, ScanRows, Flags, Memos, Queries, Marks, CaseRows

\* Of each taxpayer, either nothing changed or since is now.
LEMMA HistoryMoves ==
    ASSUME TypeOK, Dated, Watch
    PROVE  /\ since' \in [Taxpayers -> 0 .. MaxTime]
           /\ \A t \in Taxpayers : since'[t] <= now
           /\ \A t \in Taxpayers :
                 \/ since'[t] = now
                 \/ since'[t] = since[t]
                    /\ (Reportable(t, income', limit') <=> Reportable(t, income, limit))
  BY DEF TypeOK, Dated, Watch

\* A step of one scan that leaves the rows of the scans alone.
LEMMA JobShapes ==
    ASSUME ScanAssumption, TypeOK, Dated, NEW n \in 1 .. MaxScans, NEW j \in JobRecords, Goto(n, j), j.at <= now,
           UNCHANGED <<now, income, limit, llc, override, portfolio, memo, scans, changes>>,
           query' \in Queries,
           record' \in [Taxpayers -> Marks],
           cases' \in [Taxpayers -> CaseRows],
           risk' \in [Taxpayers -> 0 .. 100]
    PROVE  Shapes'
<1>1. job' \in [1 .. MaxScans -> Jobs] /\ \A m \in 1 .. MaxScans : job'[m].at <= now
  <2>1. \A m \in 1 .. MaxScans : job[m].at <= now
    BY DEF Dated
  <2>. QED  BY <2>1, GotoJob
<1>. QED  BY <1>1 DEF TypeOK, Dated, Shapes, ScanRows, Flags, Memos, Queries, Marks, CaseRows

\* ... and one that ends it.
LEMMA EndShapes ==
    ASSUME ScanAssumption, TypeOK, Dated, NEW n \in 1 .. MaxScans, n \in DOMAIN scans,
           NEW status \in {"COMPLETED", "FAILED"}, NEW flagged \in Nat, End(n, status, flagged),
           UNCHANGED <<now, income, limit, llc, override, portfolio, record, cases, risk, memo, query, changes>>
    PROVE  /\ Shapes'
           /\ DOMAIN scans' = DOMAIN scans /\ Len(scans') = Len(scans)
           /\ scans'[n].status = status /\ scans'[n].flagged = flagged
           /\ \A m \in DOMAIN scans : m # n => scans'[m] = scans[m]
<1>1. scans \in Seq(ScanRows)
  BY DEF TypeOK, ScanRows
<1>2. scans[n] \in ScanRows
  BY <1>1
<1>3. /\ scans' \in Seq(ScanRows)
      /\ DOMAIN scans' = DOMAIN scans /\ Len(scans') = Len(scans)
      /\ scans'[n].status = status /\ scans'[n].flagged = flagged
      /\ \A m \in DOMAIN scans : m # n => scans'[m] = scans[m]
  <2> DEFINE r == [scans[n] EXCEPT !.status = status, !.flagged = flagged]
  <2>1. r \in ScanRows /\ r.status = status /\ r.flagged = flagged
    BY <1>2 DEF ScanRows
  <2>2. scans' = [scans EXCEPT ![n] = r]
    BY <1>1 DEF End
  <2>. HIDE DEF r
  <2>. QED  BY <1>1, <2>1, <2>2
<1>4. /\ job' \in [1 .. MaxScans -> Jobs]
      /\ \A m \in 1 .. MaxScans : job'[m].at <= now
  <2>1. IdleJob.at = 0 /\ Goto(n, IdleJob) /\ now \in Nat
    BY Constants DEF IdleJob, End, TypeOK
  <2>2. /\ job' \in [1 .. MaxScans -> Jobs]
        /\ job'[n] = IdleJob /\ \A m \in 1 .. MaxScans \ {n} : job'[m] = job[m]
    BY <2>1, GotoJob, IdleIsJob
  <2>3. \A m \in 1 .. MaxScans : job[m].at <= now
    BY DEF Dated
  <2>4. 0 <= now
    BY <2>1
  <2>5. ASSUME NEW m \in 1 .. MaxScans PROVE job'[m].at <= now
    <3>1. CASE m = n
      BY <2>1, <2>2, <2>4, <3>1, Zenon
    <3>2. CASE m # n
      <4>1. job'[m] = job[m]
        BY <2>2, <3>2
      <4>. QED  BY <2>3, <4>1, Zenon
    <3>. QED  BY <3>1, <3>2
  <2>. QED  BY <2>2, <2>5, Zenon
<1>. QED  BY <1>3, <1>4 DEF TypeOK, Dated, Shapes, ScanRows, Flags, Memos, Queries, Marks, CaseRows

\* The owner a scan writes is an officer, or no one: of the portfolios that have
\* an owner one is the most specific.
LEMMA RouteIsOwner ==
    ASSUME ScanAssumption, TypeOK, NEW t \in Taxpayers
    PROVE  Route(t) \in Owners
<1> DEFINE Owned == {k \in DOMAIN Scopes : portfolio[Scopes[k]] # NoOne}
           first == CHOOSE k \in Owned : \A j \in Owned : k <= j
<1>1. portfolio \in [Range(Scopes) -> Owners] /\ cases[t].owner \in Owners
  BY DEF TypeOK
<1>2. ResolveOwner \in Owners
  <2>1. CASE Owned = {}
    BY <2>1 DEF ResolveOwner, Owners
  <2>2. CASE Owned # {}
    <3>1. Owned \subseteq Nat
      <4>1. DOMAIN Scopes = 1 .. Len(Scopes) /\ Len(Scopes) \in Nat
        BY LenProperties DEF ScanAssumption
      <4>. QED  BY <4>1
    <3>2. \E k \in Owned : \A j \in Owned : k <= j
      <4>. HIDE DEF Owned
      <4>. QED  BY <2>2, <3>1, LeastExists
    <3>3. first \in Owned
      <4>. HIDE DEF Owned
      <4>. QED  BY <3>2
    <3>4. ResolveOwner = portfolio[Scopes[first]] /\ Scopes[first] \in Range(Scopes)
      BY <2>2, <3>3 DEF ResolveOwner, Range
    <3>. QED  BY <1>1, <3>4
  <2>. QED  BY <2>1, <2>2
<1>. QED  BY <1>1, <1>2 DEF Route

LEMMA ProceedShapes ==
    ASSUME ScanAssumption, TypeOK, Dated, NEW n \in 1 .. MaxScans, Proceed(n)
    PROVE  Shapes'
<1>a. job[n] \in JobRecords
  BY JobFields DEF TypeOK
<1>0. /\ job[n].agg \in Aggs /\ job[n].at \in Nat /\ job[n].ids \in SUBSET Taxpayers
      /\ job[n].bar \in Nat /\ job[n].owner \in Owners /\ job[n].cur \in SUBSET Taxpayers
      /\ job[n].flagged \in Nat /\ job[n].at <= now /\ now \in Nat
      /\ memo.ids \in SUBSET Taxpayers
  <2>1. job[n].at <= now /\ now \in Nat /\ memo.ids \in SUBSET Taxpayers
    BY Constants DEF TypeOK, Dated
  <2>. QED  BY <1>a, <2>1 DEF JobRecords
<1>b. /\ query \in Queries /\ record \in [Taxpayers -> Marks]
      /\ cases \in [Taxpayers -> CaseRows] /\ risk \in [Taxpayers -> 0 .. 100]
  BY DEF TypeOK, Dated, Queries, Marks, CaseRows
<1>1. CASE TakeMemo(n)
  <2> DEFINE j == [job[n] EXCEPT !.pc = "aggregate", !.at = now, !.ids = memo.ids]
  <2>1. j \in JobRecords /\ j.at = now
    BY <1>a, <1>0 DEF JobRecords
  <2>2. Goto(n, j) /\ UNCHANGED <<now, world, record, cases, risk, memo, query, scans>>
    BY <1>1 DEF TakeMemo
  <2>3. j.at <= now
    BY <1>0, <2>1
  <2>. HIDE DEF j
  <2>. QED  BY <1>b, <2>1, <2>2, <2>3, JobShapes DEF world
<1>2. CASE AskQuery(n)
  <2> DEFINE j == [job[n] EXCEPT !.pc = "wait", !.at = now]
  <2>1. j \in JobRecords /\ j.at = now
    BY <1>a, <1>0 DEF JobRecords
  <2>2. query' \in Queries
    <3>1. limit \in Nat
      BY Constants DEF TypeOK
    <3>. QED  BY <1>0, <1>b, <1>2, <3>1 DEF AskQuery, Queries
  <2>3. Goto(n, j) /\ UNCHANGED <<now, world, record, cases, risk, memo, scans>>
    BY <1>2 DEF AskQuery
  <2>4. j.at <= now
    BY <1>0, <2>1
  <2>. HIDE DEF j
  <2>. QED  BY <1>b, <2>1, <2>2, <2>3, <2>4, JobShapes DEF world
<1>3. CASE Aggregate(n)
  <2> DEFINE agg == [t \in {t \in job[n].ids : income[t] > 0} |-> income[t]]
             bar == IF override = NoOverride THEN Threshold ELSE override
             j   == [IdleJob EXCEPT !.pc = "party", !.agg = agg, !.bar = bar]
  <2>1. agg \in Aggs
    <3>1. agg \in [{t \in job[n].ids : income[t] > 0} -> 0 .. MaxIncome]
      BY <1>0 DEF TypeOK
    <3>. QED  BY <1>0, <3>1 DEF Aggs
  <2>2. bar \in Nat
    BY Constants DEF TypeOK
  <2>3. j \in JobRecords /\ j.at = 0
    <3>. HIDE DEF agg, bar
    <3>. QED  BY <2>1, <2>2, IdleIsJob DEF JobRecords, IdleJob
  <2>4. Goto(n, j) /\ UNCHANGED <<now, world, record, cases, risk, memo, query, scans>>
    BY <1>3 DEF Aggregate
  <2>5. j.at <= now
    BY <1>0, <2>3
  <2>. HIDE DEF j
  <2>. QED  BY <1>b, <2>3, <2>4, <2>5, JobShapes DEF world
<1>4. CASE SkipCompany(n)
  <2>1. PICK t \in DOMAIN job[n].agg : Goto(n, [job[n] EXCEPT !.agg = Without(n, t)])
    BY <1>4 DEF SkipCompany
  <2> DEFINE j == [job[n] EXCEPT !.agg = Without(n, t)]
  <2>2. j \in JobRecords /\ j.at = job[n].at
    BY <1>a, <1>0, WithoutIsLess DEF JobRecords
  <2>3. UNCHANGED <<now, world, record, cases, risk, memo, query, scans>>
    BY <1>4 DEF SkipCompany
  <2>. HIDE DEF j
  <2>. QED  BY <1>0, <1>b, <2>1, <2>2, <2>3, JobShapes DEF world, j
<1>5. CASE Stamp(n)
  <2>1. PICK t \in DOMAIN job[n].agg, flag \in BOOLEAN :
          /\ record' = [record EXCEPT ![t] =
                [flagged |-> flag, review |-> IF flag THEN "PENDING_REVIEW" ELSE "none"]]
          /\ Goto(n, IF flag THEN [job[n] EXCEPT !.pc = "case", !.cur = {t}]
                     ELSE [job[n] EXCEPT !.agg = Without(n, t)])
    BY <1>5 DEF Stamp, ShouldFlag
  <2> DEFINE j == IF flag THEN [job[n] EXCEPT !.pc = "case", !.cur = {t}]
                  ELSE [job[n] EXCEPT !.agg = Without(n, t)]
  <2>2. t \in Taxpayers
    BY <1>0 DEF Aggs
  <2>3. j \in JobRecords /\ j.at = job[n].at
    BY <1>a, <1>0, <2>2, WithoutIsLess DEF JobRecords
  <2>4. record' \in [Taxpayers -> Marks]
    BY <1>b, <2>1, <2>2 DEF Marks, Reviews
  <2>5. UNCHANGED <<now, world, cases, risk, memo, query, scans>>
    BY <1>5 DEF Stamp
  <2>. HIDE DEF j
  <2>. QED  BY <1>0, <1>b, <2>1, <2>3, <2>4, <2>5, JobShapes DEF world, j
<1>6. CASE ReadCase(n)
  <2>1. PICK t \in job[n].cur : Goto(n, [job[n] EXCEPT !.pc = "upsert", !.owner = Route(t)])
    BY <1>6 DEF ReadCase
  <2> DEFINE j == [job[n] EXCEPT !.pc = "upsert", !.owner = Route(t)]
  <2>2. Route(t) \in Owners
    BY <1>0, <1>b, RouteIsOwner
  <2>3. j \in JobRecords /\ j.at = job[n].at
    BY <1>a, <1>0, <2>2 DEF JobRecords
  <2>4. UNCHANGED <<now, world, record, cases, risk, memo, query, scans>>
    BY <1>6 DEF ReadCase
  <2>. HIDE DEF j
  <2>. QED  BY <1>0, <1>b, <2>1, <2>3, <2>4, JobShapes DEF world, j
<1>7. CASE Upsert(n)
  <2>1. PICK t \in job[n].cur, c \in Confidences :
          /\ cases' = [cases EXCEPT ![t] =
                [status |-> IF @.status = "none" THEN "OPEN" ELSE @.status,
                 owner  |-> IF job[n].owner # NoOne THEN job[n].owner ELSE @.owner,
                 scan   |-> n]]
          /\ risk' = [risk EXCEPT ![t] = NewScore(c)]
          /\ Goto(n, [job[n] EXCEPT !.pc = "party", !.cur = {}, !.owner = NoOne,
                        !.agg = Without(n, t), !.flagged = @ + 1])
    BY <1>7 DEF Upsert
  <2> DEFINE j == [job[n] EXCEPT !.pc = "party", !.cur = {}, !.owner = NoOne,
                        !.agg = Without(n, t), !.flagged = @ + 1]
  <2>2. NewScore(c) \in 0 .. 100
    BY Constants DEF NewScore
  <2>3. j \in JobRecords /\ j.at = job[n].at
    <3>1. job[n].flagged + 1 \in Nat
      BY SMTT(20), <1>0
    <3>2. Without(n, t) \in Aggs
      BY WithoutIsLess
    <3>. QED  BY <1>a, <3>1, <3>2 DEF JobRecords, Owners
  <2>4. cases' \in [Taxpayers -> CaseRows]
    <3> DEFINE r == [status |-> IF cases[t].status = "none" THEN "OPEN" ELSE cases[t].status,
                     owner  |-> IF job[n].owner # NoOne THEN job[n].owner ELSE cases[t].owner,
                     scan   |-> n]
    <3>1. cases' = [cases EXCEPT ![t] = r]
      BY <2>1, Zenon
    <3>2. t \in Taxpayers /\ job[n].owner \in Owners /\ n \in Nat
      BY <1>0
    <3>3. cases[t] \in CaseRows
      BY <1>b, <3>2
    <3>4. r \in CaseRows
      BY <3>2, <3>3 DEF CaseRows
    <3>. HIDE DEF r
    <3>. QED  BY <1>b, <3>1, <3>2, <3>4
  <2>5. risk' \in [Taxpayers -> 0 .. 100]
    BY <1>b, <2>1, <2>2
  <2>6. UNCHANGED <<now, world, record, memo, query, scans>>
    BY <1>7 DEF Upsert
  <2>. HIDE DEF j
  <2>. QED  BY <1>0, <1>b, <2>1, <2>3, <2>4, <2>5, <2>6, JobShapes DEF world, j
<1>8. CASE Complete(n)
  <2>1. n \in DOMAIN scans
    BY <1>8 DEF Complete, Running, TypeOK
  <2>. QED  BY <1>0, <1>8, <2>1, EndShapes DEF Complete, world
<1>. QED  BY <1>1, <1>2, <1>3, <1>4, <1>5, <1>6, <1>7, <1>8 DEF Proceed

LEMMA StartShapes ==
    ASSUME ScanAssumption, TypeOK, Dated, StartScan
    PROVE  /\ Shapes'
           /\ Len(scans) + 1 \in 1 .. MaxScans /\ Goto(Len(scans) + 1, [IdleJob EXCEPT !.pc = "ask"])
           /\ Len(scans') = Len(scans) + 1 /\ scans'[Len(scans) + 1].status = "RUNNING"
           /\ \A m \in DOMAIN scans : m # Len(scans) + 1 /\ scans'[m] = scans[m]
<1> DEFINE n == Len(scans) + 1
           j == [IdleJob EXCEPT !.pc = "ask"]
           r == [status |-> "RUNNING", flagged |-> 0]
<1>1. scans \in Seq(ScanRows) /\ now \in Nat /\ MaxScans \in Nat
  BY AreNumbers DEF TypeOK, ScanRows
<1>2. Len(scans) \in Nat /\ DOMAIN scans = 1 .. Len(scans)
  BY <1>1, LenProperties
<1>3. n \in 1 .. MaxScans /\ Goto(n, j) /\ scans' = Append(scans, r)
  BY <1>1, <1>2 DEF StartScan
<1>4. r \in ScanRows /\ r.status = "RUNNING"
  BY DEF ScanRows
<1>5. /\ scans' \in Seq(ScanRows) /\ Len(scans') = n /\ scans'[n] = r
      /\ \A m \in DOMAIN scans : m # n /\ scans'[m] = scans[m]
  <2>. HIDE DEF r
  <2>. QED  BY <1>1, <1>2, <1>3, <1>4, AppendProperties
<1>6. j \in JobRecords /\ j.at = 0
  BY IdleIsJob DEF JobRecords, IdleJob
<1>7. /\ job' \in [1 .. MaxScans -> Jobs]
      /\ \A m \in 1 .. MaxScans : job'[m].at <= now
  <2>1. j.at <= now
    BY <1>1, <1>6
  <2>. HIDE DEF n, j
  <2>2. /\ job' \in [1 .. MaxScans -> Jobs] /\ job'[n] = j
        /\ \A m \in 1 .. MaxScans \ {n} : job'[m] = job[m]
    BY <1>3, <1>6, GotoJob
  <2>. QED  BY <1>3, <2>1, <2>2, DatesOfJobs
<1>8. Len(scans') <= MaxScans
  BY <1>1, <1>2, <1>3, <1>5
<1>9. UNCHANGED <<now, income, limit, llc, override, portfolio, record, cases, risk, memo, query, changes>>
  BY DEF StartScan, world
<1>10. Shapes'
  <2>1. Shapes
    BY TypedHasShape
  <2>. HIDE DEF n, j, r
  <2>. QED  BY <1>5, <1>7, <1>8, <1>9, <2>1 DEF Shapes
<1>. QED  BY <1>3, <1>4, <1>5, <1>10

\* What the steps that touch several jobs at once make of a job.
LEMMA JobTurns ==
    ASSUME NEW j \in JobRecords, NEW ids \in SUBSET Taxpayers
    PROVE  /\ [j EXCEPT !.pc = "aggregate", !.ids = ids] \in JobRecords
           /\ [j EXCEPT !.pc = "aggregate", !.ids = ids].at = j.at
           /\ [IdleJob EXCEPT !.pc = "dead"] \in JobRecords /\ [IdleJob EXCEPT !.pc = "dead"].at = 0
           /\ IdleJob \in JobRecords /\ IdleJob.at = 0
<1>1. [j EXCEPT !.pc = "aggregate", !.ids = ids] \in JobRecords
  BY DEF JobRecords
<1>2. [j EXCEPT !.pc = "aggregate", !.ids = ids].at = j.at
  BY DEF JobRecords
<1>3. [IdleJob EXCEPT !.pc = "dead"] \in JobRecords /\ IdleJob \in JobRecords
  BY IdleIsJob DEF JobRecords
<1>. QED  BY <1>1, <1>2, <1>3 DEF IdleJob

\* Steps after which every job is what it was, over, or has its set.
JobsTurn(ids) ==
    /\ job' \in [1 .. MaxScans -> {job'[n] : n \in 1 .. MaxScans}]
    /\ \A n \in 1 .. MaxScans :
          \/ job'[n] \in {job[n], IdleJob, [IdleJob EXCEPT !.pc = "dead"]}
          \/ job'[n] = [job[n] EXCEPT !.pc = "aggregate", !.ids = ids]

LEMMA JobsShapes ==
    ASSUME ScanAssumption, TypeOK, Dated, NEW ids \in SUBSET Taxpayers, JobsTurn(ids)
    PROVE  /\ job' \in [1 .. MaxScans -> Jobs]
           /\ \A n \in 1 .. MaxScans : job'[n].at <= now
<1>1. \A n \in 1 .. MaxScans : job[n] \in JobRecords
  BY JobFields DEF TypeOK
<1>2. \A n \in 1 .. MaxScans : job[n].at <= now
  BY DEF Dated
<1>a. now \in Nat
  BY AreNumbers
<1>3. ASSUME NEW n \in 1 .. MaxScans
      PROVE  job'[n] \in JobRecords /\ job'[n].at <= now
  <2>1. \/ job'[n] = job[n] \/ job'[n] = IdleJob \/ job'[n] = [IdleJob EXCEPT !.pc = "dead"]
        \/ job'[n] = [job[n] EXCEPT !.pc = "aggregate", !.ids = ids]
    BY DEF JobsTurn
  <2>2. job[n] \in JobRecords
    BY <1>1
  <2>3. /\ [job[n] EXCEPT !.pc = "aggregate", !.ids = ids] \in JobRecords
        /\ [job[n] EXCEPT !.pc = "aggregate", !.ids = ids].at = job[n].at
        /\ [IdleJob EXCEPT !.pc = "dead"] \in JobRecords /\ [IdleJob EXCEPT !.pc = "dead"].at = 0
        /\ IdleJob \in JobRecords /\ IdleJob.at = 0
    BY <2>2, JobTurns
  <2>4. job'[n] \in JobRecords
    BY <2>1, <2>2, <2>3
  <2>5. job'[n].at = job[n].at \/ job'[n].at = 0
    BY <2>1, <2>3
  <2>6. job'[n].at <= now
    <3>1. job[n].at <= now
      BY <1>2
    <3>2. 0 <= now
      BY <1>a
    <3>. QED  BY <2>5, <3>1, <3>2
  <2>. QED  BY <2>4, <2>6
<1>4. job' \in [1 .. MaxScans -> {job'[n] : n \in 1 .. MaxScans}]
  BY DEF JobsTurn
<1>. QED  BY <1>3, <1>4, JobFields

\* A query that fails marks the rows of those who wait, and no others.
LEMMA FailedRows ==
    ASSUME ScanAssumption, TypeOK, Dated, QueryFails
    PROVE  /\ scans' \in Seq(ScanRows) /\ Len(scans') = Len(scans)
           /\ \A n \in DOMAIN scans : \/ scans'[n] = scans[n]
                                      \/ scans'[n].status = "FAILED" /\ job[n].pc = "wait"
<1>1. scans \in Seq(ScanRows)
  BY DEF TypeOK, ScanRows
<1>2. \A n \in DOMAIN scans : scans[n] \in ScanRows
  BY <1>1
<1>3. ASSUME NEW r \in ScanRows
      PROVE  [r EXCEPT !.status = "FAILED"] \in ScanRows /\ [r EXCEPT !.status = "FAILED"].status = "FAILED"
  BY DEF ScanRows
<1>4. scans' = [n \in DOMAIN scans |-> IF job[n].pc = "wait"
                  THEN [scans[n] EXCEPT !.status = "FAILED"] ELSE scans[n]]
  BY DEF QueryFails
<1>5. DOMAIN scans = 1 .. Len(scans) /\ Len(scans) \in Nat
  BY <1>1, LenProperties
<1>6. ASSUME NEW n \in DOMAIN scans
      PROVE  /\ scans'[n] \in ScanRows
             /\ \/ scans'[n] = scans[n]
                \/ scans'[n].status = "FAILED" /\ job[n].pc = "wait"
  <2>1. scans[n] \in ScanRows
    BY <1>2
  <2>2. scans'[n] = IF job[n].pc = "wait" THEN [scans[n] EXCEPT !.status = "FAILED"] ELSE scans[n]
    BY <1>4
  <2>3. [scans[n] EXCEPT !.status = "FAILED"] \in ScanRows /\ [scans[n] EXCEPT !.status = "FAILED"].status = "FAILED"
    BY <1>3, <2>1
  <2>. QED  BY <2>1, <2>2, <2>3
<1>7. scans' \in Seq(ScanRows) /\ Len(scans') = Len(scans)
  <2>1. \A n \in 1 .. Len(scans) : scans'[n] \in ScanRows
    BY <1>5, <1>6
  <2>2. scans' = [n \in 1 .. Len(scans) |-> scans'[n]]
    BY <1>4, <1>5
  <2>3. [n \in 1 .. Len(scans) |-> scans'[n]] \in Seq(ScanRows)
    BY <1>5, <2>1, IsASeq
  <2>4. scans' \in Seq(ScanRows) /\ DOMAIN scans' = 1 .. Len(scans)
    BY <2>2, <2>3, Zenon
  <2>. QED  BY <1>5, <2>4, LenProperties
<1>. QED  BY <1>6, <1>7

LEMMA AnswerShapes ==
    ASSUME ScanAssumption, TypeOK, Dated, Answer \/ QueryFails \/ Crash
    PROVE  Shapes'
<1>1. Shapes /\ now \in Nat
  BY TypedHasShape, AreNumbers
<1>2. NoQuery \in Queries /\ NoMemo \in Memos /\ NoMemo.at = -1
  BY DEF NoQuery, Queries, NoMemo, Memos
<1>3. CASE Answer
  <2> DEFINE ids == {t \in Taxpayers : Reportable(t, income, query.limit)}
  <2>1. /\ job' \in [1 .. MaxScans -> Jobs]
        /\ \A n \in 1 .. MaxScans : job'[n].at <= now
    <3>1. ids \in SUBSET Taxpayers
      OBVIOUS
    <3>2. job' = [n \in 1 .. MaxScans |-> IF job[n].pc = "wait"
                     THEN [job[n] EXCEPT !.pc = "aggregate", !.ids = ids] ELSE job[n]]
      BY <1>3 DEF Answer
    <3>. HIDE DEF ids
    <3>3. JobsTurn(ids)
      BY <3>2 DEF JobsTurn
    <3>. QED  BY <3>1, <3>3, JobsShapes
  <2>2. memo' \in Memos /\ memo'.at = now /\ query' = NoQuery
    <3>1. memo' = [at |-> now, ids |-> ids] /\ query' = NoQuery
      BY <1>3 DEF Answer
    <3>2. now \in Int /\ ids \in SUBSET Taxpayers
      BY <1>1
    <3>. HIDE DEF ids
    <3>. QED  BY <3>1, <3>2 DEF Memos
  <2>3. UNCHANGED <<now, income, limit, llc, override, portfolio, record, cases, risk, scans, changes>>
    BY <1>3 DEF Answer, world
  <2>4. memo'.at <= now'
    <3>1. now <= now
      BY <1>1
    <3>. QED  BY <2>2, <2>3, <3>1
  <2>. HIDE DEF ids
  <2>. QED  BY <1>1, <1>2, <2>1, <2>2, <2>3, <2>4, Zenon DEF Shapes
<1>4. CASE QueryFails
  <2>1. /\ job' \in [1 .. MaxScans -> Jobs]
        /\ \A n \in 1 .. MaxScans : job'[n].at <= now
    <3>1. job' = [n \in 1 .. MaxScans |-> IF job[n].pc = "wait" THEN IdleJob ELSE job[n]]
      BY <1>4 DEF QueryFails
    <3>2. JobsTurn({})
      BY <3>1 DEF JobsTurn
    <3>. QED  BY <3>2, JobsShapes
  <2>2. scans' \in Seq(ScanRows) /\ Len(scans') = Len(scans)
    BY <1>4, FailedRows
  <2>3. UNCHANGED <<now, income, limit, llc, override, portfolio, record, cases, risk, memo, changes>> /\ query' = NoQuery
    BY <1>4 DEF QueryFails, world
  <2>. QED  BY <1>1, <1>2, <2>1, <2>2, <2>3, Zenon DEF Shapes
<1>5. CASE Crash
  <2>1. /\ job' \in [1 .. MaxScans -> Jobs]
        /\ \A n \in 1 .. MaxScans : job'[n].at <= now
    <3>1. job' = [n \in 1 .. MaxScans |->
                     IF Running(n) THEN [IdleJob EXCEPT !.pc = "dead"] ELSE job[n]]
      BY <1>5 DEF Crash
    <3>2. JobsTurn({})
      BY <3>1 DEF JobsTurn
    <3>. QED  BY <3>2, JobsShapes
  <2>2. UNCHANGED <<now, income, limit, llc, override, portfolio, record, cases, risk, scans, changes>>
        /\ memo' = NoMemo /\ query' = NoQuery
    BY <1>5 DEF Crash, world
  <2>3. -1 <= now
    BY <1>1
  <2>4. memo' \in Memos /\ memo'.at <= now'
    BY <1>2, <2>2, <2>3, Zenon
  <2>. QED  BY <1>1, <1>2, <2>1, <2>2, <2>4, Zenon DEF Shapes
<1>. QED  BY <1>3, <1>4, <1>5

LEMMA LoweredStays == \A x \in 0 .. 100 : Greatest(0, (IF x = 0 THEN 100 ELSE x) - 15) \in 0 .. 100
<1>1. ASSUME NEW x \in 0 .. 100 PROVE Greatest(0, (IF x = 0 THEN 100 ELSE x) - 15) \in 0 .. 100
  <2>1. CASE x = 0
    BY <2>1 DEF Greatest
  <2>2. CASE x # 0
    BY <2>2 DEF Greatest
  <2>. QED  BY <2>1, <2>2
<1>. QED  BY <1>1

LEMMA OthersShapes ==
    ASSUME ScanAssumption, TypeOK, Dated, Others \/ Tick
    PROVE  Shapes' /\ UNCHANGED <<memo, query, scans, job>>
<1>1. Shapes /\ now \in Nat
  BY TypedHasShape, AreNumbers
<1>2. CASE Tick
  <2>1. now' = now + 1 /\ now' \in 0 .. MaxTime
    BY <1>1, <1>2, Constants DEF Tick
  <2>2. UNCHANGED <<income, limit, llc, override, portfolio, record, cases, risk, memo, query, scans, job, changes>>
    BY <1>2 DEF Tick, world
  <2>3. memo.at \in Int /\ memo.at <= now /\ \A n \in 1 .. MaxScans : job[n].at \in Nat /\ job[n].at <= now
    <3>1. \A n \in 1 .. MaxScans : job[n] \in JobRecords
      BY JobFields DEF TypeOK
    <3>. QED  BY <1>1, <3>1 DEF Shapes, Memos, JobRecords
  <2>4. memo'.at <= now' /\ \A n \in 1 .. MaxScans : job'[n].at <= now'
    BY <1>1, <2>1, <2>2, <2>3
  <2>. QED  BY <1>1, <2>1, <2>2, <2>4 DEF Shapes
<1>3. CASE Others
  <2>1. UNCHANGED <<now, memo, query, scans, job>> /\ changes' = changes + 1 /\ changes' \in Nat
    BY <1>1, <1>3 DEF Others, Changes, Shapes
  <2>2. /\ income' \in [Taxpayers -> 0 .. MaxIncome] /\ limit' \in Limits
        /\ llc' \in [Taxpayers -> Flags] /\ override' \in Overrides \cup {NoOverride}
        /\ portfolio' \in [Range(Scopes) -> Owners] /\ record' \in [Taxpayers -> Marks]
        /\ cases' \in [Taxpayers -> CaseRows] /\ risk' \in [Taxpayers -> 0 .. 100]
    <3>0. /\ income \in [Taxpayers -> 0 .. MaxIncome] /\ limit \in Limits
          /\ llc \in [Taxpayers -> Flags] /\ override \in Overrides \cup {NoOverride}
          /\ portfolio \in [Range(Scopes) -> Owners] /\ record \in [Taxpayers -> Marks]
          /\ cases \in [Taxpayers -> CaseRows] /\ risk \in [Taxpayers -> 0 .. 100]
      BY <1>1 DEF Shapes
    <3>1. CASE PatchLimit
      BY <3>0, <3>1 DEF PatchLimit
    <3>2. CASE SetOverride
      BY <3>0, <3>2 DEF SetOverride
    <3>3. CASE ChangePortfolio
      BY <3>0, <3>3 DEF ChangePortfolio
    <3>4. ASSUME NEW t \in Taxpayers, Upload(t) PROVE income' \in [Taxpayers -> 0 .. MaxIncome]
      <4> DEFINE x == income[t] + 1
      <4>1. income[t] < MaxIncome /\ income' = [income EXCEPT ![t] = x]
        BY <3>4, Zenon DEF Upload
      <4>2. MaxIncome \in Nat /\ income[t] \in 0 .. MaxIncome
        BY <3>0, Constants
      <4>3. x \in 0 .. MaxIncome
        BY <4>1, <4>2
      <4>. HIDE DEF x
      <4>. QED  BY <3>0, <4>1, <4>3
    <3>5. ASSUME NEW t \in Taxpayers, UpdateTaxpayer(t) PROVE llc' \in [Taxpayers -> Flags]
      <4>1. PICK f \in Flags : llc' = [llc EXCEPT ![t] = f]
        <5>1. \A b \in BOOLEAN : [flag |-> b, source |-> "MANUAL"] \in Flags
          BY DEF Flags
        <5>2. [flag |-> TRUE, source |-> "NAME_SUFFIX"] \in Flags
          BY DEF Flags
        <5>. QED  BY <3>5, <5>1, <5>2 DEF UpdateTaxpayer
      <4>. QED  BY <3>0, <4>1
    <3>6. ASSUME NEW t \in Taxpayers, Assign(t) \/ MoveCase(t) PROVE cases' \in [Taxpayers -> CaseRows]
      <4>1. cases[t] \in CaseRows
        BY <3>0
      <4>2. PICK c \in CaseRows : cases' = [cases EXCEPT ![t] = c]
        <5>1. CASE Assign(t)
          <6>1. PICK o \in Owners : cases' = [cases EXCEPT ![t].owner = o]
            BY <5>1 DEF Assign
          <6>2. [cases[t] EXCEPT !.owner = o] \in CaseRows
            BY <4>1 DEF CaseRows
          <6>. QED  BY <6>1, <6>2
        <5>2. CASE MoveCase(t)
          <6>1. [cases[t] EXCEPT !.status = "MOVED"] \in CaseRows
            BY <4>1 DEF CaseRows
          <6>. QED  BY <5>2, <6>1 DEF MoveCase
        <5>. QED  BY <3>6, <5>1, <5>2
      <4>. QED  BY <3>0, <4>2
    <3>7. ASSUME NEW t \in Taxpayers, Review(t)
          PROVE  record' \in [Taxpayers -> Marks] /\ risk' \in [Taxpayers -> 0 .. 100]
      <4>1. record' \in [Taxpayers -> Marks]
        BY <3>0, <3>7 DEF Review, Marks, Reviews
      <4>2. risk' \in [Taxpayers -> 0 .. 100]
        <5>1. \A x \in 0 .. 100 : Greatest(0, (IF x = 0 THEN 100 ELSE x) - 15) \in 0 .. 100
          BY LoweredStays
        <5>2. risk[t] \in 0 .. 100
          BY <3>0
        <5> DEFINE x == Greatest(0, (IF risk[t] = 0 THEN 100 ELSE risk[t]) - 15)
        <5>3. x \in 0 .. 100
          BY <5>1, <5>2
        <5>4. risk' = risk \/ risk' = [risk EXCEPT ![t] = x]
          BY <3>7 DEF Review
        <5>5. risk \in [Taxpayers -> 0 .. 100]
          BY <3>0
        <5>. HIDE DEF x
        <5>. QED  BY <5>3, <5>4, <5>5
      <4>. QED  BY <4>1, <4>2
    <3>8. ASSUME NEW t \in Taxpayers, Upload(t) \/ UpdateTaxpayer(t) \/ Assign(t) \/ MoveCase(t) \/ Review(t)
          PROVE  /\ income' \in [Taxpayers -> 0 .. MaxIncome] /\ limit' \in Limits
                 /\ llc' \in [Taxpayers -> Flags] /\ override' \in Overrides \cup {NoOverride}
                 /\ portfolio' \in [Range(Scopes) -> Owners] /\ record' \in [Taxpayers -> Marks]
                 /\ cases' \in [Taxpayers -> CaseRows] /\ risk' \in [Taxpayers -> 0 .. 100]
      BY <3>0, <3>4, <3>5, <3>6, <3>7, <3>8 DEF Upload, UpdateTaxpayer, Assign, MoveCase, Review
    <3>. QED  BY <1>3, <3>1, <3>2, <3>3, <3>8 DEF Others
  <2>. QED  BY <1>1, <2>1, <2>2 DEF Shapes
<1>. QED  BY <1>2, <1>3 DEF Tick, Others, Changes

\* A failure is recorded, and nothing else moves.
LEMMA FailShapes ==
    ASSUME ScanAssumption, TypeOK, Dated, NEW n \in 1 .. MaxScans, Fail(n)
    PROVE  Shapes'
<1>1. n \in DOMAIN scans
  BY DEF Fail, Running, TypeOK
<1>. QED  BY <1>1, EndShapes DEF Fail, world

\* Every step keeps the types and the dates.
LEMMA StepTypes ==
    ASSUME ScanAssumption, TypeOK, Dated, Next
    PROVE  TypeOK' /\ Dated'
<1>1. Step /\ Watch /\ overlapped' = (overlapped \/ Collision)
  BY DEF Next
<1>2. Shapes'
  <2>1. ASSUME NEW n \in 1 .. MaxScans, Proceed(n) \/ Fail(n) PROVE Shapes'
    BY <2>1, ProceedShapes, FailShapes
  <2>. QED  BY <1>1, <2>1, StartShapes, AnswerShapes, OthersShapes DEF Step
<1>3. now \in Nat /\ now' \in Nat /\ now <= now'
  <2>1. now \in Nat
    BY AreNumbers
  <2>2. now' = now \/ now' = now + 1
    BY <1>1 DEF Step, StartScan, Answer, QueryFails, Crash, Tick, Others, Changes, Proceed, TakeMemo, AskQuery,
                Aggregate, SkipCompany, Stamp, ReadCase, Upsert, Complete, Fail
  <2>. QED  BY <2>1, <2>2
<1>4. since' \in [Taxpayers -> 0 .. MaxTime] /\ \A t \in Taxpayers : since'[t] <= now'
  <2>1. since' \in [Taxpayers -> 0 .. MaxTime] /\ \A t \in Taxpayers : since'[t] <= now
    BY <1>1, HistoryMoves
  <2>2. ASSUME NEW t \in Taxpayers PROVE since'[t] <= now'
    <3>1. since'[t] \in Nat /\ since'[t] <= now
      BY <2>1, Constants
    <3>. QED  BY <1>3, <3>1
  <2>. QED  BY <2>1, <2>2
<1>5. overlapped' \in BOOLEAN
  BY <1>1
<1>6. TypeOK'
  BY <1>2, <1>4, <1>5 DEF TypeOK, Shapes, ScanRows, Flags, Memos, Queries, Marks, CaseRows
<1>7. Dated'
  BY <1>2, <1>4 DEF Dated, Shapes, Memos, Queries
<1>. QED  BY <1>6, <1>7

-----------------------------------------------------------------------------
(* What a step of a scan makes of its job, and leaves of the others'.          *)

LEMMA OneJob ==
    ASSUME ScanAssumption, TypeOK, NEW n \in 1 .. MaxScans, Proceed(n) \/ Fail(n)
    PROVE  /\ \A m \in 1 .. MaxScans \ {n} : job'[m] = job[m]
           /\ Running(n)
           /\ UNCHANGED <<now, income, limit, changes, memo>>
<1>1. PICK j : Goto(n, j)
  BY DEF Proceed, TakeMemo, AskQuery, Aggregate, SkipCompany, Stamp, ReadCase, Upsert, Complete, Fail, End
<1>2. job' = [job EXCEPT ![n] = j]
  BY <1>1 DEF Goto
<1>3. Running(n)
  BY DEF Proceed, TakeMemo, AskQuery, Aggregate, SkipCompany, Stamp, ReadCase, Upsert, Complete, Fail
<1>4. UNCHANGED <<now, income, limit, changes, memo>>
  BY DEF Proceed, TakeMemo, AskQuery, Aggregate, SkipCompany, Stamp, ReadCase, Upsert, Complete, Fail, world
<1>. QED  BY <1>2, <1>3, <1>4 DEF TypeOK

LEMMA JobMoves ==
    ASSUME ScanAssumption, TypeOK, NEW n \in 1 .. MaxScans
    PROVE  /\ TakeMemo(n) => /\ job'[n].pc = "aggregate" /\ job'[n].at = now /\ job'[n].ids = memo.ids
                             /\ job'[n].cur = job[n].cur /\ job'[n].flagged = job[n].flagged
           /\ AskQuery(n) => /\ job'[n].pc = "wait"
                             /\ job'[n].cur = job[n].cur /\ job'[n].flagged = job[n].flagged
           /\ Aggregate(n) => job'[n].pc = "party" /\ job'[n].cur = {} /\ job'[n].flagged = 0
           /\ SkipCompany(n) => /\ job'[n].pc = "party"
                                /\ job'[n].cur = job[n].cur /\ job'[n].flagged = job[n].flagged
           /\ Stamp(n) => /\ job'[n].pc \in {"case", "party"} /\ job'[n].flagged = job[n].flagged
                          /\ job'[n].cur = job[n].cur \/ \E t \in Taxpayers : job'[n].cur = {t}
           /\ ReadCase(n) => /\ job'[n].pc = "upsert"
                             /\ job'[n].cur = job[n].cur /\ job'[n].flagged = job[n].flagged
                             /\ \E t \in job[n].cur : job'[n].owner = Route(t)
           /\ Upsert(n) => job'[n].pc = "party" /\ job'[n].cur = {} /\ job'[n].flagged = job[n].flagged + 1
           /\ Complete(n) \/ Fail(n) => job'[n].pc = "idle" /\ job'[n].cur = {} /\ job'[n].flagged = 0
<1>1. job[n] \in JobRecords
  BY JobFields DEF TypeOK
<1>2. \A j : Goto(n, j) => job'[n] = j
  BY DEF Goto, TypeOK
<1>3. ASSUME TakeMemo(n)
      PROVE  /\ job'[n].pc = "aggregate" /\ job'[n].at = now /\ job'[n].ids = memo.ids
             /\ job'[n].cur = job[n].cur /\ job'[n].flagged = job[n].flagged
  BY <1>1, <1>2, <1>3 DEF TakeMemo, JobRecords
<1>4. ASSUME AskQuery(n)
      PROVE  job'[n].pc = "wait" /\ job'[n].cur = job[n].cur /\ job'[n].flagged = job[n].flagged
  BY <1>1, <1>2, <1>4 DEF AskQuery, JobRecords
<1>5. ASSUME Aggregate(n)
      PROVE  job'[n].pc = "party" /\ job'[n].cur = {} /\ job'[n].flagged = 0
  BY <1>1, <1>2, <1>5 DEF Aggregate, IdleJob
<1>6. ASSUME SkipCompany(n)
      PROVE  job'[n].pc = "party" /\ job'[n].cur = job[n].cur /\ job'[n].flagged = job[n].flagged
  BY <1>1, <1>2, <1>6 DEF SkipCompany, JobRecords
<1>7. ASSUME Stamp(n)
      PROVE  /\ job'[n].pc \in {"case", "party"} /\ job'[n].flagged = job[n].flagged
             /\ job'[n].cur = job[n].cur \/ \E t \in Taxpayers : job'[n].cur = {t}
  <2>1. PICK t \in DOMAIN job[n].agg, flag \in BOOLEAN :
          Goto(n, IF flag THEN [job[n] EXCEPT !.pc = "case", !.cur = {t}]
                  ELSE [job[n] EXCEPT !.agg = Without(n, t)])
    BY <1>7 DEF Stamp, ShouldFlag
  <2>2. t \in Taxpayers /\ job[n].pc = "party"
    BY <1>1, <1>7 DEF Stamp, JobRecords, Aggs
  <2>. QED  BY <1>1, <1>2, <2>1, <2>2 DEF JobRecords
<1>8. ASSUME ReadCase(n)
      PROVE  /\ job'[n].pc = "upsert" /\ job'[n].cur = job[n].cur /\ job'[n].flagged = job[n].flagged
             /\ \E t \in job[n].cur : job'[n].owner = Route(t)
  BY <1>1, <1>2, <1>8 DEF ReadCase, JobRecords
<1>9. ASSUME Upsert(n)
      PROVE  job'[n].pc = "party" /\ job'[n].cur = {} /\ job'[n].flagged = job[n].flagged + 1
  <2> DEFINE flagged == job[n].flagged + 1
  <2>1. PICK t : job'[n] = [job[n] EXCEPT !.pc = "party", !.cur = {}, !.owner = NoOne,
                              !.agg = Without(n, t), !.flagged = flagged]
    BY <1>2, <1>9 DEF Upsert
  <2>. HIDE DEF flagged
  <2>2. job'[n].pc = "party" /\ job'[n].cur = {} /\ job'[n].flagged = flagged
    BY <1>1, <2>1 DEF JobRecords
  <2>. QED  BY <2>2 DEF flagged
<1>10. ASSUME Complete(n) \/ Fail(n)
       PROVE  job'[n].pc = "idle" /\ job'[n].cur = {} /\ job'[n].flagged = 0
  BY <1>2, <1>10 DEF Complete, Fail, End, IdleJob
<1>. QED  BY <1>3, <1>4, <1>5, <1>6, <1>7, <1>8, <1>9, <1>10

-----------------------------------------------------------------------------
(* What a scan may know stays known.                                           *)

LEMMA KnownKept ==
    ASSUME ScanAssumption, TypeOK, Dated, Watch, NEW ids, NEW at \in Int, at <= now, Known(ids, at)
    PROVE  \A t \in Taxpayers : since'[t] < at => (t \in ids <=> Reportable(t, income', limit'))
<1>. SUFFICES ASSUME NEW t \in Taxpayers, since'[t] < at
              PROVE  t \in ids <=> Reportable(t, income', limit')
  OBVIOUS
<1>1. since'[t] # now
  BY AreNumbers
<1>2. /\ since'[t] = since[t]
      /\ Reportable(t, income', limit') <=> Reportable(t, income, limit)
  BY <1>1, HistoryMoves
<1>3. t \in ids <=> Reportable(t, income, limit)
  <2>1. since[t] < at
    BY <1>2
  <2>. QED  BY <2>1 DEF Known
<1>. QED  BY <1>2, <1>3

LEMMA KnownOfOlder ==
    ASSUME TypeOK, NEW ids, NEW at \in Int, NEW b \in Int, b <= at, Known(ids, at), ScanAssumption
    PROVE  Known(ids, b)
<1>. SUFFICES ASSUME NEW t \in Taxpayers, since[t] < b
              PROVE  t \in ids <=> Reportable(t, income, limit)
  BY DEF Known
<1>1. since[t] \in Nat
  BY Constants DEF TypeOK
<1>2. since[t] < at
  BY <1>1
<1>. QED  BY <1>2 DEF Known

LEMMA StepRecent ==
    ASSUME ScanAssumption, TypeOK, Dated, Recent, Next, ~overlapped'
    PROVE  Recent'
<1>1. Step /\ Watch /\ ~Collision
  BY DEF Next
<1>0. now \in Nat
  BY AreNumbers
<1> DEFINE lag == Ttl + QueryLimit
<1>2. lag \in Nat /\ Ttl <= lag
  BY Constants
<1>3. \A n \in 1 .. MaxScans : job[n].at \in Nat /\ job[n].at <= now
  <2>1. \A n \in 1 .. MaxScans : job[n] \in JobRecords /\ job[n].at <= now
    BY JobFields DEF TypeOK, Dated
  <2>. QED  BY <2>1 DEF JobRecords
<1>4. memo.at \in Int /\ memo.at <= now /\ memo.ids \in SUBSET Taxpayers
  BY DEF Dated
\* The query in flight.
<1>5. query'.running => query'.limit = limit'
  <2>1. CASE query' = NoQuery
    BY <2>1 DEF NoQuery
  <2>2. CASE query' = query /\ limit' = limit
    BY <2>2 DEF Recent
  <2>3. CASE query' = query /\ Others
    BY <1>1, <2>3 DEF Collision, Recent
  <2>4. CASE \E n \in 1 .. MaxScans : AskQuery(n)
    BY <2>4 DEF AskQuery, Recent, world
  <2>. QED  BY <1>1, <2>1, <2>2, <2>3, <2>4
            DEF Step, StartScan, Answer, QueryFails, Crash, Tick, Others, Changes, Proceed, TakeMemo,
                Aggregate, SkipCompany, Stamp, ReadCase, Upsert, Complete, Fail, world
\* The memo.
<1>6. \A t \in Taxpayers : since'[t] < memo'.at =>
          (t \in memo'.ids <=> Reportable(t, income', limit'))
  <2>1. CASE memo' = memo
    <3>1. Known(memo.ids, memo.at)
      BY DEF Recent
    <3>2. \A t \in Taxpayers : since'[t] < memo.at => (t \in memo.ids <=> Reportable(t, income', limit'))
      BY <1>1, <1>4, <3>1, KnownKept
    <3>. QED  BY <2>1, <3>2
  <2>2. CASE memo' = NoMemo
    <3>1. \A t \in Taxpayers : since'[t] \in Nat
      BY <1>1, HistoryMoves, Constants
    <3>2. memo'.at = -1
      BY <2>2 DEF NoMemo
    <3>. QED  BY <3>1, <3>2
  <2>3. CASE Answer
    BY <2>3 DEF Answer, Recent, world
  <2>. QED  BY <1>1, <2>1, <2>2, <2>3
            DEF Step, StartScan, QueryFails, Crash, Tick, Others, Changes, Proceed, TakeMemo, AskQuery,
                Aggregate, SkipCompany, Stamp, ReadCase, Upsert, Complete, Fail
\* The sets of the scans.
<1>7. ASSUME NEW n \in 1 .. MaxScans, job'[n].pc = "aggregate"
      PROVE  \A t \in Taxpayers : since'[t] < job'[n].at - lag =>
                (t \in job'[n].ids <=> Reportable(t, income', limit'))
  <2>1. CASE job'[n] = job[n]
    <3>1. Known(job[n].ids, job[n].at - lag)
      BY <1>7, <2>1 DEF Recent
    <3>2. job[n].at - lag \in Int /\ job[n].at - lag <= now
      <4>1. job[n].at \in Nat /\ job[n].at <= now
        BY <1>3, Zenon
      <4>2. \A a, b, l \in Nat : a <= b => a - l \in Int /\ a - l <= b
        OBVIOUS
      <4>. HIDE DEF lag
      <4>. QED  BY <1>0, <1>2, <4>1, <4>2, Zenon
    <3>3. \A t \in Taxpayers : since'[t] < job[n].at - lag =>
             (t \in job[n].ids <=> Reportable(t, income', limit'))
      <4> DEFINE since0 == job[n].at - lag
      <4>1. Known(job[n].ids, since0) /\ since0 \in Int /\ since0 <= now
        BY <3>1, <3>2, Zenon
      <4>. HIDE DEF since0
      <4>2. \A t \in Taxpayers : since'[t] < since0 => (t \in job[n].ids <=> Reportable(t, income', limit'))
        BY <1>1, <4>1, KnownKept, Zenon
      <4>. QED  BY <4>2, Zenon DEF since0
    <3>. QED  BY <2>1, <3>3
  <2>2. CASE TakeMemo(n)
    <3>1. job'[n].at = now /\ job'[n].ids = memo.ids /\ now - memo.at < Ttl
      BY <2>2, JobMoves DEF TakeMemo, MemoIsFresh
    <3>2. now - lag \in Int /\ now - lag <= memo.at /\ now - lag <= now
      BY SMTT(20), <1>0, <1>2, <1>4, <3>1, Constants
    <3>3. Known(memo.ids, now - lag)
      <4>. HIDE DEF lag
      <4>1. Known(memo.ids, memo.at)
        BY DEF Recent
      <4>. QED  BY <1>4, <3>2, <4>1, KnownOfOlder
    <3>4. \A t \in Taxpayers : since'[t] < now - lag => (t \in memo.ids <=> Reportable(t, income', limit'))
      <4>. HIDE DEF lag
      <4>. QED  BY <1>1, <3>2, <3>3, KnownKept
    <3>. QED  BY <3>1, <3>4
  <2>3. CASE Answer
    <3>1. CASE job[n].pc = "wait"
      <4>1. job'[n].ids = {t \in Taxpayers : Reportable(t, income, query.limit)}
        <5>1. job[n] \in JobRecords
          BY JobFields DEF TypeOK
        <5>. QED  BY <2>3, <3>1, <5>1 DEF Answer, JobRecords
      <4>. QED  BY <2>3, <4>1 DEF Answer, Recent, world
    <3>2. CASE job[n].pc # "wait"
      BY <2>1, <2>3, <3>2 DEF Answer
    <3>. QED  BY <3>1, <3>2
  <2>4. ASSUME NEW m \in 1 .. MaxScans, Proceed(m) \/ Fail(m), job'[n] # job[n]
        PROVE  TakeMemo(n)
    <3>1. m = n
      BY <2>4, OneJob
    <3>. QED  BY <1>7, <2>4, <3>1, JobMoves DEF Proceed
  <2>5. CASE StartScan
    <3>1. job'[n] = job[n] \/ job'[n] = [IdleJob EXCEPT !.pc = "ask"]
      BY <2>5, StartShapes DEF Goto, TypeOK
    <3>. QED  BY <1>7, <2>1, <3>1 DEF IdleJob
  <2>6. CASE QueryFails \/ Crash
    BY <1>7, <2>1, <2>6 DEF QueryFails, Crash, IdleJob
  <2>7. CASE Tick \/ Others
    BY <2>1, <2>7 DEF Tick, Others, Changes
  <2>. QED  BY <1>1, <2>1, <2>2, <2>3, <2>4, <2>5, <2>6, <2>7 DEF Step
<1>. QED  BY <1>5, <1>6, <1>7 DEF Recent, Known

-----------------------------------------------------------------------------
(* What a scan has counted.                                                    *)

LEMMA WrittenIsFinite ==
    ASSUME ScanAssumption, NEW n
    PROVE  IsFiniteSet(WrittenBy(n)) /\ Cardinality(WrittenBy(n)) \in Nat
<1>1. IsFiniteSet(Taxpayers) /\ WrittenBy(n) \subseteq Taxpayers
  BY Constants DEF WrittenBy
<1>. QED  BY <1>1, FS_Subset, FS_CardinalityType

\* The rows of the scans, with nothing else of them.
Rows == scans \in Seq(ScanRows) /\ Len(scans) \in Nat /\ DOMAIN scans = 1 .. Len(scans)

LEMMA RowsOf == ASSUME TypeOK PROVE Rows
  BY LenProperties DEF TypeOK, ScanRows, Rows

\* Of a step that writes no case: a scan that goes on had counted as much, a row
\* that is completed is that of a scan that went on and whose count it bears.
GoesOn(n) ==
    \/ Running(n) /\ job'[n].flagged = job[n].flagged
    \/ job'[n].flagged = 0 /\ WrittenBy(n) = {}
Completes(n) ==
    \/ n \in DOMAIN scans /\ scans'[n] = scans[n]
    \/ Running(n) /\ scans'[n].flagged = job[n].flagged

LEMMA CountsKept ==
    ASSUME ScanAssumption, TypeOK, TypeOK', Counted,
           \A t \in Taxpayers : cases'[t].scan = cases[t].scan,
           Len(scans) <= Len(scans'),
           \A n \in 1 .. MaxScans : job'[n].pc \in {"ask", "wait", "aggregate"} => job'[n].flagged = 0,
           \A n \in DOMAIN scans' : Running(n)' => GoesOn(n),
           \A n \in DOMAIN scans' : scans'[n].status = "COMPLETED" => Completes(n)
    PROVE  Counted'
<1>1. Rows /\ Rows'
  BY RowsOf, LenProperties DEF TypeOK, ScanRows, Rows
<1>2. \A n : WrittenBy(n)' = WrittenBy(n)
  BY DEF WrittenBy
<1>3. \A t \in Taxpayers : cases'[t].scan <= Len(scans')
  <2>1. ASSUME NEW t \in Taxpayers PROVE cases[t].scan \in Nat /\ cases[t].scan <= Len(scans)
    <3>1. cases[t].scan \in Nat
      BY DEF TypeOK
    <3>2. cases[t].scan <= Len(scans)
      BY DEF Counted
    <3>. QED  BY <3>1, <3>2
  <2>2. Len(scans) \in Nat /\ Len(scans') \in Nat /\ Len(scans) <= Len(scans')
    BY <1>1 DEF Rows
  <2>3. \A t \in Taxpayers : cases'[t].scan = cases[t].scan
    OBVIOUS
  <2>4. ASSUME NEW t \in Taxpayers PROVE cases'[t].scan <= Len(scans')
    BY <2>1, <2>2, <2>3, AtMostChains, Zenon
  <2>. QED  BY <2>4
<1>4. ASSUME NEW n \in DOMAIN scans', Running(n)'
      PROVE  Cardinality(WrittenBy(n)') <= job'[n].flagged
  <2>1. GoesOn(n)
    BY <1>4
  <2>2. CASE job'[n].flagged = 0 /\ WrittenBy(n) = {}
    <3>1. Cardinality(WrittenBy(n)) = 0
      BY <2>2, FS_EmptySet
    <3>2. Cardinality(WrittenBy(n)') = 0
      BY <1>2, <3>1
    <3>. QED  BY <2>2, <3>2
  <2>3. CASE Running(n) /\ job'[n].flagged = job[n].flagged
    <3>1. n \in DOMAIN scans
      BY <1>1, <2>3 DEF Running, Rows
    <3>2. Cardinality(WrittenBy(n)) <= job[n].flagged
      BY <2>3, <3>1 DEF Counted
    <3>. QED  BY <1>2, <2>3, <3>2
  <2>. QED  BY <2>1, <2>2, <2>3 DEF GoesOn
<1>5. ASSUME NEW n \in DOMAIN scans', scans'[n].status = "COMPLETED"
      PROVE  Cardinality({t \in Taxpayers : cases'[t].scan = n}) <= scans'[n].flagged
  <2>1. Completes(n)
    BY <1>5
  <2>2. {t \in Taxpayers : cases'[t].scan = n} = WrittenBy(n)
    BY <1>2 DEF WrittenBy
  <2>3. CASE n \in DOMAIN scans /\ scans'[n] = scans[n]
    BY <1>5, <2>2, <2>3 DEF Counted, TotalsCoverCases, WrittenBy
  <2>4. CASE Running(n) /\ scans'[n].flagged = job[n].flagged
    <3>1. n \in DOMAIN scans
      BY <1>1, <2>4 DEF Running, Rows
    <3>2. Cardinality(WrittenBy(n)) <= job[n].flagged
      BY <2>4, <3>1 DEF Counted
    <3>. QED  BY <2>2, <2>4, <3>2
  <2>. QED  BY <2>1, <2>3, <2>4 DEF Completes
<1>6. \A n \in DOMAIN scans' : Running(n)' => Cardinality(WrittenBy(n)') <= job'[n].flagged
  BY <1>4
<1>. QED  BY <1>3, <1>5, <1>6 DEF Counted, TotalsCoverCases

\* Every row has its job, and every count is a number.
LEMMA JobOfRow ==
    ASSUME ScanAssumption, TypeOK, Dated
    PROVE  /\ DOMAIN scans \subseteq 1 .. MaxScans
           /\ \A n \in 1 .. MaxScans : job[n].flagged \in Nat
           /\ \A n \in DOMAIN scans : scans[n].flagged \in Nat
           /\ \A n : Cardinality(WrittenBy(n)) \in Nat
<1>1. DOMAIN scans \subseteq 1 .. MaxScans
  <2>1. Rows /\ Len(scans) <= MaxScans /\ MaxScans \in Nat
    BY RowsOf, AreNumbers DEF Dated
  <2>. QED  BY <2>1 DEF Rows
<1>2. \A n \in 1 .. MaxScans : job[n].flagged \in Nat
  <2>1. \A n \in 1 .. MaxScans : job[n] \in JobRecords
    BY JobFields DEF TypeOK
  <2>. QED  BY <2>1 DEF JobRecords
<1>3. \A n \in DOMAIN scans : scans[n].flagged \in Nat
  <2>1. \A n \in DOMAIN scans : scans[n] \in ScanRows
    BY RowsOf DEF Rows
  <2>. QED  BY <2>1 DEF ScanRows
<1>. QED  BY <1>1, <1>2, <1>3, WrittenIsFinite

\* Writing a case adds it to what this scan wrote, and takes it from the others'.
LEMMA UpsertCounts ==
    ASSUME ScanAssumption, TypeOK, Dated, Counted, NEW n \in 1 .. MaxScans, Upsert(n)
    PROVE  Counted'
<1>1. Rows /\ n \in DOMAIN scans /\ scans' = scans /\ job[n].pc = "upsert" /\ Running(n)
  BY RowsOf DEF Upsert, Running, Rows
<1>2. /\ \A m \in 1 .. MaxScans \ {n} : job'[m] = job[m]
      /\ job'[n].pc = "party" /\ job'[n].flagged = job[n].flagged + 1
  BY OneJob, JobMoves DEF Proceed
<1>3. PICK t \in Taxpayers : /\ cases'[t].scan = n
                             /\ \A u \in Taxpayers \ {t} : cases'[u] = cases[u]
  <2>1. job[n] \in JobRecords
    BY JobFields DEF TypeOK
  <2>. QED  BY <2>1 DEF Upsert, TypeOK, JobRecords
<1>4. \A u \in Taxpayers : cases'[u].scan <= Len(scans')
  BY <1>1, <1>3 DEF Counted, Rows
<1>5. \A m \in 1 .. MaxScans : job'[m].pc \in {"ask", "wait", "aggregate"} => job'[m].flagged = 0
  BY <1>2 DEF Counted
<1>6. ASSUME NEW m PROVE /\ WrittenBy(m)' \subseteq WrittenBy(m) \cup {t}
                         /\ m # n => WrittenBy(m)' \subseteq WrittenBy(m)
  BY <1>3 DEF WrittenBy
<1>7. ASSUME NEW m, m # n PROVE Cardinality(WrittenBy(m)') <= Cardinality(WrittenBy(m))
  BY <1>6, <1>7, WrittenIsFinite, FS_Subset
<1>8. Cardinality(WrittenBy(n)') <= Cardinality(WrittenBy(n)) + 1
  <2>1. IsFiniteSet(WrittenBy(n)) /\ Cardinality(WrittenBy(n)) \in Nat
    BY WrittenIsFinite
  <2>2. IsFiniteSet(WrittenBy(n) \cup {t}) /\ Cardinality(WrittenBy(n) \cup {t}) <= Cardinality(WrittenBy(n)) + 1
    <3>1. /\ IsFiniteSet(WrittenBy(n) \cup {t})
          /\ \/ Cardinality(WrittenBy(n) \cup {t}) = Cardinality(WrittenBy(n)) + 1
             \/ Cardinality(WrittenBy(n) \cup {t}) = Cardinality(WrittenBy(n))
      BY <2>1, FS_AddElement
    <3>. QED  BY <2>1, <3>1
  <2>3. Cardinality(WrittenBy(n)') <= Cardinality(WrittenBy(n) \cup {t})
    BY <1>6, <2>2, FS_Subset
  <2>4. Cardinality(WrittenBy(n) \cup {t}) \in Nat /\ IsFiniteSet(WrittenBy(n)')
    BY <1>6, <2>2, FS_CardinalityType, FS_Subset
  <2>5. Cardinality(WrittenBy(n)') \in Nat
    BY <2>4, FS_CardinalityType
  <2>. QED  BY <2>1, <2>2, <2>3, <2>4, <2>5
<1>9. ASSUME NEW m \in DOMAIN scans', Running(m)'
      PROVE  Cardinality(WrittenBy(m)') <= job'[m].flagged
  <2>1. CASE m = n
    <3>1. Cardinality(WrittenBy(n)) <= job[n].flagged
      BY <1>1 DEF Counted
    <3>2. job[n].flagged \in Nat
      BY JobOfRow
    <3>3. Cardinality(WrittenBy(n)) \in Nat /\ Cardinality(WrittenBy(n)') \in Nat
      <4>1. IsFiniteSet(WrittenBy(n)')
        BY <1>6, WrittenIsFinite, FS_Subset, FS_AddElement
      <4>. QED  BY <4>1, WrittenIsFinite, FS_CardinalityType
    <3>4. Cardinality(WrittenBy(n)') <= job[n].flagged + 1
      <4>1. \A a, b, c \in Nat : a <= b + 1 /\ b <= c => a <= c + 1
        OBVIOUS
      <4>. QED  BY <1>8, <3>1, <3>2, <3>3, <4>1, Zenon
    <3>5. job'[n].flagged = job[n].flagged + 1
      BY <1>2
    <3>6. Cardinality(WrittenBy(n)') <= job'[n].flagged
      BY <3>4, <3>5
    <3>. QED  BY <2>1, <3>6
  <2>2. CASE m # n
    <3>1. Running(m) /\ m \in DOMAIN scans /\ job'[m].flagged = job[m].flagged
      <4>1. m \in 1 .. MaxScans
        BY <1>1, <1>9, JobOfRow
      <4>. QED  BY <1>1, <1>2, <1>9, <2>2, <4>1 DEF Running
    <3>2. Cardinality(WrittenBy(m)) <= job[m].flagged
      BY <3>1 DEF Counted
    <3>3. Cardinality(WrittenBy(m)') <= Cardinality(WrittenBy(m))
      BY <1>7, <2>2
    <3>4. /\ job[m].flagged \in Nat
          /\ Cardinality(WrittenBy(m)) \in Nat /\ Cardinality(WrittenBy(m)') \in Nat
      <4>1. m \in 1 .. MaxScans /\ IsFiniteSet(WrittenBy(m)')
        BY <1>1, <1>6, <1>9, <2>2, JobOfRow, WrittenIsFinite, FS_Subset
      <4>. QED  BY <4>1, JobOfRow, FS_CardinalityType
    <3>5. Cardinality(WrittenBy(m)') <= job[m].flagged
      BY <3>2, <3>3, <3>4, AtMostChains, Zenon
    <3>6. job'[m].flagged = job[m].flagged
      BY <3>1
    <3>. QED  BY <3>5, <3>6
  <2>. QED  BY <2>1, <2>2
<1>10. ASSUME NEW m \in DOMAIN scans', scans'[m].status = "COMPLETED"
       PROVE  Cardinality({u \in Taxpayers : cases'[u].scan = m}) <= scans'[m].flagged
  <2>1. m # n
    BY <1>1, <1>10 DEF Running
  <2>2. {u \in Taxpayers : cases'[u].scan = m} = WrittenBy(m)'
    BY DEF WrittenBy
  <2>3. Cardinality(WrittenBy(m)) <= scans[m].flagged
    BY <1>1, <1>10 DEF Counted, TotalsCoverCases, WrittenBy
  <2>4. Cardinality(WrittenBy(m)') <= Cardinality(WrittenBy(m))
    BY <1>7, <2>1
  <2>5. /\ Cardinality(WrittenBy(m)) \in Nat /\ Cardinality(WrittenBy(m)') \in Nat
        /\ scans[m].flagged \in Nat
    <3>1. IsFiniteSet(WrittenBy(m)')
      BY <1>6, <2>1, WrittenIsFinite, FS_Subset
    <3>. QED  BY <1>1, <1>10, <3>1, JobOfRow, FS_CardinalityType
  <2>6. Cardinality(WrittenBy(m)') <= scans[m].flagged
    BY <2>3, <2>4, <2>5, AtMostChains, Zenon
  <2>7. scans'[m].flagged = scans[m].flagged
    BY <1>1
  <2>. QED  BY <2>2, <2>6, <2>7
<1>11. \A m \in DOMAIN scans' : Running(m)' => Cardinality(WrittenBy(m)') <= job'[m].flagged
  BY <1>9
<1>. QED  BY <1>4, <1>5, <1>10, <1>11 DEF Counted, TotalsCoverCases

\* A scan that ends bears its count.
LEMMA EndCounts ==
    ASSUME ScanAssumption, TypeOK, Dated, TypeOK', Counted, NEW n \in 1 .. MaxScans, Complete(n) \/ Fail(n)
    PROVE  Counted'
<1>1. Rows /\ Rows' /\ n \in DOMAIN scans /\ Running(n) /\ cases' = cases
  <2>1. Rows
    BY RowsOf
  <2>2. scans' \in Seq(ScanRows)
    BY Zenon DEF TypeOK, ScanRows
  <2>3. Rows'
    BY <2>2, LenProperties DEF Rows
  <2>4. Running(n)
    BY Zenon DEF Complete, Fail
  <2>5. n \in DOMAIN scans
    <3>1. n \in Nat /\ 1 <= n /\ n <= Len(scans)
      BY <2>4 DEF Running
    <3>2. DOMAIN scans = 1 .. Len(scans) /\ Len(scans) \in Nat
      BY <2>1, Zenon DEF Rows
    <3>3. n \in 1 .. Len(scans)
      BY <3>1, <3>2
    <3>. QED  BY <3>2, <3>3, Zenon
  <2>6. cases' = cases
    BY DEF Complete, Fail
  <2>. QED  BY <2>1, <2>3, <2>4, <2>5, <2>6, Zenon
<1>2. \E status \in {"COMPLETED", "FAILED"}, flagged \in Nat :
          End(n, status, flagged) /\ (status = "COMPLETED" => flagged = job[n].flagged)
  BY JobOfRow DEF Complete, Fail
<1>3. /\ Len(scans') = Len(scans) /\ DOMAIN scans' = DOMAIN scans
      /\ \A m \in DOMAIN scans : m # n => scans'[m] = scans[m]
      /\ scans'[n].status = "COMPLETED" => scans'[n].flagged = job[n].flagged
  <2>1. UNCHANGED <<now, income, limit, llc, override, portfolio, record, cases, risk, memo, query, changes>>
    BY DEF Complete, Fail, world
  <2>. QED  BY <1>1, <1>2, <2>1, EndShapes, ZenonT(60)
<1>4. /\ \A m \in 1 .. MaxScans \ {n} : job'[m] = job[m]
      /\ job'[n].pc = "idle" /\ job'[n].flagged = 0
  BY OneJob, JobMoves DEF Proceed
<1>5. \A m \in 1 .. MaxScans : job'[m].pc \in {"ask", "wait", "aggregate"} => job'[m].flagged = 0
  BY <1>4 DEF Counted
<1>6. \A m \in DOMAIN scans' : Running(m)' => GoesOn(m)
  BY <1>1, <1>3, <1>4, JobOfRow DEF Running, GoesOn
<1>7. \A m \in DOMAIN scans' : scans'[m].status = "COMPLETED" => Completes(m)
  BY <1>1, <1>3 DEF Completes
<1>8. Len(scans) <= Len(scans')
  BY <1>1, <1>3 DEF Rows
<1>9. \A t \in Taxpayers : cases'[t].scan = cases[t].scan
  BY <1>1
<1>. QED  BY <1>5, <1>6, <1>7, <1>8, <1>9, CountsKept

\* A scan that goes on to its next step has counted what it had.
LEMMA ProceedCounts ==
    ASSUME ScanAssumption, TypeOK, Dated, TypeOK', Counted, NEW n \in 1 .. MaxScans,
           \/ TakeMemo(n) \/ AskQuery(n) \/ Aggregate(n) \/ SkipCompany(n) \/ Stamp(n) \/ ReadCase(n)
    PROVE  Counted'
<1>1. Rows /\ n \in DOMAIN scans /\ Running(n) /\ cases' = cases /\ scans' = scans
  <2>1. Running(n) /\ cases' = cases /\ scans' = scans
    BY DEF TakeMemo, AskQuery, Aggregate, SkipCompany, Stamp, ReadCase
  <2>2. Rows /\ n \in DOMAIN scans
    BY <2>1, RowsOf DEF Running, Rows
  <2>. QED  BY <2>1, <2>2
<1>2. \A m \in 1 .. MaxScans \ {n} : job'[m] = job[m]
  BY OneJob DEF Proceed
<1>3. job'[n].flagged = job[n].flagged
  <2>1. CASE Aggregate(n)
    <3>1. job[n].pc = "aggregate"
      BY <2>1 DEF Aggregate
    <3>2. job[n].flagged = 0
      BY <3>1 DEF Counted
    <3>. QED  BY <2>1, <3>2, JobMoves
  <2>2. CASE ~Aggregate(n)
    BY <2>2, JobMoves
  <2>. QED  BY <2>1, <2>2
<1>4. job'[n].pc \in {"ask", "wait", "aggregate"} => job'[n].flagged = 0
  BY JobMoves DEF TakeMemo, AskQuery, Counted
<1>5. \A m \in 1 .. MaxScans : job'[m].pc \in {"ask", "wait", "aggregate"} => job'[m].flagged = 0
  BY <1>2, <1>4 DEF Counted
<1>6. \A m \in DOMAIN scans' : Running(m)' => GoesOn(m)
  BY <1>1, <1>2, <1>3, JobOfRow DEF Running, GoesOn
<1>7. \A m \in DOMAIN scans' : scans'[m].status = "COMPLETED" => Completes(m)
  BY <1>1 DEF Completes
<1>8. Len(scans) <= Len(scans') /\ \A t \in Taxpayers : cases'[t].scan = cases[t].scan
  BY <1>1 DEF Rows
<1>. QED  BY <1>5, <1>6, <1>7, <1>8, CountsKept

LEMMA StepCounts ==
    ASSUME ScanAssumption, TypeOK, Dated, TypeOK', Counted, Step
    PROVE  Counted'
<1>1. Rows
  BY RowsOf
<1>2. CASE StartScan
  <2> DEFINE k == Len(scans) + 1
  <2>1. /\ Len(scans') = k /\ k \in 1 .. MaxScans /\ cases' = cases
        /\ scans'[k].status = "RUNNING"
        /\ \A m \in DOMAIN scans : m # k /\ scans'[m] = scans[m]
        /\ job'[k] = [IdleJob EXCEPT !.pc = "ask"]
        /\ \A m \in 1 .. MaxScans \ {k} : job'[m] = job[m]
    BY <1>2, StartShapes DEF Goto, TypeOK, StartScan
  <2>2. job'[k].flagged = 0
    BY <2>1 DEF IdleJob
  <2>3. DOMAIN scans' = DOMAIN scans \cup {k} /\ Len(scans) <= Len(scans')
    <3>1. DOMAIN scans' = 1 .. Len(scans')
      BY LenProperties DEF TypeOK
    <3>. QED  BY <1>1, <2>1, <3>1 DEF Rows
  <2>4. WrittenBy(k) = {}
    <3>1. \A t \in Taxpayers : cases[t].scan <= Len(scans)
      BY DEF Counted
    <3>2. \A t \in Taxpayers : cases[t].scan # k
      BY <1>1, <3>1 DEF Rows
    <3>. QED  BY <3>2 DEF WrittenBy
  <2>. HIDE DEF k
  <2>5. \A m \in 1 .. MaxScans : job'[m].pc \in {"ask", "wait", "aggregate"} => job'[m].flagged = 0
    BY <2>1, <2>2, ZenonT(60) DEF Counted
  <2>6. \A m \in DOMAIN scans' : Running(m)' => GoesOn(m)
    <3>1. \A m \in DOMAIN scans : Running(m)' => Running(m) /\ job'[m] = job[m]
      BY <1>1, <2>1, JobOfRow DEF Running, Rows
    <3>. QED  BY <2>2, <2>3, <2>4, <3>1 DEF GoesOn
  <2>7. \A m \in DOMAIN scans' : scans'[m].status = "COMPLETED" => Completes(m)
    BY <2>1, <2>3 DEF Completes
  <2>8. \A t \in Taxpayers : cases'[t].scan = cases[t].scan
    BY <2>1
  <2>. QED  BY <2>3, <2>5, <2>6, <2>7, <2>8, CountsKept
<1>3. CASE Answer \/ Crash \/ Tick \/ Others
  <2>1. scans' = scans /\ \A t \in Taxpayers : cases'[t].scan = cases[t].scan
    <3>1. scans' = scans
      <4>1. CASE Answer
        BY <4>1 DEF Answer
      <4>2. CASE Crash
        BY <4>2 DEF Crash
      <4>3. CASE Tick \/ Others
        BY <4>3, OthersShapes
      <4>. QED  BY <1>3, <4>1, <4>2, <4>3
    <3>2. CASE cases' = cases
      BY <3>1, <3>2
    <3>3. ASSUME NEW t \in Taxpayers, Assign(t) \/ MoveCase(t)
          PROVE  \A u \in Taxpayers : cases'[u].scan = cases[u].scan
      <4>1. \A u \in Taxpayers : cases[u] \in CaseRows
        BY DEF TypeOK, CaseRows
      <4>2. \A u \in Taxpayers \ {t} : cases'[u] = cases[u]
        BY <3>3 DEF Assign, MoveCase, TypeOK
      <4>3. /\ t \in DOMAIN cases
            /\ \/ \E o : cases'[t] = [cases[t] EXCEPT !.owner = o]
               \/ cases'[t] = [cases[t] EXCEPT !.status = "MOVED"]
        <5>1. t \in DOMAIN cases
          BY DEF TypeOK
        <5>2. CASE Assign(t)
          BY <5>1, <5>2 DEF Assign
        <5>3. CASE MoveCase(t)
          BY <5>1, <5>3 DEF MoveCase
        <5>. QED  BY <3>3, <5>1, <5>2, <5>3
      <4>4. \A r \in CaseRows : \A o, st : [r EXCEPT !.owner = o].scan = r.scan /\ [r EXCEPT !.status = st].scan = r.scan
        BY DEF CaseRows
      <4>5. cases'[t].scan = cases[t].scan
        <5>. DEFINE r == cases[t]
        <5>1. r \in CaseRows
          BY <4>1
        <5>2. \A o, st : [r EXCEPT !.owner = o].scan = r.scan /\ [r EXCEPT !.status = st].scan = r.scan
          BY <4>4, <5>1
        <5>3. CASE \E o : cases'[t] = [r EXCEPT !.owner = o]
          BY <5>2, <5>3, Zenon
        <5>4. CASE cases'[t] = [r EXCEPT !.status = "MOVED"]
          BY <5>2, <5>4, Zenon
        <5>. QED  BY <4>3, <5>3, <5>4, Zenon
      <4>. QED  BY <4>2, <4>5
    <3>. QED  BY <1>3, <3>1, <3>2, <3>3 DEF Answer, Crash, Tick, Others, PatchLimit, SetOverride,
                 ChangePortfolio, Upload, UpdateTaxpayer, Review
  <2>2. ASSUME NEW n \in 1 .. MaxScans
        PROVE  \/ job'[n].flagged = job[n].flagged /\ (job'[n].pc = job[n].pc \/ job[n].pc = "wait")
               \/ job'[n].pc = "dead"
    <3>1. job[n] \in JobRecords
      <4>1. job \in [1 .. MaxScans -> Jobs]
        BY DEF TypeOK
      <4>. QED  BY <4>1, JobFields
    <3>2. CASE Answer
      <4>1. job'[n] = IF job[n].pc = "wait"
                      THEN [job[n] EXCEPT !.pc = "aggregate", !.ids = {u \in Taxpayers : Reportable(u, income, query.limit)}]
                      ELSE job[n]
        BY <3>2 DEF Answer
      <4>. QED  BY <3>1, <4>1 DEF JobRecords
    <3>3. CASE Crash
      <4>1. job'[n] = IF Running(n) THEN [IdleJob EXCEPT !.pc = "dead"] ELSE job[n]
        BY <3>3 DEF Crash
      <4>. QED  BY <4>1 DEF IdleJob
    <3>4. CASE Tick \/ Others
      BY <3>4 DEF Tick, Others, Changes
    <3>. QED  BY <1>3, <3>2, <3>3, <3>4
  <2>3. \A m \in 1 .. MaxScans : job'[m].pc \in {"ask", "wait", "aggregate"} => job'[m].flagged = 0
    BY <2>2 DEF Counted
  <2>4. \A m \in DOMAIN scans' : Running(m)' => GoesOn(m)
    BY <2>1, <2>2, JobOfRow DEF Running, GoesOn
  <2>5. \A m \in DOMAIN scans' : scans'[m].status = "COMPLETED" => Completes(m)
    BY <2>1 DEF Completes
  <2>6. Len(scans) <= Len(scans')
    BY <1>1, <2>1 DEF Rows
  <2>. QED  BY <2>1, <2>3, <2>4, <2>5, <2>6, CountsKept
<1>4. CASE QueryFails
  <2>1. /\ Len(scans') = Len(scans) /\ DOMAIN scans' = DOMAIN scans
        /\ \A m \in DOMAIN scans : scans'[m] = scans[m] \/ scans'[m].status = "FAILED"
    <3>1. Rows'
      BY RowsOf, LenProperties DEF TypeOK, ScanRows, Rows
    <3>. QED  BY <1>1, <1>4, <3>1, FailedRows DEF Rows
  <2>2. \A n \in 1 .. MaxScans : job'[n] = job[n] \/ job'[n].pc = "idle"
    BY <1>4 DEF QueryFails, IdleJob
  <2>3. \A m \in 1 .. MaxScans : job'[m].pc \in {"ask", "wait", "aggregate"} => job'[m].flagged = 0
    BY <2>2 DEF Counted
  <2>4. \A m \in DOMAIN scans' : Running(m)' => GoesOn(m)
    BY <1>1, <2>1, <2>2, JobOfRow DEF Running, GoesOn, Rows
  <2>5. \A m \in DOMAIN scans' : scans'[m].status = "COMPLETED" => Completes(m)
    BY <2>1 DEF Completes
  <2>6. Len(scans) <= Len(scans') /\ \A t \in Taxpayers : cases'[t].scan = cases[t].scan
    BY <1>1, <1>4, <2>1 DEF Rows, QueryFails
  <2>. QED  BY <2>3, <2>4, <2>5, <2>6, CountsKept
<1>5. ASSUME NEW n \in 1 .. MaxScans, Proceed(n) \/ Fail(n) PROVE Counted'
  BY <1>5, EndCounts, ProceedCounts, UpsertCounts DEF Proceed
<1>. QED  BY <1>2, <1>3, <1>4, <1>5 DEF Step

-----------------------------------------------------------------------------
(* The owner a scan holds.                                                     *)

LEMMA StepHoldsOwner ==
    ASSUME ScanAssumption, TypeOK, Dated, HoldsOwner, Next
    PROVE  HoldsOwner'
<1>1. Step /\ overlapped' = (overlapped \/ Collision)
  BY DEF Next
<1>2. \A n \in 1 .. MaxScans : job[n] \in JobRecords
  BY JobFields DEF TypeOK
\* Of a job that did not move, the owner stands unless the two met.
<1>3. ASSUME NEW n \in 1 .. MaxScans, job'[n] = job[n], job[n].pc = "upsert", ~overlapped',
             NEW t \in job[n].cur, cases'[t].owner # NoOne
      PROVE  cases'[t].owner = job[n].owner
  <2>1. t \in Taxpayers
    BY <1>2 DEF JobRecords
  <2>2. cases'[t].owner = cases[t].owner
    BY <1>1, <1>3, <2>1 DEF Collision
  <2>. QED  BY <1>1, <1>3, <2>2 DEF HoldsOwner
\* Any other has nothing in hand, or has just read the case.
<1>4. ASSUME NEW n \in 1 .. MaxScans, job'[n] # job[n]
      PROVE  \/ /\ job'[n].pc # "upsert"
                /\ \A t, u \in job'[n].cur : t = u
             \/ ReadCase(n)
  <2>1. \A t, u \in job[n].cur : t = u
    BY DEF HoldsOwner
  <2>2. CASE StartScan
    <3>1. job'[n] = [IdleJob EXCEPT !.pc = "ask"]
      BY <1>4, <2>2, StartShapes DEF Goto, TypeOK
    <3>. QED  BY <3>1 DEF IdleJob
  <2>3. CASE Answer
    <3>1. PICK ids : job'[n] = [job[n] EXCEPT !.pc = "aggregate", !.ids = ids]
      BY <1>4, <2>3 DEF Answer
    <3>2. job'[n].pc = "aggregate" /\ job'[n].cur = job[n].cur
      BY <1>2, <3>1 DEF JobRecords
    <3>3. \A t, u \in job'[n].cur : t = u
      BY <2>1, <3>2
    <3>. QED  BY <3>2, <3>3
  <2>4. CASE QueryFails \/ Crash
    <3>1. job'[n] = IdleJob \/ job'[n] = [IdleJob EXCEPT !.pc = "dead"]
      BY <1>4, <2>4 DEF QueryFails, Crash
    <3>2. job'[n].pc # "upsert" /\ job'[n].cur = {}
      BY <3>1 DEF IdleJob
    <3>. QED  BY <3>2
  <2>5. CASE Tick \/ Others
    BY <1>4, <2>5, OthersShapes
  <2>6. ASSUME NEW m \in 1 .. MaxScans, Proceed(m) \/ Fail(m) PROVE m = n /\ (Proceed(n) \/ Fail(n))
    BY <1>4, <2>6, OneJob
  <2>7. CASE Proceed(n) \/ Fail(n)
    BY <2>1, <2>7, JobMoves DEF Proceed
  <2>. QED  BY <1>1, <2>2, <2>3, <2>4, <2>5, <2>6, <2>7 DEF Step
<1>5. ASSUME NEW n \in 1 .. MaxScans, ReadCase(n)
      PROVE  /\ \A t, u \in job'[n].cur : t = u
             /\ \A t \in job'[n].cur : cases'[t].owner # NoOne => cases'[t].owner = job'[n].owner
  <2>1. PICK t \in job[n].cur : job'[n].owner = Route(t)
    BY <1>5, JobMoves
  <2>2. job'[n].cur = job[n].cur /\ cases' = cases /\ \A u \in job[n].cur : u = t
    BY <1>5, JobMoves DEF ReadCase, HoldsOwner
  <2>. QED  BY <2>1, <2>2 DEF Route
<1>6. ASSUME NEW n \in 1 .. MaxScans PROVE \A t, u \in job'[n].cur : t = u
  BY <1>4, <1>5 DEF HoldsOwner
<1>7. ASSUME NEW n \in 1 .. MaxScans, job'[n].pc = "upsert", ~overlapped', NEW t \in job'[n].cur,
             cases'[t].owner # NoOne
      PROVE  cases'[t].owner = job'[n].owner
  BY <1>3, <1>4, <1>5, <1>7
<1>. QED  BY <1>6, <1>7 DEF HoldsOwner

\* What a scan does to an assigned case leaves its officer and its status.
LEMMA StepOfficers ==
    ASSUME ScanAssumption, TypeOK, Dated, HoldsOwner, Next
    PROVE  OfficersWordStands
<1>1. Step /\ overlapped' = (overlapped \/ Collision)
  BY DEF Next
<1>2. CASE cases' = cases
  BY <1>2 DEF OfficersWordStands
<1>3. ASSUME NEW n \in 1 .. MaxScans, Upsert(n) PROVE OfficersWordStands
  <2>1. job[n] \in JobRecords /\ job[n].pc = "upsert"
    BY <1>3, JobFields DEF TypeOK, Upsert
  <2>2. PICK t \in Taxpayers : t \in job[n].cur /\ cases' = [cases EXCEPT ![t] =
              [status |-> IF @.status = "none" THEN "OPEN" ELSE @.status,
               owner  |-> IF job[n].owner # NoOne THEN job[n].owner ELSE @.owner,
               scan   |-> n]]
    BY <1>3, <2>1 DEF Upsert, JobRecords
  <2>3. /\ cases'[t].status = IF cases[t].status = "none" THEN "OPEN" ELSE cases[t].status
        /\ cases'[t].owner = IF job[n].owner # NoOne THEN job[n].owner ELSE cases[t].owner
        /\ \A u \in Taxpayers \ {t} : cases'[u] = cases[u]
    BY <2>2 DEF TypeOK
  <2>4. overlapped \/ (cases[t].owner # NoOne => cases[t].owner = job[n].owner)
    BY <2>1, <2>2 DEF HoldsOwner
  <2>. QED  BY <1>1, <2>3, <2>4 DEF OfficersWordStands
<1>4. CASE Others
  <2>1. changes \in Nat /\ changes' = changes + 1
    BY <1>4 DEF Others, Changes, Dated
  <2>2. changes' # changes
    BY <2>1
  <2>. QED  BY <2>2 DEF OfficersWordStands
<1>. QED  BY <1>1, <1>2, <1>3, <1>4 DEF Step, StartScan, Answer, QueryFails, Crash, Tick, Proceed, TakeMemo,
             AskQuery, Aggregate, SkipCompany, Stamp, ReadCase, Complete, Fail

-----------------------------------------------------------------------------
LEMMA InitHolds == Init => IInv
<1>. SUFFICES ASSUME Init PROVE IInv
  OBVIOUS
<1>0. ScanAssumption /\ MaxTime \in Nat /\ MaxIncome \in Nat \ {0} /\ MaxScans \in Nat
  BY ScanAssumption, Constants
<1>1. IdleJob \in JobRecords /\ IdleJob.at = 0 /\ IdleJob.pc = "idle" /\ IdleJob.cur = {}
  BY IdleIsJob DEF IdleJob
<1>2. job \in [1 .. MaxScans -> Jobs] /\ \A n \in 1 .. MaxScans : job[n] = IdleJob
  <2>. HIDE DEF IdleJob
  <2>. QED  BY <1>1, JobFields DEF Init
<1>3. /\ now \in 0 .. MaxTime /\ income \in [Taxpayers -> 0 .. MaxIncome] /\ limit \in Limits
      /\ since \in [Taxpayers -> 0 .. MaxTime] /\ override \in Overrides \cup {NoOverride}
      /\ portfolio \in [Range(Scopes) -> Owners] /\ risk \in [Taxpayers -> 0 .. 100]
  BY <1>0, Constants DEF Init, Owners
<1>4. llc \in [Taxpayers -> Flags] /\ record \in [Taxpayers -> Marks] /\ cases \in [Taxpayers -> CaseRows]
  <2>1. NoCase \in CaseRows /\ [flagged |-> FALSE, review |-> "none"] \in Marks
    BY DEF NoCase, CaseRows, Marks, Reviews, Owners
  <2>2. [flag |-> TRUE, source |-> "NAME_SUFFIX"] \in Flags /\ [flag |-> FALSE, source |-> "none"] \in Flags
    BY DEF Flags
  <2>. QED  BY <2>1, <2>2 DEF Init
<1>5. memo \in Memos /\ query \in Queries /\ ~query.running /\ memo.at = -1 /\ memo.ids = {}
  BY DEF Init, NoMemo, NoQuery, Memos, Queries
<1>6. scans = <<>> /\ scans \in Seq(ScanRows) /\ Len(scans) = 0 /\ DOMAIN scans = {}
  BY DEF Init
<1>7. TypeOK
  BY <1>2, <1>3, <1>4, <1>5, <1>6 DEF TypeOK, ScanRows, Flags, Memos, Queries, Marks, CaseRows, Init
<1>8. Dated
  <2>1. now = 0 /\ changes = 0 /\ (\A t \in Taxpayers : since[t] = 0) /\ \A n \in 1 .. MaxScans : job[n].at = 0
    BY <1>1, <1>2 DEF Init
  <2>2. memo.at <= now /\ Len(scans) <= MaxScans
    BY <1>0, <1>5, <1>6, <2>1
  <2>. QED  BY <1>5, <2>1, <2>2 DEF Dated, Memos, Queries
<1>9. Recent
  <2>1. \A t \in Taxpayers : ~(since[t] < memo.at)
    BY <1>5 DEF Init
  <2>. QED  BY <1>1, <1>2, <1>5, <2>1 DEF Recent, Known
<1>10. Counted
  <2>1. \A t \in Taxpayers : cases[t].scan = 0
    BY DEF Init, NoCase
  <2>2. \A n \in 1 .. MaxScans : job[n].pc = "idle"
    BY <1>1, <1>2
  <2>. QED  BY <1>6, <2>1, <2>2 DEF Counted, TotalsCoverCases
<1>11. HoldsOwner
  BY <1>1, <1>2 DEF HoldsOwner
<1>. QED  BY <1>7, <1>8, <1>9, <1>10, <1>11 DEF IInv

LEMMA NextHolds == IInv /\ [Next]_vars => IInv'
<1>. SUFFICES ASSUME IInv, [Next]_vars PROVE IInv'
  OBVIOUS
<1>0. ScanAssumption
  BY ScanAssumption
<1>1. CASE Next
  <2>1. TypeOK /\ Dated /\ (overlapped \/ Recent) /\ Counted /\ HoldsOwner /\ Step
    BY <1>1 DEF IInv, Next
  <2>2. TypeOK' /\ Dated'
    BY <1>0, <1>1, <2>1, StepTypes
  <2>3. overlapped' \/ Recent'
    <3>1. ~overlapped' => ~overlapped
      BY <1>1 DEF Next
    <3>. QED  BY <1>0, <1>1, <2>1, <3>1, StepRecent
  <2>4. Counted' /\ HoldsOwner'
    BY <1>0, <1>1, <2>1, <2>2, StepCounts, StepHoldsOwner
  <2>. QED  BY <2>2, <2>3, <2>4 DEF IInv
<1>2. CASE UNCHANGED vars
  BY <1>2 DEF vars, IInv, TypeOK, Dated, Recent, Known, Reportable, Counted, WrittenBy, Running, TotalsCoverCases,
              HoldsOwner
<1>. QED  BY <1>1, <1>2

\* Every variable of the scans keeps its type (scan.service.ts,
\* reportable.service.ts).
THEOREM ScanTypeCorrect == Spec => []TypeOK
<1>1. IInv => TypeOK
  BY DEF IInv
<1>. QED  BY InitHolds, NextHolds, <1>1, PTL DEF Spec

\* A scan works through a set that is at most the memo's and a query's time old,
\* and the totals of a completed scan cover every case it was the last to write
\* (computeReportableIds, and runScan's totals), however many scans, officers,
\* uploads and patches meet.
THEOREM ScansAlwaysAddUp == Spec => []ScansAddUp
<1>1. IInv => ScansAddUp
  <2>. SUFFICES ASSUME IInv PROVE ScansAddUp
    OBVIOUS
  <2>1. TotalsCoverCases
    BY DEF IInv, Counted
  <2>2. SetIsFresh
    BY DEF IInv, Recent, Known, SetIsFresh
  <2>. QED  BY <2>1, <2>2 DEF ScansAddUp
<1>. QED  BY InitHolds, NextHolds, <1>1, PTL DEF Spec

\* What an officer did to a case stands: no scan moves its status, nor its owner
\* unless the assignment met a scan that had read the case (runScan's upsert).
THEOREM OfficersAlwaysStand == Spec => OfficersStand
<1>1. IInv /\ [Next]_vars => [OfficersWordStands]_vars
  BY ScanAssumption, StepOfficers DEF IInv
<1>. QED  BY InitHolds, NextHolds, <1>1, PTL DEF Spec, OfficersStand

-----------------------------------------------------------------------------
(* The parts together: the scans as they are, the reading that touches nothing *)
(* of theirs, and the agents, with whom they share overlapped only.            *)

\* A run that is to infer the sector found none, and has been given none since
\* unless the return overlapped it.
Judging ==
    /\ s2 = [t \in {"t1"} |-> s2[t]]
    /\ s5 = [x \in DOMAIN s5 |-> s5[x]] /\ "pc" \in DOMAIN s5
    /\ s5.pc = "sectors" => "need" \in DOMAIN s5
    /\ s5.pc = "sectors" /\ "t1" \in s5.need => overlapped \/ ~ s2["t1"].given

PartsInv == IInv /\ (focus = "agents" => Judging)

\* The scans do not notice when the agents mark a return as overlapped.
LEMMA MarkedLater ==
    ASSUME IInv, UNCHANGED own, overlapped' \in BOOLEAN, overlapped => overlapped'
    PROVE  IInv'
<1>1. TypeOK' /\ Dated' /\ Counted'
  BY DEF IInv, own, TypeOK, Dated, Counted, WrittenBy, Running, TotalsCoverCases
<1>2. Recent => Recent'
  BY DEF own, Recent, Known, Reportable
<1>3. HoldsOwner'
  BY DEF IInv, own, HoldsOwner
<1>. QED  BY <1>1, <1>2, <1>3 DEF IInv

\* A run goes on to its next step, or stays, and remembers what it was to infer.
LEMMA RunAdvances ==
    ASSUME s5 = [x \in DOMAIN s5 |-> s5[x]], "pc" \in DOMAIN s5, NEW next, NEW r, r = Agents!Advance("t1", next)
    PROVE  /\ r = [x \in DOMAIN r |-> r[x]] /\ DOMAIN r = DOMAIN s5
           /\ r.pc \in {s5.pc, next} /\ ("need" \in DOMAIN s5 => r.need = s5.need)
  BY DEF Agents!Advance

\* No step of the agents touches a sector that was supplied, and what Judging says
\* stands.
LEMMA AgentsStep ==
    ASSUME overlapped \in BOOLEAN, Judging, AgentsNext
    PROVE  /\ Judging' /\ Agents!SectorKept
           /\ overlapped' \in BOOLEAN /\ (overlapped => overlapped')
<1>0. ~overlapped
  BY DEF AgentsNext
<1>1. CASE Agents!RunStart
  <2>1. /\ s2' = s2 /\ overlapped' = overlapped
        /\ s5' = [pc |-> "sectors", profile |-> s1, sector |-> s2,
                  need |-> {t \in {"t1"} : s2[t] = Agents!None}, left |-> {"t1"},
                  said |-> [t \in {"t1"} |-> <<>>], read |-> <<>>]
    BY <1>1 DEF Agents!RunStart, Agents!Unsettled
  <2>2. "t1" \in s5'.need => ~ s2'["t1"].given
    BY <2>1 DEF Agents!None
  <2>3. s5' = [x \in DOMAIN s5' |-> s5'[x]] /\ {"pc", "need"} \subseteq DOMAIN s5'
    BY <2>1
  <2>. QED  BY <2>1, <2>2, <2>3 DEF Judging, Agents!SectorKept
<1>2. CASE Agents!RunSector("t1")
  <2>1. /\ s5.pc = "sectors" /\ s5' = Agents!Advance("t1", "signals") /\ overlapped' = overlapped
        /\ \/ s2' = s2 /\ "t1" \notin s5.need
           \/ /\ "t1" \in s5.need
              /\ \E name : s2' = [s2 EXCEPT !["t1"] = [name |-> name, given |-> FALSE]]
    BY <1>2 DEF Agents!RunSector
  <2>2. /\ s5' = [x \in DOMAIN s5' |-> s5'[x]] /\ "pc" \in DOMAIN s5'
        /\ s5'.need = s5.need /\ "need" \in DOMAIN s5'
    BY <2>1, RunAdvances DEF Judging
  <2>3. s2' = [t \in {"t1"} |-> s2'[t]] /\ ("t1" \in s5.need => ~ s2'["t1"].given)
    BY <2>1 DEF Judging
  <2>4. s2["t1"].given => s2'["t1"].given
    BY <1>0, <2>1 DEF Judging
  <2>. QED  BY <2>1, <2>2, <2>3, <2>4 DEF Judging, Agents!SectorKept
<1>3. CASE Agents!RunSignals("t1")
  <2>1. /\ s5.pc = "signals" /\ s2' = s2 /\ overlapped' = overlapped
        /\ \E said, read : s5' = [Agents!Advance("t1", "fuse") EXCEPT !.said["t1"] = said, !.read = read]
    BY <1>3 DEF Agents!RunSignals
  <2>2. PICK r : /\ r = [x \in DOMAIN r |-> r[x]] /\ DOMAIN r = DOMAIN s5 /\ r.pc \in {"signals", "fuse"}
                 /\ \E said, read : s5' = [r EXCEPT !.said["t1"] = said, !.read = read]
    <3>. DEFINE r == Agents!Advance("t1", "fuse")
    <3>1. r = [x \in DOMAIN r |-> r[x]] /\ DOMAIN r = DOMAIN s5 /\ r.pc \in {"signals", "fuse"}
      BY <2>1, RunAdvances DEF Judging
    <3>2. \E said, read : s5' = [r EXCEPT !.said["t1"] = said, !.read = read]
      BY <2>1
    <3>. HIDE DEF r
    <3>. QED  BY <3>1, <3>2
  <2>3. s5' = [x \in DOMAIN s5' |-> s5'[x]] /\ "pc" \in DOMAIN s5' /\ s5'.pc # "sectors"
    BY <2>2 DEF Judging
  <2>. QED  BY <2>1, <2>3 DEF Judging, Agents!SectorKept
<1>4. CASE Agents!RunFuse("t1")
  <2>1. /\ s5.pc = "fuse" /\ s2' = s2 /\ overlapped' = overlapped
        /\ s5' = Agents!NoRun \/ s5' = Agents!Advance("t1", "fuse")
    BY <1>4 DEF Agents!RunFuse
  <2>2. CASE s5' = Agents!NoRun
    <3>1. s5' = [x \in DOMAIN s5' |-> s5'[x]] /\ "pc" \in DOMAIN s5' /\ s5'.pc # "sectors"
      BY <2>2 DEF Agents!NoRun
    <3>. QED  BY <2>1, <3>1 DEF Judging, Agents!SectorKept
  <2>3. CASE s5' = Agents!Advance("t1", "fuse")
    <3>1. s5' = [x \in DOMAIN s5' |-> s5'[x]] /\ "pc" \in DOMAIN s5' /\ s5'.pc # "sectors"
      BY <2>1, <2>3, RunAdvances DEF Judging
    <3>. QED  BY <2>1, <3>1 DEF Judging, Agents!SectorKept
  <2>. QED  BY <2>1, <2>2, <2>3
<1>5. ASSUME NEW p, NEW name, Agents!File("t1", p, name)
      PROVE  /\ Judging' /\ Agents!SectorKept
             /\ overlapped' \in BOOLEAN /\ (overlapped => overlapped')
  <2>1. /\ s5' = s5 /\ overlapped' = (overlapped \/ s5.pc # "idle")
        /\ s2' = s2 \/ s2' = [s2 EXCEPT !["t1"] = [name |-> name, given |-> TRUE]]
    BY <1>5 DEF Agents!File
  <2>2. s2' = [t \in {"t1"} |-> s2'[t]] /\ (s2["t1"].given => s2'["t1"].given)
    BY <2>1 DEF Judging
  <2>. QED  BY <2>1, <2>2 DEF Judging, Agents!SectorKept
<1>6. ASSUME UNCHANGED <<s2, s5, overlapped>>
      PROVE  Judging' /\ Agents!SectorKept
  BY <1>6 DEF Judging, Agents!SectorKept
<1>7. ASSUME NEW c, Agents!Scan("t1", c) PROVE UNCHANGED <<s2, s5, overlapped>>
  BY <1>7 DEF Agents!Scan
<1>8. ASSUME NEW doc, Agents!Document("t1", doc) PROVE UNCHANGED <<s2, s5, overlapped>>
  BY <1>8 DEF Agents!Document
<1>. QED  BY <1>1, <1>2, <1>3, <1>4, <1>5, <1>6, <1>7, <1>8 DEF AgentsNext

LEMMA PartsBegin == MCInit => PartsInv
<1>. SUFFICES ASSUME MCInit PROVE PartsInv
  OBVIOUS
<1>1. IInv
  BY InitHolds DEF MCInit
<1>2. ASSUME focus = "agents" PROVE Judging
  <2>1. Agents!Init
    BY <1>2 DEF MCInit
  <2>. QED  BY <2>1 DEF Agents!Init, Agents!NoRun, Judging
<1>. QED  BY <1>1, <1>2 DEF PartsInv

LEMMA PartsGoOn == PartsInv /\ [MCNext]_all => PartsInv'
<1>. SUFFICES ASSUME PartsInv, [MCNext]_all PROVE PartsInv'
  OBVIOUS
<1>1. CASE focus = "scans" /\ Next /\ focus' = focus
  BY <1>1, NextHolds DEF PartsInv
<1>2. CASE UNCHANGED vars /\ focus' = focus /\ focus # "agents"
  BY <1>2, NextHolds DEF PartsInv
<1>3. CASE focus = "agents" /\ AgentsNext /\ UNCHANGED own /\ focus' = focus
  <2>1. overlapped \in BOOLEAN
    BY DEF PartsInv, IInv, TypeOK
  <2>2. Judging' /\ overlapped' \in BOOLEAN /\ (overlapped => overlapped')
    BY <1>3, <2>1, AgentsStep DEF PartsInv
  <2>. QED  BY <1>3, <2>2, MarkedLater DEF PartsInv
<1>4. CASE UNCHANGED all
  <2>1. UNCHANGED vars /\ focus' = focus /\ UNCHANGED <<s2, s5, overlapped>>
    BY <1>4 DEF all, vars, slots
  <2>. QED  BY <2>1, NextHolds DEF PartsInv, Judging
<1>. QED  BY <1>1, <1>2, <1>3, <1>4 DEF MCNext

\* What was said by people is not overwritten by a machine, whatever meets: no scan
\* moves the status of a case or takes it from its officer (runScan's upsert), and
\* no run of the agents infers again a sector a provider supplied
\* (agents.service.ts).
THEOREM WordsAlwaysStand == MCSpec => WordsStand
<1>. DEFINE Stand == CASE focus = "scans" -> OfficersWordStands
                       [] focus = "agents" -> Agents!SectorKept
                       [] OTHER -> TRUE
<1>1. PartsInv /\ [MCNext]_all => [Stand]_all
  <2>. SUFFICES ASSUME PartsInv, MCNext PROVE Stand
    OBVIOUS
  <2>1. CASE focus = "scans"
    <3>1. Next
      BY <2>1 DEF MCNext
    <3>. QED  BY <2>1, <3>1, ScanAssumption, StepOfficers DEF PartsInv, IInv
  <2>2. CASE focus = "agents"
    <3>1. AgentsNext /\ Judging /\ overlapped \in BOOLEAN
      BY <2>2 DEF MCNext, PartsInv, IInv, TypeOK
    <3>. QED  BY <2>2, <3>1, AgentsStep
  <2>3. CASE focus \notin {"scans", "agents"}
    BY <2>3
  <2>. QED  BY <2>1, <2>2, <2>3
<1>. QED  BY PartsBegin, PartsGoOn, <1>1, PTL DEF MCSpec, WordsStand

-----------------------------------------------------------------------------
(* The agents, over any taxpayers and whatever is on file, in the order of any *)
(* number of runs, returns, scans and documents.                               *)

CONSTANTS OnFile, Ranked, Keywords, Words, Alike, Compared, Rounds, Papers
Judge == INSTANCE RiskAgents WITH
    Profiles <- OnFile, Sectors <- Ranked, Hits <- Keywords, Tokens <- Words, Likeness <- Alike,
    Peers <- Compared, RoundBases <- Rounds, Documents <- Papers,
    profile <- s1, sector <- s2, signals <- s3, cases <- s4, run <- s5

\* A run knows whose sector it is to infer; while no return came in under it, none
\* of them was supplied.
Asked ==
    /\ overlapped \in BOOLEAN
    /\ s2 = [t \in Taxpayers |-> s2[t]]
    /\ s5 = [x \in DOMAIN s5 |-> s5[x]] /\ "pc" \in DOMAIN s5
    /\ s5.pc # "idle" => "need" \in DOMAIN s5
    /\ s5.pc = "sectors" /\ ~overlapped => \A t \in Taxpayers : t \in s5.need => ~s2[t].given

LEMMA JudgeAdvances ==
    ASSUME s5 = [x \in DOMAIN s5 |-> s5[x]], "pc" \in DOMAIN s5, NEW t, NEW next, NEW r, r = Judge!Advance(t, next)
    PROVE  /\ r = [x \in DOMAIN r |-> r[x]] /\ DOMAIN r = DOMAIN s5
           /\ r.pc \in {s5.pc, next} /\ ("need" \in DOMAIN s5 => r.need = s5.need)
  BY DEF Judge!Advance

LEMMA JudgeStep ==
    ASSUME Asked, Judge!Next
    PROVE  Asked' /\ Judge!SectorKept
<1>1. CASE Judge!RunStart
  <2>1. /\ s2' = s2 /\ overlapped' = overlapped
        /\ s5' = [pc |-> "sectors", profile |-> s1, sector |-> s2,
                  need |-> {t \in Taxpayers : s2[t] = Judge!None}, left |-> Taxpayers,
                  said |-> [t \in Taxpayers |-> <<>>], read |-> <<>>]
    BY <1>1 DEF Judge!RunStart, Judge!Unsettled
  <2>2. \A t \in Taxpayers : t \in s5'.need => ~s2'[t].given
    BY <2>1 DEF Judge!None
  <2>3. s5' = [x \in DOMAIN s5' |-> s5'[x]] /\ {"pc", "need"} \subseteq DOMAIN s5'
    BY <2>1
  <2>. QED  BY <2>1, <2>2, <2>3 DEF Asked, Judge!SectorKept
<1>2. ASSUME NEW t \in Taxpayers, Judge!RunSector(t)
      PROVE  Asked' /\ Judge!SectorKept
  <2>1. /\ s5.pc = "sectors" /\ s5' = Judge!Advance(t, "signals") /\ overlapped' = overlapped
        /\ \/ s2' = s2
           \/ /\ t \in s5.need
              /\ \E name : s2' = [s2 EXCEPT ![t] = [name |-> name, given |-> FALSE]]
    BY <1>2 DEF Judge!RunSector
  <2>2. /\ s5' = [x \in DOMAIN s5' |-> s5'[x]] /\ "pc" \in DOMAIN s5' /\ DOMAIN s5' = DOMAIN s5
        /\ s5'.need = s5.need /\ "need" \in DOMAIN s5'
    BY <2>1, JudgeAdvances DEF Asked
  <2>3. /\ s2' = [u \in Taxpayers |-> s2'[u]]
        /\ \A u \in Taxpayers : ~s2[u].given => ~s2'[u].given
        /\ \A u \in Taxpayers : s2[u].given /\ ~overlapped => s2'[u].given
    <3>1. CASE s2' = s2
      BY <3>1 DEF Asked
    <3>2. ASSUME t \in s5.need, NEW name, s2' = [s2 EXCEPT ![t] = [name |-> name, given |-> FALSE]]
          PROVE  /\ s2' = [u \in Taxpayers |-> s2'[u]]
                 /\ \A u \in Taxpayers : ~s2[u].given => ~s2'[u].given
                 /\ \A u \in Taxpayers : s2[u].given /\ ~overlapped => s2'[u].given
      <4>1. \A u \in Taxpayers : s2'[u] = IF u = t THEN [name |-> name, given |-> FALSE] ELSE s2[u]
        BY <3>2 DEF Asked
      <4>2. s2' = [u \in Taxpayers |-> s2'[u]]
        BY <3>2 DEF Asked
      <4>3. ~overlapped => ~s2[t].given
        BY <2>1, <3>2 DEF Asked
      <4>. QED  BY <4>1, <4>2, <4>3
    <3>. QED  BY <2>1, <3>1, <3>2
  <2>. QED  BY <2>1, <2>2, <2>3 DEF Asked, Judge!SectorKept
<1>3. ASSUME NEW t \in Taxpayers, Judge!RunSignals(t)
      PROVE  Asked' /\ Judge!SectorKept
  <2>1. /\ s5.pc = "signals" /\ s2' = s2 /\ overlapped' = overlapped
        /\ \E said, read : s5' = [Judge!Advance(t, "fuse") EXCEPT !.said[t] = said, !.read = read]
    BY <1>3 DEF Judge!RunSignals
  <2>2. PICK r : /\ r = [x \in DOMAIN r |-> r[x]] /\ DOMAIN r = DOMAIN s5 /\ r.pc \in {"signals", "fuse"}
                 /\ \E said, read : s5' = [r EXCEPT !.said[t] = said, !.read = read]
    <3>. DEFINE r == Judge!Advance(t, "fuse")
    <3>1. r = [x \in DOMAIN r |-> r[x]] /\ DOMAIN r = DOMAIN s5 /\ r.pc \in {"signals", "fuse"}
      BY <2>1, JudgeAdvances DEF Asked
    <3>2. \E said, read : s5' = [r EXCEPT !.said[t] = said, !.read = read]
      BY <2>1
    <3>. HIDE DEF r
    <3>. QED  BY <3>1, <3>2
  <2>3. /\ s5' = [x \in DOMAIN s5' |-> s5'[x]] /\ DOMAIN s5' = DOMAIN s5 /\ s5'.pc \notin {"sectors", "idle"}
    BY <2>1, <2>2 DEF Asked
  <2>. QED  BY <2>1, <2>3 DEF Asked, Judge!SectorKept
<1>4. ASSUME NEW t \in Taxpayers, Judge!RunFuse(t)
      PROVE  Asked' /\ Judge!SectorKept
  <2>1. /\ s5.pc = "fuse" /\ s2' = s2 /\ overlapped' = overlapped
        /\ s5' = Judge!NoRun \/ s5' = Judge!Advance(t, "fuse")
    BY <1>4 DEF Judge!RunFuse
  <2>2. CASE s5' = Judge!NoRun
    <3>1. s5' = [x \in DOMAIN s5' |-> s5'[x]] /\ "pc" \in DOMAIN s5' /\ s5'.pc = "idle"
      BY <2>2 DEF Judge!NoRun
    <3>. QED  BY <2>1, <3>1 DEF Asked, Judge!SectorKept
  <2>3. CASE s5' = Judge!Advance(t, "fuse")
    <3>1. s5' = [x \in DOMAIN s5' |-> s5'[x]] /\ DOMAIN s5' = DOMAIN s5 /\ s5'.pc = "fuse"
      BY <2>1, <2>3, JudgeAdvances DEF Asked
    <3>. QED  BY <2>1, <3>1 DEF Asked, Judge!SectorKept
  <2>. QED  BY <2>1, <2>2, <2>3
<1>5. ASSUME NEW t \in Taxpayers, NEW p, NEW name, Judge!File(t, p, name)
      PROVE  Asked' /\ Judge!SectorKept
  <2>1. /\ s5' = s5 /\ overlapped' = (overlapped \/ s5.pc # "idle")
        /\ s2' = s2 \/ s2' = [s2 EXCEPT ![t] = [name |-> name, given |-> TRUE]]
    BY <1>5 DEF Judge!File
  <2>2. s2' = [u \in Taxpayers |-> s2'[u]] /\ \A u \in Taxpayers : s2[u].given => s2'[u].given
    BY <2>1 DEF Asked
  <2>. QED  BY <2>1, <2>2 DEF Asked, Judge!SectorKept
<1>6. ASSUME UNCHANGED <<s2, s5, overlapped>>
      PROVE  Asked' /\ Judge!SectorKept
  BY <1>6 DEF Asked, Judge!SectorKept
<1>7. ASSUME NEW t \in Taxpayers, NEW c, Judge!Scan(t, c) PROVE UNCHANGED <<s2, s5, overlapped>>
  BY <1>7 DEF Judge!Scan
<1>8. ASSUME NEW t \in Taxpayers, NEW doc, Judge!Document(t, doc) PROVE UNCHANGED <<s2, s5, overlapped>>
  BY <1>8 DEF Judge!Document
<1>. QED  BY <1>1, <1>2, <1>3, <1>4, <1>5, <1>6, <1>7, <1>8 DEF Judge!Next

\* No run of the agents infers again a sector that a provider supplied, unless the
\* return came in under it, for any number of taxpayers and whatever is on file
\* (agents.service.ts 143).
THEOREM SuppliedSectorsStay == Judge!Spec => Judge!GivenSectorStays
<1>1. Judge!Init => Asked
  <2>. SUFFICES ASSUME Judge!Init PROVE Asked
    OBVIOUS
  <2>1. s2 = [t \in Taxpayers |-> Judge!None] /\ s5 = [pc |-> "idle"] /\ overlapped = FALSE
    BY DEF Judge!Init, Judge!NoRun
  <2>2. s5 = [x \in DOMAIN s5 |-> s5[x]] /\ "pc" \in DOMAIN s5 /\ s5.pc = "idle"
    BY <2>1
  <2>3. s2 = [t \in Taxpayers |-> s2[t]]
    BY <2>1
  <2>. QED  BY <2>1, <2>2, <2>3 DEF Asked
<1>2. Asked /\ [Judge!Next]_(Judge!vars) => Asked'
  <2>. SUFFICES ASSUME Asked, UNCHANGED Judge!vars PROVE Asked'
    BY JudgeStep
  <2>. QED  BY DEF Judge!vars, Asked
<1>3. Asked /\ [Judge!Next]_(Judge!vars) => [Judge!SectorKept]_(Judge!vars)
  BY JudgeStep
<1>. QED  BY <1>1, <1>2, <1>3, PTL DEF Judge!Spec, Judge!GivenSectorStays

-----------------------------------------------------------------------------
(* Reading, of whatever is presented: no day, label, number or file is left to *)
(* an instance.  Only what a sheet or a text is read as stays with TLC: it is  *)
(* computed by folds over characters.                                          *)

CONSTANT Presented
Reading == INSTANCE ReturnParsing WITH Inputs <- Presented, input <- s1, result <- s2

\* Days: those that leap years add, and the first of January.
LeapDays(z) == z \div 4 - z \div 100 + z \div 400
YearStart(y) == 365 * (y - 1970) + LeapDays(y - 1) - 477
Extra(y) == IF Reading!Leap(y) THEN 1 ELSE 0

LEMMA LeapDaysGrow ==
    ASSUME NEW y \in Int
    PROVE  LeapDays(y) \in Int /\ LeapDays(y) = LeapDays(y - 1) + Extra(y)
<1>1. /\ y \div 4 = (y - 1) \div 4 + (IF y % 4 = 0 THEN 1 ELSE 0)
      /\ y \div 100 = (y - 1) \div 100 + (IF y % 100 = 0 THEN 1 ELSE 0)
      /\ y \div 400 = (y - 1) \div 400 + (IF y % 400 = 0 THEN 1 ELSE 0)
  OBVIOUS
<1>2. (y % 400 = 0 => y % 100 = 0) /\ (y % 100 = 0 => y % 4 = 0)
  OBVIOUS
<1>3. {y \div 4, y \div 100, y \div 400, (y - 1) \div 4, (y - 1) \div 100, (y - 1) \div 400} \subseteq Int
  OBVIOUS
<1>. QED  BY <1>1, <1>2, <1>3 DEF LeapDays, Extra, Reading!Leap

LEMMA YearsFollow ==
    ASSUME NEW y \in Int
    PROVE  /\ YearStart(y) \in Int /\ Extra(y) \in {0, 1}
           /\ YearStart(y + 1) = YearStart(y) + 365 + Extra(y)
           /\ \A z \in Int : y <= z => YearStart(y) <= YearStart(z)
<1>1. \A x \in Int : LeapDays(x) \in Int /\ YearStart(x) \in Int
  BY LeapDaysGrow DEF YearStart
<1>2. Extra(y) \in {0, 1}
  BY DEF Extra
<1>3. YearStart(y + 1) = YearStart(y) + 365 + Extra(y)
  <2>1. LeapDays((y + 1) - 1) = LeapDays(y - 1) + Extra(y)
    <3>1. (y + 1) - 1 = y
      OBVIOUS
    <3>. QED  BY <3>1, LeapDaysGrow
  <2>2. y - 1 \in Int /\ LeapDays(y - 1) \in Int /\ Extra(y) \in Int
    BY <1>1, <1>2
  <2>. QED  BY <2>1, <2>2 DEF YearStart
<1>4. ASSUME NEW z \in Int, y <= z PROVE YearStart(y) <= YearStart(z)
  <2>1. /\ (y - 1) \div 4 <= (z - 1) \div 4
        /\ (z - 1) \div 100 - (y - 1) \div 100 <= z - y + 1
        /\ (y - 1) \div 400 <= (z - 1) \div 400
    BY <1>4
  <2>2. z = y \/ z - y >= 1
    BY <1>4
  <2>3. {(z - 1) \div 4, (z - 1) \div 100, (z - 1) \div 400, (y - 1) \div 4, (y - 1) \div 100, (y - 1) \div 400} \subseteq Int
    OBVIOUS
  <2>. QED  BY <1>4, <2>1, <2>2, <2>3 DEF YearStart, LeapDays
<1>. QED  BY <1>1, <1>2, <1>3, <1>4

\* The days of a year that go before its months, and before the next year.
MonthsPast == <<0, 31, 59, 90, 120, 151, 181, 212, 243, 273, 304, 334, 365>>
Past(y, m) == MonthsPast[m + 1] + (IF m > 1 THEN Extra(y) ELSE 0)

LEMMA PastMonths ==
    ASSUME NEW y \in Int
    PROVE  /\ \A m \in 0 .. 12 : Past(y, m) \in Int
           /\ \A m \in 1 .. 12 : /\ Reading!DaysIn(y, m) \in 28 .. 31
                                 /\ Past(y, m) = Past(y, m - 1) + Reading!DaysIn(y, m)
           /\ \A a, b \in 0 .. 12 : a <= b => Past(y, a) <= Past(y, b)
<1>1. Extra(y) \in {0, 1}
  BY DEF Extra
<1>2. \A m \in 0 .. 12 : MonthsPast[m + 1] \in Int
  BY DEF MonthsPast
<1>3. \A a, b \in 0 .. 12 : a <= b => MonthsPast[a + 1] <= MonthsPast[b + 1]
  BY DEF MonthsPast
<1>4. \A m \in 1 .. 12 : Reading!DaysIn(y, m) \in 28 .. 31
  BY DEF Reading!DaysIn
<1>5. ASSUME NEW m \in 1 .. 12
      PROVE  Past(y, m) = Past(y, m - 1) + Reading!DaysIn(y, m)
  <2>1. Reading!DaysIn(y, m) = MonthsPast[m + 1] - MonthsPast[m] + (IF m = 2 THEN Extra(y) ELSE 0)
    BY DEF Reading!DaysIn, Extra, MonthsPast
  <2>2. (m - 1) + 1 = m /\ MonthsPast[m + 1] \in Int /\ MonthsPast[m] \in Int
    BY DEF MonthsPast
  <2>. QED  BY <1>1, <2>1, <2>2 DEF Past
<1>6. \A m \in 0 .. 12 : Past(y, m) \in Int
  BY <1>1, <1>2 DEF Past
<1>7. \A a, b \in 0 .. 12 : a <= b => Past(y, a) <= Past(y, b)
  BY <1>1, <1>2, <1>3 DEF Past
<1>. QED  BY <1>4, <1>5, <1>6, <1>7

\* What Date.UTC makes of a month, and of the month after the last.
LEMMA UtcIs ==
    ASSUME NEW y \in Int, NEW m \in 0 .. 12, NEW d \in Int
    PROVE  Reading!Utc(y, m, d) = YearStart(y) + Past(y, m) + d - 1 /\ Reading!Utc(y, m, d) \in Int
<1>1. \A x \in Int : YearStart(x) \in Int /\ LeapDays(x) \in Int
  BY YearsFollow, LeapDaysGrow
<1>2. Past(y, m) \in Int /\ Past(y, 12) = 365 + Extra(y)
  <2>1. Past(y, m) \in Int
    BY PastMonths
  <2>2. Past(y, 12) = 365 + Extra(y)
    BY DEF Past, MonthsPast
  <2>. QED  BY <2>1, <2>2
<1>3. ASSUME NEW x \in Int, NEW k \in 0 .. 11 PROVE Reading!Utc(x, k, d) = YearStart(x) + Past(x, k) + d - 1
  <2>1. k \div 12 = 0 /\ k % 12 = k
    OBVIOUS
  <2>2. x + 0 = x /\ x - 1 \in Int
    OBVIOUS
  <2>3. Reading!BeforeMonth[k + 1] \in Int /\ Reading!BeforeMonth[k + 1] = MonthsPast[k + 1]
    BY DEF Reading!BeforeMonth, MonthsPast
  <2>. QED  BY <1>1, <2>1, <2>2, <2>3 DEF Reading!Utc, YearStart, LeapDays, Extra, Past
<1>4. Reading!Utc(y, 12, d) = YearStart(y + 1) + d - 1
  <2>1. 12 \div 12 = 1 /\ 12 % 12 = 0 /\ Reading!BeforeMonth[0 + 1] = 0
    BY DEF Reading!BeforeMonth
  <2>2. (y + 1) - 1 = y
    OBVIOUS
  <2>. QED  BY <1>1, <2>1, <2>2 DEF Reading!Utc, YearStart, LeapDays
<1>5. YearStart(y + 1) = YearStart(y) + 365 + Extra(y) /\ Extra(y) \in {0, 1}
  BY YearsFollow
<1>6. Reading!Utc(y, 12, d) = YearStart(y) + Past(y, 12) + d - 1
  BY <1>1, <1>2, <1>4, <1>5
<1>7. Reading!Utc(y, m, d) = YearStart(y) + Past(y, m) + d - 1
  BY <1>3, <1>6
<1>. QED  BY <1>1, <1>2, <1>7

\* The month after the last is the first of the next year.
LEMMA NextYear ==
    ASSUME NEW y \in Int, NEW d \in Int
    PROVE  Reading!Utc(y, 12, d) = Reading!Utc(y + 1, 0, d)
<1>1. /\ Reading!Utc(y, 12, d) = YearStart(y) + Past(y, 12) + d - 1
      /\ Reading!Utc(y + 1, 0, d) = YearStart(y + 1) + Past(y + 1, 0) + d - 1
  <2>1. 12 \in 0 .. 12 /\ 0 \in 0 .. 12 /\ y + 1 \in Int
    OBVIOUS
  <2>. QED  BY <2>1, UtcIs
<1>2. Past(y, 12) = 365 + Extra(y) /\ Past(y + 1, 0) = 0
  BY DEF Past, MonthsPast
<1>3. YearStart(y + 1) = YearStart(y) + 365 + Extra(y) /\ Extra(y) \in {0, 1}
  BY YearsFollow
<1>4. YearStart(y) \in Int
  BY YearsFollow
<1>. QED  BY <1>1, <1>2, <1>3, <1>4

\* The first of a month.
LEMMA MonthStarts ==
    ASSUME NEW y \in Int, NEW m \in 0 .. 12
    PROVE  Reading!Utc(y, m, 1) = YearStart(y) + Past(y, m) /\ Reading!Utc(y, m, 1) \in Int
<1>1. Reading!Utc(y, m, 1) = YearStart(y) + Past(y, m) + 1 - 1 /\ Reading!Utc(y, m, 1) \in Int
  <2>1. 1 \in Int
    OBVIOUS
  <2>. QED  BY <2>1, UtcIs
<1>2. YearStart(y) \in Int /\ Past(y, m) \in Int
  BY YearsFollow, PastMonths
<1>. QED  BY <1>1, <1>2

LEMMA MonthsFollow ==
    ASSUME NEW y \in Int
    PROVE  /\ \A m \in 0 .. 12 : Reading!Utc(y, m, 1) \in Int
           /\ \A m \in 1 .. 12 : /\ Reading!DaysIn(y, m) \in 28 .. 31
                                 /\ Reading!Utc(y, m, 1) = Reading!Utc(y, m - 1, 1) + Reading!DaysIn(y, m)
<1>1. ASSUME NEW m \in 1 .. 12
      PROVE  Reading!Utc(y, m, 1) = Reading!Utc(y, m - 1, 1) + Reading!DaysIn(y, m)
  <2>1. m \in 0 .. 12 /\ m - 1 \in 0 .. 12
    OBVIOUS
  <2>2. /\ YearStart(y) \in Int /\ Past(y, m) \in Int /\ Past(y, m - 1) \in Int
        /\ Reading!DaysIn(y, m) \in 28 .. 31 /\ Past(y, m) = Past(y, m - 1) + Reading!DaysIn(y, m)
    BY <2>1, YearsFollow, PastMonths
  <2>3. /\ Reading!Utc(y, m, 1) = YearStart(y) + Past(y, m)
        /\ Reading!Utc(y, m - 1, 1) = YearStart(y) + Past(y, m - 1)
    BY <2>1, MonthStarts
  <2>. QED  BY <2>2, <2>3
<1>. QED  BY <1>1, MonthStarts, PastMonths

LEMMA MonthsOfYear ==
    ASSUME NEW y \in Int, NEW a \in 0 .. 12, NEW b \in 0 .. 12, a <= b
    PROVE  Reading!Utc(y, a, 1) <= Reading!Utc(y, b, 1)
<1>1. YearStart(y) \in Int /\ Past(y, a) \in Int /\ Past(y, b) \in Int /\ Past(y, a) <= Past(y, b)
  BY YearsFollow, PastMonths
<1>2. /\ Reading!Utc(y, a, 1) = YearStart(y) + Past(y, a)
      /\ Reading!Utc(y, b, 1) = YearStart(y) + Past(y, b)
  BY MonthStarts
<1>. QED  BY <1>1, <1>2

\* The months follow each other, over the ends of years too.
LEMMA MonthsOrder ==
    ASSUME NEW y \in Int, NEW z \in Int, NEW a \in 0 .. 12, NEW b \in 0 .. 12, y < z \/ (y = z /\ a <= b)
    PROVE  Reading!Utc(y, a, 1) <= Reading!Utc(z, b, 1)
<1>1. CASE y < z
  <2>1. Reading!Utc(y, a, 1) <= Reading!Utc(y, 12, 1) /\ Reading!Utc(z, 0, 1) <= Reading!Utc(z, b, 1)
    BY MonthsOfYear
  <2>2. Reading!Utc(y, 12, 1) <= Reading!Utc(z, 0, 1)
    <3>1. y + 1 \in Int /\ y + 1 <= z
      BY <1>1
    <3>2. YearStart(y + 1) <= YearStart(z) /\ YearStart(y + 1) \in Int /\ YearStart(z) \in Int
      BY <3>1, YearsFollow
    <3>3. /\ Reading!Utc(y, 12, 1) = Reading!Utc(y + 1, 0, 1)
          /\ Reading!Utc(y + 1, 0, 1) = YearStart(y + 1) + Past(y + 1, 0)
          /\ Reading!Utc(z, 0, 1) = YearStart(z) + Past(z, 0)
      <4>1. 1 \in Int /\ 0 \in 0 .. 12
        OBVIOUS
      <4>. QED  BY <3>1, <4>1, MonthStarts, NextYear
    <3>4. Past(y + 1, 0) = 0 /\ Past(z, 0) = 0
      BY DEF Past, MonthsPast
    <3>. QED  BY <3>2, <3>3, <3>4
  <2>3. /\ Reading!Utc(y, 12, 1) \in Int /\ Reading!Utc(z, 0, 1) \in Int
        /\ Reading!Utc(y, a, 1) \in Int /\ Reading!Utc(z, b, 1) \in Int
    <3>1. 12 \in 0 .. 12 /\ 0 \in 0 .. 12
      OBVIOUS
    <3>. QED  BY <3>1, MonthStarts
  <2>. QED  BY <2>1, <2>2, <2>3
<1>2. CASE y = z /\ a <= b
  BY <1>2, MonthsOfYear
<1>. QED  BY <1>1, <1>2

\* A day lies in its month.
LEMMA DayInMonth ==
    ASSUME NEW y \in Int, NEW m \in 1 .. 12, NEW d \in 1 .. Reading!DaysIn(y, m)
    PROVE  /\ Reading!DayNumber(<<y, m, d>>) = Reading!Utc(y, m - 1, 1) + d - 1
           /\ Reading!DayNumber(<<y, m, d>>) \in Int
           /\ Reading!Utc(y, m - 1, 1) <= Reading!DayNumber(<<y, m, d>>)
           /\ Reading!DayNumber(<<y, m, d>>) < Reading!Utc(y, m, 1)
<1>1. m - 1 \in 0 .. 12 /\ m \in 0 .. 12 /\ d \in Int
  <2>1. Reading!DaysIn(y, m) \in 28 .. 31
    BY PastMonths
  <2>. QED  BY <2>1
<1>2. Reading!DayNumber(<<y, m, d>>) = Reading!Utc(y, m - 1, 1) + d - 1
  <2>1. Reading!DayNumber(<<y, m, d>>) = Reading!Utc(y, m - 1, d)
    BY DEF Reading!DayNumber
  <2>2. /\ Reading!Utc(y, m - 1, d) = YearStart(y) + Past(y, m - 1) + d - 1
        /\ Reading!Utc(y, m - 1, 1) = YearStart(y) + Past(y, m - 1)
    BY <1>1, UtcIs, MonthStarts
  <2>3. YearStart(y) \in Int /\ Past(y, m - 1) \in Int
    BY <1>1, YearsFollow, PastMonths
  <2>. QED  BY <1>1, <2>1, <2>2, <2>3
<1>3. /\ Reading!Utc(y, m - 1, 1) \in Int /\ Reading!DaysIn(y, m) \in 28 .. 31
      /\ Reading!Utc(y, m, 1) = Reading!Utc(y, m - 1, 1) + Reading!DaysIn(y, m)
  BY <1>1, MonthsFollow
<1>. QED  BY <1>2, <1>3

\* No day lies in two months.
LEMMA OneMonth ==
    ASSUME NEW y \in Int, NEW a \in 0 .. 12, NEW b \in 0 .. 12, NEW z \in Int, NEW m \in 1 .. 12, NEW day \in Int,
           Reading!Utc(y, a, 1) <= day, day < Reading!Utc(y, b, 1),
           Reading!Utc(z, m - 1, 1) <= day, day < Reading!Utc(z, m, 1)
    PROVE  y = z /\ a < m /\ m <= b
<1>1. m - 1 \in 0 .. 12 /\ m \in 0 .. 12
  OBVIOUS
<1>2. /\ Reading!Utc(y, a, 1) \in Int /\ Reading!Utc(y, b, 1) \in Int
      /\ Reading!Utc(z, m - 1, 1) \in Int /\ Reading!Utc(z, m, 1) \in Int
  BY <1>1, MonthsFollow
<1>3. ~(y < z)
  <2>1. y < z => Reading!Utc(y, b, 1) <= Reading!Utc(z, m - 1, 1)
    BY <1>1, MonthsOrder
  <2>. QED  BY <1>2, <2>1
<1>4. ~(z < y)
  <2>1. z < y => Reading!Utc(z, m, 1) <= Reading!Utc(y, a, 1)
    BY <1>1, MonthsOrder
  <2>. QED  BY <1>2, <2>1
<1>5. y = z
  BY <1>3, <1>4
<1>6. a < m
  <2>1. m <= a => Reading!Utc(y, m, 1) <= Reading!Utc(y, a, 1)
    BY <1>1, MonthsOrder
  <2>. QED  BY <1>2, <1>5, <2>1
<1>7. m <= b
  <2>1. b <= m - 1 => Reading!Utc(y, b, 1) <= Reading!Utc(y, m - 1, 1)
    BY <1>1, MonthsOrder
  <2>. QED  BY <1>2, <1>5, <2>1
<1>. QED  BY <1>5, <1>6, <1>7

\* The years in which a date may be written as a spreadsheet's serial number
\* (20000 to 60000).
SerialYears == 1955 .. 2063
ShortYears  == 2000 .. 2099

\* The ways to write a date: a serial number and a year of two digits say only what
\* lies in their years.
WaysToWrite(date) == {w \in Reading!Written(date) :
                        /\ w.form = "serial" => date[1] \in SerialYears
                        /\ w.form = "short year" => date[1] \in ShortYears}

LEMMA DateParts ==
    ASSUME NEW Y \in SUBSET Int, NEW date \in Reading!Dates(Y)
    PROVE  /\ date = <<date[1], date[2], date[3]>> /\ date[1] \in Y /\ date[2] \in 1 .. 12
           /\ date[3] \in 1 .. Reading!DaysIn(date[1], date[2]) /\ date[3] \in 1 .. 31
           /\ Reading!Ymd(date[1], date[2], date[3]) = date
  BY DEF Reading!Dates, Reading!IsValidYmd, Reading!Ymd

\* What is made of a serial number.
DayCounted(day) ==
    LET y == CHOOSE y \in 1950 .. 2070 : Reading!Utc(y, 0, 1) <= day /\ day < Reading!Utc(y + 1, 0, 1)
        m == CHOOSE m \in 1 .. 12 : Reading!Utc(y, m - 1, 1) <= day /\ day < Reading!Utc(y, m, 1)
    IN <<y, m, day - Reading!Utc(y, m - 1, 1) + 1>>
SerialFirst == 20000
SerialLast  == 60000
SerialZero  == 25569
SerialDay(n) == IF n \notin SerialFirst .. SerialLast THEN Reading!NoDate ELSE DayCounted(n - SerialZero)

LEMMA YearFirstRead ==
    ASSUME NEW a, NEW b, NEW c
    PROVE  Reading!ParseFlexibleDate([form |-> "year first", n |-> <<a, b, c>>]) = Reading!Ymd(a, b, c)
  BY DEF Reading!ParseFlexibleDate

LEMMA PartsRead ==
    ASSUME NEW a, NEW b, NEW c
    PROVE  Reading!ParseFlexibleDate([form |-> "parts", n |-> <<a, b, c>>]) = Reading!DayFirst(a, b, c)
  BY DEF Reading!ParseFlexibleDate

\* A year of this century, by its last two figures.
Century == 2000
Short(y) == y - Century

LEMMA ShortYearRead ==
    ASSUME NEW a, NEW b, NEW c \in Int
    PROVE  Reading!ParseFlexibleDate([form |-> "short year", n |-> <<a, b, c>>]) = Reading!DayFirst(a, b, Century + c)
  BY DEF Reading!ParseFlexibleDate, Century

LEMMA ShortYear ==
    ASSUME NEW a, NEW b, NEW y \in Int
    PROVE  Reading!ParseFlexibleDate([form |-> "short year", n |-> <<a, b, Short(y)>>]) = Reading!DayFirst(a, b, y)
<1>1. \A c \in Int : Century + c = y =>
         Reading!ParseFlexibleDate([form |-> "short year", n |-> <<a, b, c>>]) = Reading!DayFirst(a, b, y)
  <2>1. \A c \in Int :
           Reading!ParseFlexibleDate([form |-> "short year", n |-> <<a, b, c>>]) = Reading!DayFirst(a, b, Century + c)
    BY ShortYearRead, Zenon
  <2>. QED  BY <2>1, Zenon
<1>2. Short(y) \in Int /\ Century + Short(y) = y
  BY DEF Short, Century
<1>. QED  BY <1>1, <1>2, Zenon

LEMMA SerialRange ==
    ASSUME NEW day \in Int, -5479 <= day, day < 34333
    PROVE  SerialDay(day + SerialZero) = DayCounted(day)
<1>. DEFINE n == day + SerialZero
<1>1. n \in Int /\ SerialFirst \in Int /\ SerialLast \in Int /\ SerialFirst <= n /\ n <= SerialLast
  BY DEF SerialFirst, SerialLast, SerialZero
<1>2. n - SerialZero = day
  BY DEF SerialZero
<1>. HIDE DEF n
<1>3. n \in SerialFirst .. SerialLast
  BY <1>1
<1>4. SerialDay(n) = DayCounted(day)
  BY <1>2, <1>3 DEF SerialDay
<1>. QED  BY <1>4 DEF n

LEMMA SerialTaken ==
    ASSUME NEW x \in Int
    PROVE  Reading!ParseFlexibleDate([form |-> "serial", n |-> <<x>>]) = SerialDay(x)
  BY DEF Reading!ParseFlexibleDate, SerialDay, DayCounted, SerialFirst, SerialLast, SerialZero

LEMMA YearStarts ==
    ASSUME NEW y \in Int
    PROVE  Reading!Utc(y, 0, 1) = YearStart(y) /\ YearStart(y) \in Int
<1>1. Reading!Utc(y, 0, 1) = YearStart(y) + Past(y, 0)
  <2>1. 0 \in 0 .. 12
    OBVIOUS
  <2>. QED  BY <2>1, MonthStarts
<1>2. Past(y, 0) = 0
  BY DEF Past, MonthsPast
<1>3. YearStart(y) \in Int
  BY YearsFollow
<1>. QED  BY <1>1, <1>2, <1>3

\* No day lies in two years.
LEMMA OneYear ==
    ASSUME NEW y \in Int, NEW z \in Int, NEW m \in 1 .. 12, NEW day \in Int,
           Reading!Utc(y, 0, 1) <= day, day < Reading!Utc(y + 1, 0, 1),
           Reading!Utc(z, m - 1, 1) <= day, day < Reading!Utc(z, m, 1)
    PROVE  y = z
<1>1. Reading!Utc(y, 12, 1) = Reading!Utc(y + 1, 0, 1)
  <2>1. 1 \in Int
    OBVIOUS
  <2>. QED  BY <2>1, NextYear
<1>2. day < Reading!Utc(y, 12, 1)
  BY <1>1
<1>3. 0 \in 0 .. 12 /\ 12 \in 0 .. 12
  OBVIOUS
<1>4. \A a, b \in 0 .. 12 : Reading!Utc(y, a, 1) <= day /\ day < Reading!Utc(y, b, 1) => y = z
  BY OneMonth
<1>. QED  BY <1>2, <1>3, <1>4

\* A serial number gives back its day.
LEMMA SerialRead ==
    ASSUME NEW y \in Int, y \in SerialYears, NEW m \in 1 .. 12, NEW d \in 1 .. Reading!DaysIn(y, m),
           NEW day \in Int, day = Reading!DayNumber(<<y, m, d>>)
    PROVE  SerialDay(day + SerialZero) = <<y, m, d>>
<1>. DEFINE year == CHOOSE x \in 1950 .. 2070 : Reading!Utc(x, 0, 1) <= day /\ day < Reading!Utc(x + 1, 0, 1)
            month == CHOOSE x \in 1 .. 12 : Reading!Utc(year, x - 1, 1) <= day /\ day < Reading!Utc(year, x, 1)
<1>0. y \in Int /\ m \in 0 .. 12 /\ m - 1 \in 0 .. 12 /\ 0 \in 0 .. 12 /\ 12 \in 0 .. 12 /\ 1 \in Int /\ y + 1 \in Int
  BY DEF SerialYears
<1>1. /\ day = Reading!Utc(y, m - 1, 1) + d - 1
      /\ Reading!Utc(y, m - 1, 1) <= day /\ day < Reading!Utc(y, m, 1)
  BY <1>0, DayInMonth
<1>2. Reading!Utc(y, 0, 1) <= day /\ day < Reading!Utc(y + 1, 0, 1)
  <2>1. Reading!Utc(y, 0, 1) <= Reading!Utc(y, m - 1, 1) /\ Reading!Utc(y, m, 1) <= Reading!Utc(y, 12, 1)
    BY <1>0, MonthsOfYear
  <2>2. Reading!Utc(y, 12, 1) = Reading!Utc(y + 1, 0, 1)
    BY <1>0, NextYear
  <2>3. /\ Reading!Utc(y, 0, 1) \in Int /\ Reading!Utc(y, m - 1, 1) \in Int
        /\ Reading!Utc(y, m, 1) \in Int /\ Reading!Utc(y, 12, 1) \in Int
    <3>1. Reading!Utc(y, 0, 1) \in Int /\ Reading!Utc(y, 12, 1) \in Int
      BY <1>0, MonthStarts
    <3>2. Reading!Utc(y, m - 1, 1) \in Int
      BY <1>0, MonthStarts
    <3>3. Reading!Utc(y, m, 1) \in Int
      BY <1>0, MonthStarts
    <3>. QED  BY <3>1, <3>2, <3>3
  <2>. QED  BY <1>1, <2>1, <2>2, <2>3
<1>3. ASSUME NEW x \in 1950 .. 2070, Reading!Utc(x, 0, 1) <= day, day < Reading!Utc(x + 1, 0, 1)
      PROVE  x = y
  <2>1. x \in Int
    OBVIOUS
  <2>. QED  BY <1>1, <1>3, <2>1, OneYear
<1>4. year = y
  <2>1. y \in 1950 .. 2070
    BY DEF SerialYears
  <2>. QED  BY <1>2, <1>3, <2>1
<1>. HIDE DEF year
<1>5. ASSUME NEW x \in 1 .. 12, Reading!Utc(y, x - 1, 1) <= day, day < Reading!Utc(y, x, 1)
      PROVE  x = m
  <2>1. x \in 0 .. 12 /\ x - 1 \in 0 .. 12
    OBVIOUS
  <2>2. x - 1 < m /\ m <= x
    BY <1>0, <1>1, <1>5, <2>1, OneMonth
  <2>. QED  BY <2>2
<1>6. month = m
  BY <1>1, <1>4, <1>5
<1>. HIDE DEF month
<1>7. -5479 <= day /\ day < 34333
  <2>1. Reading!Utc(1955, 0, 1) = -5479 /\ Reading!Utc(2064, 0, 1) = 34333
    <3>1. YearStart(1955) = -5479 /\ YearStart(2064) = 34333
      BY DEF YearStart, LeapDays
    <3>2. 1955 \in Int /\ 2064 \in Int
      OBVIOUS
    <3>. QED  BY <3>1, <3>2, YearStarts
  <2>2. Reading!Utc(1955, 0, 1) <= Reading!Utc(y, 0, 1) /\ Reading!Utc(y + 1, 0, 1) <= Reading!Utc(2064, 0, 1)
    <3>1. /\ 1955 \in Int /\ 2064 \in Int /\ (1955 < y \/ 1955 = y) /\ (y + 1 < 2064 \/ y + 1 = 2064)
      BY DEF SerialYears
    <3>. QED  BY <1>0, <3>1, MonthsOrder
  <2>3. Reading!Utc(y, 0, 1) \in Int /\ Reading!Utc(y + 1, 0, 1) \in Int
    BY <1>0, MonthStarts
  <2>4. -5479 <= Reading!Utc(y, 0, 1) /\ Reading!Utc(y + 1, 0, 1) <= 34333
    BY <2>1, <2>2
  <2>. QED  BY <1>2, <2>3, <2>4
<1>8. SerialDay(day + SerialZero) = <<year, month, day - Reading!Utc(year, month - 1, 1) + 1>>
  <2>1. SerialDay(day + SerialZero) = DayCounted(day)
    BY <1>7, SerialRange
  <2>2. DayCounted(day) = <<year, month, day - Reading!Utc(year, month - 1, 1) + 1>>
    BY DEF DayCounted, year, month
  <2>. QED  BY <2>1, <2>2
<1>9. day - Reading!Utc(y, m - 1, 1) + 1 = d
  <2>1. Reading!Utc(y, m - 1, 1) \in Int /\ Reading!DaysIn(y, m) \in 28 .. 31
    <3>1. Reading!Utc(y, m - 1, 1) \in Int
      BY <1>0, MonthStarts
    <3>2. Reading!DaysIn(y, m) \in 28 .. 31
      BY <1>0, PastMonths
    <3>. QED  BY <3>1, <3>2
  <2>2. d \in Int
    BY <2>1
  <2>. QED  BY <1>1, <2>1, <2>2
<1>. QED  BY <1>4, <1>6, <1>8, <1>9

\* The forms of a date, one by one.
YearFirstForm(date) == [form |-> "year first", n |-> date]
PartsForm(date)     == [form |-> "parts", n |-> <<date[3], date[2], date[1]>>]
ShortForm(date)     == [form |-> "short year", n |-> <<date[3], date[2], Short(date[1])>>]
SerialForm(date)    == [form |-> "serial", n |-> <<Reading!DayNumber(date) + SerialZero>>]

LEMMA FourForms ==
    ASSUME NEW date
    PROVE  Reading!Written(date) = {YearFirstForm(date), PartsForm(date), ShortForm(date), SerialForm(date)}
  BY DEF Reading!Written, YearFirstForm, PartsForm, ShortForm, SerialForm, Short, Century, SerialZero

\* A date is read as it was written, in each of the forms.
LEMMA FormsAgree ==
    ASSUME NEW date \in Reading!Dates(Int), NEW w \in WaysToWrite(date)
    PROVE  Reading!ParseFlexibleDate(w) = date
<1>1. w \in Reading!Written(date) /\ (w.form = "serial" => date[1] \in SerialYears)
  BY Zenon DEF WaysToWrite
<1>2. /\ date = <<date[1], date[2], date[3]>> /\ date[1] \in Int /\ date[2] \in 1 .. 12
      /\ date[3] \in 1 .. Reading!DaysIn(date[1], date[2]) /\ date[3] \in 1 .. 31
      /\ Reading!Ymd(date[1], date[2], date[3]) = date
  BY DateParts
<1>3. Reading!DayFirst(date[3], date[2], date[1]) = date
  BY <1>2 DEF Reading!DayFirst
<1>4. date[1] \in Int /\ date[2] \in Int /\ date[3] \in Int /\ date[1] - 2000 \in Int
  BY <1>2
<1>5. CASE w = YearFirstForm(date)
  <2>1. Reading!ParseFlexibleDate([form |-> "year first", n |-> <<date[1], date[2], date[3]>>])
          = Reading!Ymd(date[1], date[2], date[3])
    BY YearFirstRead
  <2>. QED  BY <1>2, <1>5, <2>1 DEF YearFirstForm
<1>6. CASE w = PartsForm(date)
  <2>1. Reading!ParseFlexibleDate([form |-> "parts", n |-> <<date[3], date[2], date[1]>>])
          = Reading!DayFirst(date[3], date[2], date[1])
    BY PartsRead
  <2>. QED  BY <1>3, <1>6, <2>1 DEF PartsForm
<1>7. CASE w = ShortForm(date)
  <2>. DEFINE d == date[3]
              m == date[2]
              y == date[1]
  <2>1. y \in Int /\ w = [form |-> "short year", n |-> <<d, m, Short(y)>>]
    <3>1. y \in Int
      BY <1>4
    <3>2. w = [form |-> "short year", n |-> <<d, m, Short(y)>>]
      BY <1>7, Zenon DEF ShortForm
    <3>. QED  BY <3>1, <3>2
  <2>2. Reading!DayFirst(d, m, y) = date
    BY <1>3
  <2>. HIDE DEF d, m, y
  <2>3. Reading!ParseFlexibleDate([form |-> "short year", n |-> <<d, m, Short(y)>>]) = Reading!DayFirst(d, m, y)
    BY <2>1, ShortYear
  <2>. QED  BY <2>1, <2>2, <2>3
<1>8. CASE w = SerialForm(date)
  <2>. DEFINE day == Reading!DayNumber(<<date[1], date[2], date[3]>>)
  <2>0. date[1] \in SerialYears
    <3>1. \A f, x : [form |-> f, n |-> x].form = f
      OBVIOUS
    <3>2. w.form = "serial"
      BY <1>8, <3>1, Zenon DEF SerialForm
    <3>. QED  BY <1>1, <3>2, Zenon
  <2>1. day \in Int /\ day = Reading!DayNumber(date)
    BY <1>2, <1>4, DayInMonth
  <2>2. SerialDay(day + SerialZero) = <<date[1], date[2], date[3]>>
    BY <1>2, <1>4, <2>0, <2>1, SerialRead
  <2>. HIDE DEF day
  <2>3. day + SerialZero \in Int /\ w = [form |-> "serial", n |-> <<day + SerialZero>>]
    BY <1>8, <2>1 DEF SerialForm, SerialZero
  <2>4. Reading!ParseFlexibleDate([form |-> "serial", n |-> <<day + SerialZero>>]) = SerialDay(day + SerialZero)
    BY <2>3, SerialTaken
  <2>. QED  BY <1>2, <2>2, <2>3, <2>4
<1>. QED  BY <1>1, <1>5, <1>6, <1>7, <1>8, FourForms

\* The months of a period: those after the first up to the second.
From(p) == IF p.quarter # 0 THEN 3 * (p.quarter - 1) ELSE IF p.month # 0 THEN p.month - 1 ELSE 0
To(p)   == IF p.quarter # 0 THEN 3 * p.quarter ELSE IF p.month # 0 THEN p.month ELSE 12
IsPeriod(p) == /\ p \in [year : Int, quarter : 0 .. 4, month : 0 .. 12]
               /\ p.quarter = 0 \/ p.month = 0

LEMMA PeriodMonths ==
    ASSUME NEW p, IsPeriod(p)
    PROVE  p.year \in Int /\ From(p) \in 0 .. 12 /\ To(p) \in 0 .. 12 /\ From(p) < To(p)
<1>1. p.year \in Int /\ p.quarter \in 0 .. 4 /\ p.month \in 0 .. 12
  BY DEF IsPeriod
<1>. QED  BY <1>1 DEF From, To

LEMMA PeriodSpan ==
    ASSUME NEW p, IsPeriod(p)
    PROVE  /\ Reading!PeriodStart(p) = Reading!Utc(p.year, From(p), 1) /\ Reading!PeriodStart(p) \in Int
           /\ Reading!PeriodEnd(p) = Reading!Utc(p.year, To(p), 1) - 1 /\ Reading!PeriodEnd(p) \in Int
<1>1. p.year \in Int /\ p.quarter \in 0 .. 4 /\ p.month \in 0 .. 12
  BY DEF IsPeriod
<1>2. p.year \in Int /\ From(p) \in 0 .. 12 /\ To(p) \in 0 .. 12
  BY PeriodMonths
<1>3. Reading!PeriodStart(p) = Reading!Utc(p.year, From(p), 1)
  <2>1. p.quarter # 0 => (p.quarter - 1) * 3 = 3 * (p.quarter - 1)
    BY <1>1
  <2>. QED  BY <2>1, Zenon DEF Reading!PeriodStart, From
<1>4. Reading!PeriodEnd(p) = Reading!Utc(p.year, To(p), 0)
  <2>1. p.quarter # 0 => p.quarter * 3 = 3 * p.quarter
    BY <1>1
  <2>. QED  BY <2>1, Zenon DEF Reading!PeriodEnd, To
<1>5. /\ Reading!Utc(p.year, To(p), 0) = YearStart(p.year) + Past(p.year, To(p)) + 0 - 1
      /\ Reading!Utc(p.year, To(p), 1) = YearStart(p.year) + Past(p.year, To(p))
  <2>1. 0 \in Int
    OBVIOUS
  <2>. QED  BY <1>2, <2>1, UtcIs, MonthStarts
<1>6. YearStart(p.year) \in Int /\ Past(p.year, To(p)) \in Int
  BY <1>2, YearsFollow, PastMonths
<1>7. Reading!Utc(p.year, To(p), 0) = Reading!Utc(p.year, To(p), 1) - 1 /\ Reading!Utc(p.year, To(p), 1) - 1 \in Int
  BY <1>5, <1>6
<1>8. Reading!Utc(p.year, From(p), 1) \in Int
  BY <1>2, MonthStarts
<1>. QED  BY <1>3, <1>4, <1>7, <1>8

\* A day lies in a period exactly when its year and its month do.
LEMMA DayInPeriod ==
    ASSUME NEW p, IsPeriod(p), NEW y \in Int, NEW m \in 1 .. 12, NEW d \in 1 .. Reading!DaysIn(y, m)
    PROVE  Reading!DateInPeriod(<<y, m, d>>, p) <=> p.year = y /\ From(p) < m /\ m <= To(p)
<1>. DEFINE day == Reading!DayNumber(<<y, m, d>>)
<1>1. /\ day \in Int /\ Reading!Utc(y, m - 1, 1) <= day /\ day < Reading!Utc(y, m, 1)
  BY DayInMonth
<1>2. p.year \in Int /\ From(p) \in 0 .. 12 /\ To(p) \in 0 .. 12
  BY PeriodMonths
<1>3. /\ Reading!Utc(p.year, From(p), 1) \in Int /\ Reading!Utc(p.year, To(p), 1) \in Int
  BY <1>2, MonthStarts
<1>4. Reading!DateInPeriod(<<y, m, d>>, p)
        <=> day \in Reading!Utc(p.year, From(p), 1) .. (Reading!Utc(p.year, To(p), 1) - 1)
  BY PeriodSpan, Zenon DEF Reading!DateInPeriod
<1>. HIDE DEF day
<1>5. Reading!DateInPeriod(<<y, m, d>>, p)
        <=> Reading!Utc(p.year, From(p), 1) <= day /\ day < Reading!Utc(p.year, To(p), 1)
  BY <1>1, <1>3, <1>4
<1>6. ASSUME Reading!Utc(p.year, From(p), 1) <= day, day < Reading!Utc(p.year, To(p), 1)
      PROVE  p.year = y /\ From(p) < m /\ m <= To(p)
  BY <1>1, <1>2, <1>6, OneMonth
<1>7. ASSUME p.year = y, From(p) < m, m <= To(p)
      PROVE  Reading!Utc(p.year, From(p), 1) <= day /\ day < Reading!Utc(p.year, To(p), 1)
  <2>1. m - 1 \in 0 .. 12 /\ m \in 0 .. 12 /\ From(p) <= m - 1
    BY <1>2, <1>7
  <2>2. Reading!Utc(y, From(p), 1) <= Reading!Utc(y, m - 1, 1) /\ Reading!Utc(y, m, 1) <= Reading!Utc(y, To(p), 1)
    BY <1>2, <1>7, <2>1, MonthsOfYear
  <2>3. Reading!Utc(y, m - 1, 1) \in Int /\ Reading!Utc(y, m, 1) \in Int
    BY <2>1, MonthStarts
  <2>. QED  BY <1>1, <1>3, <1>7, <2>2, <2>3
<1>. QED  BY <1>5, <1>6, <1>7

\* The months of a period are those its label names.
LEMMA LabelNames ==
    ASSUME NEW p, IsPeriod(p), NEW m \in 1 .. 12
    PROVE  From(p) < m /\ m <= To(p) <=> p.quarter \in {0, (m + 2) \div 3} /\ p.month \in {0, m}
<1>1. p.quarter \in 0 .. 4 /\ p.month \in 0 .. 12 /\ (p.quarter = 0 \/ p.month = 0)
  BY DEF IsPeriod
<1>. DEFINE q == p.quarter
            k == p.month
<1>2. From(p) = (IF q # 0 THEN 3 * (q - 1) ELSE IF k # 0 THEN k - 1 ELSE 0)
      /\ To(p) = (IF q # 0 THEN 3 * q ELSE IF k # 0 THEN k ELSE 12)
  BY DEF From, To
<1>3. q \in 0 .. 4 /\ k \in 0 .. 12 /\ (q = 0 \/ k = 0)
  BY <1>1
<1>. HIDE DEF q, k
<1>4. q # 0 => (3 * (q - 1) < m /\ m <= 3 * q <=> q = (m + 2) \div 3)
  BY <1>3
<1>. QED  BY <1>2, <1>3, <1>4 DEF q, k

\* What may be presented: a date, in one of its forms; a date against a label,
\* which is a period or itself a date; a day on which a period is picked.
LegibleDate(i)   == i.date \in Reading!Dates(Int) /\ i.written \in WaysToWrite(i.date)
LegiblePeriod(i) ==
    /\ i.date \in Reading!Dates(Int)
    /\ \/ \E p : IsPeriod(p) /\ i.label = [form |-> "period", n |-> <<p>>]
       \/ \E date \in Reading!Dates(Int) : i.label \in WaysToWrite(date)
ReadingInv ==
    /\ s1 \in Presented
    /\ s2 # <<>> =>
          /\ s1.what = "date" => s2 = <<Reading!ParseFlexibleDate(s1.written)>>
          /\ s1.what = "period" =>
                s2 = <<[p |-> Reading!ParsePeriod(s1.label),
                        in |-> Reading!DateInPeriod(s1.date, Reading!ParsePeriod(s1.label)),
                        ended |-> Reading!PeriodHasEnded(Reading!ParsePeriod(s1.label), Reading!DayNumber(s1.date))]>>
          /\ s1.what = "pick" =>
                s2 = <<[listed |-> Reading!EndedPeriods(s1.freq, s1.date),
                        sent |-> Reading!Chosen(s1.freq, s1.year, s1.choice, Reading!DayNumber(s1.date))]>>
          /\ s1.what = "number" => s2 = <<Reading!IsValidNuban(s1.bank, s1.account)>>
          /\ s1.what = "rows" => s2 = <<Reading!ProcessRows(s1)>>

LEMMA ReadingAnswers == Reading!Spec => []ReadingInv
<1>1. Reading!Init => ReadingInv
  BY DEF Reading!Init, ReadingInv
<1>2. ReadingInv /\ [Reading!Next]_(Reading!vars) => ReadingInv'
  <2>. SUFFICES ASSUME ReadingInv, [Reading!Next]_(Reading!vars) PROVE ReadingInv'
    OBVIOUS
  <2>1. CASE UNCHANGED Reading!vars
    BY <2>1, Zenon DEF ReadingInv, Reading!vars
  <2>2. CASE Reading!ReadText
    BY <2>2, Zenon DEF ReadingInv, Reading!ReadText, Reading!Read
  <2>3. CASE Reading!ReadSheet
    BY <2>3, Zenon DEF ReadingInv, Reading!ReadSheet, Reading!Read
  <2>4. CASE Reading!ReadDate
    BY <2>4, Zenon DEF ReadingInv, Reading!ReadDate, Reading!Read
  <2>5. CASE Reading!ReadPeriod
    BY <2>5, Zenon DEF ReadingInv, Reading!ReadPeriod, Reading!Read
  <2>6. CASE Reading!ReadPick
    BY <2>6, Zenon DEF ReadingInv, Reading!ReadPick, Reading!Read
  <2>7. CASE Reading!ReadNumber
    BY <2>7, Zenon DEF ReadingInv, Reading!ReadNumber, Reading!Read
  <2>8. CASE Reading!ReadRows
    BY <2>8, Zenon DEF ReadingInv, Reading!ReadRows, Reading!Read
  <2>. QED  BY <2>1, <2>2, <2>3, <2>4, <2>5, <2>6, <2>7, <2>8 DEF Reading!Next
<1>. QED  BY <1>1, <1>2, PTL DEF Reading!Spec

\* A label names a period.
LEMMA LabelIsPeriod ==
    ASSUME NEW i, LegiblePeriod(i)
    PROVE  IsPeriod(Reading!ParsePeriod(i.label))
<1>1. CASE \E p : IsPeriod(p) /\ i.label = [form |-> "period", n |-> <<p>>]
  <2>1. PICK p : IsPeriod(p) /\ i.label = [form |-> "period", n |-> <<p>>]
    BY <1>1
  <2>2. Reading!ParsePeriod([form |-> "period", n |-> <<p>>]) = p
    BY DEF Reading!ParsePeriod
  <2>. QED  BY <2>1, <2>2
<1>2. CASE \E date \in Reading!Dates(Int) : i.label \in WaysToWrite(date)
  <2>1. PICK date \in Reading!Dates(Int) : i.label \in WaysToWrite(date)
    BY <1>2
  <2>2. Reading!ParseFlexibleDate(i.label) = date
    BY <2>1, FormsAgree
  <2>3. i.label.form # "period"
    <3>1. i.label \in {YearFirstForm(date), PartsForm(date), ShortForm(date), SerialForm(date)}
      BY <2>1, FourForms, Zenon DEF WaysToWrite
    <3>2. \A f, x : [form |-> f, n |-> x].form = f
      OBVIOUS
    <3>3. /\ YearFirstForm(date).form = "year first" /\ PartsForm(date).form = "parts"
          /\ ShortForm(date).form = "short year" /\ SerialForm(date).form = "serial"
      BY <3>2, Zenon DEF YearFirstForm, PartsForm, ShortForm, SerialForm
    <3>4. i.label.form \in {"year first", "parts", "short year", "serial"}
      BY <3>1, <3>3, Zenon
    <3>. QED  BY <3>4
  <2>4. Reading!ParsePeriod(i.label) = Reading!Period(date[1], 0, date[2])
    BY <2>2, <2>3, Zenon DEF Reading!ParsePeriod
  <2>5. date[1] \in Int /\ date[2] \in 1 .. 12
    BY <2>1, DateParts
  <2>6. \A y \in Int, m \in 1 .. 12 : IsPeriod(Reading!Period(y, 0, m))
    BY DEF IsPeriod, Reading!Period
  <2>. QED  BY <2>4, <2>5, <2>6
<1>. QED  BY <1>1, <1>2 DEF LegiblePeriod

\* Over every date and label, of every year: a date is read as the day that was
\* written, in each of its forms (a serial number from 1955 to 2063, two digits of
\* a year from 2000 to 2099), and it lies in a period exactly when the label names
\* its year, quarter or month, never in one that has ended (parseFlexibleDate 236,
\* dateInPeriod 799).
THEOREM EveryDateInItsPeriod ==
    ASSUME \A i \in Presented : /\ i.what = "date" => LegibleDate(i)
                                /\ i.what = "period" => LegiblePeriod(i)
    PROVE  Reading!Spec => []Reading!DatesFallInTheirPeriod
<1>1. ReadingInv => Reading!DatesFallInTheirPeriod
  <2>. SUFFICES ASSUME ReadingInv PROVE Reading!DatesFallInTheirPeriod
    OBVIOUS
  <2>1. ASSUME Reading!Has("date") PROVE s2[1] = s1.date
    <3>1. s2 = <<Reading!ParseFlexibleDate(s1.written)>> /\ LegibleDate(s1)
      BY <2>1, Zenon DEF ReadingInv, Reading!Has
    <3>2. Reading!ParseFlexibleDate(s1.written) = s1.date
      BY <3>1, FormsAgree, Zenon DEF LegibleDate
    <3>. QED  BY <3>1, <3>2
  <2>2. ASSUME Reading!Has("period")
        PROVE  /\ s2[1].in <=> /\ s2[1].p.year = s1.date[1]
                               /\ s2[1].p.quarter \in {0, (s1.date[2] + 2) \div 3}
                               /\ s2[1].p.month \in {0, s1.date[2]}
               /\ ~(s2[1].in /\ s2[1].ended)
    <3>. DEFINE p == Reading!ParsePeriod(s1.label)
                date == s1.date
    <3>1. /\ LegiblePeriod(s1)
          /\ s2 = <<[p |-> p, in |-> Reading!DateInPeriod(date, p),
                     ended |-> Reading!PeriodHasEnded(p, Reading!DayNumber(date))]>>
      BY <2>2, Zenon DEF ReadingInv, Reading!Has
    <3>2. IsPeriod(p) /\ date \in Reading!Dates(Int)
      BY <3>1, LabelIsPeriod, Zenon DEF LegiblePeriod
    <3>. HIDE DEF p, date
    <3>3. s2[1].p = p /\ (s2[1].in <=> Reading!DateInPeriod(date, p))
          /\ (s2[1].ended <=> Reading!PeriodHasEnded(p, Reading!DayNumber(date)))
      BY <3>1
    <3>4. /\ date = <<date[1], date[2], date[3]>> /\ date[1] \in Int /\ date[2] \in 1 .. 12
          /\ date[3] \in 1 .. Reading!DaysIn(date[1], date[2])
      BY <3>2, DateParts
    <3>5. Reading!DateInPeriod(date, p) <=> p.year = date[1] /\ From(p) < date[2] /\ date[2] <= To(p)
      BY <3>2, <3>4, DayInPeriod
    <3>6. From(p) < date[2] /\ date[2] <= To(p)
            <=> p.quarter \in {0, (date[2] + 2) \div 3} /\ p.month \in {0, date[2]}
      BY <3>2, <3>4, LabelNames
    <3>7. ~(Reading!DateInPeriod(date, p) /\ Reading!PeriodHasEnded(p, Reading!DayNumber(date)))
      <4>1. Reading!DayNumber(date) \in Int /\ Reading!PeriodStart(p) \in Int /\ Reading!PeriodEnd(p) \in Int
        BY <3>2, <3>4, DayInMonth, PeriodSpan
      <4>2. \A x, a, b \in Int : ~(x \in a .. b /\ b < x)
        OBVIOUS
      <4>. QED  BY <4>1, <4>2, Zenon DEF Reading!DateInPeriod, Reading!PeriodHasEnded
    <3>. QED  BY <3>3, <3>5, <3>6, <3>7, Zenon DEF date
  <2>. QED  BY <2>1, <2>2, Zenon DEF Reading!DatesFallInTheirPeriod
<1>. QED  BY <1>1, ReadingAnswers, PTL

\* A file of rows: its columns and its clocks.
LegibleRows(i) ==
    /\ i.now \in Nat /\ i.config \in Nat
    /\ \A c \in i.columns : c.from \in Nat

\* A file that is not rejected is stored whole, for every set of columns, unless
\* the configuration gives a column more time than its own date (submissions
\* service 640, 660).
THEOREM EveryFileStoredWhole ==
    ASSUME \A i \in Presented : i.what = "rows" => LegibleRows(i)
    PROVE  Reading!Spec => []Reading!StoredWholeUnlessGraced
<1>1. ASSUME NEW i, LegibleRows(i), NEW row, Reading!ErrsAgain(row, i), ~Reading!Errs(row, i)
      PROVE  \E c \in i.columns : c.from # 0 /\ c.from <= i.now /\ i.now < i.config
  <2>1. /\ Reading!RowErrors(row, i.columns, i.now, 0) # {}
        /\ Reading!RowErrors(row, i.columns, i.now, i.config) = {}
    BY <1>1, Zenon DEF Reading!Errs, Reading!ErrsAgain
  <2>2. PICK c \in i.columns : IF row[c.name] = "blank" THEN c.required /\ Reading!GraceElapsed(c, i.now, 0)
                               ELSE row[c.name] \notin Reading!Accepts(c.kind)
    BY <2>1, Zenon DEF Reading!RowErrors
  <2>3. ~(IF row[c.name] = "blank" THEN c.required /\ Reading!GraceElapsed(c, i.now, i.config)
          ELSE row[c.name] \notin Reading!Accepts(c.kind))
    BY <2>1, Zenon DEF Reading!RowErrors
  <2>4. Reading!GraceElapsed(c, i.now, 0) /\ ~Reading!GraceElapsed(c, i.now, i.config)
    BY <2>2, <2>3, Zenon
  <2>5. i.now \in Nat /\ i.config \in Nat /\ c.from \in Nat
    BY <1>1 DEF LegibleRows
  <2>6. \A f, n, g \in Nat :
           (f = 0 \/ n >= f) /\ ~(f = 0 \/ n >= (IF g # 0 THEN g ELSE f)) => f # 0 /\ f <= n /\ n < g
    OBVIOUS
  <2>7. c.from # 0 /\ c.from <= i.now /\ i.now < i.config
    <3>1. (c.from = 0 \/ i.now >= c.from) /\ ~(c.from = 0 \/ i.now >= (IF i.config # 0 THEN i.config ELSE c.from))
      BY <2>4, Zenon DEF Reading!GraceElapsed
    <3>. QED  BY <2>5, <2>6, <3>1, Zenon
  <2>. QED  BY <2>7
<1>2. ReadingInv => Reading!StoredWholeUnlessGraced
  <2>. SUFFICES ASSUME ReadingInv, Reading!Has("rows"), s2[1].status # "REJECTED"
                PROVE  \/ s2[1].stored = DOMAIN s1.rows
                       \/ \E c \in s1.columns : c.from # 0 /\ c.from <= s1.now /\ s1.now < s1.config
    BY Zenon DEF Reading!StoredWholeUnlessGraced
  <2>1. s2 = <<Reading!ProcessRows(s1)>> /\ LegibleRows(s1)
    BY Zenon DEF ReadingInv, Reading!Has
  <2>2. s2[1] = Reading!ProcessRows(s1)
    BY <2>1
  <2>3. ~ \E k \in DOMAIN s1.rows : Reading!Errs(s1.rows[k], s1)
    <3>1. [status |-> "REJECTED", stored |-> {}, warned |-> {}].status = "REJECTED"
      OBVIOUS
    <3>. QED  BY <2>2, <3>1, Zenon DEF Reading!ProcessRows
  <2>4. s2[1].stored = {k \in DOMAIN s1.rows : ~Reading!ErrsAgain(s1.rows[k], s1)}
    <3>1. \A x, y, z : [status |-> x, stored |-> y, warned |-> z].stored = y
      OBVIOUS
    <3>2. Reading!ProcessRows(s1)
            = [status |-> "READ", stored |-> {k \in DOMAIN s1.rows : ~Reading!ErrsAgain(s1.rows[k], s1)},
               warned |-> {k \in DOMAIN s1.rows :
                             Reading!RowWarnings(s1.rows[k], s1.columns, s1.type, s1.now, s1.config) # {}}]
      BY <2>3, Zenon DEF Reading!ProcessRows
    <3>3. s2[1].stored = Reading!ProcessRows(s1).stored
      BY <2>2
    <3>. QED  BY <3>1, <3>2, <3>3
  <2>5. CASE \A k \in DOMAIN s1.rows : ~Reading!ErrsAgain(s1.rows[k], s1)
    BY <2>4, <2>5, Zenon
  <2>6. CASE \E k \in DOMAIN s1.rows : Reading!ErrsAgain(s1.rows[k], s1)
    BY <1>1, <2>1, <2>3, <2>6, Zenon
  <2>. QED  BY <2>5, <2>6
<1>. QED  BY <1>2, ReadingAnswers, PTL

-----------------------------------------------------------------------------
(* One digit of an account number. *)

\* What a digit of the bank's code and the serial, with its weight, is worth.
Digits(n) == [1 .. n -> 0 .. 9]
Damaged(seed, i, x) == [seed EXCEPT ![i] = x]

\* Weights that have no factor in common with ten.
LEMMA OneDigitOfTen ==
    ASSUME NEW rest \in Int, NEW w \in {3, 7}, NEW a \in 0 .. 9, NEW b \in 0 .. 9,
           (rest + w * a) % 10 = (rest + w * b) % 10
    PROVE  a = b
<1>1. CASE w = 3
  BY <1>1
<1>2. CASE w = 7
  BY <1>2
<1>. QED  BY <1>1, <1>2

\* The check digit tells the sum.
Check(t) == (10 - (t % 10)) % 10

LEMMA CheckTellsSum ==
    ASSUME NEW p \in Int, NEW q \in Int, Check(p) = Check(q)
    PROVE  p % 10 = q % 10
  BY DEF Check

LEMMA DigitsAreSequences ==
    ASSUME NEW S, NEW n \in Nat, NEW d \in [1 .. n -> S]
    PROVE  d \in Seq(S) /\ Len(d) = n
<1>1. d \in Seq(S)
  OBVIOUS
<1>2. DOMAIN d = 1 .. n /\ Len(d) \in Nat /\ DOMAIN d = 1 .. Len(d)
  BY <1>1, LenProperties
<1>3. \A m \in Nat : 1 .. n = 1 .. m => m = n
  <2>. SUFFICES ASSUME NEW m \in Nat, 1 .. n = 1 .. m PROVE m = n
    OBVIOUS
  <2>1. n \in 1 .. m \/ n = 0
    OBVIOUS
  <2>2. m \in 1 .. n \/ m = 0
    OBVIOUS
  <2>. QED  BY <2>1, <2>2
<1>. QED  BY <1>1, <1>2, <1>3

\* The sum that the check digit is of: of the bank's code and of nine digits.
Weighed(c, x1, x2, x3, x4, x5, x6, x7, x8, x9) ==
    c + 3 * x1 + 7 * x2 + 3 * x3 + 3 * x4 + 7 * x5 + 3 * x6 + 3 * x7 + 7 * x8 + 3 * x9
OfBank(b) == 3 * b[1] + 7 * b[2] + 3 * b[3]
Total(b, a) == Weighed(OfBank(b), a[1], a[2], a[3], a[4], a[5], a[6], a[7], a[8], a[9])
AccountWeights == <<3, 7, 3, 3, 7, 3, 3, 7, 3>>

\* The digits, one by one.
LEMMA DigitsOf ==
    ASSUME NEW b \in Digits(3), NEW a \in Digits(10)
    PROVE  /\ OfBank(b) \in Int /\ a[1] \in Int /\ a[2] \in Int /\ a[3] \in Int /\ a[4] \in Int
           /\ a[5] \in Int /\ a[6] \in Int /\ a[7] \in Int /\ a[8] \in Int /\ a[9] \in Int
           /\ Total(b, a) \in Int
<1>1. /\ a[1] \in Int /\ a[2] \in Int /\ a[3] \in Int /\ a[4] \in Int
      /\ a[5] \in Int /\ a[6] \in Int /\ a[7] \in Int /\ a[8] \in Int /\ a[9] \in Int
  BY DEF Digits
<1>2. OfBank(b) \in Int
  <2>1. b[1] \in Int /\ b[2] \in Int /\ b[3] \in Int
    BY DEF Digits
  <2>2. \A x, y, z \in Int : 3 * x + 7 * y + 3 * z \in Int
    OBVIOUS
  <2>. QED  BY <2>1, <2>2, Zenon DEF OfBank
<1>3. Total(b, a) \in Int
  <2>1. \A c, x1, x2, x3, x4, x5, x6, x7, x8, x9 \in Int : Weighed(c, x1, x2, x3, x4, x5, x6, x7, x8, x9) \in Int
    BY DEF Weighed
  <2>. QED  BY <1>1, <1>2, <2>1, Zenon DEF Total
<1>. QED  BY <1>1, <1>2, <1>3

LEMMA SumIsTotal ==
    ASSUME NEW b \in Digits(3), NEW a \in Digits(10)
    PROVE  /\ Reading!WeightedSum(b \o SubSeq(a, 1, 9)) = Total(b, a)
           /\ Len(b) = 3 /\ Len(a) = 10
<1>. DEFINE serial == SubSeq(a, 1, 9)
            seed == b \o serial
            S == 0 .. 9
<1>1. b \in Seq(S) /\ a \in Seq(S) /\ Len(b) = 3 /\ Len(a) = 10
  <2>1. 3 \in Nat /\ 10 \in Nat
    OBVIOUS
  <2>. QED  BY <2>1, DigitsAreSequences, Zenon DEF Digits
<1>2. serial \in Seq(S) /\ Len(serial) = 9 /\ \A k \in 1 .. 9 : serial[k] = a[k]
  <2>1. \A k \in 1 .. 9 : a[k] \in S
    BY DEF Digits
  <2>2. /\ serial \in Seq(S) /\ Len(serial) = IF 1 <= 9 THEN 9 - 1 + 1 ELSE 0
        /\ \A k \in 1 .. 9 - 1 + 1 : serial[k] = a[1 + k - 1]
    <3>1. 1 \in Int /\ 9 \in Int
      OBVIOUS
    <3>. HIDE DEF S
    <3>. QED  BY <2>1, <3>1, SubSeqProperties
  <2>3. \A k \in 1 .. 9 : k \in 1 .. 9 - 1 + 1 /\ 1 + k - 1 = k
    OBVIOUS
  <2>4. (IF 1 <= 9 THEN 9 - 1 + 1 ELSE 0) = 9
    OBVIOUS
  <2>. QED  BY <2>2, <2>3, <2>4, Zenon
<1>. HIDE DEF serial, S, seed
<1>3. \A k \in 1 .. 3 + 9 : seed[k] = IF k <= 3 THEN b[k] ELSE serial[k - 3]
  <2>1. \A k \in 1 .. Len(b) + Len(serial) : seed[k] = IF k <= Len(b) THEN b[k] ELSE serial[k - Len(b)]
    BY <1>1, <1>2, ConcatProperties, Zenon DEF seed
  <2>. QED  BY <1>1, <1>2, <2>1
<1>4. \A k \in 1 .. 9 : seed[k + 3] = a[k]
  <2>. SUFFICES ASSUME NEW k \in 1 .. 9 PROVE seed[k + 3] = a[k]
    OBVIOUS
  <2>. DEFINE j == k + 3
  <2>1. j \in 1 .. 3 + 9 /\ ~(j <= 3) /\ j - 3 = k
    OBVIOUS
  <2>. HIDE DEF j
  <2>2. seed[j] = serial[j - 3]
    BY <1>3, <2>1
  <2>. QED  BY <1>2, <2>1, <2>2 DEF j
<1>5. seed[1] = b[1] /\ seed[2] = b[2] /\ seed[3] = b[3]
  <2>1. 1 \in 1 .. 3 + 9 /\ 2 \in 1 .. 3 + 9 /\ 3 \in 1 .. 3 + 9 /\ 1 <= 3 /\ 2 <= 3 /\ 3 <= 3
    OBVIOUS
  <2>. QED  BY <1>3, <2>1
<1>6. /\ seed[4] = a[1] /\ seed[5] = a[2] /\ seed[6] = a[3] /\ seed[7] = a[4] /\ seed[8] = a[5]
      /\ seed[9] = a[6] /\ seed[10] = a[7] /\ seed[11] = a[8] /\ seed[12] = a[9]
  <2>1. /\ seed[1 + 3] = a[1] /\ seed[2 + 3] = a[2] /\ seed[3 + 3] = a[3] /\ seed[4 + 3] = a[4]
        /\ seed[5 + 3] = a[5] /\ seed[6 + 3] = a[6] /\ seed[7 + 3] = a[7] /\ seed[8 + 3] = a[8]
        /\ seed[9 + 3] = a[9]
    BY <1>4
  <2>. QED  BY <2>1
<1>7. Reading!WeightedSum(seed) = Total(b, a)
  BY <1>5, <1>6 DEF Reading!WeightedSum, Reading!Weights, Total, Weighed, OfBank
<1>. QED  BY <1>1, <1>7 DEF seed, serial

LEMMA DamagedTotal ==
    ASSUME NEW b \in Digits(3), NEW a \in Digits(10), NEW k \in 1 .. 9, NEW x \in 0 .. 9
    PROVE  Total(b, Damaged(a, k, x)) = Total(b, a) - AccountWeights[k] * a[k] + AccountWeights[k] * x
<1>. DEFINE e == Damaged(a, k, x)
            c == OfBank(b)
            W == Total(b, a)
            Goal(w, v) == Total(b, e) = W - w * v + w * x
            x1 == a[1]
            x2 == a[2]
            x3 == a[3]
            x4 == a[4]
            x5 == a[5]
            x6 == a[6]
            x7 == a[7]
            x8 == a[8]
            x9 == a[9]
<1>1. \A j \in 1 .. 9 : e[j] = IF j = k THEN x ELSE a[j]
  BY DEF Digits, Damaged
<1>. HIDE DEF e
<1>2. /\ e[1] = (IF k = 1 THEN x ELSE x1)
      /\ e[2] = (IF k = 2 THEN x ELSE x2)
      /\ e[3] = (IF k = 3 THEN x ELSE x3)
      /\ e[4] = (IF k = 4 THEN x ELSE x4)
      /\ e[5] = (IF k = 5 THEN x ELSE x5)
      /\ e[6] = (IF k = 6 THEN x ELSE x6)
      /\ e[7] = (IF k = 7 THEN x ELSE x7)
      /\ e[8] = (IF k = 8 THEN x ELSE x8)
      /\ e[9] = (IF k = 9 THEN x ELSE x9)
  BY <1>1
<1>3. /\ x \in Int /\ c \in Int /\ x1 \in Int /\ x2 \in Int /\ x3 \in Int /\ x4 \in Int
      /\ x5 \in Int /\ x6 \in Int /\ x7 \in Int /\ x8 \in Int /\ x9 \in Int
  BY DigitsOf
<1>. HIDE DEF c, x1, x2, x3, x4, x5, x6, x7, x8, x9
<1>4. W = Weighed(c, x1, x2, x3, x4, x5, x6, x7, x8, x9)
  BY DEF Total, c, x1, x2, x3, x4, x5, x6, x7, x8, x9
<1>. HIDE DEF W
<1>5. ASSUME k = 1 PROVE Goal(3, x1)
  <2>1. Total(b, e) = Weighed(c, x, x2, x3, x4, x5, x6, x7, x8, x9)
    BY <1>2, <1>5 DEF Total, c
  <2>. QED  BY <1>3, <1>4, <2>1 DEF Weighed
<1>6. ASSUME k = 2 PROVE Goal(7, x2)
  <2>1. Total(b, e) = Weighed(c, x1, x, x3, x4, x5, x6, x7, x8, x9)
    BY <1>2, <1>6 DEF Total, c
  <2>. QED  BY <1>3, <1>4, <2>1 DEF Weighed
<1>7. ASSUME k = 3 PROVE Goal(3, x3)
  <2>1. Total(b, e) = Weighed(c, x1, x2, x, x4, x5, x6, x7, x8, x9)
    BY <1>2, <1>7 DEF Total, c
  <2>. QED  BY <1>3, <1>4, <2>1 DEF Weighed
<1>8. ASSUME k = 4 PROVE Goal(3, x4)
  <2>1. Total(b, e) = Weighed(c, x1, x2, x3, x, x5, x6, x7, x8, x9)
    BY <1>2, <1>8 DEF Total, c
  <2>. QED  BY <1>3, <1>4, <2>1 DEF Weighed
<1>9. ASSUME k = 5 PROVE Goal(7, x5)
  <2>1. Total(b, e) = Weighed(c, x1, x2, x3, x4, x, x6, x7, x8, x9)
    BY <1>2, <1>9 DEF Total, c
  <2>. QED  BY <1>3, <1>4, <2>1 DEF Weighed
<1>10. ASSUME k = 6 PROVE Goal(3, x6)
  <2>1. Total(b, e) = Weighed(c, x1, x2, x3, x4, x5, x, x7, x8, x9)
    BY <1>2, <1>10 DEF Total, c
  <2>. QED  BY <1>3, <1>4, <2>1 DEF Weighed
<1>11. ASSUME k = 7 PROVE Goal(3, x7)
  <2>1. Total(b, e) = Weighed(c, x1, x2, x3, x4, x5, x6, x, x8, x9)
    BY <1>2, <1>11 DEF Total, c
  <2>. QED  BY <1>3, <1>4, <2>1 DEF Weighed
<1>12. ASSUME k = 8 PROVE Goal(7, x8)
  <2>1. Total(b, e) = Weighed(c, x1, x2, x3, x4, x5, x6, x7, x, x9)
    BY <1>2, <1>12 DEF Total, c
  <2>. QED  BY <1>3, <1>4, <2>1 DEF Weighed
<1>13. ASSUME k = 9 PROVE Goal(3, x9)
  <2>1. Total(b, e) = Weighed(c, x1, x2, x3, x4, x5, x6, x7, x8, x)
    BY <1>2, <1>13 DEF Total, c
  <2>. QED  BY <1>3, <1>4, <2>1 DEF Weighed
<1>. HIDE DEF Goal
<1>14. Goal(AccountWeights[k], a[k])
  BY <1>5, <1>6, <1>7, <1>8, <1>9, <1>10, <1>11, <1>12, <1>13
     DEF AccountWeights, x1, x2, x3, x4, x5, x6, x7, x8, x9
<1>. QED  BY <1>14 DEF Goal, e, W

\* A number of a bank that is known, and what it is worth with one digit changed.
Numbered(b, a)  == /\ b \in Digits(3) /\ a \in Digits(10)
                   /\ a[10] = Reading!NubanCheckDigit(b \o SubSeq(a, 1, 9))
LegibleNumber(i) == \E a \in Digits(10), k \in 1 .. 10, x \in 0 .. 9 :
    /\ Numbered(i.bank, a) /\ i.account = Damaged(a, k, x)
    /\ i.damaged = IF a[k] = x THEN 0 ELSE 1

LEMMA OneDigitTells ==
    ASSUME NEW b, NEW a, Numbered(b, a), NEW k \in 1 .. 10, NEW x \in 0 .. 9
    PROVE  Reading!IsValidNuban(b, Damaged(a, k, x)) <=> a[k] = x
<1>. DEFINE e == Damaged(a, k, x)
<1>1. /\ b \in Digits(3) /\ a \in Digits(10) /\ a[10] = Reading!NubanCheckDigit(b \o SubSeq(a, 1, 9))
  BY DEF Numbered
<1>2. e \in Digits(10)
  BY <1>1 DEF Digits, Damaged
<1>3. /\ a[10] = Check(Total(b, a)) /\ Total(b, a) \in Int /\ Total(b, e) \in Int
      /\ Reading!IsValidNuban(b, e) <=> Check(Total(b, e)) = e[10]
  <2>1. Reading!NubanCheckDigit(b \o SubSeq(a, 1, 9)) = Check(Total(b, a))
    BY <1>1, SumIsTotal, Zenon DEF Reading!NubanCheckDigit, Check
  <2>2. Reading!NubanCheckDigit(b \o SubSeq(e, 1, 9)) = Check(Total(b, e))
    BY <1>1, <1>2, SumIsTotal, Zenon DEF Reading!NubanCheckDigit, Check
  <2>3. Len(b) = 3 /\ Len(e) = 10
    BY <1>1, <1>2, SumIsTotal
  <2>. QED  BY <1>1, <1>2, <2>1, <2>2, <2>3, DigitsOf, Zenon DEF Reading!IsValidNuban
<1>4. CASE k = 10
  <2>1. e[10] = x
    BY <1>1, <1>4 DEF Digits, Damaged
  <2>2. Total(b, e) = Total(b, a)
    <3>1. /\ e[1] = a[1] /\ e[2] = a[2] /\ e[3] = a[3] /\ e[4] = a[4] /\ e[5] = a[5]
          /\ e[6] = a[6] /\ e[7] = a[7] /\ e[8] = a[8] /\ e[9] = a[9]
      BY <1>1, <1>4 DEF Digits, Damaged
    <3>. QED  BY <3>1, Zenon DEF Total
  <2>. QED  BY <1>3, <1>4, <2>1, <2>2, Zenon
<1>5. CASE k \in 1 .. 9
  <2>1. e[10] = a[10]
    BY <1>1, <1>5 DEF Digits, Damaged
  <2>2. a[k] \in 0 .. 9 /\ AccountWeights[k] \in {3, 7}
    BY <1>1, <1>5 DEF Digits, AccountWeights
  <2>. DEFINE rest == Total(b, a) - AccountWeights[k] * a[k]
  <2>3. rest \in Int /\ Total(b, a) = rest + AccountWeights[k] * a[k]
        /\ Total(b, e) = rest + AccountWeights[k] * x
    <3>1. Total(b, e) = Total(b, a) - AccountWeights[k] * a[k] + AccountWeights[k] * x
      BY <1>1, <1>5, DamagedTotal
    <3>. QED  BY <1>3, <2>2, <3>1
  <2>. HIDE DEF rest
  <2>4. Total(b, e) % 10 = Total(b, a) % 10 => a[k] = x
    BY <2>2, <2>3, OneDigitOfTen
  <2>5. Check(Total(b, e)) = Check(Total(b, a)) => Total(b, e) % 10 = Total(b, a) % 10
    BY <1>3, CheckTellsSum
  <2>6. a[k] = x => Total(b, e) = Total(b, a)
    BY <2>3
  <2>. QED  BY <1>3, <2>1, <2>4, <2>5, <2>6, Zenon
<1>6. k = 10 \/ k \in 1 .. 9
  OBVIOUS
<1>. QED  BY <1>4, <1>5, <1>6, Zenon

\* One digit changed in an account number of a bank that is known does not pass,
\* whichever digit of whichever number (nubanCheckDigit 68).
THEOREM EveryDamageCaught ==
    ASSUME \A i \in Presented : i.what = "number" => LegibleNumber(i)
    PROVE  Reading!Spec => []Reading!DamageIsCaught
<1>1. ReadingInv => Reading!DamageIsCaught
  <2>. SUFFICES ASSUME ReadingInv, Reading!Has("number") PROVE s2[1] <=> s1.damaged = 0
    BY Zenon DEF Reading!DamageIsCaught
  <2>1. s2 = <<Reading!IsValidNuban(s1.bank, s1.account)>> /\ LegibleNumber(s1)
    BY Zenon DEF ReadingInv, Reading!Has
  <2>2. PICK a \in Digits(10), k \in 1 .. 10, x \in 0 .. 9 :
           /\ Numbered(s1.bank, a) /\ s1.account = Damaged(a, k, x)
           /\ s1.damaged = IF a[k] = x THEN 0 ELSE 1
    BY <2>1, Zenon DEF LegibleNumber
  <2>3. s2[1] = Reading!IsValidNuban(s1.bank, s1.account)
    BY <2>1
  <2>4. Reading!IsValidNuban(s1.bank, s1.account) <=> a[k] = x
    <3>1. Reading!IsValidNuban(s1.bank, Damaged(a, k, x)) <=> a[k] = x
      BY <2>2, OneDigitTells
    <3>. QED  BY <2>2, <3>1, Zenon
  <2>5. s1.damaged = 0 <=> a[k] = x
    BY <2>2
  <2>. QED  BY <2>3, <2>4, <2>5, Zenon
<1>. QED  BY <1>1, ReadingAnswers, PTL

-----------------------------------------------------------------------------
(* The periods that are offered. *)

\* The first day of a month, the months counted on over the ends of years.
MonthAt(x) == Reading!Utc(x \div 12, x % 12, 1)

LEMMA MonthAtGrows ==
    ASSUME NEW x \in Int, NEW z \in Int, x <= z
    PROVE  MonthAt(x) \in Int /\ MonthAt(z) \in Int /\ MonthAt(x) <= MonthAt(z)
<1>1. /\ x \div 12 \in Int /\ z \div 12 \in Int /\ x % 12 \in 0 .. 12 /\ z % 12 \in 0 .. 12
      /\ x \div 12 < z \div 12 \/ (x \div 12 = z \div 12 /\ x % 12 <= z % 12)
  OBVIOUS
<1>. QED  BY <1>1, MonthsOrder, MonthStarts DEF MonthAt

LEMMA MonthCounted ==
    ASSUME NEW y \in Int, NEW m \in 0 .. 12
    PROVE  Reading!Utc(y, m, 1) = MonthAt(12 * y + m)
<1>. DEFINE x == 12 * y + m
<1>1. CASE m = 12
  <2>1. x \div 12 = y + 1 /\ x % 12 = 0
    BY <1>1
  <2>. HIDE DEF x
  <2>2. Reading!Utc(y, 12, 1) = Reading!Utc(y + 1, 0, 1)
    <3>1. 1 \in Int
      OBVIOUS
    <3>. QED  BY <3>1, NextYear
  <2>3. MonthAt(x) = Reading!Utc(y + 1, 0, 1)
    BY <2>1 DEF MonthAt
  <2>. QED  BY <1>1, <2>2, <2>3 DEF x
<1>2. CASE m < 12
  <2>1. x \div 12 = y /\ x % 12 = m
    BY <1>2
  <2>. HIDE DEF x
  <2>2. MonthAt(x) = Reading!Utc(y, m, 1)
    BY <2>1 DEF MonthAt
  <2>. QED  BY <2>2 DEF x
<1>. QED  BY <1>1, <1>2

\* The periods of a frequency, counted; and the months in one.
Frequencies == {"QUARTERLY", "MONTHLY", "ANNUAL"}
Months(f) == IF f = "QUARTERLY" THEN 3 ELSE IF f = "MONTHLY" THEN 1 ELSE 12
At(f, k) == IF f = "QUARTERLY" THEN Reading!Period(k \div 4, (k % 4) + 1, 0)
            ELSE IF f = "MONTHLY" THEN Reading!Period(k \div 12, 0, (k % 12) + 1)
            ELSE Reading!Period(k, 0, 0)

LEMMA PeriodCounted ==
    ASSUME NEW p, IsPeriod(p)
    PROVE  /\ Reading!PeriodStart(p) = MonthAt(12 * p.year + From(p))
           /\ Reading!PeriodEnd(p) = MonthAt(12 * p.year + To(p)) - 1
<1>1. p.year \in Int /\ From(p) \in 0 .. 12 /\ To(p) \in 0 .. 12
  BY PeriodMonths
<1>2. /\ Reading!Utc(p.year, From(p), 1) = MonthAt(12 * p.year + From(p))
      /\ Reading!Utc(p.year, To(p), 1) = MonthAt(12 * p.year + To(p))
  BY <1>1, MonthCounted
<1>. QED  BY <1>2, PeriodSpan

LEMMA PeriodAt ==
    ASSUME NEW f \in Frequencies, NEW k \in Int
    PROVE  /\ Reading!PeriodStart(At(f, k)) = MonthAt(Months(f) * k)
           /\ Reading!PeriodEnd(At(f, k)) = MonthAt(Months(f) * k + Months(f)) - 1
<1>. DEFINE p == At(f, k)
            y == p.year
<1>1. CASE f = "QUARTERLY"
  <2>1. p = [year |-> k \div 4, quarter |-> (k % 4) + 1, month |-> 0]
    BY <1>1 DEF At, Reading!Period
  <2>2. k \div 4 \in Int /\ k % 4 \in 0 .. 3 /\ k = 4 * (k \div 4) + (k % 4)
    OBVIOUS
  <2>. HIDE DEF p
  <2>3. IsPeriod(p) /\ y = k \div 4 /\ From(p) = 3 * (k % 4) /\ To(p) = 3 * (k % 4) + 3
    BY <2>1, <2>2 DEF IsPeriod, From, To
  <2>4. 12 * y + From(p) = 3 * k /\ 12 * y + To(p) = 3 * k + 3
    BY <2>2, <2>3
  <2>5. Reading!PeriodStart(p) = MonthAt(3 * k) /\ Reading!PeriodEnd(p) = MonthAt(3 * k + 3) - 1
    BY <2>3, <2>4, PeriodCounted
  <2>6. Months(f) = 3
    BY <1>1 DEF Months
  <2>. QED  BY <2>5, <2>6 DEF p
<1>2. CASE f = "MONTHLY"
  <2>1. p = [year |-> k \div 12, quarter |-> 0, month |-> (k % 12) + 1]
    BY <1>2 DEF At, Reading!Period
  <2>2. k \div 12 \in Int /\ k % 12 \in 0 .. 11 /\ k = 12 * (k \div 12) + (k % 12)
    OBVIOUS
  <2>. HIDE DEF p
  <2>3. IsPeriod(p) /\ y = k \div 12 /\ From(p) = k % 12 /\ To(p) = (k % 12) + 1
    BY <2>1, <2>2 DEF IsPeriod, From, To
  <2>4. 12 * y + From(p) = 1 * k /\ 12 * y + To(p) = 1 * k + 1
    BY <2>2, <2>3
  <2>5. Reading!PeriodStart(p) = MonthAt(1 * k) /\ Reading!PeriodEnd(p) = MonthAt(1 * k + 1) - 1
    BY <2>3, <2>4, PeriodCounted
  <2>6. Months(f) = 1
    BY <1>2 DEF Months
  <2>. QED  BY <2>5, <2>6 DEF p
<1>3. CASE f = "ANNUAL"
  <2>1. p = [year |-> k, quarter |-> 0, month |-> 0]
    BY <1>3 DEF At, Reading!Period
  <2>. HIDE DEF p
  <2>3. IsPeriod(p) /\ y = k /\ From(p) = 0 /\ To(p) = 12
    BY <2>1 DEF IsPeriod, From, To
  <2>4. 12 * y + From(p) = 12 * k /\ 12 * y + To(p) = 12 * k + 12
    BY <2>3
  <2>5. Reading!PeriodStart(p) = MonthAt(12 * k) /\ Reading!PeriodEnd(p) = MonthAt(12 * k + 12) - 1
    BY <2>3, <2>4, PeriodCounted
  <2>6. Months(f) = 12
    BY <1>3 DEF Months
  <2>. QED  BY <2>5, <2>6 DEF p
<1>. QED  BY <1>1, <1>2, <1>3 DEF Frequencies

\* Periods follow each other without a gap, and each ends before the next.
LEMMA PeriodsFollow ==
    ASSUME NEW f \in Frequencies, NEW k \in Int, NEW n \in Int, k < n
    PROVE  /\ Reading!PeriodEnd(At(f, k)) + 1 = Reading!PeriodStart(At(f, k + 1))
           /\ Reading!PeriodEnd(At(f, k)) \in Int /\ Reading!PeriodStart(At(f, n)) \in Int
           /\ Reading!PeriodEnd(At(f, k)) < Reading!PeriodStart(At(f, n))
<1>1. Months(f) \in {1, 3, 12}
  BY DEF Months
<1>. DEFINE w == Months(f)
<1>2. w * k \in Int /\ w * k + w \in Int /\ w * n \in Int /\ w * k + w <= w * n /\ w * (k + 1) = w * k + w
  <2>1. CASE w = 1
    BY <2>1
  <2>2. CASE w = 3
    BY <2>2
  <2>3. CASE w = 12
    BY <2>3
  <2>. QED  BY <1>1, <2>1, <2>2, <2>3
<1>. HIDE DEF w
<1>3. /\ Reading!PeriodEnd(At(f, k)) = MonthAt(w * k + w) - 1
      /\ Reading!PeriodStart(At(f, n)) = MonthAt(w * n)
      /\ Reading!PeriodStart(At(f, k + 1)) = MonthAt(w * (k + 1))
  <2>1. k + 1 \in Int
    OBVIOUS
  <2>. QED  BY <2>1, PeriodAt DEF w
<1>4. MonthAt(w * k + w) \in Int /\ MonthAt(w * n) \in Int /\ MonthAt(w * k + w) <= MonthAt(w * n)
  BY <1>2, MonthAtGrows
<1>. QED  BY <1>2, <1>3, <1>4

\* The period of a day, and where it is counted.
Index(f, y, m) == IF f = "QUARTERLY" THEN (12 * y + m - 1) \div 3
                  ELSE IF f = "MONTHLY" THEN 12 * y + m - 1 ELSE y

LEMMA TodaysPeriod ==
    ASSUME NEW f \in Frequencies, NEW y \in Int, NEW m \in 1 .. 12, NEW d \in 1 .. Reading!DaysIn(y, m)
    PROVE  /\ Index(f, y, m) \in Int
           /\ At(f, Index(f, y, m)) = Reading!Period(y, IF f = "QUARTERLY" THEN (m + 2) \div 3 ELSE 0,
                                                        IF f = "MONTHLY" THEN m ELSE 0)
           /\ Reading!PeriodStart(At(f, Index(f, y, m))) <= Reading!DayNumber(<<y, m, d>>)
           /\ Reading!DayNumber(<<y, m, d>>) \in Int
<1>. DEFINE x == 12 * y + (m - 1)
            k == Index(f, y, m)
<1>1. 12 * y + m - 1 = x /\ x \in Int
  OBVIOUS
<1>2. k \in Int /\ Months(f) * k \in Int /\ Months(f) * k <= x
  <2>1. CASE f = "QUARTERLY"
    <3>1. Months(f) = 3 /\ k = x \div 3
      BY <1>1, <2>1 DEF Months, Index
    <3>. QED  BY <1>1, <3>1
  <2>2. CASE f = "MONTHLY"
    <3>1. Months(f) = 1 /\ k = x
      BY <1>1, <2>2 DEF Months, Index
    <3>. QED  BY <1>1, <3>1
  <2>3. CASE f = "ANNUAL"
    <3>1. Months(f) = 12 /\ k = y
      BY <2>3 DEF Months, Index
    <3>. QED  BY <3>1
  <2>. QED  BY <2>1, <2>2, <2>3 DEF Frequencies
<1>3. At(f, k) = Reading!Period(y, IF f = "QUARTERLY" THEN (m + 2) \div 3 ELSE 0, IF f = "MONTHLY" THEN m ELSE 0)
  <2>1. CASE f = "QUARTERLY"
    <3>1. k = x \div 3
      BY <1>1, <2>1 DEF Index
    <3>2. k \div 4 = y /\ (k % 4) + 1 = (m + 2) \div 3
      BY <3>1
    <3>. QED  BY <2>1, <3>2, Zenon DEF At
  <2>2. CASE f = "MONTHLY"
    <3>1. k = x
      BY <1>1, <2>2 DEF Index
    <3>2. k \div 12 = y /\ (k % 12) + 1 = m
      BY <3>1
    <3>3. f # "QUARTERLY"
      BY <2>2
    <3>. QED  BY <2>2, <3>2, <3>3, Zenon DEF At
  <2>3. CASE f = "ANNUAL"
    <3>1. k = y /\ f # "QUARTERLY" /\ f # "MONTHLY"
      BY <2>3 DEF Index
    <3>. QED  BY <2>3, <3>1, Zenon DEF At
  <2>. QED  BY <2>1, <2>2, <2>3 DEF Frequencies
<1>4. MonthAt(x) <= Reading!DayNumber(<<y, m, d>>) /\ Reading!DayNumber(<<y, m, d>>) \in Int
  <2>1. m - 1 \in 0 .. 12
    OBVIOUS
  <2>2. Reading!Utc(y, m - 1, 1) = MonthAt(x)
    BY <2>1, MonthCounted
  <2>. QED  BY <2>2, DayInMonth
<1>. HIDE DEF x, k
<1>5. Reading!PeriodStart(At(f, k)) = MonthAt(Months(f) * k)
  BY <1>2, PeriodAt
<1>6. MonthAt(Months(f) * k) \in Int /\ MonthAt(x) \in Int /\ MonthAt(Months(f) * k) <= MonthAt(x)
  <2>1. x \in Int
    BY <1>1
  <2>. QED  BY <1>2, <2>1, MonthAtGrows
<1>7. Reading!PeriodStart(At(f, k)) <= Reading!DayNumber(<<y, m, d>>)
  BY <1>4, <1>5, <1>6
<1>. QED  BY <1>2, <1>3, <1>4, <1>7 DEF k

\* What the upload assistant lists: the periods before today's, latest first.
Count(f) == IF f = "QUARTERLY" THEN 6 ELSE IF f = "MONTHLY" THEN 12 ELSE 3

LEMMA ListedAre ==
    ASSUME NEW f \in Frequencies, NEW y \in Int, NEW m \in 1 .. 12, NEW d
    PROVE  /\ DOMAIN Reading!EndedPeriods(f, <<y, m, d>>) = 1 .. Count(f)
           /\ \A i \in 1 .. Count(f) : Reading!EndedPeriods(f, <<y, m, d>>)[i] = At(f, Index(f, y, m) - i)
<1>. DEFINE month == 12 * <<y, m, d>>[1] + <<y, m, d>>[2] - 1
            L == Reading!EndedPeriods(f, <<y, m, d>>)
<1>1. month = 12 * y + m - 1
  OBVIOUS
<1>. HIDE DEF month
<1>2. CASE f = "QUARTERLY"
  <2>1. L = [i \in 1 .. 6 |-> Reading!Period(((month \div 3) - i) \div 4, (((month \div 3) - i) % 4) + 1, 0)]
    BY <1>2, Zenon DEF Reading!EndedPeriods, month
  <2>2. Index(f, y, m) = month \div 3 /\ Count(f) = 6
    BY <1>1, <1>2 DEF Index, Count
  <2>. QED  BY <1>2, <2>1, <2>2, Zenon DEF At
<1>3. CASE f = "MONTHLY"
  <2>1. L = [i \in 1 .. 12 |-> Reading!Period((month - i) \div 12, 0, ((month - i) % 12) + 1)]
    BY <1>3 DEF Reading!EndedPeriods, month
  <2>2. Index(f, y, m) = month /\ Count(f) = 12 /\ f # "QUARTERLY"
    BY <1>1, <1>3 DEF Index, Count
  <2>. QED  BY <1>3, <2>1, <2>2, Zenon DEF At
<1>4. CASE f = "ANNUAL"
  <2>1. L = [i \in 1 .. 3 |-> Reading!Period(y - i, 0, 0)]
    BY <1>4 DEF Reading!EndedPeriods
  <2>2. Index(f, y, m) = y /\ Count(f) = 3 /\ f # "QUARTERLY" /\ f # "MONTHLY"
    BY <1>4 DEF Index, Count
  <2>. QED  BY <2>1, <2>2, Zenon DEF At
<1>. QED  BY <1>2, <1>3, <1>4 DEF Frequencies

LEMMA LeastNumber ==
    ASSUME NEW S \in SUBSET Nat, S # {}
    PROVE  \E x \in S : \A z \in S : x <= z
<1>1. PICK x \in S : \A z \in S : <<z, x>> \notin OpToRel(<, Nat)
  BY NatLessThanWellFounded, WFMin, Zenon
<1>2. \A z \in S : ~(z < x)
  BY <1>1 DEF OpToRel
<1>. QED  BY <1>2

\* What the uploader sends has ended, when any of its year has.
LEMMA SentHasEnded ==
    ASSUME NEW f \in {"QUARTERLY", "MONTHLY"}, NEW y \in Int, NEW choice, NEW today \in Int,
           Reading!Offered(f, y, today) # {}
    PROVE  Reading!PeriodHasEnded(Reading!Chosen(f, y, choice, today), today)
<1>. DEFINE on == Reading!Offered(f, y, today)
            k == IF on = {} \/ choice \in on THEN choice ELSE CHOOSE n \in on : \A o \in on : o <= n
<1>1. on \in SUBSET (1 .. 12)
  BY DEF Reading!Offered
<1>2. \E n \in on : \A o \in on : o <= n
  <2>. DEFINE back == {12 - n : n \in on}
  <2>1. back \in SUBSET Nat /\ back # {}
    BY <1>1
  <2>2. PICK b \in back : \A c \in back : b <= c
    BY <2>1, LeastNumber
  <2>3. PICK n \in on : b = 12 - n
    BY <2>2
  <2>4. ASSUME NEW o \in on PROVE o <= n
    <3>1. 12 - n <= 12 - o
      BY <2>2, <2>3
    <3>. QED  BY <1>1, <3>1
  <2>. QED  BY <2>3, <2>4
<1>3. k \in on
  BY <1>2
<1>. HIDE DEF on, k
<1>4. CASE f = "QUARTERLY"
  <2>1. Reading!Chosen(f, y, choice, today) = Reading!Period(y, k, 0)
    BY <1>4, Zenon DEF Reading!Chosen, on, k
  <2>2. k \in 1 .. 4 /\ Reading!Utc(y, k * 3, 1) <= today
    BY <1>3, <1>4, Zenon DEF Reading!Offered, on
  <2>3. 3 * k \in 0 .. 12 /\ k * 3 = 3 * k
    BY <2>2
  <2>4. IsPeriod(Reading!Period(y, k, 0)) /\ Reading!Period(y, k, 0).year = y /\ To(Reading!Period(y, k, 0)) = 3 * k
    BY <2>2 DEF IsPeriod, Reading!Period, To
  <2>5. Reading!PeriodEnd(Reading!Period(y, k, 0)) = Reading!Utc(y, 3 * k, 1) - 1 /\ Reading!Utc(y, 3 * k, 1) \in Int
    BY <2>3, <2>4, PeriodSpan, MonthStarts
  <2>. QED  BY <2>1, <2>2, <2>3, <2>5 DEF Reading!PeriodHasEnded
<1>5. CASE f = "MONTHLY"
  <2>1. Reading!Chosen(f, y, choice, today) = Reading!Period(y, 0, k)
    BY <1>5 DEF Reading!Chosen, on, k
  <2>2. k \in 1 .. 12 /\ Reading!Utc(y, k, 1) <= today
    <3>1. f # "QUARTERLY"
      BY <1>5
    <3>. QED  BY <1>3, <3>1, Zenon DEF Reading!Offered, on
  <2>3. k \in 0 .. 12
    BY <2>2
  <2>4. IsPeriod(Reading!Period(y, 0, k)) /\ Reading!Period(y, 0, k).year = y /\ To(Reading!Period(y, 0, k)) = k
    BY <2>2 DEF IsPeriod, Reading!Period, To
  <2>5. Reading!PeriodEnd(Reading!Period(y, 0, k)) = Reading!Utc(y, k, 1) - 1 /\ Reading!Utc(y, k, 1) \in Int
    BY <2>3, <2>4, PeriodSpan, MonthStarts
  <2>. QED  BY <2>1, <2>2, <2>5 DEF Reading!PeriodHasEnded
<1>. QED  BY <1>4, <1>5

LegiblePick(i) == i.freq \in Frequencies /\ i.date \in Reading!Dates(Int) /\ i.year \in Int

\* On every day of every year: what the pages offer is what the server takes
\* (SubmissionUploader 55, UploadAssistant 16, against periodHasEnded 815).
THEOREM EveryPickerMatches ==
    ASSUME \A i \in Presented : i.what = "pick" => LegiblePick(i)
    PROVE  Reading!Spec => []Reading!PickersMatchTheServer
<1>1. ReadingInv => Reading!PickersMatchTheServer
  <2>. SUFFICES ASSUME ReadingInv, Reading!Has("pick") PROVE Reading!PickersMatchTheServer
    BY Zenon DEF Reading!PickersMatchTheServer
  <2>. DEFINE f == s1.freq
              y == s1.date[1]
              m == s1.date[2]
              d == s1.date[3]
              today == Reading!DayNumber(s1.date)
              listed == Reading!EndedPeriods(f, s1.date)
              sent == Reading!Chosen(f, s1.year, s1.choice, today)
              k == Index(f, y, m)
              month == Reading!Period(y, IF f = "QUARTERLY" THEN (m + 2) \div 3 ELSE 0, IF f = "MONTHLY" THEN m ELSE 0)
  <2>1. s2 = <<[listed |-> listed, sent |-> sent]>> /\ LegiblePick(s1)
    BY Zenon DEF ReadingInv, Reading!Has
  <2>2. s2[1].listed = listed /\ s2[1].sent = sent
    BY <2>1
  <2>3. /\ f \in Frequencies /\ s1.year \in Int /\ s1.date = <<y, m, d>> /\ y \in Int /\ m \in 1 .. 12
        /\ d \in 1 .. Reading!DaysIn(y, m)
    BY <2>1, DateParts DEF LegiblePick
  <2>4. k \in Int /\ At(f, k) = month /\ Reading!PeriodStart(At(f, k)) <= today /\ today \in Int
    BY <2>3, TodaysPeriod
  <2>5. DOMAIN listed = 1 .. Count(f) /\ \A i \in 1 .. Count(f) : listed[i] = At(f, k - i)
    <3>. HIDE DEF y, m, d
    <3>1. /\ DOMAIN Reading!EndedPeriods(f, <<y, m, d>>) = 1 .. Count(f)
          /\ \A i \in 1 .. Count(f) : Reading!EndedPeriods(f, <<y, m, d>>)[i] = At(f, k - i)
      BY <2>3, ListedAre
    <3>. QED  BY <2>3, <3>1, Zenon
  <2>6. Count(f) \in Nat
    BY DEF Count
  <2>. HIDE DEF f, listed, sent, k, month, today
  <2>7. ASSUME NEW i \in DOMAIN listed
        PROVE  /\ Reading!PeriodHasEnded(listed[i], today)
               /\ Reading!PeriodEnd(listed[i]) + 1 = Reading!PeriodStart(IF i = 1 THEN month ELSE listed[i - 1])
    <3>1. i \in 1 .. Count(f) /\ listed[i] = At(f, k - i) /\ k - i \in Int /\ k - i < k /\ k - i + 1 \in Int
      BY <2>4, <2>5, <2>6
    <3>2. /\ Reading!PeriodEnd(At(f, k - i)) + 1 = Reading!PeriodStart(At(f, k - i + 1))
          /\ Reading!PeriodEnd(At(f, k - i)) \in Int /\ Reading!PeriodStart(At(f, k)) \in Int
          /\ Reading!PeriodEnd(At(f, k - i)) < Reading!PeriodStart(At(f, k))
      BY <2>3, <2>4, <3>1, PeriodsFollow DEF f
    <3>3. Reading!PeriodHasEnded(listed[i], today)
      BY <2>4, <3>1, <3>2 DEF Reading!PeriodHasEnded
    <3>4. At(f, k - i + 1) = IF i = 1 THEN month ELSE listed[i - 1]
      <4>1. CASE i = 1
        <5>1. k - i + 1 = k
          BY <2>4, <4>1
        <5>. QED  BY <2>4, <4>1, <5>1
      <4>2. CASE i # 1
        <5>1. i - 1 \in 1 .. Count(f) /\ k - i + 1 = k - (i - 1)
          BY <2>4, <2>6, <3>1, <4>2
        <5>. QED  BY <2>5, <4>2, <5>1
      <4>. QED  BY <4>1, <4>2
    <3>. QED  BY <3>1, <3>2, <3>3, <3>4
  <2>8. \/ Reading!PeriodHasEnded(sent, today)
        \/ f = "ANNUAL" \/ Reading!Offered(f, s1.year, today) = {}
    <3>. SUFFICES ASSUME f # "ANNUAL", Reading!Offered(f, s1.year, today) # {}
                  PROVE  Reading!PeriodHasEnded(sent, today)
      OBVIOUS
    <3>1. f \in {"QUARTERLY", "MONTHLY"}
      BY <2>3 DEF Frequencies, f
    <3>. QED  BY <2>3, <2>4, <3>1, SentHasEnded DEF sent
  <2>. QED  BY <2>2, <2>7, <2>8, Zenon DEF Reading!PickersMatchTheServer, f, y, m, today, month
<1>. QED  BY <1>1, ReadingAnswers, PTL
=============================================================================
