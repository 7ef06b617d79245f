------------------------------ MODULE RiskAgents ------------------------------
(* The analytics agents (agents/implementations), the run that lets them loose *)
(* on every profile and fuses their scores into the cases (agents.service.ts), *)
(* and the document a case officer uploads (cases.service.ts).  Amounts are    *)
(* millions; scores, shares and confidences are percentages, rounded down.     *)
EXTENDS Integers, Sequences, FiniteSets, FiniteSetsExt, SequencesExt

CONSTANTS
    Taxpayers,
    Profiles,    \* what may be on file: [rows, declared], the rows in any order
    Sectors,     \* the sectors, in the order the agent ranks them
    Hits,        \* Hits[name][sector], keywords of a sector in an account's name, halved
    Tokens,      \* Tokens[name], the words of a name once titles are dropped
    Likeness,    \* Likeness[word][word]: phonetic or by edit distance
    Peers,       \* inflows of the other profiles: a sequence of [sector, inflow]
    Threshold,   \* section29Thresholds of the party's type
    RoundBases,  \* ROUND_BASES
    Confidences, \* the confidences a scan may come to
    Documents    \* what a document says of income (in reading order) and disposals

VARIABLES
    profile,     \* per taxpayer: the rows and the declaration on file
    sector,      \* per taxpayer: [name, given], or None
    signals,     \* risk_signals: per taxpayer and agent a score, or Silent
    cases,       \* per taxpayer: confidence, agent score and risk; no case has
                 \* the confidence Silent
    run,         \* agents.run: what it has read and how far it has come
    overlapped   \* history: a return came in under a run
vars == <<profile, sector, signals, cases, run, overlapped>>

Eng == INSTANCE DetectionEngine

None   == [name |-> "none", given |-> FALSE]
Silent == -1
Agents == <<"pattern", "matching", "sector", "behavioural", "predictive">>
AgentKeys == ToSet(Agents) \cup {"document"}

NoRun == [pc |-> "idle"]
TypeOK ==
    /\ \A t \in Taxpayers : profile[t] \in Profiles
    /\ \A t \in Taxpayers : sector[t].name \in ToSet(Sectors) \cup {"OTHER", "none"}
    /\ signals \in [Taxpayers -> [AgentKeys -> {Silent} \cup 0 .. 100]]
    /\ \A t \in Taxpayers : /\ {cases[t].confidence, cases[t].agents} \subseteq {Silent} \cup 0 .. 100
                            /\ cases[t].risk \in 1 .. 4
    /\ run.pc \in {"idle", "sectors", "signals", "fuse"}

Init ==
    /\ profile \in [Taxpayers -> Profiles]
    /\ sector = [t \in Taxpayers |-> None]
    /\ signals = [t \in Taxpayers |-> [a \in AgentKeys |-> Silent]]
    /\ cases = [t \in Taxpayers |-> [confidence |-> Silent, agents |-> Silent, risk |-> 1]]
    /\ run = NoRun
    /\ overlapped = FALSE

Clamp(n) == Eng!Within(n, 0, 100)
Pct(part, whole) == (100 * part) \div whole
Times(p, q) == (p * q) \div 100
SumOver(rows, Of(_)) == MapThenSumSet(LAMBDA i : Of(rows[i]), DOMAIN rows)
TotalInflow(rows) == SumOver(rows, LAMBDA r : r.inflow)
Greatest(s) == IF s = {} THEN 0 ELSE Max(s)

\* What is below its mark is not raised.
Raised(score, least) == IF score < least THEN Silent ELSE score

\* severityFor
Severity(score) == IF score >= 66 THEN "HIGH" ELSE IF score >= 33 THEN "MEDIUM" ELSE "LOW"

-----------------------------------------------------------------------------
\* Behavioural analytics.  Inflow by period, in the order of periodOrder.
Periods(rows) == SetToSortSeq({rows[i].order : i \in DOMAIN rows}, LAMBDA a, b : a < b)
Inflow(rows, ps) == SumOver(rows, LAMBDA r : IF r.order \in ps THEN r.inflow ELSE 0)

\* Mutant: the year is halved by row, not by period.
HalfOfRows(rows) == {rows[i].order : i \in (Len(rows) \div 2) + 1 .. Len(rows)}

SecondHalf(rows) ==
    LET p == Periods(rows) IN {p[i] : i \in (Len(p) \div 2) + 1 .. Len(p)}

\* normalisedInflowSlope, as far as it rises.
Slope(rows) ==
    LET second == Inflow(rows, SecondHalf(rows))
        first  == TotalInflow(rows) - second
    IN IF Len(Periods(rows)) < 2 \/ first + second = 0 THEN 0
       ELSE Clamp(Pct(second - first, first + second))

\* The coefficient of variation of the inflow by period.
Root(n) == CHOOSE r \in 0 .. n : r * r <= n /\ n < (r + 1) * (r + 1)
Variation(rows) ==
    LET p == Periods(rows)
        squares == MapThenSumSet(LAMBDA i : Inflow(rows, {p[i]}) * Inflow(rows, {p[i]}), DOMAIN p)
        total   == TotalInflow(rows)
    IN IF total = 0 THEN 0 ELSE Pct(Root(Len(p) * squares - total * total), total)

\* detectNewHighValueProvider: of the banks first seen past the middle of the time
\* observed, the share of the largest, when it is a fifth or more.
NewBankShare(rows) ==
    LET orders == {rows[i].order : i \in DOMAIN rows}
        Of(b) == {i \in DOMAIN rows : rows[i].bank = b}
        Late(b) == 2 * Min({rows[i].order : i \in Of(b)}) > Min(orders) + Max(orders)
        Share(b) == Pct(MapThenSumSet(LAMBDA i : rows[i].inflow, Of(b)), TotalInflow(rows))
    IN Greatest({s \in {Share(b) : b \in {x \in {rows[i].bank : i \in DOMAIN rows} : Late(x)}} : s >= 20})

\* passThroughRatio: from the opening balance of the first row to the closing balance
\* of the last; of rows of one period, in the order they were fetched.
PassThrough(rows) ==
    LET orders == {rows[i].order : i \in DOMAIN rows}
        first == Min({i \in DOMAIN rows : rows[i].order = Min(orders)})
        last  == Max({i \in DOMAIN rows : rows[i].order = Max(orders)})
        net   == rows[last].close - rows[first].open
    IN Clamp(100 - Pct(IF net < 0 THEN -net ELSE net, TotalInflow(rows)))

\* underDeclarationFactor: nothing once the declarations cover 60% of the inflow.
\* Mutant: a declaration counts against the taxpayer.
OverDeclared(p) == Clamp((Pct(p.declared, TotalInflow(p.rows)) * 10) \div 6)

UnderDeclared(p) == Clamp(100 - (Pct(p.declared, TotalInflow(p.rows)) * 10) \div 6)

Components(p) ==
    LET several == Len(Periods(p.rows)) >= 2
    IN <<[score |-> Clamp(Times(Slope(p.rows), 40 + Times(60, UnderDeclared(p)))), weight |-> 40, usable |-> several],
         [score |-> NewBankShare(p.rows), weight |-> 25, usable |-> NewBankShare(p.rows) > 0],
         [score |-> Clamp((2 * Variation(p.rows)) \div 3), weight |-> 20, usable |-> several],
         [score |-> Times(PassThrough(p.rows), UnderDeclared(p)), weight |-> 15,
          usable |-> \E i \in DOMAIN p.rows : p.rows[i].balances]>>

\* Mutant: what has no data counts, with nothing.
UsableAll(c) == c

\* The components with data, their weights made up to the whole.
Usable(c) == SelectSeq(c, LAMBDA x : x.usable)
Blend(c) ==
    LET weight == SumOver(c, LAMBDA x : x.weight)
    IN IF weight = 0 THEN 0 ELSE SumOver(c, LAMBDA x : x.score * x.weight) \div weight

BehaviouralScore(p) ==
    IF TotalInflow(p.rows) = 0 THEN Silent
    ELSE Raised(Blend(Usable(Components(p))), 20)

-----------------------------------------------------------------------------
\* Pattern detection: just below the threshold, and suspiciously round.
Proximity(v) ==
    IF v <= 0 \/ v >= Threshold \/ 20 * v < 19 * Threshold THEN 0
    ELSE Clamp(Pct(20 * v - 19 * Threshold, Threshold))
IsRound(v, base) == v >= base /\ \E k \in 1 .. v :
    LET off == v - k * base IN 1000 * (IF off < 0 THEN -off ELSE off) <= 5 * base
RoundBase(v) == Greatest({b \in RoundBases : IsRound(v, b)})
Bonus(n, each, cap) == IF n > 1 THEN Eng!Least(cap, each * (n - 1)) ELSE 0

RoundStrength(v) ==
    IF RoundBase(v) = 0 THEN 0
    ELSE 30 + Times(Times(70, Pct(RoundBase(v), Max(RoundBases))), 50 + Clamp(Pct(v, Threshold)) \div 2)
PatternScore(p) ==
    LET inflows == {p.rows[i].inflow : i \in DOMAIN p.rows} \cup {TotalInflow(p.rows)}
        Count(Of(_)) == Cardinality({i \in DOMAIN p.rows : Of(p.rows[i].inflow) > 0})
        near  == Clamp(Times(Greatest({Proximity(v) : v \in inflows}), 85) + Bonus(Count(Proximity), 10, 20))
        round == Clamp(Greatest({RoundStrength(v) : v \in inflows}) + Bonus(Count(RoundBase), 7, 15))
        score == Clamp(Eng!Greatest(near, round) + Eng!Least(near, round) \div 4)
    IN IF score <= 0 THEN Silent ELSE score

-----------------------------------------------------------------------------
\* Matching.  nameSimilarity: the words of the shorter name are paired, in their
\* order, each with the best word of the other that is left.
NameSimilarity(a, b) ==
    LET short == IF Len(Tokens[a]) <= Len(Tokens[b]) THEN Tokens[a] ELSE Tokens[b]
        long  == IF short = Tokens[a] THEN Tokens[b] ELSE Tokens[a]
        Pair(acc, w) ==
            LET left == DOMAIN long \ acc.used
                best == Greatest({Likeness[w][long[i]] : i \in left})
                hit  == {i \in left : best > 0 /\ Likeness[w][long[i]] = best}
            IN [sum  |-> acc.sum + best,
                used |-> acc.used \cup (IF hit = {} THEN {} ELSE {Min(hit)})]
    IN IF a = b THEN 100
       ELSE FoldLeft(Pair, [sum |-> 0, used |-> {}], short).sum \div Len(long)

\* What the query returns for the number of row i: ciphertext, never twice the same,
\* unless an importer stored it in the clear.
StoredBvn(rows, i) == IF rows[i].clear THEN <<rows[i].bvn>> ELSE <<rows[i].bvn, i>>

\* sharedBvnConflicts
SharedBvn(rows) == \E i, j \in DOMAIN rows :
    /\ i < j /\ StoredBvn(rows, i) = StoredBvn(rows, j)
    /\ NameSimilarity(rows[i].name, rows[j].name) < 70

\* Weighted by the number of transactions where there are any.
MatchConfidence(rows) ==
    LET n == SumOver(rows, LAMBDA r : r.txns)
    IN IF n > 0 THEN SumOver(rows, LAMBDA r : r.match * r.txns) \div n
       ELSE SumOver(rows, LAMBDA r : r.match) \div Len(rows)
MatchingScore(p) ==
    LET scored == SelectSeq(p.rows, LAMBDA r : r.match # Silent)
    IN IF p.rows = <<>> THEN Silent
       ELSE IF scored = <<>> THEN 50
       ELSE Eng!Greatest(100 - MatchConfidence(scored), IF SharedBvn(p.rows) THEN 80 ELSE 0)

-----------------------------------------------------------------------------
\* Sector classification: the sector with most hits, the first of equals; without a
\* hit a guess, when the inflow is seasonal.
HitsOf(rows, s) == SumOver(rows, LAMBDA r : Hits[r.name][s])
InferSector(rows) ==
    LET h == [k \in DOMAIN Sectors |-> HitsOf(rows, Sectors[k])]
        top == Min({k \in DOMAIN h : \A l \in DOMAIN h : h[l] <= h[k]})
        second == Greatest({h[k] : k \in DOMAIN h \ {top}})
    IN IF h[top] > 0
       THEN [name |-> Sectors[top], confidence |-> Clamp(30 + (15 * (2 * h[top] - second)) \div 2)]
       ELSE IF Variation(rows) >= 60 THEN [name |-> "TRADING", confidence |-> 20]
       ELSE [name |-> "OTHER", confidence |-> 0]

\* BenchmarkingService: medians of the profiles of the run.
Median(seq) ==
    LET s == SortSeq(seq, LAMBDA a, b : a < b)
        m == Len(s) \div 2
    IN IF s = <<>> THEN 0 ELSE IF Len(s) % 2 = 1 THEN s[m + 1] ELSE (s[m] + s[m + 1]) \div 2
Band(n) == IF n < 5 THEN 1 ELSE IF n < 50 THEN 2 ELSE IF n < 200 THEN 3 ELSE 4
MedianOf(some) == Median([i \in DOMAIN some |-> some[i].inflow])

\* The excess over the peers' median, and what of the inflow was not declared, as far
\* as the sector that was inferred is to be trusted.
SectorJudged(p, total, guess, bySector, median) ==
    LET Raw(excess, undeclared) ==
            (65 * Times(excess, undeclared) + 25 * excess + 10 * undeclared) \div 100
        trust == IF bySector > 0 THEN 60 + (2 * guess.confidence) \div 5 ELSE 55 + guess.confidence \div 4
    IN IF total = 0 \/ median = 0 THEN Silent
       ELSE Raised(Clamp(Times(Raw(Clamp((Pct(total, median) - 100) \div 4),
                                   IF p.declares THEN Clamp(100 - Pct(p.declared, total)) ELSE 100),
                               trust)), 10)
SectorAgainst(p, total, guess, bySector, byBand) ==
    SectorJudged(p, total, guess, bySector, IF bySector > 0 THEN bySector ELSE byBand)
SectorAmong(p, total, guess, all) ==
    SectorAgainst(p, total, guess,
        IF guess.name = "OTHER" THEN 0 ELSE MedianOf(SelectSeq(all, LAMBDA x : x.sector = guess.name)),
        MedianOf(SelectSeq(all, LAMBDA x : Band(x.inflow) = Band(total))))
SectorScore(p, all) == SectorAmong(p, TotalInflow(p.rows), InferSector(p.rows), all)

-----------------------------------------------------------------------------
\* Predictive compliance: what may be recovered, and how likely it is to be paid.
\* exposureSizeWeight in steps of a power of ten.
SizeWeight(e) == IF e = 0 THEN 0 ELSE IF e < 10 THEN 50 ELSE IF e < 100 THEN 66 ELSE IF e < 1000 THEN 83 ELSE 100
PredictiveScore(p) ==
    LET total == TotalInflow(p.rows)
        exposure == Eng!Greatest(0, total - p.declared)
        closing == SumOver(p.rows, LAMBDA r : r.close)
        liquidity == IF closing <= 0 THEN 0 ELSE Clamp(Pct(closing, exposure))
        banks == Cardinality({p.rows[i].bank : i \in DOMAIN p.rows})
        scored == SelectSeq(p.rows, LAMBDA r : r.match # Silent)
        match == IF scored = <<>> THEN 50 ELSE SumOver(scored, LAMBDA r : r.match) \div Len(scored)
        footprint == (Clamp(Pct(banks, 3)) + match) \div 2
        gap == IF p.declared = 0 THEN 40
               ELSE 10000 \div (100 + Pct(Eng!Greatest(0, total - p.declared), p.declared) \div 3)
        likelihood == (30 * liquidity + 20 * footprint + 25 * 45 + 25 * gap) \div 100
    IN IF exposure = 0 THEN Silent
       ELSE Eng!Greatest(Times(SizeWeight(exposure), likelihood), Times(60, SizeWeight(exposure)))

Score(agent, p, all) ==
    CASE agent = "pattern"     -> PatternScore(p)
      [] agent = "matching"    -> MatchingScore(p)
      [] agent = "sector"      -> SectorScore(p, all)
      [] agent = "behavioural" -> BehaviouralScore(p)
      [] agent = "predictive"  -> PredictiveScore(p)

-----------------------------------------------------------------------------
\* A return comes in: new rows, and perhaps the sector the provider knows of.
File(t, p, name) ==
    /\ p # profile[t]
    /\ profile' = [profile EXCEPT ![t] = p]
    /\ sector' = IF name = "none" THEN sector
                 ELSE [sector EXCEPT ![t] = [name |-> name, given |-> TRUE]]
    /\ overlapped' = (overlapped \/ run.pc # "idle")
    /\ UNCHANGED <<signals, cases, run>>

\* A scan comes to the taxpayer: the risk is that of the confidence alone.
Scan(t, confidence) ==
    /\ cases' = [cases EXCEPT ![t].confidence = confidence,
                             ![t].risk = Eng!RiskLevel(confidence)]
    /\ UNCHANGED <<profile, sector, signals, run, overlapped>>

\* Mutant: a sector that was supplied is inferred again.
AnySector(t) == TRUE

Unsettled(t) == sector[t] = None

\* The profiles and the sectors that are missing are read.
RunStart ==
    /\ run.pc = "idle"
    /\ run' = [pc |-> "sectors", profile |-> profile, sector |-> sector,
               need |-> {t \in Taxpayers : Unsettled(t)}, left |-> Taxpayers,
               said |-> [t \in Taxpayers |-> <<>>], read |-> <<>>]
    /\ UNCHANGED <<profile, sector, signals, cases, overlapped>>

Advance(t, next) ==
    IF run.left = {t} THEN [run EXCEPT !.pc = next, !.left = Taxpayers]
    ELSE [run EXCEPT !.left = @ \ {t}]

RunSector(t) ==
    /\ run.pc = "sectors" /\ t \in run.left
    /\ sector' = IF t \in run.need
                 THEN [sector EXCEPT ![t] = [name |-> InferSector(run.profile[t].rows).name, given |-> FALSE]]
                 ELSE sector
    /\ run' = Advance(t, "signals")
    /\ UNCHANGED <<profile, signals, cases, overlapped>>

\* Every agent looks at the profile; one that is silent leaves its last signal be.
\* With the last profile done, the confidences of the cases are read.
Cohort == Peers \o SetToSeq({[sector |-> run.sector[t].name, inflow |-> TotalInflow(run.profile[t].rows)] :
                              t \in Taxpayers})
RunSignals(t) ==
    /\ run.pc = "signals" /\ t \in run.left
    /\ \E score \in {[a \in ToSet(Agents) |-> Score(a, run.profile[t], Cohort)]} :
       LET loud == SelectSeq(Agents, LAMBDA a : score[a] # Silent)
       IN /\ signals' = [signals EXCEPT ![t] = [a \in AgentKeys |->
                             IF a \in ToSet(loud) THEN score[a] ELSE @[a]]]
          /\ run' = [Advance(t, "fuse") EXCEPT !.said[t] = [i \in DOMAIN loud |-> score[loud[i]]],
                         !.read = [u \in Taxpayers |-> cases[u].confidence]]
    /\ UNCHANGED <<profile, sector, cases, overlapped>>

\* The cases are updated one by one, from the confidences that were read.
RunFuse(t) ==
    /\ run.pc = "fuse" /\ t \in run.left
    /\ cases' = IF run.read[t] = Silent \/ run.said[t] = <<>> THEN cases
                ELSE [cases EXCEPT
                    ![t].agents = Eng!AgentScore(run.said[t]),
                    ![t].risk = Eng!RiskLevel(
                        Eng!Composite(run.read[t], Eng!AgentScore(run.said[t])) \div 10)]
    /\ run' = IF run.left = {t} THEN NoRun ELSE Advance(t, "fuse")
    /\ UNCHANGED <<profile, sector, signals, overlapped>>

-----------------------------------------------------------------------------
\* Document intelligence: the first number after the label, whatever it is of, set
\* against the income observed; a disposal raises a signal of its own.
Shortfall(doc, observed) ==
    IF doc.figures = <<>> \/ observed = 0 THEN 0
    ELSE Clamp(Pct(observed - Head(doc.figures), observed))
Document(t, doc) ==
    /\ cases[t].confidence # Silent
    /\ LET short == Shortfall(doc, TotalInflow(profile[t].rows))
       IN signals' = IF short <= 10 /\ doc.disposals = 0 THEN signals
                     ELSE [signals EXCEPT ![t]["document"] =
                              Eng!Greatest(short, IF doc.disposals > 0 THEN 60 ELSE 0)]
    /\ UNCHANGED <<profile, sector, cases, run, overlapped>>

Next ==
    \/ RunStart
    \/ \E t \in Taxpayers :
        \/ RunSector(t) \/ RunSignals(t) \/ RunFuse(t)
        \/ \E p \in Profiles, name \in {"none"} \cup ToSet(Sectors) : File(t, p, name)
        \/ \E c \in Confidences : Scan(t, c)
        \/ \E doc \in Documents : Document(t, doc)
Spec == Init /\ [][Next]_vars

-----------------------------------------------------------------------------
\* To have declared more never raises what behavioural analytics and the agent that
\* looks for outliers of the sector say ("AMPLIFIED when declared income is low",
\* behavioural-analytics.agent.ts 55).
MoreDeclared(p) == [p EXCEPT !.declared = @ + 1, !.declares = TRUE]
DeclaringNeverRaises == \A t \in Taxpayers :
    \A agent \in {"behavioural", "sector"} :
        Score(agent, MoreDeclared(profile[t]), Peers) <= Score(agent, profile[t], Peers)

\* The rows are fetched without an order, and the scores do not depend on it: not at
\* all, but for pass-through, which takes the opening balance of the first row of the
\* first period and the closing balance of the last of the last (buildFingerprint,
\* behavioural-analytics.agent.ts 287), so it needs those periods to have one row.
Ends(rows) == {rows[i].order : i \in DOMAIN rows}
OneRowAtTheEnds(rows) == \A o \in {Min(Ends(rows)), Max(Ends(rows))} :
    Cardinality({i \in DOMAIN rows : rows[i].order = o}) = 1
RowOrderIsImmaterial == \A t \in Taxpayers :
    LET backwards == [profile[t] EXCEPT !.rows = Reverse(@)]
    IN profile[t].rows # <<>> =>
        \A agent \in ToSet(Agents) :
            (agent = "behavioural" => OneRowAtTheEnds(profile[t].rows)) =>
                Score(agent, backwards, Peers) = Score(agent, profile[t], Peers)

\* The blend of the components that have data lies between the least and the greatest
\* of them: what a return does not carry neither lowers nor raises the score
\* ("DATA-AVAILABILITY RENORMALISATION", behavioural-analytics.agent.ts 76).
BlendStaysInside == \A t \in Taxpayers :
    LET with == {x \in ToSet(Components(profile[t])) : x.usable}
        blend == Blend(Usable(Components(profile[t])))
    IN TotalInflow(profile[t].rows) > 0 /\ with # {} =>
        /\ \E x \in with : x.score <= blend
        /\ \E x \in with : blend <= x.score

\* A sector the provider supplied is never replaced by one the agents inferred, but by
\* a run it was supplied under ("A provider-supplied sector is authoritative",
\* agents.service.ts 143).
SectorKept == \A t \in Taxpayers : sector[t].given /\ ~overlapped => sector'[t].given
GivenSectorStays == [][SectorKept]_vars

\* One BVN under two names that are not alike is never passed over ("Detect any BVN
\* carried by 2+ distinct account-holder names", matching.agent.ts).
SharedBvnIsFlagged == \A t \in Taxpayers :
    LET rows == profile[t].rows
    IN (\E i, j \in DOMAIN rows : /\ rows[i].match # Silent /\ rows[i].bvn = rows[j].bvn
                                  /\ NameSimilarity(rows[i].name, rows[j].name) < 70) =>
        MatchingScore(profile[t]) >= 80
=============================================================================
