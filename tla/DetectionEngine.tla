--------------------------- MODULE DetectionEngine ---------------------------
(* The scoring methodology of detection-engine.ts, in whole numbers.  Amounts  *)
(* are thousands of naira; a tax is in hundredths of that (the rates are       *)
(* percentages), observed income in twentieths (the ramp of the discount has a *)
(* slope of 2 from 0.85), confidences and shares are percentages.              *)
EXTENDS Integers, Sequences, FiniteSets

Least(a, b)   == IF a <= b THEN a ELSE b
Greatest(a, b) == IF a >= b THEN a ELSE b
Within(x, low, high) == Least(Greatest(x, low), high)

-----------------------------------------------------------------------------
\* PIT_BANDS: where each band starts, and its rate.
BandStart == <<0, 800, 3000, 12000, 25000, 50000>>
BandRate  == <<0, 15, 18, 21, 23, 25>>

\* Mutant: a band is taxed from zero once it is reached.
WholeSlice(income, b) == IF income <= BandStart[b] THEN 0 ELSE income

\* The part of the income that falls into band b.
Slice(income, b) ==
    IF income <= BandStart[b] THEN 0
    ELSE (IF b = 6 THEN income ELSE Least(income, BandStart[b + 1])) - BandStart[b]

\* progressivePit
ProgressivePit(income) ==
    BandRate[1] * Slice(income, 1) + BandRate[2] * Slice(income, 2)
  + BandRate[3] * Slice(income, 3) + BandRate[4] * Slice(income, 4)
  + BandRate[5] * Slice(income, 5) + BandRate[6] * Slice(income, 6)

\* estimateAdditionalTax, for a party the state assesses.
AdditionalTax(declared, observed) ==
    Greatest(0, ProgressivePit(observed) - ProgressivePit(declared))
FlatTax(declared, observed, rate) == rate * Greatest(0, observed - declared)

\* Mutant: the discount is not capped at half of the inflow.
UncappedDiscount(inflow, outflow) == Greatest(0, 40 * outflow - 34 * inflow)

\* normalizeInflow: the discount, in twentieths of the inflow, runs from 0 at a
\* ratio of 0.85 to half of the inflow at 1.10.
Discount(inflow, outflow) == Within(40 * outflow - 34 * inflow, 0, 10 * inflow)
Observed(inflow, outflow) ==
    IF inflow <= 0 THEN 0 ELSE 20 * inflow - Discount(inflow, outflow)
HeavyPassThrough(inflow, outflow) == inflow > 0 /\ Discount(inflow, outflow) >= 6 * inflow

-----------------------------------------------------------------------------
\* discrepancyPct, and whether it is over the threshold.
GapPct(declared, observed) ==
    IF declared > 0 THEN (100 * (observed - declared)) \div declared
    ELSE IF observed > 0 THEN 100 ELSE 0
ShouldFlag(declared, observed, threshold) ==
    observed > declared /\
        (IF declared > 0 THEN 100 * (observed - declared) > threshold * declared
                         ELSE 100 > threshold)

\* scoreCase
GapWeight(pct) == IF pct >= 200 THEN 35 ELSE IF pct >= 100 THEN 25 ELSE IF pct >= 50 THEN 15 ELSE 0
ProviderWeight(n) == IF n >= 3 THEN 25 ELSE IF n = 2 THEN 15 ELSE 0

\* Mutant: the bonus of a strong match is for the middle of the scale.
MatchWeightShifted(match) == IF match >= 90 THEN 0 ELSE IF match < 60 THEN -15 ELSE 20

MatchWeight(match) == IF match >= 90 THEN 20 ELSE IF match < 60 THEN -15 ELSE 0

Confidence(pct, providers, match, declares, passThrough) ==
    Within(GapWeight(pct) + ProviderWeight(providers) + MatchWeight(match)
           + (IF declares THEN 0 ELSE 20) - (IF passThrough THEN 10 ELSE 0), 0, 100)

\* confidenceToRisk, least first, and the taxpayer's score it leads to.
RiskLevel(confidence) ==
    IF confidence >= 80 THEN 4 ELSE IF confidence >= 60 THEN 3 ELSE IF confidence >= 40 THEN 2 ELSE 1
NewScore(confidence) == (1005 - 8 * confidence) \div 10

\* Mutant: every signal counts as a corroboration, the quiet ones against.
AgentScoreByMean(scores) ==
    IF scores = <<>> THEN 0 ELSE (scores[1] + scores[Len(scores)]) \div 2

\* aggregateAgentScore: the strongest signal, and 0.08 for every other of 0.4 or more.
AgentScore(scores) ==
    IF scores = <<>> THEN 0
    ELSE LET Strong == {i \in DOMAIN scores : scores[i] >= 40}
             Top    == CHOOSE i \in DOMAIN scores : \A j \in DOMAIN scores : scores[j] <= scores[i]
         IN Within(scores[Top] + 8 * Greatest(0, Cardinality(Strong) - 1), 0, 100)

\* compositeConfidence, in thousandths.
Composite(detection, agents) == Within(6 * detection + 4 * agents, 0, 1000)

-----------------------------------------------------------------------------
\* The tax on a gap is at most the top rate of the gap, and two gaps end to end
\* are taxed as one: what a party declares takes its own tax off and no more
\* (progressivePit and estimateAdditionalTax, detection-engine.ts 85 and 125).
TaxIsMarginal(d, m, o) == d <= m /\ m <= o =>
    /\ AdditionalTax(d, o) = AdditionalTax(d, m) + AdditionalTax(m, o)
    /\ AdditionalTax(d, o) <= FlatTax(d, o, 25)

\* Normalising takes at most half of an inflow, and neither a larger inflow nor a
\* smaller outflow makes a smaller income ("it can only reduce an apparent
\* discrepancy", detection-engine.ts 174).
DiscountIsFair(i, o) ==
    /\ Observed(i, o) \in 10 * i .. 20 * i
    /\ Observed(i, o) <= Observed(i + 1, o)
    /\ Observed(i, o + 1) <= Observed(i, o)

\* Evidence counts one way: a larger gap, one more provider, a better match or a
\* missing declaration never lowers the confidence or the level of risk, and one
\* more agent's signal never lowers the agents' score (scoreCase 213,
\* confidenceToRisk 247, aggregateAgentScore 262).
EvidenceCountsOneWay(pct, n, match, scores, score) ==
    LET c == Confidence(pct, n, match, TRUE, FALSE)
    IN /\ \A more \in {Confidence(pct + 1, n, match, TRUE, FALSE),
                       Confidence(pct, n + 1, match, TRUE, FALSE),
                       Confidence(pct, n, match + 1, TRUE, FALSE),
                       Confidence(pct, n, match, FALSE, FALSE)} :
             c <= more /\ RiskLevel(c) <= RiskLevel(more) /\ NewScore(more) <= NewScore(c)
       /\ AgentScore(scores) <= AgentScore(Append(scores, score))
       /\ Composite(c, AgentScore(scores)) <= Composite(c, AgentScore(Append(scores, score)))
=============================================================================
