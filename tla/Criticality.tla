----------------------------- MODULE Criticality -----------------------------
(* The criticality of a stage (services/criticality/engine.py): scores from 1  *)
(* to 5 for the mean, the coefficient of variation and the ratio of the 90th   *)
(* percentile to the median, and a band of their mean.                         *)
EXTENDS Statistics

\* The score of num/den against four limits, given in hundredths.
Score(num, den, limits) == 1 + Cardinality({i \in 1..4 : 100 * num >= limits[i] * den})

DurationScore(d) == Score(Total(d), Len(d), <<200, 600, 1800, 3600>>)

\* cv >= l/100 without the root: (std/mean)^2 = n Spread / ((n - 1) Total^2).
VariabilityScore(d) ==
    IF Len(d) < 2 \/ Total(d) <= 0 THEN 1
    ELSE 1 + Cardinality({i \in 1..4 :
             10000 * Len(d) * Spread(d) >= <<20, 50, 80, 120>>[i] * <<20, 50, 80, 120>>[i] * (Len(d) - 1) * Total(d) * Total(d)})

\* The upper median and the nearest-rank percentile; a median of zero counts as ratio 1.
TailScore(d) ==
    LET median == Ordered(d)[Len(d) \div 2 + 1]
    IN  IF median <= 0 THEN 1 ELSE Score(NearestRank(d, 90), median, <<130, 180, 250, 350>>)

\* Three times the overall score, and its band.
Overall3(d) == DurationScore(d) + VariabilityScore(d) + TailScore(d)
Band(d) == CASE Overall3(d) < 6 -> "LOW" [] Overall3(d) \in 6..8 -> "MODERATE"
             [] Overall3(d) \in 9..11 -> "HIGH" [] OTHER -> "CRITICAL"

\* compute_component_scores: however long a stage is, if it always takes the same time it is at
\* most moderately critical, and no stage is critical whose median never falls behind its tail.
LongStableIsNotCritical(d) ==
    /\ Cardinality(ToSet(d)) = 1 => Band(d) \in {"LOW", "MODERATE"}
    /\ TailScore(d) = 1 => Band(d) # "CRITICAL"
=============================================================================
