----------------------------- MODULE Bottlenecks -----------------------------
(* Bottleneck scores (services/bottlenecks/engine.py).  A candidate is a      *)
(* process stage or a resource with the durations observed for it; a score is *)
(* a whole percent (the code keeps two decimals).                             *)
EXTENDS Statistics

\* Stage candidates with their targets in half hours.
Stages == [Anchorage |-> 4, Inward |-> 5, BerthStay |-> 96, CargoWorking |-> 72, Outward |-> 4]

\* A resource without delay rows falls back on the service records: served minus scheduled,
\* positive only; berth congestion has no such fallback.
ResourceSample(delays, services) ==
    LET late(s) == Filter(s, LAMBDA x : x > 0)
    IN  IF late(delays) # <<>> THEN late(delays) ELSE late(services)

Percent(num, den) == Least(100, (100 * num) \div den)

\* _compute_metrics_and_scores.  The contribution compares means: sum / n against turnaround;
\* the target is in half hours.
Scores(values, target, turnaround, isDelay) ==
    LET n == Len(values)
        sum == Total(values)
        med2 == Median2(values)
        p90 == NearestRank(values, 90)
        bench == IF isDelay THEN 10 ELSE 48
    IN  [variability |->
             IF sum = 0 \/ n = 1 THEN 0
             ELSE Least(100, Root((40000 * Spread(values) * n) \div (9 * (n - 1) * sum * sum))),
         tail |->
             IF med2 > 0 THEN IF 2 * p90 >= med2 THEN Percent((2 * p90 - med2) * 2, 5 * med2) ELSE 0
             ELSE IF p90 > 1 THEN Percent((p90 - 1) * 2, 5) ELSE 0,
         breach |-> Percent(Count(values, LAMBDA x : 2 * x > target), n),
         frequency |-> Percent(n, 72),
         contribution |-> IF turnaround > 0 THEN Percent(sum, n * turnaround) ELSE 0,
         duration |-> Percent(sum, n * bench)]

\* The default weights, in hundredths; business criticality has none.
Weights == [duration |-> 15, frequency |-> 20, variability |-> 20, tail |-> 20,
            contribution |-> 10, breach |-> 15]

\* Mutant: the mean duration decides.
OverallByDuration(sc) == 100 * sc.duration + sc.contribution

Overall(sc) == Total([k \in 1..6 |->
    LET name == <<"duration", "frequency", "variability", "tail", "contribution", "breach">>[k]
    IN  Weights[name] * sc[name]])

\* Candidates in the order of their overall score; equal scores keep the order of appearance.
Ranking(candidates) ==
    Arranged(DOMAIN candidates,
        LAMBDA i, j : \/ Overall(candidates[i]) > Overall(candidates[j])
                      \/ Overall(candidates[i]) = Overall(candidates[j]) /\ i < j)

-----------------------------------------------------------------------------
\* "Never label the longest stage alone as the bottleneck": a stage that always takes the
\* same time and meets its target ranks below a shorter one observed as often with a heavy
\* tail (P90 at least three times the median) whose target is missed every second time.
LongStableRanksBelow(long, short, turnaround) ==
    LET a == Scores(long, Stages.BerthStay, turnaround, FALSE)
        b == Scores(short, Stages.Anchorage, turnaround, FALSE)
    IN  /\ Len(long) = Len(short)
        /\ Spread(long) = 0 /\ a.breach = 0
        /\ Total(short) < Total(long) /\ 2 * NearestRank(short, 90) >= 3 * Median2(short)
        /\ b.breach >= 50
        => Ranking(<<a, b>>) = <<2, 1>>
=============================================================================
