----------------------------- MODULE Statistics -----------------------------
(* The order statistics the analytics engines compute over a sample of       *)
(* durations.  A sample is a sequence of whole hours; a mean stays a sum and  *)
(* a count, and a quantile is given in hundredths so that no rounding enters. *)
EXTENDS Integers, Sequences, FiniteSets, TLC, SequencesExt

Total(s) == SumFunction(s)
Least(x, y) == IF x < y THEN x ELSE y
Most(x, y) == IF x > y THEN x ELSE y
Abs(x) == IF x < 0 THEN -x ELSE x
Count(s, P(_)) == Cardinality({i \in DOMAIN s : P(s[i])})

\* The entries of s that satisfy P, in their order: those at the positions in K.
Nth(K, k) == CHOOSE i \in K : Cardinality({j \in K : j <= i}) = k
Picked(s, K) == [k \in 1..Cardinality(K) |-> s[Nth(K, k)]]
Filter(s, P(_)) == Picked(s, {i \in DOMAIN s : P(s[i])})

\* The members of S in the order of Before: each stands after as many as are before it.
Arranged(S, Before(_, _)) ==
    [k \in 1..Cardinality(S) |-> CHOOSE i \in S : Cardinality({j \in S : Before(j, i)}) = k - 1]

\* The values in ascending order: fewer than k of them are below the k-th, k or more are not above.
Ordered(s) ==
    [k \in 1..Len(s) |-> CHOOSE v \in ToSet(s) : Count(s, LAMBDA x : x < v) < k /\ k <= Count(s, LAMBDA x : x <= v)]

\* Twice the median: the middle value, or the mean of the two middle ones.
Median2(s) ==
    LET o == Ordered(s)
        n == Len(s)
    IN  IF n % 2 = 1 THEN 2 * o[n \div 2 + 1] ELSE o[n \div 2] + o[n \div 2 + 1]

\* Nearest-rank percentile: index ceil(p n) - 1, kept within the sample.
NearestRank(s, p) ==
    LET n == Len(s)
        rank == (p * n + 99) \div 100
    IN  Ordered(s)[Most(1, Least(n, rank))]

\* Linear-interpolation quantile in hundredths: position p (n - 1) between two order statistics.
Quantile100(s, p) ==
    LET o == Ordered(s)
        pos == p * (Len(s) - 1)
        lo == pos \div 100 + 1
        hi == Least(lo + 1, Len(s))
    IN  100 * o[lo] + (pos % 100) * (o[hi] - o[lo])

\* n^2 times the population variance: n sum(x^2) - sum(x)^2.
Spread(s) == Len(s) * Total([i \in DOMAIN s |-> s[i] * s[i]]) - Total(s) * Total(s)

\* The whole part of a square root.
Root(x) == CHOOSE r \in 0..x : r * r <= x /\ (r + 1) * (r + 1) > x
=============================================================================
