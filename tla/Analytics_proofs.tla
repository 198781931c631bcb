-------------------------- MODULE Analytics_proofs ---------------------------
(* Proofs about the calculations, continued: bottlenecks and criticality,      *)
(* lead times and delays.                                                      *)
EXTENDS Algorithms_proofs

-----------------------------------------------------------------------------
(* Bottlenecks.                                                                *)

\* The statistics of the bottleneck scores are those of Statistics.
LEMMA BNStatistics ==
  /\ \A s : BN!Total(s) = Total(s)
  /\ \A s : BN!Spread(s) = Spread(s)
  /\ \A s : BN!Median2(s) = Median2(s)
  /\ \A s, p : BN!NearestRank(s, p) = NearestRank(s, p)
  /\ \A x : BN!Root(x) = Root(x)
<1>1. \A s : BN!Total(s) = Total(s)
  BY DEF BN!Total, BN!SumFunction, BN!SumFunctionOnSet, SumFunctionOnSet, BN!FoldFunctionOnSet,
         FoldFunctionOnSet, BN!MapThenFoldSet, MapThenFoldSet, Total, SumFunction
<1>2. \A s : BN!Ordered(s) = Ordered(s)
  BY DEF BN!Ordered, Ordered, BN!Count, Count, BN!ToSet, ToSet, BN!Cardinality, Cardinality, BN!IsFiniteSet, IsFiniteSet
<1>3. \A s : BN!Spread(s) = Spread(s)
  BY <1>1 DEF BN!Spread, Spread
<1>4. \A s : BN!Median2(s) = Median2(s)
  BY <1>2 DEF BN!Median2, Median2
<1>5. \A s, p : BN!NearestRank(s, p) = NearestRank(s, p)
  BY <1>2 DEF BN!NearestRank, NearestRank, BN!Most, Most, BN!Least, Least
<1>6. \A x : BN!Root(x) = Root(x)
  BY DEF BN!Root, Root
<1> QED
  BY <1>1, <1>3, <1>4, <1>5, <1>6

\* num of den is q percent or more, or less.
Reaches(num, den, q) == q * den <= 100 * num
StaysBelow(num, den, q) == 100 * num < q * den

\* A share in percent is between the bounds of the exact share.
LEMMA PercentBounds ==
  ASSUME NEW num \in Int, NEW den \in Nat, den > 0
  PROVE  /\ BN!Percent(num, den) \in Int
         /\ \A q \in 0..100 : Reaches(num, den, q) => BN!Percent(num, den) >= q
         /\ \A q \in Int : StaysBelow(num, den, q) => BN!Percent(num, den) < q
<1> DEFINE x == 100 * num
           d == x \div den
<1>1. x \in Int /\ d \in Int
  OBVIOUS
<1>2. BN!Percent(num, den) = IF 100 < d THEN 100 ELSE d
  BY DEF BN!Percent, BN!Least
<1>3. \A q \in Int : q * den <= x => d >= q
  <2> HIDE DEF x
  <2> QED
    BY <1>1, QuotientAtLeast
<1>4. \A q \in Int : x < q * den => d < q
  <2> HIDE DEF x
  <2> TAKE q \in Int
  <2> HAVE x < q * den
  <2>1. q - 1 \in Int /\ x < ((q - 1) + 1) * den
    OBVIOUS
  <2>2. x \div den <= q - 1
    BY <1>1, <2>1, QuotientAtMost
  <2> QED
    BY <1>1, <2>2
<1> HIDE DEF d
<1>5. \A q \in 0..100 : Reaches(num, den, q) => BN!Percent(num, den) >= q
  BY <1>1, <1>2, <1>3 DEF Reaches
<1>6. \A q \in Int : StaysBelow(num, den, q) => BN!Percent(num, den) < q
  BY <1>1, <1>2, <1>4 DEF StaysBelow
<1> QED
  BY <1>1, <1>2, <1>5, <1>6

\* The overall score of a candidate.
LEMMA OverallScore ==
  ASSUME NEW sc, sc.duration \in Int, sc.frequency \in Int, sc.variability \in Int, sc.tail \in Int,
         sc.contribution \in Int, sc.breach \in Int
  PROVE  BN!Overall(sc) = 15 * sc.duration + 20 * sc.frequency + 20 * sc.variability + 20 * sc.tail
                            + 10 * sc.contribution + 15 * sc.breach
<1> DEFINE name(k) == <<"duration", "frequency", "variability", "tail", "contribution", "breach">>[k]
           f == [k \in 1..6 |-> BN!Weights[name(k)] * sc[name(k)]]
<1>1. /\ f[1] = 15 * sc.duration /\ f[2] = 20 * sc.frequency /\ f[3] = 20 * sc.variability /\ f[4] = 20 * sc.tail
      /\ f[5] = 10 * sc.contribution /\ f[6] = 15 * sc.breach /\ DOMAIN f = 1..6
  BY DEF BN!Weights
<1>2. BN!Overall(sc) = BN!Total(f)
  BY DEF BN!Overall
<1> HIDE DEF f
<1>3. \A i \in 1..6 : f[i] \in Int
  <2> TAKE i \in 1..6
  <2>1. i = 1 \/ i = 2 \/ i = 3 \/ i = 4 \/ i = 5 \/ i = 6
    OBVIOUS
  <2> QED
    BY <2>1, <1>1
<1>4. BN!Total(f) = SumFunctionOnSet(f, 1..6)
  BY <1>1, BNStatistics DEF Total, SumFunction
<1>5. SumFunctionOnSet(f, 1..6) = f[1] + f[2] + f[3] + f[4] + f[5] + f[6]
  BY <1>3, SumOfSix
<1> QED
  BY <1>1, <1>2, <1>4, <1>5

\* Of two candidates the one with the greater overall score comes first.
LEMMA RankingOfTwo ==
  ASSUME NEW a, NEW b, BN!Overall(a) \in Int, BN!Overall(b) \in Int, BN!Overall(a) < BN!Overall(b)
  PROVE  BN!Ranking(<<a, b>>) = <<2, 1>>
<1> DEFINE c == <<a, b>>
           ahead(j, i) == \/ BN!Overall(c[j]) > BN!Overall(c[i])
                          \/ BN!Overall(c[j]) = BN!Overall(c[i]) /\ j < i
           before(i) == {j \in DOMAIN c : ahead(j, i)}
           r == [k \in 1..BN!Cardinality(DOMAIN c) |-> CHOOSE i \in DOMAIN c : BN!Cardinality(before(i)) = k - 1]
<1>1. DOMAIN c = {1, 2} /\ c[1] = a /\ c[2] = b
  OBVIOUS
<1>2. BN!Ranking(c) = r
  BY DEF BN!Ranking, BN!Arranged
<1>3. before(2) = {} /\ before(1) = {2}
  BY <1>1
<1>4. \A S : BN!Cardinality(S) = Cardinality(S)
  BY DEF BN!Cardinality, Cardinality, BN!IsFiniteSet, IsFiniteSet
<1>5. Cardinality({}) = 0 /\ Cardinality({2}) = 1 /\ Cardinality({1, 2}) = 2
  <2>1. Cardinality({}) = 0 /\ Cardinality({2}) = 1
    BY FS_EmptySet, FS_Singleton
  <2>5. IsFiniteSet({2})
    BY FS_Singleton
  <2>2. 1 \notin {2}
    OBVIOUS
  <2>3. Cardinality({2} \cup {1}) = Cardinality({2}) + 1
    BY <2>2, <2>5, FS_AddElement
  <2>4. {2} \cup {1} = {1, 2}
    OBVIOUS
  <2> QED
    BY <2>1, <2>3, <2>4
<1> HIDE DEF before, c
<1>6. /\ DOMAIN r = 1..2
      /\ \A k \in 1..2 : r[k] = CHOOSE i \in {1, 2} : Cardinality(before(i)) = k - 1
  BY <1>1, <1>4, <1>5
<1>7. Cardinality(before(2)) = 0 /\ Cardinality(before(1)) = 1
  BY <1>3, <1>5
<1> HIDE DEF r
<1>8. r[1] = 2 /\ r[2] = 1
  <2>1. r[1] = CHOOSE i \in {1, 2} : Cardinality(before(i)) = 0
    BY <1>6
  <2>2. r[2] = CHOOSE i \in {1, 2} : Cardinality(before(i)) = 1
    BY <1>6
  <2> QED
    BY <2>1, <2>2, <1>7
<1>9. r = <<2, 1>>
  <2>1. r = [k \in DOMAIN r |-> r[k]]
    BY DEF r
  <2> QED
    BY <2>1, <1>6, <1>8
<1> QED
  BY <1>2, <1>9 DEF c

\* A candidate that always takes the same h hours, within its target of 48: it varies by nothing,
\* has no tail and breaches nothing.
LEMMA StableScores ==
  ASSUME NEW n \in Nat, n > 1, NEW h \in 12..47, NEW s \in [1..n -> Int], \A i \in 1..n : s[i] = h
  PROVE  LET sc == BN!Scores(s, BN!Stages.BerthStay, 50, FALSE)
         IN  /\ sc.variability = 0 /\ sc.tail = 0 /\ sc.frequency = BN!Percent(n, 72) /\ sc.frequency \in Int
             /\ sc.contribution \in Int /\ sc.contribution <= 94 /\ sc.duration \in Int /\ sc.duration <= 97
<1> DEFINE sc == BN!Scores(s, BN!Stages.BerthStay, 50, FALSE)
           T == n * h
<1>1. BN!Total(s) = T /\ BN!Spread(s) = 0 /\ BN!Median2(s) = 2 * h /\ BN!NearestRank(s, 90) = h
  <2>0. n > 0 /\ h \in Int
    OBVIOUS
  <2>2. Total(s) = n * h /\ Spread(s) = 0 /\ Median2(s) = 2 * h /\ \A p \in 0..100 : NearestRank(s, p) = h
    BY <2>0, ConstantSample
  <2>1. Total(s) = n * h /\ Spread(s) = 0 /\ Median2(s) = 2 * h /\ NearestRank(s, 90) = h
    BY <2>2
  <2> QED
    BY <2>1, BNStatistics
<1>2. Len(s) = n /\ T \in Nat /\ T > 0 /\ T <= n * 47 /\ n >= 1
  OBVIOUS
<1>3. BN!Percent(0, 10 * h) = 0
  <2>1. 10 * h \in Nat /\ 10 * h > 0 /\ 100 * 0 = 0
    OBVIOUS
  <2>2. 0 \div (10 * h) = 0
    BY <2>1, NothingDivided
  <2> QED
    BY <2>1, <2>2 DEF BN!Percent, BN!Least
<1>4. sc.tail = 0
  <2>1. sc.tail = IF 2 * h > 0 THEN IF 2 * h >= 2 * h THEN BN!Percent((2 * h - 2 * h) * 2, 5 * (2 * h)) ELSE 0
                  ELSE IF h > 1 THEN BN!Percent((h - 1) * 2, 5) ELSE 0
    BY <1>1 DEF BN!Scores
  <2>2. (2 * h - 2 * h) * 2 = 0 /\ 5 * (2 * h) = 10 * h /\ 2 * h > 0 /\ 2 * h >= 2 * h
    OBVIOUS
  <2> QED
    BY <2>1, <2>2, <1>3
<1>5. sc.variability = 0
  <2> DEFINE den == 9 * (n - 1) * T * T
             num == 40000 * 0 * n
  <2>1. sc.variability = IF T = 0 \/ n = 1 THEN 0
                         ELSE BN!Least(100, BN!Root(num \div den))
    BY <1>1, <1>2 DEF BN!Scores
  <2>2. num = 0
    OBVIOUS
  <2>3. den \in Nat /\ den > 0
    <3>1. T * T \in Nat /\ T * T > 0
      <4> HIDE DEF T
      <4> QED
        BY <1>2
    <3>2. 9 * (n - 1) \in Nat /\ 9 * (n - 1) > 0
      OBVIOUS
    <3>3. \A x, y \in Nat : x > 0 /\ y > 0 => x * y \in Nat /\ x * y > 0
      OBVIOUS
    <3>4. (9 * (n - 1)) * (T * T) \in Nat /\ (9 * (n - 1)) * (T * T) > 0
      <4> HIDE DEF T
      <4> QED
        BY <3>1, <3>2, <3>3
    <3>5. den = (9 * (n - 1)) * (T * T)
      <4>1. \A x, y \in Int : x * y * y = x * (y * y)
        OBVIOUS
      <4>2. 9 * (n - 1) \in Int /\ T \in Int
        BY <1>2
      <4> HIDE DEF T
      <4> QED
        BY <4>1, <4>2
    <3> QED
      BY <3>4, <3>5
  <2> HIDE DEF den, num
  <2>4. num \div den = 0
    BY <2>2, <2>3, NothingDivided
  <2>5. BN!Root(0) = 0
    <3>1. Root(0) \in 0..0
      BY RootFacts
    <3> QED
      BY <3>1, BNStatistics
  <2> QED
    <3>1. BN!Least(100, 0) = 0
      BY DEF BN!Least
    <3> HIDE DEF sc, T
    <3> QED
      BY <2>1, <2>4, <2>5, <3>1
<1>6. sc.frequency = BN!Percent(n, 72) /\ BN!Percent(n, 72) \in Int
  <2>1. sc.frequency = BN!Percent(n, 72)
    BY <1>2 DEF BN!Scores
  <2>2. BN!Percent(n, 72) \in Int
    BY PercentBounds
  <2> QED
    BY <2>1, <2>2
<1>7. sc.contribution \in Int /\ sc.contribution <= 94
  <2>1. sc.contribution = BN!Percent(T, n * 50)
    BY <1>1, <1>2 DEF BN!Scores
  <2>2. T \in Int /\ n * 50 \in Nat /\ n * 50 > 0 /\ StaysBelow(T, n * 50, 95)
    <3> HIDE DEF T
    <3> QED
      BY <1>2 DEF StaysBelow
  <2> HIDE DEF T, sc
  <2>3. BN!Percent(T, n * 50) \in Int /\ BN!Percent(T, n * 50) < 95
    BY ONLY <2>2, 95 \in Int, PercentBounds
  <2> QED
    BY <2>1, <2>3
<1>8. sc.duration \in Int /\ sc.duration <= 97
  <2>1. sc.duration = BN!Percent(T, n * 48)
    BY <1>1, <1>2 DEF BN!Scores
  <2>2. T \in Int /\ n * 48 \in Nat /\ n * 48 > 0 /\ StaysBelow(T, n * 48, 98)
    <3> HIDE DEF T
    <3> QED
      BY <1>2 DEF StaysBelow
  <2> HIDE DEF T, sc
  <2>3. BN!Percent(T, n * 48) \in Int /\ BN!Percent(T, n * 48) < 98
    BY ONLY <2>2, 98 \in Int, PercentBounds
  <2> QED
    BY <2>1, <2>3
<1> QED
  BY <1>4, <1>5, <1>6, <1>7, <1>8

\* A candidate of at least an hour each time whose 90th percentile is three times its median.
LEMMA HeavyTailScores ==
  ASSUME NEW n \in Nat, n > 1, NEW s \in [1..n -> Int], \A i \in 1..n : 1 <= s[i] /\ s[i] <= 11,
         2 * BN!NearestRank(s, 90) >= 3 * BN!Median2(s)
  PROVE  LET sc == BN!Scores(s, BN!Stages.Anchorage, 50, FALSE)
         IN  /\ sc.variability \in Int /\ sc.variability >= 0 /\ sc.tail \in Int /\ sc.tail >= 80
             /\ sc.frequency = BN!Percent(n, 72) /\ sc.frequency \in Int
             /\ sc.contribution \in Int /\ sc.contribution >= 2 /\ sc.duration \in Int /\ sc.duration >= 2
<1> DEFINE sc == BN!Scores(s, BN!Stages.Anchorage, 50, FALSE)
           T == BN!Total(s)
           m == BN!Median2(s)
           p == BN!NearestRank(s, 90)
           w == BN!Spread(s)
<1>1. /\ T \in Int /\ n * 1 <= T /\ m \in Int /\ 2 * 1 <= m
      /\ p \in Int
  <2>1. /\ Total(s) \in Int /\ n * 1 <= Total(s) /\ Median2(s) \in Int /\ 2 * 1 <= Median2(s)
        /\ \A q \in 0..100 : NearestRank(s, q) \in Int
    <3>1. Within(s, n, 1, 11) /\ n > 0 /\ 1 \in Int /\ 11 \in Int
      BY DEF Within
    <3> QED
      BY ONLY <3>1, n \in Nat, s \in [1..n -> Int], SampleBounds, Zenon
  <2>2. NearestRank(s, 90) \in Int
    BY <2>1
  <2> QED
    BY <2>1, <2>2, BNStatistics
<1>2. w \in Int /\ w >= 0
  <2>1. Spread(s) \in Int /\ Spread(s) >= 0
    BY SpreadFacts
  <2> QED
    BY <2>1, BNStatistics
<1>3. Len(s) = n /\ 2 * p >= 3 * m
  OBVIOUS
<1>4. /\ sc.tail = IF m > 0 THEN IF 2 * p >= m THEN BN!Percent((2 * p - m) * 2, 5 * m) ELSE 0
                   ELSE IF p > 1 THEN BN!Percent((p - 1) * 2, 5) ELSE 0
      /\ sc.variability = IF T = 0 \/ n = 1 THEN 0
                          ELSE BN!Least(100, BN!Root((40000 * w * n) \div (9 * (n - 1) * T * T)))
      /\ sc.frequency = BN!Percent(n, 72)
      /\ sc.contribution = BN!Percent(T, n * 50)
      /\ sc.duration = BN!Percent(T, n * 48)
  BY <1>3 DEF BN!Scores
<1> HIDE DEF T, m, p, w, sc
<1>5. sc.tail \in Int /\ sc.tail >= 80
  <2>1. sc.tail = BN!Percent((2 * p - m) * 2, 5 * m)
    BY <1>1, <1>3, <1>4
  <2>2. (2 * p - m) * 2 \in Int /\ 5 * m \in Nat /\ 5 * m > 0 /\ Reaches((2 * p - m) * 2, 5 * m, 80)
    BY <1>1, <1>3 DEF Reaches
  <2>3. BN!Percent((2 * p - m) * 2, 5 * m) \in Int /\ BN!Percent((2 * p - m) * 2, 5 * m) >= 80
    <3> DEFINE num == (2 * p - m) * 2
               den == 5 * m
    <3>1. num \in Int /\ den \in Nat /\ den > 0 /\ Reaches(num, den, 80) /\ 80 \in 0..100
      BY <2>2
    <3> HIDE DEF num, den
    <3>2. BN!Percent(num, den) \in Int /\ BN!Percent(num, den) >= 80
      BY ONLY <3>1, PercentBounds
    <3> QED
      BY <3>2 DEF num, den
  <2> QED
    BY <2>1, <2>3
<1>6. sc.variability \in Int /\ sc.variability >= 0
  <2> DEFINE den == 9 * (n - 1) * T * T
             num == 40000 * w * n
  <2>1. den \in Nat /\ den > 0
    <3>1. T * T \in Nat /\ T * T > 0
      BY <1>1
    <3>2. 9 * (n - 1) \in Nat /\ 9 * (n - 1) > 0
      OBVIOUS
    <3>3. \A x, y \in Nat : x > 0 /\ y > 0 => x * y \in Nat /\ x * y > 0
      OBVIOUS
    <3>4. (9 * (n - 1)) * (T * T) \in Nat /\ (9 * (n - 1)) * (T * T) > 0
      BY <3>1, <3>2, <3>3
    <3>5. den = (9 * (n - 1)) * (T * T)
      <4>1. \A x, y \in Int : x * y * y = x * (y * y)
        OBVIOUS
      <4>2. 9 * (n - 1) \in Int /\ T \in Int
        BY <1>1
      <4> QED
        BY <4>1, <4>2
    <3> QED
      BY <3>4, <3>5
  <2>2. num \in Nat
    <3>1. 40000 * w \in Nat
      BY <1>2
    <3>2. \A x, y \in Nat : x * y \in Nat
      OBVIOUS
    <3> QED
      BY <3>1, <3>2
  <2> HIDE DEF den, num
  <2>3. num \div den \in Nat
    <3>1. 0 * den <= num
      BY <2>1, <2>2
    <3>2. num \div den >= 0
      BY <2>1, <2>2
    <3> QED
      BY <2>1, <2>2, <3>2
  <2>4. BN!Root(num \div den) \in Int /\ BN!Root(num \div den) >= 0
    <3> DEFINE x == num \div den
    <3>1. Root(x) \in 0..x
      <4> HIDE DEF x
      <4> QED
        BY <2>3, RootFacts DEF x
    <3> QED
      BY <2>3, <3>1, BNStatistics
  <2>5. sc.variability = IF T = 0 \/ n = 1 THEN 0 ELSE BN!Least(100, BN!Root(num \div den))
    BY <1>4 DEF num, den
  <2> QED
    BY <2>4, <2>5 DEF BN!Least
<1>7. sc.frequency \in Int
  BY <1>4, PercentBounds
<1>8. sc.contribution \in Int /\ sc.contribution >= 2
  <2>1. n * 50 \in Nat /\ n * 50 > 0 /\ Reaches(T, n * 50, 2)
    BY <1>1 DEF Reaches
  <2> QED
    BY <1>1, <1>4, <2>1, PercentBounds
<1>9. sc.duration \in Int /\ sc.duration >= 2
  <2>1. n * 48 \in Nat /\ n * 48 > 0 /\ Reaches(T, n * 48, 2)
    BY <1>1 DEF Reaches
  <2> QED
    BY <1>1, <1>4, <2>1, PercentBounds
<1>10. /\ sc.variability \in Int /\ sc.variability >= 0 /\ sc.tail \in Int /\ sc.tail >= 80
       /\ sc.frequency = BN!Percent(n, 72) /\ sc.frequency \in Int
       /\ sc.contribution \in Int /\ sc.contribution >= 2 /\ sc.duration \in Int /\ sc.duration >= 2
  BY <1>4, <1>5, <1>6, <1>7, <1>8, <1>9
<1> QED
  BY ONLY <1>10 DEF sc

\* The ranking property for every pair of samples of the "stages" input.
LEMMA LongStableAlwaysRanksBelow ==
  ASSUME NEW n \in Nat, n > 1, NEW h \in 12..47, NEW long \in [1..n -> Int], \A i \in 1..n : long[i] = h,
         NEW short \in [1..n -> Int], \A i \in 1..n : 1 <= short[i] /\ short[i] <= 11
  PROVE  BN!LongStableRanksBelow(long, short, 50)
<1> DEFINE a == BN!Scores(long, BN!Stages.BerthStay, 50, FALSE)
           b == BN!Scores(short, BN!Stages.Anchorage, 50, FALSE)
<1> SUFFICES ASSUME a.breach = 0, b.breach >= 50, 2 * BN!NearestRank(short, 90) >= 3 * BN!Median2(short)
             PROVE  BN!Ranking(<<a, b>>) = <<2, 1>>
  BY DEF BN!LongStableRanksBelow
<1>1. /\ a.variability = 0 /\ a.tail = 0 /\ a.frequency = BN!Percent(n, 72) /\ a.frequency \in Int
      /\ a.contribution \in Int /\ a.contribution <= 94 /\ a.duration \in Int /\ a.duration <= 97
  BY StableScores
<1>2. /\ b.variability \in Int /\ b.variability >= 0 /\ b.tail \in Int /\ b.tail >= 80
      /\ b.frequency = BN!Percent(n, 72) /\ b.frequency \in Int
      /\ b.contribution \in Int /\ b.contribution >= 2 /\ b.duration \in Int /\ b.duration >= 2
  BY HeavyTailScores
<1>3. b.breach \in Int
  <2> DEFINE late == {i \in DOMAIN short : 2 * short[i] > BN!Stages.Anchorage}
  <2>1. b.breach = BN!Percent(BN!Cardinality(late), n)
    BY DEF BN!Scores, BN!Count
  <2>2. BN!Cardinality(late) = Cardinality(late)
    BY DEF BN!Cardinality, Cardinality, BN!IsFiniteSet, IsFiniteSet
  <2>3. late \in SUBSET (1..n)
    OBVIOUS
  <2> HIDE DEF late
  <2>4. Cardinality(late) \in Nat
    BY <2>3, PositionsFinite, FS_CardinalityType
  <2> QED
    <3>1. Cardinality(late) \in Int /\ n \in Nat /\ n > 0
      BY <2>4
    <3>2. BN!Percent(Cardinality(late), n) \in Int
      BY ONLY <3>1, PercentBounds
    <3> QED
      BY <2>1, <2>2, <3>2
<1> HIDE DEF a, b
<1>4. BN!Overall(a) = 15 * a.duration + 20 * a.frequency + 20 * a.variability + 20 * a.tail + 10 * a.contribution + 15 * a.breach
  <2>1. a.variability \in Int /\ a.tail \in Int /\ a.breach \in Int
    BY <1>1
  <2> QED
    BY <1>1, <2>1, OverallScore
<1>5. BN!Overall(b) = 15 * b.duration + 20 * b.frequency + 20 * b.variability + 20 * b.tail + 10 * b.contribution + 15 * b.breach
  BY <1>2, <1>3, OverallScore
<1>6. BN!Overall(a) \in Int /\ BN!Overall(b) \in Int /\ BN!Overall(a) < BN!Overall(b)
  <2> DEFINE f == BN!Percent(n, 72)
  <2>1. f \in Int /\ a.frequency = f /\ b.frequency = f
    BY <1>1, <1>2
  <2> HIDE DEF f
  <2> DEFINE ad == a.duration
             ac == a.contribution
             bd == b.duration
             bv == b.variability
             bt == b.tail
             bc == b.contribution
             bb == b.breach
  <2>5. BN!Overall(a) = 15 * ad + 20 * f + 20 * 0 + 20 * 0 + 10 * ac + 15 * 0
    BY ONLY <1>1, <1>4, <2>1, a.breach = 0 DEF ad, ac
  <2>2. ad \in Int /\ ac \in Int /\ ad <= 97 /\ ac <= 94
    BY <1>1
  <2>3. BN!Overall(b) = 15 * bd + 20 * f + 20 * bv + 20 * bt + 10 * bc + 15 * bb
    BY <1>5, <2>1
  <2>4. /\ bd \in Int /\ bv \in Int /\ bt \in Int /\ bc \in Int /\ bb \in Int
        /\ bd >= 2 /\ bv >= 0 /\ bt >= 80 /\ bc >= 2 /\ bb >= 50
    BY <1>2, <1>3 
  <2> HIDE DEF ad, ac, bd, bv, bt, bc, bb
  <2> QED
    BY <2>1, <2>2, <2>3, <2>4, <2>5
<1> QED
  BY <1>6, RankingOfTwo

-----------------------------------------------------------------------------
(* Criticality.                                                                *)

\* The statistics of the criticality scores are those of Statistics.
LEMMA CRStatistics ==
  /\ \A s : CR!Total(s) = Total(s)
  /\ \A s : CR!Spread(s) = Spread(s)
  /\ \A s : CR!Ordered(s) = Ordered(s)
  /\ \A s, p : CR!NearestRank(s, p) = NearestRank(s, p)
  /\ \A s : CR!ToSet(s) = ToSet(s)
  /\ \A S : CR!Cardinality(S) = Cardinality(S)
<1>1. \A s : CR!Total(s) = Total(s)
  BY DEF CR!Total, CR!SumFunction, CR!SumFunctionOnSet, SumFunctionOnSet, CR!FoldFunctionOnSet,
         FoldFunctionOnSet, CR!MapThenFoldSet, MapThenFoldSet, Total, SumFunction
<1>2. \A s : CR!Ordered(s) = Ordered(s)
  BY DEF CR!Ordered, Ordered, CR!Count, Count, CR!ToSet, ToSet, CR!Cardinality, Cardinality, CR!IsFiniteSet, IsFiniteSet
<1>3. \A s : CR!Spread(s) = Spread(s)
  BY <1>1 DEF CR!Spread, Spread
<1>4. \A s, p : CR!NearestRank(s, p) = NearestRank(s, p)
  BY <1>2 DEF CR!NearestRank, NearestRank, CR!Most, Most, CR!Least, Least
<1>5. \A s : CR!ToSet(s) = ToSet(s)
  BY DEF CR!ToSet, ToSet
<1>6. \A S : CR!Cardinality(S) = Cardinality(S)
  BY DEF CR!Cardinality, Cardinality, CR!IsFiniteSet, IsFiniteSet
<1> QED
  BY <1>1, <1>2, <1>3, <1>4, <1>5, <1>6

\* A score is at least 1 and at most 5.
LEMMA ScoreRange ==
  ASSUME NEW num, NEW den, NEW limits
  PROVE  CR!Score(num, den, limits) \in 1..5
<1> DEFINE K == {i \in 1..4 : 100 * num >= limits[i] * den}
<1>1. CR!Score(num, den, limits) = 1 + Cardinality(K)
  BY CRStatistics DEF CR!Score
<1>2. \A i \in K : i \in 1..4
  OBVIOUS
<1> HIDE DEF K
<1>3. Cardinality(K) \in 0..4
  BY ONLY <1>2, 4 \in Nat, PositionsBounded
<1> QED
  BY <1>1, <1>3

\* The three scores of a sample are between 1 and 5.
LEMMA ScoresInRange ==
  ASSUME NEW d
  PROVE  CR!DurationScore(d) \in 1..5 /\ CR!VariabilityScore(d) \in 1..5 /\ CR!TailScore(d) \in 1..5
<1>1. CR!DurationScore(d) \in 1..5
  BY ScoreRange DEF CR!DurationScore
<1>2. CR!TailScore(d) \in 1..5
  BY ScoreRange DEF CR!TailScore
<1>3. CR!VariabilityScore(d) \in 1..5
  <2> DEFINE K == {i \in 1..4 : 10000 * Len(d) * CR!Spread(d) >=
                       <<20, 50, 80, 120>>[i] * <<20, 50, 80, 120>>[i] * (Len(d) - 1) * CR!Total(d) * CR!Total(d)}
  <2>1. CR!VariabilityScore(d) = IF Len(d) < 2 \/ CR!Total(d) <= 0 THEN 1 ELSE 1 + Cardinality(K)
    BY CRStatistics DEF CR!VariabilityScore
  <2>2. \A i \in K : i \in 1..4
    OBVIOUS
  <2> HIDE DEF K
  <2>3. Cardinality(K) \in 0..4
    BY ONLY <2>2, 4 \in Nat, PositionsBounded
  <2> QED
    BY <2>1, <2>3
<1> QED
  BY <1>1, <1>2, <1>3

\* A sample of one positive value repeated neither varies nor has a tail.
LEMMA ConstantScores ==
  ASSUME NEW n \in Nat, n > 0, NEW h \in Nat, h > 0, NEW d \in [1..n -> Int], \A i \in 1..n : d[i] = h
  PROVE  CR!VariabilityScore(d) = 1 /\ CR!TailScore(d) = 1
<1>1. Total(d) = n * h /\ Spread(d) = 0 /\ (\A k \in 1..n : Ordered(d)[k] = h) /\ NearestRank(d, 90) = h
  <2>1. h \in Int
    OBVIOUS
  <2>2. Total(d) = n * h /\ Spread(d) = 0 /\ (\A k \in 1..n : Ordered(d)[k] = h) /\ \A p \in 0..100 : NearestRank(d, p) = h
    BY <2>1, ConstantSample
  <2> QED
    BY <2>2
<1>2. Len(d) = n /\ Cardinality({}) = 0
  BY FS_EmptySet
<1>3. CR!TailScore(d) = 1
  <2> DEFINE limits == <<130, 180, 250, 350>>
             K == {i \in 1..4 : 100 * h >= limits[i] * h}
  <2>1. n \div 2 + 1 \in 1..n
    OBVIOUS
  <2>2. CR!Ordered(d)[n \div 2 + 1] = h /\ CR!NearestRank(d, 90) = h
    BY <1>1, <2>1, CRStatistics
  <2>3. CR!TailScore(d) = IF h <= 0 THEN 1 ELSE CR!Score(h, h, limits)
    BY <1>2, <2>2 DEF CR!TailScore
  <2>4. CR!Score(h, h, limits) = 1 + Cardinality(K)
    BY CRStatistics DEF CR!Score
  <2>5. K = {}
    <3> SUFFICES ASSUME NEW i \in 1..4, 100 * h >= limits[i] * h PROVE FALSE
      OBVIOUS
    <3>1. limits[1] = 130 /\ limits[2] = 180 /\ limits[3] = 250 /\ limits[4] = 350
      OBVIOUS
    <3>2. i = 1 \/ i = 2 \/ i = 3 \/ i = 4
      OBVIOUS
    <3> HIDE DEF limits
    <3> QED
      BY <3>1, <3>2
  <2> HIDE DEF K, limits
  <2> QED
    BY <2>3, <2>4, <2>5, <1>2
<1>4. CR!VariabilityScore(d) = 1
  <2> DEFINE T == n * h
             l == <<20, 50, 80, 120>>
             K == {i \in 1..4 : 10000 * Len(d) * CR!Spread(d) >= l[i] * l[i] * (Len(d) - 1) * CR!Total(d) * CR!Total(d)}
  <2>1. CR!VariabilityScore(d) = IF Len(d) < 2 \/ CR!Total(d) <= 0 THEN 1 ELSE 1 + Cardinality(K)
    BY CRStatistics DEF CR!VariabilityScore
  <2>4. CR!Total(d) = T /\ CR!Spread(d) = 0
    BY <1>1, CRStatistics
  <2>2. ASSUME n >= 2, NEW i \in K PROVE FALSE
    <3>1. 10000 * n * 0 = 0
      OBVIOUS
    <3>2. l[i] \in Nat /\ l[i] > 0
      <4>1. l[1] = 20 /\ l[2] = 50 /\ l[3] = 80 /\ l[4] = 120
        OBVIOUS
      <4>2. i = 1 \/ i = 2 \/ i = 3 \/ i = 4
        OBVIOUS
      <4> HIDE DEF l, K
      <4> QED
        BY <4>1, <4>2
    <3>3. 0 >= l[i] * l[i] * (n - 1) * T * T
      <4>1. 10000 * Len(d) * CR!Spread(d) >= l[i] * l[i] * (Len(d) - 1) * CR!Total(d) * CR!Total(d)
        BY DEF K
      <4> HIDE DEF l, T
      <4>2. 10000 * n * 0 >= l[i] * l[i] * (n - 1) * T * T
        BY ONLY <4>1, <2>4, <1>2
      <4> QED
        BY ONLY <4>2, <3>1
    <3>4. T \in Nat /\ T > 0 /\ n - 1 \in Nat /\ n - 1 > 0
      BY <2>2
    <3>5. \A x, y \in Nat : x > 0 /\ y > 0 => x * y \in Nat /\ x * y > 0
      OBVIOUS
    <3> DEFINE u == l[i]
               m == n - 1
    <3>6. u \in Nat /\ u > 0 /\ m \in Nat /\ m > 0
      BY <3>2, <3>4
    <3>7. 0 >= u * u * m * T * T
      BY <3>3
    <3> HIDE DEF u, m, T
    <3>8. u * u \in Nat /\ u * u > 0
      BY <3>5, <3>6
    <3>9. u * u * m \in Nat /\ u * u * m > 0
      BY <3>5, <3>6, <3>8
    <3>10. u * u * m * T \in Nat /\ u * u * m * T > 0
      BY <3>5, <3>4, <3>9
    <3>11. u * u * m * T * T \in Nat /\ u * u * m * T * T > 0
      BY <3>5, <3>4, <3>10
    <3> QED
      BY <3>7, <3>11
  <2>3. n >= 2 => K = {}
    <3> HIDE DEF K
    <3> QED
      BY <2>2
  <2> HIDE DEF K, T
  <2>5. n < 2 \/ n >= 2
    OBVIOUS
  <2>6. n >= 2 => Cardinality(K) = 0
    BY ONLY <2>3, <1>2
  <2>7. n >= 2 => CR!VariabilityScore(d) = 1
    BY <2>1, <2>6
  <2>8. n < 2 => CR!VariabilityScore(d) = 1
    BY <2>1, <1>2
  <2> QED
    BY ONLY <2>5, <2>7, <2>8
<1> QED
  BY <1>3, <1>4

\* The criticality property of every sample of positive durations.
LEMMA LongStableNeverCritical ==
  ASSUME NEW n \in Nat, n > 0, NEW d \in [1..n -> Int], \A i \in 1..n : d[i] > 0
  PROVE  CR!LongStableIsNotCritical(d)
<1> DEFINE a == CR!DurationScore(d)
           b == CR!VariabilityScore(d)
           c == CR!TailScore(d)
<1>1. a \in 1..5 /\ b \in 1..5 /\ c \in 1..5
  BY ScoresInRange
<1>2. CR!Overall3(d) = a + b + c
  BY DEF CR!Overall3
<1>3. ASSUME Cardinality(ToSet(d)) = 1 PROVE b = 1 /\ c = 1
  <2>1. \A i \in 1..n : d[i] = d[1]
    BY <1>3, OneValueIsConstant
  <2>2. d[1] \in Nat /\ d[1] > 0
    OBVIOUS
  <2> DEFINE h == d[1]
  <2>3. h \in Nat /\ h > 0 /\ \A i \in 1..n : d[i] = h
    BY <2>1, <2>2
  <2> HIDE DEF h
  <2> QED
    BY <2>3, ConstantScores
<1> HIDE DEF a, b, c
<1>4. b = 1 /\ c = 1 => CR!Band(d) \in {"LOW", "MODERATE"}
  <2> SUFFICES ASSUME b = 1, c = 1 PROVE CR!Band(d) \in {"LOW", "MODERATE"}
    OBVIOUS
  <2> DEFINE o == CR!Overall3(d)
  <2>1. o \in 3..7
    BY <1>1, <1>2
  <2>2. CASE o < 6
    BY <2>1, <2>2 DEF CR!Band
  <2>3. CASE ~(o < 6)
    <3>1. o \in 6..8 /\ ~(o \in 9..11)
      BY <2>1, <2>3
    <3> QED
      BY <2>3, <3>1 DEF CR!Band
  <2> QED
    BY <2>2, <2>3
<1>5. c = 1 => CR!Band(d) # "CRITICAL"
  <2> SUFFICES ASSUME c = 1 PROVE CR!Band(d) # "CRITICAL"
    OBVIOUS
  <2> DEFINE o == CR!Overall3(d)
  <2>1. o \in 3..11
    BY <1>1, <1>2
  <2>2. o < 6 \/ o \in 6..8 \/ o \in 9..11
    BY <2>1
  <2> HIDE DEF o
  <2>3. CR!Band(d) = CASE o < 6 -> "LOW" [] o \in 6..8 -> "MODERATE" [] o \in 9..11 -> "HIGH" [] OTHER -> "CRITICAL"
    BY DEF CR!Band, o
  <2>4. CASE o < 6
    <3>1. ~(o \in 6..8) /\ ~(o \in 9..11)
      BY <2>1, <2>4
    <3> QED
      BY <2>3, <2>4, <3>1
  <2>5. CASE o \in 6..8
    <3>1. ~(o < 6) /\ ~(o \in 9..11)
      BY <2>1, <2>5
    <3> QED
      BY <2>3, <2>5, <3>1
  <2>6. CASE o \in 9..11
    <3>1. ~(o < 6) /\ ~(o \in 6..8)
      BY <2>1, <2>6
    <3> QED
      BY <2>3, <2>6, <3>1
  <2> QED
    BY <2>2, <2>4, <2>5, <2>6
<1>6. CR!Cardinality(CR!ToSet(d)) = Cardinality(ToSet(d)) /\ CR!TailScore(d) = c
  BY CRStatistics DEF c
<1> QED
  BY <1>3, <1>4, <1>5, <1>6 DEF CR!LongStableIsNotCritical

\* A stage that is only long is neither the bottleneck nor critical, for samples of any size.
THEOREM LongStableStageRanksBelowHolds == AlgorithmsSpec => []LongStableStageRanksBelow
<1>1. AlgorithmsInit => LongStableStageRanksBelow
  BY DEF AlgorithmsInit, LongStableStageRanksBelow
<1>2. ASSUME AlgorithmsNext PROVE LongStableStageRanksBelow'
  <2>1. ASSUME probe'.of = "stages" PROVE LongStableStageRanksBelow'
    <3>1. PickStages
      BY <1>2, <2>1, PickedBy
    <3>9. PICK n \in 2..MaxSample, h \in {12, 30, 47} : \E short \in [1..n -> {1, 2, 5, 9, 11}] :
              probe' = [of |-> "stages", long |-> [i \in 1..n |-> h], short |-> short]
      BY <3>1 DEF PickStages, Pick
    <3>2. PICK short \in [1..n -> {1, 2, 5, 9, 11}] :
              probe' = [of |-> "stages", long |-> [i \in 1..n |-> h], short |-> short]
      BY <3>9
    <3> DEFINE long == [i \in 1..n |-> h]
    <3>3. probe'.long = long /\ probe'.short = short
      BY <3>2
    <3>4. n \in Nat /\ n > 1 /\ n > 0 /\ h \in 12..47
      BY SampleType
    <3>5. long \in [1..n -> Int] /\ (\A i \in 1..n : long[i] = h) /\ \A i \in 1..n : long[i] > 0
      BY <3>4
    <3>6. short \in [1..n -> Int] /\ (\A i \in 1..n : 1 <= short[i] /\ short[i] <= 11) /\ \A i \in 1..n : short[i] > 0
      OBVIOUS
    <3> HIDE DEF long
    <3>7. BN!LongStableRanksBelow(long, short, 50)
      BY <3>4, <3>5, <3>6, LongStableAlwaysRanksBelow
    <3>8. CR!LongStableIsNotCritical(long) /\ CR!LongStableIsNotCritical(short)
      BY <3>4, <3>5, <3>6, LongStableNeverCritical
    <3> QED
      BY <2>1, <3>3, <3>7, <3>8 DEF LongStableStageRanksBelow
  <2> QED
    BY <2>1 DEF LongStableStageRanksBelow
<1>3. LongStableStageRanksBelow /\ UNCHANGED probe => LongStableStageRanksBelow'
  BY DEF LongStableStageRanksBelow
<1> QED
  BY <1>1, <1>2, <1>3, PTL DEF AlgorithmsSpec

-----------------------------------------------------------------------------
(* Lead times.                                                                 *)

\* The statistics of the lead times are those of Statistics.
LEMMA LTStatistics ==
  /\ \A s : LT!Total(s) = Total(s)
  /\ \A s : LT!Spread(s) = Spread(s)
  /\ \A s : LT!Median2(s) = Median2(s)
  /\ \A s, p : LT!Quantile100(s, p) = Quantile100(s, p)
  /\ \A s : LT!ToSet(s) = ToSet(s)
  /\ \A S : LT!Min(S) = Min(S) /\ LT!Max(S) = Max(S)
  /\ \A S : LT!Cardinality(S) = Cardinality(S)
  /\ \A s, K : LT!Picked(s, K) = Picked(s, K)
<1>1. \A s : LT!Total(s) = Total(s)
  BY DEF LT!Total, LT!SumFunction, LT!SumFunctionOnSet, SumFunctionOnSet, LT!FoldFunctionOnSet,
         FoldFunctionOnSet, LT!MapThenFoldSet, MapThenFoldSet, Total, SumFunction
<1>2. \A s : LT!Ordered(s) = Ordered(s)
  BY DEF LT!Ordered, Ordered, LT!Count, Count, LT!ToSet, ToSet, LT!Cardinality, Cardinality, LT!IsFiniteSet, IsFiniteSet
<1>3. \A s : LT!Spread(s) = Spread(s)
  BY <1>1 DEF LT!Spread, Spread
<1>4. \A s : LT!Median2(s) = Median2(s)
  BY <1>2 DEF LT!Median2, Median2
<1>5. \A s, p : LT!Quantile100(s, p) = Quantile100(s, p)
  BY <1>2 DEF LT!Quantile100, Quantile100, LT!Least, Least
<1>6. \A s : LT!ToSet(s) = ToSet(s)
  BY DEF LT!ToSet, ToSet
<1>7. \A S : LT!Cardinality(S) = Cardinality(S)
  BY DEF LT!Cardinality, Cardinality, LT!IsFiniteSet, IsFiniteSet
<1>8. \A S : LT!Min(S) = Min(S) /\ LT!Max(S) = Max(S)
  BY DEF LT!Min, Min, LT!Max, Max
<1>9. \A s, K : LT!Picked(s, K) = Picked(s, K)
  BY DEF LT!Picked, Picked, LT!Nth, Nth, LT!Cardinality, Cardinality, LT!IsFiniteSet, IsFiniteSet
<1> QED
  BY <1>1, <1>3, <1>4, <1>5, <1>6, <1>7, <1>8, <1>9

\* The aggregate of any sample has its quantiles in order, singles out nothing of the middle half
\* and counts every value in one bin.
THEOREM AggregateIsAlwaysSound ==
  ASSUME NEW n \in Nat, n > 0, NEW d \in [1..n -> Int]
  PROVE  LT!AggregateIsSound(d)
<1> DEFINE a == LT!Aggregate(d)
           o == Ordered(d)
           Q(p) == Quantile100(d, p)
<1>1. /\ a.least = Q(0) /\ a.p25 = Q(25) /\ a.median = Q(50) /\ a.p75 = Q(75) /\ a.p90 = Q(90)
      /\ a.p95 = Q(95) /\ a.most = Q(100)
  <2>1. /\ a.least = 100 * Min(ToSet(d)) /\ a.p25 = Q(25) /\ a.median = 50 * Median2(d) /\ a.p75 = Q(75)
        /\ a.p90 = Q(90) /\ a.p95 = Q(95) /\ a.most = 100 * Max(ToSet(d))
    BY LTStatistics DEF LT!Aggregate
  <2>2. Min(ToSet(d)) = o[1] /\ Max(ToSet(d)) = o[n]
    BY OrderedBounds
  <2>3. Q(0) = 100 * o[1] /\ Q(50) = 50 * Median2(d) /\ Q(100) = 100 * o[n]
    BY QuantileLandmarks
  <2> QED
    BY <2>1, <2>2, <2>3
<1>2. \A p, q \in 0..100 : p <= q => Q(p) <= Q(q)
  BY QuantilesAscend
<1> HIDE DEF Q
<1>3. /\ a.least <= a.p25 /\ a.p25 <= a.median /\ a.median <= a.p75
      /\ a.p75 <= a.p90 /\ a.p90 <= a.p95 /\ a.p95 <= a.most
  <2>1. Q(0) <= Q(25) /\ Q(25) <= Q(50) /\ Q(50) <= Q(75) /\ Q(75) <= Q(90) /\ Q(90) <= Q(95) /\ Q(95) <= Q(100)
    BY <1>2
  <2> HIDE DEF a
  <2> QED
    BY ONLY <1>1, <2>1
<1>4. LT!OutlierPositions(d) = {i \in 1..n : Beyond(d, i)}
  <2>1. DOMAIN d = 1..n
    OBVIOUS
  <2>2. LT!OutlierPositions(d) = {i \in DOMAIN d : 200 * d[i] < 2 * a.p25 - 3 * (a.p75 - a.p25) \/ 200 * d[i] > 2 * a.p75 + 3 * (a.p75 - a.p25)}
    BY DEF LT!OutlierPositions
  <2>3. \A i \in 1..n : Beyond(d, i) <=> (200 * d[i] < 2 * Q(25) - 3 * (Q(75) - Q(25)) \/ 200 * d[i] > 2 * Q(75) + 3 * (Q(75) - Q(25)))
    BY DEF Beyond, Q
  <2> HIDE DEF a
  <2> QED
    BY ONLY <2>1, <2>2, <2>3, <1>1
<1>5. \A i \in 1..n : /\ Beyond(d, i) => 100 * d[i] < Q(25) \/ 100 * d[i] > Q(75)
                      /\ Spread(d) = 0 => ~Beyond(d, i)
                      /\ n <= 3 => ~Beyond(d, i)
  BY FenceFacts DEF Q
<1>6. ASSUME Min(ToSet(d)) < Max(ToSet(d)) PROVE LT!Total([b \in 1..5 |-> LT!Histogram(d)[b - 1]]) = n
  <2> DEFINE lo == Min(ToSet(d))
             step == Max(ToSet(d)) - lo
             h == LT!Histogram(d)
             g == [b \in 1..5 |-> h[b - 1]]
  <2>1. /\ lo = o[1] /\ Max(ToSet(d)) = o[n] /\ \A i \in 1..n : o[1] <= d[i] /\ d[i] <= o[n]
    BY OrderedBounds
  <2>2. o[1] \in Int /\ o[n] \in Int
    BY OrderedFacts
  <2>3. lo \in Int /\ step \in Nat /\ step > 0 /\ \A i \in 1..n : d[i] \in lo..(lo + step)
    BY <1>6, <2>1, <2>2
  <2>4. h = [b \in 0..4 |-> LT!Cardinality({i \in DOMAIN d : InBin(lo, step, d[i], b)})]
    BY LTStatistics DEF LT!Histogram, LT!Count, InBin
  <2> HIDE DEF lo, step, h
  <2>5. \A b \in 1..5 : g[b] = Cardinality({i \in 1..n : InBin(lo, step, d[i], b - 1)})
    <3> TAKE b \in 1..5
    <3>1. b - 1 \in 0..4 /\ DOMAIN d = 1..n /\ g[b] = h[b - 1]
      OBVIOUS
    <3>2. h[b - 1] = LT!Cardinality({i \in DOMAIN d : InBin(lo, step, d[i], b - 1)})
      BY <2>4, <3>1
    <3> QED
      BY <3>1, <3>2, LTStatistics
  <2>6. DOMAIN g = 1..5
    OBVIOUS
  <2> HIDE DEF g
  <2>7. SumFunctionOnSet(g, 1..5) = n
    <3>1. CountsBins(n, d, lo, step, g)
      BY <2>5 DEF CountsBins
    <3> QED
      BY ONLY <2>3, <3>1, n \in Nat, d \in [1..n -> Int], BinsCountAll
  <2>8. LT!Total(g) = n
    BY <2>6, <2>7, LTStatistics DEF Total, SumFunction
  <2> QED
    BY <2>8 DEF g, h
<1>7. Len(d) = n /\ LT!Spread(d) = Spread(d) /\ LT!Min(LT!ToSet(d)) = Min(ToSet(d)) /\ LT!Max(LT!ToSet(d)) = Max(ToSet(d))
  BY LTStatistics
<1>8. \A i \in LT!OutlierPositions(d) : 100 * d[i] < a.p25 \/ 100 * d[i] > a.p75
  BY <1>1, <1>4, <1>5
<1>9. Spread(d) = 0 => LT!OutlierPositions(d) = {}
  BY <1>4, <1>5
<1>10. n <= 3 => LT!OutlierPositions(d) = {}
  BY <1>4, <1>5
<1> HIDE DEF a
<1>11. LT!AggregateIsSound(d) <=>
         /\ a.least <= a.p25 /\ a.p25 <= a.median /\ a.median <= a.p75
         /\ a.p75 <= a.p90 /\ a.p90 <= a.p95 /\ a.p95 <= a.most
         /\ \A i \in LT!OutlierPositions(d) : 100 * d[i] < a.p25 \/ 100 * d[i] > a.p75
         /\ LT!Min(LT!ToSet(d)) < LT!Max(LT!ToSet(d)) => LT!Total([b \in 1..5 |-> LT!Histogram(d)[b - 1]]) = Len(d)
         /\ LT!Spread(d) = 0 => LT!OutlierPositions(d) = {}
         /\ Len(d) <= 3 => LT!OutlierPositions(d) = {}
  BY DEF LT!AggregateIsSound, a
<1> QED
  BY <1>3, <1>6, <1>7, <1>8, <1>9, <1>10, <1>11

\* The occurrence an event resolves to is eligible, the governed one if that is.
LEMMA AlwaysResolvesEligible ==
  ASSUME NEW occs \in SUBSET Occurrence, NEW selected \in occs \cup {None}, NEW selection \in {"first", "last"}
  PROVE  LT!ResolvesEligible(occs, selected, selection)
<1> DEFINE live == LT!Eligible(occs, TRUE)
           r == LT!Resolve(occs, selected, selection, TRUE)
           Is(o, k, t) == o.index = k /\ o.time = t
<1>1. live = {p \in occs : ~p.superseded /\ ~p.quarantined}
  BY DEF LT!Eligible
<1>2. \A o \in live : None # o /\ (Is(o, 1, 0) \/ Is(o, 1, 3) \/ Is(o, 2, 0) \/ Is(o, 2, 3))
  BY <1>1, NoneIsNoValue DEF Occurrence
<1> HIDE DEF live
<1>3. live # {} => \E o \in live : \A p \in live : LT!Earlier(o, p)
  <2>1. CASE \E o \in live : Is(o, 1, 0)
    BY <2>1, <1>2 DEF LT!Earlier
  <2>2. CASE (\A o \in live : ~Is(o, 1, 0)) /\ \E o \in live : Is(o, 1, 3)
    BY <2>2, <1>2 DEF LT!Earlier
  <2>3. CASE (\A o \in live : ~Is(o, 1, 0) /\ ~Is(o, 1, 3)) /\ \E o \in live : Is(o, 2, 0)
    BY <2>3, <1>2 DEF LT!Earlier
  <2>4. CASE \A o \in live : Is(o, 2, 3)
    BY <2>4, <1>2 DEF LT!Earlier
  <2> QED
    BY <2>1, <2>2, <2>3, <2>4, <1>2
<1>4. live # {} => \E o \in live : \A p \in live : LT!Earlier(p, o)
  <2>1. CASE \E o \in live : Is(o, 2, 3)
    BY <2>1, <1>2 DEF LT!Earlier
  <2>2. CASE (\A o \in live : ~Is(o, 2, 3)) /\ \E o \in live : Is(o, 2, 0)
    BY <2>2, <1>2 DEF LT!Earlier
  <2>3. CASE (\A o \in live : ~Is(o, 2, 3) /\ ~Is(o, 2, 0)) /\ \E o \in live : Is(o, 1, 3)
    BY <2>3, <1>2 DEF LT!Earlier
  <2>4. CASE \A o \in live : Is(o, 1, 0)
    BY <2>4, <1>2 DEF LT!Earlier
  <2> QED
    BY <2>1, <2>2, <2>3, <2>4, <1>2
<1>5. r = IF selected # None /\ selected \in live THEN selected
          ELSE IF live = {} THEN None
          ELSE IF selection = "last" THEN CHOOSE o \in live : \A p \in live : LT!Earlier(p, o)
          ELSE CHOOSE o \in live : \A p \in live : LT!Earlier(o, p)
  BY DEF LT!Resolve, live
<1> HIDE DEF r
<1>6. /\ r = None <=> live = {}
      /\ r # None => r \in live
      /\ selected \in live => r = selected
  <2>1. CASE selected \in live
    BY <2>1, <1>2, <1>5
  <2>2. CASE selected \notin live /\ live = {}
    BY <2>2, <1>5
  <2>3. CASE selected \notin live /\ live # {}
    <3>1. r \in live
      BY <2>3, <1>3, <1>4, <1>5
    <3> QED
      BY <2>3, <3>1, <1>2
  <2> QED
    BY <2>1, <2>2, <2>3
<1> QED
  BY <1>1, <1>6 DEF LT!ResolvesEligible, r

\* The service a movement's delay is taken from: a record of the movement when there is one.
LEMMA ExecutionServiceFacts ==
  ASSUME NEW n \in Nat, NEW services, DOMAIN services = 1..n, Len(services) = n, services = <<>> <=> n = 0, NEW m
  PROVE  /\ LT!ExecutionService(services, m) \in 0..n
         /\ (\E j \in 1..n : services[j].movement = m) =>
                LT!ExecutionService(services, m) # 0 /\ services[LT!ExecutionService(services, m)].movement = m
<1> DEFINE typed == {i \in DOMAIN services : services[i].movement = m}
           e == LT!ExecutionService(services, m)
<1>1. e = IF typed # {} THEN CHOOSE i \in typed : \A j \in typed : i <= j
          ELSE IF services = <<>> THEN 0
          ELSE IF m = "Arrival" THEN 1
          ELSE IF Len(services) > 1 THEN Len(services) ELSE 0
  BY DEF LT!ExecutionService
<1>2. typed # {} => \E i \in typed : \A j \in typed : i <= j
  <2>1. typed \subseteq Nat
    OBVIOUS
  <2> HIDE DEF typed
  <2> QED
    BY <2>1, LeastNumber
<1>3. \A i \in typed : i \in 1..n /\ services[i].movement = m
  OBVIOUS
<1>4. (\E j \in 1..n : services[j].movement = m) => typed # {}
  OBVIOUS
<1> HIDE DEF typed, e
<1>5. CASE typed # {}
  <2>1. e \in typed
    BY <1>1, <1>2, <1>5
  <2> QED
    BY <2>1, <1>3 DEF e
<1>6. CASE typed = {}
  BY <1>1, <1>4, <1>6 DEF e
<1> QED
  BY <1>5, <1>6

\* Arrival and sailing delays come from the services of their movement.
LEMMA DelaysAlwaysKeepServicesApart ==
  ASSUME NEW n \in Nat, NEW services, DOMAIN services = 1..n, Len(services) = n, services = <<>> <=> n = 0,
         \A i \in 1..n : services[i].scheduled \in Int \cup {None} /\ services[i].served \in Int \cup {None}
  PROVE  LT!DelaysKeepServicesApart(services)
<1> DEFINE e(m) == LT!ExecutionService(services, m)
           has(m) == \E j \in 1..n : services[j].movement = m
<1>1. \A m : e(m) \in 0..n /\ (has(m) => e(m) # 0 /\ services[e(m)].movement = m)
  BY ExecutionServiceFacts
<1>2. ASSUME e("Arrival") = e("Sailing")
      PROVE  \E m \in {"Arrival", "Sailing"} : \A i \in 1..n : services[i].movement \notin {"Arrival", "Sailing"} \ {m}
  <2>1. ~has("Arrival") \/ ~has("Sailing")
    <3>1. "Arrival" # "Sailing"
      OBVIOUS
    <3> HIDE DEF e, has
    <3> QED
      BY <1>1, <1>2, <3>1
  <2>2. CASE ~has("Arrival")
    <3> WITNESS "Sailing" \in {"Arrival", "Sailing"}
    <3> QED
      BY <2>2
  <2>3. CASE ~has("Sailing")
    <3> WITNESS "Arrival" \in {"Arrival", "Sailing"}
    <3> QED
      BY <2>3
  <2> QED
    BY <2>1, <2>2, <2>3
<1>3. ASSUME NEW m
      PROVE  LET i == LT!ExecutionService(services, m)
                 d == LT!ExecutionDelay(services, m)
             IN  /\ (\E j \in DOMAIN services : services[j].movement = m) => services[i].movement = m
                 /\ d.hours # None =>
                        /\ LT!EarlyDelivery(d).hours <= 0
                        /\ d.hours < 0 => LT!EarlyDelivery(d) = d
                        /\ d = LT!ServiceExecutionDelay(services[i].scheduled, services[i].served)
  <2> DEFINE i == e(m)
             d == LT!ExecutionDelay(services, m)
             from == services[i].scheduled
             to == services[i].served
  <2>1. (\E j \in DOMAIN services : services[j].movement = m) => services[i].movement = m
    BY <1>1
  <2>2. d = IF i = 0 THEN LT!Unavailable ELSE IF from = None \/ to = None THEN LT!Unavailable ELSE LT!Available(to - from)
    BY DEF LT!ExecutionDelay
  <2>3. LT!Unavailable.hours = None
    BY DEF LT!Unavailable
  <2>4. ASSUME d.hours # None PROVE i # 0 /\ from # None /\ to # None /\ d = LT!Available(to - from)
    <3> HIDE DEF d, from, to, e
    <3> QED
      BY <2>2, <2>3, <2>4
  <2>5. i # 0 /\ from # None /\ to # None => from \in Int /\ to \in Int
    BY <1>1
  <2>6. ASSUME d.hours # None
        PROVE  /\ LT!EarlyDelivery(d).hours <= 0
               /\ d.hours < 0 => LT!EarlyDelivery(d) = d
               /\ d = LT!ServiceExecutionDelay(from, to)
    <3> HIDE DEF d, from, to, e
    <3>1. from \in Int /\ to \in Int /\ d = LT!Available(to - from) /\ from # None /\ to # None
      BY <2>4, <2>5, <2>6
    <3>2. d.hours = to - from /\ d = [status |-> "AVAILABLE", hours |-> d.hours] /\ d.hours \in Int
      BY <3>1 DEF LT!Available
    <3>3. d = LT!ServiceExecutionDelay(from, to)
      BY <3>1 DEF LT!ServiceExecutionDelay, LT!Difference
    <3>4. LT!EarlyDelivery(d) = [status |-> "AVAILABLE", hours |-> IF d.hours < 0 THEN d.hours ELSE 0]
      BY <2>6 DEF LT!EarlyDelivery, LT!Available
    <3>5. LT!EarlyDelivery(d).hours = IF d.hours < 0 THEN d.hours ELSE 0
      BY <3>4
    <3> QED
      BY <3>2, <3>3, <3>4, <3>5
  <2> QED
    BY <2>1, <2>6
<1> QED
  BY <1>2, <1>3 DEF LT!DelaysKeepServicesApart

\* Recomputing leaves one result per call and the rows of other calls as they were.
LEMMA AlwaysOneResultPerCall ==
  ASSUME NEW n \in Nat, NEW C, NEW R, NEW rows \in [1..n -> [call : C, result : R]],
         NEW calls, IsFiniteSet(calls), calls \subseteq C, NEW result \in [calls -> R]
  PROVE  LT!OneResultPerCall(rows, calls, result)
<1> DEFINE first == {i \in DOMAIN rows : /\ rows[i].call \in calls
                                         /\ \A j \in 1..(i - 1) : rows[j].call # rows[i].call}
           pairs == [i \in DOMAIN rows |-> <<i, rows[i]>>]
           KR == {i \in DOMAIN pairs : pairs[i][1] \in first \/ pairs[i][2].call \notin calls}
           K == {i \in 1..n : i \in first \/ rows[i].call \notin calls}
           kept == Picked(pairs, K)
           missing == calls \ {rows[i].call : i \in first}
           new(c) == [call |-> c, result |-> result[c]]
           S == {new(c) : c \in missing}
           A == [i \in DOMAIN kept |->
                    IF kept[i][2].call \in calls THEN [kept[i][2] EXCEPT !.result = result[kept[i][2].call]] ELSE kept[i][2]]
           B == Enumeration(S)
           m == Cardinality(K)
           b == Cardinality(S)
           X == [call : C, result : R]
           after == LT!UpsertResults(rows, calls, result)
<1>1. KR = K
  <2>1. DOMAIN pairs = 1..n /\ \A i \in 1..n : pairs[i] = <<i, rows[i]>>
    OBVIOUS
  <2>2. \A i \in 1..n : pairs[i][1] = i /\ pairs[i][2] = rows[i]
    BY <2>1
  <2> HIDE DEF pairs, first
  <2> QED
    BY <2>1, <2>2
<1>2. after = A \o B
  <2>1. after = [i \in DOMAIN LT!Picked(pairs, KR) |->
                    IF LT!Picked(pairs, KR)[i][2].call \in calls
                    THEN [LT!Picked(pairs, KR)[i][2] EXCEPT !.result = result[LT!Picked(pairs, KR)[i][2].call]]
                    ELSE LT!Picked(pairs, KR)[i][2]]
                \o LT!SetToSeq(S)
    BY DEF LT!UpsertResults, LT!Filter
  <2>2. LT!Picked(pairs, KR) = kept
    BY <1>1, LTStatistics
  <2>3. LT!SetToSeq(S) = B
    BY LTStatistics DEF LT!SetToSeq, Enumeration, LT!IsInjective, IsInjective
  <2> HIDE DEF kept, S, B, KR, pairs
  <2> QED
    BY <2>1, <2>2, <2>3
<1>3. IsFiniteSet(K) /\ (\A i \in K : i \in Int) /\ m \in Nat
  <2>1. \A i \in K : i \in 1..n
    OBVIOUS
  <2> HIDE DEF K
  <2>2. IsFiniteSet(K) /\ \A i \in K : i \in Int
    BY <2>1, PositionsFinite
  <2> QED
    BY <2>2, FS_CardinalityType
<1>4. \A k \in 1..m : Nth(K, k) \in K /\ Nth(K, k) \in 1..n /\ kept[k][2] = rows[Nth(K, k)]
  <2>1. \A k \in 1..m : Nth(K, k) \in K /\ kept[k] = pairs[Nth(K, k)]
    <3> HIDE DEF K, pairs
    <3> QED
      BY <1>3, NthFacts, PickedFacts
  <2>2. \A i \in K : i \in 1..n
    OBVIOUS
  <2>3. \A i \in 1..n : pairs[i][2] = rows[i]
    OBVIOUS
  <2> HIDE DEF K, pairs, kept, m
  <2> QED
    BY <2>1, <2>2, <2>3
<1>5. DOMAIN kept = 1..m
  <2> HIDE DEF K, pairs
  <2> QED
    BY <1>3, PickedFacts
<1>6. \A i \in 1..n : rows[i] \in X /\ rows[i].call \in C
  OBVIOUS
<1> HIDE DEF kept, m, pairs, KR
<1>7. A \in [1..m -> X] /\ \A k \in 1..m : /\ A[k].call = rows[Nth(K, k)].call
                                           /\ rows[Nth(K, k)].call \in calls => A[k] = new(rows[Nth(K, k)].call)
                                           /\ rows[Nth(K, k)].call \notin calls => A[k] = rows[Nth(K, k)]
  <2>1. ASSUME NEW k \in 1..m
        PROVE  /\ A[k] \in X /\ A[k].call = rows[Nth(K, k)].call
               /\ rows[Nth(K, k)].call \in calls => A[k] = new(rows[Nth(K, k)].call)
               /\ rows[Nth(K, k)].call \notin calls => A[k] = rows[Nth(K, k)]
    <3> DEFINE r == rows[Nth(K, k)]
    <3>1. A[k] = IF r.call \in calls THEN [r EXCEPT !.result = result[r.call]] ELSE r
      BY <1>4, <1>5
    <3>2. r \in [call : C, result : R]
      BY <1>4, <1>6
    <3> HIDE DEF r, A, K
    <3>3. CASE r.call \in calls
      <4>1. result[r.call] \in R
        BY <3>3
      <4>2. [r EXCEPT !.result = result[r.call]] = [call |-> r.call, result |-> result[r.call]]
        BY <3>2
      <4>3. A[k] = [call |-> r.call, result |-> result[r.call]]
        BY <3>1, <3>3, <4>2
      <4>4. A[k] \in X /\ A[k].call = r.call
        BY <3>2, <4>1, <4>3
      <4> QED
        BY <3>3, <4>3, <4>4 DEF r
    <3>4. CASE r.call \notin calls
      <4>1. A[k] = r
        BY <3>1, <3>4
      <4> QED
        BY <3>2, <3>4, <4>1 DEF r
    <3> QED
      BY <3>3, <3>4
  <2>2. DOMAIN A = 1..m /\ A = [i \in DOMAIN A |-> A[i]]
    BY <1>5
  <2> HIDE DEF A, K, X
  <2> QED
    BY <2>1, <2>2
<1>8. /\ IsFiniteSet(S) /\ b \in Nat /\ B \in [1..b -> S]
      /\ \A x, y \in 1..b : B[x] = B[y] => x = y
      /\ \A y \in S : \E x \in 1..b : B[x] = y
  <2>1. IsFiniteSet(missing)
    BY FS_Subset
  <2> DEFINE f == [c \in missing |-> new(c)]
  <2>2. f \in [missing -> S]
    OBVIOUS
  <2>3. \A y \in S : \E c \in missing : f[c] = y
    OBVIOUS
  <2> HIDE DEF S, missing, f
  <2>4. IsFiniteSet(S)
    BY <2>1, <2>2, <2>3, ImageIsFinite
  <2>5. b \in Nat
    BY <2>4, FS_CardinalityType
  <2> QED
    BY <2>4, <2>5, Enumerated
<1>9. /\ \A x \in S : x.call \in missing /\ x = new(x.call) /\ x \in X
      /\ \A c \in missing : new(c) \in S /\ c \in calls
  OBVIOUS
<1> HIDE DEF A, B, b, S
<1>10. /\ DOMAIN after = 1..(m + b)
       /\ \A k \in 1..m : after[k] = A[k]
       /\ \A k \in (m + 1)..(m + b) : k - m \in 1..b /\ after[k] = B[k - m]
  <2>1. B \in [1..b -> X]
    <3> HIDE DEF X
    <3> QED
      BY <1>8, <1>9
  <2>2. A \in [1..m -> X]
    BY <1>7
  <2> HIDE DEF X, after, K, S
  <2>3. m \in Nat /\ b \in Nat
    BY <1>3, <1>8
  <2>4. /\ DOMAIN (A \o B) = 1..(m + b)
        /\ \A k \in 1..m : (A \o B)[k] = A[k]
        /\ \A k \in (m + 1)..(m + b) : k - m \in 1..b /\ (A \o B)[k] = B[k - m]
    <3>1. IsJoin(A \o B, A, B, m, b)
      BY ONLY <2>1, <2>2, <2>3, Joined
    <3> QED
      BY ONLY <3>1 DEF IsJoin
  <2> QED
    BY ONLY <1>2, <2>4
<1> HIDE DEF after, missing
<1>11. ASSUME NEW c \in calls, NEW q \in 1..n, rows[q].call = c
       PROVE  \E i \in DOMAIN after : after[i] = new(c) /\ \A j \in DOMAIN after \ {i} : after[j].call # c
  <2> DEFINE Q == {i \in 1..n : rows[i].call = c}
  <2>1. PICK i \in Q : \A j \in Q : i <= j
    <3>1. Q \subseteq Nat /\ Q # {}
      BY ONLY <1>11
    <3> HIDE DEF Q
    <3> QED
      BY <3>1, LeastNumber
  <2>2. i \in first /\ i \in K /\ i \in 1..n /\ rows[i].call = c
    BY <2>1
  <2>3. \A j \in first : rows[j].call = c => j = i
    <3> SUFFICES ASSUME NEW j \in first, rows[j].call = c, j # i PROVE FALSE
      OBVIOUS
    <3>1. j \in Q /\ i <= j /\ j \in Nat /\ i \in Nat
      BY <2>1
    <3>2. i \in 1..(j - 1)
      BY <3>1, <2>2
    <3> QED
      BY <3>2, <2>2
  <2>4. c \notin missing
    BY <2>2 DEF missing
  <2>5. \A j \in K : rows[j].call \in calls => j \in first
    OBVIOUS
  <2> HIDE DEF Q, first, K
  <2>6. PICK k \in 1..m : Nth(K, k) = i
    BY <1>3, <2>2, NthFacts DEF m
  <2>7. \A j \in 1..m : Nth(K, j) = i => j = k
    <3>1. \A x, y \in 1..m : x < y => Nth(K, x) < Nth(K, y)
      BY <1>3, NthFacts DEF m
    <3> TAKE j \in 1..m
    <3> HAVE Nth(K, j) = i
    <3>2. i \in Int /\ j \in Int /\ k \in Int
      BY <1>3, <2>2
    <3> QED
      BY <3>1, <3>2, <2>6
  <2>8. k \in DOMAIN after /\ after[k] = new(c)
    <3>1. after[k] = A[k] /\ A[k] = new(c)
      BY <1>7, <1>10, <2>2, <2>6
    <3>2. k \in 1..(m + b)
      BY <1>3, <1>8
    <3> QED
      BY <1>10, <3>1, <3>2
  <2>9. ASSUME NEW j \in DOMAIN after \ {k} PROVE after[j].call # c
    <3>1. j \in 1..m \/ j \in (m + 1)..(m + b)
      BY <1>3, <1>8, <1>10
    <3>2. CASE j \in 1..m
      <4>1. after[j].call = rows[Nth(K, j)].call /\ Nth(K, j) \in K
        BY <1>4, <1>7, <1>10, <3>2
      <4>2. Nth(K, j) # i
        BY <2>7, <3>2
      <4> QED
        BY <2>3, <2>5, <4>1, <4>2
    <3>3. CASE j \in (m + 1)..(m + b)
      <4>1. after[j] \in S
        BY <1>8, <1>10, <3>3
      <4> QED
        BY <1>9, <2>4, <4>1
    <3> QED
      BY <3>1, <3>2, <3>3
  <2> QED
    BY <2>8, <2>9
<1>12. ASSUME NEW c \in calls, \A q \in 1..n : rows[q].call # c
       PROVE  \E i \in DOMAIN after : after[i] = new(c) /\ \A j \in DOMAIN after \ {i} : after[j].call # c
  <2>1. c \in missing
    BY <1>12 DEF missing
  <2>2. PICK x \in 1..b : B[x] = new(c)
    BY <1>8, <1>9, <2>1
  <2>3. m + x \in (m + 1)..(m + b) /\ (m + x) - m = x /\ m + x \in 1..(m + b)
    BY <1>3, <1>8
  <2>4. m + x \in DOMAIN after /\ after[m + x] = new(c)
    BY <1>10, <2>2, <2>3
  <2>5. ASSUME NEW j \in DOMAIN after \ {m + x} PROVE after[j].call # c
    <3>1. j \in 1..m \/ j \in (m + 1)..(m + b)
      BY <1>3, <1>8, <1>10
    <3>2. CASE j \in 1..m
      <4> HIDE DEF K, new
      <4>1. after[j].call = rows[Nth(K, j)].call /\ Nth(K, j) \in 1..n
        BY <1>4, <1>7, <1>10, <3>2
      <4> QED
        BY <4>1, <1>12
    <3>3. CASE j \in (m + 1)..(m + b)
      <4>1. after[j] = B[j - m] /\ j - m \in 1..b /\ j - m # x
        <5>1. j \in Int /\ m \in Int /\ x \in Int /\ j # m + x
          BY <1>3, <3>3
        <5> QED
          BY <1>10, <3>3, <5>1
      <4>2. B[j - m] \in S /\ B[j - m] # new(c)
        BY <1>8, <2>2, <4>1
      <4>3. B[j - m] = new(B[j - m].call)
        BY <1>9, <4>2
      <4> QED
        BY <4>1, <4>2, <4>3
    <3> QED
      BY <3>1, <3>2, <3>3
  <2> QED
    BY <2>4, <2>5
<1>13. LT!Filter(after, LAMBDA r : r.call \notin calls) = LT!Filter(rows, LAMBDA r : r.call \notin calls)
  <2> DEFINE L == {k \in 1..m : rows[Nth(K, k)].call \notin calls}
             M == {i \in 1..n : rows[i].call \notin calls}
  <2>1. {k \in DOMAIN after : after[k].call \notin calls} = L
    <3> HIDE DEF K
    <3>1. ASSUME NEW k \in 1..(m + b) PROVE after[k].call \notin calls <=> k \in L
      <4>1. k \in 1..m \/ k \in (m + 1)..(m + b)
        BY <1>3, <1>8
      <4>2. CASE k \in 1..m
        BY <1>7, <1>10, <4>2
      <4>3. CASE k \in (m + 1)..(m + b)
        <5>1. after[k] \in S /\ k \notin 1..m
          BY <1>3, <1>8, <1>10, <4>3
        <5>2. after[k].call \in calls
          BY <1>9, <5>1
        <5> QED
          BY <5>1, <5>2
      <4> QED
        BY <4>1, <4>2, <4>3
    <3>2. \A k \in L : k \in 1..(m + b)
      BY <1>3, <1>8
    <3> HIDE DEF L
    <3> QED
      BY <1>10, <3>1, <3>2
  <2>2. Through(K, L) = M
    <3>1. \A i \in M : i \in K
      OBVIOUS
    <3> HIDE DEF K
    <3>2. \A i \in K : \E k \in 1..m : Nth(K, k) = i
      BY <1>3, NthFacts DEF m
    <3>3. \A k \in L : Nth(K, k) \in M
      BY <1>4
    <3>4. \A i \in M : \E k \in L : Nth(K, k) = i
      BY <3>1, <3>2
    <3> HIDE DEF L, M
    <3> QED
      BY <3>3, <3>4 DEF Through
  <2>3. \A k \in L : after[k] = rows[Nth(K, k)] /\ k \in 1..Cardinality(K)
    <3> HIDE DEF K
    <3> QED
      BY <1>7, <1>10 DEF m
  <2>4. LT!Filter(after, LAMBDA r : r.call \notin calls) = Picked(after, {k \in DOMAIN after : after[k].call \notin calls})
    BY LTStatistics DEF LT!Filter
  <2>5. LT!Filter(rows, LAMBDA r : r.call \notin calls) = Picked(rows, {k \in DOMAIN rows : rows[k].call \notin calls})
    BY LTStatistics DEF LT!Filter
  <2>6. {k \in DOMAIN rows : rows[k].call \notin calls} = M
    OBVIOUS
  <2> HIDE DEF K, L, M
  <2>7. Picked(after, L) = Picked(rows, Through(K, L))
    BY <1>3, <2>3, PickedComposed
  <2> QED
    BY <2>1, <2>2, <2>4, <2>5, <2>6, <2>7
<1>14. \A c \in calls : \E i \in DOMAIN after : after[i] = new(c) /\ \A j \in DOMAIN after \ {i} : after[j].call # c
  <2> HIDE DEF new
  <2> QED
    BY <1>11, <1>12
<1> QED
  BY <1>13, <1>14 DEF LT!OneResultPerCall, after

\* The occurrences, results and services behind the lead times, and the aggregate of a sample.
THEOREM LeadTimesAreSoundHolds == AlgorithmsSpec => []LeadTimesAreSound
<1>1. AlgorithmsInit => LeadTimesAreSound
  BY DEF AlgorithmsInit, LeadTimesAreSound
<1>2. ASSUME AlgorithmsNext PROVE LeadTimesAreSound'
  <2>1. ASSUME probe'.of = "occurrences" PROVE LT!ResolvesEligible(probe'.occs, probe'.selected, probe'.selection)
    <3>1. PICK occs \in {S \in SUBSET Occurrence : Cardinality(S) <= 3}, last \in {"first", "last"} : \E s \in occs \cup {None} :
             probe' = [of |-> "occurrences", occs |-> occs, selected |-> s, selection |-> last]
      BY <1>2, <2>1, PickedBy DEF PickOccurrences, Pick
    <3>2. PICK s \in occs \cup {None} :
             probe' = [of |-> "occurrences", occs |-> occs, selected |-> s, selection |-> last]
      BY <3>1
    <3>3. LT!ResolvesEligible(occs, s, last)
      BY AlwaysResolvesEligible
    <3> QED
      BY <3>2, <3>3
  <2>2. ASSUME probe'.of = "results" PROVE LT!OneResultPerCall(probe'.rows, probe'.calls, [c \in probe'.calls |-> "new"])
    <3> DEFINE Row == [call : {1, 2, 3}, result : {"old"}]
    <3>1. PICK rows \in UpTo(Row, 4), calls \in SUBSET {1, 2} : probe' = [of |-> "results", rows |-> rows, calls |-> calls]
      BY <1>2, <2>2, PickedBy DEF PickResults, Pick
    <3>2. PICK k \in 0..4 : rows \in [1..k -> Row]
      BY DEF UpTo
    <3>3. rows \in [1..k -> [call : {1, 2, 3}, result : {"old", "new"}]] /\ k \in Nat
      BY <3>2
    <3>4. IsFiniteSet(calls)
      <4>1. IsFiniteSet({1} \cup {2}) /\ {1} \cup {2} = {1, 2}
        <5>1. IsFiniteSet({1}) /\ IsFiniteSet({2})
          BY FS_Singleton
        <5> QED
          BY <5>1, FS_Union
      <4> QED
        BY <4>1, FS_Subset
    <3> DEFINE result == [c \in calls |-> "new"]
    <3>5. result \in [calls -> {"old", "new"}] /\ calls \subseteq {1, 2, 3}
      OBVIOUS
    <3>6. probe'.rows = rows /\ probe'.calls = calls /\ [c \in probe'.calls |-> "new"] = result
      BY <3>1
    <3> DEFINE C == {1, 2, 3}
               R == {"old", "new"}
    <3>8. k \in Nat /\ rows \in [1..k -> [call : C, result : R]] /\ calls \subseteq C /\ result \in [calls -> R]
      BY <3>3, <3>5
    <3> HIDE DEF result, C, R
    <3>7. LT!OneResultPerCall(rows, calls, result)
      BY ONLY <3>4, <3>8, AlwaysOneResultPerCall
    <3> QED
      BY <3>6, <3>7
  <2>3. ASSUME probe'.of = "services" PROVE LT!DelaysKeepServicesApart(probe'.services)
    <3>1. PICK s \in UpTo(Service, 2) : probe' = [of |-> "services", services |-> s]
      BY <1>2, <2>3, PickedBy DEF PickServices, Pick
    <3>2. PICK k \in 0..2 : s \in [1..k -> Service]
      BY DEF UpTo
    <3>3. k \in Nat /\ DOMAIN s = 1..k /\ Len(s) = k /\ (s = <<>> <=> k = 0)
      BY <3>2
    <3>4. \A i \in 1..k : s[i].scheduled \in Int \cup {None} /\ s[i].served \in Int \cup {None}
      BY <3>2 DEF Service
    <3> QED
      BY <3>1, <3>3, <3>4, DelaysAlwaysKeepServicesApart
  <2>4. ASSUME probe'.of = "sample" PROVE LT!AggregateIsSound(probe'.sample)
    <3>1. PICK d \in Samples : probe' = [of |-> "sample", sample |-> d]
      BY <1>2, <2>4, PickedBy DEF PickSample, Pick
    <3>2. PICK k \in 1..MaxSample : d \in [1..k -> SampleHours]
      BY DEF Samples
    <3>3. k \in Nat /\ k > 0 /\ d \in [1..k -> Int]
      <4>1. MaxSample \in Nat /\ \A x \in SampleHours : x \in Int
        BY SampleType
      <4>2. k \in Nat /\ k > 0
        BY <4>1
      <4> QED
        BY <3>2, <4>1, <4>2
    <3> QED
      BY <3>1, <3>3, AggregateIsAlwaysSound
  <2> QED
    BY <2>1, <2>2, <2>3, <2>4 DEF LeadTimesAreSound
<1>3. LeadTimesAreSound /\ UNCHANGED probe => LeadTimesAreSound'
  BY DEF LeadTimesAreSound
<1> QED
  BY <1>1, <1>2, <1>3, PTL DEF AlgorithmsSpec

-----------------------------------------------------------------------------
(* Delays.                                                                     *)

\* The statistics the delay analysis uses are those of Statistics.
LEMMA DAStatistics ==
  /\ \A s : DA!Total(s) = Total(s)
  /\ \A s : DA!ToSet(s) = ToSet(s)
  /\ \A x, y : DA!Most(x, y) = Most(x, y)
  /\ \A S : DA!Min(S) = Min(S) /\ DA!Max(S) = Max(S)
  /\ \A S : DA!Cardinality(S) = Cardinality(S)
  /\ \A s, K : DA!Picked(s, K) = Picked(s, K)
<1>1. \A s : DA!Total(s) = Total(s)
  BY DEF DA!Total, DA!SumFunction, DA!SumFunctionOnSet, SumFunctionOnSet, DA!FoldFunctionOnSet,
         FoldFunctionOnSet, DA!MapThenFoldSet, MapThenFoldSet, Total, SumFunction
<1>2. \A s : DA!ToSet(s) = ToSet(s)
  BY DEF DA!ToSet, ToSet
<1>3. \A x, y : DA!Most(x, y) = Most(x, y)
  BY DEF DA!Most, Most
<1>7. \A S : DA!Cardinality(S) = Cardinality(S)
  BY DEF DA!Cardinality, Cardinality, DA!IsFiniteSet, IsFiniteSet
<1>8. \A S : DA!Min(S) = Min(S) /\ DA!Max(S) = Max(S)
  BY DEF DA!Min, Min, DA!Max, Max
<1>9. \A s, K : DA!Picked(s, K) = Picked(s, K)
  BY DEF DA!Picked, Picked, DA!Nth, Nth, DA!Cardinality, Cardinality, DA!IsFiniteSet, IsFiniteSet
<1> QED
  BY <1>1, <1>2, <1>3, <1>7, <1>8, <1>9

\* The first rule that matches decides, and a reason that names a tug, a pilot or the weather
\* matches no later than its own rule.
LEMMA CategoriesAlwaysFollowReason ==
  ASSUME NEW src, NEW rsn, NEW exact, exact = None \/ exact \in DA!CANONICAL_DELAY_CATEGORIES
  PROVE  DA!CategoriesFollowReason(src, rsn, exact)
<1> DEFINE R == DA!CategoryRules
           hits == {i \in DOMAIN R : R[i].src \cap src # {} \/ R[i].rsn \cap rsn # {}}
           c == DA!CanonicalCategory(src, rsn, exact)
           All == DA!CANONICAL_DELAY_CATEGORIES
<1>1. c = IF hits # {} THEN R[Min(hits)].to ELSE IF exact # None THEN exact ELSE "Other"
  BY DAStatistics DEF DA!CanonicalCategory
<1>2. DOMAIN R = 1..12
  BY DEF DA!CategoryRules
<1>3. All = {DA!CategoryOrder[i] : i \in 1..15}
  <2>1. DOMAIN DA!CategoryOrder = 1..15
    BY DEF DA!CategoryOrder
  <2> QED
    BY <2>1 DEF DA!CANONICAL_DELAY_CATEGORIES, DA!ToSet
<1>4. /\ "Pilot" \in All /\ "Tug" \in All /\ "Berth Non-Availability" \in All /\ "Weather" \in All
      /\ "Regulatory Clearance" \in All /\ "Terminal Readiness" \in All /\ "Equipment Breakdown" \in All
      /\ "Crane Downtime" \in All /\ "Mooring" \in All /\ "Documentation" \in All /\ "Vessel-Side" \in All
      /\ "Port-Side" \in All /\ "Other" \in All
  <2>1. \A i \in 1..15 : DA!CategoryOrder[i] \in All
    BY <1>3
  <2>2. /\ DA!CategoryOrder[1] \in All /\ DA!CategoryOrder[2] \in All /\ DA!CategoryOrder[3] \in All /\ DA!CategoryOrder[4] \in All
        /\ DA!CategoryOrder[5] \in All /\ DA!CategoryOrder[6] \in All /\ DA!CategoryOrder[8] \in All /\ DA!CategoryOrder[9] \in All
        /\ DA!CategoryOrder[10] \in All /\ DA!CategoryOrder[11] \in All /\ DA!CategoryOrder[12] \in All
        /\ DA!CategoryOrder[13] \in All /\ DA!CategoryOrder[15] \in All
    BY <2>1
  <2> QED
    BY <2>2 DEF DA!CategoryOrder
<1>5. /\ R[1].to = "Weather" /\ R[2].to = "Tug" /\ R[3].to = "Pilot" /\ R[4].to = "Berth Non-Availability"
      /\ R[5].to = "Terminal Readiness" /\ R[6].to = "Crane Downtime" /\ R[7].to = "Equipment Breakdown"
      /\ R[8].to = "Mooring" /\ R[9].to = "Documentation" /\ R[10].to = "Vessel-Side"
      /\ R[11].to = "Regulatory Clearance" /\ R[12].to = "Port-Side"
  BY DEF DA!CategoryRules
<1>6. R[1].rsn = {"weather", "swells", "wind", "fog", "storm"} /\ R[2].rsn = {"tug"} /\ R[3].rsn = {"pilot"}
  BY DEF DA!CategoryRules
<1> HIDE DEF R, All
<1>7. /\ "tug" \in rsn => 2 \in hits
      /\ "pilot" \in rsn => 3 \in hits
      /\ {"weather", "fog", "wind"} \cap rsn # {} => 1 \in hits
  <2>1. "tug" \in rsn => 2 \in hits
    BY <1>2, <1>6
  <2>2. "pilot" \in rsn => 3 \in hits
    BY <1>2, <1>6
  <2>3. {"weather", "fog", "wind"} \cap rsn # {} => 1 \in hits
    BY <1>2, <1>6
  <2> QED
    BY <2>1, <2>2, <2>3
<1>8. hits # {} => Min(hits) \in hits /\ \A i \in hits : Min(hits) <= i
  <2>1. hits \subseteq Nat
    BY <1>2
  <2> HIDE DEF hits
  <2>2. hits # {} => \E m \in hits : \A i \in hits : m <= i
    BY <2>1, LeastNumber
  <2> QED
    BY <2>2 DEF Min
<1>9. \A i \in hits : i \in 1..12
  BY <1>2
<1> DEFINE m == Min(hits)
<1> HIDE DEF hits, c
<1>10. CASE hits = {}
  <2>1. c = IF exact # None THEN exact ELSE "Other"
    BY <1>1, <1>10
  <2>2. c \in All
    BY <1>4, <2>1 DEF All
  <2> QED
    BY <1>7, <1>10, <2>2 DEF DA!CategoriesFollowReason, c, All
<1>11. CASE hits # {}
  <2>1. c = R[m].to /\ m \in 1..12 /\ \A i \in hits : m <= i
    BY <1>1, <1>8, <1>9, <1>11
  <2> HIDE DEF m
  <2>2. m = 1 \/ m = 2 \/ m = 3 \/ m = 4 \/ m = 5 \/ m = 6 \/ m = 7 \/ m = 8 \/ m = 9 \/ m = 10 \/ m = 11 \/ m = 12
    BY <2>1
  <2>3. c \in All
    BY <1>4, <1>5, <2>1, <2>2
  <2>4. "tug" \in rsn => c \in {"Weather", "Tug"}
    <3>1. "tug" \in rsn => m = 1 \/ m = 2
      BY <1>7, <2>1
    <3> QED
      BY <1>5, <2>1, <3>1
  <2>5. "pilot" \in rsn => c \in {"Weather", "Tug", "Pilot"}
    <3>1. "pilot" \in rsn => m = 1 \/ m = 2 \/ m = 3
      BY <1>7, <2>1
    <3> QED
      BY <1>5, <2>1, <3>1
  <2>6. {"weather", "fog", "wind"} \cap rsn # {} => c = "Weather"
    <3>1. {"weather", "fog", "wind"} \cap rsn # {} => m = 1
      BY <1>7, <2>1
    <3> QED
      BY <1>5, <2>1, <3>1
  <2> QED
    BY <2>3, <2>4, <2>5, <2>6 DEF DA!CategoriesFollowReason, c, All
<1> QED
  BY <1>10, <1>11

\* A record of the service that says how late it was.
LateRecord(services, type, stage, i) ==
  /\ services[i].type = type /\ DA!Matches(services[i], stage)
  /\ services[i].scheduled # None /\ services[i].served # None

\* How late a service was: nothing, or what one of its records says.
LEMMA LateByFacts ==
  ASSUME NEW n \in Nat, NEW services, DOMAIN services = 1..n,
         \A i \in 1..n : services[i].scheduled \in Int \cup {None} /\ services[i].served \in Int \cup {None},
         NEW type, NEW stage
  PROVE  LET l == DA!LateBy(services, type, stage)
         IN  /\ l \in Int
             /\ l # 0 => \E i \in 1..n : LateRecord(services, type, stage, i) /\ l = services[i].served - services[i].scheduled
<1> DEFINE late == {i \in DOMAIN services :
                     /\ services[i].type = type /\ DA!Matches(services[i], stage)
                     /\ services[i].scheduled # None /\ services[i].served # None
                     /\ services[i].served - services[i].scheduled > 3}
           m == Max(late)
           l == DA!LateBy(services, type, stage)
<1>1. l = IF late = {} THEN 0 ELSE services[m].served - services[m].scheduled
  BY DAStatistics DEF DA!LateBy
<1>2. CASE late = {}
  BY <1>1, <1>2
<1>3. CASE late # {}
  <2>1. \A i \in late : i \in 1..n /\ LateRecord(services, type, stage, i)
    BY DEF LateRecord
  <2> HIDE DEF late
  <2>2. IsFiniteSet(late) /\ \A i \in late : i \in Int
    BY <2>1, PositionsFinite
  <2>3. \E x \in late : \A y \in late : y <= x
    BY <1>3, <2>2, GreatestInt
  <2>4. m \in late
    <3>1. \E x \in late : \A y \in late : x >= y
      BY <2>2, <2>3
    <3> QED
      BY <3>1 DEF Max
  <2> HIDE DEF m
  <2>5. m \in 1..n /\ LateRecord(services, type, stage, m)
    BY <2>1, <2>4
  <2>6. services[m].served \in Int /\ services[m].scheduled \in Int
    BY <2>5 DEF LateRecord
  <2> QED
    BY <1>1, <1>3, <2>5, <2>6
<1> QED
  BY <1>2, <1>3

\* An inferred cause always has its evidence.
LEMMA InferenceAlwaysHasEvidence ==
  ASSUME NEW n \in Nat, NEW services, DOMAIN services = 1..n,
         \A i \in 1..n : services[i].scheduled \in Int \cup {None} /\ services[i].served \in Int \cup {None},
         NEW stage
  PROVE  DA!InferenceHasEvidence(services, stage)
<1> DEFINE L(type) == DA!LateBy(services, type, stage)
           c == DA!ProposedCategory(services, stage)
<1>1. \A type : L(type) \in Int
  BY LateByFacts
<1>2. \A type : L(type) > 6 => \E i \in 1..n : LateRecord(services, type, stage, i) /\ services[i].served - services[i].scheduled > 6
  BY <1>1, LateByFacts
<1>3. (c = "Tug" => L("tug") > 6) /\ (c = "Pilot" => L("tug") <= 6 /\ L("pilot") > 6)
  <2>1. L("tug") \in Int /\ L("pilot") \in Int
    BY <1>1
  <2>2. CASE L("tug") > 6
    <3>1. c = "Tug"
      BY <2>1, <2>2 DEF DA!ProposedCategory
    <3> QED
      BY <2>2, <3>1
  <2>3. CASE L("tug") <= 6 /\ L("pilot") > 6
    <3>1. c = "Pilot"
      BY <2>1, <2>3 DEF DA!ProposedCategory
    <3> QED
      BY <2>3, <3>1
  <2>4. CASE L("tug") <= 6 /\ L("pilot") <= 6
    <3>1. c \in {"Berth Non-Availability", "Terminal Readiness", "Port-Side"}
      BY <2>1, <2>4 DEF DA!ProposedCategory
    <3> QED
      BY <3>1
  <2> QED
    BY <2>1, <2>2, <2>3, <2>4
<1> HIDE DEF L, c
<1>4. c \in {"Tug", "Pilot"} => \E i \in DOMAIN services :
               /\ services[i].type = (IF c = "Tug" THEN "tug" ELSE "pilot")
               /\ DA!Matches(services[i], stage) /\ services[i].scheduled # None /\ services[i].served # None
               /\ services[i].served - services[i].scheduled > 6
  BY <1>2, <1>3 DEF LateRecord
<1> QED
  BY <1>3, <1>4 DEF DA!InferenceHasEvidence, c, L
\* The times of a service record are hours or absent.
IsTimed(s) ==
  /\ s.submission \in Int \cup {None} /\ s.requested \in Int \cup {None}
  /\ s.scheduled \in Int \cup {None} /\ s.served \in Int \cup {None}

\* A timing row: the towage wait is the gap plus the delay, and a clean row has a delay.
LEMMA TimingRowFacts ==
  ASSUME NEW s, IsTimed(s)
  PROVE  LET r == DA!TimingRow(s)
         IN  /\ r.delay \in Int \cup {None} /\ r.total \in Int \cup {None}
             /\ r.gap # None /\ r.delay # None => r.total = r.gap + r.delay
             /\ r.quality = "CLEAN" => r.status # "UNAVAILABLE"
<1> DEFINE r == DA!TimingRow(s)
           D(x, y) == IF x = None \/ y = None THEN None ELSE y - x
<1>1. None \notin Int
  BY NoneIsNoValue
<1>2. \A x, y : DA!LT!Difference(x, y).hours = D(x, y)
  BY DEF DA!LT!Difference, DA!LT!Unavailable, DA!LT!Available
<1>3. r.gap = D(s.requested, s.scheduled) /\ r.delay = D(s.scheduled, s.served) /\ r.total = D(s.requested, s.served)
  BY <1>2 DEF DA!TimingRow, DA!LT!SchedulingGap, DA!LT!ServiceExecutionDelay, DA!LT!LeadTime
<1>4. r.delay \in Int \cup {None} /\ r.total \in Int \cup {None}
  BY <1>3 DEF IsTimed
<1>5. r.gap # None /\ r.delay # None => r.total = r.gap + r.delay
  <2> SUFFICES ASSUME r.gap # None, r.delay # None PROVE r.total = r.gap + r.delay
    OBVIOUS
  <2>1. s.requested # None /\ s.scheduled # None /\ s.served # None
    BY <1>3
  <2>2. s.requested \in Int /\ s.scheduled \in Int /\ s.served \in Int
    BY <2>1 DEF IsTimed
  <2>3. r.gap = s.scheduled - s.requested /\ r.delay = s.served - s.scheduled /\ r.total = s.served - s.requested
    BY <1>3, <2>1
  <2> HIDE DEF r
  <2> QED
    BY <2>2, <2>3
<1>6. r.quality = "CLEAN" => r.status # "UNAVAILABLE"
  <2> SUFFICES ASSUME r.quality = "CLEAN" PROVE r.status # "UNAVAILABLE"
    OBVIOUS
  <2>1. {f \in {"requested", "scheduled", "served"} : s[f] = None} = {}
    BY DEF DA!TimingRow
  <2>2. s.scheduled # None /\ s.served # None
    BY <2>1
  <2>3. r.delay # None
    BY <1>1, <1>3, <2>2 DEF IsTimed
  <2>4. r.status = IF r.delay = None THEN "UNAVAILABLE"
                   ELSE IF r.delay < 0 THEN "EARLY" ELSE IF r.delay = 0 THEN "ON_TIME" ELSE "LATE"
    BY DEF DA!TimingRow
  <2> QED
    BY <2>3, <2>4
<1> QED
  BY <1>4, <1>5, <1>6

\* Each value of a summary is in exactly one of its three counts.
LEMMA SummarizeFacts ==
  ASSUME NEW n \in Nat, NEW rows, DOMAIN rows = 1..n, NEW field, \A i \in 1..n : rows[i][field] \in Int \cup {None}, NEW kind
  PROVE  LET s == DA!Summarize(rows, kind, field) IN s.delayed + s.early + s.onTime = s.count
<1> DEFINE K == {i \in DOMAIN rows : rows[i].kind = kind /\ rows[i][field] # None}
           V == Picked(rows, K)
           m == Cardinality(K)
           S == 1..m
           A == {k \in S : V[k][field] > 0}
           B == {k \in S : V[k][field] < 0}
           C == {k \in S : V[k][field] = 0}
           s == DA!Summarize(rows, kind, field)
<1>1. \A i \in K : i \in 1..n /\ rows[i][field] \in Int
  OBVIOUS
<1>0. /\ s.count = Len(V) /\ s.delayed = Cardinality({i \in DOMAIN V : V[i][field] > 0})
      /\ s.early = Cardinality({i \in DOMAIN V : V[i][field] < 0})
      /\ s.onTime = Cardinality({i \in DOMAIN V : V[i][field] = 0})
  BY DAStatistics DEF DA!Summarize, DA!Filter, DA!Count
<1> HIDE DEF K
<1>2. m \in Nat /\ DOMAIN V = 1..m /\ Len(V) = m /\ \A k \in 1..m : \E i \in K : V[k] = rows[i]
  <2>1. n \in Nat /\ \A i \in K : i \in 1..n
    BY <1>1
  <2> QED
    BY ONLY <2>1, SelectedEntries
<1>3. \A k \in S : V[k][field] \in Int
  BY <1>1, <1>2
<1> HIDE DEF V, m
<1>4. s.count = m /\ s.delayed = Cardinality(A) /\ s.early = Cardinality(B) /\ s.onTime = Cardinality(C)
  BY <1>0, <1>2
<1>5. IsFiniteSet(S) /\ Cardinality(S) = m
  BY <1>2, FS_Interval
<1>6. /\ \A x \in A : x \in S /\ x \notin B /\ x \notin C
      /\ \A x \in B : x \in S /\ x \notin C
      /\ \A x \in C : x \in S
      /\ \A x \in S : x \in A \/ x \in B \/ x \in C
  <2> HIDE DEF S
  <2> QED
    BY <1>3
<1> HIDE DEF A, B, C, S, s
<1>7. /\ Cardinality(S) = Cardinality(A) + Cardinality(B) + Cardinality(C)
      /\ Cardinality(A) \in Nat /\ Cardinality(B) \in Nat /\ Cardinality(C) \in Nat
  <2>1. InThreeParts(S, A, B, C)
    BY <1>5, <1>6 DEF InThreeParts
  <2> QED
    BY ONLY <2>1, ThreeParts
<1>8. s.delayed + s.early + s.onTime = s.count
  BY <1>4, <1>5, <1>7
<1> QED
  BY <1>8 DEF s

\* The rounded share lies in the band of the exact share: with fewer than 400 services no share
\* that is not a boundary rounds to one.
LEMMA BandIsExact ==
  ASSUME NEW e \in Nat, 0 < e, e < 400, NEW d \in 0..e
  PROVE  DA!Band(d, e) = IF 10 * d < 4 * e THEN "GREEN" ELSE IF 10 * d <= 6 * e THEN "ORANGE" ELSE "RED"
<1> DEFINE x == 2000 * d + e
           y == 2 * e
           p == x \div y
<1>1. x \in Int /\ y \in Nat /\ y > 0 /\ p \in Int
  OBVIOUS
<1>2. DA!Band(d, e) = IF p < 400 THEN "GREEN" ELSE IF p <= 600 THEN "ORANGE" ELSE "RED"
  BY DEF DA!Band, DA!Permille
<1>3. 10 * d < 4 * e => p <= 399
  <2> SUFFICES ASSUME 10 * d < 4 * e PROVE p <= 399
    OBVIOUS
  <2>1. x < (399 + 1) * y
    OBVIOUS
  <2> QED
    BY <1>1, <2>1, QuotientAtMost
<1>4. ~ 10 * d < 4 * e => p >= 400
  <2> SUFFICES ASSUME ~ 10 * d < 4 * e PROVE p >= 400
    OBVIOUS
  <2>1. 400 * y <= x
    OBVIOUS
  <2> QED
    BY <1>1, <2>1, QuotientAtLeast
<1>5. 10 * d <= 6 * e => p <= 600
  <2> SUFFICES ASSUME 10 * d <= 6 * e PROVE p <= 600
    OBVIOUS
  <2>1. x < (600 + 1) * y
    OBVIOUS
  <2> QED
    BY <1>1, <2>1, QuotientAtMost
<1>6. ~ 10 * d <= 6 * e => p >= 601
  <2> SUFFICES ASSUME ~ 10 * d <= 6 * e PROVE p >= 601
    OBVIOUS
  <2>1. 601 * y <= x
    OBVIOUS
  <2> QED
    BY <1>1, <2>1, QuotientAtLeast
<1> HIDE DEF p
<1> QED
  BY <1>1, <1>2, <1>3, <1>4, <1>5, <1>6

\* The band of a leg is the one of its exact share of delayed services.
LEMMA LegFrequencyFacts ==
  ASSUME NEW n \in Nat, n < 400, NEW rows, DOMAIN rows = 1..n, \A i \in 1..n : rows[i].delay \in Int \cup {None}, NEW leg
  PROVE  LET f == DA!LegFrequency(rows, leg)
         IN  CASE f.band = "GRAY" -> f.eligible = 0
               [] f.band = "GREEN" -> f.eligible > 0 /\ 10 * f.delayed < 4 * f.eligible
               [] f.band = "ORANGE" -> 10 * f.delayed >= 4 * f.eligible /\ 10 * f.delayed <= 6 * f.eligible
               [] OTHER -> 10 * f.delayed > 6 * f.eligible
<1> DEFINE K == {i \in DOMAIN rows : rows[i].leg = leg /\ rows[i].delay # None}
           E == Picked(rows, K)
           m == Cardinality(K)
           L == {k \in DOMAIN E : E[k].delay > 0}
           d == Cardinality(L)
           f == DA!LegFrequency(rows, leg)
<1>1. f.eligible = Len(E) /\ f.delayed = d /\ f.band = DA!Band(d, Len(E))
  BY DAStatistics DEF DA!LegFrequency, DA!Filter, DA!Count
<1>2. n \in Nat /\ n < 400 /\ \A i \in K : i \in 1..n
  OBVIOUS
<1> HIDE DEF K
<1>3. m \in Nat /\ m <= n /\ DOMAIN E = 1..m /\ Len(E) = m
  BY <1>2, SelectedEntries
<1> HIDE DEF E, m
<1>4. \A k \in L : k \in 1..m
  BY <1>3
<1> HIDE DEF L
<1>5. d \in 0..m
  BY <1>3, <1>4, PositionsBounded
<1> HIDE DEF d, f
<1>6. f.eligible = m /\ f.delayed = d /\ f.band = DA!Band(d, m)
  BY <1>1, <1>3
<1>7. CASE m = 0
  <2>1. f.band = "GRAY"
    BY <1>6, <1>7 DEF DA!Band
  <2> QED
    BY <1>6, <1>7, <2>1 DEF f
<1>8. CASE m # 0
  <2>1. m \in Nat /\ 0 < m /\ m < 400 /\ m > 0
    BY <1>2, <1>3, <1>8
  <2>2. f.band = IF 10 * d < 4 * m THEN "GREEN" ELSE IF 10 * d <= 6 * m THEN "ORANGE" ELSE "RED"
    BY <1>5, <1>6, <2>1, BandIsExact
  <2>3. CASE 10 * d < 4 * m
    <3>1. f.band = "GREEN"
      BY <2>2, <2>3
    <3>2. f.eligible > 0 /\ 10 * f.delayed < 4 * f.eligible
      BY <1>6, <2>1, <2>3
    <3> QED
      BY <3>1, <3>2 DEF f
  <2>4. CASE ~ 10 * d < 4 * m /\ 10 * d <= 6 * m
    <3>1. f.band = "ORANGE" /\ 10 * d >= 4 * m
      BY <1>5, <2>1, <2>2, <2>4
    <3> QED
      BY <1>6, <2>4, <3>1 DEF f
  <2>5. CASE ~ 10 * d < 4 * m /\ ~ 10 * d <= 6 * m
    <3>1. f.band = "RED" /\ 10 * d > 6 * m
      BY <1>5, <2>1, <2>2, <2>5
    <3> QED
      BY <1>6, <3>1 DEF f
  <2> QED
    BY <2>3, <2>4, <2>5
<1> QED
  BY <1>7, <1>8

\* The timings of fewer than 400 services reconcile.
LEMMA TimingsAlwaysReconcile ==
  ASSUME NEW n \in Nat, n < 400, NEW services, DOMAIN services = 1..n, \A i \in 1..n : IsTimed(services[i])
  PROVE  DA!TimingsReconcile(services)
<1> DEFINE rows == [i \in DOMAIN services |-> DA!TimingRow(services[i])]
<1>1. n \in Nat /\ DOMAIN rows = 1..n /\ \A i \in 1..n : rows[i] = DA!TimingRow(services[i])
  OBVIOUS
<1>2. \A i \in 1..n : /\ rows[i].delay \in Int \cup {None} /\ rows[i].total \in Int \cup {None}
                      /\ rows[i].gap # None /\ rows[i].delay # None => rows[i].total = rows[i].gap + rows[i].delay
                      /\ rows[i].quality = "CLEAN" => rows[i].status # "UNAVAILABLE"
  BY <1>1, TimingRowFacts
<1> HIDE DEF rows
<1>3. \A k \in DOMAIN DA!Overview(rows) :
         LET s == DA!Overview(rows)[k] IN s.delayed + s.early + s.onTime = s.count
  <2>1. \A i \in 1..n : rows[i]["delay"] \in Int \cup {None} /\ rows[i]["total"] \in Int \cup {None}
    BY <1>2
  <2>2. \A kind, field : field \in {"delay", "total"} =>
           LET s == DA!Summarize(rows, kind, field) IN s.delayed + s.early + s.onTime = s.count
    BY <1>1, <2>1, SummarizeFacts
  <2>3. DOMAIN DA!Overview(rows) = {"PILOTAGE_DELAY", "BERTHING_DELAY", "TOWAGE_WAIT", "TUG_TOWAGE_DELAY"}
    BY DEF DA!Overview
  <2>4. \A k \in DOMAIN DA!Overview(rows) : \E kind, field : field \in {"delay", "total"} /\ DA!Overview(rows)[k] = DA!Summarize(rows, kind, field)
    BY <2>3 DEF DA!Overview
  <2> QED
    BY <2>2, <2>4
<1>4. \A leg \in {"ARRIVAL_INWARD", "SAILING_OUTWARD", "SHIFTING"} :
         LET f == DA!LegFrequency(rows, leg)
         IN  CASE f.band = "GRAY" -> f.eligible = 0
               [] f.band = "GREEN" -> f.eligible > 0 /\ 10 * f.delayed < 4 * f.eligible
               [] f.band = "ORANGE" -> 10 * f.delayed >= 4 * f.eligible /\ 10 * f.delayed <= 6 * f.eligible
               [] OTHER -> 10 * f.delayed > 6 * f.eligible
  BY <1>1, <1>2, LegFrequencyFacts
<1>5. /\ \A i \in DOMAIN rows : rows[i].gap # None /\ rows[i].delay # None => rows[i].total = rows[i].gap + rows[i].delay
      /\ \A i \in DOMAIN rows : rows[i].quality = "CLEAN" => rows[i].status # "UNAVAILABLE"
  BY <1>1, <1>2
<1> QED
  BY <1>3, <1>4, <1>5 DEF DA!TimingsReconcile, rows
\* Delays as the listing loads them: hours are numbers, and a category is one of the list or absent.
CategoryOf(d) == IF d.category = None THEN "Other" ELSE d.category
IsListed(d) ==
  /\ d.hours \in Int /\ Total(d.allocs) \in Int
  /\ \E c \in 1..15 : DA!CategoryOrder[c] = CategoryOf(d)
AreListed(delays, n) ==
  /\ n \in Nat /\ DOMAIN delays = 1..n /\ Len(delays) = n /\ (delays = <<>> <=> n = 0)
  /\ \A i \in 1..n : IsListed(delays[i])

\* The categories of the list are different.
LEMMA CategoriesDiffer ==
  /\ DOMAIN DA!CategoryOrder = 1..15
  /\ \A c, d \in 1..15 : DA!CategoryOrder[c] = DA!CategoryOrder[d] => c = d
<1> DEFINE O == DA!CategoryOrder
           at == [s \in DA!CANONICAL_DELAY_CATEGORIES |->
                    CASE s = "Pilot" -> 1 [] s = "Tug" -> 2 [] s = "Berth Non-Availability" -> 3 [] s = "Weather" -> 4
                      [] s = "Regulatory Clearance" -> 5 [] s = "Terminal Readiness" -> 6 [] s = "Cargo Operation" -> 7
                      [] s = "Equipment Breakdown" -> 8 [] s = "Crane Downtime" -> 9 [] s = "Mooring" -> 10
                      [] s = "Documentation" -> 11 [] s = "Vessel-Side" -> 12 [] s = "Port-Side" -> 13
                      [] s = "External/Uncontrollable" -> 14 [] s = "Other" -> 15]
<1>1. DOMAIN O = 1..15
  BY DEF DA!CategoryOrder
<1>2. /\ O[1] = "Pilot" /\ O[2] = "Tug" /\ O[3] = "Berth Non-Availability" /\ O[4] = "Weather"
      /\ O[5] = "Regulatory Clearance" /\ O[6] = "Terminal Readiness" /\ O[7] = "Cargo Operation"
      /\ O[8] = "Equipment Breakdown" /\ O[9] = "Crane Downtime" /\ O[10] = "Mooring" /\ O[11] = "Documentation"
      /\ O[12] = "Vessel-Side" /\ O[13] = "Port-Side" /\ O[14] = "External/Uncontrollable" /\ O[15] = "Other"
  BY DEF DA!CategoryOrder
<1>3. \A c \in 1..15 : O[c] \in DA!CANONICAL_DELAY_CATEGORIES
  BY <1>1 DEF DA!CANONICAL_DELAY_CATEGORIES, DA!ToSet
<1> HIDE DEF O
<1>4. \A c \in 1..15 : at[O[c]] = c
  <2> TAKE c \in 1..15
  <2>1. \/ c = 1 \/ c = 2 \/ c = 3 \/ c = 4 \/ c = 5 \/ c = 6 \/ c = 7 \/ c = 8 \/ c = 9 \/ c = 10
        \/ c = 11 \/ c = 12 \/ c = 13 \/ c = 14 \/ c = 15
    OBVIOUS
  <2>2. O[c] \in DA!CANONICAL_DELAY_CATEGORIES
    BY <1>3
  <2> QED
    BY <1>2, <2>1, <2>2, ZenonT(40)
<1> HIDE DEF at
<1>5. \A c, d \in 1..15 : O[c] = O[d] => c = d
  BY <1>4
<1> QED
  BY <1>1, <1>5 DEF O

\* The Pareto lines account for every delay and every hour, in descending order.
LEMMA ParetoFacts ==
  ASSUME NEW n, NEW mine, AreListed(mine, n)
  PROVE  LET p == DA!Pareto(mine)
             N == Len(p)
         IN  /\ N \in Nat /\ (N = 0 <=> n = 0)
             /\ N > 0 => p[N].running = DA!Hours(mine)
             /\ Total([i \in 1..N |-> p[i].count]) = n
             /\ \A i \in 1..(N - 1) : p[i].hours >= p[i + 1].hours
<1> DEFINE O == DA!CategoryOrder
           S == 1..n
           K(c) == {i \in DOMAIN mine : CategoryOf(mine[i]) = O[c]}
           of(c) == DA!OfCategory(mine, O[c])
           hours(c) == DA!Hours(of(c))
           U == {c \in DOMAIN O : of(c) # <<>>}
           h == [c \in 1..15 |-> hours(c)]
           lines == Descending(h, U)
           N == Cardinality(U)
           hrs == [i \in DOMAIN mine |-> mine[i].hours]
           p == DA!Pareto(mine)
<1>1. n \in Nat /\ DOMAIN mine = S /\ \A i \in S : IsListed(mine[i])
  BY DEF AreListed
<1>2. DOMAIN O = 1..15 /\ \A c, d \in 1..15 : O[c] = O[d] => c = d
  BY CategoriesDiffer
<1>3. \A c : of(c) = Picked(mine, K(c))
  BY DAStatistics DEF DA!OfCategory, DA!Filter, CategoryOf
<1>4. \A c : \A i \in K(c) : i \in S
  BY <1>1
<1>5. \A i \in S : hrs[i] \in Int
  BY <1>1 DEF IsListed
<1>6. IsFiniteSet(S) /\ Cardinality(S) = n
  BY <1>1, FS_Interval
<1>7. p = LET L == DA!Arranged(U, LAMBDA c, d : hours(c) > hours(d) \/ (hours(c) = hours(d) /\ c < d))
          IN  [i \in DOMAIN L |-> [category |-> O[L[i]], count |-> Len(of(L[i])), hours |-> hours(L[i]),
                                   running |-> Total([j \in 1..i |-> hours(L[j])])]]
  BY DAStatistics DEF DA!Pareto
<1>8. \A c : hours(c) = Total([i \in DOMAIN of(c) |-> of(c)[i].hours])
  BY DAStatistics DEF DA!Hours
<1>9. DA!Hours(mine) = Total(hrs)
  BY DAStatistics DEF DA!Hours
<1>10. \A c : /\ Cardinality(K(c)) \in Nat /\ Len(of(c)) = Cardinality(K(c))
              /\ of(c) = <<>> <=> Cardinality(K(c)) = 0
              /\ hours(c) = SumFunctionOnSet(hrs, K(c)) /\ hours(c) \in Int
              /\ IsFiniteSet(K(c))
  <2> SUFFICES ASSUME NEW c
               PROVE  /\ Cardinality(K(c)) \in Nat /\ Len(of(c)) = Cardinality(K(c))
                      /\ of(c) = <<>> <=> Cardinality(K(c)) = 0
                      /\ hours(c) = SumFunctionOnSet(hrs, K(c)) /\ hours(c) \in Int
                      /\ IsFiniteSet(K(c))
    OBVIOUS
  <2> DEFINE k == K(c)
             m == Cardinality(k)
             f == of(c)
             g == [i \in DOMAIN f |-> f[i].hours]
  <2>1. f = Picked(mine, k) /\ hours(c) = Total(g) /\ \A i \in k : i \in 1..n
    BY <1>3, <1>4, <1>8
  <2>2. IsFiniteSet(k) /\ \A i \in k : i \in Int
    BY <1>1, <2>1, PositionsFinite
  <2> HIDE DEF k, f
  <2>3. /\ m \in Nat /\ DOMAIN f = 1..m /\ Len(f) = m /\ (f = <<>> <=> m = 0)
        /\ \A j \in 1..m : f[j] = mine[Nth(k, j)] /\ Nth(k, j) \in k
    <3>1. m \in Nat /\ DOMAIN Picked(mine, k) = 1..m /\ Len(Picked(mine, k)) = m /\ (Picked(mine, k) = <<>> <=> m = 0)
      BY <1>1, <2>1, SelectedEntries
    <3>2. \A j \in 1..m : Picked(mine, k)[j] = mine[Nth(k, j)] /\ Nth(k, j) \in k
      BY <2>2, PickedFacts, NthFacts
    <3> QED
      BY <2>1, <3>1, <3>2
  <2>4. \A i \in k : i \in S /\ hrs[i] = mine[i].hours
    BY <1>1, <2>1
  <2> HIDE DEF m
  <2>5. DOMAIN g = 1..m /\ \A j \in 1..m : g[j] = hrs[Nth(k, j)] /\ g[j] \in Int
    <3>1. DOMAIN g = 1..m /\ \A j \in 1..m : g[j] = mine[Nth(k, j)].hours
      BY <2>3
    <3>2. \A j \in 1..m : Nth(k, j) \in S /\ hrs[Nth(k, j)] = mine[Nth(k, j)].hours
      BY ONLY <2>3, <2>4
    <3> HIDE DEF g, hrs, S
    <3> QED
      BY ONLY <1>5, <3>1, <3>2
  <2>6. g \in [1..m -> Int]
    BY <2>3, <2>5
  <2> HIDE DEF g, hrs, S
  <2>7. Total(g) = SumFunctionOnSet(g, 1..m) /\ Total(g) \in Int
    BY <2>3, <2>6, SpreadFacts
  <2>8. SumFunctionOnSet(g, 1..Cardinality(k)) = SumFunctionOnSet(hrs, k)
    <3>1. (\A i \in k : hrs[i] \in Int) /\ (\A j \in 1..Cardinality(k) : g[j] = hrs[Nth(k, j)])
      BY <1>5, <2>4, <2>5 DEF m
    <3> QED
      BY ONLY <2>2, <3>1, SumPicked
  <2> QED
    BY <2>1, <2>2, <2>3, <2>7, <2>8 DEF m, k, f
<1>11. IsFiniteSet(U) /\ (\A c \in U : c \in 1..15 /\ c \in Int) /\ (\A c \in U : h[c] = hours(c) /\ h[c] \in Int)
  <2>1. \A c \in U : c \in 1..15
    BY <1>2
  <2>2. 15 \in Nat
    OBVIOUS
  <2>3. IsFiniteSet(U) /\ \A c \in U : c \in Int
    <3> HIDE DEF U
    <3> QED
      BY <2>1, <2>2, PositionsFinite
  <2> HIDE DEF hours, U
  <2>4. \A c \in 1..15 : h[c] = hours(c) /\ h[c] \in Int
    BY <1>10
  <2> QED
    BY <2>1, <2>3, <2>4
<1>12. \A i \in S : \E c \in U : O[c] = CategoryOf(mine[i]) /\ i \in K(c)
  <2> TAKE i \in S
  <2>1. PICK c \in 1..15 : O[c] = CategoryOf(mine[i])
    BY <1>1 DEF IsListed
  <2>2. i \in K(c)
    BY <1>1, <2>1
  <2>3. Cardinality(K(c)) # 0
    <3>1. K(c) # {} /\ IsFiniteSet(K(c))
      BY <1>10, <2>2
    <3> HIDE DEF K
    <3> QED
      BY <3>1, FS_EmptySet
  <2>4. c \in U
    BY <1>2, <1>10, <2>3
  <2> QED
    BY <2>1, <2>2, <2>4
<1>13. \A c : \A i : i \in K(c) <=> i \in S /\ CategoryOf(mine[i]) = O[c]
  BY <1>1
<1>14. DA!Arranged(U, LAMBDA c, d : hours(c) > hours(d) \/ (hours(c) = hours(d) /\ c < d)) = lines
  <2>1. \A c \in U : {d \in U : hours(d) > hours(c) \/ (hours(d) = hours(c) /\ d < c)} = Ahead(h, U, c)
    <3> HIDE DEF hours, U, h
    <3> QED
      BY <1>11 DEF Ahead
  <2> DEFINE B(c) == {d \in U : hours(d) > hours(c) \/ (hours(d) = hours(c) /\ d < c)}
             A == [k \in 1..DA!Cardinality(U) |-> CHOOSE c \in U : DA!Cardinality(B(c)) = k - 1]
  <2>2. DA!Arranged(U, LAMBDA c, d : hours(c) > hours(d) \/ (hours(c) = hours(d) /\ c < d)) = A
    BY DEF DA!Arranged
  <2>3. \A c \in U : B(c) = Ahead(h, U, c)
    BY <2>1
  <2> HIDE DEF hours, U, h, B
  <2>4. \A k : (CHOOSE c \in U : DA!Cardinality(B(c)) = k - 1) = CHOOSE c \in U : Cardinality(Ahead(h, U, c)) = k - 1
    <3>1. \A c \in U : DA!Cardinality(B(c)) = Cardinality(Ahead(h, U, c))
      BY <2>3, DAStatistics
    <3> QED
      BY <3>1
  <2>5. DA!Cardinality(U) = N
    BY DAStatistics
  <2> DEFINE P(k) == CHOOSE c \in U : DA!Cardinality(B(c)) = k - 1
             F(k) == CHOOSE c \in U : Cardinality(Ahead(h, U, c)) = k - 1
  <2>6. A = lines
    <3>1. A = [k \in 1..DA!Cardinality(U) |-> P(k)]
      OBVIOUS
    <3>2. lines = [k \in 1..N |-> F(k)]
      BY DEF Descending
    <3>3. \A k : P(k) = F(k)
      BY <2>4
    <3> HIDE DEF A, lines, P, F
    <3> QED
      BY <2>5, <3>1, <3>2, <3>3
  <2> QED
    BY <2>2, <2>6
<1>15. /\ N \in Nat /\ lines \in [1..N -> U]
       /\ \A k, m \in 1..N : lines[k] = lines[m] => k = m
       /\ \A c \in U : \E k \in 1..N : lines[k] = c
       /\ \A k, m \in 1..N : k < m => h[lines[k]] >= h[lines[m]]
  <2> HIDE DEF U, h
  <2> QED
    BY <1>11, DescendingFacts
<1> HIDE DEF lines, p, of, hours, K, U, h
<1>16. /\ DOMAIN p = 1..N
       /\ \A i \in 1..N : /\ p[i].count = Len(of(lines[i])) /\ p[i].hours = hours(lines[i])
                          /\ p[i].running = Total([j \in 1..i |-> hours(lines[j])])
  <2>1. DOMAIN lines = 1..N
    BY <1>15
  <2>2. p = [i \in DOMAIN lines |-> [category |-> O[lines[i]], count |-> Len(of(lines[i])), hours |-> hours(lines[i]),
                                    running |-> Total([j \in 1..i |-> hours(lines[j])])]]
    BY <1>7, <1>14
  <2> QED
    BY <2>1, <2>2
<1>17. Len(p) = N
  <2>1. p = [i \in 1..N |-> p[i]]
    BY <1>7, <1>14, <1>15, <1>16
  <2> QED
    BY <1>15, <2>1
<1> HIDE DEF N, O
<1>18. N = 0 <=> n = 0
  <2>1. U = {} <=> n = 0
    <3>1. n # 0 => 1 \in S
      BY <1>1
    <3>2. n # 0 => U # {}
      BY <1>12, <3>1
    <3>3. ASSUME n = 0, NEW c \in U PROVE FALSE
      <4>1. of(c) # <<>>
        BY DEF U
      <4>2. K(c) = {}
        BY <1>1, <1>13, <3>3
      <4>3. Cardinality(K(c)) = 0
        BY <4>2, FS_EmptySet
      <4> QED
        BY <1>10, <4>1, <4>3
    <3> QED
      BY <3>2, <3>3
  <2>2. U = {} <=> N = 0
    BY <1>11, FS_EmptySet DEF N
  <2> QED
    BY <2>1, <2>2
<1> DEFINE kind == [i \in S |-> CHOOSE c \in U : O[c] = CategoryOf(mine[i]) /\ i \in K(c)]
<1>19. kind \in [S -> U] /\ \A i \in S : O[kind[i]] = CategoryOf(mine[i]) /\ i \in K(kind[i])
  BY <1>12
<1> HIDE DEF kind
<1>20. \A c \in U : OfKind(S, kind, c) = K(c)
  <2> TAKE c \in U
  <2>1. \A i \in S : kind[i] = c <=> i \in K(c)
    <3> TAKE i \in S
    <3>1. kind[i] \in U /\ O[kind[i]] = CategoryOf(mine[i]) /\ i \in K(kind[i])
      BY <1>19
    <3>2. i \in K(c) => O[c] = CategoryOf(mine[i])
      BY <1>13
    <3>3. c \in 1..15 /\ kind[i] \in 1..15
      BY <1>11, <3>1
    <3> QED
      BY <1>2, <3>1, <3>2, <3>3
  <2> QED
    BY <1>13, <2>1 DEF OfKind
<1> DEFINE g == [c \in U |-> hours(c)]
           cnt == [c \in U |-> Cardinality(K(c))]
           ones == [i \in S |-> 1]
<1>21. SumFunctionOnSet(g, U) = SumFunctionOnSet(hrs, S)
  <2>1. \A c \in U : g[c] = SumFunctionOnSet(hrs, OfKind(S, kind, c))
    BY <1>10, <1>20
  <2> HIDE DEF g, hrs, S
  <2> QED
    BY ONLY <1>5, <1>6, <1>11, <1>19, <2>1, SumByKind
<1>22. SumFunctionOnSet(cnt, U) = n
  <2>1. ASSUME NEW c \in U PROVE SumFunctionOnSet(ones, K(c)) = Cardinality(K(c))
    <3>1. IsFiniteSet(K(c)) /\ \A i \in K(c) : ones[i] = 1
      BY <1>10, <1>13
    <3> HIDE DEF ones
    <3> QED
      BY <3>1, SumOfOnes
  <2>2. \A c \in U : cnt[c] = SumFunctionOnSet(ones, OfKind(S, kind, c))
    BY <1>20, <2>1
  <2>3. \A i \in S : ones[i] = 1 /\ ones[i] \in Int
    OBVIOUS
  <2> HIDE DEF cnt, ones, S
  <2>4. SumFunctionOnSet(ones, S) = n
    BY <1>6, <2>3, SumOfOnes
  <2>5. \A i \in S : ones[i] \in Int
    BY <2>3
  <2>6. SumFunctionOnSet(cnt, U) = SumFunctionOnSet(ones, S)
    BY ONLY <1>6, <1>11, <1>19, <2>2, <2>5, SumByKind
  <2> QED
    BY <2>4, <2>6
<1> DEFINE R == [j \in 1..N |-> hours(lines[j])]
           Q == [j \in 1..N |-> p[j].count]
<1>23. /\ R \in [1..N -> Int] /\ Q \in [1..N -> Int]
       /\ \A j \in 1..N : R[j] = g[lines[j]] /\ Q[j] = cnt[lines[j]]
       /\ \A c \in U : g[c] \in Int /\ cnt[c] \in Int
  <2>1. \A j \in 1..N : lines[j] \in U
    BY <1>15
  <2>2. \A c \in U : g[c] = hours(c) /\ cnt[c] = Cardinality(K(c)) /\ g[c] \in Int /\ cnt[c] \in Int
    BY <1>10
  <2>3. \A j \in 1..N : R[j] = g[lines[j]] /\ Q[j] = cnt[lines[j]] /\ R[j] \in Int /\ Q[j] \in Int
    <3>1. \A j \in 1..N : R[j] = hours(lines[j])
      <4> HIDE DEF hours, lines
      <4> QED
        OBVIOUS
    <3>2. \A j \in 1..N : Q[j] = Cardinality(K(lines[j]))
      <4>1. \A j \in 1..N : Q[j] = Len(of(lines[j]))
        BY ONLY <1>16
      <4>2. \A c : Len(of(c)) = Cardinality(K(c))
        BY <1>10
      <4> HIDE DEF Q
      <4> QED
        BY ONLY <4>1, <4>2
    <3> HIDE DEF R, Q, g, cnt, K, hours, lines
    <3> QED
      BY ONLY <2>1, <2>2, <3>1, <3>2
  <2> QED
    BY <2>2, <2>3
<1> HIDE DEF R, Q, g, cnt
<1>24. IsFiniteSet(1..N)
  BY <1>15, FS_Interval
<1>25. SumFunctionOnSet(R, 1..N) = SumFunctionOnSet(g, U) /\ SumFunctionOnSet(Q, 1..N) = SumFunctionOnSet(cnt, U)
  <2> DEFINE D == 1..N
             b == lines
             A == R
             B == Q
  <2>1. /\ IsFiniteSet(D) /\ b \in [D -> U] /\ (\A x, y \in D : b[x] = b[y] => x = y) /\ (\A y \in U : \E x \in D : b[x] = y)
        /\ IsFiniteSet(U)
    BY <1>11, <1>15, <1>24
  <2>2. (\A x \in D : A[x] = g[b[x]]) /\ (\A c \in U : g[c] \in Int)
    BY <1>23
  <2>3. (\A x \in D : B[x] = cnt[b[x]]) /\ (\A c \in U : cnt[c] \in Int)
    BY <1>23
  <2> HIDE DEF D, b, A, B
  <2>4. SumFunctionOnSet(A, D) = SumFunctionOnSet(g, U)
    BY ONLY <2>1, <2>2, SumMoved
  <2>5. SumFunctionOnSet(B, D) = SumFunctionOnSet(cnt, U)
    BY ONLY <2>1, <2>3, SumMoved
  <2> QED
    BY <2>4, <2>5 DEF A, B, D
<1>26. Total(R) = SumFunctionOnSet(R, 1..N) /\ Total(Q) = SumFunctionOnSet(Q, 1..N)
  BY <1>15, <1>23, SpreadFacts
<1>27. Total(hrs) = SumFunctionOnSet(hrs, S)
  <2>1. hrs \in [1..n -> Int]
    BY <1>1, <1>5
  <2> HIDE DEF hrs
  <2> QED
    BY <1>1, <2>1, SpreadFacts
<1>28. N > 0 => p[N].running = DA!Hours(mine)
  <2> SUFFICES ASSUME N > 0 PROVE p[N].running = DA!Hours(mine)
    OBVIOUS
  <2>1. N \in 1..N
    BY <1>15
  <2>2. p[N].running = Total(R)
    BY <1>16, <2>1 DEF R
  <2> QED
    BY <1>9, <1>21, <1>25, <1>26, <1>27, <2>2
<1>29. Total([i \in 1..N |-> p[i].count]) = n
  BY <1>22, <1>25, <1>26 DEF Q
<1>30. \A i \in 1..(N - 1) : p[i].hours >= p[i + 1].hours
  <2> TAKE i \in 1..(N - 1)
  <2>1. i \in 1..N /\ i + 1 \in 1..N /\ i < i + 1
    BY <1>15
  <2>2. h[lines[i]] >= h[lines[i + 1]] /\ lines[i] \in U /\ lines[i + 1] \in U
    BY <1>15, <2>1
  <2>3. h[lines[i]] = hours(lines[i]) /\ h[lines[i + 1]] = hours(lines[i + 1])
    BY <1>11, <2>2
  <2> QED
    BY <1>16, <2>1, <2>2, <2>3
<1> QED
  BY <1>15, <1>17, <1>18, <1>28, <1>29, <1>30 DEF p
\* The summary of listed delays: its lines, its order and its unallocated hours.
LEMMA LegSummaryFacts ==
  ASSUME NEW n, NEW mine, AreListed(mine, n)
  PROVE  LET a == DA!Total([i \in DOMAIN mine |-> DA!Total(mine[i].allocs)])
             unallocated == DA!Most(0, DA!Hours(mine) - a)
             p == DA!Pareto(mine)
             listed == DA!Total([i \in DOMAIN mine |-> DA!Unallocated(mine[i])])
             N == Len(p)
         IN  /\ N = 0 <=> mine = <<>>
             /\ N > 0 => p[N].running = DA!Hours(mine)
             /\ DA!Total([i \in 1..N |-> p[i].count]) = Len(mine)
             /\ \A i \in 1..(N - 1) : p[i].hours >= p[i + 1].hours
             /\ unallocated <= listed
             /\ (\A i \in DOMAIN mine : DA!Total(mine[i].allocs) <= mine[i].hours) => unallocated = listed
<1> DEFINE p == DA!Pareto(mine)
           N == Len(p)
           h == [i \in DOMAIN mine |-> mine[i].hours]
           a == [i \in DOMAIN mine |-> DA!Total(mine[i].allocs)]
           r == [i \in DOMAIN mine |-> DA!Unallocated(mine[i])]
           u == DA!Most(0, DA!Hours(mine) - DA!Total(a))
<1>1. n \in Nat /\ DOMAIN mine = 1..n /\ Len(mine) = n /\ (mine = <<>> <=> n = 0) /\ \A i \in 1..n : IsListed(mine[i])
  BY DEF AreListed
<1>2. /\ N \in Nat /\ (N = 0 <=> n = 0)
      /\ N > 0 => p[N].running = DA!Hours(mine)
      /\ Total([i \in 1..N |-> p[i].count]) = n
      /\ \A i \in 1..(N - 1) : p[i].hours >= p[i + 1].hours
  BY ParetoFacts
<1>3. DA!Total([i \in 1..N |-> p[i].count]) = n
  BY <1>2, DAStatistics
<1>4. \A i \in 1..n : mine[i].hours \in Int /\ DA!Total(mine[i].allocs) \in Int
  BY <1>1, DAStatistics DEF IsListed
<1>5. \A i \in 1..n : h[i] = mine[i].hours /\ a[i] = DA!Total(mine[i].allocs) /\ r[i] = Most(0, h[i] - a[i])
  <2> TAKE i \in 1..n
  <2>1. h[i] = mine[i].hours /\ a[i] = DA!Total(mine[i].allocs) /\ r[i] = DA!Unallocated(mine[i])
    BY <1>1
  <2>2. DA!Unallocated(mine[i]) = Most(0, mine[i].hours - DA!Total(mine[i].allocs))
    BY DAStatistics DEF DA!Unallocated
  <2> QED
    BY <2>1, <2>2
<1>6. DOMAIN h = 1..n /\ DOMAIN a = 1..n /\ DOMAIN r = 1..n
  BY <1>1
<1>7. \A i \in 1..n : h[i] \in Int /\ a[i] \in Int /\ r[i] \in Int
  <2> TAKE i \in 1..n
  <2>1. h[i] \in Int /\ a[i] \in Int /\ r[i] = Most(0, h[i] - a[i])
    BY <1>4, <1>5
  <2> HIDE DEF h, a, r
  <2> QED
    BY <2>1 DEF Most
<1>8. h \in [1..n -> Int] /\ a \in [1..n -> Int] /\ r \in [1..n -> Int]
  BY <1>6, <1>7
<1>9. u = Most(0, Total(h) - Total(a)) /\ DA!Total(r) = Total(r)
  BY DAStatistics DEF DA!Hours
<1> HIDE DEF h, a, r, u, p, N
<1>10. Remains(r, h, a, n)
  BY <1>5 DEF Remains
<1>11. /\ Most(0, Total(h) - Total(a)) <= Total(r)
       /\ (\A i \in 1..n : a[i] <= h[i]) => Most(0, Total(h) - Total(a)) = Total(r)
  <2>1. LeftTogether(r, h, a, n)
    BY ONLY <1>1, <1>8, <1>10, RemaindersAdd
  <2> QED
    BY <2>1 DEF LeftTogether
<1>12. u <= DA!Total(r) /\ ((\A i \in DOMAIN mine : DA!Total(mine[i].allocs) <= mine[i].hours) => u = DA!Total(r))
  BY <1>1, <1>5, <1>9, <1>11
<1>13. (N = 0 <=> mine = <<>>) /\ DA!Total([i \in 1..N |-> p[i].count]) = Len(mine)
  BY <1>1, <1>2, <1>3
<1> QED
  BY <1>2, <1>12, <1>13 DEF u, a, r, p, N

\* Every summary of listed delays reconciles, for all legs and for one.
THEOREM SummaryAlwaysReconciles ==
  ASSUME NEW n, NEW delays, AreListed(delays, n)
  PROVE  DA!SummaryReconciles(delays)
<1> SUFFICES ASSUME NEW leg \in {"ALL", "ARRIVAL_INWARD", "SAILING_OUTWARD"}
             PROVE  LET s == DA!Summary(delays, leg)
                        mine == IF leg = "ALL" THEN delays ELSE DA!Filter(delays, LAMBDA d : DA!Leg(d.stage) = leg)
                        listed == DA!Total([i \in DOMAIN mine |-> DA!Unallocated(mine[i])])
                        N == Len(s.pareto)
                    IN  /\ N = 0 <=> mine = <<>>
                        /\ N > 0 => s.pareto[N].running = s.hours
                        /\ DA!Total([i \in 1..N |-> s.pareto[i].count]) = s.count
                        /\ \A i \in 1..(N - 1) : s.pareto[i].hours >= s.pareto[i + 1].hours
                        /\ s.unallocated <= listed
                        /\ (\A i \in DOMAIN mine : DA!Total(mine[i].allocs) <= mine[i].hours) => s.unallocated = listed
  BY DEF DA!SummaryReconciles
<1> DEFINE mine == IF leg = "ALL" THEN delays ELSE DA!Filter(delays, LAMBDA d : DA!Leg(d.stage) = leg)
           s == DA!Summary(delays, leg)
<1>1. /\ s.count = Len(mine) /\ s.hours = DA!Hours(mine) /\ s.pareto = DA!Pareto(mine)
      /\ s.unallocated = DA!Most(0, DA!Hours(mine) - DA!Total([i \in DOMAIN mine |-> DA!Total(mine[i].allocs)]))
  BY DEF DA!Summary
<1>2. \E m : AreListed(mine, m)
  <2>1. CASE leg = "ALL"
    BY <2>1
  <2>2. CASE leg # "ALL"
    <3> DEFINE K == {i \in DOMAIN delays : DA!Leg(delays[i].stage) = leg}
               P == Picked(delays, K)
               m == Cardinality(K)
    <3>1. mine = P
      BY <2>2, DAStatistics DEF DA!Filter
    <3>2. n \in Nat /\ (\A i \in K : i \in 1..n) /\ \A i \in 1..n : IsListed(delays[i])
      BY DEF AreListed
    <3> HIDE DEF K
    <3>3. m \in Nat /\ DOMAIN P = 1..m /\ Len(P) = m /\ (P = <<>> <=> m = 0) /\ \A k \in 1..m : \E i \in K : P[k] = delays[i]
      BY <3>2, SelectedEntries
    <3>4. \A k \in 1..m : IsListed(P[k])
      BY <3>2, <3>3
    <3> HIDE DEF P, m, mine
    <3>5. AreListed(P, m)
      BY <3>3, <3>4 DEF AreListed
    <3> QED
      BY <3>1, <3>5
  <2> QED
    BY <2>1, <2>2
<1> HIDE DEF mine, s
<1>3. LET a == DA!Total([i \in DOMAIN mine |-> DA!Total(mine[i].allocs)])
          unallocated == DA!Most(0, DA!Hours(mine) - a)
          p == DA!Pareto(mine)
          listed == DA!Total([i \in DOMAIN mine |-> DA!Unallocated(mine[i])])
          N == Len(p)
      IN  /\ N = 0 <=> mine = <<>>
          /\ N > 0 => p[N].running = DA!Hours(mine)
          /\ DA!Total([i \in 1..N |-> p[i].count]) = Len(mine)
          /\ \A i \in 1..(N - 1) : p[i].hours >= p[i + 1].hours
          /\ unallocated <= listed
          /\ (\A i \in DOMAIN mine : DA!Total(mine[i].allocs) <= mine[i].hours) => unallocated = listed
  BY <1>2, LegSummaryFacts
<1> QED
  BY <1>1, <1>3 DEF mine, s

\* A delay that is picked is one the listing loads.
LEMMA PickedDelay ==
  ASSUME NEW d \in ListedDelay
  PROVE  IsListed(d)
<1>1. d.hours \in Int /\ d.allocs \in {<<>>, <<1>>, <<2>>} /\ d.category \in {"Tug", "Pilot", None}
  BY DEF ListedDelay
<1>2. Total(d.allocs) \in Int
  <2> DEFINE s == d.allocs
  <2>1. \E m \in Nat : s \in [1..m -> Int]
    <3>1. <<>> \in [1..0 -> Int] /\ <<1>> \in [1..1 -> Int] /\ <<2>> \in [1..1 -> Int]
      OBVIOUS
    <3> QED
      BY <1>1, <3>1
  <2> HIDE DEF s
  <2>2. Total(s) \in Int
    BY <2>1, SpreadFacts
  <2> QED
    BY <2>2 DEF s
<1>3. \E c \in 1..15 : DA!CategoryOrder[c] = CategoryOf(d)
  <2>1. DA!CategoryOrder[1] = "Pilot" /\ DA!CategoryOrder[2] = "Tug" /\ DA!CategoryOrder[15] = "Other"
    BY DEF DA!CategoryOrder
  <2>2. CategoryOf(d) \in {"Tug", "Pilot", "Other"}
    BY <1>1 DEF CategoryOf
  <2>3. 1 \in 1..15 /\ 2 \in 1..15 /\ 15 \in 1..15
    OBVIOUS
  <2> QED
    BY <2>1, <2>2, <2>3
<1> QED
  BY <1>1, <1>2, <1>3 DEF IsListed

\* Delays: timings, bands, the Pareto summary and inferred causes reconcile with their records
\* (services/delays/service.py, mapping.py).
THEOREM DelaysReconcileHolds == AlgorithmsSpec => []DelaysReconcile
<1>1. AlgorithmsInit => DelaysReconcile
  BY DEF AlgorithmsInit, DelaysReconcile
<1>2. ASSUME AlgorithmsNext PROVE DelaysReconcile'
  <2>1. ASSUME probe'.of = "timings" PROVE DA!TimingsReconcile(probe'.services)
    <3>1. PICK s \in UpTo(TimedService, 2) \cup FiveArrivals : probe' = [of |-> "timings", services |-> s]
      BY <1>2, <2>1, PickedBy DEF PickTimings, Pick
    <3>2. \E k \in Nat : k < 400 /\ DOMAIN s = 1..k /\ \A i \in 1..k : IsTimed(s[i])
      <4>1. CASE s \in FiveArrivals
        <5>1. DOMAIN s = 1..5 /\ \A i \in 1..5 : IsTimed(s[i])
          BY <4>1 DEF FiveArrivals, IsTimed
        <5>2. 5 \in Nat /\ 5 < 400
          OBVIOUS
        <5> QED
          BY <5>1, <5>2
      <4>2. CASE s \in UpTo(TimedService, 2)
        <5>1. PICK k \in 0..2 : s \in [1..k -> TimedService]
          BY <4>2 DEF UpTo
        <5>2. \A x \in TimedService : IsTimed(x)
          BY DEF TimedService, IsTimed
        <5>3. k \in Nat /\ k < 400
          OBVIOUS
        <5>4. DOMAIN s = 1..k /\ \A i \in 1..k : IsTimed(s[i])
          BY <5>1, <5>2
        <5> QED
          BY <5>3, <5>4
      <4> QED
        BY <3>1, <4>1, <4>2
    <3>3. DA!TimingsReconcile(s)
      BY <3>2, TimingsAlwaysReconcile
    <3> QED
      BY <3>1, <3>3
  <2>2. ASSUME probe'.of = "delays" PROVE DA!SummaryReconciles(probe'.delays)
    <3>1. PICK d \in UpTo(ListedDelay, 2) : probe' = [of |-> "delays", delays |-> d]
      BY <1>2, <2>2, PickedBy DEF PickDelays, Pick
    <3>2. PICK k \in 0..2 : d \in [1..k -> ListedDelay]
      BY DEF UpTo
    <3>3. k \in Nat /\ DOMAIN d = 1..k /\ Len(d) = k /\ (d = <<>> <=> k = 0)
      BY <3>2
    <3>4. \A i \in 1..k : IsListed(d[i])
      BY <3>2, PickedDelay
    <3>5. AreListed(d, k)
      BY <3>3, <3>4 DEF AreListed
    <3>6. DA!SummaryReconciles(d)
      BY <3>5, SummaryAlwaysReconciles
    <3> QED
      BY <3>1, <3>6
  <2>3. ASSUME probe'.of = "reason" PROVE DA!CategoriesFollowReason(probe'.src, probe'.rsn, probe'.exact)
    <3>1. PICK src \in SUBSET {"weather", "vessel"}, rsn \in SUBSET {"tug", "pilot", "fog", "berth", "cargo"}, x \in {None, "Mooring"} :
             probe' = [of |-> "reason", src |-> src, rsn |-> rsn, exact |-> x]
      BY <1>2, <2>3, PickedBy DEF PickReason, Pick
    <3>2. "Mooring" \in DA!CANONICAL_DELAY_CATEGORIES
      <4>1. DOMAIN DA!CategoryOrder = 1..15
        BY CategoriesDiffer
      <4>2. DA!CategoryOrder[10] = "Mooring"
        BY DEF DA!CategoryOrder
      <4>3. 10 \in 1..15
        OBVIOUS
      <4> QED
        BY <4>1, <4>2, <4>3 DEF DA!CANONICAL_DELAY_CATEGORIES, DA!ToSet
    <3>3. DA!CategoriesFollowReason(src, rsn, x)
      BY <3>2, CategoriesAlwaysFollowReason
    <3> QED
      BY <3>1, <3>3
  <2>4. ASSUME probe'.of = "evidence" PROVE DA!InferenceHasEvidence(probe'.services, probe'.stage)
    <3>1. PICK s \in UpTo(EvidenceRecord, 2), stage \in {{"arrival"}, {"sailing"}} :
             probe' = [of |-> "evidence", services |-> s, stage |-> stage]
      BY <1>2, <2>4, PickedBy DEF PickEvidence, Pick
    <3>2. PICK k \in 0..2 : s \in [1..k -> EvidenceRecord]
      BY DEF UpTo
    <3>3. k \in Nat /\ DOMAIN s = 1..k
      BY <3>2
    <3>4. \A i \in 1..k : s[i].scheduled \in Int \cup {None} /\ s[i].served \in Int \cup {None}
      BY <3>2 DEF EvidenceRecord
    <3>5. DA!InferenceHasEvidence(s, stage)
      BY <3>3, <3>4, InferenceAlwaysHasEvidence
    <3> QED
      BY <3>1, <3>5
  <2> QED
    BY <2>1, <2>2, <2>3, <2>4 DEF DelaysReconcile
<1>3. DelaysReconcile /\ UNCHANGED probe => DelaysReconcile'
  BY DEF DelaysReconcile
<1> QED
  BY <1>1, <1>2, <1>3, PTL DEF AlgorithmsSpec

=============================================================================
