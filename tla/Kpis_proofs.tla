---------------------------- MODULE Kpis_proofs -----------------------------
(* Proofs about the calculations, continued: the workbooks a dataset is read   *)
(* from, with the commit of their rows, and the KPIs computed from them.       *)
EXTENDS Algorithms_proofs

-----------------------------------------------------------------------------
(* Workbooks.                                                                  *)

\* The counts, selections and sets the workbook checks use are those of Statistics.
LEMMA WBStatistics ==
  /\ \A S : WB!Cardinality(S) = Cardinality(S)
  /\ \A s, K : WB!Picked(s, K) = Picked(s, K)
  /\ \A s : WB!ToSet(s) = ToSet(s)
  /\ \A S : WB!Max(S) = Greatest(S)
<1>1. \A S : WB!Cardinality(S) = Cardinality(S)
  BY DEF WB!Cardinality, Cardinality, WB!IsFiniteSet, IsFiniteSet
<1>2. \A s, K : WB!Picked(s, K) = Picked(s, K)
  BY DEF WB!Picked, Picked, WB!Nth, Nth, WB!Cardinality, Cardinality, WB!IsFiniteSet, IsFiniteSet
<1>3. \A s : WB!ToSet(s) = ToSet(s)
  BY DEF WB!ToSet, ToSet
<1>4. \A S : WB!Max(S) = Greatest(S)
  BY DEF WB!Max, Greatest
<1> QED
  BY <1>1, <1>2, <1>3, <1>4

\* The smallest of a set of positions.
LEMMA WBMin ==
  ASSUME NEW S, S # {}, \A i \in S : i \in Nat
  PROVE  WB!Min(S) \in S /\ \A i \in S : WB!Min(S) <= i
<1>1. S \subseteq Nat
  OBVIOUS
<1>2. \E m \in S : \A i \in S : m <= i
  BY <1>1, LeastNumber
<1> QED
  BY <1>2 DEF WB!Min

\* Of identical staged rows exactly one is committed.
LEMMA AlwaysOneOfEachRow ==
  ASSUME NEW n \in Nat, NEW rows, DOMAIN rows = 1..n, NEW Table, NEW Data,
         \A i \in 1..n : rows[i] \in [table : Table, data : Data, badTime : BOOLEAN]
  PROVE  WB!OneOfEachRow(rows)
<1> DEFINE status == WB!validate_staging(rows)
           Same(i) == {j \in 1..n : rows[j] = rows[i]}
           Valid(i) == {j \in Same(i) : status[j] = "VALID"}
<1>1. ASSUME NEW i \in 1..n, rows[i].badTime PROVE Valid(i) = {}
  BY <1>1 DEF WB!validate_staging
<1>2. ASSUME NEW i \in 1..n, ~rows[i].badTime PROVE \E m : Valid(i) = {m}
  <2>1. Same(i) # {} /\ \A j \in Same(i) : j \in Nat
    OBVIOUS
  <2>2. PICK m \in Same(i) : \A j \in Same(i) : m <= j
    <3> DEFINE S == Same(i)
    <3>1. S \subseteq Nat /\ S # {}
      BY <2>1
    <3> HIDE DEF S
    <3>2. \E m \in S : \A j \in S : m <= j
      BY <3>1, LeastNumber
    <3> QED
      BY <3>2 DEF S
  <2>3. \A j, k \in 1..n : (rows[j].table = rows[k].table /\ rows[j].data = rows[k].data /\ ~rows[j].badTime /\ ~rows[k].badTime)
                             <=> (rows[j] = rows[k] /\ ~rows[k].badTime)
    <3> SUFFICES ASSUME NEW j \in 1..n, NEW k \in 1..n, rows[j].table = rows[k].table, rows[j].data = rows[k].data,
                        ~rows[j].badTime, ~rows[k].badTime
                 PROVE  rows[j] = rows[k]
      OBVIOUS
    <3>1. rows[j] \in [table : Table, data : Data, badTime : BOOLEAN] /\ rows[k] \in [table : Table, data : Data, badTime : BOOLEAN]
      OBVIOUS
    <3>2. rows[j].badTime = FALSE /\ rows[k].badTime = FALSE
      BY <3>1
    <3> QED
      BY <3>1, <3>2
  <2>4. \A j \in Same(i) : status[j] = "VALID" <=> ~\E k \in 1..(j - 1) : rows[k] = rows[j] /\ ~rows[j].badTime
    <3> SUFFICES ASSUME NEW j \in Same(i)
                 PROVE  status[j] = "VALID" <=> ~\E k \in 1..(j - 1) : rows[k] = rows[j] /\ ~rows[j].badTime
      OBVIOUS
    <3>1. ~rows[j].badTime /\ j \in 1..n
      BY <1>2
    <3>2. \A k \in 1..(j - 1) : k \in 1..n
      BY <3>1
    <3>3. (\E k \in 1..(j - 1) : ~rows[k].badTime /\ rows[k].table = rows[j].table /\ rows[k].data = rows[j].data)
            <=> \E k \in 1..(j - 1) : rows[k] = rows[j] /\ ~rows[j].badTime
      BY <2>3, <3>1, <3>2
    <3> QED
      BY <3>1, <3>3 DEF WB!validate_staging
  <2>5. m \in Valid(i)
    <3>1. ~\E k \in 1..(m - 1) : rows[k] = rows[m] /\ ~rows[m].badTime
      <4> SUFFICES ASSUME NEW k \in 1..(m - 1), rows[k] = rows[m] PROVE FALSE
        OBVIOUS
      <4>1. k \in Same(i)
        BY <2>2
      <4> QED
        BY <2>2, <4>1
    <3> QED
      BY <2>2, <2>4, <3>1
  <2>6. ASSUME NEW j \in Valid(i) PROVE j = m
    <3>1. j \in Same(i) /\ ~\E k \in 1..(j - 1) : rows[k] = rows[j] /\ ~rows[j].badTime
      BY <2>4
    <3>2. m <= j /\ m \in 1..n /\ j \in 1..n /\ rows[m] = rows[j] /\ ~rows[j].badTime
      BY <1>2, <2>2, <3>1
    <3> QED
      BY <3>1, <3>2
  <2>7. Valid(i) = {m}
    BY <2>5, <2>6
  <2> QED
    BY <2>7
<1>3. ASSUME NEW i \in 1..n PROVE Cardinality(Valid(i)) = IF rows[i].badTime THEN 0 ELSE 1
  <2>1. CASE rows[i].badTime
    <3>1. Valid(i) = {}
      BY <1>1, <2>1
    <3> HIDE DEF Valid
    <3> QED
      BY <2>1, <3>1, FS_EmptySet
  <2>2. CASE ~rows[i].badTime
    <3>1. PICK m : Valid(i) = {m}
      BY <1>2, <2>2
    <3> HIDE DEF Valid
    <3>2. Cardinality({m}) = 1
      BY FS_Singleton
    <3> QED
      BY <2>2, <3>1, <3>2
  <2> QED
    BY <2>1, <2>2
<1>4. \A i \in 1..n : {j \in Same(i) : status[j] = "VALID"} = Valid(i)
  OBVIOUS
<1> QED
  BY <1>3, WBStatistics DEF WB!OneOfEachRow

\* However columns are repeated, no value of a row is lost.
LEMMA NoValueEverOverwritten ==
  ASSUME NEW n \in Nat, NEW row, DOMAIN row = 1..n
  PROVE  WB!NoValueOverwritten(row)
<1> DEFINE K == {i \in 1..n : row[i].value # None}
           F == Picked(row, K)
<1>1. WB!Filled(row) = F
  BY WBStatistics DEF WB!Filled, WB!Filter
<1>2. IsFiniteSet(K) /\ \A i \in K : i \in Int
  <2>1. \A i \in K : i \in 1..n
    OBVIOUS
  <2> HIDE DEF K
  <2> QED
    BY <2>1, PositionsFinite
<1> SUFFICES ASSUME NEW c \in ToSet(F)
             PROVE  LET v == WB!normalize_row(row)[c.column] IN c.value = v.value \/ c \in WB!ToSet(v.others)
  BY <1>1, WBStatistics DEF WB!NoValueOverwritten
<1> DEFINE f == Cardinality(K)
           L == {k \in 1..f : F[k].column = c.column}
           O == Picked(F, L)
           o == Cardinality(L)
<1>3. f \in Nat /\ DOMAIN F = 1..f
  <2> HIDE DEF K
  <2> QED
    BY <1>2, PickedFacts, NthFacts
<1>4. IsFiniteSet(L) /\ \A k \in L : k \in Int
  <2>1. \A k \in L : k \in 1..f
    OBVIOUS
  <2> HIDE DEF L, f
  <2> QED
    BY <1>3, <2>1, PositionsFinite
<1>5. PICK k \in 1..f : c = F[k]
  <2> HIDE DEF F, f
  <2> QED
    BY <1>3 DEF ToSet
<1>6. k \in L
  BY <1>5
<1>7. o \in Nat /\ DOMAIN O = 1..o /\ Len(O) = o /\ \A j \in 1..o : O[j] = F[Nth(L, j)]
  <2> HIDE DEF L, F
  <2> QED
    BY <1>4, PickedFacts, NthFacts
<1>8. PICK j \in 1..o : O[j] = c
  <2> HIDE DEF L, F
  <2>1. PICK j \in 1..o : Nth(L, j) = k
    BY <1>4, <1>6, NthFacts
  <2> QED
    BY <1>5, <1>7, <2>1
<1>9. c.column \in {x.column : x \in WB!ToSet(row)}
  <2> HIDE DEF K
  <2>1. PICK i \in K : c = row[i]
    BY <1>2, PickedRange
  <2>2. i \in 1..n
    BY <2>1 DEF K
  <2> QED
    BY <2>1, <2>2, WBStatistics DEF ToSet
<1> DEFINE rest == Tail(O)
           M == {i \in DOMAIN rest : rest[i].value # O[1].value}
           others == Picked(rest, M)
<1>10. {i \in DOMAIN F : F[i].column = c.column} = L
  BY <1>3
<1>11. WB!normalize_row(row)[c.column] = IF O = <<>> THEN [value |-> None, others |-> <<>>] ELSE [value |-> O[1].value, others |-> others]
  <2>1. WB!normalize_row(row)[c.column]
          = LET of == Picked(F, {i \in DOMAIN F : F[i].column = c.column})
            IN  IF of = <<>> THEN [value |-> None, others |-> <<>>]
                ELSE [value |-> of[1].value,
                      others |-> Picked(Tail(of), {i \in DOMAIN Tail(of) : Tail(of)[i].value # of[1].value})]
    <3> HIDE DEF F
    <3> QED
      BY <1>1, <1>9, WBStatistics DEF WB!normalize_row, WB!Filter
  <2> HIDE DEF F, L
  <2>2. WB!normalize_row(row)[c.column]
          = LET of == Picked(F, L)
            IN  IF of = <<>> THEN [value |-> None, others |-> <<>>]
                ELSE [value |-> of[1].value,
                      others |-> Picked(Tail(of), {i \in DOMAIN Tail(of) : Tail(of)[i].value # of[1].value})]
    BY <1>10, <2>1, Zenon
  <2> QED
    BY <2>2
<1>12. O # <<>>
  <2> HIDE DEF O, o
  <2> QED
    BY <1>7, <1>8
<1>13. CASE c.value = O[1].value
  <2> HIDE DEF O, rest, others
  <2> QED
    BY <1>11, <1>12, <1>13
<1>14. CASE c.value # O[1].value
  <2>1. j # 1
    BY <1>8, <1>14
  <2>2. DOMAIN rest = 1..(o - 1) /\ \A i \in 1..(o - 1) : rest[i] = O[i + 1]
    <3>1. O \in Seq({O[i] : i \in 1..o})
      <4>1. O = [i \in 1..o |-> F[Nth(L, i)]]
        <5> HIDE DEF F, L
        <5> QED
          BY DEF Picked
      <4>2. \A i \in 1..o : F[Nth(L, i)] \in {O[x] : x \in 1..o}
        <5> HIDE DEF O, F, L, o
        <5> QED
          BY <1>7
      <4> DEFINE R == {O[x] : x \in 1..o}
      <4>3. [i \in 1..o |-> F[Nth(L, i)]] \in [1..o -> R]
        <5> HIDE DEF R, O, F, L, o
        <5> QED
          BY <4>2 DEF R
      <4>4. O \in [1..o -> R]
        <5> HIDE DEF R, F, L, o
        <5> QED
          BY <4>1, <4>3, Zenon
      <4> HIDE DEF R, O, o
      <4>5. o \in Nat
        BY <1>7
      <4>6. O \in Seq(R)
        BY ONLY <4>4, <4>5
      <4> QED
        BY ONLY <4>6 DEF R
    <3> HIDE DEF O, o
    <3> QED
      BY <1>7, <1>8, <3>1
  <2>3. M = {i \in 1..(o - 1) : rest[i].value # O[1].value}
    BY <2>2
  <2>4. IsFiniteSet(M) /\ \A i \in M : i \in Int
    <3>1. o - 1 \in Nat
      <4> HIDE DEF O, o
      <4>1. o \in Nat /\ j \in 1..o
        BY ONLY <1>7, <1>8
      <4> QED
        BY ONLY <4>1
    <3>2. \A i \in M : i \in 1..(o - 1)
      <4> HIDE DEF rest, O, o
      <4> QED
        BY ONLY <2>3, Zenon
    <3> DEFINE e == o - 1
    <3> HIDE DEF M, o, e
    <3>3. e \in Nat /\ \A i \in M : i \in 1..e
      BY <3>1, <3>2 DEF e
    <3> QED
      BY <3>3, PositionsFinite
  <2>5. j - 1 \in M /\ rest[j - 1] = c
    <3>1. j - 1 \in 1..(o - 1) /\ j - 1 + 1 = j
      <4> HIDE DEF O, o
      <4>1. o \in Nat /\ j \in 1..o
        BY ONLY <1>7, <1>8
      <4> QED
        BY ONLY <2>1, <4>1
    <3>2. rest[j - 1] = c
      BY <1>8, <2>2, <3>1
    <3> HIDE DEF O, rest, o
    <3> QED
      BY <1>14, <2>2, <3>1, <3>2
  <2> HIDE DEF M, rest, O
  <2>6. c \in ToSet(Picked(rest, M))
    BY <2>4, <2>5, PickedRange
  <2>7. c \in WB!ToSet(others)
    BY <2>6, WBStatistics
  <2> HIDE DEF others
  <2> QED
    BY <1>11, <1>12, <2>7
<1> QED
  BY <1>13, <1>14

\* A worksheet recognises finitely many columns, and more of them score no less.
LEMMA ScoreFacts ==
  ASSUME NEW w \in WB!Worksheets, NEW labels
  PROVE  /\ WB!Score(w, labels) \in Nat
         /\ \A v \in WB!Worksheets : labels \cap WB!Columns[w] \subseteq WB!Columns[v] => WB!Score(w, labels) <= WB!Score(v, labels)
<1>1. WB!Worksheets = {"VesselCalls", "Events", "Services", "CargoOps", "Delays"}
  BY DEF WB!Worksheets, WB!Required
<1>2. \A v \in WB!Worksheets : IsFiniteSet(WB!Columns[v])
  <2>1. IsFiniteSet(WB!Columns["VesselCalls"])
    BY SixAreFinite DEF WB!Columns
  <2>2. IsFiniteSet(WB!Columns["Events"])
    BY SixAreFinite DEF WB!Columns
  <2>3. IsFiniteSet(WB!Columns["Services"])
    BY SixAreFinite DEF WB!Columns
  <2>4. IsFiniteSet(WB!Columns["CargoOps"])
    BY SixAreFinite DEF WB!Columns
  <2>5. IsFiniteSet(WB!Columns["Delays"])
    BY SixAreFinite DEF WB!Columns
  <2> QED
    BY <1>1, <2>1, <2>2, <2>3, <2>4, <2>5
<1>3. \A v \in WB!Worksheets : IsFiniteSet(labels \cap WB!Columns[v])
  <2> SUFFICES ASSUME NEW v \in WB!Worksheets PROVE IsFiniteSet(labels \cap WB!Columns[v])
    OBVIOUS
  <2> DEFINE C == WB!Columns[v]
             I == labels \cap C
  <2>1. IsFiniteSet(C) /\ I \in SUBSET C
    BY <1>2
  <2> HIDE DEF C, I
  <2>2. IsFiniteSet(I)
    BY <2>1, FS_Subset
  <2> QED
    BY <2>2 DEF I, C
<1>4. \A v \in WB!Worksheets : WB!Score(v, labels) = Cardinality(labels \cap WB!Columns[v])
  BY WBStatistics DEF WB!Score, WB!recognized_columns
<1>5. ASSUME NEW v \in WB!Worksheets, labels \cap WB!Columns[w] \subseteq WB!Columns[v]
      PROVE  Cardinality(labels \cap WB!Columns[w]) <= Cardinality(labels \cap WB!Columns[v])
  <2> DEFINE I == labels \cap WB!Columns[w]
             J == labels \cap WB!Columns[v]
  <2>1. IsFiniteSet(J) /\ I \in SUBSET J
    BY <1>3, <1>5
  <2> HIDE DEF I, J
  <2>2. Cardinality(I) <= Cardinality(J)
    BY <2>1, FS_Subset
  <2> QED
    BY <2>2 DEF I, J
<1>6. Cardinality(labels \cap WB!Columns[w]) \in Nat
  BY <1>3, FS_CardinalityType
<1> QED
  BY <1>4, <1>5, <1>6

\* A sheet is taken for a worksheet only on the evidence of its own columns, and a named one for no other.
LEMMA RecognitionAlwaysHasEvidence ==
  ASSUME NEW n \in Nat, NEW rows, DOMAIN rows = 1..n, NEW named \in WB!Worksheets \cup {None}
  PROVE  WB!RecognitionNeverGuesses(rows, named)
<1> DEFINE target(i) == WB!classify_headers(rows[i], named)
           at == WB!detect_header(rows, named)
           as == WB!ParsedAs(rows, named)
<1>1. at = 0 \/ (at \in 1..n /\ target(at) # None)
  <2> DEFINE found == {i \in 1..n : target(i) # None}
             score(i) == WB!Score(target(i), rows[i])
             best == {i \in found : \A j \in found : score(j) <= score(i)}
  <2>1. at = IF best = {} THEN 0 ELSE WB!Min(best)
    BY DEF WB!detect_header
  <2>2. \A i \in best : i \in 1..n /\ i \in Nat /\ target(i) # None
    OBVIOUS
  <2> HIDE DEF best, target, at
  <2>3. best # {} => WB!Min(best) \in best
    BY <2>2, WBMin
  <2> QED
    BY <2>1, <2>2, <2>3
<1>2. /\ at # 0 => as = target(at)
      /\ at = 0 /\ named # None /\ (\E i \in 1..n : rows[i] # {}) => as = "failed"
      /\ at = 0 /\ ~(named # None /\ \E i \in 1..n : rows[i] # {}) => as = "skipped"
  BY DEF WB!ParsedAs
<1>3. WB!Worksheets = {"VesselCalls", "Events", "Services", "CargoOps", "Delays"}
  BY DEF WB!Worksheets, WB!Required
<1>4. CASE named # None
  <2>1. \A i \in 1..n : target(i) \in {named, None}
    BY <1>4 DEF WB!classify_headers
  <2> HIDE DEF target, at, as
  <2>2. CASE at = 0
    <3>1. as = "failed" \/ (as = "skipped" /\ \A i \in 1..n : rows[i] = {})
      BY <1>2, <1>4, <2>2
    <3> QED
      BY <1>4, <3>1 DEF WB!RecognitionNeverGuesses, as
  <2>3. CASE at # 0
    <3>1. as = named
      BY <1>1, <1>2, <2>1, <2>3
    <3> QED
      BY <1>4, <3>1 DEF WB!RecognitionNeverGuesses, as
  <2> QED
    BY <2>2, <2>3
<1>5. CASE named = None
  <2> SUFFICES ASSUME as \in WB!Worksheets
               PROVE  \E i \in 1..n :
                        /\ WB!Required[as] \subseteq rows[i]
                        /\ \E c \in rows[i] \cap WB!Columns[as] :
                              c # "VCN" /\ \A v \in WB!Candidates(rows[i], named) \ {as} : ~ (rows[i] \cap WB!Columns[as] \subseteq WB!Columns[v])
    BY <1>5 DEF WB!RecognitionNeverGuesses
  <2>1. at \in 1..n /\ target(at) # None /\ as = target(at)
    <3> HIDE DEF at, as, target
    <3> QED
      BY <1>1, <1>2, <1>3
  <2> DEFINE labels == rows[at]
             fits == WB!Candidates(labels, named)
             best == {w \in fits : \A v \in fits : WB!Score(v, labels) <= WB!Score(w, labels)}
  <2>2. as = IF Cardinality(best) = 1 THEN CHOOSE w \in best : TRUE ELSE None
    <3> HIDE DEF at
    <3> QED
      BY <1>5, <2>1, WBStatistics DEF WB!classify_headers
  <2>3. PICK w : best = {w}
    <3>1. Cardinality(best) = 1
      <4> HIDE DEF best, as, at
      <4> QED
        BY <2>1, <2>2
    <3>2. IsFiniteSet(best)
      <4>1. best \in SUBSET {"VesselCalls", "Events", "Services", "CargoOps", "Delays", "VesselCalls"}
        BY <1>3 DEF WB!Candidates
      <4> HIDE DEF best
      <4> QED
        BY <4>1, SixAreFinite, FS_Subset
    <3> HIDE DEF best
    <3> QED
      BY <3>1, <3>2, FS_Singleton
  <2>4. as = w /\ as \in best
    <3>1. Cardinality(best) = 1
      <4> HIDE DEF best
      <4> QED
        BY <2>3, FS_Singleton
    <3>2. (CHOOSE x \in best : TRUE) \in best
      BY <2>3
    <3> HIDE DEF best, as
    <3> QED
      BY <2>2, <2>3, <3>1, <3>2
  <2>5. as \in fits /\ \A v \in fits : WB!Score(v, labels) <= WB!Score(as, labels)
    <3> HIDE DEF as, fits
    <3> QED
      BY <2>4
  <2>6. fits \subseteq WB!Worksheets /\ WB!Required[as] \subseteq labels
        /\ (as \in {"CargoOps", "Delays"} => labels \cap WB!Columns[as] # {"VCN"})
    <3> HIDE DEF as
    <3> QED
      BY <1>5, <2>5 DEF WB!Candidates, WB!recognized_columns
  <2>7. \E c \in labels \cap WB!Columns[as] : c # "VCN"
    <3> HIDE DEF as, labels
    <3>1. CASE as = "VesselCalls"
      BY <2>6, <3>1 DEF WB!Required, WB!Columns
    <3>2. CASE as = "Events"
      BY <2>6, <3>2 DEF WB!Required, WB!Columns
    <3>3. CASE as = "Services"
      BY <2>6, <3>3 DEF WB!Required, WB!Columns
    <3>4. CASE as = "CargoOps"
      BY <2>6, <3>4 DEF WB!Required, WB!Columns
    <3>5. CASE as = "Delays"
      BY <2>6, <3>5 DEF WB!Required, WB!Columns
    <3> QED
      BY <1>3, <3>1, <3>2, <3>3, <3>4, <3>5
  <2>8. ASSUME NEW v \in fits \ {as}, labels \cap WB!Columns[as] \subseteq WB!Columns[v] PROVE FALSE
    <3> HIDE DEF as, fits, labels
    <3>1. v \in WB!Worksheets /\ as \in WB!Worksheets
      BY <2>6
    <3>2. WB!Score(as, labels) \in Nat /\ WB!Score(as, labels) <= WB!Score(v, labels)
      BY <2>8, <3>1, ScoreFacts
    <3>3. \A u \in fits : WB!Score(u, labels) \in Nat
      BY <2>6, ScoreFacts
    <3>4. ASSUME NEW u \in fits PROVE WB!Score(u, labels) <= WB!Score(v, labels)
      <4>1. WB!Score(u, labels) \in Nat /\ WB!Score(v, labels) \in Nat
        BY <3>3
      <4>2. WB!Score(u, labels) <= WB!Score(as, labels)
        BY <2>5
      <4> DEFINE a == WB!Score(u, labels)
                 b == WB!Score(v, labels)
                 c == WB!Score(as, labels)
      <4>3. a \in Nat /\ b \in Nat /\ c \in Nat /\ a <= c /\ c <= b
        BY <3>2, <4>1, <4>2
      <4> HIDE DEF a, b, c
      <4>4. a <= b
        BY <4>3
      <4> QED
        BY <4>4 DEF a, b
    <3>5. v \in best
      BY <3>4
    <3> HIDE DEF best
    <3> QED
      BY <2>3, <2>4, <3>5
  <2> HIDE DEF as, at
  <2> QED
    BY <2>1, <2>6, <2>7, <2>8
<1> QED
  BY <1>4, <1>5

-----------------------------------------------------------------------------
(* The canonical commit.                                                       *)

\* A name leads to a canonical key, to a label or to itself.
LEMMA CanonicalNames ==
  ASSUME NEW movement
  PROVE  \A x : WB!canonical_event_name(x, movement) \in WB!EventKeys \cup {x, "Port Limit In"}
<1> SUFFICES ASSUME NEW x PROVE WB!canonical_event_name(x, movement) \in WB!EventKeys \cup {x, "Port Limit In"}
  OBVIOUS
<1> DEFINE key == WB!MovementKey(movement)
<1> HIDE DEF key
<1>1. CASE x \in WB!EventKeys
  BY <1>1 DEF WB!canonical_event_name, WB!EventKeys, WB!EventLabels, WB!PlainAliases, WB!ArrivalAliases, WB!MovementAliases, key
<1>2. CASE x = "Port Limit In"
  BY <1>2 DEF WB!canonical_event_name, WB!EventKeys, WB!EventLabels, WB!PlainAliases, WB!ArrivalAliases, WB!MovementAliases, key
<1>3. CASE x = "Port Limits"
  BY <1>3 DEF WB!canonical_event_name, WB!EventKeys, WB!EventLabels, WB!PlainAliases, WB!ArrivalAliases, WB!MovementAliases, key
<1>4. CASE x = "Actual scheduled Date/Time"
  BY <1>4 DEF WB!canonical_event_name, WB!EventKeys, WB!EventLabels, WB!PlainAliases, WB!ArrivalAliases, WB!MovementAliases, key
<1>5. CASE x = "Requested time"
  <2>0. /\ DOMAIN WB!MovementAliases = {"Requested time"} /\ DOMAIN WB!MovementAliases["Requested time"] = {"ARRIVAL", "SAILING"}
        /\ WB!MovementAliases["Requested time"]["ARRIVAL"] = "PILOT_REQUEST_ARRIVAL"
        /\ WB!MovementAliases["Requested time"]["SAILING"] = "PILOT_REQUEST_SAILING"
    BY DEF WB!MovementAliases
  <2>1. CASE key = "ARRIVAL"
    <3>1. WB!canonical_event_name(x, movement) = WB!MovementAliases["Requested time"]["ARRIVAL"]
      BY <1>5, <2>0, <2>1 DEF WB!canonical_event_name, WB!EventKeys, WB!EventLabels, WB!PlainAliases, WB!ArrivalAliases, key
    <3> QED
      BY <2>0, <3>1 DEF WB!EventKeys
  <2>2. CASE key = "SAILING"
    <3>1. WB!canonical_event_name(x, movement) = WB!MovementAliases["Requested time"]["SAILING"]
      BY <1>5, <2>0, <2>2 DEF WB!canonical_event_name, WB!EventKeys, WB!EventLabels, WB!PlainAliases, WB!ArrivalAliases, key
    <3> QED
      BY <2>0, <3>1 DEF WB!EventKeys
  <2>3. CASE key \notin {"ARRIVAL", "SAILING"}
    BY <1>5, <2>3 DEF WB!canonical_event_name, WB!EventKeys, WB!EventLabels, WB!PlainAliases, WB!ArrivalAliases, WB!MovementAliases, key
  <2> QED
    BY <2>1, <2>2, <2>3
<1>6. CASE x \notin WB!EventKeys \cup {"Port Limit In", "Port Limits", "Actual scheduled Date/Time", "Requested time"}
  BY <1>6 DEF WB!canonical_event_name, WB!EventLabels, WB!PlainAliases, WB!ArrivalAliases, WB!MovementAliases
<1> QED
  BY <1>1, <1>2, <1>3, <1>4, <1>5, <1>6

\* A staged name is registered as it is or leads to a canonical key.
LEMMA CommittedNames ==
  ASSUME NEW name, NEW movement
  PROVE  LET staged == WB!canonical_event_name(name, movement)
         IN  WB!canonical_event_name(staged, movement) \in WB!EventKeys \cup {staged}
<1>1. \A x : WB!canonical_event_name(x, movement) \in WB!EventKeys \cup {x, "Port Limit In"}
  BY CanonicalNames
<1>2. \A x \in WB!EventKeys : WB!canonical_event_name(x, movement) = x
  BY DEF WB!canonical_event_name, WB!EventKeys, WB!EventLabels, WB!PlainAliases, WB!ArrivalAliases, WB!MovementAliases
<1>3. WB!canonical_event_name("Port Limit In", movement) = "PORT_LIMIT_IN"
  BY DEF WB!canonical_event_name, WB!EventKeys, WB!EventLabels, WB!PlainAliases, WB!ArrivalAliases, WB!MovementAliases
<1>4. "PORT_LIMIT_IN" \in WB!EventKeys
  BY DEF WB!EventKeys
<1> QED
  BY <1>1, <1>2, <1>3, <1>4

\* A blank name stays blank, and no name becomes blank.
LEMMA BlankNames ==
  ASSUME NEW name, NEW movement
  PROVE  WB!canonical_event_name(name, movement) = None <=> name = None
<1>1. None \notin WB!EventNames
  BY NoneIsNoValue
<1>2. CASE name = None
  BY <1>1, <1>2 DEF WB!EventNames, WB!canonical_event_name
<1>3. CASE name # None
  <2>1. WB!canonical_event_name(name, movement) \in WB!EventKeys \cup {name, "Port Limit In"}
    BY CanonicalNames
  <2>2. None \notin WB!EventKeys \cup {"Port Limit In"}
    BY <1>1 DEF WB!EventNames, WB!EventLabels
  <2> QED
    BY <1>3, <2>1, <2>2
<1> QED
  BY <1>2, <1>3

BerthRow(calls, c) ==
  [call |-> WB!CallOf(calls, c.vcn), event |-> "CARGO_START", time |-> c.start, scope |-> "ARRIVAL", source |-> "CargoOps"]
Starts(calls, c) == WB!CallOf(calls, c.vcn) # 0 /\ c.start # None
Started(q, call) == \E i \in 1..Len(q) : q[i].call = call /\ q[i].event = "CARGO_START"
Adds(calls, q, c) ==
  IF WB!CallOf(calls, c.vcn) = 0 \/ c.start = None \/ \E o \in WB!ToSet(q) : o.call = WB!CallOf(calls, c.vcn) /\ o.event = "CARGO_START"
  THEN q
  ELSE Append(q, [call |-> WB!CallOf(calls, c.vcn), event |-> "CARGO_START", time |-> c.start, scope |-> "ARRIVAL", source |-> "CargoOps"])

\* What the cargo rows leave of the observed occurrences, and what they add to them.
Extends(q, p) == Len(p) <= Len(q) /\ \A i \in 1..Len(p) : q[i] = p[i]
OneStartEach(q, n) ==
  \A i \in 1..Len(q) : i > n => /\ q[i].source = "CargoOps" /\ q[i].event = "CARGO_START"
                                /\ \A j \in 1..Len(q) : q[j].call = q[i].call /\ q[j].event = "CARGO_START" => j = i

\* A cargo row adds at most one occurrence, to a call without one.
LEMMA AddsKeeps ==
  ASSUME NEW R, NEW obs \in Seq(R), NEW q \in Seq(R), Extends(q, obs), OneStartEach(q, Len(obs)),
         NEW calls, NEW c, BerthRow(calls, c) \in R
  PROVE  LET p == Adds(calls, q, c)
         IN  /\ p \in Seq(R) /\ Extends(p, q) /\ Extends(p, obs) /\ OneStartEach(p, Len(obs))
             /\ Starts(calls, c) => Started(p, WB!CallOf(calls, c.vcn))
<1> DEFINE p == Adds(calls, q, c)
           call == WB!CallOf(calls, c.vcn)
           b == BerthRow(calls, c)
           n == Len(q)
<1>1. n \in Nat /\ Len(obs) \in Nat
  OBVIOUS
<1>0. p = IF ~Starts(calls, c) \/ Started(q, call) THEN q ELSE Append(q, b)
  <2>1. (\E o \in WB!ToSet(q) : o.call = call /\ o.event = "CARGO_START") <=> Started(q, call)
    <3> HIDE DEF call
    <3> QED
      BY WBStatistics DEF ToSet, Started
  <2> QED
    BY <2>1 DEF Adds, Starts, BerthRow
<1>2. CASE ~Starts(calls, c) \/ Started(q, call)
  <2>1. p = q
    <3> HIDE DEF p, call
    <3> QED
      BY <1>0, <1>2
  <2>2. Extends(q, q)
    BY <1>1 DEF Extends
  <2> HIDE DEF p
  <2> QED
    BY <1>2, <2>1, <2>2 DEF p
<1>3. CASE Starts(calls, c) /\ ~Started(q, call)
  <2>1. p = Append(q, b)
    <3> HIDE DEF p, call, b
    <3> QED
      BY <1>0, <1>3
  <2>2. b.call = call /\ b.event = "CARGO_START" /\ b.source = "CargoOps" /\ b \in R
    BY DEF BerthRow
  <2> HIDE DEF b, p, call
  <2>3. p \in Seq(R) /\ Len(p) = n + 1 /\ (\A i \in 1..n : p[i] = q[i]) /\ p[n + 1] = b
    BY <2>1, <2>2
  <2>4. Extends(p, q)
    BY <1>1, <2>3 DEF Extends
  <2>5. Extends(p, obs)
    BY <1>1, <2>3 DEF Extends
  <2>6. Started(p, call)
    BY <1>1, <2>2, <2>3 DEF Started
  <2>7. OneStartEach(p, Len(obs))
    <3> SUFFICES ASSUME NEW i \in 1..Len(p), i > Len(obs)
                 PROVE  /\ p[i].source = "CargoOps" /\ p[i].event = "CARGO_START"
                        /\ \A j \in 1..Len(p) : p[j].call = p[i].call /\ p[j].event = "CARGO_START" => j = i
      BY DEF OneStartEach
    <3>1. \A j \in 1..n : ~(q[j].call = call /\ q[j].event = "CARGO_START")
      BY <1>3 DEF Started
    <3>2. CASE i = n + 1
      <4>1. p[i] = b
        BY <2>3, <3>2
      <4>2. ASSUME NEW j \in 1..Len(p), p[j].call = p[i].call /\ p[j].event = "CARGO_START" PROVE j = i
        <5>1. j \in 1..n \/ j = n + 1
          BY <1>1, <2>3
        <5> QED
          BY <2>2, <2>3, <3>1, <3>2, <4>1, <4>2, <5>1
      <4> QED
        BY <2>2, <4>1, <4>2
    <3>3. CASE i # n + 1
      <4>1. i \in 1..n
        BY <1>1, <2>3, <3>3
      <4>2. /\ q[i].source = "CargoOps" /\ q[i].event = "CARGO_START"
            /\ \A j \in 1..n : q[j].call = q[i].call /\ q[j].event = "CARGO_START" => j = i
        BY <4>1 DEF OneStartEach
      <4>3. p[i] = q[i]
        BY <2>3, <4>1
      <4>4. ASSUME NEW j \in 1..Len(p), p[j].call = p[i].call /\ p[j].event = "CARGO_START" PROVE j = i
        <5>1. j \in 1..n \/ j = n + 1
          BY <1>1, <2>3
        <5>2. CASE j \in 1..n
          BY <2>3, <4>2, <4>3, <4>4, <5>2
        <5>3. CASE j = n + 1
          <6>1. q[i].call = call
            BY <2>2, <2>3, <4>3, <4>4, <5>3
          <6> QED
            BY <3>1, <4>1, <4>2, <6>1
        <5> QED
          BY <5>1, <5>2, <5>3
      <4> QED
        BY <4>2, <4>3, <4>4
    <3> QED
      BY <3>2, <3>3
  <2> QED
    BY <2>3, <2>4, <2>5, <2>6, <2>7 DEF p, call
<1> QED
  BY <1>2, <1>3

Occurrences(R, obs) == {q \in Seq(R) : Extends(q, obs) /\ OneStartEach(q, Len(obs))}

\* The occurrences after each cargo row.
Unfolds(a, R, obs, calls, m, cargo) ==
  /\ a[0] = obs
  /\ \A k \in 0..(m - 1) : a[k + 1] = Adds(calls, a[k], cargo[k + 1])
  /\ \A k \in 0..m : a[k] \in Occurrences(R, obs)
  /\ WB!BerthEvents(calls, obs, cargo) = a[m]

\* The cargo rows are taken in their order.
LEMMA BerthUnfolds ==
  ASSUME NEW R, NEW obs \in Seq(R), NEW calls, NEW m \in Nat, NEW cargo, DOMAIN cargo = 1..m,
         \A k \in 1..m : BerthRow(calls, cargo[k]) \in R
  PROVE  \E a : Unfolds(a, R, obs, calls, m, cargo)
<1> DEFINE A == Occurrences(R, obs)
           step == [k \in 1..m |-> [q \in A |-> Adds(calls, q, cargo[k])]]
           Body(g, s) == IF s = {} THEN obs ELSE Adds(calls, g[s \ {Greatest(s)}], cargo[Greatest(s)])
           it == CHOOSE g : g = [s \in SUBSET (1..m) |-> Body(g, s)]
<1>0. obs \in A
  BY DEF Occurrences, Extends, OneStartEach
<1>1. \A k \in 1..m : \A q \in A : Adds(calls, q, cargo[k]) \in A
  BY AddsKeeps DEF Occurrences
<1> HIDE DEF A
<1>3. PICK g \in [SUBSET (1..m) -> A] : \A s \in SUBSET (1..m) : g[s] = FoldStep(obs, step, g, s)
  <2>1. StepsStay(A, m, step)
    BY <1>1 DEF StepsStay
  <2> HIDE DEF step
  <2>2. PICK g : IsFold(A, obs, m, step, g)
    BY <1>0, <2>1, FoldsExist
  <2> QED
    BY <2>2 DEF IsFold
<1>4. \A s \in SUBSET (1..m) : s # {} => Greatest(s) \in 1..m /\ s \ {Greatest(s)} \in SUBSET (1..m)
  <2> SUFFICES ASSUME NEW s \in SUBSET (1..m), s # {} PROVE Greatest(s) \in s
    OBVIOUS
  <2>1. IsFiniteSet(1..m)
    BY FS_Interval
  <2>2. IsFiniteSet(s)
    BY <2>1, FS_Subset
  <2>3. \A x \in s : x \in Int
    OBVIOUS
  <2> QED
    BY <2>2, <2>3, GreatestFacts
<1>5. \A s \in SUBSET (1..m) : FoldStep(obs, step, g, s) = Body(g, s)
  <2> SUFFICES ASSUME NEW s \in SUBSET (1..m) PROVE FoldStep(obs, step, g, s) = Body(g, s)
    OBVIOUS
  <2>1. s # {} => step[Greatest(s)][g[s \ {Greatest(s)}]] = Adds(calls, g[s \ {Greatest(s)}], cargo[Greatest(s)])
    <3> SUFFICES ASSUME s # {} PROVE step[Greatest(s)][g[s \ {Greatest(s)}]] = Adds(calls, g[s \ {Greatest(s)}], cargo[Greatest(s)])
      OBVIOUS
    <3> DEFINE k == Greatest(s)
               x == g[s \ {k}]
    <3>1. k \in 1..m /\ x \in A
      BY <1>3, <1>4
    <3> HIDE DEF k, x
    <3>2. step[k][x] = Adds(calls, x, cargo[k])
      BY <3>1
    <3> QED
      BY <3>2 DEF k, x
  <2> HIDE DEF step
  <2> QED
    BY <2>1 DEF FoldStep
<1> HIDE DEF step
<1>6. g = [s \in SUBSET (1..m) |-> Body(g, s)]
  BY <1>3, <1>5
<1>7. it = [s \in SUBSET (1..m) |-> Body(it, s)]
  <2> HIDE DEF Body
  <2> QED
    BY <1>6
<1>8. WB!BerthEvents(calls, obs, cargo) = it[1..m]
  BY DEF WB!BerthEvents, WB!FoldLeft, WB!MapThenFoldSet, WB!Max, Greatest, Adds
<1> HIDE DEF it
<1> DEFINE a == [k \in 0..m |-> it[1..k]]
<1>9. a[0] = obs
  <2>1. 1..0 = {} /\ {} \in SUBSET (1..m)
    OBVIOUS
  <2>2. it[{}] = obs
    BY <1>7, <2>1
  <2> QED
    BY <2>1, <2>2
<1>10. ASSUME NEW k \in 0..(m - 1) PROVE a[k + 1] = Adds(calls, a[k], cargo[k + 1])
  <2>1. /\ 1..(k + 1) \in SUBSET (1..m) /\ 1..(k + 1) # {}
        /\ Greatest(1..(k + 1)) = k + 1 /\ 1..(k + 1) \ {Greatest(1..(k + 1))} = 1..k
    BY GreatestOfFirst
  <2> DEFINE s == 1..(k + 1)
  <2>2. it[s] = Body(it, s)
    BY <1>7, <2>1
  <2>3. Body(it, s) = Adds(calls, it[s \ {Greatest(s)}], cargo[Greatest(s)])
    BY <2>1
  <2>4. it[s] = Adds(calls, it[1..k], cargo[k + 1])
    BY <2>1, <2>2, <2>3
  <2>5. k \in 0..m /\ k + 1 \in 0..m
    OBVIOUS
  <2>6. a[k] = it[1..k] /\ a[k + 1] = it[s]
    BY <2>5
  <2> QED
    BY <2>4, <2>6
<1>11. WB!BerthEvents(calls, obs, cargo) = a[m]
  BY <1>8
<1> HIDE DEF a
<1> DEFINE N == {k \in Nat : k <= m => a[k] \in A}
<1>12. 0 \in N
  BY <1>0, <1>9
<1>13. ASSUME NEW k \in N PROVE k + 1 \in N
  <2> SUFFICES ASSUME k + 1 <= m PROVE a[k + 1] \in A
    OBVIOUS
  <2>1. a[k] \in A /\ k \in 0..(m - 1) /\ k + 1 \in 1..m
    OBVIOUS
  <2> QED
    BY <1>1, <1>10, <2>1
<1>14. N = Nat
  <2>1. N \subseteq Nat
    OBVIOUS
  <2> HIDE DEF N
  <2> QED
    BY <1>12, <1>13, <2>1, AllNumbers
<1>15. \A k \in 0..m : a[k] \in A
  BY <1>14
<1> QED
  BY <1>9, <1>10, <1>11, <1>15 DEF A, Unfolds

\* Numbering the occurrences of each call and event leaves no gap.
LEMMA NumberedWithoutGaps ==
  ASSUME NEW R, NEW q \in Seq(R), NEW x \in 1..Len(q)
  PROVE  LET of == {i \in 1..Len(q) : q[i].call = q[x].call /\ q[i].event = q[x].event}
         IN  {WB!Numbered(q)[i].index : i \in of} = 1..Cardinality(of)
<1> DEFINE of == {i \in 1..Len(q) : q[i].call = q[x].call /\ q[i].event = q[x].event}
           n == Len(q)
<1>1. n \in Nat /\ DOMAIN q = 1..n
  OBVIOUS
<1>2. IsFiniteSet(of) /\ \A i \in of : i \in Int
  <2>1. \A i \in of : i \in 1..n
    OBVIOUS
  <2> HIDE DEF of
  <2> QED
    BY <1>1, <2>1, PositionsFinite
<1>3. ASSUME NEW i \in of PROVE WB!Numbered(q)[i].index = Rank(of, i)
  <2>1. {j \in 1..i : q[j].call = q[i].call /\ q[j].event = q[i].event} = {j \in of : j <= i}
    <3>1. i \in 1..n /\ q[i].call = q[x].call /\ q[i].event = q[x].event
      OBVIOUS
    <3>2. ASSUME NEW j \in 1..i, q[j].call = q[i].call /\ q[j].event = q[i].event PROVE j \in of /\ j <= i
      BY <1>1, <3>1, <3>2
    <3>3. ASSUME NEW j \in of, j <= i PROVE j \in 1..i /\ q[j].call = q[i].call /\ q[j].event = q[i].event
      BY <1>1, <3>1, <3>3
    <3> HIDE DEF of
    <3> QED
      BY <3>2, <3>3
  <2>2. WB!Numbered(q)[i].index = Cardinality({j \in 1..i : q[j].call = q[i].call /\ q[j].event = q[i].event})
    <3>1. i \in DOMAIN q
      BY <1>1
    <3> QED
      BY <3>1, WBStatistics DEF WB!Numbered
  <2> HIDE DEF of
  <2> QED
    BY <2>1, <2>2 DEF Rank
<1> HIDE DEF of
<1>4. \A i \in of : Rank(of, i) \in 1..Cardinality(of)
  BY <1>2, RankFacts
<1>5. \A k \in 1..Cardinality(of) : \E i \in of : Rank(of, i) = k
  BY <1>2, RankFacts
<1>6. {WB!Numbered(q)[i].index : i \in of} = 1..Cardinality(of)
  BY <1>3, <1>4, <1>5
<1> QED
  BY <1>6 DEF of

\* Every event row of a known call with a name and a readable time becomes one occurrence, no other row
\* does, and a cargo row gives a berth event only to a call that has none.
THEOREM CommitAlwaysAccounts ==
  ASSUME NEW calls, NEW m \in Nat, NEW events, DOMAIN events = 1..m, NEW n \in Nat, NEW cargo, DOMAIN cargo = 1..n
  PROVE  WB!CommitAccountsForEvents(calls, events, cargo)
<1> DEFINE name(e) == WB!canonical_event_name(WB!Staged(e), e.movement)
           K == {i \in 1..m : /\ WB!CallOf(calls, events[i].vcn) # 0
                           /\ events[i].name # None /\ WB!Instant(events[i]) # None}
           kept == Picked(events, K)
           k == Cardinality(K)
           row(e) == [call |-> WB!CallOf(calls, e.vcn), event |-> name(e), time |-> WB!Instant(e),
                      scope |-> WB!MovementScope(name(e), e.movement), source |-> "Events"]
           obs == WB!Observed(calls, WB!EventKeys, events)
           due == WB!Filter(events, LAMBDA e : WB!EventStatus(calls, e) = "VALID" /\ e.name # None /\ WB!Instant(e) # None)
<1>1. ASSUME NEW i \in 1..m PROVE name(events[i]) \in WB!Registered(WB!EventKeys, events) <=> events[i].name # None
  <2> DEFINE e == events[i]
             S == {WB!Staged(x) : x \in WB!ToSet(events)}
  <2>1. WB!Staged(e) \in S
    BY WBStatistics DEF ToSet
  <2>2. name(e) \in WB!EventKeys \cup {WB!Staged(e)}
    BY CommittedNames DEF WB!Staged
  <2>3. (WB!Staged(e) = None <=> e.name = None) /\ (name(e) = None <=> WB!Staged(e) = None)
    BY BlankNames DEF WB!Staged
  <2>4. None \notin WB!EventKeys
    BY NoneIsNoValue DEF WB!EventNames
  <2>5. WB!Registered(WB!EventKeys, events) = WB!EventKeys \cup (S \ {None})
    BY DEF WB!Registered
  <2> HIDE DEF name, e, S
  <2>6. name(e) \in WB!EventKeys \cup (S \ {None}) <=> e.name # None
    BY <2>1, <2>2, <2>3, <2>4
  <2> QED
    BY <2>5, <2>6 DEF e
<1>2. {i \in 1..m : /\ WB!CallOf(calls, events[i].vcn) # 0 /\ WB!Instant(events[i]) # None
                    /\ name(events[i]) \in WB!Registered(WB!EventKeys, events)} = K
  <2> HIDE DEF name
  <2> QED
    BY <1>1
<1>3. {i \in 1..m : /\ WB!EventStatus(calls, events[i]) = "VALID"
                    /\ events[i].name # None /\ WB!Instant(events[i]) # None} = K
  BY DEF WB!EventStatus
<1>4. k \in Nat /\ DOMAIN kept = 1..k /\ Len(kept) = k
  <2>1. \A i \in K : i \in 1..m
    OBVIOUS
  <2> HIDE DEF K
  <2>2. IsFiniteSet(K) /\ \A i \in K : i \in Int
    BY <2>1, PositionsFinite
  <2> QED
    BY <2>2, PickedFacts, NthFacts
<1>5. obs = [i \in 1..k |-> row(kept[i])]
  <2>1. obs = LET sel == Picked(events, {i \in 1..m : /\ WB!CallOf(calls, events[i].vcn) # 0 /\ WB!Instant(events[i]) # None
                                                      /\ name(events[i]) \in WB!Registered(WB!EventKeys, events)})
              IN  [i \in DOMAIN sel |-> row(sel[i])]
    BY WBStatistics DEF WB!Observed, WB!Filter
  <2> HIDE DEF obs, name, row, K
  <2>2. obs = [i \in DOMAIN kept |-> row(kept[i])]
    BY <1>2, <2>1
  <2> HIDE DEF kept
  <2> QED
    BY <1>4, <2>2
<1>6. Len(due) = k
  <2>1. due = kept
    <3>1. due = Picked(events, {i \in 1..m : /\ WB!EventStatus(calls, events[i]) = "VALID"
                                              /\ events[i].name # None /\ WB!Instant(events[i]) # None})
      BY WBStatistics DEF WB!Filter
    <3> HIDE DEF due, K
    <3> QED
      BY <1>3, <3>1
  <2> HIDE DEF due, kept
  <2> QED
    BY <1>4, <2>1
<1> DEFINE R == {row(kept[i]) : i \in 1..k} \cup {BerthRow(calls, cargo[i]) : i \in 1..n}
           q == WB!BerthEvents(calls, obs, cargo)
           N == Len(q)
           occs == WB!Numbered(q)
<1>7. obs \in Seq(R) /\ Len(obs) = k /\ \A i \in 1..k : obs[i].source = "Events"
  <2>1. \A i \in 1..k : row(kept[i]) \in R
    OBVIOUS
  <2>2. \A e : row(e).source = "Events"
    <3> HIDE DEF name
    <3> QED
      OBVIOUS
  <2> HIDE DEF R, row, kept, k, obs
  <2>3. obs \in [1..k -> R]
    BY <1>5, <2>1
  <2>4. obs \in Seq(R) /\ Len(obs) = k
    BY <1>4, <2>3
  <2> QED
    BY <1>5, <2>2, <2>4
<1> HIDE DEF due, kept, k, obs, row
<1>8. PICK a : Unfolds(a, R, obs, calls, n, cargo)
  <2>1. \A i \in 1..n : BerthRow(calls, cargo[i]) \in R
    OBVIOUS
  <2>2. obs \in Seq(R) /\ n \in Nat /\ DOMAIN cargo = 1..n
    BY <1>7
  <2> HIDE DEF R
  <2> QED
    BY ONLY <2>1, <2>2, BerthUnfolds
<1>9. \A i \in 1..n : BerthRow(calls, cargo[i]) \in R
  OBVIOUS
<1> HIDE DEF R, q
<1>10. q \in Seq(R) /\ Extends(q, obs) /\ OneStartEach(q, k)
  BY <1>7, <1>8 DEF Occurrences, Unfolds, q
<1>11. N \in Nat /\ DOMAIN q = 1..N /\ DOMAIN occs = 1..N /\ \A i \in 1..N : occs[i].row = q[i]
  BY <1>10 DEF WB!Numbered
<1>12. \A i \in 1..n : Starts(calls, cargo[i]) => Started(q, WB!CallOf(calls, cargo[i].vcn))
  <2> DEFINE P(j) == \A i \in 1..j : Starts(calls, cargo[i]) => Started(a[j], WB!CallOf(calls, cargo[i].vcn))
             M == {j \in Nat : j <= n => P(j)}
  <2>1. 0 \in M
    OBVIOUS
  <2>2. ASSUME NEW j \in M PROVE j + 1 \in M
    <3> SUFFICES ASSUME j + 1 <= n PROVE P(j + 1)
      OBVIOUS
    <3>1. P(j) /\ j \in 0..(n - 1) /\ j \in 0..n /\ j + 1 \in 0..n /\ j + 1 \in 1..n /\ j \in Nat
      OBVIOUS
    <3>2. a[j] \in Seq(R) /\ Extends(a[j], obs) /\ OneStartEach(a[j], Len(obs))
      BY <1>8, <3>1 DEF Occurrences, Unfolds
    <3> DEFINE p == a[j]
               c == cargo[j + 1]
               new == Adds(calls, p, c)
    <3>3. a[j + 1] = new
      BY <1>8, <3>1 DEF Unfolds
    <3>4. BerthRow(calls, c) \in R /\ p \in Seq(R) /\ Extends(p, obs) /\ OneStartEach(p, Len(obs))
      BY <1>9, <3>1, <3>2
    <3> HIDE DEF p, c
    <3>5. new \in Seq(R) /\ Extends(new, p) /\ (Starts(calls, c) => Started(new, WB!CallOf(calls, c.vcn)))
      BY <1>7, <3>4, AddsKeeps
    <3>6. \A call : Started(p, call) => Started(new, call)
      <4> SUFFICES ASSUME NEW call, Started(p, call) PROVE Started(new, call)
        OBVIOUS
      <4>1. PICK i \in 1..Len(p) : p[i].call = call /\ p[i].event = "CARGO_START"
        BY DEF Started
      <4> HIDE DEF new
      <4>2. Len(p) \in Nat /\ Len(new) \in Nat /\ Len(p) <= Len(new) /\ new[i] = p[i]
        BY <3>4, <3>5 DEF Extends
      <4> QED
        BY <4>1, <4>2 DEF Started
    <3> HIDE DEF new, M
    <3>7. ASSUME NEW i \in 1..(j + 1), Starts(calls, cargo[i]) PROVE Started(a[j + 1], WB!CallOf(calls, cargo[i].vcn))
      <4>1. CASE i = j + 1
        BY <3>3, <3>5, <3>7, <4>1 DEF c
      <4>2. CASE i # j + 1
        <5>1. i \in 1..j
          BY <3>1, <4>2
        <5> QED
          BY <3>1, <3>3, <3>6, <3>7, <5>1 DEF p
      <4> QED
        BY <4>1, <4>2
    <3> QED
      BY <3>7
  <2>3. M = Nat
    <3>1. M \subseteq Nat
      OBVIOUS
    <3> HIDE DEF M
    <3> QED
      BY <2>1, <2>2, <3>1, AllNumbers
  <2> QED
    BY <1>8, <2>3 DEF Unfolds, q
<1>13. Cardinality({i \in 1..N : occs[i].row.source = "Events"}) = Len(due)
  <2> HIDE DEF occs, N
  <2>1. k <= N /\ \A i \in 1..k : q[i] = obs[i]
    BY <1>7, <1>10 DEF Extends, N
  <2>2. ASSUME NEW i \in 1..N PROVE occs[i].row.source = "Events" <=> i \in 1..k
    <3>1. occs[i].row = q[i]
      BY <1>11
    <3>2. CASE i <= k
      <4>1. i \in 1..k
        BY <1>4, <3>2
      <4> QED
        BY <1>7, <2>1, <3>1, <4>1
    <3>3. CASE i > k
      <4>1. q[i].source = "CargoOps" /\ i \notin 1..k
        BY <1>4, <1>10, <3>3 DEF OneStartEach, N
      <4> QED
        BY <3>1, <4>1
    <3> QED
      BY <1>4, <1>11, <3>2, <3>3
  <2>3. {i \in 1..N : occs[i].row.source = "Events"} = 1..k
    <3>1. \A i \in 1..k : i \in 1..N
      BY <1>4, <1>11, <2>1
    <3> QED
      BY <2>2, <3>1
  <2>4. Cardinality(1..k) = k
    BY <1>4, FS_Interval
  <2> QED
    BY <1>6, <2>3, <2>4
<1> DEFINE of(x) == {i \in 1..N : q[i].call = q[x].call /\ q[i].event = q[x].event}
<1>14. ASSUME NEW x \in 1..N PROVE {occs[i].index : i \in of(x)} = 1..Cardinality(of(x))
  BY <1>10, NumberedWithoutGaps
<1>15. ASSUME NEW x \in 1..N, q[x].source = "CargoOps" PROVE Cardinality(of(x)) = 1
  <2>1. x > k
    <3> SUFFICES ASSUME ~(x > k) PROVE FALSE
      OBVIOUS
    <3>1. x \in 1..k
      BY <1>4
    <3>2. q[x] = obs[x]
      BY <1>7, <1>10, <3>1 DEF Extends
    <3> QED
      BY <1>7, <1>15, <3>1, <3>2
  <2>2. of(x) = {x}
    BY <1>10, <2>1 DEF OneStartEach
  <2> HIDE DEF of
  <2> QED
    BY <2>2, FS_Singleton
<1> DEFINE rows == WB!ToSet(occs)
           Of(o) == {i \in DOMAIN occs : occs[i].row.call = o.row.call /\ occs[i].row.event = o.row.event}
<1>16. \A o : o \in rows <=> \E x \in 1..N : o = occs[x]
  <2> HIDE DEF occs, N
  <2> QED
    BY <1>11, WBStatistics DEF ToSet
<1>17. ASSUME NEW x \in 1..N PROVE Of(occs[x]) = of(x)
  <2> HIDE DEF occs, N
  <2> QED
    BY <1>11
<1> HIDE DEF Of, of, occs, N, rows
<1>18. ASSUME NEW o \in rows
       PROVE  /\ {occs[i].index : i \in Of(o)} = 1..Cardinality(Of(o))
              /\ o.row.source = "CargoOps" => Cardinality(Of(o)) = 1
  <2>1. PICK x \in 1..N : o = occs[x]
    BY <1>16
  <2>2. Of(o) = of(x) /\ o.row = q[x]
    BY <1>11, <1>17, <2>1
  <2> QED
    BY <1>14, <1>15, <2>2
<1>19. ASSUME NEW c \in WB!ToSet(cargo), WB!CallOf(calls, c.vcn) # 0 /\ c.start # None
       PROVE  \E o \in rows : o.row.call = WB!CallOf(calls, c.vcn) /\ o.row.event = "CARGO_START"
  <2>1. PICK i \in 1..n : c = cargo[i]
    BY WBStatistics DEF ToSet
  <2>2. Started(q, WB!CallOf(calls, c.vcn))
    BY <1>12, <1>19, <2>1 DEF Starts
  <2>3. PICK x \in 1..N : q[x].call = WB!CallOf(calls, c.vcn) /\ q[x].event = "CARGO_START"
    BY <2>2 DEF Started, N
  <2>4. occs[x] \in rows /\ occs[x].row = q[x]
    BY <1>11, <1>16
  <2> QED
    BY <2>3, <2>4
<1>20. /\ WB!Cardinality({i \in DOMAIN occs : occs[i].row.source = "Events"}) = Len(due)
       /\ \A o \in rows : {occs[i].index : i \in Of(o)} = 1..WB!Cardinality(Of(o))
       /\ \A o \in rows : o.row.source = "CargoOps" => WB!Cardinality(Of(o)) = 1
       /\ \A c \in WB!ToSet(cargo) : WB!CallOf(calls, c.vcn) # 0 /\ c.start # None =>
              \E o \in rows : o.row.call = WB!CallOf(calls, c.vcn) /\ o.row.event = "CARGO_START"
  BY <1>11, <1>13, <1>18, <1>19, WBStatistics
<1> QED
  BY <1>20 DEF WB!CommitAccountsForEvents, WB!commit_to_canonical, Of, rows, due, occs, q, obs

\* The ingestion pipeline: in every reachable state a sheet is recognised on evidence, no value or row of it is lost or
\* taken twice, and every event row of a known call becomes exactly one numbered occurrence.
THEOREM WorkbookIsAccountedForHolds == AlgorithmsSpec => []WorkbookIsAccountedFor
<1>1. AlgorithmsInit => WorkbookIsAccountedFor
  BY DEF AlgorithmsInit, WorkbookIsAccountedFor
<1>2. ASSUME AlgorithmsNext PROVE WorkbookIsAccountedFor'
  <2>1. ASSUME probe'.of = "sheet" PROVE WB!RecognitionNeverGuesses(probe'.rows, probe'.named)
    <3> DEFINE Labels == SUBSET {"VCN", "Service_Type", "Movement_Type", "Cargo_Type", "Delay_Hours"}
    <3>1. PICK rows \in UpTo(Labels, 2), named \in {None, "Services", "CargoOps"} :
            probe' = [of |-> "sheet", rows |-> rows, named |-> named]
      BY <1>2, <2>1, PickedBy DEF PickSheet, Pick
    <3>2. PICK k \in 0..2 : rows \in [1..k -> Labels]
      <4> HIDE DEF Labels
      <4> QED
        BY <3>1 DEF UpTo
    <3>3. k \in Nat /\ DOMAIN rows = 1..k /\ named \in WB!Worksheets \cup {None}
      BY <3>1, <3>2 DEF WB!Worksheets, WB!Required
    <3>4. WB!RecognitionNeverGuesses(rows, named)
      BY <3>3, RecognitionAlwaysHasEvidence
    <3> QED
      BY <3>1, <3>4
  <2>2. ASSUME probe'.of = "row" PROVE WB!NoValueOverwritten(probe'.row)
    <3> DEFINE Cell == [column : {"VCN", "Notes"}, value : {None, 1, 2}]
    <3>1. PICK r \in UpTo(Cell, 3) : probe' = [of |-> "row", row |-> r]
      BY <1>2, <2>2, PickedBy DEF PickRow, Pick
    <3> HIDE DEF Cell
    <3>2. PICK k \in 0..3 : r \in [1..k -> Cell]
      BY <3>1 DEF UpTo
    <3>3. WB!NoValueOverwritten(r)
      BY <3>2, NoValueEverOverwritten
    <3> QED
      BY <3>1, <3>3
  <2>3. ASSUME probe'.of = "staged" PROVE WB!OneOfEachRow(probe'.rows)
    <3> DEFINE Row == [table : {"delay", "vessel_call"}, data : {1, 2}, badTime : BOOLEAN]
    <3>1. PICK r \in UpTo(Row, 3) : probe' = [of |-> "staged", rows |-> r]
      BY <1>2, <2>3, PickedBy DEF PickStaged, Pick
    <3>2. PICK k \in 0..3 : r \in [1..k -> Row]
      <4> HIDE DEF Row
      <4> QED
        BY <3>1 DEF UpTo
    <3>3. k \in Nat /\ DOMAIN r = 1..k /\ \A i \in 1..k : r[i] \in [table : {"delay", "vessel_call"}, data : {1, 2}, badTime : BOOLEAN]
      BY <3>2
    <3>4. WB!OneOfEachRow(r)
      BY <3>3, AlwaysOneOfEachRow
    <3> QED
      BY <3>1, <3>4
  <2>4. ASSUME probe'.of = "commit" PROVE WB!CommitAccountsForEvents(probe'.calls, probe'.events, probe'.cargo)
    <3> DEFINE Cargo == [vcn : {1, 2}, start : {None, 7}]
    <3>1. PICK calls \in {<<1>>, <<1, 1>>}, events \in UpTo(EventRow, 2), cargo \in UpTo(Cargo, 2) :
            probe' = [of |-> "commit", calls |-> calls, events |-> events, cargo |-> cargo]
      BY <1>2, <2>4, PickedBy DEF PickCommit, Pick
    <3> HIDE DEF Cargo
    <3>2. PICK k \in 0..2 : events \in [1..k -> EventRow]
      BY <3>1 DEF UpTo
    <3>3. PICK l \in 0..2 : cargo \in [1..l -> Cargo]
      BY <3>1 DEF UpTo
    <3>4. k \in Nat /\ l \in Nat /\ DOMAIN events = 1..k /\ DOMAIN cargo = 1..l
      BY <3>2, <3>3
    <3>5. WB!CommitAccountsForEvents(calls, events, cargo)
      BY <3>4, CommitAlwaysAccounts
    <3> QED
      BY <3>1, <3>5
  <2> QED
    BY <2>1, <2>2, <2>3, <2>4 DEF WorkbookIsAccountedFor
<1>3. UNCHANGED probe /\ WorkbookIsAccountedFor => WorkbookIsAccountedFor'
  BY DEF WorkbookIsAccountedFor
<1> QED
  BY <1>1, <1>2, <1>3, PTL DEF AlgorithmsSpec

-----------------------------------------------------------------------------
(* KPIs.                                                                       *)

\* The statistics the KPIs use are those of Statistics.
LEMMA KPStatistics ==
  /\ \A s : KP!Total(s) = Total(s)
  /\ \A s : KP!Spread(s) = Spread(s)
  /\ \A s : KP!ToSet(s) = ToSet(s)
  /\ \A s : KP!FlattenSeq(s) = FlattenSeq(s)
  /\ \A S : KP!Min(S) = Min(S) /\ KP!Max(S) = Max(S)
  /\ \A S : KP!Cardinality(S) = Cardinality(S)
  /\ \A s, K : KP!Picked(s, K) = Picked(s, K)
<1>1. \A s : KP!Total(s) = Total(s)
  BY DEF KP!Total, KP!SumFunction, KP!SumFunctionOnSet, SumFunctionOnSet, KP!FoldFunctionOnSet,
         FoldFunctionOnSet, KP!MapThenFoldSet, MapThenFoldSet, Total, SumFunction
<1>3. \A s : KP!Spread(s) = Spread(s)
  BY <1>1 DEF KP!Spread, Spread
<1>4. \A s : KP!FlattenSeq(s) = FlattenSeq(s)
  BY DEF KP!FlattenSeq, FlattenSeq
<1>6. \A s : KP!ToSet(s) = ToSet(s)
  BY DEF KP!ToSet, ToSet
<1>7. \A S : KP!Cardinality(S) = Cardinality(S)
  BY DEF KP!Cardinality, Cardinality, KP!IsFiniteSet, IsFiniteSet
<1>8. \A S : KP!Min(S) = Min(S) /\ KP!Max(S) = Max(S)
  BY DEF KP!Min, Min, KP!Max, Max
<1>9. \A s, K : KP!Picked(s, K) = Picked(s, K)
  BY DEF KP!Picked, Picked, KP!Nth, Nth, KP!Cardinality, Cardinality, KP!IsFiniteSet, IsFiniteSet
<1> QED
  BY <1>1, <1>3, <1>4, <1>6, <1>7, <1>8, <1>9

\* What the time of an event or a quantity may be.
OrNone == Int \cup {None}

\* A sequence of n numbers, none below 0.
CallHours(s, n) == n \in Nat /\ s \in [1..n -> Int] /\ \A i \in 1..n : 0 <= s[i]

\* A value has a positive denominator; a share lies between none and all of it; a mean is that of
\* n calls at most.
Valued(v) == v.num \in OrNone /\ (v.num # None => v.den \in Int /\ v.den > 0)
Shared(v) == v.num # None => 0 <= v.num /\ v.num <= 100 * v.den
MeanOf(v, n) == v.num # None => 0 <= v.num /\ v.den <= n

\* The first of the named events that has a time has one.
LEMMA GetTimeFacts ==
  ASSUME NEW c, NEW n \in Nat, NEW names, DOMAIN names = 1..n, \A i \in 1..n : c.at[names[i]] \in OrNone
  PROVE  KP!GetTime(c, names) \in OrNone
<1> DEFINE known == {i \in DOMAIN names : c.at[names[i]] # None}
<1>1. KP!GetTime(c, names) = IF known = {} THEN None ELSE c.at[names[Min(known)]]
  BY KPStatistics DEF KP!GetTime
<1>2. CASE known = {}
  BY <1>1, <1>2 DEF OrNone
<1>3. CASE known # {}
  <2>1. \A i \in known : i \in 1..n /\ i \in Nat
    OBVIOUS
  <2> HIDE DEF known
  <2>2. \E m \in known : \A k \in known : m <= k
    <3>1. known \subseteq Nat
      BY <2>1
    <3> QED
      BY <1>3, <3>1, LeastNumber
  <2>3. Min(known) \in known
    BY <2>2 DEF Min
  <2> QED
    BY <1>1, <1>3, <2>1, <2>3
<1> QED
  BY <1>2, <1>3

\* The lengths of pairs of times are those in order, and so never negative.
LEMMA LengthsFacts ==
  ASSUME NEW n \in Nat, NEW pairs, DOMAIN pairs = 1..n,
         \A i \in 1..n : pairs[i].start \in OrNone /\ pairs[i].end \in OrNone
  PROVE  \E m \in 0..n : CallHours(KP!Lengths(pairs), m)
<1> DEFINE K == {i \in DOMAIN pairs : pairs[i].start # None /\ pairs[i].end # None /\ pairs[i].end >= pairs[i].start}
           m == Cardinality(K)
           P == Picked(pairs, K)
<1>1. KP!InOrder(pairs) = P
  BY KPStatistics DEF KP!InOrder, KP!Filter
<1>2. KP!Lengths(pairs) = [i \in DOMAIN P |-> P[i].end - P[i].start]
  BY <1>1 DEF KP!Lengths
<1>3. \A i \in K : i \in 1..n /\ pairs[i].start \in Int /\ pairs[i].end \in Int /\ pairs[i].end >= pairs[i].start
  BY DEF OrNone
<1> HIDE DEF K
<1>4. m \in Nat /\ m <= n /\ DOMAIN P = 1..m /\ \A k \in 1..m : \E i \in K : P[k] = pairs[i]
  BY <1>3, SelectedEntries
<1>5. \A k \in 1..m : P[k].end - P[k].start \in Int /\ 0 <= P[k].end - P[k].start
  BY <1>3, <1>4
<1> HIDE DEF P, m
<1>6. KP!Lengths(pairs) = [i \in 1..m |-> P[i].end - P[i].start]
  BY <1>2, <1>4
<1>7. CallHours(KP!Lengths(pairs), m)
  BY <1>4, <1>5, <1>6 DEF CallHours
<1> QED
  BY <1>4, <1>7

\* An average has a value exactly if there is something to average.
LEMMA AverageFacts ==
  ASSUME NEW m \in Nat, NEW s \in [1..m -> Int]
  PROVE  /\ Valued(KP!Average(s))
         /\ CallHours(s, m) => \A n \in Int : m <= n => MeanOf(KP!Average(s), n)
<1> DEFINE v == KP!Average(s)
<1>1. v = IF s = <<>> THEN KP!Unavailable ELSE KP!Computed(Total(s), m)
  BY KPStatistics DEF KP!Average
<1>2. Total(s) \in Int
  BY SpreadFacts
<1>3. s # <<>> => m > 0
  OBVIOUS
<1>4. CASE s = <<>>
  <2>1. v.num = None
    BY <1>1, <1>4 DEF KP!Unavailable
  <2> QED
    BY <2>1 DEF Valued, MeanOf, OrNone
<1>5. CASE s # <<>>
  <2>1. v.num = Total(s) /\ v.den = m
    BY <1>1, <1>5 DEF KP!Computed
  <2>2. CallHours(s, m) => 0 <= Total(s)
    BY TotalsCompare DEF CallHours
  <2> QED
    BY <1>2, <1>3, <1>5, <2>1, <2>2 DEF Valued, MeanOf, OrNone
<1> QED
  BY <1>4, <1>5

\* A variance needs two values.
LEMMA VarianceFacts ==
  ASSUME NEW m \in Nat, NEW s \in [1..m -> Int]
  PROVE  Valued(KP!Variance(s))
<1> DEFINE v == KP!Variance(s)
<1>1. v = IF m < 2 THEN KP!Unavailable ELSE KP!Computed(Spread(s), m * (m - 1))
  BY KPStatistics DEF KP!Variance
<1>2. Spread(s) \in Int
  BY SpreadFacts
<1>3. CASE m < 2
  <2>1. v.num = None
    BY <1>1, <1>3 DEF KP!Unavailable
  <2> QED
    BY <2>1 DEF Valued, OrNone
<1>5. CASE ~ m < 2
  <2>1. v.num = Spread(s) /\ v.den = m * (m - 1)
    BY <1>1, <1>5 DEF KP!Computed
  <2>2. m * (m - 1) \in Int /\ m * (m - 1) > 0
    BY <1>5
  <2> QED
    BY <1>2, <2>1, <2>2 DEF Valued, OrNone
<1> QED
  BY <1>3, <1>5

\* A ratio has a value only over something.
LEMMA RatioFacts ==
  ASSUME NEW num \in Int, NEW den \in Int, NEW eligible \in BOOLEAN
  PROVE  /\ Valued(KP!Ratio(num, den, eligible)) /\ Valued(KP!Percent(num, den, eligible))
         /\ 0 <= num /\ num <= den => Shared(KP!Percent(num, den, eligible))
<1>1. \A x \in Int : Valued(KP!Ratio(x, den, eligible))
  BY DEF Valued, KP!Ratio, KP!Computed, KP!Unavailable, OrNone
<1>2. KP!Percent(num, den, eligible) = KP!Ratio(100 * num, den, eligible) /\ 100 * num \in Int
  BY DEF KP!Percent
<1>3. 0 <= num /\ num <= den => Shared(KP!Ratio(100 * num, den, eligible))
  BY DEF Shared, KP!Ratio, KP!Computed, KP!Unavailable
<1> QED
  BY <1>1, <1>2, <1>3

\* A count is no value when nothing was counted.
LEMMA CountedFacts ==
  ASSUME NEW q \in Int
  PROVE  Valued(KP!Counted(q))
BY DEF Valued, KP!Counted, KP!Computed, KP!Unavailable, OrNone
\* The events the KPIs read, and calls whose events, cargo and shifts are recorded as the code
\* loads them: a time is a number of hours or absent.
KpiEvents == {"ATA", "ANCHORAGE_ARRIVAL", "PILOT_SCHEDULED_ARRIVAL", "PILOT_REQUEST_ARRIVAL", "PILOT_ON_BOARD_ARRIVAL",
              "FIRST_LINE_TIED_ARRIVAL", "ALL_FAST_ARRIVAL", "CARGO_START", "CARGO_END", "LAST_LINE_UNTIED_SAILING",
              "BREAKWATER_OUT", "ATD", "PORT_LIMIT_OUT"}
IsKpiCall(c) ==
  /\ \A e \in KpiEvents : c.at[e] \in OrNone
  /\ c.cargo \in Seq(KpiCargo)
  /\ c.shifts \in Seq([start : OrNone, end : OrNone])
KpiCalls(calls, n) == n \in Nat /\ DOMAIN calls = 1..n /\ Len(calls) = n /\ \A i \in 1..n : IsKpiCall(calls[i])
Names(s) == \E k \in Nat : DOMAIN s = 1..k /\ \A i \in 1..k : s[i] \in KpiEvents
CargoList(s) == \E m \in Nat : s \in [1..m -> KpiCargo]

\* What a cargo operation states is a number or absent, and never negative.
LEMMA CargoFacts ==
  ASSUME NEW o \in KpiCargo
  PROVE  /\ o.quantity \in OrNone /\ o.working \in OrNone /\ o.cranes \in OrNone /\ o.downtime \in OrNone
         /\ o.working # None => o.working \in Int /\ o.working >= 0
         /\ o.downtime # None => o.downtime \in Int /\ o.downtime >= 0
<1>1. None \notin Int
  BY NoneIsNoValue
<1> QED
  BY <1>1 DEF KpiCargo, OrNone

\* A selection of a sequence over X is one.
LEMMA SelectionOver ==
  ASSUME NEW n \in Nat, NEW X, NEW s \in [1..n -> X], NEW K, \A i \in K : i \in 1..n
  PROVE  \E m \in 0..n : Picked(s, K) \in [1..m -> X]
<1> DEFINE m == Cardinality(K)
<1>1. m \in Nat /\ m <= n /\ DOMAIN Picked(s, K) = 1..m /\ \A k \in 1..m : \E i \in K : Picked(s, K)[k] = s[i]
  BY SelectedEntries
<1>2. \A k \in 1..m : Picked(s, K)[k] \in X
  BY <1>1
<1>3. Picked(s, K) = [k \in 1..m |-> Picked(s, K)[k]]
  BY <1>1 DEF Picked
<1> HIDE DEF m
<1>4. Picked(s, K) \in [1..m -> X]
  BY <1>2, <1>3
<1>5. m \in 0..n
  BY <1>1
<1> QED
  BY ONLY <1>4, <1>5

\* Named events have times.
LEMMA NamedTime ==
  ASSUME NEW c, IsKpiCall(c), NEW names, Names(names)
  PROVE  KP!GetTime(c, names) \in OrNone
<1>1. PICK k \in Nat : DOMAIN names = 1..k /\ \A i \in 1..k : names[i] \in KpiEvents
  BY DEF Names
<1>2. \A i \in 1..k : c.at[names[i]] \in OrNone
  BY <1>1 DEF IsKpiCall
<1> QED
  BY <1>1, <1>2, GetTimeFacts

\* Durations between events take each call once at most.
LEMMA DurationsFacts ==
  ASSUME NEW n, NEW calls, KpiCalls(calls, n), NEW starts, Names(starts), NEW ends, Names(ends)
  PROVE  \E m \in 0..n : CallHours(KP!Durations(calls, starts, ends), m)
<1> DEFINE pairs == [i \in DOMAIN calls |-> [start |-> KP!GetTime(calls[i], starts), end |-> KP!GetTime(calls[i], ends)]]
<1>1. n \in Nat /\ DOMAIN calls = 1..n /\ \A i \in 1..n : IsKpiCall(calls[i])
  BY DEF KpiCalls
<1>2. \A i \in 1..n : KP!GetTime(calls[i], starts) \in OrNone /\ KP!GetTime(calls[i], ends) \in OrNone
  BY <1>1, NamedTime
<1>3. DOMAIN pairs = 1..n /\ \A i \in 1..n : pairs[i].start \in OrNone /\ pairs[i].end \in OrNone
  BY <1>1, <1>2
<1>4. KP!Durations(calls, starts, ends) = KP!Lengths(pairs)
  BY DEF KP!Durations
<1> HIDE DEF pairs
<1> QED
  BY <1>1, <1>3, <1>4, LengthsFacts

\* Completed shifts have lengths.
LEMMA ShiftFacts ==
  ASSUME NEW n, NEW calls, KpiCalls(calls, n)
  PROVE  \E m \in Nat : CallHours(KP!ShiftPairs(calls), m)
<1> DEFINE P == [start : OrNone, end : OrNone]
           seqs == [i \in DOMAIN calls |-> calls[i].shifts]
           flat == FlattenSeq(seqs)
<1>1. n \in Nat /\ DOMAIN calls = 1..n /\ \A i \in 1..n : calls[i].shifts \in Seq(P)
  BY DEF KpiCalls, IsKpiCall
<1>2. KP!ShiftPairs(calls) = KP!Lengths(flat)
  BY KPStatistics DEF KP!ShiftPairs
<1>0. \A p \in P : p.start \in OrNone /\ p.end \in OrNone
  OBVIOUS
<1> HIDE DEF P
<1>3. seqs \in [1..n -> Seq(P)]
  BY <1>1
<1> HIDE DEF seqs
<1>4. flat \in Seq(P)
  BY <1>1, <1>3, FlattenFacts
<1>5. PICK k \in Nat : flat \in [1..k -> P]
  BY <1>4
<1>6. DOMAIN flat = 1..k /\ \A i \in 1..k : flat[i].start \in OrNone /\ flat[i].end \in OrNone
  BY <1>0, <1>5
<1> HIDE DEF flat
<1>7. PICK m \in 0..k : CallHours(KP!Lengths(flat), m)
  BY <1>6, LengthsFacts
<1> QED
  BY <1>2, <1>7

\* The cargo operations of calls, and of one unit.
LEMMA OpsFacts ==
  ASSUME NEW n, NEW calls, KpiCalls(calls, n)
  PROVE  CargoList(KP!Ops(calls))
<1> DEFINE seqs == [i \in DOMAIN calls |-> calls[i].cargo]
<1>1. n \in Nat /\ DOMAIN calls = 1..n /\ \A i \in 1..n : calls[i].cargo \in Seq(KpiCargo)
  BY DEF KpiCalls, IsKpiCall
<1>2. KP!Ops(calls) = FlattenSeq(seqs)
  BY KPStatistics DEF KP!Ops
<1>3. seqs \in [1..n -> Seq(KpiCargo)]
  BY <1>1
<1> HIDE DEF seqs
<1>4. FlattenSeq(seqs) \in Seq(KpiCargo)
  BY <1>1, <1>3, FlattenFacts
<1> QED
  BY <1>2, <1>4 DEF CargoList

\* A selection of cargo operations is a list of them.
LEMMA CargoSelected ==
  ASSUME NEW ops, CargoList(ops), NEW K, K \subseteq DOMAIN ops
  PROVE  CargoList(Picked(ops, K))
<1>1. PICK n \in Nat : ops \in [1..n -> KpiCargo]
  BY DEF CargoList
<1>2. \A i \in K : i \in 1..n
  BY <1>1
<1>3. PICK m \in 0..n : Picked(ops, K) \in [1..m -> KpiCargo]
  BY <1>1, <1>2, SelectionOver
<1>4. m \in Nat
  OBVIOUS
<1> QED
  BY <1>3, <1>4 DEF CargoList

\* The operations of one unit are cargo operations.
LEMMA OfUnitFacts ==
  ASSUME NEW ops, CargoList(ops), NEW unit
  PROVE  CargoList(KP!OfUnit(ops, unit))
<1> DEFINE K == {i \in DOMAIN ops : ops[i].unit = unit}
<1>1. KP!OfUnit(ops, unit) = Picked(ops, K)
  BY KPStatistics DEF KP!OfUnit, KP!Filter
<1>2. K \subseteq DOMAIN ops
  OBVIOUS
<1> HIDE DEF K
<1> QED
  BY <1>1, <1>2, CargoSelected

\* A quantity is a number, absent ones counting for nothing.
LEMMA QuantityFacts ==
  ASSUME NEW ops, CargoList(ops)
  PROVE  KP!Quantity(ops) \in Int
<1> DEFINE q == [i \in DOMAIN ops |-> KP!Or0(ops[i].quantity)]
<1>1. PICK n \in Nat : ops \in [1..n -> KpiCargo]
  BY DEF CargoList
<1>2. \A i \in 1..n : ops[i].quantity \in OrNone
  BY <1>1, CargoFacts
<1>3. \A i \in 1..n : KP!Or0(ops[i].quantity) \in Int
  BY <1>2 DEF KP!Or0, OrNone
<1>4. q \in [1..n -> Int]
  BY <1>1, <1>3
<1>5. KP!Quantity(ops) = Total(q)
  BY KPStatistics DEF KP!Quantity
<1> HIDE DEF q
<1> QED
  BY <1>4, <1>5, SpreadFacts
\* Berth stays: the idle hours of a stay are part of it.
LEMMA StayFacts ==
  ASSUME NEW n, NEW calls, KpiCalls(calls, n)
  PROVE  \E m \in Nat : /\ CallHours(KP!Idle(calls), m) /\ CallHours(KP!Stays(calls), m)
                        /\ \A i \in 1..m : KP!Idle(calls)[i] <= KP!Stays(calls)[i]
<1> DEFINE time(c, name) == KP!GetTime(c, <<name>>)
           Four == {"ALL_FAST_ARRIVAL", "LAST_LINE_UNTIED_SAILING", "CARGO_START", "CARGO_END"}
           K == {i \in DOMAIN calls :
                   /\ \A e \in Four : time(calls[i], e) # None
                   /\ time(calls[i], "LAST_LINE_UNTIED_SAILING") >= time(calls[i], "ALL_FAST_ARRIVAL")
                   /\ time(calls[i], "CARGO_END") >= time(calls[i], "CARGO_START")}
           W == Picked(calls, K)
           m == Cardinality(K)
           stay(c) == time(c, "LAST_LINE_UNTIED_SAILING") - time(c, "ALL_FAST_ARRIVAL")
           work(c) == time(c, "CARGO_END") - time(c, "CARGO_START")
           idle(c) == KP!Most(stay(c) - work(c), 0)
           B == KP!BerthStays(calls)
<1>1. n \in Nat /\ DOMAIN calls = 1..n /\ \A i \in 1..n : IsKpiCall(calls[i])
  BY DEF KpiCalls
<1>2. B = [i \in DOMAIN W |-> [stay |-> stay(W[i]), idle |-> idle(W[i])]]
  BY KPStatistics DEF KP!BerthStays, KP!Filter
<1>3. \A i \in K : i \in 1..n /\ \A e \in Four : time(calls[i], e) \in Int
  <2> SUFFICES ASSUME NEW i \in K, NEW e \in Four PROVE i \in 1..n /\ time(calls[i], e) \in Int
    OBVIOUS
  <2>1. i \in 1..n /\ time(calls[i], e) # None
    BY <1>1
  <2>2. Names(<<e>>)
    <3>1. DOMAIN <<e>> = 1..1 /\ \A j \in 1..1 : <<e>>[j] \in KpiEvents
      BY DEF KpiEvents
    <3> QED
      BY <3>1 DEF Names
  <2>3. time(calls[i], e) \in OrNone
    BY <1>1, <2>1, <2>2, NamedTime
  <2> QED
    BY <2>1, <2>3 DEF OrNone
<1>4. \A i \in K : stay(calls[i]) \in Int /\ stay(calls[i]) >= 0 /\ work(calls[i]) \in Int /\ work(calls[i]) >= 0
  <2> TAKE i \in K
  <2>1. /\ time(calls[i], "LAST_LINE_UNTIED_SAILING") \in Int /\ time(calls[i], "ALL_FAST_ARRIVAL") \in Int
        /\ time(calls[i], "CARGO_END") \in Int /\ time(calls[i], "CARGO_START") \in Int
    BY <1>3
  <2>2. /\ time(calls[i], "LAST_LINE_UNTIED_SAILING") >= time(calls[i], "ALL_FAST_ARRIVAL")
        /\ time(calls[i], "CARGO_END") >= time(calls[i], "CARGO_START")
    OBVIOUS
  <2> HIDE DEF time, K
  <2> QED
    BY ONLY <2>1, <2>2
<1> HIDE DEF stay, work
<1>5. \A i \in K : idle(calls[i]) \in Int /\ 0 <= idle(calls[i]) /\ idle(calls[i]) <= stay(calls[i])
  BY <1>4 DEF KP!Most
<1> HIDE DEF idle, K
<1>6. m \in Nat /\ DOMAIN W = 1..m /\ \A k \in 1..m : \E i \in K : W[k] = calls[i]
  BY <1>1, <1>3, SelectedEntries
<1>7. \A k \in 1..m : /\ stay(W[k]) \in Int /\ 0 <= stay(W[k])
                      /\ idle(W[k]) \in Int /\ 0 <= idle(W[k]) /\ idle(W[k]) <= stay(W[k])
  BY <1>4, <1>5, <1>6
<1> HIDE DEF W, m
<1>8. DOMAIN B = 1..m /\ \A k \in 1..m : B[k].stay = stay(W[k]) /\ B[k].idle = idle(W[k])
  BY <1>2, <1>6
<1> HIDE DEF B
<1>9. KP!Idle(calls) = [i \in 1..m |-> B[i].idle] /\ KP!Stays(calls) = [i \in 1..m |-> B[i].stay]
  BY <1>8 DEF KP!Idle, KP!Stays, B
<1>10. CallHours(KP!Idle(calls), m) /\ CallHours(KP!Stays(calls), m)
  BY <1>6, <1>7, <1>8, <1>9 DEF CallHours
<1>11. \A i \in 1..m : KP!Idle(calls)[i] <= KP!Stays(calls)[i]
  BY <1>7, <1>8, <1>9
<1> QED
  BY <1>6, <1>10, <1>11

\* The share of idle hours.
LEMMA IdleShare ==
  ASSUME NEW n, NEW calls, KpiCalls(calls, n)
  PROVE  LET v == KP!Percent(KP!Total(KP!Idle(calls)), KP!Total(KP!Stays(calls)), KP!Stays(calls) # <<>>)
         IN  Valued(v) /\ Shared(v) /\ Valued(KP!Average(KP!Idle(calls)))
<1>1. PICK m \in Nat : /\ CallHours(KP!Idle(calls), m) /\ CallHours(KP!Stays(calls), m)
                       /\ \A i \in 1..m : KP!Idle(calls)[i] <= KP!Stays(calls)[i]
  BY StayFacts
<1> DEFINE a == KP!Idle(calls)
           b == KP!Stays(calls)
<1>2. a \in [1..m -> Int] /\ b \in [1..m -> Int] /\ \A i \in 1..m : 0 <= a[i] /\ a[i] <= b[i]
  BY <1>1 DEF CallHours
<1>3. KP!Total(a) = Total(a) /\ KP!Total(b) = Total(b)
  BY KPStatistics
<1>4. Valued(KP!Average(a))
  BY <1>2, AverageFacts
<1> HIDE DEF a, b
<1>5. Total(a) \in Int /\ Total(b) \in Int /\ 0 <= Total(a) /\ Total(a) <= Total(b)
  BY <1>2, TotalsCompare
<1>6. Valued(KP!Percent(Total(a), Total(b), b # <<>>)) /\ Shared(KP!Percent(Total(a), Total(b), b # <<>>))
  BY <1>5, RatioFacts
<1> QED
  BY <1>3, <1>4, <1>6 DEF a, b

\* Cranes: a productivity only over hours worked.
LEMMA CranesFacts ==
  ASSUME NEW n, NEW calls, KpiCalls(calls, n)
  PROVE  Valued(KP!Cranes(calls))
<1> DEFINE teu == KP!OfUnit(KP!Ops(calls), "TEU")
           K == {i \in DOMAIN teu : teu[i].quantity # None /\ teu[i].working \notin {None, 0} /\ teu[i].cranes \notin {None, 0}}
           ops == Picked(teu, K)
           w == [i \in DOMAIN ops |-> ops[i].working * ops[i].cranes]
<1>1. CargoList(teu)
  BY OpsFacts, OfUnitFacts
<1>2. KP!Cranes(calls) = KP!Ratio(KP!Quantity(ops), Total(w), ops # <<>>)
  BY KPStatistics DEF KP!Cranes, KP!Filter
<1>3. PICK k \in Nat : teu \in [1..k -> KpiCargo]
  BY <1>1 DEF CargoList
<1> HIDE DEF teu
<1>4. \A i \in K : i \in 1..k /\ teu[i].working \in Int /\ teu[i].cranes \in Int
  <2> TAKE i \in K
  <2>1. i \in 1..k /\ teu[i].working # None /\ teu[i].cranes # None
    BY <1>3
  <2>2. teu[i].working \in OrNone /\ teu[i].cranes \in OrNone
    BY <1>3, <2>1, CargoFacts
  <2> QED
    BY <2>1, <2>2 DEF OrNone
<1>5. K \subseteq DOMAIN teu
  OBVIOUS
<1> HIDE DEF K
<1>6. CargoList(ops)
  BY <1>1, <1>5, CargoSelected
<1>7. KP!Quantity(ops) \in Int
  BY <1>6, QuantityFacts
<1> DEFINE m == Cardinality(K)
<1>8. m \in Nat /\ DOMAIN ops = 1..m /\ \A j \in 1..m : \E i \in K : ops[j] = teu[i]
  BY <1>4, SelectedEntries
<1>9. \A j \in 1..m : ops[j].working \in Int /\ ops[j].cranes \in Int
  BY <1>4, <1>8
<1> HIDE DEF ops, m
<1>10. \A j \in 1..m : ops[j].working * ops[j].cranes \in Int
  BY <1>9
<1>11. w \in [1..m -> Int]
  BY <1>8, <1>10
<1> HIDE DEF w
<1>12. Total(w) \in Int
  BY <1>8, <1>11, SpreadFacts
<1> QED
  BY <1>2, <1>7, <1>12, RatioFacts

\* Downtime is a share of the productive and the lost hours.
LEMMA DowntimeFacts ==
  ASSUME NEW n, NEW calls, KpiCalls(calls, n)
  PROVE  Valued(KP!Downtime(calls)) /\ Shared(KP!Downtime(calls))
<1> DEFINE all == KP!Ops(calls)
           K == {i \in DOMAIN all : all[i].working # None /\ all[i].downtime # None}
           ops == Picked(all, K)
           d == [i \in DOMAIN ops |-> ops[i].downtime]
           w == [i \in DOMAIN ops |-> ops[i].working]
<1>1. CargoList(all)
  BY OpsFacts
<1>2. KP!Downtime(calls) = KP!Percent(Total(d), Total(d) + Total(w), ops # <<>>)
  BY KPStatistics DEF KP!Downtime, KP!Filter
<1>3. PICK k \in Nat : all \in [1..k -> KpiCargo]
  BY <1>1 DEF CargoList
<1> HIDE DEF all
<1>4. \A i \in K : /\ i \in 1..k /\ all[i].working \in Int /\ all[i].downtime \in Int
                   /\ all[i].working >= 0 /\ all[i].downtime >= 0
  <2> TAKE i \in K
  <2>1. i \in 1..k /\ all[i].working # None /\ all[i].downtime # None /\ all[i] \in KpiCargo
    BY <1>3
  <2> QED
    BY <2>1, CargoFacts
<1> HIDE DEF K
<1> DEFINE m == Cardinality(K)
<1>8. m \in Nat /\ DOMAIN ops = 1..m /\ \A j \in 1..m : \E i \in K : ops[j] = all[i]
  BY <1>4, SelectedEntries
<1>9. \A j \in 1..m : ops[j].working \in Int /\ ops[j].downtime \in Int /\ 0 <= ops[j].working /\ 0 <= ops[j].downtime
  BY <1>4, <1>8
<1> HIDE DEF ops, m
<1>10. /\ d \in [1..m -> Int] /\ \A j \in 1..m : 0 <= d[j] /\ d[j] <= d[j]
       /\ w \in [1..m -> Int] /\ \A j \in 1..m : 0 <= w[j] /\ w[j] <= w[j]
  BY <1>8, <1>9
<1> HIDE DEF d, w
<1>11. Total(d) \in Int /\ 0 <= Total(d) /\ Total(w) \in Int /\ 0 <= Total(w)
  BY <1>8, <1>10, TotalsCompare
<1>12. Total(d) + Total(w) \in Int /\ Total(d) <= Total(d) + Total(w)
  BY <1>11
<1> QED
  BY <1>2, <1>11, <1>12, RatioFacts
\* A selection of calls is one of calls.
LEMMA CallsSelected ==
  ASSUME NEW n, NEW calls, KpiCalls(calls, n), NEW K, \A i \in K : i \in 1..n
  PROVE  KpiCalls(Picked(calls, K), Cardinality(K)) /\ Cardinality(K) <= n
<1> DEFINE P == Picked(calls, K)
           m == Cardinality(K)
<1>1. n \in Nat /\ \A i \in 1..n : IsKpiCall(calls[i])
  BY DEF KpiCalls
<1>2. m \in Nat /\ m <= n /\ DOMAIN P = 1..m /\ Len(P) = m /\ \A k \in 1..m : \E i \in K : P[k] = calls[i]
  BY <1>1, SelectedEntries
<1>3. \A k \in 1..m : IsKpiCall(P[k])
  BY <1>1, <1>2
<1> HIDE DEF P, m
<1>4. KpiCalls(P, m) /\ m <= n
  BY <1>2, <1>3 DEF KpiCalls
<1> QED
  BY <1>4 DEF P, m

\* Container calls are calls.
LEMMA ContainerCallsFacts ==
  ASSUME NEW n, NEW calls, KpiCalls(calls, n)
  PROVE  \E m \in Nat : KpiCalls(KP!ContainerCalls(calls), m)
<1> DEFINE K == {i \in DOMAIN calls : calls[i].type = "Container"}
<1>1. KP!ContainerCalls(calls) = Picked(calls, K)
  BY KPStatistics DEF KP!ContainerCalls, KP!Filter
<1>2. \A i \in K : i \in 1..n
  BY DEF KpiCalls
<1> HIDE DEF K
<1>3. KpiCalls(Picked(calls, K), Cardinality(K))
  BY <1>2, CallsSelected
<1>4. Cardinality(K) \in Nat
  BY <1>3 DEF KpiCalls
<1> QED
  BY <1>1, <1>3, <1>4

\* Cargo per call that has some.
LEMMA PerCallFacts ==
  ASSUME NEW n, NEW calls, KpiCalls(calls, n), NEW unit
  PROVE  Valued(KP!PerCall(calls, unit))
<1> DEFINE q == [i \in DOMAIN calls |-> KP!Quantity(KP!OfUnit(calls[i].cargo, unit))]
           K == {i \in DOMAIN q : q[i] # 0}
<1>1. n \in Nat /\ DOMAIN calls = 1..n /\ \A i \in 1..n : CargoList(calls[i].cargo)
  BY DEF KpiCalls, IsKpiCall, CargoList
<1>2. \A i \in 1..n : KP!Quantity(KP!OfUnit(calls[i].cargo, unit)) \in Int
  BY <1>1, OfUnitFacts, QuantityFacts
<1>3. q \in [1..n -> Int]
  BY <1>1, <1>2
<1>4. KP!PerCall(calls, unit) = KP!Average(Picked(q, K))
  BY KPStatistics DEF KP!PerCall, KP!Filter
<1> HIDE DEF q
<1>5. \A i \in K : i \in 1..n
  BY <1>3
<1> HIDE DEF K
<1>6. PICK m \in 0..n : Picked(q, K) \in [1..m -> Int]
  BY <1>1, <1>3, <1>5, SelectionOver
<1>7. m \in Nat
  BY <1>1
<1> QED
  BY <1>4, <1>6, <1>7, AverageFacts

\* Cargo per berth day.
LEMMA PerBerthDayFacts ==
  ASSUME NEW n, NEW calls, KpiCalls(calls, n), NEW unit
  PROVE  Valued(KP!PerBerthDay(calls, unit))
<1> DEFINE s == KP!Durations(calls, <<"ALL_FAST_ARRIVAL">>, <<"LAST_LINE_UNTIED_SAILING">>)
           q == KP!Quantity(KP!OfUnit(KP!Ops(calls), unit))
<1>1. Names(<<"ALL_FAST_ARRIVAL">>) /\ Names(<<"LAST_LINE_UNTIED_SAILING">>)
  <2>1. \A e \in KpiEvents : Names(<<e>>)
    <3> TAKE e \in KpiEvents
    <3>1. DOMAIN <<e>> = 1..1 /\ \A j \in 1..1 : <<e>>[j] \in KpiEvents
      OBVIOUS
    <3> QED
      BY <3>1 DEF Names
  <2> QED
    BY <2>1 DEF KpiEvents
<1>2. PICK m \in 0..n : CallHours(s, m)
  BY <1>1, DurationsFacts
<1>3. Total(s) \in Int
  BY <1>2, SpreadFacts DEF CallHours
<1>4. q \in Int
  BY OpsFacts, OfUnitFacts, QuantityFacts
<1>5. KP!PerBerthDay(calls, unit) = KP!Ratio(24 * q, Total(s), q # 0)
  BY KPStatistics DEF KP!PerBerthDay
<1> HIDE DEF s, q
<1>6. 24 * q \in Int /\ (q # 0) \in BOOLEAN
  BY <1>4
<1> QED
  BY <1>3, <1>5, <1>6, RatioFacts

\* Cranes in use on container calls.
LEMMA CraneCountFacts ==
  ASSUME NEW ops, CargoList(ops)
  PROVE  LET have == KP!Filter(ops, LAMBDA o : o.cranes # None)
         IN  Valued(KP!Average([i \in DOMAIN have |-> have[i].cranes]))
<1> DEFINE K == {i \in DOMAIN ops : ops[i].cranes # None}
           have == Picked(ops, K)
           c == [i \in DOMAIN have |-> have[i].cranes]
           m == Cardinality(K)
<1>1. KP!Filter(ops, LAMBDA o : o.cranes # None) = have
  BY KPStatistics DEF KP!Filter
<1>2. PICK k \in Nat : ops \in [1..k -> KpiCargo]
  BY DEF CargoList
<1>3. \A i \in K : i \in 1..k /\ ops[i].cranes \in Int
  <2> TAKE i \in K
  <2>1. i \in 1..k /\ ops[i].cranes # None /\ ops[i] \in KpiCargo
    BY <1>2
  <2> QED
    BY <2>1, CargoFacts DEF OrNone
<1> HIDE DEF K
<1>4. m \in Nat /\ DOMAIN have = 1..m /\ \A j \in 1..m : \E i \in K : have[j] = ops[i]
  BY <1>3, SelectedEntries
<1>5. \A j \in 1..m : have[j].cranes \in Int
  BY <1>3, <1>4
<1> HIDE DEF have, m
<1>6. c \in [1..m -> Int]
  BY <1>4, <1>5
<1>7. Valued(KP!Average(c))
  <2> HIDE DEF c
  <2> QED
    BY <1>4, <1>6, AverageFacts
<1> QED
  BY <1>1, <1>7

\* Departures per day: the period has a day at least.
LEMMA DepartureFacts ==
  ASSUME NEW n, NEW calls, KpiCalls(calls, n), NEW cohort, cohort.from \in OrNone, cohort.to \in OrNone
  PROVE  Valued(KP!DeparturesPerDay(calls, cohort))
<1> DEFINE names == <<"ATD", "BREAKWATER_OUT", "PORT_LIMIT_OUT">>
           t == [i \in DOMAIN calls |-> KP!GetTime(calls[i], names)]
           K == {i \in DOMAIN t : t[i] # None}
           times == Picked(t, K)
           from == IF cohort.from = None THEN Min(ToSet(times)) ELSE cohort.from
           to == IF cohort.to = None THEN Max(ToSet(times)) ELSE cohort.to
           m == Cardinality(K)
<1>1. n \in Nat /\ DOMAIN calls = 1..n /\ \A i \in 1..n : IsKpiCall(calls[i])
  BY DEF KpiCalls
<1>2. Names(names)
  <2>1. DOMAIN names = 1..3 /\ \A j \in 1..3 : names[j] \in KpiEvents
    BY DEF KpiEvents
  <2> QED
    BY <2>1 DEF Names
<1>3. KP!DeparturesPerDay(calls, cohort)
        = IF times = <<>> THEN KP!Unavailable ELSE KP!Computed(Len(times), KP!Most(to \div 24 - from \div 24 + 1, 1))
  BY KPStatistics DEF KP!DeparturesPerDay, KP!Filter
<1> HIDE DEF names
<1>4. DOMAIN t = 1..n /\ \A i \in 1..n : t[i] \in OrNone
  BY <1>1, <1>2, NamedTime
<1> HIDE DEF t
<1>5. \A i \in K : i \in 1..n /\ t[i] \in Int
  BY <1>4 DEF OrNone
<1> HIDE DEF K
<1>6. /\ m \in Nat /\ DOMAIN times = 1..m /\ Len(times) = m /\ \A k \in 1..m : \E i \in K : times[k] = t[i]
      /\ times = <<>> <=> m = 0
  BY <1>1, <1>5, SelectedEntries
<1>7. times \in [1..m -> Int]
  <2>1. \A k \in 1..m : times[k] \in Int
    BY <1>5, <1>6
  <2>2. times = [k \in 1..m |-> times[k]]
    BY <1>6 DEF Picked
  <2> HIDE DEF times
  <2> QED
    BY <2>1, <2>2
<1> HIDE DEF times, m
<1>8. CASE m = 0
  BY <1>3, <1>6, <1>8 DEF Valued, KP!Unavailable, OrNone
<1>9. CASE m > 0
  <2>1. Min(ToSet(times)) \in Int /\ Max(ToSet(times)) \in Int
    <3>1. Min(ToSet(times)) = Ordered(times)[1] /\ Max(ToSet(times)) = Ordered(times)[m]
      BY <1>6, <1>7, <1>9, OrderedBounds
    <3>2. 1 \in 1..m /\ m \in 1..m
      BY <1>6, <1>9
    <3>3. Ordered(times)[1] \in Int /\ Ordered(times)[m] \in Int
      BY <1>6, <1>7, <3>2, OrderedFacts
    <3> QED
      BY <3>1, <3>3
  <2>2. from \in Int /\ to \in Int
    BY <2>1 DEF OrNone
  <2> HIDE DEF from, to
  <2>3. to \div 24 \in Int /\ from \div 24 \in Int
    BY <2>2
  <2>4. KP!Most(to \div 24 - from \div 24 + 1, 1) \in Int /\ KP!Most(to \div 24 - from \div 24 + 1, 1) > 0
    BY <2>3 DEF KP!Most
  <2>5. KP!DeparturesPerDay(calls, cohort) = KP!Computed(m, KP!Most(to \div 24 - from \div 24 + 1, 1))
    BY <1>3, <1>6, <1>9
  <2> QED
    BY <1>6, <2>4, <2>5 DEF Valued, KP!Computed, OrNone
<1> QED
  BY <1>6, <1>8, <1>9
\* The events an average lies between are known events.
LEMMA SpanNames ==
  ASSUME NEW code \in KP!SpanCodes \cup {"KPI-05", "KPI-16"}
  PROVE  Names(KP!SpanStart(code)) /\ Names(KP!SpanEnd(code))
<1>1. \A e \in KpiEvents : Names(<<e>>)
  <2> TAKE e \in KpiEvents
  <2>1. DOMAIN <<e>> = 1..1 /\ \A j \in 1..1 : <<e>>[j] \in KpiEvents
    OBVIOUS
  <2> QED
    BY <2>1 DEF Names
<1>2. \A d, e \in KpiEvents : Names(<<d, e>>)
  <2> TAKE d, e \in KpiEvents
  <2>1. DOMAIN <<d, e>> = 1..2 /\ \A j \in 1..2 : <<d, e>>[j] \in KpiEvents
    OBVIOUS
  <2> QED
    BY <2>1 DEF Names
<1>3. \E e \in KpiEvents : KP!SpanStart(code) = <<e>>
  BY DEF KP!SpanStart, KP!SpanCodes, KpiEvents
<1>4. (\E e \in KpiEvents : KP!SpanEnd(code) = <<e>>) \/ (\E d, e \in KpiEvents : KP!SpanEnd(code) = <<d, e>>)
  BY DEF KP!SpanEnd, KP!SpanCodes, KpiEvents
<1> QED
  BY <1>1, <1>2, <1>3, <1>4

\* Every formula of the registry yields no value or one over something; a share lies between none
\* and all; an average duration is that of the calls at most.
LEMMA FormulaFacts ==
  ASSUME NEW n, NEW calls, KpiCalls(calls, n), NEW cohort, cohort.from \in OrNone, cohort.to \in OrNone,
         NEW code \in KpiCodes \cup {"KPI-53"}
  PROVE  LET v == KP!compute_kpi_value(code, calls, cohort)
         IN  Valued(v) /\ (code \in {"KPI-18", "KPI-29"} => Shared(v)) /\ (code \in KP!SpanCodes => MeanOf(v, n))
<1> DEFINE v == KP!compute_kpi_value(code, calls, cohort)
           Good == Valued(v) /\ (code \in {"KPI-18", "KPI-29"} => Shared(v)) /\ (code \in KP!SpanCodes => MeanOf(v, n))
<1> SUFFICES Good
  OBVIOUS
<1>1. n \in Nat /\ DOMAIN calls = 1..n
  BY DEF KpiCalls
<1>2. Valued(KP!Unavailable) /\ Shared(KP!Unavailable) /\ MeanOf(KP!Unavailable, n)
  BY DEF Valued, Shared, MeanOf, KP!Unavailable, OrNone
<1>3. ASSUME calls = <<>> \/ code = "KPI-53" PROVE Good
  <2>1. v = KP!Unavailable
    BY <1>3 DEF KP!compute_kpi_value, KP!SpanCodes
  <2> QED
    BY <1>2, <2>1
<1>4. ASSUME calls # <<>>, code = "KPI-01" PROVE Good
  <2> DEFINE K == {i \in DOMAIN calls : calls[i].at["ATA"] # None}
  <2>1. v = KP!Counted(Cardinality(K))
    BY <1>4, KPStatistics DEF KP!compute_kpi_value, KP!SpanCodes, KP!Count
  <2>2. \A i \in K : i \in 1..n
    BY <1>1
  <2> HIDE DEF K
  <2>3. Cardinality(K) \in Int
    BY <1>1, <2>2, PositionsBounded
  <2> QED
    BY <1>4, <2>1, <2>3, CountedFacts DEF KP!SpanCodes
<1>5. ASSUME calls # <<>>, code = "KPI-02" PROVE Good
  <2>1. v = KP!Unavailable \/ v = KP!PerCall(calls, cohort.unit)
    BY <1>5 DEF KP!compute_kpi_value, KP!SpanCodes
  <2>2. Valued(v)
    BY <1>2, <2>1, PerCallFacts
  <2> QED
    BY <1>5, <2>2 DEF KP!SpanCodes
<1>6. ASSUME code \in KP!SpanCodes \cup {"KPI-05", "KPI-16"}
      PROVE \E m \in 0..n : CallHours(KP!Durations(calls, KP!SpanStart(code), KP!SpanEnd(code)), m)
  BY <1>6, SpanNames, DurationsFacts
<1>7. ASSUME calls # <<>>, code \in {"KPI-05", "KPI-16"} PROVE Good
  <2> DEFINE s == KP!Durations(calls, KP!SpanStart(code), KP!SpanEnd(code))
  <2>1. v = KP!Variance(s)
    BY <1>7 DEF KP!compute_kpi_value, KP!SpanCodes
  <2>2. PICK m \in 0..n : CallHours(s, m)
    BY <1>6, <1>7
  <2>3. Valued(KP!Variance(s))
    BY <2>2, VarianceFacts DEF CallHours
  <2> QED
    BY <1>7, <2>1, <2>3 DEF KP!SpanCodes
<1>8. ASSUME calls # <<>>, code \in KP!SpanCodes PROVE Good
  <2> DEFINE s == KP!Durations(calls, KP!SpanStart(code), KP!SpanEnd(code))
  <2>1. v = KP!Average(s)
    BY <1>8 DEF KP!compute_kpi_value, KP!SpanCodes
  <2>2. PICK m \in 0..n : CallHours(s, m)
    BY <1>6, <1>8
  <2>3. m \in Nat /\ m <= n /\ n \in Int /\ s \in [1..m -> Int]
    BY <1>1, <2>2 DEF CallHours
  <2> HIDE DEF s
  <2>4. Valued(KP!Average(s)) /\ MeanOf(KP!Average(s), n)
    BY <2>2, <2>3, AverageFacts
  <2>5. code \notin {"KPI-18", "KPI-29"}
    BY <1>8 DEF KP!SpanCodes
  <2> QED
    BY <2>1, <2>4, <2>5
<1>9. ASSUME calls # <<>>, code \in {"KPI-17", "KPI-18"} PROVE Good
  <2>1. v = IF code = "KPI-17" THEN KP!Average(KP!Idle(calls))
            ELSE KP!Percent(KP!Total(KP!Idle(calls)), KP!Total(KP!Stays(calls)), KP!Stays(calls) # <<>>)
    BY <1>9 DEF KP!compute_kpi_value, KP!SpanCodes
  <2>2. code \notin KP!SpanCodes /\ code # "KPI-29"
    BY <1>9 DEF KP!SpanCodes
  <2> QED
    BY <2>1, <2>2, IdleShare
<1>10. ASSUME calls # <<>>, code \in {"KPI-19", "KPI-20"} PROVE Good
  <2>1. v = IF code = "KPI-19" THEN KP!Counted(Len(KP!ShiftPairs(calls))) ELSE KP!Average(KP!ShiftPairs(calls))
    BY <1>10 DEF KP!compute_kpi_value, KP!SpanCodes
  <2>2. PICK m \in Nat : CallHours(KP!ShiftPairs(calls), m)
    BY ShiftFacts
  <2>3. KP!ShiftPairs(calls) \in [1..m -> Int] /\ Len(KP!ShiftPairs(calls)) \in Int
    BY <2>2 DEF CallHours
  <2>4. Valued(v)
    BY <2>1, <2>3, AverageFacts, CountedFacts
  <2> QED
    BY <1>10, <2>4 DEF KP!SpanCodes
<1>11. ASSUME calls # <<>>, code \in {"KPI-21", "KPI-30"} PROVE Good
  <2>1. v = KP!Cranes(calls)
    BY <1>11 DEF KP!compute_kpi_value, KP!SpanCodes
  <2> QED
    BY <1>11, <2>1, CranesFacts DEF KP!SpanCodes
<1>12. ASSUME calls # <<>>, code \in {"KPI-23", "KPI-24"} PROVE Good
  <2> DEFINE teu == KP!OfUnit(KP!Ops(calls), "TEU")
             K == {i \in DOMAIN teu : teu[i].operation \in {"Load", "Discharge"}}
             ops == IF code = "KPI-23" THEN KP!OfUnit(KP!Ops(calls), "MT") ELSE Picked(teu, K)
  <2>1. v = KP!Counted(KP!Quantity(ops))
    BY <1>12, KPStatistics DEF KP!compute_kpi_value, KP!SpanCodes, KP!CountedTeu, KP!Filter
  <2>2. CargoList(teu) /\ CargoList(KP!OfUnit(KP!Ops(calls), "MT"))
    BY OpsFacts, OfUnitFacts
  <2>3. K \subseteq DOMAIN teu
    OBVIOUS
  <2> HIDE DEF teu, K
  <2>4. CargoList(ops)
    BY <2>2, <2>3, CargoSelected
  <2> HIDE DEF ops
  <2>5. Valued(v)
    BY <2>1, <2>4, QuantityFacts, CountedFacts
  <2> QED
    BY <1>12, <2>5 DEF KP!SpanCodes
<1>13. ASSUME calls # <<>>, code \in {"KPI-25", "KPI-28"} PROVE Good
  <2> DEFINE c == KP!ContainerCalls(calls)
             moves == KP!Quantity(KP!OfUnit(KP!Ops(c), "TEU"))
             have == KP!Filter(KP!Ops(c), LAMBDA o : o.cranes # None)
  <2>1. v = IF code = "KPI-25" THEN KP!Ratio(moves, Len(c), moves # 0)
            ELSE KP!Average([i \in DOMAIN have |-> have[i].cranes])
    BY <1>13 DEF KP!compute_kpi_value, KP!SpanCodes
  <2>2. PICK m \in Nat : KpiCalls(c, m)
    BY ContainerCallsFacts
  <2>3. CargoList(KP!Ops(c)) /\ Len(c) \in Int
    <3>1. Len(c) \in Int
      BY <2>2 DEF KpiCalls
    <3>2. CargoList(KP!Ops(c))
      BY <2>2, OpsFacts
    <3> QED
      BY <3>1, <3>2
  <2>4. moves \in Int
    BY <2>3, OfUnitFacts, QuantityFacts
  <2>5. Valued(KP!Average([i \in DOMAIN have |-> have[i].cranes]))
    BY <2>3, CraneCountFacts
  <2>6. Valued(KP!Ratio(moves, Len(c), moves # 0))
    <3> HIDE DEF moves, c
    <3> QED
      BY <2>3, <2>4, RatioFacts
  <2>7. Valued(v)
    <3> HIDE DEF moves, c, have, v
    <3> QED
      BY <2>1, <2>5, <2>6
  <2> QED
    BY <1>13, <2>7 DEF KP!SpanCodes
<1>14. ASSUME calls # <<>>, code = "KPI-27" PROVE Good
  <2>1. v = KP!Unavailable \/ v = KP!PerBerthDay(calls, cohort.unit)
    BY <1>14 DEF KP!compute_kpi_value, KP!SpanCodes
  <2>2. Valued(v)
    BY <1>2, <2>1, PerBerthDayFacts
  <2> QED
    BY <1>14, <2>2 DEF KP!SpanCodes
<1>15. ASSUME calls # <<>>, code = "KPI-29" PROVE Good
  <2>1. v = KP!Downtime(calls)
    BY <1>15 DEF KP!compute_kpi_value, KP!SpanCodes
  <2> QED
    BY <1>15, <2>1, DowntimeFacts DEF KP!SpanCodes
<1>16. ASSUME calls # <<>>, code = "KPI-45" PROVE Good
  <2>1. v = KP!DeparturesPerDay(calls, cohort)
    BY <1>16 DEF KP!compute_kpi_value, KP!SpanCodes
  <2> QED
    BY <1>16, <2>1, DepartureFacts DEF KP!SpanCodes
<1>17. code \in {"KPI-53", "KPI-01", "KPI-02", "KPI-05", "KPI-16", "KPI-17", "KPI-18", "KPI-19", "KPI-20", "KPI-21", "KPI-30",
                 "KPI-23", "KPI-24", "KPI-25", "KPI-28", "KPI-27", "KPI-29", "KPI-45"} \cup KP!SpanCodes
  BY DEF KpiCodes, KP!SpanCodes
<1> HIDE DEF Good
<1> QED
  BY <1>3, <1>4, <1>5, <1>7, <1>8, <1>9, <1>10, <1>11, <1>12, <1>13, <1>14, <1>15, <1>16, <1>17
\* A band is gray exactly for a missing value.
LEMMA BandFacts ==
  ASSUME NEW v, NEW kpi
  PROVE  KP!evaluate_band(v, kpi) = "GRAY" <=> v.num = None
BY DEF KP!evaluate_band

\* The eligible calls are found among the tenant's own, unmerged calls.
LEMMA EligibleAmongOwn ==
  ASSUME NEW n, NEW calls, KpiCalls(calls, n), NEW cohort
  PROVE  LET own == KP!Filter(calls, LAMBDA c : c.tenant = "a" /\ ~ c.merged)
             e == KP!get_eligible_vessel_calls(calls, "a", cohort)
         IN  /\ KP!get_eligible_vessel_calls(own, "a", cohort) = e
             /\ \E m \in Nat : KpiCalls(e, m) /\ m <= Len(own)
<1> DEFINE Ok(c) == /\ ~ c.merged
                    /\ "a" = "*" \/ c.tenant = "a"
                    /\ cohort.type \in {None, c.type} /\ cohort.unit \in {None, c.unit}
                    /\ c.ata # None => /\ cohort.from # None => c.ata >= cohort.from
                                       /\ cohort.to # None => c.ata <= cohort.to
           O == {i \in DOMAIN calls : calls[i].tenant = "a" /\ ~ calls[i].merged}
           E == {i \in DOMAIN calls : Ok(calls[i])}
           own == Picked(calls, O)
           L == {i \in DOMAIN own : Ok(own[i])}
<1>1. n \in Nat /\ DOMAIN calls = 1..n
  BY DEF KpiCalls
<1>2. /\ KP!Filter(calls, LAMBDA c : c.tenant = "a" /\ ~ c.merged) = own
      /\ KP!get_eligible_vessel_calls(calls, "a", cohort) = Picked(calls, E)
      /\ KP!get_eligible_vessel_calls(own, "a", cohort) = Picked(own, L)
  BY KPStatistics DEF KP!get_eligible_vessel_calls, KP!Filter
<1>3. \A i \in O : i \in 1..n
  BY <1>1
<1>4. \A i \in E : i \in 1..n /\ i \in O
  BY <1>1
<1>5. \A i : i \in E <=> i \in 1..n /\ Ok(calls[i])
  BY <1>1
<1>6. \A k : k \in L <=> k \in DOMAIN own /\ Ok(own[k])
  OBVIOUS
<1> HIDE DEF O, E, Ok, L
<1>7. IsFiniteSet(O) /\ \A i \in O : i \in Int
  BY <1>1, <1>3, PositionsFinite
<1>8. DOMAIN own = 1..Cardinality(O) /\ Len(own) = Cardinality(O) /\ \A k \in 1..Cardinality(O) : own[k] = calls[Nth(O, k)]
  BY <1>7, PickedFacts
<1>9. /\ \A k \in 1..Cardinality(O) : Nth(O, k) \in O
      /\ \A i \in O : \E k \in 1..Cardinality(O) : Nth(O, k) = i
  BY <1>7, NthFacts
<1> HIDE DEF own
<1>10. \A k \in L : k \in 1..Cardinality(O) /\ own[k] = calls[Nth(O, k)]
  BY <1>6, <1>8
<1>11. Picked(own, L) = Picked(calls, Through(O, L))
  BY <1>7, <1>10, PickedComposed
<1>12. Through(O, L) = E
  <2>1. \A k \in L : Nth(O, k) \in E
    BY <1>3, <1>5, <1>6, <1>9, <1>10
  <2>2. \A i \in E : \E k \in L : Nth(O, k) = i
    <3> TAKE i \in E
    <3>1. PICK k \in 1..Cardinality(O) : Nth(O, k) = i
      BY <1>4, <1>9
    <3>2. own[k] = calls[i] /\ Ok(calls[i])
      BY <1>5, <1>8, <3>1
    <3>3. k \in L
      BY <1>6, <1>8, <3>2
    <3> QED
      BY <3>1, <3>3
  <2> QED
    BY <2>1, <2>2 DEF Through
<1>13. Cardinality(E) \in Nat /\ Cardinality(E) <= Cardinality(O)
  <2>1. IsFiniteSet(O) /\ E \in SUBSET O
    BY <1>4, <1>7
  <2> QED
    BY <2>1, FS_Subset, FS_CardinalityType
<1>14. KpiCalls(Picked(calls, E), Cardinality(E))
  BY <1>4, CallsSelected
<1> QED
  BY <1>2, <1>8, <1>11, <1>12, <1>13, <1>14

\* A KPI of the registry, or an alias of one.
IsKpi(kpi) ==
  /\ kpi.source \in BOOLEAN /\ kpi.code \in KpiCodes \cup {"KPI-53"}
  /\ \/ kpi.alias = None
     \/ kpi.code = "KPI-53" /\ kpi.alias.alias = None /\ (kpi.alias.source => kpi.alias.code \in KpiCodes)

\* Every KPI is governed, whatever the calls.
THEOREM AlwaysGoverned ==
  ASSUME NEW n, NEW calls, KpiCalls(calls, n), NEW cohort, cohort.from \in OrNone, cohort.to \in OrNone,
         NEW kpi, IsKpi(kpi)
  PROVE  KP!KpiIsGoverned(kpi, calls, "a", cohort)
<1> DEFINE r == KP!calculate_kpi(kpi, calls, "a", cohort)
           own == KP!Filter(calls, LAMBDA c : c.tenant = "a" /\ ~ c.merged)
           e == KP!get_eligible_vessel_calls(calls, "a", cohort)
           Of(k) == IF k.source THEN KP!compute_kpi_value(k.code, e, cohort)
                    ELSE [KP!Unavailable EXCEPT !.status = "NO_SOURCE_DATA"]
           Value(k) == IF k.source /\ k.alias # None THEN Of(k.alias) ELSE Of(k)
<1>1. KP!get_eligible_vessel_calls(own, "a", cohort) = e
  BY EligibleAmongOwn
<1>2. PICK m \in Nat : KpiCalls(e, m) /\ m <= Len(own)
  BY EligibleAmongOwn
<1>3. \A k : KP!calculate_kpi(k, calls, "a", cohort).value = Value(k)
  BY DEF KP!calculate_kpi
<1>4. KP!calculate_kpi(kpi, own, "a", cohort).value = Value(kpi)
  BY <1>1 DEF KP!calculate_kpi
<1>5. r.band = KP!evaluate_band(Value(kpi), kpi)
  BY DEF KP!calculate_kpi
<1>6. Len(own) \in Int
  <2> DEFINE O == {i \in DOMAIN calls : calls[i].tenant = "a" /\ ~ calls[i].merged}
  <2>1. own = Picked(calls, O)
    BY KPStatistics DEF KP!Filter
  <2>2. n \in Nat /\ \A i \in O : i \in 1..n
    BY DEF KpiCalls
  <2> HIDE DEF O
  <2>3. Len(own) = Cardinality(O) /\ Cardinality(O) \in Nat
    BY <2>1, <2>2, SelectedEntries
  <2> QED
    BY <2>3
<1> HIDE DEF e, own, r
<1>7. \A code \in KpiCodes \cup {"KPI-53"} :
        /\ Valued(KP!compute_kpi_value(code, e, cohort))
        /\ code \in {"KPI-18", "KPI-29"} => Shared(KP!compute_kpi_value(code, e, cohort))
        /\ code \in KP!SpanCodes => MeanOf(KP!compute_kpi_value(code, e, cohort), m)
  BY <1>2, FormulaFacts
<1>8. Valued([KP!Unavailable EXCEPT !.status = "NO_SOURCE_DATA"]) /\ [KP!Unavailable EXCEPT !.status = "NO_SOURCE_DATA"].num = None
  BY DEF Valued, KP!Unavailable, OrNone
<1>9. \A k : (k.source => k.code \in KpiCodes \cup {"KPI-53"}) =>
        /\ Valued(Of(k))
        /\ Of(k).num # None /\ k.code \in {"KPI-18", "KPI-29"} => Shared(Of(k))
        /\ Of(k).num # None /\ k.code \in KP!SpanCodes => MeanOf(Of(k), m)
  BY <1>7, <1>8
<1> HIDE DEF Of
<1>10. /\ Valued(Value(kpi))
       /\ Value(kpi).num # None /\ kpi.code \in {"KPI-18", "KPI-29"} => Shared(Value(kpi))
       /\ Value(kpi).num # None /\ kpi.code \in KP!SpanCodes => MeanOf(Value(kpi), m)
  <2>1. CASE kpi.source /\ kpi.alias # None
    <3>1. Value(kpi) = Of(kpi.alias) /\ kpi.code = "KPI-53" /\ (kpi.alias.source => kpi.alias.code \in KpiCodes)
      BY <2>1 DEF IsKpi
    <3>2. kpi.code \notin {"KPI-18", "KPI-29"} /\ kpi.code \notin KP!SpanCodes
      BY <3>1 DEF KP!SpanCodes
    <3>3. Valued(Of(kpi.alias))
      BY <1>9, <3>1
    <3> QED
      BY <3>1, <3>2, <3>3
  <2>2. CASE ~ (kpi.source /\ kpi.alias # None)
    <3>1. Value(kpi) = Of(kpi) /\ kpi.code \in KpiCodes \cup {"KPI-53"}
      BY <2>2 DEF IsKpi
    <3> QED
      BY <1>9, <3>1
  <2> QED
    BY <2>1, <2>2
<1>11. kpi.alias # None /\ kpi.source => Value(kpi) = Value(kpi.alias)
  BY DEF IsKpi
<1> DEFINE V == Value(kpi)
<1>12. r.value = V
  BY <1>3 DEF r
<1>13. r.band = "GRAY" <=> V.num = None
  BY <1>5, BandFacts
<1>14. KP!calculate_kpi(kpi, own, "a", cohort).value = V
  BY <1>4
<1>15. kpi.alias # None /\ kpi.source => V = KP!calculate_kpi(kpi.alias, calls, "a", cohort).value
  BY <1>3, <1>11
<1>16. /\ Valued(V)
       /\ V.num # None /\ kpi.code \in {"KPI-18", "KPI-29"} => Shared(V)
       /\ V.num # None /\ kpi.code \in KP!SpanCodes => MeanOf(V, m)
  BY <1>10
<1> HIDE DEF V
<1>17. V.num # None => /\ V.den > 0 /\ V.den \in Int
                       /\ kpi.code \in {"KPI-18", "KPI-29"} => V.num >= 0 /\ V.num <= 100 * V.den
                       /\ kpi.code \in KP!SpanCodes => V.num >= 0 /\ V.den <= Len(own)
  <2> SUFFICES ASSUME V.num # None
               PROVE  /\ V.den > 0 /\ V.den \in Int
                      /\ kpi.code \in {"KPI-18", "KPI-29"} => V.num >= 0 /\ V.num <= 100 * V.den
                      /\ kpi.code \in KP!SpanCodes => V.num >= 0 /\ V.den <= Len(own)
    OBVIOUS
  <2>1. V.num \in Int /\ V.den \in Int /\ V.den > 0
    BY <1>16 DEF Valued, OrNone
  <2>2. kpi.code \in {"KPI-18", "KPI-29"} => V.num >= 0 /\ V.num <= 100 * V.den
    BY <1>16, <2>1 DEF Shared
  <2>3. kpi.code \in KP!SpanCodes => V.num >= 0 /\ V.den <= Len(own)
    BY <1>2, <1>6, <1>16, <2>1 DEF MeanOf
  <2> QED
    BY <2>1, <2>2, <2>3
<1>18. /\ (r.band = "GRAY") = (r.value.num = None)
       /\ r.value.num # None =>
             /\ r.value.den > 0
             /\ kpi.code \in {"KPI-18", "KPI-29"} => r.value.num >= 0 /\ r.value.num <= 100 * r.value.den
             /\ kpi.code \in KP!SpanCodes => r.value.num >= 0 /\ r.value.den <= Len(own)
       /\ r.value = KP!calculate_kpi(kpi, own, "a", cohort).value
       /\ kpi.alias # None /\ kpi.source => r.value = KP!calculate_kpi(kpi.alias, calls, "a", cohort).value
  BY <1>12, <1>13, <1>14, <1>15, <1>17
<1> QED
  BY <1>18 DEF KP!KpiIsGoverned, KP!ResultIsGoverned, r, own

\* Quotients over positive denominators compare across a limit as they compare with each other.
LEMMA QuotientsCompare ==
  ASSUME NEW a \in Int, NEW p \in Int, p > 0, NEW b \in Int, NEW q \in Int, q > 0, NEW f \in Int
  PROVE  /\ b * p <= a * q /\ 5 * a <= f * p => 5 * b <= f * q
         /\ b * p >= a * q /\ 5 * a >= f * p => 5 * b >= f * q
<1>1. ASSUME b * p <= a * q, 5 * a <= f * p, 5 * b > f * q PROVE FALSE
  <2>1. (5 * b) * p > (f * q) * p
    BY <1>1
  <2>2. (5 * a) * q <= (f * p) * q
    BY <1>1
  <2>3. (5 * b) * p = 5 * (b * p) /\ (5 * a) * q = 5 * (a * q) /\ (f * q) * p = (f * p) * q
    OBVIOUS
  <2>4. b * p \in Int /\ a * q \in Int /\ (f * p) * q \in Int
    OBVIOUS
  <2> QED
    BY <1>1, <2>1, <2>2, <2>3, <2>4
<1>2. ASSUME b * p >= a * q, 5 * a >= f * p, 5 * b < f * q PROVE FALSE
  <2>1. (5 * b) * p < (f * q) * p
    BY <1>2
  <2>2. (5 * a) * q >= (f * p) * q
    BY <1>2
  <2>3. (5 * b) * p = 5 * (b * p) /\ (5 * a) * q = 5 * (a * q) /\ (f * q) * p = (f * p) * q
    OBVIOUS
  <2>4. b * p \in Int /\ a * q \in Int /\ (f * p) * q \in Int
    OBVIOUS
  <2> QED
    BY <1>2, <2>1, <2>2, <2>3, <2>4
<1>3. 5 * b \in Int /\ f * q \in Int
  OBVIOUS
<1> QED
  BY <1>1, <1>2, <1>3

\* A value: a number over a positive denominator.
IsQuotient(v) == v.num \in Int /\ v.den \in Int /\ v.den > 0

\* A value at least as good as another has a band at least as good.
LEMMA BandsFollowValues ==
  ASSUME NEW kpi, kpi.lower \in BOOLEAN, kpi.target \in OrNone, kpi.green \in OrNone, kpi.amber \in OrNone,
         NEW v, IsQuotient(v), NEW w, IsQuotient(w),
         IF kpi.lower THEN w.num * v.den <= v.num * w.den ELSE w.num * v.den >= v.num * w.den
  PROVE  /\ KP!Rank(KP!evaluate_band(v, kpi)) \in Int /\ KP!Rank(KP!evaluate_band(w, kpi)) \in Int
         /\ KP!Rank(KP!evaluate_band(v, kpi)) <= KP!Rank(KP!evaluate_band(w, kpi))
<1> DEFINE within(x, f) == IF kpi.lower THEN 5 * x.num <= f * x.den ELSE 5 * x.num >= f * x.den
           green == IF kpi.green # None THEN 5 * kpi.green ELSE IF kpi.target # None THEN 5 * kpi.target ELSE None
           amber == IF kpi.amber # None THEN 5 * kpi.amber
                    ELSE IF kpi.target # None THEN (IF kpi.lower THEN 6 ELSE 4) * kpi.target ELSE None
           G(x) == green # None /\ within(x, green)
           A(x) == amber # None /\ within(x, amber)
<1>1. None \notin Int
  BY NoneIsNoValue
<1>2. \A f \in Int : within(v, f) => within(w, f)
  <2> TAKE f \in Int
  <2>1. CASE kpi.lower
    BY <2>1, QuotientsCompare DEF IsQuotient
  <2>2. CASE ~ kpi.lower
    BY <2>2, QuotientsCompare DEF IsQuotient
  <2> QED
    BY <2>1, <2>2
<1>3. green \in OrNone /\ amber \in OrNone
  BY DEF OrNone
<1>4. ASSUME NEW x, x.num \in Int
      PROVE  KP!evaluate_band(x, kpi) = IF G(x) THEN "GREEN" ELSE IF A(x) THEN "AMBER" ELSE "RED"
  <2>1. x.num # None
    BY <1>1, <1>4
  <2> QED
    BY <2>1 DEF KP!evaluate_band
<1> HIDE DEF within, green, amber
<1>5. (G(v) => G(w)) /\ (A(v) => A(w))
  BY <1>2, <1>3 DEF OrNone
<1> HIDE DEF G, A
<1>6. /\ KP!evaluate_band(v, kpi) = IF G(v) THEN "GREEN" ELSE IF A(v) THEN "AMBER" ELSE "RED"
      /\ KP!evaluate_band(w, kpi) = IF G(w) THEN "GREEN" ELSE IF A(w) THEN "AMBER" ELSE "RED"
  BY <1>4 DEF IsQuotient
<1>7. KP!Rank("RED") = 0 /\ KP!Rank("AMBER") = 1 /\ KP!Rank("GREEN") = 2
  BY DEF KP!Rank
<1> QED
  BY <1>5, <1>6, <1>7

\* Trends agree with bands for every pair of values and every limits.
LEMMA TrendsAlwaysAgree ==
  ASSUME NEW kpi, kpi.lower \in BOOLEAN, kpi.target \in OrNone, kpi.green \in OrNone, kpi.amber \in OrNone,
         NEW old, IsQuotient(old), NEW new, IsQuotient(new)
  PROVE  KP!TrendAgreesWithBand(kpi, old, new)
<1> DEFINE x == new.num * old.den
           y == old.num * new.den
           d == KP!TrendDirection(old, new, kpi.lower)
           was == KP!Rank(KP!evaluate_band(old, kpi))
           is == KP!Rank(KP!evaluate_band(new, kpi))
<1>1. x \in Int /\ y \in Int
  BY DEF IsQuotient
<1> DEFINE steady == 100 * KP!Abs(x - y) <= old.den * new.den
<1>2. /\ steady => d = "STABLE"
      /\ ~ steady /\ kpi.lower => d = IF x - y < 0 THEN "IMPROVING" ELSE "DETERIORATING"
      /\ ~ steady /\ ~ kpi.lower => d = IF x - y < 0 THEN "DETERIORATING" ELSE "IMPROVING"
  BY DEF KP!TrendDirection
<1>3. (IF kpi.lower THEN x <= y ELSE x >= y) => was <= is /\ was \in Int /\ is \in Int
  BY BandsFollowValues
<1>4. (IF kpi.lower THEN y <= x ELSE y >= x) => is <= was /\ was \in Int /\ is \in Int
  BY BandsFollowValues
<1>5. ASSUME is > was => d = IF steady THEN "STABLE" ELSE "IMPROVING",
             is < was => d = IF steady THEN "STABLE" ELSE "DETERIORATING"
      PROVE  KP!TrendAgreesWithBand(kpi, old, new)
  BY <1>5, Zenon DEF KP!TrendAgreesWithBand
<1> HIDE DEF x, y, d, was, is, steady
<1>6. CASE steady
  BY <1>2, <1>5, <1>6
<1>7. CASE ~ steady
  <2>1. CASE kpi.lower
    <3>1. is > was => x - y < 0
      BY <1>1, <1>4, <2>1
    <3>2. is < was => ~ (x - y < 0)
      BY <1>1, <1>3, <2>1
    <3> QED
      BY <1>2, <1>5, <1>7, <2>1, <3>1, <3>2
  <2>2. CASE ~ kpi.lower
    <3>1. is > was => ~ (x - y < 0)
      BY <1>1, <1>4, <2>2
    <3>2. is < was => x - y < 0
      BY <1>1, <1>3, <2>2
    <3> QED
      BY <1>2, <1>5, <1>7, <2>2, <3>1, <3>2
  <2> QED
    BY <2>1, <2>2
<1> QED
  BY <1>6, <1>7

\* The time of an event is always that of an eligible occurrence.
LEMMA EventTimeAlwaysEligible ==
  ASSUME NEW occs, \A o \in occs : o.time \in Nat, NEW winner
  PROVE  KP!EventTimeIsEligible(occs, winner)
<1> DEFINE live == {o \in occs : ~ o.superseded /\ ~ o.quarantined}
           mine == {o \in occs : ~ o.superseded /\ ~ o.quarantined /\ winner \in {None, o.id}}
           T == {o.time : o \in mine}
           t == KP!EventTime(occs, winner)
<1>1. t = IF mine = {} THEN None ELSE Min(T)
  BY KPStatistics DEF KP!EventTime
<1>2. CASE mine = {}
  <2>1. t = None
    BY <1>1, <1>2
  <2>2. live = {} \/ (winner # None /\ \A o \in live : o.id # winner)
    BY <1>2
  <2> QED
    BY <2>1, <2>2 DEF KP!EventTimeIsEligible
<1>3. CASE mine # {}
  <2>1. T \subseteq Nat /\ T # {}
    BY <1>3
  <2>2. \E m \in T : \A k \in T : m <= k
    <3> HIDE DEF T
    <3> QED
      BY <2>1, LeastNumber
  <2>3. t \in T
    <3>1. Min(T) \in T
      <4> HIDE DEF T
      <4> QED
        BY <2>2 DEF Min
    <3> QED
      BY <1>1, <1>3, <3>1
  <2>4. t # None
    BY <2>1, <2>3, NoneIsNoValue
  <2>5. \E o \in live : o.time = t /\ winner \in {None, o.id}
    BY <2>3
  <2> QED
    BY <2>4, <2>5 DEF KP!EventTimeIsEligible
<1> QED
  BY <1>2, <1>3

\* The calls picked are calls as the code loads them.
LEMMA PickedKpiCall ==
  ASSUME NEW t \in CallTimes, NEW c \in UpTo(KpiCargo, 1), NEW type, NEW tenant, NEW merged
  PROVE  IsKpiCall(KpiCall(t, c, type, tenant, merged))
<1> DEFINE k == KpiCall(t, c, type, tenant, merged)
<1>1. /\ t[1] \in OrNone /\ t[2] \in OrNone /\ t[3] \in OrNone /\ t[4] \in OrNone /\ t[5] \in OrNone
  BY DEF CallTimes, OrNone
<1>2. \A i \in 1..5 : t[i] \in OrNone
  BY <1>1
<1>3. k.at = TimesOf(t) /\ k.cargo = c /\ k.shifts = <<[start |-> t[2], end |-> t[4]], [start |-> t[4], end |-> t[3]]>>
  BY DEF KpiCall
<1>4. \A e \in KpiEvents : \E i \in 1..5 : e \in EventTier[i]
  BY DEF KpiEvents, EventTier
<1>5. ASSUME NEW e \in KpiEvents PROVE TimesOf(t)[e] \in OrNone
  <2> DEFINE j == CHOOSE i \in 1..5 : e \in EventTier[i]
  <2>1. j \in 1..5
    BY <1>4
  <2>2. e \in UNION {EventTier[i] : i \in 1..5}
    BY <1>4
  <2>3. TimesOf(t)[e] = t[j]
    BY <2>2 DEF TimesOf
  <2> HIDE DEF j
  <2> QED
    BY <1>2, <2>1, <2>3
<1>6. k.shifts \in Seq([start : OrNone, end : OrNone])
  BY <1>1, <1>3
<1>7. c \in Seq(KpiCargo)
  BY DEF UpTo
<1> QED
  BY <1>3, <1>5, <1>6, <1>7 DEF IsKpiCall

\* The KPIs picked are KPIs of the registry.
LEMMA PickedKpi ==
  /\ \A code \in KpiCodes : IsKpi(Kpi(code))
  /\ IsKpi(AliasOf("KPI-41", TRUE)) /\ IsKpi(AliasOf("KPI-11", FALSE))
<1>1. \A code \in KpiCodes : IsKpi(Kpi(code))
  BY DEF IsKpi, Kpi
<1>2. IsKpi(AliasOf("KPI-41", TRUE))
  BY DEF IsKpi, Kpi, AliasOf, KpiCodes
<1>3. IsKpi(AliasOf("KPI-11", FALSE))
  BY DEF IsKpi, Kpi, AliasOf, KpiCodes
<1> QED
  BY <1>1, <1>2, <1>3

\* KPIs: no value without data and no data of others, trends that agree with bands for all values
\* and limits, events from eligible occurrences (services/kpi/engine.py).
THEOREM KpisAreGovernedHolds == AlgorithmsSpec => []KpisAreGoverned
<1>1. AlgorithmsInit => KpisAreGoverned
  BY DEF AlgorithmsInit, KpisAreGoverned
<1>2. ASSUME AlgorithmsNext PROVE KpisAreGoverned'
  <2>1. ASSUME probe'.of = "kpi"
        PROVE  \A kpi \in {Kpi(c) : c \in KpiCodes} \cup {AliasOf("KPI-41", TRUE), AliasOf("KPI-11", FALSE)} :
                  KP!KpiIsGoverned(kpi, probe'.calls, "a", probe'.cohort)
    <3>1. PICK t, u \in CallTimes, c, d \in UpTo(KpiCargo, 1), of \in {<<"a", FALSE>>, <<"a", TRUE>>, <<"b", FALSE>>},
            unit \in {None, "TEU"}, from \in {None, 1} :
              probe' = [of |-> "kpi", cohort |-> [type |-> None, unit |-> unit, from |-> from, to |-> None],
                        calls |-> <<KpiCall(t, c, "Container", "a", FALSE), KpiCall(u, d, "Bulk", of[1], of[2])>>]
      BY <1>2, <2>1, PickedBy DEF PickKpiCalls, Pick
    <3> DEFINE a == KpiCall(t, c, "Container", "a", FALSE)
               b == KpiCall(u, d, "Bulk", of[1], of[2])
               calls == <<a, b>>
               cohort == [type |-> None, unit |-> unit, from |-> from, to |-> None]
    <3>2. probe'.calls = calls /\ probe'.cohort = cohort
      BY <3>1
    <3>3. IsKpiCall(a) /\ IsKpiCall(b)
      BY PickedKpiCall
    <3> HIDE DEF a, b
    <3>4. KpiCalls(calls, 2)
      <4>1. DOMAIN calls = 1..2 /\ Len(calls) = 2 /\ \A i \in 1..2 : IsKpiCall(calls[i])
        BY <3>3
      <4> QED
        BY <4>1 DEF KpiCalls
    <3>5. cohort.from \in OrNone /\ cohort.to \in OrNone
      BY DEF OrNone
    <3> HIDE DEF calls, cohort
    <3>6. \A kpi : IsKpi(kpi) => KP!KpiIsGoverned(kpi, calls, "a", cohort)
      BY <3>4, <3>5, AlwaysGoverned
    <3> QED
      BY <3>2, <3>6, PickedKpi
  <2>2. ASSUME probe'.of = "trend" PROVE KP!TrendAgreesWithBand(probe'.kpi, probe'.old, probe'.new)
    <3>1. PICK lower \in BOOLEAN, target, green, amber \in {None, 2, 4}, old, new \in TrendValues :
            probe' = [of |-> "trend", old |-> old, new |-> new,
                      kpi |-> [Kpi("KPI-41") EXCEPT !.lower = lower, !.target = target, !.green = green, !.amber = amber]]
      BY <1>2, <2>2, PickedBy DEF PickTrend, Pick
    <3> DEFINE kpi == [Kpi("KPI-41") EXCEPT !.lower = lower, !.target = target, !.green = green, !.amber = amber]
    <3>2. kpi.lower \in BOOLEAN /\ kpi.target \in OrNone /\ kpi.green \in OrNone /\ kpi.amber \in OrNone
      BY DEF Kpi, OrNone
    <3>3. IsQuotient(old) /\ IsQuotient(new)
      BY DEF IsQuotient, TrendValues
    <3>4. probe'.kpi = kpi /\ probe'.old = old /\ probe'.new = new
      BY <3>1
    <3> HIDE DEF kpi
    <3>5. KP!TrendAgreesWithBand(kpi, old, new)
      BY <3>2, <3>3, TrendsAlwaysAgree
    <3> QED
      BY <3>4, <3>5
  <2>3. ASSUME probe'.of = "winner" PROVE KP!EventTimeIsEligible(probe'.occs, probe'.winner)
    <3>1. PICK occs \in {S \in SUBSET [id : {1, 2}, time : {0, 3}, superseded : BOOLEAN, quarantined : BOOLEAN] :
                           Cardinality(S) <= 2}, winner \in {None, 1, 2} :
            probe' = [of |-> "winner", occs |-> occs, winner |-> winner]
      BY <1>2, <2>3, PickedBy DEF PickWinner, Pick
    <3>2. \A o \in occs : o.time \in Nat
      OBVIOUS
    <3>3. KP!EventTimeIsEligible(occs, winner)
      BY <3>2, EventTimeAlwaysEligible
    <3> QED
      BY <3>1, <3>3
  <2> QED
    BY <2>1, <2>2, <2>3 DEF KpisAreGoverned
<1>3. KpisAreGoverned /\ UNCHANGED probe => KpisAreGoverned'
  BY DEF KpisAreGoverned
<1> QED
  BY <1>1, <1>2, <1>3, PTL DEF AlgorithmsSpec

=============================================================================
