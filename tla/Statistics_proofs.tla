------------------------- MODULE Statistics_proofs --------------------------
(***************************************************************************)
(* Induction over numbers and over finite sets, and what it gives for the  *)
(* operators of Statistics: sums over a finite set, folds over a sequence, *)
(* selections from a sequence and order statistics.                        *)
(*                                                                         *)
(* The argument: a set of numbers has a least one (the order of the        *)
(* numbers is well-founded), so a set of numbers with 0 and with n + 1 for *)
(* each n is all of them; and a family of subsets of a finite set that     *)
(* holds a set whenever it holds the set without any one member is all of  *)
(* them, by their cardinality.  The sum of the library is a recursive      *)
(* function over the subsets: it exists, and whatever grows by the value   *)
(* of each place is equal to it (SumUnique).  A fold is such a function    *)
(* too, the k-th position of a selection is the one with k positions not   *)
(* after it, and the k-th value of a sample the one with fewer than k      *)
(* values below it and k or more not above it.                             *)
(***************************************************************************)
EXTENDS Statistics, FiniteSetTheorems, SequenceTheorems, WellFoundedInduction, TLAPS

-----------------------------------------------------------------------------
(* Induction, for a set of numbers and for the subsets of a finite set.         *)

\* A set of numbers has a least one.
LEMMA LeastNumber ==
  ASSUME NEW S, S \subseteq Nat, S # {}
  PROVE  \E m \in S : \A n \in S : m <= n
<1> DEFINE R == OpToRel(<, Nat)
<1>1. IsWellFoundedOn(R, Nat)
  BY NatLessThanWellFounded
<1>2. \A n, m \in Nat : n < m => <<n, m>> \in R
  BY DEF OpToRel
<1> HIDE DEF R
<1>3. PICK m \in S : \A n \in S : ~(<<n, m>> \in R)
  BY <1>1, WFMin
<1>4. \A n \in S : ~(n < m)
  BY <1>2, <1>3
<1>5. \A n \in S : m <= n
  BY <1>4
<1> QED
  BY <1>5

\* Induction over the numbers, for a set of them.
LEMMA AllNumbers ==
  ASSUME NEW S, S \subseteq Nat, 0 \in S, \A n \in S : n + 1 \in S
  PROVE  S = Nat
<1> SUFFICES ASSUME Nat \ S # {} PROVE FALSE
  OBVIOUS
<1>1. PICK m \in Nat \ S : \A n \in Nat \ S : m <= n
  BY LeastNumber
<1>2. m # 0 /\ m - 1 \in Nat /\ m - 1 \in S
  BY <1>1
<1> QED
  BY <1>1, <1>2

-----------------------------------------------------------------------------
(* Sums.                                                                       *)

Rest(s) == s \ {CHOOSE x \in s : TRUE}
SumStep(f, g, s) == IF s = {} THEN 0 ELSE f[CHOOSE x \in s : TRUE] + g[Rest(s)]
IsSum(f, S, g) == g = [s \in SUBSET S |-> SumStep(f, g, s)]
SmallSets(S, n) == {s \in SUBSET S : Cardinality(s) <= n}

\* The recursion that SumFunctionOnSet chooses a solution of has one, by induction on the size.
LEMMA SumsExist ==
  ASSUME NEW f, NEW S, IsFiniteSet(S)
  PROVE  \E g : g = [s \in SUBSET S |-> SumStep(f, g, s)]
<1> DEFINE Sized(n) == SmallSets(S, n)
           N == {n \in Nat : \E g : g = [s \in Sized(n) |-> SumStep(f, g, s)]}
<1>1. \A s \in SUBSET S : IsFiniteSet(s) /\ Cardinality(s) \in Nat /\ Cardinality(s) <= Cardinality(S)
  BY FS_Subset, FS_CardinalityType
<1>2. \A s \in SUBSET S : s # {} => /\ Rest(s) \in SUBSET S
                                    /\ Cardinality(Rest(s)) = Cardinality(s) - 1
  BY <1>1, FS_RemoveElement DEF Rest
<1>3. 0 \in N
  <2>1. \A s \in Sized(0) : s = {}
    BY <1>1, FS_EmptySet DEF SmallSets
  <2>2. [s \in Sized(0) |-> 0] = [s \in Sized(0) |-> SumStep(f, [t \in Sized(0) |-> 0], s)]
    BY <2>1 DEF SumStep
  <2> QED
    BY <2>2
<1>4. ASSUME NEW n \in N PROVE n + 1 \in N
  <2>1. PICK g : g = [s \in Sized(n) |-> SumStep(f, g, s)]
    OBVIOUS
  <2> DEFINE h == [s \in Sized(n + 1) |-> SumStep(f, g, s)]
  <2>2. \A s \in Sized(n) : h[s] = g[s]
    <3>1. \A s \in Sized(n) : s \in Sized(n + 1)
      BY <1>1 DEF SmallSets
    <3> QED
      BY <2>1, <3>1
  <2>3. \A s \in Sized(n + 1) : s # {} => Rest(s) \in Sized(n)
    BY <1>1, <1>2 DEF SmallSets
  <2>4. \A s \in Sized(n + 1) : SumStep(f, g, s) = SumStep(f, h, s)
    BY <2>2, <2>3 DEF SumStep
  <2>5. h = [s \in Sized(n + 1) |-> SumStep(f, h, s)]
    BY <2>4
  <2> HIDE DEF h
  <2> QED
    BY <2>5
<1>5. Cardinality(S) \in N
  <2> HIDE DEF N
  <2>1. N \subseteq Nat
    BY DEF N
  <2> QED
    BY <1>1, <1>3, <1>4, <2>1, AllNumbers
<1>6. Sized(Cardinality(S)) = SUBSET S
  BY <1>1 DEF SmallSets
<1> QED
  BY <1>5, <1>6

\* What SumFunctionOnSet chooses solves its recursion.
LEMMA SumUnfolds ==
  ASSUME NEW f, NEW S, IsFiniteSet(S)
  PROVE  \E g : SumFunctionOnSet(f, S) = g[S] /\ IsSum(f, S, g)
<1> DEFINE it == CHOOSE g : g = [s \in SUBSET S |-> SumStep(f, g, s)]
<1>1. it = [s \in SUBSET S |-> SumStep(f, it, s)]
  BY SumsExist
<1>2. SumFunctionOnSet(f, S) = it[S]
  BY DEF SumFunctionOnSet, FoldFunctionOnSet, MapThenFoldSet, SumStep, Rest
<1> QED
  BY <1>1, <1>2 DEF IsSum

\* Induction over finite sets, for a set of them.
LEMMA AllSubsets ==
  ASSUME NEW U, IsFiniteSet(U), NEW F, F \subseteq SUBSET U,
         \A s \in SUBSET U : (\A x \in s : s \ {x} \in F) => s \in F
  PROVE  F = SUBSET U
<1> DEFINE N == {n \in Nat : \A s \in SUBSET U : Cardinality(s) = n => s \in F}
<1>1. \A s \in SUBSET U : IsFiniteSet(s) /\ Cardinality(s) \in Nat
  BY FS_Subset, FS_CardinalityType
<1>2. 0 \in N
  BY <1>1, FS_EmptySet
<1>3. ASSUME NEW n \in N PROVE n + 1 \in N
  <2> SUFFICES ASSUME NEW s \in SUBSET U, Cardinality(s) = n + 1 PROVE s \in F
    OBVIOUS
  <2>1. ASSUME NEW x \in s PROVE s \ {x} \in F
    <3>1. Cardinality(s \ {x}) = Cardinality(s) - 1
      BY <1>1, FS_RemoveElement
    <3> QED
      BY <3>1
  <2> QED
    BY <2>1
<1>4. N = Nat
  <2> HIDE DEF N
  <2>1. N \subseteq Nat
    BY DEF N
  <2> QED
    BY <1>2, <1>3, <2>1, AllNumbers
<1> QED
  BY <1>1, <1>4

\* A sum does not depend on the set of which its set is a part.
LEMMA SumsAgree ==
  ASSUME NEW f, NEW S, IsFiniteSet(S), NEW T \in SUBSET S, NEW g, NEW h,
         IsSum(f, S, g), IsSum(f, T, h)
  PROVE  g[T] = h[T]
<1> DEFINE F == {s \in SUBSET T : g[s] = h[s]}
<1>1. IsFiniteSet(T)
  BY FS_Subset
<1>2. ASSUME NEW s \in SUBSET T, \A x \in s : s \ {x} \in F PROVE s \in F
  <2>1. g[s] = SumStep(f, g, s) /\ h[s] = SumStep(f, h, s)
    BY DEF IsSum
  <2>2. s # {} => Rest(s) \in F
    BY <1>2 DEF Rest
  <2> QED
    BY <2>1, <2>2 DEF SumStep
<1>3. F = SUBSET T
  <2> HIDE DEF F
  <2>1. F \subseteq SUBSET T
    BY DEF F
  <2> QED
    BY <1>1, <1>2, <2>1, AllSubsets
<1> QED
  BY <1>3

\* A sum is one term and the sum of the rest.
LEMMA SumRest ==
  ASSUME NEW f, NEW S, IsFiniteSet(S)
  PROVE  /\ S = {} => SumFunctionOnSet(f, S) = 0
         /\ S # {} => SumFunctionOnSet(f, S) = f[CHOOSE x \in S : TRUE] + SumFunctionOnSet(f, Rest(S))
<1>1. PICK g : SumFunctionOnSet(f, S) = g[S] /\ IsSum(f, S, g)
  BY SumUnfolds
<1>2. g[S] = SumStep(f, g, S)
  BY <1>1 DEF IsSum
<1>3. ASSUME S # {} PROVE g[Rest(S)] = SumFunctionOnSet(f, Rest(S))
  <2>1. Rest(S) \in SUBSET S /\ IsFiniteSet(Rest(S))
    BY FS_Subset DEF Rest
  <2>2. PICK h : SumFunctionOnSet(f, Rest(S)) = h[Rest(S)] /\ IsSum(f, Rest(S), h)
    BY <2>1, SumUnfolds
  <2> QED
    BY <1>1, <2>1, <2>2, SumsAgree
<1> QED
  BY <1>1, <1>2, <1>3 DEF SumStep

\* A sum of numbers is a number.
LEMMA SumIsInt ==
  ASSUME NEW f, NEW S, IsFiniteSet(S), \A x \in S : f[x] \in Int
  PROVE  \A s \in SUBSET S : SumFunctionOnSet(f, s) \in Int
<1> DEFINE F == {s \in SUBSET S : SumFunctionOnSet(f, s) \in Int}
<1>1. ASSUME NEW s \in SUBSET S, \A x \in s : s \ {x} \in F PROVE s \in F
  <2>1. IsFiniteSet(s)
    BY FS_Subset
  <2>2. s # {} => Rest(s) \in F /\ f[CHOOSE x \in s : TRUE] \in Int
    BY <1>1 DEF Rest
  <2>3. SumFunctionOnSet(f, s) = IF s = {} THEN 0 ELSE f[CHOOSE x \in s : TRUE] + SumFunctionOnSet(f, Rest(s))
    BY <2>1, SumRest
  <2> QED
    BY <2>2, <2>3
<1> HIDE DEF F
<1>2. F \subseteq SUBSET S
  BY DEF F
<1>3. F = SUBSET S
  BY <1>1, <1>2, AllSubsets
<1> QED
  BY <1>3 DEF F

\* A sum is its value at any one place and the sum over the others.
LEMMA SumSplits ==
  ASSUME NEW f, NEW S, IsFiniteSet(S), \A x \in S : f[x] \in Int
  PROVE  /\ SumFunctionOnSet(f, {}) = 0
         /\ SumFunctionOnSet(f, S) \in Int
         /\ \A x \in S : /\ SumFunctionOnSet(f, S \ {x}) \in Int
                         /\ SumFunctionOnSet(f, S) = f[x] + SumFunctionOnSet(f, S \ {x})
<1> DEFINE Sum(s) == SumFunctionOnSet(f, s)
           F == {s \in SUBSET S : \A x \in s : Sum(s) = f[x] + Sum(s \ {x})}
<1>1. \A s \in SUBSET S : IsFiniteSet(s) /\ Sum(s) \in Int
  BY FS_Subset, SumIsInt
<1>2. ASSUME NEW s \in SUBSET S, \A x \in s : s \ {x} \in F PROVE s \in F
  <2> DEFINE c == CHOOSE x \in s : TRUE
  <2> SUFFICES ASSUME NEW x \in s PROVE Sum(s) = f[x] + Sum(s \ {x})
    OBVIOUS
  <2>1. c \in s /\ Rest(s) = s \ {c}
    BY DEF Rest
  <2>2. Sum(s) = f[c] + Sum(s \ {c})
    BY <1>1, <2>1, SumRest
  <2> HIDE DEF c
  <2>3. CASE x = c
    BY <2>2, <2>3
  <2>4. CASE x # c
    <3>1. Sum(s \ {c}) = f[x] + Sum((s \ {c}) \ {x})
      BY <1>2, <2>1, <2>4
    <3>2. Sum(s \ {x}) = f[c] + Sum((s \ {x}) \ {c})
      BY <1>2, <2>1, <2>4
    <3>3. (s \ {c}) \ {x} = (s \ {x}) \ {c} /\ (s \ {x}) \ {c} \in SUBSET S
      OBVIOUS
    <3>4. Sum((s \ {x}) \ {c}) \in Int /\ f[x] \in Int /\ f[c] \in Int
      BY <1>1, <2>1, <3>3
    <3>5. Sum((s \ {c}) \ {x}) = Sum((s \ {x}) \ {c})
      BY <3>3
    <3> HIDE DEF Sum, F
    <3> QED
      BY <2>2, <3>1, <3>2, <3>4, <3>5
  <2> QED
    BY <2>3, <2>4
<1>3. F = SUBSET S
  <2> HIDE DEF F
  <2>1. F \subseteq SUBSET S
    BY DEF F
  <2> QED
    BY <1>2, <2>1, AllSubsets
<1>4. Sum({}) = 0
  BY <1>1, SumRest
<1> QED
  BY <1>1, <1>3, <1>4

\* A sum is any one of its terms and the sum of the others.
LEMMA SumFacts ==
  ASSUME NEW f, NEW S, IsFiniteSet(S), \A x \in S : f[x] \in Int
  PROVE  \A s \in SUBSET S :
            /\ IsFiniteSet(s) /\ SumFunctionOnSet(f, s) \in Int
            /\ s = {} => SumFunctionOnSet(f, s) = 0
            /\ \A x \in s : SumFunctionOnSet(f, s) = f[x] + SumFunctionOnSet(f, s \ {x})
<1> SUFFICES ASSUME NEW s \in SUBSET S
             PROVE  /\ IsFiniteSet(s) /\ SumFunctionOnSet(f, s) \in Int
                    /\ s = {} => SumFunctionOnSet(f, s) = 0
                    /\ \A x \in s : SumFunctionOnSet(f, s) = f[x] + SumFunctionOnSet(f, s \ {x})
  OBVIOUS
<1>1. IsFiniteSet(s) /\ \A x \in s : f[x] \in Int
  BY FS_Subset
<1> QED
  BY <1>1, SumSplits

\* What starts at 0 and grows by the value of each place is the sum.
Accumulates(f, S, a) ==
    /\ a[{}] = 0
    /\ \A s \in SUBSET S : s # {} => \E x \in s : a[s] = f[x] + a[s \ {x}]

\* Whatever accumulates term by term is the sum.
LEMMA SumUnique ==
  ASSUME NEW f, NEW S, IsFiniteSet(S), \A x \in S : f[x] \in Int, NEW a, Accumulates(f, S, a)
  PROVE  SumFunctionOnSet(f, S) = a[S]
<1> DEFINE F == {s \in SUBSET S : SumFunctionOnSet(f, s) = a[s]}
<1>1. ASSUME NEW s \in SUBSET S, \A x \in s : s \ {x} \in F PROVE s \in F
  <2>1. CASE s = {}
    <3>1. SumFunctionOnSet(f, s) = 0
      BY <2>1, SumFacts
    <3> QED
      BY <2>1, <3>1 DEF Accumulates
  <2>2. CASE s # {}
    <3>1. PICK x \in s : a[s] = f[x] + a[s \ {x}]
      BY <2>2 DEF Accumulates
    <3>2. SumFunctionOnSet(f, s) = f[x] + SumFunctionOnSet(f, s \ {x})
      BY SumFacts
    <3>3. SumFunctionOnSet(f, s \ {x}) = a[s \ {x}]
      BY <1>1
    <3> QED
      BY <3>1, <3>2, <3>3
  <2> QED
    BY <2>1, <2>2
<1>2. F \subseteq SUBSET S
  OBVIOUS
<1>3. F = SUBSET S
  <2> HIDE DEF F
  <2> QED
    BY <1>1, <1>2, AllSubsets
<1> QED
  BY <1>3

\* A sum depends on the values at its places only.
LEMMA SumSame ==
  ASSUME NEW f, NEW g, NEW S, IsFiniteSet(S), \A x \in S : f[x] \in Int, \A x \in S : g[x] = f[x]
  PROVE  SumFunctionOnSet(g, S) = SumFunctionOnSet(f, S)
<1> DEFINE a == [s \in SUBSET S |-> SumFunctionOnSet(f, s)]
<1>1. \A x \in S : g[x] \in Int
  OBVIOUS
<1>2. a[{}] = 0
  BY SumFacts
<1>3. ASSUME NEW s \in SUBSET S, s # {} PROVE \E x \in s : a[s] = g[x] + a[s \ {x}]
  <2>1. PICK x \in s : TRUE
    BY <1>3
  <2>2. SumFunctionOnSet(f, s) = f[x] + SumFunctionOnSet(f, s \ {x})
    BY SumFacts
  <2>3. a[s] = g[x] + a[s \ {x}]
    BY <2>2
  <2> QED
    BY <2>3
<1>4. Accumulates(g, S, a)
  BY <1>2, <1>3 DEF Accumulates
<1>5. SumFunctionOnSet(g, S) = a[S]
  <2> HIDE DEF a
  <2> QED
    BY <1>1, <1>4, SumUnique
<1> QED
  BY <1>5

\* The sum of a sum of two functions.
LEMMA SumAdds ==
  ASSUME NEW f, NEW g, NEW h, NEW S, IsFiniteSet(S),
         \A x \in S : f[x] \in Int, \A x \in S : g[x] \in Int, \A x \in S : h[x] = f[x] + g[x]
  PROVE  SumFunctionOnSet(h, S) = SumFunctionOnSet(f, S) + SumFunctionOnSet(g, S)
<1> DEFINE a == [s \in SUBSET S |-> SumFunctionOnSet(f, s) + SumFunctionOnSet(g, s)]
<1>1. \A x \in S : h[x] \in Int
  OBVIOUS
<1>2. a[{}] = 0
  <2>1. SumFunctionOnSet(f, {}) = 0 
    BY SumFacts
  <2>2. SumFunctionOnSet(g, {}) = 0
    BY SumFacts
  <2> QED
    BY <2>1, <2>2
<1>3. ASSUME NEW s \in SUBSET S, s # {} PROVE \E x \in s : a[s] = h[x] + a[s \ {x}]
  <2>1. PICK x \in s : TRUE
    BY <1>3
  <2>2. /\ SumFunctionOnSet(f, s) = f[x] + SumFunctionOnSet(f, s \ {x})
        /\ SumFunctionOnSet(f, s \ {x}) \in Int
    <3>1. \A y \in SUBSET S : /\ SumFunctionOnSet(f, y) \in Int
                              /\ \A z \in y : SumFunctionOnSet(f, y) = f[z] + SumFunctionOnSet(f, y \ {z})
      BY SumFacts
    <3>2. s \ {x} \in SUBSET S
      OBVIOUS
    <3> HIDE DEF a
    <3> QED
      BY ONLY <3>1, <3>2
  <2>3. /\ SumFunctionOnSet(g, s) = g[x] + SumFunctionOnSet(g, s \ {x})
        /\ SumFunctionOnSet(g, s \ {x}) \in Int
    <3>1. \A y \in SUBSET S : /\ SumFunctionOnSet(g, y) \in Int
                              /\ \A z \in y : SumFunctionOnSet(g, y) = g[z] + SumFunctionOnSet(g, y \ {z})
      BY SumFacts
    <3>2. s \ {x} \in SUBSET S
      OBVIOUS
    <3> HIDE DEF a
    <3> QED
      BY ONLY <3>1, <3>2
  <2>4. h[x] = f[x] + g[x] /\ f[x] \in Int /\ g[x] \in Int
    OBVIOUS
  <2>5. SumFunctionOnSet(f, s) + SumFunctionOnSet(g, s)
          = h[x] + (SumFunctionOnSet(f, s \ {x}) + SumFunctionOnSet(g, s \ {x}))
    BY <2>2, <2>3, <2>4
  <2>6. a[s] = h[x] + a[s \ {x}]
    BY <2>5
  <2> QED
    BY <2>6
<1>4. Accumulates(h, S, a)
  BY <1>2, <1>3 DEF Accumulates
<1>5. SumFunctionOnSet(h, S) = a[S]
  <2> HIDE DEF a
  <2> QED
    BY <1>1, <1>4, SumUnique
<1> QED
  BY <1>5

\* One place of a sum over a part.
LEMMA SumAt ==
  ASSUME NEW f, NEW S, IsFiniteSet(S), \A x \in S : f[x] \in Int, NEW s, \A x \in s : x \in S, NEW x \in s
  PROVE  /\ SumFunctionOnSet(f, s) = f[x] + SumFunctionOnSet(f, s \ {x})
         /\ SumFunctionOnSet(f, s) \in Int
         /\ SumFunctionOnSet(f, s \ {x}) \in Int
         /\ f[x] \in Int
BY SumFacts

\* Sums over two sets without a common place.
LEMMA SumParts ==
  ASSUME NEW f, NEW S, IsFiniteSet(S), \A x \in S : f[x] \in Int,
         NEW A, NEW B, \A x \in A : x \in S /\ x \notin B, \A x \in B : x \in S
  PROVE  SumFunctionOnSet(f, A \cup B) = SumFunctionOnSet(f, A) + SumFunctionOnSet(f, B)
<1> DEFINE F == {s \in SUBSET B : SumFunctionOnSet(f, A \cup s) = SumFunctionOnSet(f, A) + SumFunctionOnSet(f, s)}
<1>0. SumFunctionOnSet(f, A) \in Int /\ IsFiniteSet(B)
  <2>1. A \in SUBSET S /\ B \in SUBSET S
    OBVIOUS
  <2> QED
    BY <2>1, SumFacts
<1>1. ASSUME NEW s \in SUBSET B, \A x \in s : s \ {x} \in F PROVE s \in F
  <2>1. CASE s = {}
    <3>1. SumFunctionOnSet(f, s) = 0
      BY <2>1, SumFacts
    <3>2. A \cup s = A
      BY <2>1
    <3>3. SumFunctionOnSet(f, A \cup s) = SumFunctionOnSet(f, A)
      BY <3>2, Zenon
    <3> QED
      BY <1>0, <3>1, <3>3
  <2>2. CASE s # {}
    <3>1. PICK x \in s : TRUE
      BY <2>2
    <3>2. s \in SUBSET S /\ s \ {x} \in SUBSET S /\ A \cup s \in SUBSET S /\ x \in A \cup s /\ (A \cup s) \ {x} = A \cup (s \ {x})
      OBVIOUS
    <3>3. SumFunctionOnSet(f, s) = f[x] + SumFunctionOnSet(f, s \ {x})
      BY <3>2, SumFacts
    <3>4. SumFunctionOnSet(f, A \cup s) = f[x] + SumFunctionOnSet(f, A \cup (s \ {x}))
      <4> DEFINE u == A \cup s
      <4>1. (\A y \in u : y \in S) /\ x \in u
        OBVIOUS
      <4>2. SumFunctionOnSet(f, u) = f[x] + SumFunctionOnSet(f, u \ {x})
        <5> HIDE DEF u
        <5> QED
          BY <4>1, SumAt
      <4> QED
        BY <4>2, <3>2
    <3>5. SumFunctionOnSet(f, A \cup (s \ {x})) = SumFunctionOnSet(f, A) + SumFunctionOnSet(f, s \ {x})
      BY <1>1
    <3>6. SumFunctionOnSet(f, s \ {x}) \in Int /\ f[x] \in Int
      BY <3>2, SumFacts
    <3> QED
      BY <1>0, <3>3, <3>4, <3>5, <3>6
  <2> QED
    BY <2>1, <2>2
<1>2. F \subseteq SUBSET B
  OBVIOUS
<1>3. F = SUBSET B
  <2> HIDE DEF F
  <2> QED
    BY <1>0, <1>1, <1>2, AllSubsets
<1> QED
  BY <1>3

\* A sum over places that stand one to one for others.
LEMMA SumMoved ==
  ASSUME NEW f, NEW S, IsFiniteSet(S), \A x \in S : f[x] \in Int,
         NEW T, IsFiniteSet(T), NEW b \in [T -> S],
         \A x, y \in T : b[x] = b[y] => x = y, \A y \in S : \E x \in T : b[x] = y,
         NEW g, \A x \in T : g[x] = f[b[x]]
  PROVE  SumFunctionOnSet(g, T) = SumFunctionOnSet(f, S)
<1> DEFINE B(t) == {b[x] : x \in t}
           a == [t \in SUBSET T |-> SumFunctionOnSet(f, B(t))]
<1>1. \A x \in T : g[x] \in Int
  OBVIOUS
<1>2. a[{}] = 0
  <2>1. B({}) = {}
    OBVIOUS
  <2>2. SumFunctionOnSet(f, {}) = 0
    BY SumFacts
  <2> QED
    BY <2>1, <2>2
<1>3. ASSUME NEW s \in SUBSET T, s # {} PROVE \E x \in s : a[s] = g[x] + a[s \ {x}]
  <2>1. PICK x \in s : TRUE
    BY <1>3
  <2>2. B(s) \in SUBSET S /\ b[x] \in B(s) /\ B(s) \ {b[x]} = B(s \ {x})
    OBVIOUS
  <2> HIDE DEF B
  <2>3. SumFunctionOnSet(f, B(s)) = f[b[x]] + SumFunctionOnSet(f, B(s) \ {b[x]})
    <3>1. \A y \in B(s) : y \in S
      BY <2>2
    <3> QED
      BY <2>2, <3>1, SumAt
  <2>4. a[s] = g[x] + a[s \ {x}]
    BY <2>2, <2>3
  <2> QED
    BY <2>4
<1>4. Accumulates(g, T, a)
  BY <1>2, <1>3 DEF Accumulates
<1>5. SumFunctionOnSet(g, T) = a[T]
  <2> HIDE DEF a
  <2> QED
    BY <1>1, <1>4, SumUnique
<1>6. B(T) = S
  OBVIOUS
<1> QED
  BY <1>5, <1>6

Masks(g, f, S, T) == \A x \in S : g[x] = IF x \in T THEN f[x] ELSE 0

\* A sum with 0 outside of a part is the sum over the part.
LEMMA SumMasked ==
  ASSUME NEW f, NEW S, IsFiniteSet(S), NEW T \in SUBSET S, \A x \in T : f[x] \in Int,
         NEW g, Masks(g, f, S, T)
  PROVE  SumFunctionOnSet(g, S) = SumFunctionOnSet(f, T)
<1> DEFINE a == [s \in SUBSET S |-> SumFunctionOnSet(f, s \cap T)]
<1> USE DEF Masks
<1>0. IsFiniteSet(T)
  BY FS_Subset
<1>1. \A x \in S : g[x] \in Int
  OBVIOUS
<1>2. a[{}] = 0
  <2>1. {} \cap T = {}
    OBVIOUS
  <2>2. SumFunctionOnSet(f, {}) = 0
    BY <1>0, SumFacts
  <2> QED
    BY <2>1, <2>2
<1>3. ASSUME NEW s \in SUBSET S, s # {} PROVE \E x \in s : a[s] = g[x] + a[s \ {x}]
  <2>1. PICK x \in s : TRUE
    BY <1>3
  <2>2. CASE x \in T
    <3>1. s \cap T \in SUBSET T /\ x \in s \cap T /\ (s \cap T) \ {x} = (s \ {x}) \cap T
      BY <2>2
    <3> DEFINE u == s \cap T
    <3>2. SumFunctionOnSet(f, u) = f[x] + SumFunctionOnSet(f, u \ {x})
      <4>1. (\A y \in u : y \in T) /\ x \in u
        BY <3>1
      <4> HIDE DEF u
      <4> QED
        BY <1>0, <4>1, SumAt
    <3>3. a[s] = g[x] + a[s \ {x}]
      BY <3>1, <3>2, <2>2
    <3> QED
      BY <3>3
  <2>3. CASE x \notin T
    <3>1. s \cap T = (s \ {x}) \cap T /\ s \cap T \in SUBSET T
      BY <2>3
    <3> DEFINE u == s \cap T
    <3>2. SumFunctionOnSet(f, u) \in Int
      BY <1>0, <3>1, SumFacts
    <3>3. a[s] = SumFunctionOnSet(f, u) /\ a[s \ {x}] = SumFunctionOnSet(f, u) /\ g[x] = 0
      BY <2>3, <3>1
    <3>4. a[s] = g[x] + a[s \ {x}]
      BY <3>2, <3>3
    <3> QED
      BY <3>4
  <2> QED
    BY <2>2, <2>3
<1>4. Accumulates(g, S, a)
  BY <1>2, <1>3 DEF Accumulates
<1>5. SumFunctionOnSet(g, S) = a[S]
  <2> HIDE DEF a
  <2> QED
    BY <1>1, <1>4, SumUnique
<1>6. S \cap T = T
  OBVIOUS
<1> QED
  BY <1>5, <1>6

OfKind(S, kind, c) == {x \in S : kind[x] = c}

\* The sums over the kinds of places add up to the whole sum.
LEMMA SumByKind ==
  ASSUME NEW f, NEW S, IsFiniteSet(S), \A x \in S : f[x] \in Int,
         NEW C, IsFiniteSet(C), NEW kind \in [S -> C],
         NEW g, \A c \in C : g[c] = SumFunctionOnSet(f, OfKind(S, kind, c))
  PROVE  SumFunctionOnSet(g, C) = SumFunctionOnSet(f, S)
<1> DEFINE Of(D) == {x \in S : kind[x] \in D}
           a == [D \in SUBSET C |-> SumFunctionOnSet(f, Of(D))]
<1>1. \A c \in C : g[c] \in Int
  <2>1. \A c \in C : OfKind(S, kind, c) \in SUBSET S
    BY DEF OfKind
  <2> QED
    BY <2>1, SumFacts
<1>2. a[{}] = 0
  <2>1. Of({}) = {}
    OBVIOUS
  <2>2. SumFunctionOnSet(f, {}) = 0
    BY SumFacts
  <2> QED
    BY <2>1, <2>2
<1>3. ASSUME NEW D \in SUBSET C, D # {} PROVE \E c \in D : a[D] = g[c] + a[D \ {c}]
  <2>1. PICK c \in D : TRUE
    BY <1>3
  <2> DEFINE mine == OfKind(S, kind, c)
  <2>2. /\ \A x \in mine : x \in S /\ x \notin Of(D \ {c})
        /\ \A x \in Of(D \ {c}) : x \in S
        /\ Of(D) = mine \cup Of(D \ {c})
    BY DEF OfKind
  <2>3. SumFunctionOnSet(f, mine \cup Of(D \ {c})) = SumFunctionOnSet(f, mine) + SumFunctionOnSet(f, Of(D \ {c}))
    <3> DEFINE rest == Of(D \ {c})
    <3>1. (\A x \in mine : x \in S /\ x \notin rest) /\ \A x \in rest : x \in S
      BY <2>2
    <3> HIDE DEF mine, rest
    <3>2. SumFunctionOnSet(f, mine \cup rest) = SumFunctionOnSet(f, mine) + SumFunctionOnSet(f, rest)
      BY <3>1, SumParts
    <3> QED
      BY <3>2 DEF rest
  <2>4. a[D] = g[c] + a[D \ {c}]
    BY <2>2, <2>3
  <2> QED
    BY <2>4
<1>4. Accumulates(g, C, a)
  BY <1>2, <1>3 DEF Accumulates
<1>5. SumFunctionOnSet(g, C) = a[C]
  <2> HIDE DEF a
  <2> QED
    BY <1>1, <1>4, SumUnique
<1>6. Of(C) = S
  OBVIOUS
<1> QED
  BY <1>5, <1>6

\* What a finite set is mapped onto is finite.
LEMMA ImageIsFinite ==
  ASSUME NEW S, IsFiniteSet(S), NEW T, NEW f \in [S -> T], \A y \in T : \E x \in S : f[x] = y
  PROVE  IsFiniteSet(T)
<1>1. f \in Surjection(S, T)
  BY DEF Surjection
<1> QED
  BY <1>1, FS_Surjection

\* Larger values have a larger sum.
LEMMA SumAtMost ==
  ASSUME NEW f, NEW g, NEW S, IsFiniteSet(S),
         \A x \in S : f[x] \in Int, \A x \in S : g[x] \in Int, \A x \in S : f[x] <= g[x]
  PROVE  SumFunctionOnSet(f, S) <= SumFunctionOnSet(g, S)
<1> DEFINE F == {s \in SUBSET S : SumFunctionOnSet(f, s) <= SumFunctionOnSet(g, s)}
<1>1. ASSUME NEW s \in SUBSET S, \A x \in s : s \ {x} \in F PROVE s \in F
  <2>1. CASE s = {}
    <3>1. SumFunctionOnSet(f, s) = 0
      BY <2>1, SumFacts
    <3>2. SumFunctionOnSet(g, s) = 0
      BY <2>1, SumFacts
    <3> QED
      BY <3>1, <3>2
  <2>2. CASE s # {}
    <3>1. PICK x \in s : TRUE
      BY <2>2
    <3>2. SumFunctionOnSet(f, s) = f[x] + SumFunctionOnSet(f, s \ {x}) /\ SumFunctionOnSet(f, s \ {x}) \in Int
      BY SumFacts
    <3>3. SumFunctionOnSet(g, s) = g[x] + SumFunctionOnSet(g, s \ {x}) /\ SumFunctionOnSet(g, s \ {x}) \in Int
      BY SumFacts
    <3>4. SumFunctionOnSet(f, s \ {x}) <= SumFunctionOnSet(g, s \ {x})
      BY <1>1
    <3>5. f[x] \in Int /\ g[x] \in Int /\ f[x] <= g[x]
      OBVIOUS
    <3> QED
      BY <3>2, <3>3, <3>4, <3>5
  <2> QED
    BY <2>1, <2>2
<1>2. F \subseteq SUBSET S
  OBVIOUS
<1>3. F = SUBSET S
  <2> HIDE DEF F
  <2> QED
    BY <1>1, <1>2, AllSubsets
<1> QED
  BY <1>3

\* A sum of ones is a count.
LEMMA SumOfOnes ==
  ASSUME NEW f, NEW S, IsFiniteSet(S), \A x \in S : f[x] = 1
  PROVE  SumFunctionOnSet(f, S) = Cardinality(S)
<1> DEFINE a == [s \in SUBSET S |-> Cardinality(s)]
<1>1. \A x \in S : f[x] \in Int
  OBVIOUS
<1>2. a[{}] = 0
  BY FS_EmptySet
<1>3. ASSUME NEW s \in SUBSET S, s # {} PROVE \E x \in s : a[s] = f[x] + a[s \ {x}]
  <2>1. PICK x \in s : TRUE
    BY <1>3
  <2>2. IsFiniteSet(s) /\ Cardinality(s) \in Nat
    BY FS_Subset, FS_CardinalityType
  <2>3. Cardinality(s \ {x}) = Cardinality(s) - 1
    BY <2>2, FS_RemoveElement
  <2>4. a[s] = f[x] + a[s \ {x}]
    BY <2>2, <2>3
  <2> QED
    BY <2>4
<1>4. Accumulates(f, S, a)
  BY <1>2, <1>3 DEF Accumulates
<1>5. SumFunctionOnSet(f, S) = a[S]
  <2> HIDE DEF a
  <2> QED
    BY <1>1, <1>4, SumUnique
<1> QED
  BY <1>5

\* A finite set in two parts.
LEMMA TwoParts ==
  ASSUME NEW S, IsFiniteSet(S), NEW A, NEW B,
         \A x \in A : x \in S /\ x \notin B, \A x \in B : x \in S, \A x \in S : x \in A \/ x \in B
  PROVE  Cardinality(S) = Cardinality(A) + Cardinality(B) /\ Cardinality(A) \in Nat /\ Cardinality(B) \in Nat
<1>1. IsFiniteSet(A) /\ IsFiniteSet(B)
  <2>1. A \in SUBSET S /\ B \in SUBSET S
    OBVIOUS
  <2> QED
    BY <2>1, FS_Subset
<1>2. Cardinality(A \cup B) = Cardinality(A) + Cardinality(B) - Cardinality(A \cap B)
  BY <1>1, FS_Union
<1>3. A \cap B = {} /\ A \cup B = S
  OBVIOUS
<1>4. Cardinality(A) \in Nat /\ Cardinality(B) \in Nat /\ Cardinality({}) = 0
  BY <1>1, FS_CardinalityType, FS_EmptySet
<1>5. Cardinality(A \cap B) = 0 /\ Cardinality(A \cup B) = Cardinality(S)
  BY <1>3, <1>4, Zenon
<1> QED
  BY <1>2, <1>4, <1>5

\* A finite set in three parts.
InThreeParts(S, A, B, C) ==
  /\ IsFiniteSet(S)
  /\ \A x \in A : x \in S /\ x \notin B /\ x \notin C
  /\ \A x \in B : x \in S /\ x \notin C
  /\ \A x \in C : x \in S
  /\ \A x \in S : x \in A \/ x \in B \/ x \in C

\* The parts of a finite set are finite and count it.
LEMMA ThreeParts ==
  ASSUME NEW S, NEW A, NEW B, NEW C, InThreeParts(S, A, B, C)
  PROVE  /\ Cardinality(S) = Cardinality(A) + Cardinality(B) + Cardinality(C)
         /\ Cardinality(A) \in Nat /\ Cardinality(B) \in Nat /\ Cardinality(C) \in Nat
<1> USE DEF InThreeParts
<1>1. A \in SUBSET S /\ B \in SUBSET S /\ C \in SUBSET S
  OBVIOUS
<1>2. IsFiniteSet(A) /\ IsFiniteSet(B) /\ IsFiniteSet(C)
  BY <1>1, FS_Subset
<1>3. IsFiniteSet(A \cup B) /\ Cardinality(A \cup B) = Cardinality(A) + Cardinality(B) - Cardinality(A \cap B)
  BY <1>2, FS_Union
<1>4. Cardinality((A \cup B) \cup C) = Cardinality(A \cup B) + Cardinality(C) - Cardinality((A \cup B) \cap C)
  BY <1>2, <1>3, FS_Union
<1>5. A \cap B = {} /\ (A \cup B) \cap C = {} /\ (A \cup B) \cup C = S
  OBVIOUS
<1>6. Cardinality(A) \in Nat /\ Cardinality(B) \in Nat /\ Cardinality(C) \in Nat /\ Cardinality({}) = 0
  BY <1>2, FS_CardinalityType, FS_EmptySet
<1>7. /\ Cardinality(A \cap B) = 0 /\ Cardinality((A \cup B) \cap C) = 0
      /\ Cardinality((A \cup B) \cup C) = Cardinality(S)
  BY <1>5, <1>6, Zenon
<1> QED
  BY <1>3, <1>4, <1>6, <1>7

\* A sum of equal values.
LEMMA SumOfEquals ==
  ASSUME NEW n \in Nat, NEW c \in Int, NEW f, \A i \in 1..n : f[i] = c
  PROVE  SumFunctionOnSet(f, 1..n) = n * c
<1> DEFINE S == 1..n
           a == [s \in SUBSET S |-> Cardinality(s) * c]
<1>1. IsFiniteSet(S) /\ Cardinality(S) = n /\ \A x \in S : f[x] \in Int
  BY FS_Interval
<1>2. a[{}] = 0
  BY FS_EmptySet
<1>3. ASSUME NEW s \in SUBSET S, s # {} PROVE \E x \in s : a[s] = f[x] + a[s \ {x}]
  <2>1. PICK x \in s : TRUE
    BY <1>3
  <2>2. IsFiniteSet(s) /\ Cardinality(s) \in Nat
    BY <1>1, FS_Subset, FS_CardinalityType
  <2>3. Cardinality(s \ {x}) = Cardinality(s) - 1
    BY <2>2, FS_RemoveElement
  <2>4. f[x] = c
    OBVIOUS
  <2>5. Cardinality(s) * c = c + (Cardinality(s) - 1) * c
    BY <2>2
  <2>6. a[s] = f[x] + a[s \ {x}]
    BY <2>3, <2>4, <2>5
  <2> QED
    BY <2>6
<1>4. Accumulates(f, S, a)
  BY <1>2, <1>3 DEF Accumulates
<1>5. SumFunctionOnSet(f, S) = a[S]
  <2> HIDE DEF a, S
  <2> QED
    BY <1>1, <1>4, SumUnique
<1> QED
  BY <1>1, <1>5

\* The places of a finite set in some order.
Enumeration(S) == CHOOSE f \in [1..Cardinality(S) -> S] : IsInjective(f)

\* A finite set in some order.
LEMMA Enumerated ==
  ASSUME NEW S, IsFiniteSet(S)
  PROVE  /\ Enumeration(S) \in [1..Cardinality(S) -> S]
         /\ \A x, y \in 1..Cardinality(S) : Enumeration(S)[x] = Enumeration(S)[y] => x = y
         /\ \A y \in S : \E x \in 1..Cardinality(S) : Enumeration(S)[x] = y
<1> DEFINE e == Enumeration(S)
           n == Cardinality(S)
           T == 1..n
<1>1. n \in Nat /\ IsFiniteSet(T) /\ Cardinality(T) = n
  BY FS_CardinalityType, FS_Interval
<1>2. ExistsBijection(1..n, S)
  <2>1. PICK k \in Nat : ExistsBijection(1..k, S)
    BY FS_NatBijection
  <2>2. n = k
    BY <2>1, FS_CountingElements
  <2> QED
    BY <2>1, <2>2
<1>3. PICK f \in Bijection(1..n, S) : TRUE
  BY <1>2 DEF ExistsBijection
<1>4. f \in [1..n -> S] /\ IsInjective(f)
  BY <1>3 DEF Bijection, Injection
<1>5. e \in [1..n -> S] /\ IsInjective(e)
  BY <1>4 DEF Enumeration
<1>6. e \in Injection(T, S)
  BY <1>5 DEF Injection
<1>7. e \in Surjection(T, S)
  <2> HIDE DEF T
  <2> QED
    BY <1>1, <1>6, FS_Injection DEF n
<1> QED
  BY <1>5, <1>7 DEF IsInjective, Surjection

\* The sum over a set in some order.
LEMMA SumEnumerated ==
  ASSUME NEW S, IsFiniteSet(S), NEW w, \A x \in S : w[x] \in Int,
         NEW g, \A i \in 1..Cardinality(S) : g[i] = w[Enumeration(S)[i]]
  PROVE  SumFunctionOnSet(g, 1..Cardinality(S)) = SumFunctionOnSet(w, S)
<1> DEFINE T == 1..Cardinality(S)
           e == Enumeration(S)
<1>1. IsFiniteSet(T)
  BY FS_CardinalityType, FS_Interval
<1>2. /\ e \in [T -> S]
      /\ \A x, y \in T : e[x] = e[y] => x = y
      /\ \A y \in S : \E x \in T : e[x] = y
  BY Enumerated
<1>4. \A x \in T : g[x] = w[e[x]]
  OBVIOUS
<1> HIDE DEF T, e
<1>3. SumFunctionOnSet(g, T) = SumFunctionOnSet(w, S)
  BY <1>1, <1>2, <1>4, SumMoved
<1> QED
  BY <1>3 DEF T

\* The sum after one place has changed.
LEMMA SumChanged ==
  ASSUME NEW f, NEW S, IsFiniteSet(S), \A x \in S : f[x] \in Int, NEW c \in S, NEW g, g[c] \in Int,
         \A x \in S : x # c => g[x] = f[x]
  PROVE  SumFunctionOnSet(g, S) = SumFunctionOnSet(f, S) - f[c] + g[c]
<1> DEFINE R == S \ {c}
<1>1. /\ SumFunctionOnSet(f, S) = f[c] + SumFunctionOnSet(f, R)
      /\ SumFunctionOnSet(f, R) \in Int
  BY SumSplits
<1>2. f[c] \in Int /\ \A x \in S : g[x] \in Int
  OBVIOUS
<1>3. SumFunctionOnSet(g, S) = g[c] + SumFunctionOnSet(g, R)
  BY <1>2, SumSplits
<1>4. IsFiniteSet(R) /\ (\A x \in R : f[x] \in Int) /\ \A x \in R : g[x] = f[x]
  BY FS_Subset
<1> HIDE DEF R
<1>5. SumFunctionOnSet(g, R) = SumFunctionOnSet(f, R)
  BY <1>4, SumSame
<1> QED
  BY <1>1, <1>2, <1>3, <1>5

\* A sum over the first numbers grows by its last value.
LEMMA SumNext ==
  ASSUME NEW m \in Nat, NEW f, \A i \in 1..(m + 1) : f[i] \in Int
  PROVE  /\ SumFunctionOnSet(f, 1..(m + 1)) = f[m + 1] + SumFunctionOnSet(f, 1..m)
         /\ SumFunctionOnSet(f, 1..(m + 1)) \in Int
         /\ SumFunctionOnSet(f, 1..m) \in Int
<1> DEFINE S == 1..(m + 1)
<1>1. IsFiniteSet(S) /\ m + 1 \in S /\ (\A x \in S : f[x] \in Int) /\ S \ {m + 1} = 1..m
  BY FS_Interval
<1> HIDE DEF S
<1>2. /\ SumFunctionOnSet(f, S) = f[m + 1] + SumFunctionOnSet(f, S \ {m + 1})
      /\ SumFunctionOnSet(f, S) \in Int /\ SumFunctionOnSet(f, S \ {m + 1}) \in Int
  BY <1>1, SumSplits
<1> QED
  BY <1>1, <1>2 DEF S

-----------------------------------------------------------------------------
(* Folds from left to right.                                                   *)

\* A finite set of integers has a greatest member.
LEMMA GreatestInt ==
  ASSUME NEW S, IsFiniteSet(S), \A x \in S : x \in Int, S # {}
  PROVE  \E m \in S : \A x \in S : x <= m
<1> DEFINE Has(s) == \E m \in s : \A x \in s : x <= m
           F == {s \in SUBSET S : s = {} \/ Has(s)}
<1>1. ASSUME NEW s \in SUBSET S, \A x \in s : s \ {x} \in F PROVE s \in F
  <2> SUFFICES ASSUME s # {} PROVE Has(s)
    OBVIOUS
  <2>1. PICK a \in s : TRUE
    OBVIOUS
  <2>2. CASE s \ {a} = {}
    BY <2>1, <2>2
  <2>3. CASE s \ {a} # {}
    <3>1. PICK m \in s \ {a} : \A x \in s \ {a} : x <= m
      BY <1>1, <2>1, <2>3
    <3>2. a \in Int /\ m \in Int /\ \A x \in s : x \in Int
      BY <2>1, <3>1
    <3>3. CASE a <= m
      <4>1. \A x \in s : x <= m
        BY <3>1, <3>3
      <4> QED
        BY <3>1, <4>1
    <3>4. CASE ~(a <= m)
      <4>1. \A x \in s : x <= a
        BY <3>1, <3>2, <3>4
      <4> QED
        BY <2>1, <4>1
    <3> QED
      BY <3>3, <3>4
  <2> QED
    BY <2>2, <2>3
<1>2. F \subseteq SUBSET S
  OBVIOUS
<1>3. F = SUBSET S
  <2> HIDE DEF F
  <2> QED
    BY <1>1, <1>2, AllSubsets
<1> QED
  BY <1>3

\* The greatest member.
Greatest(s) == CHOOSE x \in s : \A y \in s : x >= y

\* A finite nonempty set of numbers has its greatest member.
LEMMA GreatestFacts ==
  ASSUME NEW s, IsFiniteSet(s), \A x \in s : x \in Int, s # {}
  PROVE  Greatest(s) \in s /\ \A y \in s : Greatest(s) >= y
<1>1. PICK m \in s : \A x \in s : x <= m
  BY GreatestInt
<1>2. \A x \in s : m >= x
  BY <1>1
<1> QED
  BY <1>2 DEF Greatest

FoldStep(base, step, g, s) == IF s = {} THEN base ELSE step[Greatest(s)][g[s \ {Greatest(s)}]]

StepsStay(A, n, step) == \A k \in 1..n : \A a \in A : step[k][a] \in A
IsFold(A, base, n, step, g) ==
  g \in [SUBSET (1..n) -> A] /\ \A s \in SUBSET (1..n) : g[s] = FoldStep(base, step, g, s)

\* The places of a sequence can be folded in their order, in any set of results that the steps keep.
LEMMA FoldsExist ==
  ASSUME NEW A, NEW base \in A, NEW n \in Nat, NEW step, StepsStay(A, n, step)
  PROVE  \E g : IsFold(A, base, n, step, g)
<1> DEFINE S == 1..n
           Sized(i) == SmallSets(S, i)
           Good(i, g) == g \in [Sized(i) -> A] /\ \A s \in Sized(i) : g[s] = FoldStep(base, step, g, s)
           N == {i \in Nat : \E g : Good(i, g)}
<1>0. IsFiniteSet(S)
  BY FS_Interval
<1>1. \A s \in SUBSET S : IsFiniteSet(s) /\ Cardinality(s) \in Nat /\ Cardinality(s) <= Cardinality(S)
  <2> HIDE DEF S
  <2> QED
    BY <1>0, FS_Subset, FS_CardinalityType
<1>2. \A s \in SUBSET S : s # {} => /\ Greatest(s) \in s /\ Greatest(s) \in S
                                    /\ s \ {Greatest(s)} \in SUBSET S
                                    /\ Cardinality(s \ {Greatest(s)}) = Cardinality(s) - 1
  <2> SUFFICES ASSUME NEW s \in SUBSET S, s # {}
               PROVE  /\ Greatest(s) \in s /\ Greatest(s) \in S
                      /\ s \ {Greatest(s)} \in SUBSET S
                      /\ Cardinality(s \ {Greatest(s)}) = Cardinality(s) - 1
    OBVIOUS
  <2>1. \A x \in s : x \in Int
    OBVIOUS
  <2> HIDE DEF S
  <2>2. Greatest(s) \in s
    BY <1>1, <2>1, GreatestFacts
  <2>3. Cardinality(s \ {Greatest(s)}) = Cardinality(s) - 1
    BY <1>1, <2>2, FS_RemoveElement
  <2> QED
    BY <2>2, <2>3
<1>3. 0 \in N
  <2> HIDE DEF S
  <2>1. \A s \in Sized(0) : s = {}
    BY <1>1, FS_EmptySet DEF SmallSets
  <2>2. Good(0, [s \in Sized(0) |-> base])
    BY <2>1 DEF FoldStep
  <2> HIDE DEF Good
  <2> QED
    BY <2>2
<1>4. ASSUME NEW i \in N PROVE i + 1 \in N
  <2>1. PICK g : Good(i, g)
    BY <1>4
  <2> HIDE DEF S
  <2> DEFINE h == [s \in Sized(i + 1) |-> FoldStep(base, step, g, s)]
  <2>2. \A s \in Sized(i) : h[s] = g[s]
    <3>1. \A s \in Sized(i) : s \in Sized(i + 1)
      BY <1>1 DEF SmallSets
    <3> QED
      BY <2>1, <3>1
  <2>3. \A s \in Sized(i + 1) : s # {} => s \ {Greatest(s)} \in Sized(i) /\ Greatest(s) \in S
    BY <1>1, <1>2 DEF SmallSets
  <2>4. \A s \in Sized(i + 1) : FoldStep(base, step, g, s) = FoldStep(base, step, h, s)
    <3> HIDE DEF h
    <3> QED
      BY <2>2, <2>3 DEF FoldStep
  <2>5. \A s \in Sized(i + 1) : FoldStep(base, step, g, s) \in A
    <3>1. \A t \in Sized(i) : g[t] \in A
      BY <2>1
    <3>2. \A k \in S : \A a \in A : step[k][a] \in A
      BY DEF S, StepsStay
    <3> QED
      BY <2>3, <3>1, <3>2 DEF FoldStep
  <2>6. Good(i + 1, h)
    <3>1. h \in [Sized(i + 1) -> A]
      BY <2>5
    <3>2. \A s \in Sized(i + 1) : h[s] = FoldStep(base, step, h, s)
      BY <2>4
    <3> QED
      BY <3>1, <3>2
  <2> HIDE DEF Good, h
  <2> QED
    BY <2>6
<1>5. Cardinality(S) \in N
  <2> HIDE DEF N
  <2>1. N \subseteq Nat
    BY DEF N
  <2>2. Cardinality(S) \in Nat
    BY <1>0, FS_CardinalityType
  <2> QED
    BY <1>3, <1>4, <2>1, <2>2, AllNumbers
<1>6. Sized(Cardinality(S)) = SUBSET S
  <2> HIDE DEF S
  <2> QED
    BY <1>1 DEF SmallSets
<1> QED
  BY <1>5, <1>6 DEF IsFold

\* The greatest of the first numbers is the last.
LEMMA GreatestOfFirst ==
  ASSUME NEW n \in Nat, NEW k \in 0..(n - 1)
  PROVE  /\ 1..(k + 1) \in SUBSET (1..n) /\ 1..k \in SUBSET (1..n) /\ 1..(k + 1) # {}
         /\ Greatest(1..(k + 1)) = k + 1 /\ 1..(k + 1) \ {Greatest(1..(k + 1))} = 1..k
<1>1. 1..(k + 1) # {} /\ (\A x \in 1..(k + 1) : x \in Int) /\ k + 1 \in 1..(k + 1) /\ \A x \in 1..(k + 1) : x <= k + 1
  OBVIOUS
<1>2. IsFiniteSet(1..(k + 1))
  BY FS_Interval
<1> DEFINE s == 1..(k + 1)
<1>3. Greatest(s) \in s /\ \A y \in s : Greatest(s) >= y
  <2> HIDE DEF s
  <2> QED
    BY <1>1, <1>2, GreatestFacts DEF s
<1>4. Greatest(s) = k + 1
  BY <1>1, <1>3
<1> QED
  BY <1>4

\* Six values are finitely many.
LEMMA SixAreFinite ==
  ASSUME NEW a, NEW b, NEW c, NEW d, NEW e, NEW f
  PROVE  IsFiniteSet({a, b, c, d, e, f})
<1>1. /\ IsFiniteSet({a}) /\ IsFiniteSet({b}) /\ IsFiniteSet({c})
      /\ IsFiniteSet({d}) /\ IsFiniteSet({e}) /\ IsFiniteSet({f})
  BY FS_Singleton
<1>2. IsFiniteSet({a} \cup {b}) /\ IsFiniteSet({c} \cup {d}) /\ IsFiniteSet({e} \cup {f})
  BY <1>1, FS_Union
<1>3. IsFiniteSet(({a} \cup {b}) \cup ({c} \cup {d}))
  BY <1>2, FS_Union
<1>4. IsFiniteSet((({a} \cup {b}) \cup ({c} \cup {d})) \cup ({e} \cup {f}))
  BY <1>2, <1>3, FS_Union
<1>5. {a, b, c, d, e, f} = (({a} \cup {b}) \cup ({c} \cup {d})) \cup ({e} \cup {f})
  OBVIOUS
<1> QED
  BY <1>4, <1>5

\* The positions of a sequence that satisfy a condition are finite.
LEMMA PositionsFinite ==
  ASSUME NEW n \in Nat, NEW K, \A i \in K : i \in 1..n
  PROVE  IsFiniteSet(K) /\ \A i \in K : i \in Int
<1>1. IsFiniteSet(1..n) /\ K \in SUBSET (1..n)
  BY FS_Interval
<1>2. IsFiniteSet(K)
  <2> DEFINE S == 1..n
  <2>1. IsFiniteSet(S) /\ K \in SUBSET S
    BY <1>1
  <2> HIDE DEF S
  <2> QED
    BY <2>1, FS_Subset
<1>3. \A i \in K : i \in Int
  OBVIOUS
<1> QED
  BY <1>2, <1>3

-----------------------------------------------------------------------------
(* Selections.                                                                 *)

\* How many positions of a selection are not after one of them.
Rank(K, i) == Cardinality({j \in K : j <= i})

\* The positions of a selection are ranked without ties and without gaps.
LEMMA RankFacts ==
  ASSUME NEW K, IsFiniteSet(K), \A i \in K : i \in Int
  PROVE  /\ Cardinality(K) \in Nat
         /\ \A i, j \in K : i < j => Rank(K, i) < Rank(K, j)
         /\ \A i \in K : Rank(K, i) \in 1..Cardinality(K)
         /\ \A k \in 1..Cardinality(K) : \E i \in K : Rank(K, i) = k
<1> DEFINE n == Cardinality(K)
           upto(i) == {j \in K : j <= i}
           rank == [i \in K |-> Cardinality(upto(i))]
<1>1. n \in Nat
  BY FS_CardinalityType
<1>2. \A i \in K : IsFiniteSet(upto(i)) /\ Cardinality(upto(i)) \in Nat /\ Cardinality(upto(i)) <= n
  <2>1. \A i \in K : upto(i) \in SUBSET K
    OBVIOUS
  <2> HIDE DEF upto
  <2> QED
    BY <2>1, FS_Subset, FS_CardinalityType
<1>3. \A i, j \in K : i < j => rank[i] < rank[j]
  <2> SUFFICES ASSUME NEW i \in K, NEW j \in K, i < j PROVE Cardinality(upto(i)) < Cardinality(upto(j))
    OBVIOUS
  <2>1. \A x \in K : x <= i => x <= j
    OBVIOUS
  <2>2. upto(i) \in SUBSET upto(j) /\ j \in upto(j) /\ j \notin upto(i)
    BY <2>1
  <2> HIDE DEF upto
  <2>3. Cardinality(upto(i)) <= Cardinality(upto(j)) /\ Cardinality(upto(i)) # Cardinality(upto(j))
    BY <1>2, <2>2, FS_Subset
  <2> QED
    BY <1>2, <2>3
<1>4. \A i \in K : rank[i] \in 1..n
  <2> SUFFICES ASSUME NEW i \in K PROVE Cardinality(upto(i)) \in 1..n
    OBVIOUS
  <2>1. upto(i) # {}
    OBVIOUS
  <2> HIDE DEF upto
  <2>2. Cardinality(upto(i)) # 0
    BY <1>2, <2>1, FS_EmptySet
  <2> QED
    BY <1>1, <1>2, <2>2
<1>5. \A k \in 1..n : \E i \in K : rank[i] = k
  <2>1. rank \in Injection(K, 1..n)
    <3>1. rank \in [K -> 1..n]
      BY <1>4
    <3>2. ASSUME NEW i \in K, NEW j \in K, rank[i] = rank[j] PROVE i = j
      <4> HIDE DEF rank
      <4>1. ~(i < j) /\ ~(j < i)
        BY <1>1, <1>3, <1>4, <3>2
      <4> QED
        BY <4>1
    <3> QED
      BY <3>1, <3>2 DEF Injection, IsInjective
  <2>2. IsFiniteSet(1..n) /\ Cardinality(1..n) = n
    BY <1>1, FS_Interval
  <2> HIDE DEF rank, n
  <2>3. rank \in Surjection(K, 1..n)
    BY <2>1, <2>2, FS_Injection DEF n
  <2> QED
    BY <2>3 DEF Surjection
<1>6. \A i \in K : Rank(K, i) = rank[i]
  BY DEF Rank
<1> HIDE DEF rank, n
<1> QED
  BY <1>1, <1>3, <1>4, <1>5, <1>6 DEF n

\* The positions of a selection stand in their order.
LEMMA NthFacts ==
  ASSUME NEW K, IsFiniteSet(K), \A i \in K : i \in Int
  PROVE  /\ Cardinality(K) \in Nat
         /\ \A k \in 1..Cardinality(K) : Nth(K, k) \in K
         /\ \A k, m \in 1..Cardinality(K) : k < m => Nth(K, k) < Nth(K, m)
         /\ \A i \in K : \E k \in 1..Cardinality(K) : Nth(K, k) = i
<1> DEFINE n == Cardinality(K)
           rank == [i \in K |-> Rank(K, i)]
<1>1. n \in Nat
  BY FS_CardinalityType
<1>3. \A i, j \in K : i < j => rank[i] < rank[j]
  BY RankFacts
<1>4. \A i \in K : rank[i] \in 1..n
  BY RankFacts
<1>5. \A k \in 1..n : \E i \in K : rank[i] = k
  BY RankFacts
<1>6. \A k \in 1..n : Nth(K, k) \in K /\ rank[Nth(K, k)] = k
  BY <1>5 DEF Nth, Rank
<1> HIDE DEF rank, n
<1>7. \A k, m \in 1..n : k < m => Nth(K, k) < Nth(K, m)
  <2> SUFFICES ASSUME NEW k \in 1..n, NEW m \in 1..n, k < m, ~(Nth(K, k) < Nth(K, m)) PROVE FALSE
    OBVIOUS
  <2>1. Nth(K, k) \in K /\ Nth(K, m) \in K /\ rank[Nth(K, k)] = k /\ rank[Nth(K, m)] = m
    BY <1>6
  <2>2. Nth(K, m) < Nth(K, k) \/ Nth(K, m) = Nth(K, k)
    BY <2>1
  <2> QED
    BY <1>3, <2>1, <2>2
<1>8. ASSUME NEW i \in K PROVE \E k \in 1..n : Nth(K, k) = i
  <2>1. rank[i] \in 1..n
    BY <1>4
  <2>2. Nth(K, rank[i]) \in K /\ rank[Nth(K, rank[i])] = rank[i]
    BY <1>6, <2>1
  <2>3. Nth(K, rank[i]) = i
    BY <1>3, <1>4, <2>2
  <2> QED
    BY <2>1, <2>3
<1> QED
  BY <1>1, <1>6, <1>7, <1>8 DEF n

\* A sum over a selection is the sum over its positions.
LEMMA SumPicked ==
  ASSUME NEW K, IsFiniteSet(K), \A i \in K : i \in Int, NEW f, \A i \in K : f[i] \in Int,
         NEW g, \A k \in 1..Cardinality(K) : g[k] = f[Nth(K, k)]
  PROVE  SumFunctionOnSet(g, 1..Cardinality(K)) = SumFunctionOnSet(f, K)
<1> DEFINE n == Cardinality(K)
           b == [k \in 1..n |-> Nth(K, k)]
<1>1. n \in Nat /\ IsFiniteSet(1..n)
  BY NthFacts, FS_Interval
<1>2. /\ b \in [1..n -> K]
      /\ \A x, y \in 1..n : b[x] = b[y] => x = y
      /\ \A y \in K : \E x \in 1..n : b[x] = y
      /\ \A x \in 1..n : g[x] = f[b[x]]
  <2>1. \A k \in 1..n : Nth(K, k) \in K
    BY NthFacts
  <2>2. \A k, m \in 1..n : k < m => Nth(K, k) < Nth(K, m)
    BY NthFacts
  <2>3. \A i \in K : \E k \in 1..n : Nth(K, k) = i
    BY NthFacts
  <2>4. \A x, y \in 1..n : b[x] = b[y] => x = y
    BY <1>1, <2>1, <2>2
  <2> QED
    BY <2>1, <2>3, <2>4
<1>3. SumFunctionOnSet(g, 1..n) = SumFunctionOnSet(f, K)
  <2> DEFINE T == 1..n
  <2>1. /\ b \in [T -> K] /\ IsFiniteSet(T)
        /\ \A x, y \in T : b[x] = b[y] => x = y
        /\ \A y \in K : \E x \in T : b[x] = y
        /\ \A x \in T : g[x] = f[b[x]]
    BY <1>1, <1>2
  <2> HIDE DEF b, T
  <2>2. SumFunctionOnSet(g, T) = SumFunctionOnSet(f, K)
    BY <2>1, SumMoved
  <2> QED
    BY <2>2 DEF T
<1> HIDE DEF b, n
<1> QED
  BY <1>3 DEF n

\* A selection is as long as its set of positions.
LEMMA PickedFacts ==
  ASSUME NEW K, IsFiniteSet(K), NEW s
  PROVE  /\ DOMAIN Picked(s, K) = 1..Cardinality(K)
         /\ Len(Picked(s, K)) = Cardinality(K)
         /\ \A k \in 1..Cardinality(K) : Picked(s, K)[k] = s[Nth(K, k)]
<1>1. Cardinality(K) \in Nat
  BY FS_CardinalityType
<1> QED
  BY <1>1 DEF Picked

\* A selection holds what stands at its positions.
LEMMA PickedRange ==
  ASSUME NEW K, IsFiniteSet(K), \A i \in K : i \in Int, NEW s
  PROVE  \A x : x \in ToSet(Picked(s, K)) <=> \E i \in K : x = s[i]
<1>1. DOMAIN Picked(s, K) = 1..Cardinality(K) /\ \A k \in 1..Cardinality(K) : Picked(s, K)[k] = s[Nth(K, k)]
  BY PickedFacts
<1>2. \A k \in 1..Cardinality(K) : Nth(K, k) \in K
  BY NthFacts
<1>3. \A i \in K : \E k \in 1..Cardinality(K) : Nth(K, k) = i
  BY NthFacts
<1> HIDE DEF Picked
<1>4. ASSUME NEW x \in ToSet(Picked(s, K)) PROVE \E i \in K : x = s[i]
  BY <1>1, <1>2 DEF ToSet
<1>5. ASSUME NEW i \in K PROVE s[i] \in ToSet(Picked(s, K))
  <2>1. PICK k \in 1..Cardinality(K) : Nth(K, k) = i
    BY <1>3
  <2> QED
    BY <1>1, <2>1 DEF ToSet
<1> QED
  BY <1>4, <1>5

-----------------------------------------------------------------------------
(* Order statistics.                                                           *)

Below(s, v) == {i \in DOMAIN s : s[i] < v}
NotAbove(s, v) == {i \in DOMAIN s : s[i] <= v}

\* Sets of positions and their sizes.
LEMMA PositionFacts ==
  ASSUME NEW n \in Nat, NEW s \in [1..n -> Int]
  PROVE  /\ \A v : /\ IsFiniteSet(Below(s, v)) /\ Cardinality(Below(s, v)) \in Nat
                   /\ IsFiniteSet(NotAbove(s, v)) /\ Cardinality(NotAbove(s, v)) \in Nat
         /\ \A v, w : (\A i \in NotAbove(s, w) : i \in Below(s, v)) => Cardinality(NotAbove(s, w)) <= Cardinality(Below(s, v))
         /\ \A v, w : (\A i \in Below(s, v) : i \in NotAbove(s, w)) => Cardinality(Below(s, v)) <= Cardinality(NotAbove(s, w))
         /\ \A v : v \in Int => Cardinality(Below(s, v)) <= Cardinality(NotAbove(s, v))
         /\ \A v, i : i \in NotAbove(s, v) /\ v \in Int /\ ~(i \in Below(s, v)) => Cardinality(Below(s, v)) < Cardinality(NotAbove(s, v))
<1>1. IsFiniteSet(1..n)
  BY FS_Interval
<1>2. \A v : Below(s, v) \in SUBSET (1..n) /\ NotAbove(s, v) \in SUBSET (1..n)
  BY DEF Below, NotAbove
<1>3. \A v \in Int : Below(s, v) \in SUBSET NotAbove(s, v)
  BY DEF Below, NotAbove
<1>4. \A v : /\ IsFiniteSet(Below(s, v)) /\ Cardinality(Below(s, v)) \in Nat
             /\ IsFiniteSet(NotAbove(s, v)) /\ Cardinality(NotAbove(s, v)) \in Nat
  BY <1>1, <1>2, FS_Subset, FS_CardinalityType
<1>5. \A v, w : (\A i \in NotAbove(s, w) : i \in Below(s, v)) => Cardinality(NotAbove(s, w)) <= Cardinality(Below(s, v))
  <2> SUFFICES ASSUME NEW v, NEW w, NotAbove(s, w) \in SUBSET Below(s, v) PROVE Cardinality(NotAbove(s, w)) <= Cardinality(Below(s, v))
    OBVIOUS
  <2> QED
    BY <1>4, FS_Subset
<1>6. \A v, w : (\A i \in Below(s, v) : i \in NotAbove(s, w)) => Cardinality(Below(s, v)) <= Cardinality(NotAbove(s, w))
  <2> SUFFICES ASSUME NEW v, NEW w, Below(s, v) \in SUBSET NotAbove(s, w) PROVE Cardinality(Below(s, v)) <= Cardinality(NotAbove(s, w))
    OBVIOUS
  <2> QED
    BY <1>4, FS_Subset
<1>7. ASSUME NEW v \in Int, NEW i \in NotAbove(s, v), ~(i \in Below(s, v)) PROVE Cardinality(Below(s, v)) < Cardinality(NotAbove(s, v))
  <2>1. /\ Cardinality(Below(s, v)) <= Cardinality(NotAbove(s, v))
        /\ Cardinality(Below(s, v)) = Cardinality(NotAbove(s, v)) => Below(s, v) = NotAbove(s, v)
    BY <1>3, <1>4, FS_Subset
  <2>2. Below(s, v) # NotAbove(s, v)
    BY <1>7
  <2> QED
    BY <1>4, <2>1, <2>2
<1> QED
  BY <1>3, <1>4, <1>5, <1>6, <1>7

\* The k-th smallest value is one of the values; fewer than k are below it, k or more not above.
LEMMA OrderedFacts ==
  ASSUME NEW n \in Nat, NEW s \in [1..n -> Int], NEW k \in 1..n
  PROVE  /\ Ordered(s)[k] \in ToSet(s)
         /\ Ordered(s)[k] \in Int
         /\ Cardinality(Below(s, Ordered(s)[k])) < k
         /\ k <= Cardinality(NotAbove(s, Ordered(s)[k]))
<1> DEFINE V == {v \in ToSet(s) : k <= Cardinality(NotAbove(s, v))}
<1>1. /\ \A v : /\ IsFiniteSet(Below(s, v)) /\ Cardinality(Below(s, v)) \in Nat
                /\ IsFiniteSet(NotAbove(s, v)) /\ Cardinality(NotAbove(s, v)) \in Nat
  BY PositionFacts
<1>2. ToSet(s) \subseteq Int /\ \A i \in 1..n : s[i] \in ToSet(s)
  BY DEF ToSet
<1>3. \A K \in SUBSET (1..n) : K # {} => \E i \in K : \A j \in K : s[j] <= s[i]
  <2> SUFFICES ASSUME NEW K \in SUBSET (1..n), K # {} PROVE \E i \in K : \A j \in K : s[j] <= s[i]
    OBVIOUS
  <2> DEFINE W == {s[i] : i \in K}
             f == [i \in K |-> s[i]]
  <2>1. IsFiniteSet(K)
    <3>1. IsFiniteSet(1..n)
      BY FS_Interval
    <3> QED
      BY <3>1, FS_Subset
  <2>2. f \in [K -> W] /\ (\A y \in W : \E x \in K : f[x] = y) /\ W # {} /\ \A x \in W : x \in Int
    OBVIOUS
  <2>3. \A i \in K : s[i] \in W
    OBVIOUS
  <2>4. \A w \in W : \E i \in K : s[i] = w
    OBVIOUS
  <2> HIDE DEF W, f
  <2>5. IsFiniteSet(W)
    BY <2>1, <2>2, ImageIsFinite
  <2>6. PICK m \in W : \A x \in W : x <= m
    BY <2>2, <2>5, GreatestInt
  <2>7. PICK i \in K : s[i] = m
    BY <2>4
  <2> QED
    BY <2>3, <2>6, <2>7
<1>4. V # {}
  <2>1. PICK i \in 1..n : \A j \in 1..n : s[j] <= s[i]
    BY <1>3
  <2>2. NotAbove(s, s[i]) = 1..n
    BY <2>1 DEF NotAbove
  <2>3. Cardinality(NotAbove(s, s[i])) = n
    BY <2>2, FS_Interval
  <2> QED
    BY <1>2, <2>3
<1>5. PICK v \in V : \A w \in V : Cardinality(NotAbove(s, v)) <= Cardinality(NotAbove(s, w))
  <2> DEFINE C == {Cardinality(NotAbove(s, w)) : w \in V}
  <2>1. C \subseteq Nat /\ C # {}
    BY <1>1, <1>4
  <2>2. \A c \in C : \E w \in V : c = Cardinality(NotAbove(s, w))
    OBVIOUS
  <2>3. \A w \in V : Cardinality(NotAbove(s, w)) \in C
    OBVIOUS
  <2> HIDE DEF C, V
  <2>4. PICK c \in C : \A d \in C : c <= d
    BY <2>1, LeastNumber
  <2> QED
    BY <2>2, <2>3, <2>4
<1>6. v \in ToSet(s) /\ v \in Int /\ k <= Cardinality(NotAbove(s, v))
  BY <1>2
<1>7. Cardinality(Below(s, v)) < k
  <2> SUFFICES ASSUME k <= Cardinality(Below(s, v)) PROVE FALSE
    BY <1>1
  <2>1. Below(s, v) # {}
    BY <1>1, FS_EmptySet
  <2>2. Below(s, v) \in SUBSET (1..n)
    BY DEF Below
  <2>3. PICK i \in Below(s, v) : \A j \in Below(s, v) : s[j] <= s[i]
    BY <1>3, <2>1, <2>2
  <2>4. \A j \in Below(s, v) : j \in NotAbove(s, s[i])
    BY <2>3 DEF Below, NotAbove
  <2>5. Cardinality(Below(s, v)) <= Cardinality(NotAbove(s, s[i]))
    BY <2>4, PositionFacts
  <2>6. \A j \in NotAbove(s, s[i]) : j \in Below(s, v)
    BY <1>6, <2>3 DEF Below, NotAbove
  <2>7. Cardinality(NotAbove(s, s[i])) <= Cardinality(Below(s, v))
    BY <2>6, PositionFacts
  <2>8. s[i] \in V
    BY <1>1, <1>2, <2>2, <2>3, <2>5
  <2>9. PICK j \in 1..n : s[j] = v
    BY <1>6 DEF ToSet
  <2>10. j \in NotAbove(s, v) /\ ~(j \in Below(s, v))
    BY <1>6, <2>9 DEF Below, NotAbove
  <2>11. Cardinality(Below(s, v)) < Cardinality(NotAbove(s, v))
    BY <1>6, <2>10, PositionFacts
  <2>12. Cardinality(NotAbove(s, v)) <= Cardinality(NotAbove(s, s[i]))
    BY <1>5, <2>8
  <2> QED
    BY <1>1, <2>7, <2>11, <2>12
<1>8. Ordered(s)[k] = CHOOSE w \in ToSet(s) : Cardinality(Below(s, w)) < k /\ k <= Cardinality(NotAbove(s, w))
  <2>1. Len(s) = n
    OBVIOUS
  <2> QED
    BY <2>1 DEF Ordered, Count, Below, NotAbove
<1> HIDE DEF V
<1> QED
  BY <1>2, <1>6, <1>7, <1>8

\* The values stand in their order.
LEMMA OrderedAscends ==
  ASSUME NEW n \in Nat, NEW s \in [1..n -> Int], NEW k \in 1..n, NEW m \in 1..n, k <= m
  PROVE  Ordered(s)[k] <= Ordered(s)[m]
<1> DEFINE v == Ordered(s)[k]
           w == Ordered(s)[m]
<1>1. v \in Int /\ Cardinality(Below(s, v)) < k
  BY OrderedFacts
<1>2. w \in Int /\ m <= Cardinality(NotAbove(s, w))
  BY OrderedFacts
<1> HIDE DEF v, w
<1>3. SUFFICES ASSUME w < v PROVE FALSE
  BY <1>1, <1>2 DEF v, w
<1>4. \A i \in NotAbove(s, w) : i \in Below(s, v)
  BY <1>1, <1>2, <1>3 DEF NotAbove, Below
<1>5. Cardinality(NotAbove(s, w)) <= Cardinality(Below(s, v))
  BY <1>4, PositionFacts
<1>6. Cardinality(NotAbove(s, w)) \in Nat /\ Cardinality(Below(s, v)) \in Nat
  BY PositionFacts
<1> QED
  BY <1>1, <1>2, <1>5, <1>6

-----------------------------------------------------------------------------
(* Spread and roots.                                                           *)

Squares(s) == [i \in DOMAIN s |-> s[i] * s[i]]

\* The sum of the squared distances of the first k values from x.
Distance(s, x, k) == SumFunctionOnSet(Squares(s), 1..k) - 2 * (x * SumFunctionOnSet(s, 1..k)) + k * (x * x)

\* One more value adds its squared distance from x.
LEMMA DistanceGrows ==
  ASSUME NEW Q \in Int, NEW T \in Int, NEW x \in Int, NEW y \in Int, NEW k \in Int
  PROVE  (Q + y * y) - 2 * (x * (T + y)) + (k + 1) * (x * x)
           = (Q - 2 * (x * T) + k * (x * x)) + (y - x) * (y - x)
  OBVIOUS

\* One more value adds to the spread its squared distances from the values before it.
LEMMA SpreadGrows ==
  ASSUME NEW Q \in Int, NEW T \in Int, NEW y \in Int, NEW k \in Int
  PROVE  (k + 1) * (Q + y * y) - (T + y) * (T + y) = (k * Q - T * T) + (Q - 2 * (y * T) + k * (y * y))
  OBVIOUS

\* A square is never negative, and 0 only for 0.
LEMMA SquareIsNatural ==
  ASSUME NEW x \in Int
  PROVE  x * x \in Int /\ x * x >= 0 /\ (x * x = 0 => x = 0)
  OBVIOUS

\* The squared distances of a sample from x are never negative, and 0 only for a constant sample.
LEMMA DistanceFacts ==
  ASSUME NEW n \in Nat, NEW s \in [1..n -> Int], NEW x \in Int, NEW k \in 0..n
  PROVE  /\ SumFunctionOnSet(s, 1..k) \in Int /\ SumFunctionOnSet(Squares(s), 1..k) \in Int
         /\ Distance(s, x, k) \in Int /\ Distance(s, x, k) >= 0
         /\ Distance(s, x, k) = 0 => \A i \in 1..k : s[i] = x
<1> DEFINE q == Squares(s)
           T(j) == SumFunctionOnSet(s, 1..j)
           Q(j) == SumFunctionOnSet(q, 1..j)
           E(j) == Q(j) - 2 * (x * T(j)) + j * (x * x)
           Good(j) == T(j) \in Int /\ Q(j) \in Int /\ E(j) \in Int /\ E(j) >= 0 /\ (E(j) = 0 => \A i \in 1..j : s[i] = x)
           N == {j \in Nat : j <= n => Good(j)}
<1>1. \A i \in 1..n : s[i] \in Int /\ q[i] = s[i] * s[i] /\ q[i] \in Int
  BY DEF Squares
<1> HIDE DEF q
<1>2. 0 \in N
  <2>1. 1..0 = {} /\ SumFunctionOnSet(s, {}) = 0 /\ SumFunctionOnSet(q, {}) = 0
    BY FS_EmptySet, SumSplits
  <2>2. T(0) = 0 /\ Q(0) = 0
    BY <2>1
  <2>3. x * x \in Int /\ x * 0 = 0
    OBVIOUS
  <2> HIDE DEF T, Q
  <2> QED
    BY <2>2, <2>3
<1>3. ASSUME NEW j \in N PROVE j + 1 \in N
  <2> SUFFICES ASSUME j + 1 <= n PROVE Good(j + 1)
    OBVIOUS
  <2>1. j \in Nat /\ j + 1 \in 1..n /\ Good(j) /\ \A i \in 1..(j + 1) : i \in 1..n
    OBVIOUS
  <2> DEFINE y == s[j + 1]
  <2>2. y \in Int /\ q[j + 1] = y * y
    BY <1>1, <2>1
  <2>3. T(j + 1) = y + T(j) /\ T(j) \in Int
    BY <1>1, <2>1, SumNext
  <2>4. Q(j + 1) = q[j + 1] + Q(j) /\ Q(j) \in Int
    BY <1>1, <2>1, SumNext
  <2> DEFINE t == T(j)
             u == Q(j)
             e == E(j)
  <2>5. e = u - 2 * (x * t) + j * (x * x) /\ e \in Int /\ e >= 0 /\ (e = 0 => \A i \in 1..j : s[i] = x)
    BY <2>1
  <2>6. T(j + 1) = t + y /\ Q(j + 1) = u + y * y /\ t \in Int /\ u \in Int
    <3> HIDE DEF T, Q, y
    <3> QED
      <4> HIDE DEF t, u
      <4>1. t \in Int /\ u \in Int
        BY ONLY <2>3, <2>4 DEF t, u
      <4>2. T(j + 1) = t + y
        BY ONLY <2>2, <2>3, <4>1 DEF t
      <4>3. Q(j + 1) = u + y * y
        BY ONLY <2>2, <2>4 DEF u
      <4> QED
        BY ONLY <4>1, <4>2, <4>3
  <2> HIDE DEF t, u, e, y
  <2>7. E(j + 1) = (u + y * y) - 2 * (x * (t + y)) + (j + 1) * (x * x)
    <3> HIDE DEF T, Q
    <3> QED
      BY <2>6
  <2> HIDE DEF E, T, Q
  <2>8. E(j + 1) = (u - 2 * (x * t) + j * (x * x)) + (y - x) * (y - x)
    BY <2>1, <2>2, <2>6, <2>7, DistanceGrows
  <2> DEFINE d == y - x
             dd == d * d
  <2>9. E(j + 1) = e + dd
    BY <2>5, <2>8
  <2>10. d \in Int
    BY <2>2
  <2>11. dd \in Int /\ dd >= 0 /\ (dd = 0 => d = 0)
    <3> HIDE DEF d
    <3> QED
      BY <2>10, SquareIsNatural
  <2> HIDE DEF dd
  <2>12. E(j + 1) \in Int /\ E(j + 1) >= 0 /\ (E(j + 1) = 0 => e = 0 /\ dd = 0)
    BY <2>5, <2>9, <2>11
  <2>13. E(j + 1) = 0 => \A i \in 1..(j + 1) : s[i] = x
    <3> SUFFICES ASSUME E(j + 1) = 0, NEW i \in 1..(j + 1) PROVE s[i] = x
      OBVIOUS
    <3>1. e = 0 /\ d = 0
      BY <2>11, <2>12
    <3>2. y = x
      BY <2>2, <3>1
    <3>3. i \in 1..j \/ i = j + 1
      BY <2>1
    <3> QED
      BY <2>5, <3>1, <3>2, <3>3 DEF y
  <2>14. T(j + 1) \in Int /\ Q(j + 1) \in Int
    <3>1. y * y \in Int
      BY <2>2
    <3> QED
      BY <2>2, <2>6, <3>1
  <2> QED
    BY <2>12, <2>13, <2>14
<1>4. N = Nat
  <2>1. N \subseteq Nat
    OBVIOUS
  <2> HIDE DEF N
  <2> QED
    BY <1>2, <1>3, <2>1, AllNumbers
<1>5. Good(k)
  <2> HIDE DEF Good
  <2> QED
    BY <1>4
<1> QED
  BY <1>5 DEF q, Distance

\* The spread of a sample is never negative, and 0 exactly for a constant sample.
LEMMA SpreadFacts ==
  ASSUME NEW n \in Nat, NEW s \in [1..n -> Int]
  PROVE  /\ Total(s) \in Int /\ Total(s) = SumFunctionOnSet(s, 1..n)
         /\ Spread(s) \in Int /\ Spread(s) >= 0
         /\ Spread(s) = 0 <=> \A i, j \in 1..n : s[i] = s[j]
<1> DEFINE q == Squares(s)
           T(j) == SumFunctionOnSet(s, 1..j)
           Q(j) == SumFunctionOnSet(q, 1..j)
           D(j) == j * Q(j) - T(j) * T(j)
           Good(j) == D(j) \in Int /\ D(j) >= 0 /\ (D(j) = 0 => \A a, b \in 1..j : s[a] = s[b])
           N == {j \in Nat : j <= n => Good(j)}
<1>1. \A i \in 1..n : s[i] \in Int /\ q[i] = s[i] * s[i] /\ q[i] \in Int
  BY DEF Squares
<1>2. Total(s) = T(n) /\ DOMAIN s = 1..n /\ Len(s) = n
  BY DEF Total, SumFunction
<1>3. Spread(s) = D(n)
  <2>1. [i \in DOMAIN s |-> s[i] * s[i]] = q /\ DOMAIN q = 1..n
    BY DEF Squares
  <2>2. Total(q) = Q(n)
    <3> HIDE DEF q
    <3> QED
      BY <2>1 DEF Total, SumFunction
  <2> HIDE DEF q
  <2> QED
    BY <1>2, <2>1, <2>2 DEF Spread
<1> HIDE DEF q
<1>4. 0 \in N
  <2>1. 1..0 = {} /\ SumFunctionOnSet(s, {}) = 0 /\ SumFunctionOnSet(q, {}) = 0
    BY FS_EmptySet, SumSplits
  <2>2. T(0) = 0 /\ Q(0) = 0
    BY <2>1
  <2> HIDE DEF T, Q
  <2> QED
    BY <2>2
<1>5. ASSUME NEW j \in N PROVE j + 1 \in N
  <2> SUFFICES ASSUME j + 1 <= n PROVE Good(j + 1)
    OBVIOUS
  <2>1. j \in Nat /\ j \in 0..n /\ j + 1 \in 1..n /\ Good(j) /\ \A i \in 1..(j + 1) : i \in 1..n
    OBVIOUS
  <2> DEFINE y == s[j + 1]
  <2>2. y \in Int /\ q[j + 1] = y * y
    BY <1>1, <2>1
  <2>3. T(j + 1) = y + T(j) /\ T(j) \in Int
    BY <1>1, <2>1, SumNext
  <2>4. Q(j + 1) = q[j + 1] + Q(j) /\ Q(j) \in Int
    BY <1>1, <2>1, SumNext
  <2> DEFINE t == T(j)
             u == Q(j)
             e == u - 2 * (y * t) + j * (y * y)
  <2>5. e \in Int /\ e >= 0 /\ (e = 0 => \A i \in 1..j : s[i] = y)
    <3> HIDE DEF y
    <3>1. y \in Int /\ j \in 0..n /\ n \in Nat /\ s \in [1..n -> Int]
      BY <2>1, <2>2
    <3>2. Distance(s, y, j) \in Int /\ Distance(s, y, j) >= 0 /\ (Distance(s, y, j) = 0 => \A i \in 1..j : s[i] = y)
      BY ONLY <3>1, DistanceFacts
    <3>3. e = Distance(s, y, j)
      BY DEF q, Distance
    <3> HIDE DEF e
    <3> QED
      BY <3>2, <3>3
  <2>6. T(j + 1) = t + y /\ Q(j + 1) = u + y * y /\ t \in Int /\ u \in Int
    <3> HIDE DEF T, Q, y
    <3> QED
      BY <2>2, <2>3, <2>4
  <2>7. D(j) = j * u - t * t /\ D(j) \in Int /\ D(j) >= 0
    BY <2>1
  <2> HIDE DEF t, u, y
  <2>8. D(j + 1) = (j + 1) * (u + y * y) - (t + y) * (t + y)
    <3> HIDE DEF T, Q
    <3> QED
      BY <2>6
  <2> HIDE DEF D, T, Q
  <2>9. D(j + 1) = D(j) + e
    BY <2>1, <2>2, <2>6, <2>7, <2>8, SpreadGrows
  <2> HIDE DEF e
  <2>10. D(j + 1) \in Int /\ D(j + 1) >= 0 /\ (D(j + 1) = 0 => e = 0)
    BY <2>5, <2>7, <2>9
  <2>11. D(j + 1) = 0 => \A a \in 1..(j + 1) : s[a] = y
    <3> SUFFICES ASSUME D(j + 1) = 0, NEW a \in 1..(j + 1) PROVE s[a] = y
      OBVIOUS
    <3>1. a \in 1..j \/ a = j + 1
      BY <2>1
    <3> QED
      BY <2>5, <2>10, <3>1 DEF y
  <2> QED
    BY <2>10, <2>11
<1>6. N = Nat
  <2>1. N \subseteq Nat
    OBVIOUS
  <2> HIDE DEF N
  <2> QED
    BY <1>4, <1>5, <2>1, AllNumbers
<1>7. Good(n)
  <2> HIDE DEF Good
  <2> QED
    BY <1>6
<1>8. ASSUME \A i, j \in 1..n : s[i] = s[j] PROVE D(n) = 0
  <2>1. CASE n = 0
    <3>1. 1..0 = {} /\ SumFunctionOnSet(s, {}) = 0 /\ SumFunctionOnSet(q, {}) = 0
      BY FS_EmptySet, SumSplits
    <3>2. T(n) = 0 /\ Q(n) = 0
      BY <2>1, <3>1
    <3> HIDE DEF T, Q
    <3> QED
      BY <2>1, <3>2
  <2>2. CASE n > 0
    <3> DEFINE c == s[1]
    <3>1. 1 \in 1..n /\ c \in Int
      BY <2>2
    <3>2. \A i \in 1..n : s[i] = c
      BY <1>8, <3>1
    <3>3. \A i \in 1..n : q[i] = c * c
      BY <1>1, <3>2
    <3> HIDE DEF c
    <3> DEFINE cc == c * c
    <3>4. cc \in Int
      BY <3>1
    <3>5. T(n) = n * c
      BY <3>1, <3>2, SumOfEquals
    <3>6. Q(n) = n * cc
      <4>1. \A i \in 1..n : q[i] = cc
        BY <3>3
      <4> HIDE DEF cc
      <4> QED
        BY <3>4, <4>1, SumOfEquals
    <3> HIDE DEF T, Q
    <3>7. n * (n * (c * c)) = (n * c) * (n * c)
      BY <3>1
    <3>8. D(n) = n * (n * (c * c)) - (n * c) * (n * c)
      BY <3>5, <3>6
    <3> DEFINE a == (n * c) * (n * c)
    <3>9. a \in Int
      BY <3>1
    <3>10. D(n) = a - a
      BY <3>7, <3>8
    <3> HIDE DEF a
    <3> QED
      BY <3>9, <3>10
  <2> QED
    BY <2>1, <2>2
<1>9. T(n) \in Int
  BY DistanceFacts
<1> HIDE DEF D, T
<1> QED
  BY <1>2, <1>3, <1>7, <1>8, <1>9 DEF T

\* Every number has a whole root.
LEMMA RootFacts ==
  ASSUME NEW x \in Nat
  PROVE  Root(x) \in 0..x /\ Root(x) * Root(x) <= x
<1> DEFINE S == {r \in 0..x : r * r <= x}
<1>1. IsFiniteSet(S) /\ (\A r \in S : r \in Int) /\ S # {}
  <2>1. IsFiniteSet(0..x) /\ S \in SUBSET (0..x)
    BY FS_Interval
  <2>2. IsFiniteSet(S)
    <3> DEFINE I == 0..x
    <3>1. IsFiniteSet(I) /\ S \in SUBSET I
      BY <2>1
    <3> HIDE DEF I, S
    <3> QED
      BY <3>1, FS_Subset
  <2>3. 0 \in S
    OBVIOUS
  <2> QED
    BY <2>2, <2>3
<1>2. PICK m \in S : \A r \in S : r <= m
  <2> HIDE DEF S
  <2> QED
    BY <1>1, GreatestInt
<1>3. m \in 0..x /\ m * m <= x
  OBVIOUS
<1>4. (m + 1) * (m + 1) > x
  <2> SUFFICES ASSUME ~((m + 1) * (m + 1) > x) PROVE FALSE
    OBVIOUS
  <2> DEFINE p == (m + 1) * (m + 1)
  <2>1. p \in Nat /\ p <= x /\ m + 1 <= p
    BY <1>3
  <2>2. m + 1 \in S
    BY <1>3, <2>1
  <2> QED
    BY <1>2, <1>3, <2>2
<1>5. \E r \in 0..x : r * r <= x /\ (r + 1) * (r + 1) > x
  BY <1>3, <1>4
<1> QED
  BY <1>5 DEF Root

-----------------------------------------------------------------------------
(* Quantiles.                                                                  *)

\* The first and the last in order bound the sample.
LEMMA OrderedBounds ==
  ASSUME NEW n \in Nat, n > 0, NEW s \in [1..n -> Int]
  PROVE  /\ \A i \in 1..n : Ordered(s)[1] <= s[i] /\ s[i] <= Ordered(s)[n]
         /\ Min(ToSet(s)) = Ordered(s)[1] /\ Max(ToSet(s)) = Ordered(s)[n]
<1> DEFINE a == Ordered(s)[1]
           b == Ordered(s)[n]
<1>0. 1 \in 1..n /\ n \in 1..n
  OBVIOUS
<1>1. a \in ToSet(s) /\ a \in Int /\ Cardinality(Below(s, a)) < 1
  BY <1>0, OrderedFacts
<1>2. b \in ToSet(s) /\ b \in Int /\ n <= Cardinality(NotAbove(s, b))
  BY <1>0, OrderedFacts
<1> HIDE DEF a, b
<1>3. IsFiniteSet(Below(s, a)) /\ Cardinality(Below(s, a)) \in Nat /\ Cardinality(NotAbove(s, b)) \in Nat
  BY PositionFacts
<1>4. Below(s, a) = {}
  BY <1>1, <1>3, FS_EmptySet
<1>5. \A i \in 1..n : a <= s[i]
  <2> SUFFICES ASSUME NEW i \in 1..n, s[i] < a PROVE FALSE
    BY <1>1
  <2> QED
    BY <1>4 DEF Below
<1>6. NotAbove(s, b) = 1..n
  <2> DEFINE S == 1..n
             T == NotAbove(s, b)
  <2>1. IsFiniteSet(S) /\ Cardinality(S) = n
    BY FS_Interval
  <2>2. T \in SUBSET S
    BY DEF NotAbove
  <2> HIDE DEF S
  <2>3. Cardinality(T) <= Cardinality(S)
    BY <2>1, <2>2, FS_Subset
  <2>4. Cardinality(T) = Cardinality(S)
    BY <1>2, <1>3, <2>1, <2>3
  <2> HIDE DEF T
  <2>5. T = S
    BY <2>1, <2>2, <2>4, FS_Subset
  <2> QED
    BY <2>5 DEF S, T
<1>7. \A i \in 1..n : s[i] <= b
  BY <1>6 DEF NotAbove
<1>8. \A x \in ToSet(s) : x \in Int /\ a <= x /\ x <= b
  BY <1>5, <1>7 DEF ToSet
<1>9. Min(ToSet(s)) = a
  <2>1. \A x \in ToSet(s) : (\A y \in ToSet(s) : x <= y) => x = a
    BY <1>1, <1>8
  <2> QED
    BY <1>1, <1>8, <2>1 DEF Min
<1>10. Max(ToSet(s)) = b
  <2>1. \A x \in ToSet(s) : (\A y \in ToSet(s) : x >= y) => x = b
    BY <1>2, <1>8
  <2>2. \A y \in ToSet(s) : b >= y
    BY <1>2, <1>8
  <2> QED
    BY <1>2, <2>1, <2>2 DEF Max
<1> QED
  BY <1>5, <1>7, <1>9, <1>10 DEF a, b

\* The order statistics a quantile lies between, and how far it is from the first to the second.
LowerAt(n, p) == (p * (n - 1)) \div 100 + 1
UpperAt(n, p) == Least(LowerAt(n, p) + 1, n)
Between(n, p) == (p * (n - 1)) % 100

\* A quantile lies between the two order statistics it interpolates.
LEMMA QuantileFacts ==
  ASSUME NEW n \in Nat, n > 0, NEW s \in [1..n -> Int], NEW p \in 0..100
  PROVE  /\ LowerAt(n, p) \in 1..n /\ UpperAt(n, p) \in 1..n /\ LowerAt(n, p) <= UpperAt(n, p) /\ Between(n, p) \in 0..99
         /\ Ordered(s)[LowerAt(n, p)] \in Int /\ Ordered(s)[UpperAt(n, p)] \in Int
         /\ Quantile100(s, p) = 100 * Ordered(s)[LowerAt(n, p)]
                                  + Between(n, p) * (Ordered(s)[UpperAt(n, p)] - Ordered(s)[LowerAt(n, p)])
         /\ Quantile100(s, p) \in Int
         /\ 100 * Ordered(s)[LowerAt(n, p)] <= Quantile100(s, p)
         /\ Quantile100(s, p) <= 100 * Ordered(s)[UpperAt(n, p)]
<1> DEFINE pos == p * (n - 1)
           lo == LowerAt(n, p)
           hi == UpperAt(n, p)
           r == Between(n, p)
           x == Ordered(s)[lo]
           y == Ordered(s)[hi]
<1>1. pos \in Nat /\ pos <= 100 * (n - 1)
  OBVIOUS
<1>2. lo \in 1..n /\ r \in 0..99
  <2>1. lo = pos \div 100 + 1 /\ r = pos % 100
    BY DEF LowerAt, Between
  <2> HIDE DEF pos, lo, r
  <2> QED
    BY <1>1, <2>1
<1>3. hi \in 1..n /\ lo <= hi
  <2> HIDE DEF lo
  <2> QED
    BY <1>2 DEF UpperAt, Least, lo
<1>4. Quantile100(s, p) = 100 * x + r * (y - x)
  <2> DEFINE O == Ordered(s)
             m == Len(s)
  <2> HIDE DEF O, m
  <2>1. Quantile100(s, p) = 100 * O[LowerAt(m, p)] + Between(m, p) * (O[UpperAt(m, p)] - O[LowerAt(m, p)])
    BY DEF Quantile100, LowerAt, UpperAt, Between, O, m
  <2>2. m = n
    BY DEF m
  <2> QED
    BY <2>1, <2>2, Zenon DEF O
<1>5. x \in Int /\ y \in Int
  <2> HIDE DEF lo, hi
  <2> QED
    BY <1>2, <1>3, OrderedFacts
<1>6. x <= y
  <2> HIDE DEF lo, hi
  <2> QED
    BY <1>2, <1>3, OrderedAscends
<1>7. /\ 100 * x + r * (y - x) \in Int /\ 100 * x <= 100 * x + r * (y - x) /\ 100 * x + r * (y - x) <= 100 * y
  <2> DEFINE d == y - x
             m == r * d
  <2> HIDE DEF x, y, r
  <2>1. d \in Nat
    BY <1>5, <1>6
  <2> HIDE DEF d
  <2>2. m \in Nat /\ m <= 100 * d
    BY <1>2, <2>1
  <2>3. y = x + d
    BY <1>5 DEF d
  <2> HIDE DEF m
  <2>4. 100 * x + m \in Int /\ 100 * x <= 100 * x + m /\ 100 * x + m <= 100 * y
    BY <1>5, <2>1, <2>2, <2>3
  <2> QED
    BY <2>4 DEF m, d
<1> HIDE DEF x, y, lo, hi, r
<1>8. /\ Quantile100(s, p) \in Int
      /\ 100 * x <= Quantile100(s, p) /\ Quantile100(s, p) <= 100 * y
  BY <1>4, <1>7
<1> QED
  BY <1>2, <1>3, <1>4, <1>5, <1>8 DEF x, y, lo, hi, r

\* A higher quantile is not lower.
LEMMA QuantilesAscend ==
  ASSUME NEW n \in Nat, n > 0, NEW s \in [1..n -> Int], NEW p \in 0..100, NEW q \in 0..100, p <= q
  PROVE  Quantile100(s, p) <= Quantile100(s, q)
<1> DEFINE o == Ordered(s)
           x == o[LowerAt(n, p)]
           y == o[UpperAt(n, p)]
           u == o[LowerAt(n, q)]
           v == o[UpperAt(n, q)]
           Qp == Quantile100(s, p)
           Qq == Quantile100(s, q)
           r == Between(n, p)
           t == Between(n, q)
<1>1. /\ LowerAt(n, p) \in 1..n /\ UpperAt(n, p) \in 1..n /\ r \in 0..99
      /\ x \in Int /\ y \in Int
      /\ Qp = 100 * x + r * (y - x) /\ Qp \in Int /\ Qp <= 100 * y
  BY QuantileFacts
<1>2. /\ LowerAt(n, q) \in 1..n /\ UpperAt(n, q) \in 1..n /\ t \in 0..99 /\ LowerAt(n, q) <= UpperAt(n, q)
      /\ u \in Int /\ v \in Int
      /\ Qq = 100 * u + t * (v - u) /\ Qq \in Int /\ 100 * u <= Qq
  BY QuantileFacts
<1>3. \/ LowerAt(n, p) < LowerAt(n, q)
      \/ LowerAt(n, p) = LowerAt(n, q) /\ r <= t
  <2> DEFINE a == p * (n - 1)
             b == q * (n - 1)
  <2>1. a \in Nat /\ b \in Nat /\ a <= b
    <3> DEFINE m == n - 1
               e == q - p
    <3>1. m \in Nat /\ e \in Nat /\ q = p + e
      OBVIOUS
    <3> HIDE DEF m, e
    <3>2. p * m \in Nat /\ e * m \in Nat
      BY <3>1
    <3>3. (p + e) * m = p * m + e * m
      BY <3>1
    <3>4. p * m \in Nat /\ q * m \in Nat /\ p * m <= q * m
      <4> DEFINE f == p * m
                 g == e * m
      <4>1. q * m = f + g /\ f \in Nat /\ g \in Nat
        BY <3>1, <3>2, <3>3
      <4> HIDE DEF f, g
      <4>2. q * m \in Nat /\ f <= q * m
        BY <4>1
      <4> QED
        BY <3>2, <4>2 DEF f
    <3> QED
      BY <3>4 DEF m
  <2>2. /\ LowerAt(n, p) = a \div 100 + 1 /\ LowerAt(n, q) = b \div 100 + 1
        /\ r = a % 100 /\ t = b % 100
    BY DEF LowerAt, Between
  <2> HIDE DEF a, b, r, t
  <2> QED
    BY <2>1, <2>2
<1>4. CASE LowerAt(n, p) < LowerAt(n, q)
  <2>1. UpperAt(n, p) <= LowerAt(n, q)
    <3> DEFINE i == LowerAt(n, p)
               j == LowerAt(n, q)
    <3>1. i \in 1..n /\ j \in 1..n /\ i < j
      BY <1>1, <1>2, <1>4
    <3> HIDE DEF i, j
    <3>2. (IF i + 1 < n THEN i + 1 ELSE n) <= j
      BY <3>1
    <3> QED
      BY <3>2, Zenon DEF UpperAt, Least, i, j
  <2>2. y <= u
    <3> DEFINE i == UpperAt(n, p)
               j == LowerAt(n, q)
    <3>1. i \in 1..n /\ j \in 1..n /\ i <= j
      <4> HIDE DEF x, y, u, v, r, t, Qp, Qq
      <4> QED
        BY <1>1, <1>2, <2>1
    <3> HIDE DEF i, j
    <3>2. Ordered(s)[i] <= Ordered(s)[j]
      BY <3>1, OrderedAscends
    <3> QED
      BY <3>2 DEF i, j
  <2> HIDE DEF x, y, u, v, r, t, Qp, Qq
  <2>3. Qp <= Qq
    BY <1>1, <1>2, <2>2
  <2> QED
    BY <2>3 DEF Qp, Qq
<1>5. CASE LowerAt(n, p) = LowerAt(n, q) /\ r <= t
  <2>1. UpperAt(n, p) = UpperAt(n, q)
    BY <1>5 DEF UpperAt
  <2>2. x = u /\ y = v
    BY <1>5, <2>1
  <2>3. x <= y
    <3> DEFINE i == LowerAt(n, q)
               j == UpperAt(n, q)
    <3>1. i \in 1..n /\ j \in 1..n /\ i <= j
      BY <1>2
    <3> HIDE DEF i, j
    <3>2. Ordered(s)[i] <= Ordered(s)[j]
      BY <3>1, OrderedAscends
    <3>3. u <= v
      BY <3>2 DEF i, j
    <3> HIDE DEF x, y, u, v
    <3> QED
      BY <2>2, <3>3
  <2> HIDE DEF x, y, u, v, r, t, Qp, Qq
  <2> DEFINE d == y - x
  <2>4. d \in Nat /\ d = v - u
    BY <1>1, <2>2, <2>3
  <2>5. Qp = 100 * x + r * d /\ Qq = 100 * x + t * d
    BY <1>1, <1>2, <2>2, <2>4
  <2> HIDE DEF d
  <2> DEFINE e == t - r
  <2>6. e \in Nat /\ t = r + e
    BY <1>1, <1>2, <1>5
  <2> HIDE DEF e
  <2> DEFINE f == r * d
             g == e * d
  <2>7. g \in Nat /\ f \in Int
    <3>1. r \in Nat /\ d \in Nat
      BY <1>1, <2>4
    <3> QED
      BY <2>6, <3>1
  <2>8. t * d = f + g
    <3>1. r \in Int /\ d \in Int /\ e \in Int
      BY <1>1, <2>4, <2>6
    <3>2. (r + e) * d = r * d + e * d
      BY <3>1
    <3> QED
      BY <2>6, <3>2
  <2> HIDE DEF f, g
  <2>9. Qp = 100 * x + f /\ Qq = 100 * x + (f + g)
    BY <2>5, <2>8 DEF f
  <2>10. Qp <= Qq
    BY <1>1, <2>7, <2>9
  <2> QED
    BY <2>10 DEF Qp, Qq
<1> QED
  BY <1>3, <1>4, <1>5

\* The smallest value, the median and the largest value are quantiles.
LEMMA QuantileLandmarks ==
  ASSUME NEW n \in Nat, n > 0, NEW s \in [1..n -> Int]
  PROVE  /\ Quantile100(s, 0) = 100 * Ordered(s)[1]
         /\ Quantile100(s, 50) = 50 * Median2(s) /\ Median2(s) \in Int
         /\ Quantile100(s, 100) = 100 * Ordered(s)[n]
<1> DEFINE o == Ordered(s)
<1>0. Len(s) = n
  OBVIOUS
<1>1. \A k \in 1..n : o[k] \in Int
  BY OrderedFacts
<1> HIDE DEF o
<1>6. \A p \in 0..100 : Quantile100(s, p) = 100 * o[LowerAt(n, p)] + Between(n, p) * (o[UpperAt(n, p)] - o[LowerAt(n, p)])
  BY QuantileFacts DEF o
<1>2. Quantile100(s, 0) = 100 * o[1]
  <2>1. LowerAt(n, 0) = 1 /\ Between(n, 0) = 0
    BY DEF LowerAt, Between
  <2>2. UpperAt(n, 0) \in 1..n
    BY QuantileFacts
  <2>3. Quantile100(s, 0) = 100 * o[1] + 0 * (o[UpperAt(n, 0)] - o[1])
    BY <1>6, <2>1
  <2>4. o[1] \in Int /\ o[UpperAt(n, 0)] \in Int
    BY <1>1, <2>2
  <2> QED
    BY <2>3, <2>4
<1>3. Quantile100(s, 100) = 100 * o[n]
  <2>1. LowerAt(n, 100) = n /\ Between(n, 100) = 0
    BY DEF LowerAt, Between
  <2>2. UpperAt(n, 100) \in 1..n
    BY QuantileFacts
  <2>3. Quantile100(s, 100) = 100 * o[n] + 0 * (o[UpperAt(n, 100)] - o[n])
    BY <1>6, <2>1
  <2>4. o[n] \in Int /\ o[UpperAt(n, 100)] \in Int
    BY <1>1, <2>2
  <2> QED
    BY <2>3, <2>4
<1>4. CASE n % 2 = 1
  <2> DEFINE m == n \div 2
  <2>1. m \in Nat /\ n = 2 * m + 1
    BY <1>4
  <2>2. LowerAt(n, 50) = m + 1 /\ Between(n, 50) = 0 /\ m + 1 \in 1..n
    <3> HIDE DEF m
    <3>1. 50 * (n - 1) = 100 * m
      BY <2>1
    <3> QED
      BY <2>1, <3>1 DEF LowerAt, Between
  <2>3. UpperAt(n, 50) \in 1..n
    BY QuantileFacts
  <2>4. Quantile100(s, 50) = 100 * o[m + 1] + 0 * (o[UpperAt(n, 50)] - o[m + 1])
    BY <1>6, <2>2
  <2>5. o[m + 1] \in Int /\ o[UpperAt(n, 50)] \in Int
    BY <1>1, <2>2, <2>3
  <2>6. Median2(s) = 2 * o[m + 1]
    BY <1>0, <1>4 DEF Median2, o
  <2> HIDE DEF m
  <2> QED
    BY <1>2, <1>3, <2>4, <2>5, <2>6 DEF o
<1>5. CASE n % 2 # 1
  <2> DEFINE m == n \div 2
  <2>1. m \in Nat /\ n = 2 * m /\ m > 0
    BY <1>5
  <2>2. LowerAt(n, 50) = m /\ Between(n, 50) = 50 /\ UpperAt(n, 50) = m + 1 /\ m \in 1..n /\ m + 1 \in 1..n
    <3> HIDE DEF m
    <3>1. 50 * (n - 1) = 100 * (m - 1) + 50
      BY <2>1
    <3>2. LowerAt(n, 50) = m /\ Between(n, 50) = 50
      BY <2>1, <3>1 DEF LowerAt, Between
    <3> QED
      BY <2>1, <3>2 DEF UpperAt, Least
  <2>3. Quantile100(s, 50) = 100 * o[m] + 50 * (o[m + 1] - o[m])
    BY <1>6, <2>2
  <2>4. o[m] \in Int /\ o[m + 1] \in Int
    BY <1>1, <2>2
  <2>5. Median2(s) = o[m] + o[m + 1]
    BY <1>0, <1>5 DEF Median2, o
  <2> HIDE DEF m
  <2> QED
    BY <1>2, <1>3, <2>3, <2>4, <2>5 DEF o
<1> QED
  BY <1>4, <1>5

-----------------------------------------------------------------------------
(* Bounds of a sample's statistics.                                            *)

\* A quotient is at least q when the dividend reaches q times the divisor.
LEMMA QuotientAtLeast ==
  ASSUME NEW x \in Int, NEW d \in Nat, d > 0, NEW q \in Int, q * d <= x
  PROVE  x \div d >= q
  BY Z3

\* A quotient is at most q when the dividend stays below q + 1 times the divisor.
LEMMA QuotientAtMost ==
  ASSUME NEW x \in Int, NEW d \in Nat, d > 0, NEW q \in Int, x < (q + 1) * d
  PROVE  x \div d <= q
  BY Z3

\* Nothing divided is nothing.
LEMMA NothingDivided ==
  ASSUME NEW d \in Nat, d > 0
  PROVE  0 \div d = 0
  BY Z3

\* The position of the nearest-rank percentile lies within the sample.
LEMMA NearestRankFacts ==
  ASSUME NEW n \in Nat, n > 0, NEW s \in [1..n -> Int], NEW p \in 0..100
  PROVE  \E k \in 1..n : NearestRank(s, p) = Ordered(s)[k]
<1> DEFINE r == (p * n + 99) \div 100
           k == Most(1, Least(n, r))
<1>1. Len(s) = n
  OBVIOUS
<1>2. r \in Int
  <2>1. p * n \in Int
    OBVIOUS
  <2> QED
    BY <2>1
<1>3. k \in 1..n
  <2> HIDE DEF r
  <2> QED
    BY <1>2 DEF Most, Least
<1>4. NearestRank(s, p) = Ordered(s)[k]
  BY <1>1 DEF NearestRank
<1> QED
  BY <1>3, <1>4

\* The first n values of s lie between a and b.
Within(s, n, a, b) == \A i \in 1..n : a <= s[i] /\ s[i] <= b

\* Values within bounds have their total, median and percentiles within them.
LEMMA SampleBounds ==
  ASSUME NEW n \in Nat, n > 0, NEW s \in [1..n -> Int], NEW a \in Int, NEW b \in Int, Within(s, n, a, b)
  PROVE  /\ Total(s) \in Int /\ n * a <= Total(s) /\ Total(s) <= n * b
         /\ \A k \in 1..n : Ordered(s)[k] \in Int /\ a <= Ordered(s)[k] /\ Ordered(s)[k] <= b
         /\ Median2(s) \in Int /\ 2 * a <= Median2(s) /\ Median2(s) <= 2 * b
         /\ \A p \in 0..100 : NearestRank(s, p) \in Int /\ a <= NearestRank(s, p) /\ NearestRank(s, p) <= b
<1> DEFINE S == 1..n
           o == Ordered(s)
           f == [i \in S |-> a]
           g == [i \in S |-> b]
<1>1. Total(s) \in Int /\ Total(s) = SumFunctionOnSet(s, S)
  BY SpreadFacts
<1>2. SumFunctionOnSet(f, S) = n * a /\ SumFunctionOnSet(g, S) = n * b
  <2>1. \A i \in 1..n : f[i] = a
    OBVIOUS
  <2>2. \A i \in 1..n : g[i] = b
    OBVIOUS
  <2> HIDE DEF f, g
  <2> QED
    BY <2>1, <2>2, SumOfEquals
<1>3. SumFunctionOnSet(f, S) <= SumFunctionOnSet(s, S) /\ SumFunctionOnSet(s, S) <= SumFunctionOnSet(g, S)
  <2>1. IsFiniteSet(S)
    BY FS_Interval
  <2>2. \A x \in S : f[x] \in Int /\ g[x] \in Int /\ s[x] \in Int /\ f[x] <= s[x] /\ s[x] <= g[x]
    BY DEF Within
  <2> HIDE DEF f, g, S
  <2> QED
    BY <2>1, <2>2, SumAtMost
<1>4. \A k \in 1..n : o[k] \in Int /\ a <= o[k] /\ o[k] <= b
  <2> TAKE k \in 1..n
  <2>1. o[k] \in ToSet(s) /\ o[k] \in Int
    BY OrderedFacts
  <2>2. PICK i \in 1..n : o[k] = s[i]
    <3> HIDE DEF o
    <3> QED
      BY <2>1 DEF ToSet
  <2> QED
    BY <2>1, <2>2 DEF Within
<1>5. Median2(s) \in Int /\ 2 * a <= Median2(s) /\ Median2(s) <= 2 * b
  <2>1. Median2(s) = IF n % 2 = 1 THEN 2 * o[n \div 2 + 1] ELSE o[n \div 2] + o[n \div 2 + 1]
    BY DEF Median2
  <2>2. /\ n % 2 = 1 => n \div 2 + 1 \in 1..n
        /\ n % 2 # 1 => n \div 2 \in 1..n /\ n \div 2 + 1 \in 1..n
    OBVIOUS
  <2> HIDE DEF o
  <2>3. CASE n % 2 = 1
    BY <2>1, <2>2, <2>3, <1>4
  <2>4. CASE n % 2 # 1
    <3>1. Median2(s) = o[n \div 2] + o[n \div 2 + 1]
      BY <2>1, <2>4
    <3>2. /\ o[n \div 2] \in Int /\ a <= o[n \div 2] /\ o[n \div 2] <= b
          /\ o[n \div 2 + 1] \in Int /\ a <= o[n \div 2 + 1] /\ o[n \div 2 + 1] <= b
      BY <2>2, <2>4, <1>4
    <3> QED
      BY <3>1, <3>2
  <2> QED
    BY <2>3, <2>4
<1>6. ASSUME NEW p \in 0..100 PROVE NearestRank(s, p) \in Int /\ a <= NearestRank(s, p) /\ NearestRank(s, p) <= b
  <2>1. PICK k \in 1..n : NearestRank(s, p) = Ordered(s)[k]
    BY NearestRankFacts
  <2> QED
    BY <2>1, <1>4
<1> QED
  BY <1>1, <1>2, <1>3, <1>4, <1>5, <1>6

\* A sample of one value repeated.
LEMMA ConstantSample ==
  ASSUME NEW n \in Nat, n > 0, NEW h \in Int, NEW s \in [1..n -> Int], \A i \in 1..n : s[i] = h
  PROVE  /\ Total(s) = n * h /\ Spread(s) = 0 /\ Median2(s) = 2 * h
         /\ \A k \in 1..n : Ordered(s)[k] = h
         /\ \A p \in 0..100 : NearestRank(s, p) = h
<1>1. Within(s, n, h, h)
  BY DEF Within
<1>2. Spread(s) = 0
  BY SpreadFacts
<1>3. Total(s) = n * h
  BY SpreadFacts, SumOfEquals
<1>4. /\ \A k \in 1..n : Ordered(s)[k] \in Int /\ h <= Ordered(s)[k] /\ Ordered(s)[k] <= h
      /\ Median2(s) \in Int /\ 2 * h <= Median2(s) /\ Median2(s) <= 2 * h
      /\ \A p \in 0..100 : NearestRank(s, p) \in Int /\ h <= NearestRank(s, p) /\ NearestRank(s, p) <= h
  BY <1>1, SampleBounds
<1>0. \A x, y \in Int : x <= y /\ y <= x => x = y
  OBVIOUS
<1>5. Median2(s) = 2 * h
  <2>1. Median2(s) \in Int /\ 2 * h \in Int
    BY <1>4
  <2> QED
    BY ONLY <2>1, <1>0, <1>4
<1>6. \A k \in 1..n : Ordered(s)[k] = h
  BY ONLY <1>4, <1>0, h \in Int, Zenon
<1>7. \A p \in 0..100 : NearestRank(s, p) = h
  BY ONLY <1>4, <1>0, h \in Int, Zenon
<1> QED
  BY <1>2, <1>3, <1>5, <1>6, <1>7

\* The sum of six terms.
LEMMA SumOfSix ==
  ASSUME NEW f, \A i \in 1..6 : f[i] \in Int
  PROVE  SumFunctionOnSet(f, 1..6) = f[1] + f[2] + f[3] + f[4] + f[5] + f[6]
<1> DEFINE T(m) == SumFunctionOnSet(f, 1..m)
<1>0. f[1] \in Int /\ f[2] \in Int /\ f[3] \in Int /\ f[4] \in Int /\ f[5] \in Int /\ f[6] \in Int
  OBVIOUS
<1>1. T(0) = 0
  <2>1. 1..0 = {}
    OBVIOUS
  <2>2. SumFunctionOnSet(f, {}) = 0
    <3>1. IsFiniteSet({})
      BY FS_EmptySet
    <3> QED
      BY <3>1, SumRest
  <2> QED
    BY <2>1, <2>2
<1>2. \A m \in 0..5 : T(m + 1) = f[m + 1] + T(m) /\ T(m) \in Int
  <2> TAKE m \in 0..5
  <2>1. \A i \in 1..(m + 1) : f[i] \in Int
    OBVIOUS
  <2> QED
    BY <2>1, SumNext
<1> HIDE DEF T
<1>3. T(1) = f[1] /\ T(2) = f[2] + T(1) /\ T(3) = f[3] + T(2) /\ T(4) = f[4] + T(3) /\ T(5) = f[5] + T(4) /\ T(6) = f[6] + T(5)
  <2>1. T(0 + 1) = f[0 + 1] + T(0) /\ T(1 + 1) = f[1 + 1] + T(1) /\ T(2 + 1) = f[2 + 1] + T(2)
    BY <1>2
  <2>2. T(3 + 1) = f[3 + 1] + T(3) /\ T(4 + 1) = f[4 + 1] + T(4) /\ T(5 + 1) = f[5 + 1] + T(5)
    BY <1>2
  <2>3. 0 + 1 = 1 /\ 1 + 1 = 2 /\ 2 + 1 = 3 /\ 3 + 1 = 4 /\ 4 + 1 = 5 /\ 5 + 1 = 6
    OBVIOUS
  <2>4. T(1) = f[1] + T(0) /\ T(2) = f[2] + T(1) /\ T(3) = f[3] + T(2) /\ T(4) = f[4] + T(3) /\ T(5) = f[5] + T(4) /\ T(6) = f[6] + T(5)
    BY <2>1, <2>2, <2>3
  <2> QED
    BY <2>4, <1>1, <1>0
<1>4. \A m \in 0..5 : T(m) \in Int
  BY <1>2
<1>5. T(1) \in Int /\ T(2) \in Int /\ T(3) \in Int /\ T(4) \in Int /\ T(5) \in Int
  BY <1>4
<1>6. T(6) = f[1] + f[2] + f[3] + f[4] + f[5] + f[6]
  BY <1>3, <1>5, <1>0
<1> QED
  BY <1>6 DEF T

\* A set of positions is no larger than the sample.
LEMMA PositionsBounded ==
  ASSUME NEW n \in Nat, NEW K, \A i \in K : i \in 1..n
  PROVE  Cardinality(K) \in 0..n
<1>1. IsFiniteSet(1..n) /\ Cardinality(1..n) = n
  BY FS_Interval
<1>2. K \in SUBSET (1..n)
  OBVIOUS
<1>3. IsFiniteSet(K) /\ Cardinality(K) <= n
  BY <1>1, <1>2, FS_Subset
<1>4. Cardinality(K) \in Nat
  BY <1>3, FS_CardinalityType
<1> QED
  BY <1>3, <1>4

\* A sample whose values form a set of one is constant.
LEMMA OneValueIsConstant ==
  ASSUME NEW n \in Nat, n > 0, NEW s \in [1..n -> Int], Cardinality(ToSet(s)) = 1
  PROVE  \A i \in 1..n : s[i] = s[1]
<1>1. IsFiniteSet(1..n)
  BY FS_Interval
<1>2. ToSet(s) = {s[i] : i \in 1..n}
  BY DEF ToSet
<1>3. IsFiniteSet(ToSet(s))
  <2>1. s \in Surjection(1..n, ToSet(s))
    BY DEF Surjection, ToSet
  <2> QED
    BY <1>1, <2>1, FS_Surjection
<1>4. \A i \in 1..n : s[i] \in ToSet(s)
  BY <1>2
<1>5. SUFFICES ASSUME NEW i \in 1..n, s[i] # s[1] PROVE FALSE
  OBVIOUS
<1>6. {s[i], s[1]} \in SUBSET ToSet(s) /\ 1 \in 1..n
  BY <1>4
<1>7. Cardinality({s[1]} \cup {s[i]}) = Cardinality({s[1]}) + 1 /\ Cardinality({s[1]}) = 1
  <2>1. IsFiniteSet({s[1]}) /\ Cardinality({s[1]}) = 1
    BY FS_Singleton
  <2>2. s[i] \notin {s[1]}
    BY <1>5
  <2> QED
    BY <2>1, <2>2, FS_AddElement
<1>8. Cardinality({s[1]} \cup {s[i]}) <= Cardinality(ToSet(s))
  <2>1. {s[1]} \cup {s[i]} \in SUBSET ToSet(s)
    BY <1>6
  <2> QED
    BY <1>3, <2>1, FS_Subset
<1> QED
  BY <1>7, <1>8

-----------------------------------------------------------------------------
(* Selections of selections.                                                   *)

\* The k-th position of a selection is the one of rank k.
LEMMA NthHasRank ==
  ASSUME NEW K, IsFiniteSet(K), \A i \in K : i \in Int
  PROVE  /\ \A k \in 1..Cardinality(K) : Nth(K, k) \in K /\ Rank(K, Nth(K, k)) = k
         /\ \A i \in K : Nth(K, Rank(K, i)) = i
<1>1. /\ \A i, j \in K : i < j => Rank(K, i) < Rank(K, j)
      /\ \A i \in K : Rank(K, i) \in 1..Cardinality(K)
      /\ \A k \in 1..Cardinality(K) : \E i \in K : Rank(K, i) = k
      /\ Cardinality(K) \in Nat
  BY RankFacts
<1>2. \A k : Nth(K, k) = CHOOSE i \in K : Rank(K, i) = k
  BY DEF Nth, Rank
<1>3. \A k \in 1..Cardinality(K) : Nth(K, k) \in K /\ Rank(K, Nth(K, k)) = k
  BY <1>1, <1>2
<1>4. ASSUME NEW i \in K PROVE Nth(K, Rank(K, i)) = i
  <2> DEFINE k == Rank(K, i)
             j == Nth(K, k)
  <2>1. k \in 1..Cardinality(K)
    BY <1>1
  <2>2. j \in K /\ Rank(K, j) = k
    BY <1>3, <2>1
  <2>3. i \in Int /\ j \in Int /\ Rank(K, i) \in Int /\ Rank(K, j) = Rank(K, i)
    BY <1>1, <2>2
  <2> HIDE DEF j, k
  <2>4. ~(i < j) /\ ~(j < i)
    BY <1>1, <2>2, <2>3
  <2>5. i = j
    BY <2>3, <2>4
  <2> QED
    BY <2>5 DEF j, k
<1> QED
  BY <1>3, <1>4

\* What matches a finite set one to one has its size.
LEMMA MatchedSets ==
  ASSUME NEW S, IsFiniteSet(S), NEW T, NEW f \in [S -> T], \A x, y \in S : f[x] = f[y] => x = y,
         \A y \in T : \E x \in S : f[x] = y
  PROVE  IsFiniteSet(T) /\ Cardinality(T) = Cardinality(S)
<1>1. f \in Bijection(S, T)
  BY DEF Bijection, Injection, Surjection, IsInjective
<1>2. ExistsBijection(S, T)
  BY <1>1 DEF ExistsBijection
<1> QED
  BY <1>2, FS_Bijection

\* A selection from a selection is one selection: the positions of the positions.
Through(K, L) == {Nth(K, k) : k \in L}

\* A selection from a selection picks the positions of the positions, in their order.
LEMMA NthThrough ==
  ASSUME NEW K, IsFiniteSet(K), \A i \in K : i \in Int, NEW L, \A k \in L : k \in 1..Cardinality(K)
  PROVE  /\ IsFiniteSet(L) /\ IsFiniteSet(Through(K, L)) /\ \A i \in Through(K, L) : i \in K
         /\ Cardinality(Through(K, L)) = Cardinality(L)
         /\ \A j \in 1..Cardinality(L) : Nth(L, j) \in L /\ Nth(Through(K, L), j) = Nth(K, Nth(L, j))
<1> DEFINE M == Through(K, L)
           f == [k \in L |-> Nth(K, k)]
           n == Cardinality(K)
<1>1. /\ n \in Nat /\ \A k \in 1..n : Nth(K, k) \in K
      /\ \A k, m \in 1..n : k < m => Nth(K, k) < Nth(K, m)
  BY NthFacts
<1>2. IsFiniteSet(L) /\ \A k \in L : k \in Int
  BY <1>1, PositionsFinite
<1>3. \A i \in M : i \in K /\ i \in Int
  BY <1>1 DEF Through
<1>4. \A k, m \in L : (k <= m <=> f[k] <= f[m]) /\ (f[k] = f[m] => k = m)
  <2> TAKE k, m \in L
  <2>1. f[k] = Nth(K, k) /\ f[m] = Nth(K, m) /\ f[k] \in Int /\ f[m] \in Int /\ k \in Int /\ m \in Int
    BY <1>1, <1>2
  <2>2. (k < m => f[k] < f[m]) /\ (m < k => f[m] < f[k])
    BY <1>1, <2>1
  <2> HIDE DEF f
  <2>3. k < m \/ m < k \/ k = m
    BY <2>1
  <2> QED
    BY <2>1, <2>2, <2>3
<1>5. f \in [L -> M] /\ \A y \in M : \E x \in L : f[x] = y
  BY DEF Through
<1>6. IsFiniteSet(M) /\ Cardinality(M) = Cardinality(L)
  <2> HIDE DEF f, M
  <2> QED
    BY <1>2, <1>4, <1>5, MatchedSets
<1>7. ASSUME NEW j \in 1..Cardinality(L) PROVE Nth(L, j) \in L /\ Nth(M, j) = Nth(K, Nth(L, j))
  <2> DEFINE l == Nth(L, j)
             i == f[l]
             A == {k \in L : k <= l}
             B == {x \in M : x <= i}
             g == [k \in A |-> f[k]]
  <2>1. l \in L /\ Rank(L, l) = j
    BY <1>2, NthHasRank
  <2>2. i \in M /\ i = Nth(K, l) /\ i \in Int
    BY <2>1, <1>3 DEF Through
  <2>3. Cardinality(A) = j
    BY <2>1 DEF Rank
  <2>4. g \in [A -> B] /\ (\A k, m \in A : g[k] = g[m] => k = m) /\ \A x \in B : \E k \in A : g[k] = x
    <3>1. \A x \in M : \E k \in L : x = f[k]
      BY DEF Through
    <3>2. \A k \in L : f[k] \in M
      BY DEF Through
    <3> HIDE DEF f, M, l
    <3>3. \A k \in A : g[k] = f[k] /\ g[k] \in B
      BY <3>2, <1>4, <2>1
    <3>4. \A x \in B : \E k \in A : g[k] = x
      BY <3>1, <1>4, <2>1
    <3>5. \A k, m \in A : g[k] = g[m] => k = m
      BY <1>4
    <3>6. g \in [A -> B]
      BY <3>3
    <3> QED
      BY <3>4, <3>5, <3>6
  <2>5. Cardinality(B) = j
    <3>1. IsFiniteSet(A)
      BY <1>2, FS_Subset
    <3> HIDE DEF A, B, g
    <3> QED
      BY <2>3, <2>4, <3>1, MatchedSets
  <2>6. Rank(M, i) = j
    BY <2>5 DEF Rank
  <2>7. Nth(M, Rank(M, i)) = i
    <3> HIDE DEF M, i
    <3> QED
      BY <1>3, <1>6, <2>2, NthHasRank
  <2> QED
    BY <2>1, <2>2, <2>6, <2>7
<1> QED
  BY <1>2, <1>3, <1>6, <1>7

\* The entries of a selection from a selection.
LEMMA PickedComposed ==
  ASSUME NEW K, IsFiniteSet(K), \A i \in K : i \in Int, NEW L, \A k \in L : k \in 1..Cardinality(K),
         NEW s, NEW t, \A k \in L : t[k] = s[Nth(K, k)]
  PROVE  Picked(t, L) = Picked(s, Through(K, L))
<1> DEFINE M == Through(K, L)
<1>1. /\ Cardinality(M) = Cardinality(L)
      /\ \A j \in 1..Cardinality(L) : Nth(L, j) \in L /\ Nth(M, j) = Nth(K, Nth(L, j))
  BY NthThrough
<1> HIDE DEF M
<1>2. Picked(t, L) = [j \in 1..Cardinality(L) |-> t[Nth(L, j)]] /\ Picked(s, M) = [j \in 1..Cardinality(L) |-> s[Nth(M, j)]]
  BY <1>1 DEF Picked
<1>3. \A j \in 1..Cardinality(L) : t[Nth(L, j)] = s[Nth(M, j)]
  BY <1>1
<1>4. Picked(t, L) = Picked(s, M)
  BY <1>2, <1>3
<1> QED
  BY <1>4 DEF M

-----------------------------------------------------------------------------
(* Fences and histograms.                                                      *)

\* The value at i is beyond the Tukey fences of the sample (quantiles in hundredths).
Beyond(s, i) ==
    LET p == Quantile100(s, 25)
        q == Quantile100(s, 75)
    IN  200 * s[i] < 2 * p - 3 * (q - p) \/ 200 * s[i] > 2 * q + 3 * (q - p)

\* The quartiles of one, two and three values.
LEMMA SmallQuartiles ==
  ASSUME NEW n \in 1..3, NEW s \in [1..n -> Int]
  PROVE  LET o == Ordered(s) IN
         /\ n = 1 => Quantile100(s, 25) = 100 * o[1] /\ Quantile100(s, 75) = 100 * o[1]
         /\ n = 2 => Quantile100(s, 25) = 100 * o[1] + 25 * (o[2] - o[1]) /\ Quantile100(s, 75) = 100 * o[1] + 75 * (o[2] - o[1])
         /\ n = 3 => Quantile100(s, 25) = 100 * o[1] + 50 * (o[2] - o[1]) /\ Quantile100(s, 75) = 100 * o[2] + 50 * (o[3] - o[2])
<1> DEFINE o == Ordered(s)
           Q(lo, hi, r) == 100 * o[lo] + r * (o[hi] - o[lo])
<1>1. \A p \in 0..100 : Quantile100(s, p) = Q(LowerAt(n, p), UpperAt(n, p), Between(n, p))
  <2> TAKE p \in 0..100
  <2>1. n \in Nat /\ n > 0
    OBVIOUS
  <2> QED
    BY <2>1, QuantileFacts
<1>2. /\ \A k \in 1..n : o[k] \in Int
  BY OrderedFacts
<1> HIDE DEF o
<1>3. CASE n = 1
  <2>1. LowerAt(1, 25) = 1 /\ UpperAt(1, 25) = 1 /\ Between(1, 25) = 0 /\ LowerAt(1, 75) = 1 /\ UpperAt(1, 75) = 1 /\ Between(1, 75) = 0
    BY DEF LowerAt, UpperAt, Between, Least
  <2>2. Quantile100(s, 25) = Q(1, 1, 0) /\ Quantile100(s, 75) = Q(1, 1, 0)
    <3> HIDE DEF Q
    <3> QED
      BY <1>1, <1>3, <2>1
  <2>3. o[1] \in Int
    BY <1>2
  <2> QED
    BY <2>2, <2>3, <1>3 DEF o
<1>4. CASE n = 2
  <2>1. LowerAt(2, 25) = 1 /\ UpperAt(2, 25) = 2 /\ Between(2, 25) = 25 /\ LowerAt(2, 75) = 1 /\ UpperAt(2, 75) = 2 /\ Between(2, 75) = 75
    BY DEF LowerAt, UpperAt, Between, Least
  <2>2. Quantile100(s, 25) = Q(1, 2, 25) /\ Quantile100(s, 75) = Q(1, 2, 75)
    <3> HIDE DEF Q
    <3> QED
      BY <1>1, <1>4, <2>1
  <2> QED
    BY <2>2, <1>4 DEF o
<1>5. CASE n = 3
  <2>1. LowerAt(3, 25) = 1 /\ UpperAt(3, 25) = 2 /\ Between(3, 25) = 50 /\ LowerAt(3, 75) = 2 /\ UpperAt(3, 75) = 3 /\ Between(3, 75) = 50
    BY DEF LowerAt, UpperAt, Between, Least
  <2>2. Quantile100(s, 25) = Q(1, 2, 50) /\ Quantile100(s, 75) = Q(2, 3, 50)
    <3> HIDE DEF Q
    <3> QED
      BY <1>1, <1>5, <2>1
  <2> QED
    BY <2>2, <1>5 DEF o
<1> QED
  BY <1>3, <1>4, <1>5

\* What the fences single out lies outside the middle half; a constant sample and a sample of
\* three or fewer have nothing beyond their fences.
LEMMA FenceFacts ==
  ASSUME NEW n \in Nat, n > 0, NEW s \in [1..n -> Int], NEW i \in 1..n
  PROVE  /\ Beyond(s, i) => 100 * s[i] < Quantile100(s, 25) \/ 100 * s[i] > Quantile100(s, 75)
         /\ Spread(s) = 0 => ~Beyond(s, i)
         /\ n <= 3 => ~Beyond(s, i)
<1> DEFINE p == Quantile100(s, 25)
           q == Quantile100(s, 75)
           x == s[i]
           o == Ordered(s)
<1>1. p \in Int /\ q \in Int /\ x \in Int
  <2>1. \A a \in 0..100 : Quantile100(s, a) \in Int
    <3> TAKE a \in 0..100
    <3> HIDE DEF p, q, x, o
    <3> QED
      BY QuantileFacts
  <2> QED
    BY <2>1
<1>a. \A a, b \in 0..100 : a <= b => Quantile100(s, a) <= Quantile100(s, b)
  <2> TAKE a, b \in 0..100
  <2> HAVE a <= b
  <2> HIDE DEF p, q, x, o
  <2> QED
    BY QuantilesAscend
<1>2. p <= q
  BY ONLY <1>a
<1>3. 100 * o[1] <= p /\ q <= 100 * o[n] /\ o[1] \in Int /\ o[n] \in Int
  <2>1. Quantile100(s, 0) <= p /\ q <= Quantile100(s, 100)
    <3>1. Quantile100(s, 0) <= Quantile100(s, 25)
      BY ONLY <1>a
    <3>2. Quantile100(s, 75) <= Quantile100(s, 100)
      BY ONLY <1>a
    <3> QED
      BY <3>1, <3>2
  <2> QED
    BY <2>1, QuantileLandmarks, OrderedFacts
<1>4. o[1] <= x /\ x <= o[n]
  BY OrderedBounds
<1>5. Beyond(s, i) <=> 200 * x < 2 * p - 3 * (q - p) \/ 200 * x > 2 * q + 3 * (q - p)
  BY DEF Beyond
<1>6. Spread(s) = 0 => o[1] = o[n]
  <2> SUFFICES ASSUME Spread(s) = 0 PROVE o[1] = o[n]
    OBVIOUS
  <2>1. \A j, k \in 1..n : s[j] = s[k]
    BY SpreadFacts
  <2>2. o[1] \in ToSet(s) /\ o[n] \in ToSet(s)
    BY OrderedFacts
  <2> HIDE DEF o
  <2> QED
    BY <2>1, <2>2 DEF ToSet
<1>7. ASSUME n <= 3 PROVE ~Beyond(s, i)
  <2>1. n \in 1..3 /\ \A k \in 1..n : o[k] \in Int
    BY <1>7, OrderedFacts
  <2>2. CASE n = 1
    <3>1. p = 100 * o[1] /\ q = 100 * o[1]
      BY <2>1, <2>2, SmallQuartiles
    <3> HIDE DEF p, q, x, o
    <3> QED
      BY <1>1, <1>3, <1>4, <1>5, <2>2, <3>1
  <2>3. CASE n = 2
    <3>1. p = 100 * o[1] + 25 * (o[2] - o[1]) /\ q = 100 * o[1] + 75 * (o[2] - o[1])
      BY <2>1, <2>3, SmallQuartiles
    <3> HIDE DEF p, q, x, o
    <3> QED
      BY <1>1, <1>3, <1>4, <1>5, <2>3, <3>1
  <2>4. CASE n = 3
    <3>1. p = 100 * o[1] + 50 * (o[2] - o[1]) /\ q = 100 * o[2] + 50 * (o[3] - o[2])
      BY <2>1, <2>4, SmallQuartiles
    <3>2. o[1] <= o[2] /\ o[2] <= o[3]
      <4>1. \A k, m \in 1..n : k <= m => o[k] <= o[m]
        BY OrderedAscends
      <4> HIDE DEF o
      <4> QED
        BY <4>1, <2>4
    <3>3. o[1] \in Int /\ o[2] \in Int /\ o[3] \in Int
      BY <2>1, <2>4
    <3> HIDE DEF p, q, x, o
    <3> QED
      BY <1>1, <1>4, <1>5, <2>4, <3>1, <3>2, <3>3
  <2> QED
    BY <2>1, <2>2, <2>3, <2>4
<1> HIDE DEF p, q, x, o
<1>8. Beyond(s, i) => 100 * x < p \/ 100 * x > q
  BY <1>1, <1>2, <1>5
<1>9. Spread(s) = 0 => ~Beyond(s, i)
  BY <1>1, <1>2, <1>3, <1>4, <1>5, <1>6
<1> QED
  BY <1>7, <1>8, <1>9 DEF x, p, q

\* x falls into bin b of the five between lo and lo + step; the last bin is closed.
InBin(lo, step, x, b) ==
    LET y == 5 * (x - lo)
    IN  \/ b * step <= y /\ y < (b + 1) * step
        \/ b = 4 /\ y = 5 * step

\* Every value between the bounds falls into exactly one bin.
LEMMA OneBin ==
  ASSUME NEW lo \in Int, NEW step \in Nat, step > 0, NEW x \in lo..(lo + step)
  PROVE  /\ \E b \in 0..4 : InBin(lo, step, x, b)
         /\ \A b, c \in 0..4 : InBin(lo, step, x, b) /\ InBin(lo, step, x, c) => b = c
<1> DEFINE y == 5 * (x - lo)
           I(b) == InBin(lo, step, x, b)
<1>1. y \in Int /\ 0 <= y /\ y <= 5 * step
  OBVIOUS
<1>2. /\ I(0) <=> 0 <= y /\ y < step
      /\ I(1) <=> step <= y /\ y < 2 * step
      /\ I(2) <=> 2 * step <= y /\ y < 3 * step
      /\ I(3) <=> 3 * step <= y /\ y < 4 * step
      /\ I(4) <=> 4 * step <= y /\ y <= 5 * step
  BY DEF InBin
<1> HIDE DEF y, I
<1>3. \A b \in 0..4 : b = 0 \/ b = 1 \/ b = 2 \/ b = 3 \/ b = 4
  OBVIOUS
<1>4. I(0) \/ I(1) \/ I(2) \/ I(3) \/ I(4)
  BY <1>1, <1>2
<1>5. \E b \in 0..4 : I(b)
  BY <1>4
<1>6. /\ I(0) => ~I(1) /\ ~I(2) /\ ~I(3) /\ ~I(4)
      /\ I(1) => ~I(2) /\ ~I(3) /\ ~I(4)
      /\ I(2) => ~I(3) /\ ~I(4)
      /\ I(3) => ~I(4)
  BY <1>1, <1>2
<1>7. \A b, c \in 0..4 : I(b) /\ I(c) => b = c
  BY <1>3, <1>6
<1> QED
  BY <1>5, <1>7 DEF I

\* g[b] counts the first n values in bin b - 1.
CountsBins(n, s, lo, step, g) ==
    \A b \in 1..5 : g[b] = Cardinality({i \in 1..n : InBin(lo, step, s[i], b - 1)})

\* The five counts of a histogram add up to the size of the sample.
LEMMA BinsCountAll ==
  ASSUME NEW n \in Nat, NEW s \in [1..n -> Int], NEW lo \in Int, NEW step \in Nat, step > 0,
         \A i \in 1..n : s[i] \in lo..(lo + step),
         NEW g, CountsBins(n, s, lo, step, g)
  PROVE  SumFunctionOnSet(g, 1..5) = n
<1> DEFINE S == 1..n
           C == 1..5
           one == [i \in S |-> 1]
           In(i, b) == InBin(lo, step, s[i], b - 1)
           kind == [i \in S |-> CHOOSE b \in C : In(i, b)]
<1>1. \A i \in S : \E b \in C : In(i, b)
  <2> TAKE i \in S
  <2>1. PICK b \in 0..4 : InBin(lo, step, s[i], b)
    BY OneBin
  <2>2. b + 1 \in C /\ (b + 1) - 1 = b
    OBVIOUS
  <2> QED
    BY <2>1, <2>2
<1>2. \A i \in S : \A b, c \in C : In(i, b) /\ In(i, c) => b = c
  <2> TAKE i \in S
  <2> TAKE b, c \in C
  <2>1. b - 1 \in 0..4 /\ c - 1 \in 0..4
    OBVIOUS
  <2>2. In(i, b) /\ In(i, c) => b - 1 = c - 1
    BY <2>1, OneBin
  <2> QED
    BY <2>2
<1> HIDE DEF In
<1>3. kind \in [S -> C] /\ \A i \in S : In(i, kind[i])
  BY <1>1
<1>4. \A b \in C : OfKind(S, kind, b) = {i \in S : In(i, b)}
  BY <1>2, <1>3 DEF OfKind
<1>5. IsFiniteSet(S) /\ Cardinality(S) = n /\ IsFiniteSet(C)
  <2>1. \A m \in Nat : IsFiniteSet(1..m) /\ Cardinality(1..m) = m
    BY FS_Interval
  <2>2. 5 \in Nat
    OBVIOUS
  <2> QED
    BY ONLY <2>1, <2>2, n \in Nat
<1>6. \A b \in C : g[b] = SumFunctionOnSet(one, OfKind(S, kind, b))
  <2> TAKE b \in C
  <2>1. OfKind(S, kind, b) \in SUBSET S /\ \A i \in OfKind(S, kind, b) : one[i] = 1
    BY DEF OfKind
  <2>2. IsFiniteSet(OfKind(S, kind, b))
    BY <1>5, <2>1, FS_Subset
  <2>3. SumFunctionOnSet(one, OfKind(S, kind, b)) = Cardinality(OfKind(S, kind, b))
    <3> HIDE DEF one, kind
    <3> QED
      BY <2>1, <2>2, SumOfOnes
  <2>4. g[b] = Cardinality({i \in S : In(i, b)})
    BY DEF In, CountsBins
  <2> QED
    BY <1>4, <2>3, <2>4
<1>7. \A i \in S : one[i] \in Int /\ one[i] = 1
  OBVIOUS
<1> HIDE DEF S, C, one, kind
<1>8. SumFunctionOnSet(g, C) = SumFunctionOnSet(one, S)
  BY <1>3, <1>5, <1>6, <1>7, SumByKind
<1>9. SumFunctionOnSet(one, S) = Cardinality(S)
  BY <1>5, <1>7, SumOfOnes
<1> QED
  BY <1>5, <1>8, <1>9 DEF C

\* t is the first m entries of A followed by the b entries of B.
IsJoin(t, A, B, m, b) ==
    /\ DOMAIN t = 1..(m + b) /\ Len(t) = m + b
    /\ \A k \in 1..m : t[k] = A[k]
    /\ \A k \in (m + 1)..(m + b) : k - m \in 1..b /\ t[k] = B[k - m]

\* Two sequences one after the other.
LEMMA Joined ==
  ASSUME NEW m \in Nat, NEW b \in Nat, NEW X, NEW A \in [1..m -> X], NEW B \in [1..b -> X]
  PROVE  IsJoin(A \o B, A, B, m, b)
<1>1. A \in Seq(X) /\ B \in Seq(X) /\ Len(A) = m /\ Len(B) = b
  OBVIOUS
<1>2. A \o B \in Seq(X) /\ Len(A \o B) = m + b
  BY <1>1
<1>3. \A k \in 1..(m + b) : (A \o B)[k] = IF k <= m THEN A[k] ELSE B[k - m]
  BY <1>1
<1>4. \A k \in (m + 1)..(m + b) : k - m \in 1..b /\ ~(k <= m) /\ k \in 1..(m + b)
  OBVIOUS
<1>5. \A k \in 1..m : k <= m /\ k \in 1..(m + b)
  OBVIOUS
<1> QED
  BY <1>2, <1>3, <1>4, <1>5 DEF IsJoin

-----------------------------------------------------------------------------
(* Sequences of sequences.                                                     *)

\* What FlattenSeq has joined up to the k-th sequence.
Flattens(seqs, k, f) == f = [i \in 1..k |-> IF i = 1 THEN seqs[i] ELSE f[i - 1] \o seqs[i]]

\* The joined prefixes exist.
LEMMA FlattenedExists ==
  ASSUME NEW n \in Nat, NEW seqs
  PROVE  \E f : Flattens(seqs, n, f)
<1> DEFINE N == {k \in Nat : \E f : Flattens(seqs, k, f)}
<1>1. 0 \in N
  <2> DEFINE f == [i \in 1..0 |-> 0]
  <2>1. Flattens(seqs, 0, f)
    <3>1. 1..0 = {}
      OBVIOUS
    <3> QED
      BY <3>1 DEF Flattens
  <2> QED
    BY <2>1
<1>2. ASSUME NEW k \in N PROVE k + 1 \in N
  <2>1. k \in Nat
    OBVIOUS
  <2>2. PICK f : Flattens(seqs, k, f)
    OBVIOUS
  <2>3. DOMAIN f = 1..k /\ \A i \in 1..k : f[i] = IF i = 1 THEN seqs[i] ELSE f[i - 1] \o seqs[i]
    BY <2>2 DEF Flattens
  <2> DEFINE g == [i \in 1..(k + 1) |-> IF i <= k THEN f[i] ELSE IF i = 1 THEN seqs[i] ELSE f[i - 1] \o seqs[i]]
  <2>4. \A i \in 1..(k + 1) : g[i] = IF i = 1 THEN seqs[i] ELSE g[i - 1] \o seqs[i]
    <3> TAKE i \in 1..(k + 1)
    <3>1. g[i] = IF i <= k THEN f[i] ELSE IF i = 1 THEN seqs[i] ELSE f[i - 1] \o seqs[i]
      OBVIOUS
    <3>2. i # 1 => i - 1 \in 1..(k + 1) /\ i - 1 <= k
      BY <2>1
    <3>3. i # 1 => g[i - 1] = f[i - 1]
      BY <3>2
    <3>4. i <= k => i \in 1..k
      BY <2>1
    <3> HIDE DEF g
    <3> QED
      BY <3>1, <3>3, <3>4, <2>3
  <2>5. g = [i \in 1..(k + 1) |-> g[i]]
    OBVIOUS
  <2> HIDE DEF g
  <2>6. Flattens(seqs, k + 1, g)
    BY <2>4, <2>5 DEF Flattens
  <2> QED
    BY <2>1, <2>6
<1>3. n \in N
  <2>1. N \subseteq Nat
    OBVIOUS
  <2> HIDE DEF N
  <2> QED
    BY <1>1, <1>2, <2>1, AllNumbers
<1> QED
  BY <1>3

\* Sequences over X are joined into a sequence over X.
LEMMA FlattenFacts ==
  ASSUME NEW n \in Nat, NEW X, NEW seqs \in [1..n -> Seq(X)]
  PROVE  FlattenSeq(seqs) \in Seq(X)
<1> DEFINE it == CHOOSE f : f = [i \in 1..n |-> IF i = 1 THEN seqs[i] ELSE f[i - 1] \o seqs[i]]
<1>1. Len(seqs) = n
  OBVIOUS
<1>2. FlattenSeq(seqs) = IF n = 0 THEN seqs ELSE it[n]
  BY <1>1 DEF FlattenSeq
<1>3. \A i \in 1..n : it[i] = IF i = 1 THEN seqs[i] ELSE it[i - 1] \o seqs[i]
  <2>1. \E f : f = [i \in 1..n |-> IF i = 1 THEN seqs[i] ELSE f[i - 1] \o seqs[i]]
    BY FlattenedExists DEF Flattens
  <2>2. it = [i \in 1..n |-> IF i = 1 THEN seqs[i] ELSE it[i - 1] \o seqs[i]]
    BY <2>1
  <2> HIDE DEF it
  <2> QED
    BY <2>2
<1> HIDE DEF it
<1> DEFINE N == {k \in Nat : k \in 1..n => it[k] \in Seq(X)}
<1>4. 0 \in N
  OBVIOUS
<1>5. ASSUME NEW k \in N PROVE k + 1 \in N
  <2> SUFFICES ASSUME k + 1 \in 1..n PROVE it[k + 1] \in Seq(X)
    OBVIOUS
  <2>1. CASE k = 0
    BY <2>1, <1>3
  <2>2. CASE k # 0
    <3>1. k \in 1..n /\ (k + 1) - 1 = k /\ k + 1 # 1
      BY <2>2
    <3>2. it[k + 1] = it[k] \o seqs[k + 1]
      BY <1>3, <3>1
    <3>3. it[k] \in Seq(X) /\ seqs[k + 1] \in Seq(X)
      BY <3>1
    <3> QED
      BY <3>2, <3>3
  <2> QED
    BY <2>1, <2>2
<1>6. n \in N
  <2>1. N \subseteq Nat
    OBVIOUS
  <2> HIDE DEF N
  <2> QED
    BY <1>4, <1>5, <2>1, AllNumbers
<1>7. n # 0 => it[n] \in Seq(X)
  BY <1>6
<1>8. n = 0 => seqs \in Seq(X)
  <2> SUFFICES ASSUME n = 0 PROVE seqs \in [1..0 -> X]
    OBVIOUS
  <2> QED
    OBVIOUS
<1> QED
  BY <1>2, <1>7, <1>8

\* Sequences of numbers compared entry by entry.
LEMMA TotalsCompare ==
  ASSUME NEW n \in Nat, NEW s \in [1..n -> Int], NEW t \in [1..n -> Int], \A i \in 1..n : 0 <= s[i] /\ s[i] <= t[i]
  PROVE  Total(s) \in Int /\ Total(t) \in Int /\ 0 <= Total(s) /\ Total(s) <= Total(t)
<1> DEFINE S == 1..n
           z == [i \in S |-> 0]
<1>1. Total(s) \in Int /\ Total(t) \in Int /\ Total(s) = SumFunctionOnSet(s, S) /\ Total(t) = SumFunctionOnSet(t, S)
  BY SpreadFacts
<1>2. IsFiniteSet(S)
  BY FS_Interval
<1>3. \A i \in S : s[i] \in Int /\ t[i] \in Int /\ z[i] \in Int /\ z[i] <= s[i] /\ s[i] <= t[i]
  OBVIOUS
<1>4. SumFunctionOnSet(z, S) = 0
  <2>1. \A i \in 1..n : z[i] = 0
    OBVIOUS
  <2> HIDE DEF z
  <2>2. SumFunctionOnSet(z, 1..n) = n * 0
    BY <2>1, SumOfEquals
  <2> QED
    BY <2>2
<1> HIDE DEF S, z
<1>5. SumFunctionOnSet(z, S) <= SumFunctionOnSet(s, S) /\ SumFunctionOnSet(s, S) <= SumFunctionOnSet(t, S)
  BY <1>2, <1>3, SumAtMost
<1> QED
  BY <1>1, <1>4, <1>5

\* A selection of positions, and what its entries come from.
LEMMA SelectedEntries ==
  ASSUME NEW n \in Nat, NEW K, \A i \in K : i \in 1..n, NEW s
  PROVE  /\ Cardinality(K) \in Nat /\ Cardinality(K) <= n
         /\ DOMAIN Picked(s, K) = 1..Cardinality(K) /\ Len(Picked(s, K)) = Cardinality(K)
         /\ \A k \in 1..Cardinality(K) : \E i \in K : Picked(s, K)[k] = s[i]
         /\ Picked(s, K) = <<>> <=> Cardinality(K) = 0
<1>1. IsFiniteSet(K) /\ \A i \in K : i \in Int
  BY PositionsFinite
<1>2. Cardinality(K) \in 0..n
  BY PositionsBounded
<1>3. DOMAIN Picked(s, K) = 1..Cardinality(K) /\ Len(Picked(s, K)) = Cardinality(K)
  BY <1>1, PickedFacts
<1>4. \A k \in 1..Cardinality(K) : Picked(s, K)[k] = s[Nth(K, k)] /\ Nth(K, k) \in K
  BY <1>1, PickedFacts, NthFacts
<1>5. Cardinality(K) = 0 => Picked(s, K) = <<>>
  BY DEF Picked
<1>6. Picked(s, K) = <<>> => Cardinality(K) = 0
  BY <1>3
<1> QED
  BY <1>2, <1>3, <1>4, <1>5, <1>6

-----------------------------------------------------------------------------
(* Rankings.                                                                   *)

\* The members that stand before i: those of a greater value, equal ones in their own order.
Ahead(h, S, i) == {j \in S : h[j] > h[i] \/ (h[j] = h[i] /\ j < i)}
Descending(h, S) == [k \in 1..Cardinality(S) |-> CHOOSE i \in S : Cardinality(Ahead(h, S, i)) = k - 1]

\* A ranking lists every member once, in descending order of its value.
LEMMA DescendingFacts ==
  ASSUME NEW S, IsFiniteSet(S), \A i \in S : i \in Int, NEW h, \A i \in S : h[i] \in Int
  PROVE  LET d == Descending(h, S)
             n == Cardinality(S)
         IN  /\ n \in Nat /\ d \in [1..n -> S]
             /\ \A k, m \in 1..n : d[k] = d[m] => k = m
             /\ \A i \in S : \E k \in 1..n : d[k] = i
             /\ \A k, m \in 1..n : k < m => h[d[k]] >= h[d[m]]
<1> DEFINE n == Cardinality(S)
           d == Descending(h, S)
           pos == [i \in S |-> Cardinality(Ahead(h, S, i)) + 1]
<1>1. n \in Nat
  BY FS_CardinalityType
<1>2. \A i \in S : IsFiniteSet(Ahead(h, S, i)) /\ Cardinality(Ahead(h, S, i)) \in Nat /\ Cardinality(Ahead(h, S, i)) < n
  <2> TAKE i \in S
  <2>1. Ahead(h, S, i) \in SUBSET S /\ i \notin Ahead(h, S, i)
    BY DEF Ahead
  <2>2. IsFiniteSet(Ahead(h, S, i)) /\ Cardinality(Ahead(h, S, i)) <= n /\ Cardinality(Ahead(h, S, i)) # n
    BY <2>1, FS_Subset
  <2>3. Cardinality(Ahead(h, S, i)) \in Nat
    BY <2>2, FS_CardinalityType
  <2> QED
    BY <1>1, <2>2, <2>3
<1>3. \A i, j \in S : j \in Ahead(h, S, i) => Cardinality(Ahead(h, S, j)) < Cardinality(Ahead(h, S, i))
  <2> SUFFICES ASSUME NEW i \in S, NEW j \in S, j \in Ahead(h, S, i)
               PROVE  Cardinality(Ahead(h, S, j)) < Cardinality(Ahead(h, S, i))
    OBVIOUS
  <2>1. \A x \in S : x \in Ahead(h, S, j) => x \in Ahead(h, S, i)
    <3> TAKE x \in S
    <3>1. h[x] \in Int /\ h[j] \in Int /\ h[i] \in Int /\ x \in Int /\ j \in Int /\ i \in Int
      OBVIOUS
    <3> QED
      BY <3>1 DEF Ahead
  <2>2. Ahead(h, S, j) \in SUBSET Ahead(h, S, i) /\ j \notin Ahead(h, S, j)
    BY <2>1 DEF Ahead
  <2>3. Cardinality(Ahead(h, S, j)) <= Cardinality(Ahead(h, S, i)) /\ Cardinality(Ahead(h, S, j)) # Cardinality(Ahead(h, S, i))
    BY <1>2, <2>2, FS_Subset
  <2> QED
    BY <1>2, <2>3
<1>4. \A i, j \in S : i = j \/ j \in Ahead(h, S, i) \/ i \in Ahead(h, S, j)
  BY DEF Ahead
<1>5. pos \in [S -> 1..n] /\ \A i, j \in S : pos[i] = pos[j] => i = j
  <2>1. \A i \in S : Cardinality(Ahead(h, S, i)) + 1 \in 1..n
    BY <1>1, <1>2
  <2>2. ASSUME NEW i \in S, NEW j \in S, pos[i] = pos[j] PROVE i = j
    <3>1. Cardinality(Ahead(h, S, i)) = Cardinality(Ahead(h, S, j))
      BY <1>2, <2>2
    <3> QED
      BY <1>2, <1>3, <1>4, <3>1
  <2> QED
    BY <2>1, <2>2
<1>6. \A k \in 1..n : \E i \in S : pos[i] = k
  <2>1. pos \in Injection(S, 1..n)
    BY <1>5 DEF Injection, IsInjective
  <2>2. IsFiniteSet(1..n) /\ Cardinality(1..n) = n
    BY <1>1, FS_Interval
  <2> HIDE DEF pos, n
  <2>3. pos \in Surjection(S, 1..n)
    BY <2>1, <2>2, FS_Injection DEF n
  <2> QED
    BY <2>3 DEF Surjection
<1>7. \A i \in S : pos[i] = Cardinality(Ahead(h, S, i)) + 1
  OBVIOUS
<1> HIDE DEF pos
<1>8. \A k \in 1..n : d[k] \in S /\ pos[d[k]] = k
  <2> TAKE k \in 1..n
  <2>1. d[k] = CHOOSE i \in S : Cardinality(Ahead(h, S, i)) = k - 1
    BY DEF Descending
  <2>2. PICK i \in S : pos[i] = k
    BY <1>6
  <2>3. Cardinality(Ahead(h, S, i)) = k - 1
    BY <1>2, <1>7, <2>2
  <2>4. d[k] \in S /\ Cardinality(Ahead(h, S, d[k])) = k - 1
    BY <2>1, <2>3
  <2> QED
    BY <1>1, <1>7, <2>4
<1>9. d \in [1..n -> S]
  <2>1. d = [k \in 1..n |-> d[k]]
    BY DEF Descending
  <2> HIDE DEF d, n
  <2> QED
    BY <1>8, <2>1
<1> HIDE DEF d, n
<1>10. \A k, m \in 1..n : d[k] = d[m] => k = m
  BY <1>8
<1>11. \A i \in S : \E k \in 1..n : d[k] = i
  <2> TAKE i \in S
  <2>1. pos[i] \in 1..n
    BY <1>5
  <2>2. d[pos[i]] \in S /\ pos[d[pos[i]]] = pos[i]
    BY <1>8, <2>1
  <2> QED
    BY <1>5, <2>1, <2>2
<1>12. \A k, m \in 1..n : k < m => h[d[k]] >= h[d[m]]
  <2> SUFFICES ASSUME NEW k \in 1..n, NEW m \in 1..n, k < m PROVE h[d[k]] >= h[d[m]]
    OBVIOUS
  <2>1. d[k] \in S /\ d[m] \in S /\ pos[d[k]] = k /\ pos[d[m]] = m
    BY <1>8
  <2>2. ~ d[m] \in Ahead(h, S, d[k])
    BY <1>2, <1>3, <1>7, <2>1
  <2>3. d[k] # d[m]
    BY <2>1
  <2>4. d[k] \in Ahead(h, S, d[m])
    BY <1>4, <2>1, <2>2, <2>3
  <2>5. h[d[k]] \in Int /\ h[d[m]] \in Int
    BY <2>1
  <2> QED
    BY <2>4, <2>5 DEF Ahead
<1> QED
  BY <1>1, <1>9, <1>10, <1>11, <1>12 DEF d, n

\* What is left of each h after a.
Remains(r, h, a, n) == \A i \in 1..n : r[i] = Most(0, h[i] - a[i])

\* What is left together is at most what is left one by one, and as much if nothing is in excess.
LeftTogether(r, h, a, n) ==
  /\ Most(0, Total(h) - Total(a)) <= Total(r)
  /\ (\A i \in 1..n : a[i] <= h[i]) => Most(0, Total(h) - Total(a)) = Total(r)

\* What is left of two amounts, taken together and one by one: nothing is lost but the excess.
LEMMA RemaindersAdd ==
  ASSUME NEW n \in Nat, NEW h \in [1..n -> Int], NEW a \in [1..n -> Int],
         NEW r \in [1..n -> Int], Remains(r, h, a, n)
  PROVE  LeftTogether(r, h, a, n)
<1> DEFINE S == 1..n
           d == [i \in S |-> h[i] - a[i]]
           z == [i \in S |-> 0]
           T(f) == SumFunctionOnSet(f, S)
<1>1. Total(h) \in Int /\ Total(a) \in Int /\ Total(r) \in Int /\ Total(h) = T(h) /\ Total(a) = T(a) /\ Total(r) = T(r)
  BY SpreadFacts
<1>2. IsFiniteSet(S)
  BY FS_Interval
<1>3. /\ \A i \in S : h[i] \in Int /\ a[i] \in Int /\ r[i] \in Int /\ d[i] \in Int /\ z[i] \in Int
      /\ \A i \in S : h[i] = d[i] + a[i]
      /\ \A i \in S : d[i] <= r[i] /\ z[i] <= r[i]
      /\ \A i \in S : a[i] <= h[i] => r[i] = d[i]
  <2>1. ASSUME NEW i \in S
        PROVE  /\ h[i] \in Int /\ a[i] \in Int /\ r[i] \in Int /\ d[i] \in Int /\ z[i] \in Int
               /\ h[i] = d[i] + a[i] /\ d[i] <= r[i] /\ z[i] <= r[i] /\ (a[i] <= h[i] => r[i] = d[i])
    <3>1. h[i] \in Int /\ a[i] \in Int /\ r[i] \in Int /\ d[i] = h[i] - a[i] /\ z[i] = 0 /\ r[i] = Most(0, h[i] - a[i])
      BY DEF Remains
    <3> HIDE DEF d, z
    <3> QED
      BY <3>1 DEF Most
  <2> HIDE DEF d, z
  <2> QED
    BY <2>1
<1>4. T(z) = 0
  <2>1. \A i \in 1..n : z[i] = 0
    OBVIOUS
  <2> HIDE DEF z
  <2>2. SumFunctionOnSet(z, 1..n) = n * 0
    BY <2>1, SumOfEquals
  <2> QED
    BY <2>2
<1>5. T(d) \in Int
  <2>1. d \in [1..n -> Int]
    OBVIOUS
  <2> HIDE DEF d
  <2> QED
    BY <2>1, SpreadFacts
<1> HIDE DEF d, z
<1>6. T(h) = T(d) + T(a)
  <2> DEFINE H == h
             A == a
  <2>1. IsFiniteSet(S) /\ (\A i \in S : d[i] \in Int) /\ (\A i \in S : A[i] \in Int) /\ (\A i \in S : H[i] = d[i] + A[i])
    BY <1>2, <1>3
  <2> HIDE DEF S, H, A
  <2>2. SumFunctionOnSet(H, S) = SumFunctionOnSet(d, S) + SumFunctionOnSet(A, S)
    BY ONLY <2>1, SumAdds
  <2> QED
    BY <2>2 DEF H, A
<1>7. T(d) <= T(r) /\ T(z) <= T(r)
  <2> HIDE DEF S
  <2> QED
    BY <1>2, <1>3, SumAtMost
<1>8. (\A i \in 1..n : a[i] <= h[i]) => T(r) = T(d)
  <2> SUFFICES ASSUME \A i \in S : a[i] <= h[i] PROVE T(r) = T(d)
    OBVIOUS
  <2>1. \A i \in S : r[i] = d[i] /\ d[i] \in Int
    BY <1>3
  <2> HIDE DEF S
  <2> QED
    BY <1>2, <2>1, SumSame
<1> HIDE DEF S, T
<1>9. Total(h) - Total(a) = T(d) /\ 0 <= Total(r) /\ T(d) <= Total(r)
  BY <1>1, <1>4, <1>5, <1>6, <1>7
<1>10. Most(0, Total(h) - Total(a)) <= Total(r)
  BY <1>1, <1>5, <1>9 DEF Most
<1>11. (\A i \in 1..n : a[i] <= h[i]) => Most(0, Total(h) - Total(a)) = Total(r)
  BY <1>1, <1>5, <1>8, <1>9 DEF Most
<1> QED
  BY <1>10, <1>11 DEF LeftTogether

=============================================================================
