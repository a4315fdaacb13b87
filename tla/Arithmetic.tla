------------------------------ MODULE Arithmetic ------------------------------
(***************************************************************************)
(* What the proofs about caps, totals, balances and byte strings need of   *)
(* numbers: sums over finite sets, integer division, banker's rounding.    *)
(*                                                                         *)
(* The modules add up with MapThenSumSet, a fold that takes the elements   *)
(* of a set in the order CHOOSE gives them.  The lemmas say what such a    *)
(* sum is without that order: what one element, one written value or a     *)
(* disjoint union does to it.  Induction is over sets of naturals, which   *)
(* needs no operator as a parameter.                                       *)
(***************************************************************************)
EXTENDS Integers, FiniteSets, FiniteSetsExt, FiniteSetTheorems, TLAPS

\* Induction: a set that has 0 and with every natural its successor has all of
\* them.
LEMMA NatSetInduction ==
    ASSUME NEW X, 0 \in X, \A n \in Nat : n \in X => n + 1 \in X
    PROVE  \A n \in Nat : n \in X
<1> DEFINE Less == {p \in Nat \X Nat : p[1] < p[2]}
           Bad == Nat \ X
<1> SUFFICES ASSUME Bad # {} PROVE FALSE
  OBVIOUS
<1>1. IsWellFoundedOn(Less, Nat)
  BY NatLessThanWellFounded DEF OpToRel
<1>2. Bad \subseteq Nat
  OBVIOUS
<1>3. PICK m \in Bad : \A k \in Bad : <<k, m>> \notin Less
  <2> HIDE DEF Less, Bad
  <2> QED BY <1>1, <1>2, WFMin
<1>4. m # 0 /\ m - 1 \in Nat
  OBVIOUS
<1>5. m - 1 \in Bad
  BY <1>4
<1>6. <<m - 1, m>> \in Less
  BY <1>4
<1> QED BY <1>3, <1>5, <1>6

\* The sum of the values f has on S.
Sum(f, S) == MapThenSumSet(LAMBDA x : f[x], S)

\* The element the fold takes first.
Pick(s) == CHOOSE x \in s : TRUE

\* The value a fold gives a set, by its values for smaller sets.
Rest(f, g, s) == IF s = {} THEN 0 ELSE f[Pick(s)] + g[s \ {Pick(s)}]

\* g gives every subset of S its sum.
IsIter(g, f, S) == g = [s \in SUBSET S |-> Rest(f, g, s)]

\* A set of n + 1 elements is not empty, and loses one with every element.
LEMMA RemoveCard ==
    ASSUME NEW s, IsFiniteSet(s), NEW n \in Nat, Cardinality(s) = n + 1
    PROVE  s # {} /\ \A x \in s : Cardinality(s \ {x}) = n
<1>1. s # {}
  <2>1. n + 1 # 0
    OBVIOUS
  <2> QED BY <2>1, FS_EmptySet
<1>2. ASSUME NEW x \in s PROVE Cardinality(s \ {x}) = n
  <2>1. Cardinality(s \ {x}) = Cardinality(s) - 1
    BY FS_RemoveElement
  <2> QED BY <2>1
<1> QED BY <1>1, <1>2

\* There is a function that gives every subset of a finite set its sum: the
\* fold's local function is defined by recursion, and this says it exists.
LEMMA IterExists ==
    ASSUME NEW S, IsFiniteSet(S), NEW f
    PROVE  \E g : IsIter(g, f, S)
<1> DEFINE Small(n) == {s \in SUBSET S : Cardinality(s) <= n}
           Solves(g, n) == g = [s \in Small(n) |-> Rest(f, g, s)]
           X == {n \in Nat : \E g : Solves(g, n)}
<1>0. \A s \in SUBSET S : IsFiniteSet(s) /\ Cardinality(s) \in Nat
                           /\ Cardinality(s) <= Cardinality(S)
  BY FS_Subset, FS_CardinalityType
<1>1. 0 \in X
  <2> DEFINE g == [s \in Small(0) |-> 0]
  <2>1. \A s \in Small(0) : s = {}
    BY <1>0, FS_EmptySet
  <2>2. Solves(g, 0)
    BY <2>1 DEF Rest
  <2> QED BY <2>2
<1>2. ASSUME NEW n \in Nat, n \in X PROVE n + 1 \in X
  <2>1. PICK g : Solves(g, n)
    BY <1>2
  <2> DEFINE h == [s \in Small(n + 1) |-> IF s \in Small(n) THEN g[s] ELSE Rest(f, g, s)]
  <2>2. ASSUME NEW s \in Small(n + 1), s # {}
        PROVE  s \ {Pick(s)} \in Small(n)
    <3>1. Pick(s) \in s
      BY <2>2 DEF Pick
    <3>2. Cardinality(s \ {Pick(s)}) = Cardinality(s) - 1
      BY <1>0, <3>1, FS_RemoveElement
    <3> QED BY <1>0, <3>2
  <2>3. ASSUME NEW s \in Small(n + 1) PROVE Rest(f, h, s) = Rest(f, g, s)
    <3>1. CASE s = {}
      BY <3>1 DEF Rest
    <3>2. CASE s # {}
      <4>1. s \ {Pick(s)} \in Small(n) /\ s \ {Pick(s)} \in Small(n + 1)
        BY <2>2, <3>2, <1>0
      <4>2. h[s \ {Pick(s)}] = g[s \ {Pick(s)}]
        BY <4>1
      <4> QED BY <4>2 DEF Rest
    <3> QED BY <3>1, <3>2
  <2>4. ASSUME NEW s \in Small(n + 1) PROVE h[s] = Rest(f, g, s)
    BY <2>1
  <2>5. Solves(h, n + 1)
    BY <2>3, <2>4
  <2>6. n + 1 \in Nat /\ \E k : Solves(k, n + 1)
    <3> HIDE DEF Solves, h
    <3> QED BY <2>5
  <2> HIDE DEF Solves
  <2> QED BY <2>6
<1>3. \A n \in Nat : n \in X
  <2> HIDE DEF X
  <2> QED BY <1>1, <1>2, NatSetInduction
<1>4. PICK g : Solves(g, Cardinality(S))
  BY <1>3, FS_CardinalityType
<1>5. Small(Cardinality(S)) = SUBSET S
  BY <1>0
<1> QED BY <1>4, <1>5 DEF IsIter

\* The sum is the value of such a function.
LEMMA SumUnfold ==
    ASSUME NEW S, IsFiniteSet(S), NEW f
    PROVE  \E g : IsIter(g, f, S) /\ Sum(f, S) = g[S]
<1> DEFINE iter == CHOOSE g : g = [s \in SUBSET S |-> Rest(f, g, s)]
<1>1. IsIter(iter, f, S)
  BY IterExists DEF IsIter
<1>2. Sum(f, S) = iter[S]
  BY DEF Sum, MapThenSumSet, MapThenFoldSet, Rest, Pick
<1> QED BY <1>1, <1>2

\* Its values, one by one.
LEMMA IterValue ==
    ASSUME NEW S, NEW f, NEW g, IsIter(g, f, S)
    PROVE  \A s \in SUBSET S : g[s] = Rest(f, g, s)
BY DEF IsIter

\* Nothing adds up to 0.
LEMMA SumEmpty == \A f : Sum(f, {}) = 0
<1> TAKE f
<1>1. PICK g : IsIter(g, f, {}) /\ Sum(f, {}) = g[{}]
  BY SumUnfold, FS_EmptySet
<1>2. g[{}] = Rest(f, g, {})
  BY <1>1, IterValue
<1> QED BY <1>1, <1>2 DEF Rest

\* Functions that agree on a set have the same sums over its subsets, taken as
\* subsets of whatever larger set.
LEMMA IterAgree ==
    ASSUME NEW S, IsFiniteSet(S), NEW T \in SUBSET S, NEW f, NEW e,
           \A x \in T : f[x] = e[x],
           NEW g, IsIter(g, f, S),
           NEW h, IsIter(h, e, T)
    PROVE  \A s \in SUBSET T : g[s] = h[s]
<1> DEFINE X == {n \in Nat : \A s \in SUBSET T : Cardinality(s) = n => g[s] = h[s]}
<1>0. \A s \in SUBSET T : IsFiniteSet(s) /\ Cardinality(s) \in Nat /\ s \in SUBSET S
  BY FS_Subset, FS_CardinalityType
<1>a. \A s \in SUBSET T : g[s] = Rest(f, g, s) /\ h[s] = Rest(e, h, s)
  BY <1>0, IterValue
<1>1. 0 \in X
  <2> SUFFICES ASSUME NEW s \in SUBSET T, Cardinality(s) = 0 PROVE g[s] = h[s]
    OBVIOUS
  <2>1. s = {}
    BY <1>0, FS_EmptySet
  <2> QED BY <1>a, <2>1 DEF Rest
<1>2. ASSUME NEW n \in Nat, n \in X PROVE n + 1 \in X
  <2>0. ASSUME NEW s \in SUBSET T, Cardinality(s) = n + 1
               PROVE  g[s] = h[s]
    <3>1. s # {} /\ Pick(s) \in s
      BY <1>0, <2>0, RemoveCard DEF Pick
    <3>3. Cardinality(s \ {Pick(s)}) = n
      BY <1>0, <2>0, <3>1, RemoveCard
    <3>4. g[s \ {Pick(s)}] = h[s \ {Pick(s)}]
      BY <1>2, <3>3
    <3>6. f[Pick(s)] = e[Pick(s)]
      BY <3>1
    <3> QED BY <1>a, <3>1, <3>4, <3>6 DEF Rest
  <2> QED BY <2>0
<1>3. \A n \in Nat : n \in X
  <2> HIDE DEF X
  <2> QED BY <1>1, <1>2, NatSetInduction
<1> QED BY <1>0, <1>3

\* Functions that agree on a set have the same sum over it.
LEMMA SumAgree ==
    ASSUME NEW S, IsFiniteSet(S), NEW f, NEW e, \A x \in S : f[x] = e[x]
    PROVE  Sum(f, S) = Sum(e, S)
<1>1. PICK g : IsIter(g, f, S) /\ Sum(f, S) = g[S]
  BY SumUnfold
<1>2. PICK h : IsIter(h, e, S) /\ Sum(e, S) = h[S]
  BY SumUnfold
<1>3. \A s \in SUBSET S : g[s] = h[s]
  <2>1. S \in SUBSET S
    OBVIOUS
  <2> QED BY <1>1, <1>2, <2>1, IterAgree
<1> QED BY <1>1, <1>2, <1>3

\* The first step of the fold.
LEMMA SumStep ==
    ASSUME NEW S, IsFiniteSet(S), S # {}, NEW f
    PROVE  /\ Pick(S) \in S
           /\ Sum(f, S) = f[Pick(S)] + Sum(f, S \ {Pick(S)})
<1> DEFINE T == S \ {Pick(S)}
<1>0. Pick(S) \in S
  BY DEF Pick
<1>1. PICK g : IsIter(g, f, S) /\ Sum(f, S) = g[S]
  BY SumUnfold
<1>2. PICK h : IsIter(h, f, T) /\ Sum(f, T) = h[T]
  BY SumUnfold, FS_RemoveElement
<1>3. \A s \in SUBSET T : g[s] = h[s]
  <2>1. T \in SUBSET S
    OBVIOUS
  <2>2. \A x \in T : f[x] = f[x]
    OBVIOUS
  <2> HIDE DEF T
  <2> QED BY <1>1, <1>2, <2>1, <2>2, IterAgree
<1>4. g[S] = f[Pick(S)] + g[T]
  BY <1>1, IterValue DEF Rest
<1>5. g[T] = h[T]
  BY <1>3
<1> QED BY <1>0, <1>1, <1>2, <1>4, <1>5

\* A sum of integers is an integer.
LEMMA SumInt ==
    ASSUME NEW S, IsFiniteSet(S), NEW f, \A x \in S : f[x] \in Int
    PROVE  Sum(f, S) \in Int
<1> DEFINE X == {n \in Nat : \A s \in SUBSET S : Cardinality(s) = n => Sum(f, s) \in Int}
<1>0. \A s \in SUBSET S : IsFiniteSet(s) /\ Cardinality(s) \in Nat
  BY FS_Subset, FS_CardinalityType
<1>1. 0 \in X
  BY <1>0, FS_EmptySet, SumEmpty
<1>2. ASSUME NEW n \in Nat, n \in X PROVE n + 1 \in X
  <2>0. ASSUME NEW s \in SUBSET S, Cardinality(s) = n + 1
               PROVE  Sum(f, s) \in Int
    <3>1. s # {}
      BY <1>0, <2>0, RemoveCard
    <3>2. Pick(s) \in s /\ Sum(f, s) = f[Pick(s)] + Sum(f, s \ {Pick(s)})
      BY <1>0, <3>1, SumStep
    <3>3. Cardinality(s \ {Pick(s)}) = n
      BY <1>0, <2>0, <3>2, RemoveCard
    <3>4. Sum(f, s \ {Pick(s)}) \in Int
      BY <1>2, <3>3
    <3> QED BY <3>2, <3>4
  <2> QED BY <2>0
<1>3. \A n \in Nat : n \in X
  <2> HIDE DEF X
  <2> QED BY <1>1, <1>2, NatSetInduction
<1> QED BY <1>0, <1>3

\* Any element may be taken out of the sum first.
LEMMA SumRemove ==
    ASSUME NEW S, IsFiniteSet(S), NEW f, \A x \in S : f[x] \in Int
    PROVE  \A x \in S : Sum(f, S) = f[x] + Sum(f, S \ {x})
<1> DEFINE X == {n \in Nat : \A s \in SUBSET S : Cardinality(s) = n =>
                     \A x \in s : Sum(f, s) = f[x] + Sum(f, s \ {x})}
<1>0. \A s \in SUBSET S : IsFiniteSet(s) /\ Cardinality(s) \in Nat
  BY FS_Subset, FS_CardinalityType
<1>a. \A s \in SUBSET S : Sum(f, s) \in Int
  BY <1>0, SumInt
<1>1. 0 \in X
  BY <1>0, FS_EmptySet
<1>2. ASSUME NEW n \in Nat, n \in X PROVE n + 1 \in X
  <2>0. ASSUME NEW s \in SUBSET S, Cardinality(s) = n + 1, NEW x \in s
        PROVE  Sum(f, s) = f[x] + Sum(f, s \ {x})
    <3>1. Pick(s) \in s /\ Sum(f, s) = f[Pick(s)] + Sum(f, s \ {Pick(s)})
      BY <1>0, <2>0, SumStep
    <3>p. PICK p \in s : Sum(f, s) = f[p] + Sum(f, s \ {p})
      BY <3>1
    <3>2. CASE x = p
      BY <3>p, <3>2
    <3>3. CASE x # p
      <4>1. Cardinality(s \ {x}) = n /\ Cardinality(s \ {p}) = n
        BY <1>0, <2>0, RemoveCard
      <4>2. /\ Sum(f, s \ {x}) = f[p] + Sum(f, (s \ {x}) \ {p})
            /\ Sum(f, s \ {p}) = f[x] + Sum(f, (s \ {p}) \ {x})
        BY <1>2, <3>3, <4>1
      <4>3. (s \ {x}) \ {p} = (s \ {p}) \ {x}
        OBVIOUS
      <4>4. Sum(f, (s \ {p}) \ {x}) \in Int /\ f[x] \in Int /\ f[p] \in Int
        BY <1>a, <2>0
      <4>5. Sum(f, (s \ {x}) \ {p}) = Sum(f, (s \ {p}) \ {x})
        BY <4>3
      <4> DEFINE B == Sum(f, (s \ {p}) \ {x})
      <4>6. Sum(f, s) = f[p] + (f[x] + B)
        BY <3>p, <4>2
      <4>7. f[x] + Sum(f, s \ {x}) = f[x] + (f[p] + B)
        BY <4>2, <4>5
      <4>8. f[p] + (f[x] + B) = f[x] + (f[p] + B)
        BY <4>4
      <4> QED BY <4>6, <4>7, <4>8
    <3> QED BY <3>2, <3>3
  <2> QED BY <2>0
<1>3. \A n \in Nat : n \in X
  <2> HIDE DEF X
  <2> QED BY <1>1, <1>2, NatSetInduction
<1> QED BY <1>0, <1>3

\* Adding one element.
LEMMA SumAdd ==
    ASSUME NEW S, IsFiniteSet(S), NEW y, y \notin S,
           NEW f, \A x \in S \cup {y} : f[x] \in Int
    PROVE  Sum(f, S \cup {y}) = f[y] + Sum(f, S)
<1>1. IsFiniteSet(S \cup {y})
  BY FS_AddElement
<1>2. (S \cup {y}) \ {y} = S
  OBVIOUS
<1> QED BY <1>1, <1>2, SumRemove

\* Writing one value changes the sum by the difference.
LEMMA SumUpdate ==
    ASSUME NEW S, IsFiniteSet(S), NEW f, NEW e, NEW y \in S,
           \A x \in S : f[x] \in Int /\ e[x] \in Int,
           \A x \in S \ {y} : e[x] = f[x]
    PROVE  Sum(e, S) = Sum(f, S) + e[y] - f[y]
<1> DEFINE T == S \ {y}
<1>0. IsFiniteSet(T)
  BY FS_RemoveElement
<1>1. Sum(f, S) = f[y] + Sum(f, T) /\ Sum(e, S) = e[y] + Sum(e, T)
  BY SumRemove
<1>2. Sum(e, T) = Sum(f, T)
  BY <1>0, SumAgree
<1>3. Sum(f, T) \in Int
  BY <1>0, SumInt
<1> QED BY <1>1, <1>2, <1>3

\* Two sets that have no element in common.
LEMMA SumUnion ==
    ASSUME NEW S, IsFiniteSet(S), NEW T, IsFiniteSet(T), S \cap T = {},
           NEW f, \A x \in S \cup T : f[x] \in Int
    PROVE  Sum(f, S \cup T) = Sum(f, S) + Sum(f, T)
<1> DEFINE X == {n \in Nat : \A s \in SUBSET S : Cardinality(s) = n =>
                     Sum(f, s \cup T) = Sum(f, s) + Sum(f, T)}
<1>0. \A s \in SUBSET S : IsFiniteSet(s) /\ Cardinality(s) \in Nat
  BY FS_Subset, FS_CardinalityType
<1>a. Sum(f, T) \in Int /\ \A s \in SUBSET S : Sum(f, s) \in Int
  BY <1>0, SumInt
<1>1. 0 \in X
  <2>1. ASSUME NEW s \in SUBSET S, Cardinality(s) = 0
        PROVE  Sum(f, s \cup T) = Sum(f, s) + Sum(f, T)
    <3>1. s = {} /\ s \cup T = T
      BY <1>0, <2>1, FS_EmptySet
    <3>2. Sum(f, s) = 0
      BY <3>1, SumEmpty
    <3> QED BY <1>a, <3>1, <3>2
  <2> QED BY <2>1
<1>2. ASSUME NEW n \in Nat, n \in X PROVE n + 1 \in X
  <2>0. ASSUME NEW s \in SUBSET S, Cardinality(s) = n + 1
        PROVE  Sum(f, s \cup T) = Sum(f, s) + Sum(f, T)
    <3>1. PICK x \in s : Cardinality(s \ {x}) = n
      BY <1>0, <2>0, RemoveCard
    <3>2. Sum(f, (s \ {x}) \cup T) = Sum(f, s \ {x}) + Sum(f, T)
      BY <1>2, <3>1
    <3>3. IsFiniteSet(s \cup T) /\ (s \cup T) \ {x} = (s \ {x}) \cup T
      BY <1>0, FS_Union
    <3>4. Sum(f, s \cup T) = f[x] + Sum(f, (s \ {x}) \cup T)
      BY <3>3, SumRemove
    <3>5. Sum(f, s) = f[x] + Sum(f, s \ {x})
      BY <1>0, SumRemove
    <3>6. f[x] \in Int /\ Sum(f, s \ {x}) \in Int
      BY <1>a
    <3> QED BY <1>a, <3>2, <3>4, <3>5, <3>6
  <2> QED BY <2>0
<1>3. \A n \in Nat : n \in X
  <2> HIDE DEF X
  <2> QED BY <1>1, <1>2, NatSetInduction
<1> QED BY <1>0, <1>3

\* A sum of naturals is one, and no smaller than any of them.
LEMMA SumNat ==
    ASSUME NEW S, IsFiniteSet(S), NEW f, \A x \in S : f[x] \in Nat
    PROVE  Sum(f, S) \in Nat /\ \A x \in S : f[x] <= Sum(f, S)
<1> DEFINE X == {n \in Nat : \A s \in SUBSET S : Cardinality(s) = n => Sum(f, s) \in Nat}
<1>0. \A s \in SUBSET S : IsFiniteSet(s) /\ Cardinality(s) \in Nat
  BY FS_Subset, FS_CardinalityType
<1>a. \A s \in SUBSET S : \A x \in s : Sum(f, s) = f[x] + Sum(f, s \ {x})
  <2> TAKE s \in SUBSET S
  <2>1. \A x \in s : f[x] \in Int
    OBVIOUS
  <2> QED BY <1>0, <2>1, SumRemove
<1>1. 0 \in X
  BY <1>0, FS_EmptySet, SumEmpty
<1>2. ASSUME NEW n \in Nat, n \in X PROVE n + 1 \in X
  <2>0. ASSUME NEW s \in SUBSET S, Cardinality(s) = n + 1
        PROVE  Sum(f, s) \in Nat
    <3>1. PICK x \in s : Cardinality(s \ {x}) = n
      BY <1>0, <2>0, RemoveCard
    <3>2. Sum(f, s \ {x}) \in Nat /\ f[x] \in Nat
      BY <1>2, <3>1
    <3>3. Sum(f, s) = f[x] + Sum(f, s \ {x})
      BY <1>a
    <3> QED BY <3>2, <3>3
  <2> QED BY <2>0
<1>3. \A n \in Nat : n \in X
  <2> HIDE DEF X
  <2> QED BY <1>1, <1>2, NatSetInduction
<1>4. \A s \in SUBSET S : Sum(f, s) \in Nat
  BY <1>0, <1>3
<1>5. ASSUME NEW x \in S PROVE f[x] <= Sum(f, S)
  <2>1. Sum(f, S) = f[x] + Sum(f, S \ {x})
    BY <1>a
  <2>2. Sum(f, S \ {x}) \in Nat /\ f[x] \in Nat
    BY <1>4
  <2> QED BY <2>1, <2>2
<1> QED BY <1>4, <1>5

\* The same value everywhere.
LEMMA SumConst ==
    ASSUME NEW S, IsFiniteSet(S), NEW k \in Int, NEW f, \A x \in S : f[x] = k
    PROVE  Sum(f, S) = Cardinality(S) * k
<1> DEFINE X == {n \in Nat : \A s \in SUBSET S : Cardinality(s) = n => Sum(f, s) = n * k}
<1>0. \A s \in SUBSET S : IsFiniteSet(s) /\ Cardinality(s) \in Nat
  BY FS_Subset, FS_CardinalityType
<1>1. 0 \in X
  <2>1. 0 * k = 0
    OBVIOUS
  <2>2. \A s \in SUBSET S : Cardinality(s) = 0 => Sum(f, s) = 0
    BY <1>0, FS_EmptySet, SumEmpty
  <2> QED BY <2>1, <2>2
<1>2. ASSUME NEW n \in Nat, n \in X PROVE n + 1 \in X
  <2>0. ASSUME NEW s \in SUBSET S, Cardinality(s) = n + 1
        PROVE  Sum(f, s) = (n + 1) * k
    <3>1. PICK x \in s : Cardinality(s \ {x}) = n
      BY <1>0, <2>0, RemoveCard
    <3>2. Sum(f, s \ {x}) = n * k /\ f[x] = k
      BY <1>2, <3>1
    <3>3. Sum(f, s) = f[x] + Sum(f, s \ {x})
      BY <1>0, SumRemove
    <3>4. (n + 1) * k = k + n * k
      OBVIOUS
    <3> QED BY <3>2, <3>3, <3>4
  <2> QED BY <2>0
<1>3. \A n \in Nat : n \in X
  <2> HIDE DEF X
  <2> QED BY <1>1, <1>2, NatSetInduction
<1> QED BY <1>0, <1>3

-----------------------------------------------------------------------------
(* Integer division.                                                       *)

\* Quotient and remainder of naturals.
LEMMA DivMod ==
    ASSUME NEW a \in Nat, NEW b \in Nat \ {0}
    PROVE  /\ a \div b \in Nat
           /\ a % b \in Nat /\ a % b < b
           /\ a = b * (a \div b) + (a % b)
<1>1. a \div b \in Nat
  OBVIOUS
<1>2. a % b \in 0..(b - 1)
  OBVIOUS
<1>3. a = b * (a \div b) + (a % b)
  OBVIOUS
<1> QED BY <1>1, <1>2, <1>3

\* A quotient is bounded by what bounds the dividend.
LEMMA DivBound ==
    ASSUME NEW a \in Nat, NEW b \in Nat \ {0}, NEW k \in Nat, a <= b * k
    PROVE  a \div b <= k
OBVIOUS

\* Dividing a multiple is exact.
LEMMA DivExact ==
    ASSUME NEW a \in Nat, NEW b \in Nat \ {0}
    PROVE  (b * a) \div b = a
OBVIOUS

\* A product is monotone in a factor.
LEMMA TimesMonotone ==
    ASSUME NEW a \in Nat, NEW b \in Nat, NEW k \in Nat, a <= b
    PROVE  /\ k * a \in Nat /\ k * b \in Nat /\ k * a <= k * b
           /\ a * k \in Nat /\ b * k \in Nat /\ a * k <= b * k
OBVIOUS

\* A common factor can be dropped.
LEMMA TimesCancel ==
    ASSUME NEW a \in Nat, NEW b \in Nat, NEW k \in Nat \ {0}, k * a <= k * b
    PROVE  a <= b
OBVIOUS

-----------------------------------------------------------------------------
(* Banker's rounding of the decimals of module Dec, for every precision P. *)

\* chopPrecisionAndRound of that module.
Rounded(x, P) ==
    LET q == x \div P
        r == x % P
    IN  IF 2 * r < P \/ (2 * r = P /\ q % 2 = 0) THEN q ELSE q + 1

\* Rounding is off by half a unit at most.
LEMMA RoundedNearest ==
    ASSUME NEW P \in Nat \ {0}, NEW x \in Nat
    PROVE  /\ Rounded(x, P) \in Nat
           /\ 2 * (P * Rounded(x, P)) <= 2 * x + P
           /\ 2 * x <= 2 * (P * Rounded(x, P)) + P
<1> DEFINE q == x \div P
           r == x % P
<1>1. q \in Nat /\ r \in Nat /\ r < P /\ x = P * q + r
  BY DivMod
<1>2. Rounded(x, P) = IF 2 * r < P \/ (2 * r = P /\ q % 2 = 0) THEN q ELSE q + 1
  BY DEF Rounded
<1>3. P * (q + 1) = P * q + P
  BY <1>1
<1>4. P * q \in Nat
  BY <1>1
<1> HIDE DEF q, r
<1>5. CASE Rounded(x, P) = q /\ 2 * r <= P
  BY <1>1, <1>4, <1>5
<1>6. CASE Rounded(x, P) = q + 1 /\ 2 * r >= P
  BY <1>1, <1>3, <1>4, <1>6
<1> QED BY <1>1, <1>2, <1>5, <1>6

\* So it does not pass a whole number of units.
LEMMA RoundedBound ==
    ASSUME NEW P \in Nat \ {0}, NEW x \in Nat, NEW n \in Nat, x <= P * n
    PROVE  Rounded(x, P) \in Nat /\ Rounded(x, P) <= n
<1> DEFINE c == Rounded(x, P)
<1>1. c \in Nat /\ 2 * (P * c) <= 2 * x + P
  BY RoundedNearest
<1> HIDE DEF c
<1>2. c <= n
  <2> SUFFICES ASSUME c >= n + 1 PROVE FALSE
    BY <1>1
  <2>1. P * (n + 1) <= P * c
    BY <1>1, TimesMonotone
  <2>2. P * (n + 1) = P * n + P
    OBVIOUS
  <2>3. P * n \in Nat /\ P * c \in Nat
    BY <1>1
  <2> QED BY <1>1, <2>1, <2>2, <2>3
<1> QED BY <1>1, <1>2 DEF c

\* It is exact on whole numbers of units.
LEMMA RoundedExact ==
    ASSUME NEW P \in Nat \ {0}, NEW n \in Nat
    PROVE  Rounded(n * P, P) = n
<1> DEFINE c == Rounded(n * P, P)
<1>1. n * P \in Nat /\ n * P = P * n
  OBVIOUS
<1>2. c \in Nat /\ c <= n
  BY <1>1, RoundedBound
<1>3. 2 * (n * P) <= 2 * (P * c) + P
  BY <1>1, RoundedNearest
<1> HIDE DEF c
<1>4. n <= c
  <2> SUFFICES ASSUME c + 1 <= n PROVE FALSE
    BY <1>2
  <2>1. P * (c + 1) <= P * n
    BY <1>2, TimesMonotone
  <2>2. P * (c + 1) = P * c + P /\ P * c \in Nat
    BY <1>2
  <2> QED BY <1>1, <1>3, <2>1, <2>2
<1> QED BY <1>2, <1>4 DEF c

\* A rounded quotient of decimals, truncated, does not pass a whole number that
\* bounds the exact quotient: the two roundings never push it over.
LEMMA QuotientBound ==
    ASSUME NEW P \in Nat \ {0}, NEW a \in Nat, NEW b \in Nat \ {0}, NEW k \in Nat, a <= b * k
    PROVE  LET q == Rounded((a * P * P) \div b, P)
           IN  q \in Nat /\ q <= k * P /\ q \div P \in Nat /\ q \div P <= k
<1> DEFINE y == (a * P * P) \div b
           q == Rounded(y, P)
<1>1. a * P * P \in Nat /\ a * P * P <= b * (P * (k * P))
  <2>1. P * P \in Nat
    OBVIOUS
  <2>2. a * (P * P) <= (b * k) * (P * P) /\ a * (P * P) \in Nat
    BY <2>1, TimesMonotone
  <2>3. a * P * P = a * (P * P)
    OBVIOUS
  <2>4. (b * k) * (P * P) = b * (P * (k * P))
    OBVIOUS
  <2> QED BY <2>2, <2>3, <2>4
<1>2. k * P \in Nat /\ P * (k * P) \in Nat
  OBVIOUS
<1>3. y \in Nat /\ y <= P * (k * P)
  BY <1>1, <1>2, DivBound, DivMod
<1> HIDE DEF y
<1>4. q \in Nat /\ q <= k * P
  BY <1>2, <1>3, RoundedBound
<1> HIDE DEF q
<1>5. q \div P \in Nat /\ q \div P <= k
  <2>1. k * P = P * k
    OBVIOUS
  <2> QED BY <1>4, <2>1, DivBound, DivMod
<1> QED BY <1>4, <1>5 DEF q, y
=============================================================================
