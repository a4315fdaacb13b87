----------------------------- MODULE WireProofs -----------------------------
(***************************************************************************)
(* Proofs about the generated decoders and encoders, for every width of    *)
(* the words, every content of the fields and every number of entries.     *)
(*                                                                         *)
(* The order is that of the code: varints, blocks, skip, one entry; then   *)
(* the loop of Unmarshal, which advances in every iteration and does not   *)
(* look behind the entry it reads, so that a longer input only adds steps; *)
(* then what a write leaves in the bytes and the decoder makes of it; then *)
(* sizes and the encoders.  Messages are nested two deep at most, and what *)
(* is said of them is proved by depth: for 0, and for d from d - 1.        *)
(*                                                                         *)
(* Loops are recursive functions: a lemma about one takes its run, shows   *)
(* what each iteration keeps, and that it ends before the bound.  Facts    *)
(* that hold of all slices are stated as predicates with names, which the  *)
(* proofs that use them need not open.                                     *)
(***************************************************************************)
EXTENDS WireDecode, Arithmetic

\* f iterates h on S from a.
IsIteration(f, S, a, h) ==
    f \in [Nat -> S] /\ f[0] = a /\ \A n \in Nat : f[n + 1] = h[f[n]]

\* Every function of a set into itself can be iterated.
LEMMA Iterates ==
    ASSUME NEW S, NEW a \in S, NEW h \in [S -> S]
    PROVE  \E f : IsIteration(f, S, a, h)
<1> DEFINE Solves(g, n) == /\ g \in [0..n -> S]
                           /\ g[0] = a
                           /\ \A k \in 0..(n - 1) : g[k + 1] = h[g[k]]
           X == {n \in Nat : \E g : Solves(g, n)}
<1>1. 0 \in X
  <2>1. Solves([k \in 0..0 |-> a], 0)
    OBVIOUS
  <2> QED BY <2>1
<1>2. ASSUME NEW n \in Nat, n \in X PROVE n + 1 \in X
  <2>1. PICK g : Solves(g, n)
    BY <1>2
  <2> DEFINE e == [k \in 0..(n + 1) |-> IF k = n + 1 THEN h[g[n]] ELSE g[k]]
  <2>2. e \in [0..(n + 1) -> S]
    BY <2>1
  <2>3. e[0] = a
    BY <2>1
  <2>4. ASSUME NEW k \in 0..n PROVE e[k + 1] = h[e[k]]
    BY <2>1
  <2>5. Solves(e, n + 1)
    BY <2>2, <2>3, <2>4
  <2>6. n + 1 \in Nat /\ \E d : Solves(d, n + 1)
    <3> HIDE DEF Solves, e
    <3> QED BY <2>5
  <2> HIDE DEF Solves
  <2> QED BY <2>6
<1>3. \A n \in Nat : \E g : Solves(g, n)
  <2>1. \A n \in Nat : n \in X
    <3> HIDE DEF X
    <3> QED BY <1>1, <1>2, NatSetInduction
  <2> QED BY <2>1
<1> DEFINE sol == [n \in Nat |-> CHOOSE g : Solves(g, n)]
           f == [n \in Nat |-> sol[n][n]]
<1>4. \A n \in Nat : Solves(sol[n], n)
  BY <1>3
<1> HIDE DEF sol
<1>5. ASSUME NEW n \in Nat PROVE sol[n + 1][n] = sol[n][n]
  <2> DEFINE Y == {k \in Nat : k <= n => sol[n + 1][k] = sol[n][k]}
  <2>1. 0 \in Y
    BY <1>4
  <2>2. ASSUME NEW k \in Nat, k \in Y PROVE k + 1 \in Y
    <3>1. SUFFICES ASSUME k + 1 <= n PROVE sol[n + 1][k + 1] = sol[n][k + 1]
      OBVIOUS
    <3>2. sol[n + 1][k] = sol[n][k]
      BY <2>2, <3>1
    <3>3. sol[n + 1][k + 1] = h[sol[n + 1][k]]
      BY <1>4, <3>1
    <3>4. sol[n][k + 1] = h[sol[n][k]]
      BY <1>4, <3>1
    <3> QED BY <3>2, <3>3, <3>4
  <2>3. \A k \in Nat : k \in Y
    <3> HIDE DEF Y
    <3> QED BY <2>1, <2>2, NatSetInduction
  <2> QED BY <2>3
<1>6. f \in [Nat -> S] /\ f[0] = a
  BY <1>4
<1>7. ASSUME NEW n \in Nat PROVE f[n + 1] = h[f[n]]
  <2>1. sol[n + 1][n + 1] = h[sol[n + 1][n]]
    BY <1>4
  <2> QED BY <2>1, <1>5
<1>8. IsIteration(f, S, a, h)
  BY <1>6, <1>7 DEF IsIteration
<1> QED BY <1>8

\* Powers of two.
LEMMA Pow2Def ==
    /\ Pow2 \in [Nat -> Nat \ {0}]
    /\ Pow2[0] = 1
    /\ \A n \in Nat : Pow2[n + 1] = 2 * Pow2[n]
<1> DEFINE S == Nat \ {0}
           one == 1
           h == [x \in S |-> 2 * x]
<1>1. one \in S /\ h \in [S -> S]
  OBVIOUS
<1>2. PICK f : IsIteration(f, S, one, h)
  <2> HIDE DEF h, S, one
  <2> QED BY <1>1, Iterates
<1>a. f \in [Nat -> S] /\ f[0] = 1 /\ \A n \in Nat : f[n + 1] = 2 * f[n]
  <2>1. f \in [Nat -> S] /\ f[0] = 1 /\ \A n \in Nat : f[n + 1] = h[f[n]]
    BY <1>2 DEF IsIteration
  <2> QED BY <2>1
<1>3. f = [n \in Nat |-> IF n = 0 THEN 1 ELSE 2 * f[n - 1]]
  <2>1. ASSUME NEW n \in Nat PROVE f[n] = IF n = 0 THEN 1 ELSE 2 * f[n - 1]
    <3>1. CASE n = 0
      BY <1>a, <3>1
    <3>2. CASE n # 0
      <4>1. n - 1 \in Nat /\ (n - 1) + 1 = n
        BY <3>2
      <4> QED BY <1>a, <3>2, <4>1
    <3> QED BY <3>1, <3>2
  <2> QED BY <1>a, <2>1
<1>4. Pow2 = [n \in Nat |-> IF n = 0 THEN 1 ELSE 2 * Pow2[n - 1]]
  BY <1>3 DEF Pow2
<1>5. \A n \in Nat : Pow2[n] = IF n = 0 THEN 1 ELSE 2 * Pow2[n - 1]
  BY <1>4
<1>6. ASSUME NEW n \in Nat PROVE Pow2[n + 1] = 2 * Pow2[n]
  BY <1>5
<1>7. Pow2[0] = 1
  BY <1>5
<1> DEFINE X == {n \in Nat : Pow2[n] \in Nat \ {0}}
<1>8. \A n \in Nat : n \in X
  <2>1. 0 \in X
    BY <1>7
  <2>2. ASSUME NEW n \in Nat, n \in X PROVE n + 1 \in X
    BY <1>6, <2>2
  <2> HIDE DEF X
  <2> QED BY <2>1, <2>2, NatSetInduction
<1>9. Pow2 \in [Nat -> Nat \ {0}]
  BY <1>4, <1>8
<1> QED BY <1>6, <1>7, <1>9

\* Induction from n on.
LEMMA NatSetInductionFrom ==
    ASSUME NEW X, NEW m \in Nat, m \in X, \A n \in Nat : n >= m /\ n \in X => n + 1 \in X
    PROVE  \A n \in Nat : n >= m => n \in X
<1> DEFINE Y == {n \in Nat : n >= m => n \in X}
<1>1. 0 \in Y
  OBVIOUS
<1>2. ASSUME NEW n \in Nat, n \in Y PROVE n + 1 \in Y
  <2>1. CASE n + 1 = m
    BY <2>1
  <2>2. CASE n + 1 # m
    BY <1>2, <2>2
  <2> QED BY <2>1, <2>2
<1>3. \A n \in Nat : n \in Y
  <2> HIDE DEF Y
  <2> QED BY <1>1, <1>2, NatSetInduction
<1> QED BY <1>3

\* Powers of two are positive.
LEMMA Pow2Type == \A n \in Nat : Pow2[n] \in Nat /\ Pow2[n] > 0
BY Pow2Def

\* Exponents add up.
LEMMA Pow2Add == \A a, c \in Nat : Pow2[a + c] = Pow2[a] * Pow2[c]
<1> TAKE a \in Nat
<1> DEFINE X == {c \in Nat : Pow2[a + c] = Pow2[a] * Pow2[c]}
<1>1. 0 \in X
  BY Pow2Def
<1>2. ASSUME NEW c \in Nat, c \in X PROVE c + 1 \in X
  <2>1. Pow2[(a + c) + 1] = 2 * Pow2[a + c] /\ Pow2[c + 1] = 2 * Pow2[c]
    BY Pow2Def
  <2>2. a + (c + 1) = (a + c) + 1
    OBVIOUS
  <2>3. Pow2[a] \in Nat /\ Pow2[c] \in Nat
    BY Pow2Type
  <2>4. 2 * (Pow2[a] * Pow2[c]) = Pow2[a] * (2 * Pow2[c])
    BY <2>3
  <2> QED BY <1>2, <2>1, <2>2, <2>4
<1>3. \A c \in Nat : c \in X
  <2> HIDE DEF X
  <2> QED BY <1>1, <1>2, NatSetInduction
<1> QED BY <1>3

\* Pow2 grows.
LEMMA Pow2Less == \A a, c \in Nat : a < c => 2 * Pow2[a] <= Pow2[c]
<1> TAKE a \in Nat
<1> DEFINE X == {c \in Nat : 2 * Pow2[a] <= Pow2[c]}
<1>1. a + 1 \in X
  BY Pow2Def
<1>2. ASSUME NEW c \in Nat, c >= a + 1, c \in X PROVE c + 1 \in X
  <2>1. Pow2[c + 1] = 2 * Pow2[c] /\ Pow2[c] \in Nat /\ Pow2[a] \in Nat
    BY Pow2Def
  <2> QED BY <1>2, <2>1
<1>3. \A c \in Nat : c >= a + 1 => c \in X
  <2> HIDE DEF X
  <2>1. a + 1 \in Nat
    OBVIOUS
  <2> QED BY <1>1, <1>2, <2>1, NatSetInductionFrom
<1> QED BY <1>3

\* Comparing powers compares the exponents.
LEMMA Pow2Order == \A a, c \in Nat : Pow2[a] < Pow2[c] <=> a < c
<1> TAKE a, c \in Nat
<1>1. Pow2[a] > 0 /\ Pow2[a] \in Nat /\ Pow2[c] \in Nat /\ Pow2[c] > 0
  BY Pow2Type
<1>2. CASE a < c
  BY <1>1, <1>2, Pow2Less
<1>3. CASE a = c
  BY <1>1, <1>3
<1>4. CASE c < a
  BY <1>1, <1>4, Pow2Less
<1> QED BY <1>2, <1>3, <1>4

\* The widths of the words.
LEMMA Widths ==
    /\ VarintBits \in Nat \ {0} /\ WordBits \in Nat \ {0} /\ Int32Bits \in Nat \ {0}
    /\ VarintBits < Int32Bits /\ Int32Bits < WordBits /\ 2 * VarintBits < WordBits
    /\ Base \in Nat /\ Base > 31
    /\ Int32Size \in Nat /\ 2 * Base <= Int32Size
    /\ MaxInt \in Nat /\ Int32Size <= MaxInt + 1
    /\ WordSize = 2 * (MaxInt + 1)
<1>1. VarintBits \in Nat /\ WordBits \in Nat /\ Int32Bits \in Nat /\ Pow2[VarintBits] > 31
      /\ VarintBits < Int32Bits /\ Int32Bits < WordBits /\ 2 * VarintBits < WordBits
  BY WidthAssumption
<1>2. VarintBits # 0
  BY <1>1, Pow2Def
<1>3. WordBits - 1 \in Nat /\ (WordBits - 1) + 1 = WordBits
  BY <1>1
<1>4. Pow2[WordBits] = 2 * Pow2[WordBits - 1]
  BY <1>3, Pow2Def
<1>5. Pow2[VarintBits] \in Nat /\ Pow2[Int32Bits] \in Nat
      /\ Pow2[WordBits - 1] \in Nat /\ Pow2[WordBits - 1] > 0
  BY <1>1, <1>3, Pow2Type
<1>6. 2 * Pow2[VarintBits] <= Pow2[Int32Bits]
  BY <1>1, Pow2Less
<1>7. Pow2[Int32Bits] <= Pow2[WordBits - 1]
  <2>1. CASE Int32Bits = WordBits - 1
    BY <2>1, <1>5
  <2>2. CASE Int32Bits < WordBits - 1
    BY <2>2, <1>1, <1>3, <1>5, Pow2Less
  <2> QED BY <1>1, <2>1, <2>2
<1> QED BY <1>1, <1>2, <1>4, <1>5, <1>6, <1>7 DEF Base, Int32Size, MaxInt, WordSize

\* A quotient by the base is smaller.
LEMMA DivSmaller ==
    ASSUME NEW v \in Nat, v >= Base
    PROVE  v \div Base \in Nat /\ v \div Base < v /\ v \div Base > 0
<1>1. Base \in Nat /\ Base > 31
  BY Widths
<1> DEFINE q == v \div Base
<1>2. q \in Nat /\ v = Base * q + (v % Base) /\ v % Base \in Nat /\ v % Base < Base
  BY <1>1
<1> HIDE DEF q
<1>3. q > 0
  <2>1. q # 0
    BY <1>1, <1>2
  <2> QED BY <1>2, <2>1
<1>4. Base * q >= 2 * q
  BY <1>1, <1>2
<1>5. q < v
  BY <1>1, <1>2, <1>3, <1>4
<1> QED BY <1>2, <1>3, <1>5 DEF q

\* What encodeVarint writes first.
Low(v) == <<(v % Base) + Base>>

\* It is one byte, with the continuation bit.
LEMMA LowType ==
    ASSUME NEW v \in Nat
    PROVE  Low(v) \in Seq(Byte) /\ Len(Low(v)) = 1 /\ Low(v)[1] = (v % Base) + Base
<1>1. Base \in Nat /\ Base > 31
  BY Widths
<1>2. v % Base \in 0..(Base - 1)
  BY <1>1
<1>3. (v % Base) + Base \in Byte
  BY <1>1, <1>2 DEF Byte
<1> QED BY <1>3 DEF Low

\* encodeVarint is the function its equation says.
LEMMA encodeVarintDef ==
    /\ encodeVarint \in [Nat -> Seq(Byte)]
    /\ \A v \in Nat : encodeVarint[v] =
          IF v >= Base THEN Low(v) \o encodeVarint[v \div Base] ELSE <<v>>
<1> DEFINE S == [Nat -> Seq(Byte)]
           Enc(g, v) == IF v >= Base THEN Low(v) \o g[v \div Base] ELSE <<v>>
           a == [v \in Nat |-> <<>>]
           h == [g \in S |-> [v \in Nat |-> Enc(g, v)]]
<1>0. Base \in Nat /\ Base > 31
  BY Widths
<1>1. a \in S
  OBVIOUS
<1>2. ASSUME NEW g \in S, NEW v \in Nat PROVE Enc(g, v) \in Seq(Byte)
  <2>1. CASE v >= Base
    <3>1. v \div Base \in Nat
      BY <2>1, DivSmaller
    <3>2. g[v \div Base] \in Seq(Byte) /\ Low(v) \in Seq(Byte)
      BY <3>1, LowType
    <3> QED BY <2>1, <3>2
  <2>2. CASE ~(v >= Base)
    <3>1. v \in Byte
      BY <1>0, <2>2 DEF Byte
    <3> QED BY <2>2, <3>1
  <2> QED BY <2>1, <2>2
<1>3. h \in [S -> S]
  BY <1>2
<1>4. PICK f : f \in [Nat -> S] /\ f[0] = a /\ \A n \in Nat : f[n + 1] = h[f[n]]
  <2> HIDE DEF S, a, h
  <2>1. \E f : IsIteration(f, S, a, h)
    BY <1>1, <1>3, Iterates
  <2> QED BY <2>1 DEF IsIteration
<1>5. \A n, v \in Nat : f[n + 1][v] = Enc(f[n], v)
  <2> HIDE DEF Enc
  <2> TAKE n, v \in Nat
  <2>1. f[n] \in S /\ f[n + 1] = h[f[n]]
    BY <1>4
  <2>2. h[f[n]] = [w \in Nat |-> Enc(f[n], w)]
    BY <2>1
  <2> QED BY <2>1, <2>2
<1>6. \A n \in Nat : \A v \in Nat : v < n => f[n + 1][v] = f[n][v]
  <2> DEFINE X == {n \in Nat : \A v \in Nat : v < n => f[n + 1][v] = f[n][v]}
  <2>1. 0 \in X
    OBVIOUS
  <2>2. ASSUME NEW n \in Nat, n \in X PROVE n + 1 \in X
    <3>1. ASSUME NEW v \in Nat, v < n + 1 PROVE f[(n + 1) + 1][v] = f[n + 1][v]
      <4>1. f[(n + 1) + 1][v] = Enc(f[n + 1], v) /\ f[n + 1][v] = Enc(f[n], v)
        BY <1>5
      <4>2. CASE v >= Base
        <5>1. v \div Base \in Nat /\ v \div Base < n
          BY <3>1, <4>2, DivSmaller
        <5>2. f[n + 1][v \div Base] = f[n][v \div Base]
          BY <2>2, <5>1
        <5> QED BY <4>1, <5>2
      <4>3. CASE ~(v >= Base)
        BY <4>1, <4>3
      <4> QED BY <4>2, <4>3
    <3> QED BY <3>1
  <2>3. \A n \in Nat : n \in X
    <3> HIDE DEF X
    <3> QED BY <2>1, <2>2, NatSetInduction
  <2> QED BY <2>3
<1>7. \A v \in Nat : \A n \in Nat : n >= v + 1 => f[n][v] = f[v + 1][v]
  <2> TAKE v \in Nat
  <2> DEFINE X == {n \in Nat : f[n][v] = f[v + 1][v]}
  <2>1. v + 1 \in Nat /\ v + 1 \in X
    OBVIOUS
  <2>2. ASSUME NEW n \in Nat, n >= v + 1, n \in X PROVE n + 1 \in X
    <3>1. v < n
      BY <2>2
    <3>2. f[n + 1][v] = f[n][v]
      BY <1>6, <3>1
    <3> QED BY <2>2, <3>2
  <2>3. \A n \in Nat : n >= v + 1 => n \in X
    <3> HIDE DEF X
    <3> QED BY <2>1, <2>2, NatSetInductionFrom
  <2> QED BY <2>3
<1> DEFINE e == [v \in Nat |-> f[v + 1][v]]
<1>8. ASSUME NEW v \in Nat PROVE e[v] = Enc(e, v)
  <2>1. e[v] = Enc(f[v], v)
    BY <1>5
  <2>2. CASE v >= Base
    <3>1. v \div Base \in Nat /\ v >= (v \div Base) + 1
      BY <2>2, DivSmaller
    <3>2. f[v][v \div Base] = e[v \div Base]
      BY <1>7, <3>1
    <3> QED BY <2>1, <2>2, <3>2
  <2>3. CASE ~(v >= Base)
    BY <2>1, <2>3
  <2> QED BY <2>2, <2>3
<1>9. e = [v \in Nat |-> Enc(e, v)]
  <2> HIDE DEF Enc
  <2>1. e = [v \in Nat |-> e[v]]
    OBVIOUS
  <2> QED BY <1>8, <2>1
<1>10. encodeVarint = [v \in Nat |-> Enc(encodeVarint, v)]
  <2> HIDE DEF e
  <2> QED BY <1>9 DEF encodeVarint, Low
<1>11. \A v \in Nat : encodeVarint[v] = Enc(encodeVarint, v)
  <2> HIDE DEF Enc
  <2> QED BY <1>10
<1> DEFINE X == {n \in Nat : \A v \in Nat : v < n => encodeVarint[v] \in Seq(Byte)}
<1>12. \A n \in Nat : n \in X
  <2>1. 0 \in X
    OBVIOUS
  <2>2. ASSUME NEW n \in Nat, n \in X PROVE n + 1 \in X
    <3>1. ASSUME NEW v \in Nat, v < n + 1 PROVE encodeVarint[v] \in Seq(Byte)
      <4>1. encodeVarint[v] = Enc(encodeVarint, v)
        BY <1>11
      <4>2. CASE v >= Base
        <5>1. v \div Base \in Nat /\ v \div Base < n
          BY <3>1, <4>2, DivSmaller
        <5>2. encodeVarint[v \div Base] \in Seq(Byte) /\ Low(v) \in Seq(Byte)
          BY <2>2, <5>1, LowType
        <5> QED BY <4>1, <4>2, <5>2
      <4>3. CASE ~(v >= Base)
        <5>1. v \in Byte
          BY <1>0, <4>3 DEF Byte
        <5> QED BY <4>1, <4>3, <5>1
      <4> QED BY <4>2, <4>3
    <3> QED BY <3>1
  <2> HIDE DEF X
  <2> QED BY <2>1, <2>2, NatSetInduction
<1>13. ASSUME NEW v \in Nat PROVE encodeVarint[v] \in Seq(Byte)
  <2>1. v + 1 \in Nat
    OBVIOUS
  <2>2. v + 1 \in X
    <3> HIDE DEF X
    <3> QED BY <1>12, <2>1
  <2> QED BY <2>2
<1>14. encodeVarint \in [Nat -> Seq(Byte)]
  <2> HIDE DEF Enc
  <2> QED BY <1>10, <1>13
<1> QED BY <1>11, <1>14

\* The weight of the byte with index k in a varint.
Place(k) == Pow2[k * VarintBits]

\* The weights of consecutive bytes.
LEMMA PlaceNext ==
    /\ Place(0) = 1
    /\ \A k \in Nat : /\ Place(k) \in Nat /\ Place(k) > 0
                      /\ Place(k + 1) = Base * Place(k)
<1>1. VarintBits \in Nat
  BY Widths
<1>2. Place(0) = 1
  BY <1>1, Pow2Def DEF Place
<1>3. ASSUME NEW k \in Nat
      PROVE  Place(k) \in Nat /\ Place(k) > 0 /\ Place(k + 1) = Base * Place(k)
  <2>1. k * VarintBits \in Nat /\ (k + 1) * VarintBits = VarintBits + k * VarintBits
    BY <1>1
  <2>2. Pow2[VarintBits + k * VarintBits] = Pow2[VarintBits] * Pow2[k * VarintBits]
    BY <1>1, <2>1, Pow2Add
  <2> QED BY <2>1, <2>2, Pow2Type DEF Place, Base
<1> QED BY <1>2, <1>3

\* How many bytes encodeVarint writes.
LEMMA EncodeLen ==
    \A v \in Nat :
        /\ encodeVarint[v] \in Seq(Byte)
        /\ Len(encodeVarint[v]) \in Nat /\ Len(encodeVarint[v]) >= 1
        /\ v < Place(Len(encodeVarint[v]))
        /\ Len(encodeVarint[v]) > 1 => Place(Len(encodeVarint[v]) - 1) <= v
<1> DEFINE P(v) == /\ encodeVarint[v] \in Seq(Byte)
                   /\ Len(encodeVarint[v]) \in Nat /\ Len(encodeVarint[v]) >= 1
                   /\ v < Place(Len(encodeVarint[v]))
                   /\ Len(encodeVarint[v]) > 1 => Place(Len(encodeVarint[v]) - 1) <= v
           X == {n \in Nat : \A v \in Nat : v < n => P(v)}
<1>0. Base \in Nat /\ Base > 31
  BY Widths
<1>1. 0 \in X
  OBVIOUS
<1>2. ASSUME NEW n \in Nat, n \in X PROVE n + 1 \in X
  <2>1. ASSUME NEW v \in Nat, v < n + 1 PROVE P(v)
    <3>0. encodeVarint[v] \in Seq(Byte)
      BY encodeVarintDef
    <3>1. CASE v >= Base
      <4> DEFINE q == v \div Base
                 l == Len(encodeVarint[q])
      <4>1. q \in Nat /\ q < n /\ q > 0
        BY <2>1, <3>1, DivSmaller
      <4>2. P(q)
        <5> HIDE DEF q, P
        <5> QED BY <1>2, <4>1
      <4>3. encodeVarint[v] = Low(v) \o encodeVarint[q]
        BY <3>1, encodeVarintDef
      <4>4. Len(encodeVarint[v]) = 1 + l
        BY <4>2, <4>3, LowType
      <4>5. v = Base * q + (v % Base) /\ v % Base \in Nat /\ v % Base < Base
        BY <1>0
      <4>6. l \in Nat /\ l >= 1 /\ q < Place(l) /\ (l > 1 => Place(l - 1) <= q)
        BY <4>2
      <4> HIDE DEF q, l
      <4>7. Place(1 + l) = Base * Place(l) /\ Place(l) \in Nat
        <5>1. 1 + l = l + 1
          BY <4>6
        <5> QED BY <4>6, <5>1, PlaceNext
      <4>8. v < Place(1 + l)
        <5>1. Base * (q + 1) <= Base * Place(l)
          BY <1>0, <4>1, <4>6, <4>7
        <5>2. Base * (q + 1) = Base * q + Base /\ Base * q \in Nat
          BY <1>0, <4>1
        <5> QED BY <1>0, <4>5, <4>7, <5>1, <5>2
      <4>9. Place(l) <= v
        <5>1. CASE l = 1
          <6>1. Place(1) = Base
            <7>1. Place(0 + 1) = Base * Place(0) /\ Place(0) = 1
              BY PlaceNext
            <7> QED BY <7>1, <1>0
          <6> QED BY <3>1, <5>1, <6>1
        <5>2. CASE l > 1
          <6>1. l - 1 \in Nat /\ (l - 1) + 1 = l
            BY <4>6, <5>2
          <6>2. Place(l) = Base * Place(l - 1) /\ Place(l - 1) \in Nat
            BY <6>1, PlaceNext
          <6>3. Base * Place(l - 1) <= Base * q /\ Base * q \in Nat
            BY <1>0, <4>1, <4>6, <5>2, <6>2
          <6> QED BY <1>0, <4>5, <4>7, <6>2, <6>3
        <5> QED BY <4>6, <5>1, <5>2
      <4> QED BY <3>0, <4>4, <4>6, <4>8, <4>9
    <3>2. CASE ~(v >= Base)
      <4>1. encodeVarint[v] = <<v>>
        BY <3>2, encodeVarintDef
      <4>2. Len(encodeVarint[v]) = 1
        BY <4>1
      <4>3. Place(0 + 1) = Base * Place(0) /\ Place(0) = 1
        BY PlaceNext
      <4>4. Place(1) = Base
        BY <4>3, <1>0
      <4> QED BY <1>0, <3>0, <3>2, <4>2, <4>4
    <3> QED BY <3>1, <3>2
  <2> HIDE DEF P
  <2> QED BY <2>1
<1>3. \A n \in Nat : n \in X
  <2> HIDE DEF X
  <2> QED BY <1>1, <1>2, NatSetInduction
<1>4. ASSUME NEW v \in Nat PROVE P(v)
  <2>1. v + 1 \in Nat /\ v < v + 1
    OBVIOUS
  <2>2. v + 1 \in X
    <3> HIDE DEF X
    <3> QED BY <1>3, <2>1
  <2> HIDE DEF P
  <2> QED BY <2>1, <2>2
<1> QED BY <1>4

\* The number of bits of a word.
LEMMA Len64Def ==
    ASSUME NEW x \in Nat, x < WordSize
    PROVE  /\ Len64(x) \in 0..WordBits
           /\ x < Pow2[Len64(x)]
           /\ \A k \in 0..(Len64(x) - 1) : x >= Pow2[k]
<1> DEFINE Bits(n) == x < Pow2[n] /\ \A k \in 0..(n - 1) : x >= Pow2[k]
           X == {n \in Nat : x >= Pow2[n] \/ \E m \in 0..n : Bits(m)}
<1>0. WordBits \in Nat
  BY Widths
<1>1. 0 \in X
  <2>1. CASE x >= Pow2[0]
    BY <2>1
  <2>2. CASE ~(x >= Pow2[0])
    <3>1. Bits(0)
      BY <2>2, Pow2Def
    <3> QED BY <3>1
  <2> QED BY <2>1, <2>2
<1>2. ASSUME NEW n \in Nat, n \in X PROVE n + 1 \in X
  <2>1. CASE \E m \in 0..n : Bits(m)
    <3>1. PICK m \in 0..n : Bits(m)
      BY <2>1
    <3>2. m \in 0..(n + 1)
      OBVIOUS
    <3> HIDE DEF Bits
    <3> QED BY <3>1, <3>2
  <2>2. CASE x >= Pow2[n] /\ x < Pow2[n + 1]
    <3>1. \A k \in 0..n : x >= Pow2[k]
      <4> TAKE k \in 0..n
      <4>1. Pow2[k] <= Pow2[n] /\ Pow2[k] \in Nat /\ Pow2[n] \in Nat
        <5>1. CASE k = n
          BY <5>1, Pow2Type
        <5>2. CASE k < n
          BY <5>2, Pow2Less, Pow2Type
        <5> QED BY <5>1, <5>2
      <4> QED BY <2>2, <4>1
    <3>2. Bits(n + 1)
      BY <2>2, <3>1
    <3> HIDE DEF Bits
    <3> QED BY <3>2
  <2>3. Pow2[n + 1] \in Nat
    BY Pow2Type
  <2> QED BY <1>2, <2>1, <2>2, <2>3
<1>3. \A n \in Nat : n \in X
  <2> HIDE DEF X
  <2> QED BY <1>1, <1>2, NatSetInduction
<1>4. WordBits \in X
  <2> HIDE DEF X
  <2> QED BY <1>0, <1>3
<1>5. \E m \in 0..WordBits : Bits(m)
  <2>1. ~(x >= Pow2[WordBits])
    BY <1>0, Pow2Type DEF WordSize
  <2> QED BY <1>4, <2>1
<1>6. Len64(x) \in 0..WordBits /\ Bits(Len64(x))
  BY <1>5 DEF Len64
<1> QED BY <1>6

\* A quotient is what its remainder says.
LEMMA DivUnique ==
    ASSUME NEW a \in Nat, NEW b \in Nat \ {0}, NEW q \in Nat, b * q <= a, a < b * (q + 1)
    PROVE  a \div b = q
OBVIOUS

\* The sov functions count the bytes encodeVarint writes.
LEMMA SovIsLen ==
    ASSUME NEW v \in Nat, v < WordSize
    PROVE  sov(v) = Len(encodeVarint[v])
<1> DEFINE n == Len(encodeVarint[v])
           bits == IF v = 0 THEN 1 ELSE Len64(v)
           B == VarintBits
<1>0. B \in Nat /\ B > 0
  BY Widths
<1>1. n \in Nat /\ n >= 1 /\ v < Place(n) /\ (n > 1 => Place(n - 1) <= v)
  BY EncodeLen
<1> HIDE DEF n, B
<1>2. bits \in Nat /\ bits <= n * B
  <2>1. CASE v = 0
    <3>1. n * B >= B
      BY <1>0, <1>1
    <3> QED BY <1>0, <1>1, <2>1, <3>1
  <2>2. CASE v # 0
    <3>1. Len64(v) \in Nat /\ \A k \in 0..(Len64(v) - 1) : v >= Pow2[k]
      BY Len64Def
    <3>2. n * B \in Nat /\ v < Pow2[n * B] /\ Pow2[n * B] \in Nat
      BY <1>0, <1>1, Pow2Type DEF Place, B
    <3>3. ~(n * B \in 0..(Len64(v) - 1))
      BY <3>1, <3>2
    <3> QED BY <2>2, <3>1, <3>2, <3>3
  <2> QED BY <2>1, <2>2
<1>3. (n - 1) * B < bits
  <2>1. CASE n = 1
    <3>1. (n - 1) * B = 0
      BY <1>0, <2>1
    <3>2. bits > 0
      <4>1. CASE v = 0
        BY <4>1
      <4>2. CASE v # 0
        <5>1. Len64(v) \in Nat /\ v < Pow2[Len64(v)]
          BY Len64Def
        <5>2. Len64(v) # 0
          BY <4>2, <5>1, Pow2Def
        <5> QED BY <4>2, <5>1, <5>2
      <4> QED BY <4>1, <4>2
    <3> QED BY <3>1, <3>2
  <2>2. CASE n > 1
    <3>1. n - 1 \in Nat /\ (n - 1) * B \in Nat
      BY <1>0, <1>1
    <3>2. Pow2[(n - 1) * B] <= v
      BY <1>1, <2>2 DEF Place, B
    <3>3. v # 0
      BY <3>1, <3>2, Pow2Type
    <3>4. Len64(v) \in Nat /\ v < Pow2[Len64(v)]
      BY Len64Def
    <3>5. Pow2[(n - 1) * B] < Pow2[Len64(v)]
      BY <3>1, <3>2, <3>4, Pow2Type
    <3>6. (n - 1) * B < Len64(v)
      BY <3>1, <3>4, <3>5, Pow2Order
    <3> QED BY <3>3, <3>6
  <2> QED BY <1>1, <2>1, <2>2
<1> HIDE DEF bits
<1>4. B * n = n * B /\ n * B \in Nat /\ (n - 1) * B = n * B - B /\ B * (n + 1) = n * B + B
  BY <1>0, <1>1
<1>5. bits + B - 1 \in Nat /\ B * n <= bits + B - 1 /\ bits + B - 1 < B * (n + 1)
  BY <1>0, <1>2, <1>3, <1>4
<1>6. (bits + B - 1) \div B = n
  BY <1>0, <1>1, <1>5, DivUnique
<1>7. v % WordSize = v
  BY Widths
<1> QED BY <1>6, <1>7, Zenon DEF sov, bits, n, B

\* The run of a loop stays as it is once it has ended.
LEMMA RunStays ==
    ASSUME NEW r, \A k \in Nat : r[k].err # "more" => r[k + 1] = r[k],
           NEW k \in Nat, r[k].err # "more"
    PROVE  \A j \in Nat : j >= k => r[j] = r[k]
<1> DEFINE X == {j \in Nat : r[j] = r[k]}
<1>1. k \in X
  OBVIOUS
<1>2. ASSUME NEW j \in Nat, j >= k, j \in X PROVE j + 1 \in X
  BY <1>2
<1>3. \A j \in Nat : j >= k => j \in X
  <2> HIDE DEF X
  <2> QED BY <1>1, <1>2, NatSetInductionFrom
<1> QED BY <1>3

\* The bound of a loop is not reached: its result is where the run has ended.
LEMMA RunLast ==
    ASSUME NEW r, \A k \in Nat : r[k].err # "more" => r[k + 1] = r[k],
           NEW n \in Nat, NEW k \in 0..n, r[k].err # "more"
    PROVE  Ended(r, n) = r[k]
<1> DEFINE c == CHOOSE j \in 0..n : r[j].err # "more"
<1>1. c \in 0..n /\ r[c].err # "more"
  OBVIOUS
<1> HIDE DEF c
<1>2. c \in Nat /\ k \in Nat
  BY <1>1
<1>3. CASE c >= k
  <2>1. r[c] = r[k]
    BY <1>2, <1>3, RunStays
  <2> QED BY <2>1 DEF Ended, c
<1>4. CASE k >= c
  <2>1. r[k] = r[c]
    BY <1>1, <1>2, <1>4, RunStays
  <2> QED BY <2>1 DEF Ended, c
<1> QED BY <1>2, <1>3, <1>4

-----------------------------------------------------------------------------
\* What the loop of Varint can be in.
VarintStates(b, i, size) ==
    {st \in [err : {"more", "ok", "overflow", "eof"}, val : Nat, next : Int] :
        /\ st.err = "more" => st.next \in i..Len(b) /\ st.val < size
        /\ st.err = "ok" => st.next \in (i + 1)..Len(b) /\ st.val < size
        /\ st.err \in {"overflow", "eof"} => st.val = 0 /\ st.next = 0}

\* One iteration of the varint loop stays within its input.
LEMMA VarintByteType ==
    ASSUME NEW b \in Seq(Byte), NEW i \in 0..Len(b), NEW size \in Nat \ {0},
           NEW st \in VarintStates(b, i, size), st.err = "more"
    PROVE  /\ VarintByte(b, i, size, st) \in VarintStates(b, i, size)
           /\ VarintByte(b, i, size, st).err = "more" =>
                 VarintByte(b, i, size, st).next = st.next + 1
<1> DEFINE shift == (st.next - i) * VarintBits
           byte  == b[st.next + 1]
           val   == (st.val + (byte % Base) * Pow2[shift]) % size
<1>1. st.next \in i..Len(b) /\ st.val \in Nat /\ i \in Nat /\ Len(b) \in Nat
  BY DEF VarintStates
<1>2. Base \in Nat /\ Base > 31 /\ VarintBits \in Nat
  BY Widths
<1>3. shift \in Nat
  BY <1>1, <1>2
<1>4. ASSUME st.next < Len(b) PROVE val \in Nat /\ val < size
  <2>1. byte \in Byte
    BY <1>1, <1>4
  <2>2. byte % Base \in Nat
    BY <2>1, <1>2 DEF Byte
  <2>3. Pow2[shift] \in Nat
    BY <1>3, Pow2Type
  <2> HIDE DEF byte, shift
  <2>4. (byte % Base) * Pow2[shift] \in Nat
    BY <2>2, <2>3
  <2> QED BY <1>1, <2>4
<1>5. VarintByte(b, i, size, st) =
        IF shift >= WordBits THEN Fail("overflow")
        ELSE IF st.next >= Len(b) THEN Fail("eof")
        ELSE IF st.next < 0 THEN Fail("panic")
        ELSE IF byte < Base THEN Ok(val, st.next + 1)
        ELSE More(val, st.next + 1)
  BY DEF VarintByte
<1> HIDE DEF shift, byte, val
<1>6. Fail("overflow") \in VarintStates(b, i, size) /\ Fail("eof") \in VarintStates(b, i, size)
  BY DEF Fail, VarintStates
<1>7. ASSUME st.next < Len(b)
      PROVE  /\ Ok(val, st.next + 1) \in VarintStates(b, i, size)
             /\ More(val, st.next + 1) \in VarintStates(b, i, size)
  BY <1>1, <1>4, <1>7 DEF Ok, More, VarintStates
<1> QED BY <1>1, <1>5, <1>6, <1>7 DEF Fail, Ok, More

\* The run of the loop.
IsVarintRun(r, b, i, size) ==
    /\ r \in [Nat -> VarintStates(b, i, size)]
    /\ r[0] = More(0, i)
    /\ \A k \in Nat : r[k + 1] =
          IF r[k].err = "more" THEN VarintByte(b, i, size, r[k]) ELSE r[k]
    /\ Varint(b, i, size) = Ended(r, WordBits \div VarintBits + 2)

\* The varint loop has a run.
LEMMA VarintRun ==
    ASSUME NEW b \in Seq(Byte), NEW i \in 0..Len(b), NEW size \in Nat \ {0}
    PROVE  \E r : IsVarintRun(r, b, i, size)
<1> DEFINE S == VarintStates(b, i, size)
           a == More(0, i)
           F(st) == IF st.err = "more" THEN VarintByte(b, i, size, st) ELSE st
           h == [st \in S |-> F(st)]
           E(r, k) == IF k = 0 THEN a ELSE F(r[k - 1])
<1>1. a \in S
  BY DEF More, VarintStates
<1>2. h \in [S -> S]
  BY VarintByteType
<1>3. PICK f : f \in [Nat -> S] /\ f[0] = a /\ \A n \in Nat : f[n + 1] = h[f[n]]
  <2> HIDE DEF S, a, h
  <2>1. \E f : IsIteration(f, S, a, h)
    BY <1>1, <1>2, Iterates
  <2> QED BY <2>1 DEF IsIteration
<1>4. \A n \in Nat : f[n] \in S /\ f[n + 1] = F(f[n])
  <2> HIDE DEF S, a, F
  <2> QED BY <1>3
<1>5. f = [k \in Nat |-> E(f, k)]
  <2> HIDE DEF S, F, a
  <2>1. ASSUME NEW k \in Nat PROVE f[k] = E(f, k)
    <3>1. CASE k = 0
      BY <1>3, <3>1
    <3>2. CASE k # 0
      <4>1. k - 1 \in Nat /\ (k - 1) + 1 = k
        BY <3>2
      <4> QED BY <1>4, <3>2, <4>1
    <3> QED BY <3>1, <3>2
  <2> HIDE DEF E
  <2>2. f = [k \in Nat |-> f[k]]
    BY <1>3
  <2> QED BY <2>1, <2>2
<1> DEFINE r == CHOOSE r : r = [k \in Nat |-> E(r, k)]
<1>6. r = [k \in Nat |-> E(r, k)]
  <2> HIDE DEF E
  <2> QED BY <1>5
<1>7. Varint(b, i, size) = Ended(r, WordBits \div VarintBits + 2)
  BY DEF Varint, Loop, Ended
<1> HIDE DEF r
<1>8. r[0] = a /\ \A k \in Nat : r[k + 1] = F(r[k])
  <2>1. \A k \in Nat : r[k] = E(r, k)
    <3> HIDE DEF E
    <3> QED BY <1>6
  <2> HIDE DEF F, a
  <2>2. r[0] = a
    BY <2>1
  <2>3. ASSUME NEW k \in Nat PROVE r[k + 1] = F(r[k])
    <3>1. k + 1 \in Nat /\ k + 1 # 0 /\ (k + 1) - 1 = k
      OBVIOUS
    <3>2. r[k + 1] = E(r, k + 1)
      BY <2>1, <3>1
    <3> QED BY <3>1, <3>2
  <2> QED BY <2>2, <2>3
<1> DEFINE X == {k \in Nat : r[k] \in S}
<1>9. \A k \in Nat : k \in X
  <2>1. 0 \in X
    <3> HIDE DEF S
    <3> QED BY <1>1, <1>8
  <2>2. ASSUME NEW k \in Nat, k \in X PROVE k + 1 \in X
    <3>1. F(r[k]) \in S
      BY <2>2, VarintByteType
    <3>2. r[k + 1] \in S
      <4> HIDE DEF S, F
      <4> QED BY <1>8, <3>1
    <3> HIDE DEF S
    <3> QED BY <3>2
  <2> HIDE DEF X
  <2> QED BY <2>1, <2>2, NatSetInduction
<1>10. r \in [Nat -> S]
  <2> HIDE DEF S, E
  <2>1. r = [k \in Nat |-> r[k]]
    BY <1>6
  <2> QED BY <1>9, <2>1
<1>11. IsVarintRun(r, b, i, size)
  BY <1>7, <1>8, <1>10 DEF IsVarintRun
<1> QED BY <1>11

\* What one iteration of the run does to the index, and when it has ended.
LEMMA VarintRunEnds ==
    ASSUME NEW b \in Seq(Byte), NEW i \in 0..Len(b), NEW size \in Nat \ {0},
           NEW r, IsVarintRun(r, b, i, size)
    PROVE  /\ \A k \in Nat : r[k].err # "more" => r[k + 1] = r[k]
           /\ \A k \in Nat : r[k].err = "more" => r[k].next = i + k
           /\ WordBits \div VarintBits + 2 \in Nat
           /\ r[WordBits \div VarintBits + 2].err # "more"
<1> DEFINE S == VarintStates(b, i, size)
           n == WordBits \div VarintBits + 1
<1>1. /\ r \in [Nat -> S] /\ r[0] = More(0, i)
      /\ \A k \in Nat : r[k].err # "more" => r[k + 1] = r[k]
      /\ \A k \in Nat : r[k].err = "more" => r[k + 1] = VarintByte(b, i, size, r[k])
  BY DEF IsVarintRun
<1>2. WordBits \in Nat \ {0} /\ VarintBits \in Nat \ {0}
  BY Widths
<1>3. n \in Nat /\ n * VarintBits >= WordBits
  <2> DEFINE q == WordBits \div VarintBits
  <2>1. q \in Nat /\ WordBits = VarintBits * q + (WordBits % VarintBits)
        /\ WordBits % VarintBits \in Nat /\ WordBits % VarintBits < VarintBits
    BY <1>2
  <2> HIDE DEF q
  <2>2. (q + 1) * VarintBits = VarintBits * q + VarintBits /\ VarintBits * q \in Nat
    BY <1>2, <2>1
  <2>3. (q + 1) * VarintBits >= WordBits
    BY <1>2, <2>1, <2>2
  <2> QED BY <2>1, <2>3 DEF q
<1> HIDE DEF S
<1>4. \A k \in Nat : r[k].err = "more" => r[k].next = i + k
  <2> DEFINE X == {k \in Nat : r[k].err = "more" => r[k].next = i + k}
  <2>1. 0 \in X
    BY <1>1 DEF More
  <2>2. ASSUME NEW k \in Nat, k \in X PROVE k + 1 \in X
    <3>1. ASSUME r[k + 1].err = "more" PROVE r[k + 1].next = i + (k + 1)
      <4>1. r[k].err = "more" /\ r[k + 1] = VarintByte(b, i, size, r[k])
        BY <1>1, <3>1
      <4>2. r[k] \in S
        BY <1>1
      <4>3. r[k + 1].next = r[k].next + 1
        BY <3>1, <4>1, <4>2, VarintByteType DEF S
      <4> QED BY <2>2, <4>1, <4>3
    <3> QED BY <3>1
  <2>3. \A k \in Nat : k \in X
    <3> HIDE DEF X
    <3> QED BY <2>1, <2>2, NatSetInduction
  <2> QED BY <2>3
<1>5. r[n + 1].err # "more"
  <2>1. CASE r[n].err # "more"
    BY <1>1, <1>3, <2>1
  <2>2. CASE r[n].err = "more"
    <3>1. r[n].next = i + n /\ r[n + 1] = VarintByte(b, i, size, r[n])
      BY <1>1, <1>3, <1>4, <2>2
    <3> HIDE DEF n
    <3>2. r[n].next - i = n
      BY <1>3, <3>1
    <3>3. (r[n].next - i) * VarintBits >= WordBits
      BY <1>3, <3>2
    <3>4. r[n + 1] = Fail("overflow")
      BY <3>1, <3>3 DEF VarintByte
    <3> QED BY <3>4 DEF Fail
  <2> QED BY <2>1, <2>2
<1>6. n + 1 = WordBits \div VarintBits + 2 /\ n + 1 \in Nat
  BY <1>2, <1>3
<1> QED BY <1>1, <1>4, <1>5, <1>6

\* A varint is read within its input, or the reading fails.
LEMMA VarintType ==
    ASSUME NEW b \in Seq(Byte), NEW i \in 0..Len(b), NEW size \in Nat \ {0}
    PROVE  /\ Varint(b, i, size) \in VarintStates(b, i, size)
           /\ Varint(b, i, size).err # "more"
<1>1. PICK r : IsVarintRun(r, b, i, size)
  BY VarintRun
<1> DEFINE n == WordBits \div VarintBits + 2
<1>2. n \in Nat /\ r[n].err # "more" /\ \A k \in Nat : r[k].err # "more" => r[k + 1] = r[k]
  BY <1>1, VarintRunEnds
<1> HIDE DEF n
<1>3. Ended(r, n) = r[n]
  BY <1>2, RunLast
<1>4. r[n] \in VarintStates(b, i, size)
  BY <1>1, <1>2 DEF IsVarintRun
<1> QED BY <1>1, <1>2, <1>3, <1>4 DEF IsVarintRun, n

\* If the run has ended after k iterations, there it has its result.
LEMMA VarintResult ==
    ASSUME NEW b \in Seq(Byte), NEW i \in 0..Len(b), NEW size \in Nat \ {0},
           NEW r, IsVarintRun(r, b, i, size),
           NEW k \in Nat, r[k].err # "more"
    PROVE  Varint(b, i, size) = r[k]
<1> DEFINE n == WordBits \div VarintBits + 2
<1>1. n \in Nat /\ r[n].err # "more" /\ \A j \in Nat : r[j].err # "more" => r[j + 1] = r[j]
  BY VarintRunEnds
<1> HIDE DEF n
<1>2. Ended(r, n) = r[n]
  BY <1>1, RunLast
<1>3. r[n] = r[k]
  <2>1. CASE n >= k
    BY <1>1, <2>1, RunStays
  <2>2. CASE k >= n
    BY <1>1, <2>2, RunStays
  <2> QED BY <1>1, <2>1, <2>2
<1> QED BY <1>2, <1>3 DEF IsVarintRun, n

\* More bytes behind a varint do not change it.
LEMMA VarintStable ==
    ASSUME NEW b \in Seq(Byte), NEW c \in Seq(Byte), NEW i \in 0..Len(b),
           NEW size \in Nat \ {0}, Varint(b, i, size).err = "ok"
    PROVE  Varint(b \o c, i, size) = Varint(b, i, size)
<1> DEFINE d == b \o c
<1>1. d \in Seq(Byte) /\ Len(d) = Len(b) + Len(c) /\ i \in 0..Len(d)
      /\ \A k \in 1..Len(b) : d[k] = b[k]
  OBVIOUS
<1>2. PICK r : IsVarintRun(r, b, i, size)
  BY VarintRun
<1> HIDE DEF d
<1>3. PICK e : IsVarintRun(e, d, i, size)
  BY <1>1, VarintRun
<1> DEFINE X == {k \in Nat : r[k].err \in {"more", "ok"} => e[k] = r[k]}
<1>4. 0 \in X
  BY <1>2, <1>3 DEF IsVarintRun
<1>5. ASSUME NEW k \in Nat, k \in X PROVE k + 1 \in X
  <2>1. ASSUME r[k + 1].err \in {"more", "ok"} PROVE e[k + 1] = r[k + 1]
    <3>1. CASE r[k].err = "more"
      <4>1. e[k] = r[k] /\ r[k + 1] = VarintByte(b, i, size, r[k])
            /\ e[k + 1] = VarintByte(d, i, size, r[k])
        BY <1>2, <1>3, <1>5, <3>1 DEF IsVarintRun
      <4>2. r[k] \in VarintStates(b, i, size)
        BY <1>2 DEF IsVarintRun
      <4>3. r[k].next \in i..Len(b)
        BY <3>1, <4>2 DEF VarintStates
      <4>4. r[k].next < Len(b)
        <5> SUFFICES ASSUME r[k].next >= Len(b) PROVE FALSE
          BY <4>3
        <5>1. r[k + 1] = Fail("overflow") \/ r[k + 1] = Fail("eof")
          BY <4>1 DEF VarintByte
        <5> QED BY <2>1, <5>1 DEF Fail
      <4>5. d[r[k].next + 1] = b[r[k].next + 1] /\ r[k].next < Len(d)
        <5>1. Len(b) \in Nat /\ Len(c) \in Nat
          OBVIOUS
        <5>2. r[k].next + 1 \in 1..Len(b) /\ r[k].next < Len(b) + Len(c)
          BY <4>3, <4>4, <5>1
        <5> QED BY <1>1, <5>2
      <4>6. VarintByte(d, i, size, r[k]) = VarintByte(b, i, size, r[k])
        <5>1. ~(r[k].next >= Len(b)) /\ ~(r[k].next >= Len(d))
          BY <1>1, <4>3, <4>4, <4>5
        <5> QED BY <4>5, <5>1 DEF VarintByte
      <4> QED BY <4>1, <4>6
    <3>2. CASE r[k].err # "more"
      <4>1. r[k + 1] = r[k]
        BY <1>2, <3>2 DEF IsVarintRun
      <4>2. e[k] = r[k]
        BY <1>5, <2>1, <4>1
      <4>3. e[k + 1] = e[k]
        BY <1>3, <3>2, <4>2 DEF IsVarintRun
      <4> QED BY <4>1, <4>2, <4>3
    <3> QED BY <3>1, <3>2
  <2> QED BY <2>1
<1>6. \A k \in Nat : k \in X
  <2> HIDE DEF X
  <2> QED BY <1>4, <1>5, NatSetInduction
<1> DEFINE n == WordBits \div VarintBits + 2
<1>7. n \in Nat /\ r[n].err # "more"
  BY <1>2, VarintRunEnds
<1> HIDE DEF n
<1>8. Varint(b, i, size) = r[n]
  BY <1>2, <1>7, VarintResult
<1>9. e[n] = r[n]
  BY <1>6, <1>7, <1>8
<1>10. Varint(d, i, size) = e[n]
  BY <1>1, <1>3, <1>7, <1>9, VarintResult
<1> QED BY <1>8, <1>9, <1>10 DEF d

\* Sequences with the same elements are equal.
LEMMA SameSeq ==
    ASSUME NEW S, NEW h \in Seq(S), NEW t \in Seq(S), Len(h) = Len(t),
           \A j \in 1..Len(t) : h[j] = t[j]
    PROVE  h = t
OBVIOUS

\* The type and the length of a concatenation.
LEMMA ConcatLen ==
    ASSUME NEW S, NEW h \in Seq(S), NEW t \in Seq(S)
    PROVE  h \o t \in Seq(S) /\ Len(h \o t) = Len(h) + Len(t) /\ Len(h) \in Nat /\ Len(t) \in Nat
OBVIOUS

\* The elements of a concatenation come from its first part ...
LEMMA ConcatLeft ==
    ASSUME NEW S, NEW h \in Seq(S), NEW t \in Seq(S), NEW j \in 1..Len(h)
    PROVE  (h \o t)[j] = h[j]
OBVIOUS

\* ... and then from its second.
LEMMA ConcatRight ==
    ASSUME NEW S, NEW h \in Seq(S), NEW t \in Seq(S), NEW j \in 1..Len(t)
    PROVE  (h \o t)[Len(h) + j] = t[j]
OBVIOUS

\* The type and the length of a subsequence.
LEMMA SliceLen ==
    ASSUME NEW S, NEW b \in Seq(S), NEW i \in Nat, NEW k \in Nat, k <= Len(b), i <= k
    PROVE  Len(SubSeq(b, i + 1, k)) = k - i /\ SubSeq(b, i + 1, k) \in Seq(S)
OBVIOUS

\* The elements of a subsequence.
LEMMA SliceAt ==
    ASSUME NEW S, NEW b \in Seq(S), NEW i \in Nat, NEW k \in Nat, k <= Len(b), NEW j \in 1..(k - i)
    PROVE  SubSeq(b, i + 1, k)[j] = b[i + j]
OBVIOUS

\* One element in front of a sequence.
LEMMA ConcatOne ==
    ASSUME NEW S, NEW h \in Seq(S), NEW t \in Seq(S), Len(h) = 1
    PROVE  (h \o t)[1] = h[1] /\ \A j \in 1..Len(t) : (h \o t)[1 + j] = t[j]
<1>1. 1 \in 1..Len(h)
  OBVIOUS
<1>2. (h \o t)[1] = h[1]
  <2>1. \A j \in 1..Len(h) : (h \o t)[j] = h[j]
    BY ConcatLeft
  <2> QED BY ONLY <1>1, <2>1
<1>3. \A j \in 1..Len(t) : (h \o t)[Len(h) + j] = t[j]
  BY ConcatRight, Zenon
<1>4. \A j \in 1..Len(t) : (h \o t)[1 + j] = t[j]
  BY <1>3, Zenon
<1> QED BY <1>2, <1>4

StartsWith(b, i, h, t) ==
    SubSeq(b, i + 1, Len(b)) = h \o t =>
        i < Len(b) /\ b[i + 1] = h[1] /\ SubSeq(b, i + 2, Len(b)) = t
        /\ Len(b) = i + 1 + Len(t)

\* The rest of a sequence that starts with one element.
LEMMA RestOfSeq ==
    ASSUME NEW S, NEW b \in Seq(S), NEW i \in Nat, i <= Len(b), NEW h \in Seq(S), NEW t \in Seq(S),
           Len(h) = 1
    PROVE  StartsWith(b, i, h, t)
<1>1. Len(b) \in Nat /\ Len(t) \in Nat
  OBVIOUS
<1>a. (h \o t)[1] = h[1]
  BY ConcatOne, Zenon
<1>b. \A j \in 1..Len(t) : (h \o t)[1 + j] = t[j]
  BY ConcatOne
<1> SUFFICES ASSUME SubSeq(b, i + 1, Len(b)) = h \o t
             PROVE  i < Len(b) /\ b[i + 1] = h[1] /\ SubSeq(b, i + 2, Len(b)) = t
                    /\ Len(b) = i + 1 + Len(t)
  BY DEF StartsWith
<1>2. Len(h \o t) = 1 + Len(t)
  BY ConcatLen
<1>3. Len(h \o t) = Len(b) - i
  BY <1>1, SliceLen
<1>4. i < Len(b) /\ Len(t) = Len(b) - (i + 1) /\ Len(b) = i + 1 + Len(t)
  <2>1. \A l, n \in Nat : 1 + n = l - i => i < l /\ n = l - (i + 1) /\ l = i + 1 + n
    OBVIOUS
  <2>2. 1 + Len(t) = Len(b) - i
    BY <1>2, <1>3, Zenon
  <2> QED BY <1>1, <2>1, <2>2, Zenon
<1>5. b[i + 1] = h[1]
  <2>2. SubSeq(b, i + 1, Len(b))[1] = b[i + 1]
    BY <1>1, <1>4, SliceAt
  <2> QED BY <1>a, <2>2
<1>6. SubSeq(b, i + 2, Len(b)) = SubSeq(b, (i + 1) + 1, Len(b))
  <2>1. i + 2 = (i + 1) + 1
    OBVIOUS
  <2> QED BY <2>1
<1>7. Len(SubSeq(b, (i + 1) + 1, Len(b))) = Len(t) /\ SubSeq(b, (i + 1) + 1, Len(b)) \in Seq(S)
  <2>1. i + 1 \in Nat /\ i + 1 <= Len(b) /\ Len(b) <= Len(b)
    BY <1>1, <1>4
  <2>2. /\ Len(SubSeq(b, (i + 1) + 1, Len(b))) = Len(b) - (i + 1)
        /\ SubSeq(b, (i + 1) + 1, Len(b)) \in Seq(S)
    BY <1>1, <2>1, SliceLen, Zenon
  <2> QED BY <1>4, <2>2, Zenon
<1>8. ASSUME NEW j \in 1..Len(t) PROVE SubSeq(b, (i + 1) + 1, Len(b))[j] = t[j]
  <2>1. i + 1 \in Nat /\ j \in 1..(Len(b) - (i + 1)) /\ 1 + j \in 1..(Len(b) - i)
        /\ (i + 1) + j = i + (1 + j)
    BY <1>1, <1>4
  <2>2. SubSeq(b, (i + 1) + 1, Len(b))[j] = b[(i + 1) + j]
    BY <1>1, <2>1, SliceAt
  <2>3. SubSeq(b, i + 1, Len(b))[1 + j] = b[i + (1 + j)]
    BY <1>1, <2>1, SliceAt
  <2> QED BY <1>b, <2>1, <2>2, <2>3
<1>9. SubSeq(b, (i + 1) + 1, Len(b)) = t
  BY <1>7, <1>8, SameSeq
<1> QED BY <1>4, <1>5, <1>6, <1>9

\* Where the loop of Varint is when the rest of its input encodes w.
Remaining(b, i, k, st, w, v) ==
    /\ w \in Nat
    /\ st.err = "more" /\ st.next = i + k /\ i + k <= Len(b)
    /\ SubSeq(b, i + k + 1, Len(b)) = encodeVarint[w]
    /\ st.val + Place(k) * w = v
    /\ k > 0 => w > 0

\* The digits of a number in base c, with weight p.
LEMMA NextDigit ==
    ASSUME NEW c \in Nat, NEW p \in Nat, p > 0, NEW x \in Nat, NEW w \in Nat, NEW v \in Nat,
           x + p * w = v
    PROVE  /\ w > 0 => p <= v
           /\ \A q, r \in Nat : w = c * q + r =>
                 /\ x + r * p \in Nat /\ x + r * p <= v
                 /\ (x + r * p) + (c * p) * q = v
<1>1. ASSUME w > 0 PROVE p <= v
  <2>1. p * w >= p * 1
    BY <1>1
  <2> QED BY <2>1
<1>2. ASSUME NEW q \in Nat, NEW r \in Nat, w = c * q + r
      PROVE  x + r * p \in Nat /\ x + r * p <= v /\ (x + r * p) + (c * p) * q = v
  <2>1. p * w = p * (c * q) + r * p /\ p * (c * q) = (c * p) * q
        /\ p * (c * q) \in Nat /\ r * p \in Nat
    BY <1>2
  <2> QED BY <2>1
<1> QED BY <1>1, <1>2

\* A digit with and without the continuation bit.
LEMMA ByteModBase ==
    ASSUME NEW r \in Nat, r < Base
    PROVE  r % Base = r /\ (r + Base) % Base = r /\ r \in Byte
BY Widths DEF Byte

\* A byte as a sequence.
LEMMA SingleByte ==
    ASSUME NEW w \in Byte
    PROVE  <<w>> = <<w>> \o <<>> /\ <<w>> \in Seq(Byte) /\ Len(<<w>>) = 1 /\ <<w>>[1] = w
OBVIOUS

\* One iteration on an encoded number.
LEMMA VarintByteReads ==
    ASSUME NEW b, b \in Seq(Byte), NEW i \in Nat, NEW size \in Nat \ {0}, size <= WordSize,
           NEW v \in Nat, v < size, NEW k \in Nat, NEW st, st.val \in Nat,
           NEW w, Remaining(b, i, k, st, w, v)
    PROVE  \/ VarintByte(b, i, size, st) = Ok(v, Len(b))
           \/ \E x : Remaining(b, i, k + 1, VarintByte(b, i, size, st), x, v)
<1>a. PICK P, m, l, x : P = Place(k) /\ m = i + k /\ l = Len(b) /\ x = st.val
  OBVIOUS
<1>0. /\ Base \in Nat /\ Base > 31 /\ VarintBits \in Nat /\ WordBits \in Nat /\ WordBits > 0
      /\ P \in Nat /\ P > 0 /\ Place(k + 1) = Base * P
      /\ m \in Nat /\ l \in Nat /\ x \in Nat
  BY <1>a, Widths, PlaceNext
<1>1. /\ w \in Nat /\ st.err = "more" /\ st.next = m /\ m <= l
      /\ SubSeq(b, m + 1, l) = encodeVarint[w]
      /\ x + P * w = v /\ (k > 0 => w > 0)
  BY <1>a DEF Remaining
<1>2. m + 1 = i + (k + 1) /\ (m + 1) + 1 = m + 2 /\ m - i = k
  BY <1>a
<1>4. k * VarintBits \in Nat /\ k * VarintBits < WordBits
  <2>1. CASE k = 0
    BY <1>0, <2>1
  <2>2. CASE k > 0
    <3>1. P <= v
      BY <1>0, <1>1, <2>2, NextDigit
    <3>2. P < WordSize
      BY <1>0, <3>1, Widths
    <3>3. k * VarintBits \in Nat
      BY <1>0
    <3> QED BY <1>0, <1>a, <3>2, <3>3, Pow2Order DEF Place, WordSize
  <2> QED BY <2>1, <2>2
<1>b. PICK byte, val : byte = b[m + 1] /\ val = (x + (byte % Base) * P) % size
  OBVIOUS
<1>5. VarintByte(b, i, size, st) =
        IF m >= l THEN Fail("eof")
        ELSE IF byte < Base THEN Ok(val, m + 1)
        ELSE More(val, m + 1)
  <2>1. ~(k * VarintBits >= WordBits) /\ ~(m < 0)
    BY <1>0, <1>1, <1>4
  <2>2. Pow2[k * VarintBits] = P
    BY <1>a DEF Place
  <2>3. VarintByte(b, i, size, st) =
          IF k * VarintBits >= WordBits THEN Fail("overflow")
          ELSE IF m >= l THEN Fail("eof")
          ELSE IF m < 0 THEN Fail("panic")
          ELSE IF byte < Base THEN Ok(val, m + 1)
          ELSE More(val, m + 1)
    BY <1>a, <1>b, <1>1, <1>2, <2>2 DEF VarintByte
  <2> QED BY <2>1, <2>3
<1>6. CASE w < Base
  <2>1. encodeVarint[w] = <<w>> \o <<>> /\ <<w>> \in Seq(Byte) /\ Len(<<w>>) = 1
        /\ <<w>>[1] = w /\ w % Base = w /\ <<>> \in Seq(Byte)
    <3>1. encodeVarint[w] = <<w>>
      <4>1. ~(w >= Base)
        BY <1>0, <1>1, <1>6
      <4> QED BY <1>1, <4>1, encodeVarintDef, Zenon
    <3>2. w \in Byte /\ w % Base = w
      BY <1>1, <1>6, ByteModBase
    <3> QED BY <3>1, <3>2, SingleByte
  <2>2. m < l /\ b[m + 1] = <<w>>[1] /\ l = m + 1 + Len(<<>>)
    <3>1. SubSeq(b, m + 1, Len(b)) = <<w>> \o <<>> /\ m <= Len(b)
      BY <1>a, <1>1, <2>1, Zenon
    <3>2. StartsWith(b, m, <<w>>, <<>>)
      BY <1>0, <2>1, <3>1, RestOfSeq, Zenon
    <3> QED BY <1>a, <3>1, <3>2, Zenon DEF StartsWith
  <2>3. byte = w /\ l = m + 1
    BY <1>0, <1>b, <2>1, <2>2
  <2>6. val = v
    <3>1. x + w * P = v
      BY <1>0, <1>1
    <3>2. v % size = v
      OBVIOUS
    <3> QED BY <1>b, <2>1, <2>3, <3>1, <3>2
  <2>7. VarintByte(b, i, size, st) = Ok(v, l)
    BY <1>0, <1>5, <1>6, <2>2, <2>3, <2>6
  <2> QED BY <1>a, <2>7
<1>7. CASE w >= Base
  <2>a. PICK q, r : q = w \div Base /\ r = w % Base
    OBVIOUS
  <2>1. q \in Nat /\ q > 0 /\ w = Base * q + r /\ r \in Nat /\ r < Base
    BY <1>0, <1>1, <1>7, <2>a, DivSmaller
  <2>2. encodeVarint[w] = Low(w) \o encodeVarint[q]
    BY <1>1, <1>7, <2>a, encodeVarintDef
  <2>3. Low(w) \in Seq(Byte) /\ Len(Low(w)) = 1 /\ Low(w)[1] = r + Base /\ encodeVarint[q] \in Seq(Byte)
    BY <1>1, <2>1, <2>a, LowType, encodeVarintDef
  <2>4. m < l /\ b[m + 1] = Low(w)[1] /\ SubSeq(b, m + 2, l) = encodeVarint[q]
    <3>1. SubSeq(b, m + 1, Len(b)) = Low(w) \o encodeVarint[q] /\ m <= Len(b)
      BY <1>a, <1>1, <2>2, Zenon
    <3>2. StartsWith(b, m, Low(w), encodeVarint[q])
      BY <1>0, <2>3, <3>1, RestOfSeq, Zenon
    <3> QED BY <1>a, <3>1, <3>2, Zenon DEF StartsWith
  <2>5. byte = r + Base /\ byte % Base = r
    BY <1>b, <2>1, <2>3, <2>4, ByteModBase
  <2>7. x + r * P \in Nat /\ x + r * P <= v /\ (x + r * P) + (Base * P) * q = v
    <3>1. P * w = P * (Base * q) + r * P /\ P * (Base * q) = (Base * P) * q
          /\ P * (Base * q) \in Nat /\ r * P \in Nat
      BY <1>0, <2>1
    <3>2. PICK z1, z2, z3 : z1 = P * w /\ z2 = r * P /\ z3 = (Base * P) * q
      OBVIOUS
    <3>3. z1 = z3 + z2 /\ x + z1 = v /\ z1 \in Nat /\ z2 \in Nat /\ z3 \in Nat
      BY <1>0, <1>1, <3>1, <3>2
    <3>4. x + z2 \in Nat /\ x + z2 <= v /\ (x + z2) + z3 = v
      BY ONLY <1>0, <3>3, v \in Nat
    <3> QED BY <3>2, <3>4
  <2>8. val = x + r * P
    <3>1. PICK y : y = x + r * P
      OBVIOUS
    <3>2. val = y % size
      BY <1>b, <2>5, <3>1
    <3>3. y \in Nat /\ y < size
      BY <2>7, <3>1
    <3>4. y % size = y
      BY <3>3
    <3> QED BY <3>1, <3>2, <3>4
  <2>9. VarintByte(b, i, size, st) = More(val, m + 1)
    <3>1. ~(byte < Base) /\ ~(m >= l)
      BY <1>0, <2>1, <2>4, <2>5
    <3> QED BY <1>5, <3>1
  <2>10. val + Place(k + 1) * q = v
    BY <1>0, <2>7, <2>8
  <2>11. Remaining(b, i, k + 1, VarintByte(b, i, size, st), q, v)
    <3>1. m + 1 <= l /\ (k + 1 > 0 => q > 0)
      <4>1. m < l => m + 1 <= l
        BY <1>0
      <4> QED BY <2>1, <2>4, <4>1, Zenon
    <3>2. SubSeq(b, (i + (k + 1)) + 1, Len(b)) = encodeVarint[q]
      BY <1>a, <1>2, <2>4
    <3>3. /\ More(val, m + 1).err = "more" /\ More(val, m + 1).next = i + (k + 1)
          /\ More(val, m + 1).val = val /\ i + (k + 1) <= Len(b)
      BY <1>a, <1>2, <3>1 DEF More
    <3> QED BY <2>1, <2>9, <2>10, <3>1, <3>2, <3>3 DEF Remaining
  <2> QED BY <2>11
<1> QED BY <1>0, <1>1, <1>6, <1>7

\* A varint is read as it was written.
LEMMA VarintReads ==
    ASSUME NEW p \in Seq(Byte), NEW size \in Nat \ {0}, size <= WordSize,
           NEW v \in Nat, v < size
    PROVE  Varint(p \o encodeVarint[v], Len(p), size) = Ok(v, Len(p) + Len(encodeVarint[v]))
<1> DEFINE b == p \o encodeVarint[v]
           i == Len(p)
<1>1. encodeVarint[v] \in Seq(Byte)
  BY encodeVarintDef
<1>2. b \in Seq(Byte) /\ i \in 0..Len(b) /\ Len(b) = i + Len(encodeVarint[v])
  BY <1>1
<1>3. SubSeq(b, i + 1, Len(b)) = encodeVarint[v]
  BY <1>1
<1> HIDE DEF b, i
<1>4. PICK r : IsVarintRun(r, b, i, size)
  BY <1>2, VarintRun
<1>5. /\ \A k \in Nat : r[k] \in VarintStates(b, i, size)
      /\ r[0] = More(0, i)
      /\ \A k \in Nat : r[k + 1] =
           IF r[k].err = "more" THEN VarintByte(b, i, size, r[k]) ELSE r[k]
  BY <1>4 DEF IsVarintRun
<1> DEFINE Y(k) == r[k] = Ok(v, Len(b)) \/ \E w : Remaining(b, i, k, r[k], w, v)
           X == {k \in Nat : Y(k)}
<1>6. 0 \in X
  <2>1. Remaining(b, i, 0, r[0], v, v)
    <3>1. i + 0 = i /\ i + 0 + 1 = i + 1 /\ i <= Len(b) /\ 0 + Place(0) * v = v
      BY <1>2, PlaceNext
    <3> QED BY <1>3, <1>5, <3>1 DEF Remaining, More
  <2> QED BY <2>1
<1>7. ASSUME NEW k \in Nat, k \in X PROVE k + 1 \in X
  <2>1. CASE r[k] = Ok(v, Len(b))
    <3>1. r[k + 1] = Ok(v, Len(b))
      <4>1. r[k].err # "more"
        BY <2>1 DEF Ok
      <4> QED BY <1>5, <2>1, <4>1
    <3> QED BY <3>1
  <2>2. CASE \E w : Remaining(b, i, k, r[k], w, v)
    <3>1. PICK w : Remaining(b, i, k, r[k], w, v)
      BY <2>2
    <3>2. r[k + 1] = VarintByte(b, i, size, r[k])
      BY <1>5, <3>1 DEF Remaining
    <3>3. r[k] \in VarintStates(b, i, size)
      BY <1>5
    <3>5. r[k].val \in Nat /\ i \in Nat
      BY <1>2, <3>3 DEF VarintStates
    <3>4. \/ VarintByte(b, i, size, r[k]) = Ok(v, Len(b))
          \/ \E x : Remaining(b, i, k + 1, VarintByte(b, i, size, r[k]), x, v)
      BY <1>2, <3>1, <3>5, VarintByteReads
    <3>6. Y(k + 1)
      BY <3>2, <3>4
    <3> QED BY <3>6
  <2> QED BY <1>7, <2>1, <2>2
<1>8. \A k \in Nat : k \in X
  <2> HIDE DEF X
  <2> QED BY <1>6, <1>7, NatSetInduction
<1> DEFINE n == WordBits \div VarintBits + 2
<1>9. n \in Nat /\ r[n].err # "more"
  BY <1>2, <1>4, VarintRunEnds
<1> HIDE DEF n
<1>10. r[n] = Ok(v, Len(b))
  BY <1>8, <1>9 DEF Remaining
<1>11. Varint(b, i, size) = Ok(v, Len(b))
  BY <1>2, <1>4, <1>9, <1>10, VarintResult
<1> QED BY <1>2, <1>11 DEF b, i

\* The byte strings the code can hold: the length of a slice is an int.
Slices == {b \in Seq(Byte) : Len(b) <= MaxInt}

\* What a slice is.
LEMMA SlicesAre ==
    /\ \A b \in Slices : b \in Seq(Byte) /\ Len(b) \in Nat /\ Len(b) <= MaxInt
    /\ \A b \in Seq(Byte) : Len(b) <= MaxInt => b \in Slices
    /\ <<>> \in Slices /\ Len(<<>>) = 0
<1>1. 0 <= MaxInt
  BY Widths
<1> QED BY <1>1 DEF Slices

\* Concatenation of sequences, the empty one included.
LEMMA SeqConcat ==
    ASSUME NEW S, NEW a \in Seq(S), NEW b \in Seq(S)
    PROVE  /\ a \o b \in Seq(S) /\ Len(a \o b) = Len(a) + Len(b)
           /\ a \o <<>> = a /\ <<>> \o a = a
OBVIOUS

Assoc(a, b, c) == (a \o b) \o c = a \o (b \o c)

\* Concatenation is associative.
LEMMA SeqAssoc ==
    ASSUME NEW S, NEW a \in Seq(S), NEW b \in Seq(S), NEW c \in Seq(S)
    PROVE  Assoc(a, b, c)
<1> DEFINE u == (a \o b) \o c
           v == a \o (b \o c)
<1>1. u \in Seq(S) /\ v \in Seq(S) /\ Len(u) = Len(v)
  OBVIOUS
<1>2. ASSUME NEW j \in 1..Len(u) PROVE u[j] = v[j]
  OBVIOUS
<1> HIDE DEF u, v
<1>3. u = v
  BY <1>1, <1>2, SameSeq
<1> QED BY <1>3 DEF u, v, Assoc

\* Type and length of a subsequence that may be empty.
LEMMA SeqSlice ==
    ASSUME NEW S, NEW b \in Seq(S), NEW i \in Nat, NEW k \in Nat, i <= k, k <= Len(b)
    PROVE  SubSeq(b, i + 1, k) \in Seq(S) /\ Len(SubSeq(b, i + 1, k)) = k - i
OBVIOUS

\* A subsequence of the first part of a concatenation.
LEMMA SeqSliceLeft ==
    ASSUME NEW S, NEW a \in Seq(S), NEW b \in Seq(S), NEW i \in Nat, NEW k \in Nat,
           i <= k, k <= Len(a)
    PROVE  SubSeq(a \o b, i + 1, k) = SubSeq(a, i + 1, k)
<1> DEFINE u == SubSeq(a \o b, i + 1, k)
           v == SubSeq(a, i + 1, k)
<1>1. u \in Seq(S) /\ v \in Seq(S) /\ Len(u) = Len(v)
  OBVIOUS
<1>2. ASSUME NEW j \in 1..Len(u) PROVE u[j] = v[j]
  OBVIOUS
<1> HIDE DEF u, v
<1>3. u = v
  BY <1>1, <1>2, SameSeq
<1> QED BY <1>3 DEF u, v

\* The rest of a concatenation, from an index in its first part.
LEMMA SeqSliceRest ==
    ASSUME NEW S, NEW a \in Seq(S), NEW b \in Seq(S), NEW i \in Nat, i <= Len(a)
    PROVE  SubSeq(a \o b, i + 1, Len(a \o b)) = SubSeq(a, i + 1, Len(a)) \o b
<1> DEFINE u == SubSeq(a \o b, i + 1, Len(a \o b))
           v == SubSeq(a, i + 1, Len(a)) \o b
<1>1. u \in Seq(S) /\ v \in Seq(S) /\ Len(u) = Len(v)
  OBVIOUS
<1>2. ASSUME NEW j \in 1..Len(u) PROVE u[j] = v[j]
  OBVIOUS
<1> HIDE DEF u, v
<1>3. u = v
  BY <1>1, <1>2, SameSeq
<1> QED BY <1>3 DEF u, v

\* The same for slices, which keeps the sequences themselves out of sight.
LEMMA Concat ==
    /\ \A a, b \in Slices : /\ Len(a \o b) = Len(a) + Len(b)
                            /\ Len(a) + Len(b) <= MaxInt => a \o b \in Slices
    /\ \A a, b, c \in Slices : (a \o b) \o c = a \o (b \o c)
    /\ \A a \in Slices : a \o <<>> = a /\ <<>> \o a = a
<1>1. ASSUME NEW a \in Slices, NEW b \in Slices
      PROVE  Len(a \o b) = Len(a) + Len(b) /\ (Len(a) + Len(b) <= MaxInt => a \o b \in Slices)
  <2>1. a \o b \in Seq(Byte) /\ Len(a \o b) = Len(a) + Len(b)
    BY SlicesAre, SeqConcat, Zenon
  <2> QED BY <2>1, SlicesAre, Zenon
<1>2. ASSUME NEW a \in Slices, NEW b \in Slices, NEW c \in Slices
      PROVE  (a \o b) \o c = a \o (b \o c)
  <2>1. a \in Seq(Byte) /\ b \in Seq(Byte) /\ c \in Seq(Byte)
    BY SlicesAre
  <2>2. Assoc(a, b, c)
    BY <2>1, SeqAssoc, Zenon
  <2> QED BY <2>2 DEF Assoc
<1>3. ASSUME NEW a \in Slices PROVE a \o <<>> = a /\ <<>> \o a = a
  BY SlicesAre, SeqConcat, Zenon
<1> QED BY <1>1, <1>2, <1>3

\* A slice of a slice is one.
LEMMA SliceType ==
    \A b \in Slices : \A i, k \in Nat : i <= k /\ k <= Len(b) =>
        SubSeq(b, i + 1, k) \in Slices /\ Len(SubSeq(b, i + 1, k)) = k - i
<1> TAKE b \in Slices
<1> TAKE i, k \in Nat
<1> HAVE i <= k /\ k <= Len(b)
<1>1. SubSeq(b, i + 1, k) \in Seq(Byte) /\ Len(SubSeq(b, i + 1, k)) = k - i
  BY SlicesAre, SeqSlice, Zenon
<1>2. \A l \in Nat : k <= l /\ l <= MaxInt => k - i <= MaxInt
  BY Widths
<1>3. k - i <= MaxInt
  BY <1>2, SlicesAre, Zenon
<1> QED BY <1>1, <1>3, SlicesAre, Zenon

SameLeft(a, b, i, k) == SubSeq(a \o b, i + 1, k) = SubSeq(a, i + 1, k)
SameRest(a, b, i) == SubSeq(a \o b, i + 1, Len(a \o b)) = SubSeq(a, i + 1, Len(a)) \o b

\* Slices of a longer slice.
LEMMA SliceLeft ==
    \A a, b \in Slices : \A i, k \in Nat : i <= k /\ k <= Len(a) => SameLeft(a, b, i, k)
<1> TAKE a, b \in Slices
<1> TAKE i, k \in Nat
<1> HAVE i <= k /\ k <= Len(a)
<1>1. a \in Seq(Byte) /\ b \in Seq(Byte)
  BY SlicesAre
<1> QED BY <1>1, SeqSliceLeft, Zenon DEF SameLeft

\* The rest of a longer slice.
LEMMA SliceRest ==
    \A a, b \in Slices : \A i \in Nat : i <= Len(a) => SameRest(a, b, i)
<1> TAKE a, b \in Slices
<1> TAKE i \in Nat
<1> HAVE i <= Len(a)
<1>1. a \in Seq(Byte) /\ b \in Seq(Byte)
  BY SlicesAre
<1> QED BY <1>1, SeqSliceRest, Zenon DEF SameRest

\* What reading a varint gives.
VarintFacts(b, i, size) ==
    LET r == Varint(b, i, size)
    IN  /\ r.err \in {"ok", "overflow", "eof"}
        /\ r.err = "ok" => /\ r = Ok(r.val, r.next)
                           /\ r.val \in Nat /\ r.val < size
                           /\ r.next \in Nat /\ i < r.next /\ r.next <= Len(b)
        /\ r.err # "ok" => r = Fail(r.err)

\* Reading a varint at any index of a slice gives a word and a later index in
\* the slice, or an error.
LEMMA VarintReading ==
    \A b \in Slices : \A i \in Nat : \A size \in Nat \ {0} :
        i <= Len(b) => VarintFacts(b, i, size)
<1> SUFFICES ASSUME NEW b \in Slices, NEW i \in Nat, NEW size \in Nat \ {0}, i <= Len(b)
             PROVE  VarintFacts(b, i, size)
  OBVIOUS
<1>1. b \in Seq(Byte) /\ Len(b) \in Nat
  BY SlicesAre
<1>2. i \in 0..Len(b)
  BY <1>1
<1> DEFINE r == Varint(b, i, size)
<1>3. r \in VarintStates(b, i, size) /\ r.err # "more"
  BY <1>1, <1>2, VarintType, Zenon
<1> HIDE DEF r
<1>4. r.err = "ok" => r = Ok(r.val, r.next)
  BY <1>3 DEF VarintStates, Ok
<1>5. /\ r.err \in {"ok", "overflow", "eof"}
      /\ r.err = "ok" => r.val \in Nat /\ r.val < size /\ r.next \in (i + 1)..Len(b)
  BY <1>3 DEF VarintStates
<1>7. r.err # "ok" => r = Fail(r.err)
  BY <1>3 DEF VarintStates, Fail
<1>6. \A n \in (i + 1)..Len(b) : n \in Nat /\ i < n /\ n <= Len(b)
  BY <1>1
<1> QED BY <1>4, <1>5, <1>6, <1>7 DEF VarintFacts, r

\* More bytes behind a varint do not change it, for slices.
LEMMA VarintMore ==
    \A b, c \in Slices : \A i \in Nat : \A size \in Nat \ {0} :
        i <= Len(b) /\ Varint(b, i, size).err = "ok" =>
            Varint(b \o c, i, size) = Varint(b, i, size)
<1> SUFFICES ASSUME NEW b \in Slices, NEW c \in Slices, NEW i \in Nat, NEW size \in Nat \ {0},
                    i <= Len(b), Varint(b, i, size).err = "ok"
             PROVE  Varint(b \o c, i, size) = Varint(b, i, size)
  OBVIOUS
<1>1. b \in Seq(Byte) /\ c \in Seq(Byte) /\ Len(b) \in Nat
  BY SlicesAre
<1>2. i \in 0..Len(b)
  BY <1>1
<1> QED BY <1>1, <1>2, VarintStable, Zenon

\* Numbers written by encodeVarint.
LEMMA Encoded ==
    \A v \in Nat : v < WordSize => /\ encodeVarint[v] \in Slices
                                   /\ Len(encodeVarint[v]) \in Nat
                                   /\ Len(encodeVarint[v]) >= 1
                                   /\ Len(encodeVarint[v]) = sov(v)
<1> SUFFICES ASSUME NEW v \in Nat, v < WordSize PROVE
             /\ encodeVarint[v] \in Slices
             /\ Len(encodeVarint[v]) \in Nat
             /\ Len(encodeVarint[v]) >= 1
             /\ Len(encodeVarint[v]) = sov(v)
  OBVIOUS
<1> DEFINE n == Len(encodeVarint[v])
<1>1. encodeVarint[v] \in Seq(Byte) /\ n \in Nat /\ n >= 1 /\ (n > 1 => Place(n - 1) <= v)
  BY EncodeLen
<1>2. n = sov(v)
  BY SovIsLen
<1> HIDE DEF n
<1>3. n <= MaxInt
  <2>1. CASE n = 1
    BY <2>1, Widths
  <2>2. CASE n > 1
    <3>1. n - 1 \in Nat /\ (n - 1) * VarintBits \in Nat /\ (n - 1) * VarintBits >= n - 1
      BY <1>1, <2>2, Widths
    <3>2. Place(n - 1) < Pow2[WordBits]
      <4>1. Place(n - 1) <= v /\ Place(n - 1) \in Nat
        BY <1>1, <2>2, <3>1, PlaceNext, Zenon
      <4>2. Place(n - 1) < WordSize
        BY <4>1, Widths
      <4> QED BY <4>2 DEF WordSize
    <3>3. (n - 1) * VarintBits < WordBits
      BY <3>1, <3>2, Pow2Order, Widths DEF Place
    <3>4. n - 1 < WordBits
      BY <3>1, <3>3, Widths
    <3>5. WordBits <= MaxInt
      <4> DEFINE X == {k \in Nat : k < Pow2[k] /\ (k > 2 => k + 1 < Pow2[k])}
      <4>1. \A k \in Nat : k \in X
        <5>1. 0 \in X
          BY Pow2Def
        <5>2. ASSUME NEW k \in Nat, k \in X PROVE k + 1 \in X
          <6>1. Pow2[k + 1] = 2 * Pow2[k] /\ Pow2[k] \in Nat /\ k < Pow2[k]
            BY <5>2, Pow2Def
          <6> QED BY <5>2, <6>1
        <5> HIDE DEF X
        <5> QED BY <5>1, <5>2, NatSetInduction
      <4>2. WordBits - 1 \in Nat /\ WordBits - 1 > 2
        <5>1. Pow2[2] = 4
          <6>1. Pow2[0 + 1] = 2 * Pow2[0] /\ Pow2[1 + 1] = 2 * Pow2[1] /\ Pow2[0] = 1
            BY Pow2Def
          <6> QED BY <6>1
        <5>2. Pow2[2] < Pow2[VarintBits]
          BY <5>1, Widths DEF Base
        <5>3. 2 < VarintBits
          BY <5>2, Pow2Order, Widths
        <5> QED BY <5>3, Widths
      <4>3. (WordBits - 1) + 1 < Pow2[WordBits - 1]
        BY <4>1, <4>2
      <4> QED BY <4>2, <4>3, Pow2Type, Widths DEF MaxInt
    <3> QED BY <1>1, <3>4, <3>5, Widths
  <2> QED BY <1>1, <2>1, <2>2
<1>4. encodeVarint[v] \in Slices
  BY <1>1, <1>3, SlicesAre DEF n
<1> QED BY <1>1, <1>2, <1>4 DEF n

\* Integers as words.
LEMMA SignedWord ==
    \A x \in Nat : x < WordSize =>
        IF x <= MaxInt THEN Signed(x, WordSize) = x
        ELSE Signed(x, WordSize) \in Int /\ Signed(x, WordSize) < 0
<1> TAKE x \in Nat
<1> HAVE x < WordSize
<1>1. MaxInt \in Nat /\ WordSize = 2 * (MaxInt + 1)
  BY Widths
<1>2. x % WordSize = x
  BY <1>1
<1>3. Signed(x, WordSize) = IF 2 * x >= WordSize THEN x - WordSize ELSE x
  BY <1>2 DEF Signed
<1> QED BY <1>1, <1>3

\* A field number is an int32.
LEMMA SignedInt32 ==
    \A x \in Nat : /\ Signed(x, Int32Size) \in Int
                   /\ 2 * x < Int32Size => Signed(x, Int32Size) = x
<1> TAKE x \in Nat
<1>1. Int32Size \in Nat \ {0}
  BY Widths
<1>2. x % Int32Size \in Nat
  BY <1>1
<1>3. Signed(x, Int32Size) = IF 2 * (x % Int32Size) >= Int32Size THEN (x % Int32Size) - Int32Size
                             ELSE x % Int32Size
  BY DEF Signed
<1>4. 2 * x < Int32Size => x % Int32Size = x
  BY <1>1
<1> QED BY <1>1, <1>2, <1>3, <1>4

\* A block ends inside its slice.
LEMMA BlockEndFacts ==
    \A i, n, l \in Nat : i <= l /\ l <= MaxInt /\ n <= MaxInt =>
        BlockEnd(i, n, l) =
            IF i + n > MaxInt THEN Fail("length")
            ELSE IF i + n > l THEN Fail("eof")
            ELSE Ok(0, i + n)
<1> TAKE i, n, l \in Nat
<1> HAVE i <= l /\ l <= MaxInt /\ n <= MaxInt
<1>1. i + n \in Nat /\ i + n < WordSize
  BY Widths
<1>2. ~(n < 0)
  OBVIOUS
<1>3. CASE i + n > MaxInt
  <2>1. Signed(i + n, WordSize) < 0
    BY <1>1, <1>3, SignedWord, Widths
  <2> QED BY <1>3, <2>1 DEF BlockEnd
<1>4. CASE ~(i + n > MaxInt)
  <2>1. Signed(i + n, WordSize) = i + n
    BY <1>1, <1>4, SignedWord, Widths
  <2>2. ~(i + n < 0)
    BY <1>1
  <2> QED BY <1>2, <1>4, <2>1, <2>2 DEF BlockEnd
<1> QED BY <1>3, <1>4

BlockFacts(b, i) ==
    LET r == Block(b, i)
    IN  /\ r.err \in {"ok", "overflow", "eof", "length"}
        /\ r.err = "ok" => /\ r = Ok(r.val, r.next)
                           /\ r.val \in Slices
                           /\ r.next \in Nat /\ i < r.next /\ r.next <= Len(b)
        /\ r.err # "ok" => r = Fail(r.err)

\* What Block is when its length is read.
LEMMA BlockForm ==
    \A b \in Slices : \A i \in Nat : i <= Len(b) =>
        LET len == Varint(b, i, WordSize)
        IN  Block(b, i) =
              IF len.err # "ok" THEN len
              ELSE IF len.val > MaxInt \/ len.next + len.val > MaxInt THEN Fail("length")
              ELSE IF len.next + len.val > Len(b) THEN Fail("eof")
              ELSE Ok(SubSeq(b, len.next + 1, len.next + len.val), len.next + len.val)
<1> TAKE b \in Slices
<1> TAKE i \in Nat
<1> HAVE i <= Len(b)
<1> DEFINE len == Varint(b, i, WordSize)
           end == BlockEnd(len.next, Signed(len.val, WordSize), Len(b))
<1>1. WordSize \in Nat \ {0}
  BY Widths
<1>2. VarintFacts(b, i, WordSize)
  BY <1>1, VarintReading
<1>3. len.err = "ok" => len.val \in Nat /\ len.val < WordSize /\ len.next \in Nat
                        /\ i < len.next /\ len.next <= Len(b)
  BY <1>2 DEF VarintFacts
<1>4. Block(b, i) =
        IF len.err # "ok" THEN len
        ELSE IF end.err # "ok" THEN end
        ELSE IF end.next \notin len.next..Len(b) THEN Fail("panic")
        ELSE Ok(SubSeq(b, len.next + 1, end.next), end.next)
  BY DEF Block
<1>5. Len(b) \in Nat /\ Len(b) <= MaxInt /\ MaxInt \in Nat
  BY SlicesAre, Widths
<1> HIDE DEF len, end
<1> SUFFICES ASSUME len.err = "ok"
             PROVE  Block(b, i) =
                      IF len.val > MaxInt \/ len.next + len.val > MaxInt THEN Fail("length")
                      ELSE IF len.next + len.val > Len(b) THEN Fail("eof")
                      ELSE Ok(SubSeq(b, len.next + 1, len.next + len.val), len.next + len.val)
  BY <1>4 DEF len
<1> PICK n, v : n = len.next /\ v = len.val
  OBVIOUS
<1>6. n \in Nat /\ v \in Nat /\ v < WordSize /\ n <= Len(b)
  BY <1>3
<1>7. CASE v > MaxInt
  <2>1. Signed(v, WordSize) < 0
    BY <1>5, <1>6, <1>7, SignedWord
  <2>2. end = Fail("length")
    BY <2>1 DEF end, BlockEnd
  <2> QED BY <1>4, <1>7, <2>2 DEF Fail
<1>8. CASE ~(v > MaxInt)
  <2>1. Signed(v, WordSize) = v
    BY <1>5, <1>6, <1>8, SignedWord
  <2>2. end = IF n + v > MaxInt THEN Fail("length")
              ELSE IF n + v > Len(b) THEN Fail("eof")
              ELSE Ok(0, n + v)
    BY <1>5, <1>6, <1>8, <2>1, BlockEndFacts DEF end
  <2>3. CASE n + v > MaxInt
    BY <1>4, <2>2, <2>3 DEF Fail
  <2>4. CASE ~(n + v > MaxInt) /\ n + v > Len(b)
    BY <1>4, <1>8, <2>2, <2>4 DEF Fail
  <2>5. CASE ~(n + v > MaxInt) /\ ~(n + v > Len(b))
    <3>1. end.err = "ok" /\ end.next = n + v
      BY <2>2, <2>5 DEF Ok
    <3>2. n + v \in n..Len(b)
      BY <1>5, <1>6, <2>5
    <3> QED BY <1>4, <1>8, <2>5, <3>1, <3>2
  <2> QED BY <2>3, <2>4, <2>5
<1> QED BY <1>7, <1>8

\* Reading a block at any index of a slice gives a slice and a later index, or an
\* error: the checks on its length exclude every other case.
LEMMA BlockReading ==
    \A b \in Slices : \A i \in Nat : i <= Len(b) => BlockFacts(b, i)
<1> TAKE b \in Slices
<1> TAKE i \in Nat
<1> HAVE i <= Len(b)
<1> DEFINE len == Varint(b, i, WordSize)
<1>1. WordSize \in Nat \ {0}
  BY Widths
<1>2. VarintFacts(b, i, WordSize)
  BY <1>1, VarintReading
<1>3. Block(b, i) =
        IF len.err # "ok" THEN len
        ELSE IF len.val > MaxInt \/ len.next + len.val > MaxInt THEN Fail("length")
        ELSE IF len.next + len.val > Len(b) THEN Fail("eof")
        ELSE Ok(SubSeq(b, len.next + 1, len.next + len.val), len.next + len.val)
  BY BlockForm
<1>4. /\ len.err \in {"ok", "overflow", "eof"}
      /\ len.err = "ok" => len.val \in Nat /\ len.next \in Nat /\ i < len.next /\ len.next <= Len(b)
      /\ len.err # "ok" => len = Fail(len.err)
  BY <1>2 DEF VarintFacts
<1> HIDE DEF len
<1>5. CASE len.err # "ok"
  <2>1. Block(b, i) = len
    BY <1>3, <1>5
  <2> QED BY <1>4, <1>5, <2>1 DEF BlockFacts
<1>6. CASE len.err = "ok" /\ (Block(b, i) = Fail("length") \/ Block(b, i) = Fail("eof"))
  BY <1>6 DEF BlockFacts, Fail
<1>7. CASE len.err = "ok" /\ ~(Block(b, i) = Fail("length") \/ Block(b, i) = Fail("eof"))
  <2> PICK n, v : n = len.next /\ v = len.val
    OBVIOUS
  <2>1. Block(b, i) = Ok(SubSeq(b, n + 1, n + v), n + v) /\ ~(n + v > Len(b))
    BY <1>3, <1>7
  <2>2. n \in Nat /\ v \in Nat /\ n + v \in Nat /\ n <= n + v /\ i < n + v /\ n + v <= Len(b)
    <3>1. Len(b) \in Nat
      BY SlicesAre
    <3> QED BY <1>4, <1>7, <2>1, <3>1
  <2>3. SubSeq(b, n + 1, n + v) \in Slices
    BY <2>2, SliceType
  <2> QED BY <2>1, <2>2, <2>3 DEF BlockFacts, Ok
<1> QED BY <1>3, <1>5, <1>6, <1>7

\* More bytes behind a block do not change it.
LEMMA BlockMore ==
    \A b, c \in Slices : \A i \in Nat :
        i <= Len(b) /\ b \o c \in Slices /\ Block(b, i).err = "ok" => Block(b \o c, i) = Block(b, i)
<1> SUFFICES ASSUME NEW b \in Slices, NEW c \in Slices, NEW i \in Nat,
                    i <= Len(b), b \o c \in Slices, Block(b, i).err = "ok"
             PROVE  Block(b \o c, i) = Block(b, i)
  OBVIOUS
<1>1. WordSize \in Nat \ {0}
  BY Widths
<1>2. Len(b) \in Nat /\ Len(c) \in Nat /\ Len(b \o c) = Len(b) + Len(c)
  BY SlicesAre, Concat
<1> DEFINE len == Varint(b, i, WordSize)
<1>3. VarintFacts(b, i, WordSize)
  BY <1>1, VarintReading
<1>4. Block(b, i) =
        IF len.err # "ok" THEN len
        ELSE IF len.val > MaxInt \/ len.next + len.val > MaxInt THEN Fail("length")
        ELSE IF len.next + len.val > Len(b) THEN Fail("eof")
        ELSE Ok(SubSeq(b, len.next + 1, len.next + len.val), len.next + len.val)
  BY BlockForm
<1> HIDE DEF len
<1>5. /\ len.err = "ok" /\ ~(len.val > MaxInt) /\ ~(len.next + len.val > MaxInt)
      /\ ~(len.next + len.val > Len(b))
  BY <1>4 DEF Fail
<1>6. len.val \in Nat /\ len.next \in Nat
  BY <1>3, <1>5 DEF VarintFacts, len
<1>7. Varint(b \o c, i, WordSize) = len
  BY <1>1, <1>5, VarintMore DEF len
<1> PICK n, k : n = len.next /\ k = len.next + len.val
  OBVIOUS
<1>8. n \in Nat /\ k \in Nat /\ n <= k /\ k <= Len(b)
  BY <1>2, <1>5, <1>6
<1>9. i <= Len(b \o c) /\ ~(k > Len(b \o c))
  BY <1>2, <1>8
<1>10. Block(b \o c, i) = Ok(SubSeq(b \o c, n + 1, k), k)
  BY <1>5, <1>7, <1>9, BlockForm
<1>11. SubSeq(b \o c, n + 1, k) = SubSeq(b, n + 1, k)
  <2>1. SameLeft(b, c, n, k)
    BY <1>8, SliceLeft
  <2> QED BY <2>1 DEF SameLeft
<1>12. Block(b, i) = Ok(SubSeq(b, n + 1, k), k)
  BY <1>4, <1>5
<1> QED BY <1>10, <1>11, <1>12

\* A number is read where it was written.
LEMMA VarintWritten ==
    \A p, c \in Slices : \A v \in Nat : \A size \in {WordSize, Int32Size} :
        v < size /\ p \o encodeVarint[v] \in Slices =>
            Varint((p \o encodeVarint[v]) \o c, Len(p), size)
              = Ok(v, Len(p) + Len(encodeVarint[v]))
<1> SUFFICES ASSUME NEW p \in Slices, NEW c \in Slices, NEW v \in Nat,
                    NEW size \in {WordSize, Int32Size}, v < size, p \o encodeVarint[v] \in Slices
             PROVE  Varint((p \o encodeVarint[v]) \o c, Len(p), size)
                      = Ok(v, Len(p) + Len(encodeVarint[v]))
  OBVIOUS
<1>1. size \in Nat \ {0} /\ size <= WordSize /\ v < WordSize
  BY Widths
<1>2. p \in Seq(Byte) /\ Len(p) \in Nat
  BY SlicesAre
<1>3. Varint(p \o encodeVarint[v], Len(p), size) = Ok(v, Len(p) + Len(encodeVarint[v]))
  BY <1>1, <1>2, VarintReads, Zenon
<1>4. encodeVarint[v] \in Slices /\ Len(encodeVarint[v]) \in Nat
  BY <1>1, Encoded
<1>5. Len(p) <= Len(p \o encodeVarint[v])
  BY <1>2, <1>4, Concat
<1>6. Varint(p \o encodeVarint[v], Len(p), size).err = "ok"
  BY <1>3 DEF Ok
<1> QED BY <1>1, <1>2, <1>3, <1>5, <1>6, VarintMore

\* A block is read where it was written.
LEMMA BlockWritten ==
    \A p, v \in Slices :
        LET b == p \o (encodeVarint[Len(v)] \o v)
        IN  b \in Slices => Block(b, Len(p)) = Ok(v, Len(b))
<1> SUFFICES ASSUME NEW p \in Slices, NEW v \in Slices,
                    p \o (encodeVarint[Len(v)] \o v) \in Slices
             PROVE  Block(p \o (encodeVarint[Len(v)] \o v), Len(p))
                      = Ok(v, Len(p \o (encodeVarint[Len(v)] \o v)))
  OBVIOUS
<1> PICK l, e, b : l = Len(v) /\ e = encodeVarint[l] /\ b = p \o (e \o v)
  OBVIOUS
<1>1. l \in Nat /\ l <= MaxInt /\ l < WordSize /\ Len(p) \in Nat
  BY SlicesAre, Widths
<1>2. e \in Slices /\ Len(e) \in Nat
  BY <1>1, Encoded
<1>3. e \in Seq(Byte) /\ p \in Seq(Byte) /\ v \in Seq(Byte)
  BY <1>2, SlicesAre
<1>4. b \in Slices /\ b = (p \o e) \o v
  <2>1. Assoc(p, e, v)
    BY <1>3, SeqAssoc, Zenon
  <2> QED BY <2>1 DEF Assoc
<1>5. p \o e \in Seq(Byte) /\ Len(p \o e) = Len(p) + Len(e)
  BY <1>3, SeqConcat, Zenon
<1>6. Len(b) = (Len(p) + Len(e)) + l
  <2>1. Len((p \o e) \o v) = Len(p \o e) + Len(v)
    BY <1>3, <1>5, SeqConcat, Zenon
  <2> QED BY <1>4, <1>5, <2>1, Zenon
<1>7. Len(b) <= MaxInt /\ Len(b) \in Nat
  BY <1>4, SlicesAre
<1>8. p \o e \in Slices
  <2>1. Len(p) + Len(e) <= MaxInt
    BY <1>1, <1>2, <1>6, <1>7, Widths
  <2> QED BY <1>5, <2>1, SlicesAre
<1>9. Varint(b, Len(p), WordSize) = Ok(l, Len(p) + Len(e))
  <2>1. v \in Slices /\ WordSize \in {WordSize, Int32Size} /\ p \o encodeVarint[l] \in Slices
    BY <1>8
  <2>2. Varint((p \o encodeVarint[l]) \o v, Len(p), WordSize) = Ok(l, Len(p) + Len(encodeVarint[l]))
    BY <1>1, <2>1, VarintWritten, Zenon
  <2> QED BY <1>4, <2>2, Zenon
<1> PICK n, k : n = Len(p) + Len(e) /\ k = n + l
  OBVIOUS
<1>10. n \in Nat /\ k = Len(b) /\ ~(l > MaxInt) /\ ~(n + l > MaxInt) /\ ~(n + l > Len(b))
       /\ Len(p) <= Len(b) /\ n + l = Len(b)
  BY <1>1, <1>2, <1>6, <1>7, Widths
<1>11. Block(b, Len(p)) = Ok(SubSeq(b, n + 1, n + l), n + l)
  <2>1. Len(p) \in Nat /\ Len(p) <= Len(b)
    BY <1>1, <1>10
  <2>2. Block(b, Len(p)) =
          IF Ok(l, n).err # "ok" THEN Ok(l, n)
          ELSE IF Ok(l, n).val > MaxInt \/ Ok(l, n).next + Ok(l, n).val > MaxInt THEN Fail("length")
          ELSE IF Ok(l, n).next + Ok(l, n).val > Len(b) THEN Fail("eof")
          ELSE Ok(SubSeq(b, Ok(l, n).next + 1, Ok(l, n).next + Ok(l, n).val), Ok(l, n).next + Ok(l, n).val)
    BY <1>4, <1>9, <2>1, BlockForm
  <2>3. Ok(l, n).err = "ok" /\ Ok(l, n).val = l /\ Ok(l, n).next = n
    BY DEF Ok
  <2> QED BY <1>10, <2>2, <2>3
<1>12. SubSeq(b, n + 1, n + l) = v
  <2>1. SubSeq((p \o e) \o v, Len(p \o e) + 1, Len((p \o e) \o v)) = SubSeq(p \o e, Len(p \o e) + 1, Len(p \o e)) \o v
    <3>1. Len(p \o e) \in Nat /\ Len(p \o e) <= Len(p \o e)
      BY <1>8, SlicesAre
    <3>2. SameRest(p \o e, v, Len(p \o e))
      BY <1>8, <3>1, SliceRest
    <3> QED BY <3>2 DEF SameRest
  <2>2. SubSeq(p \o e, Len(p \o e) + 1, Len(p \o e)) = <<>>
    BY <1>5
  <2>3. <<>> \o v = v
    BY Concat
  <2> QED BY <1>4, <1>5, <1>10, <2>1, <2>2, <2>3
<1> QED BY <1>10, <1>11, <1>12

\* r is what a loop with the step h does from a.
IsLoopRun(r, S, a, h) ==
    /\ r \in [Nat -> S]
    /\ r[0] = a
    /\ \A k \in Nat : r[k + 1] = IF r[k].err = "more" THEN h[r[k]] ELSE r[k]

\* A loop that advances in each iteration has advanced k after k of them.
LEMMA RunAdvances ==
    ASSUME NEW r, r[0].next = 0,
           \A k \in Nat : r[k].err # "more" => r[k + 1] = r[k],
           \A k \in Nat : r[k].err = "more" => r[k].next \in Nat,
           \A k \in Nat : r[k].err = "more" /\ r[k + 1].err = "more" => r[k + 1].next > r[k].next
    PROVE  \A k \in Nat : r[k].err = "more" => r[k].next >= k
<1> DEFINE X == {k \in Nat : r[k].err = "more" => r[k].next >= k}
<1>1. 0 \in X
  OBVIOUS
<1>2. ASSUME NEW k \in Nat, k \in X PROVE k + 1 \in X
  <2>1. ASSUME r[k + 1].err = "more" PROVE r[k + 1].next >= k + 1
    <3>1. r[k].err = "more"
      BY <2>1
    <3>2. r[k].next >= k /\ r[k + 1].next > r[k].next
      BY <1>2, <2>1, <3>1
    <3>3. r[k].next \in Nat /\ r[k + 1].next \in Nat
      BY <2>1, <3>1
    <3> QED BY <3>2, <3>3
  <2> QED BY <2>1
<1>3. \A k \in Nat : k \in X
  <2> HIDE DEF X
  <2> QED BY <1>1, <1>2, NatSetInduction
<1> QED BY <1>3

-----------------------------------------------------------------------------
Errors == {"overflow", "eof", "length", "endgroup", "wiretype", "tag", "int", "depth"}

\* What the loop of skip can be in.
SkipStates ==
    {st \in [err : {"more", "ok"} \cup Errors, val : Nat, next : Nat] :
        /\ st.err = "more" => st.next <= MaxInt
        /\ st.err = "ok" => st.val = 0 /\ st.next > 0 /\ st.next <= MaxInt
        /\ st.err \in Errors => st = Fail(st.err)}

\* What one entry is for skip: an error, or where it ends, if that is an int.
SkipEntryFacts(b, i, wt) ==
    LET r == SkipEntry(b, i, wt)
    IN  /\ r.err \in {"ok"} \cup Errors
        /\ r.err \in Errors => r = Fail(r.err)
        /\ r.err = "ok" => /\ r.next \in Int
                           /\ r.next >= 0 => r.next >= i /\ r.next <= MaxInt

\* What skip takes for one entry.
LEMMA SkipEntryReading ==
    \A b \in Slices : \A i \in Nat : i <= Len(b) => \A wt : SkipEntryFacts(b, i, wt)
<1> SUFFICES ASSUME NEW b \in Slices, NEW i \in Nat, i <= Len(b), NEW wt
             PROVE  SkipEntryFacts(b, i, wt)
  OBVIOUS
<1> DEFINE len == Varint(b, i, WordSize)
           r == SkipEntry(b, i, wt)
<1>0. Len(b) \in Nat /\ Len(b) <= MaxInt /\ MaxInt \in Nat /\ MaxInt >= 63
      /\ WordSize = 2 * (MaxInt + 1) /\ WordSize \in Nat \ {0}
  BY SlicesAre, Widths
<1>1. VarintFacts(b, i, WordSize)
  BY <1>0, VarintReading
<1>2. /\ len.err \in {"ok", "overflow", "eof"}
      /\ len.err = "ok" => /\ len.val \in Nat /\ len.val < WordSize
                           /\ len.next \in Nat /\ i < len.next /\ len.next <= Len(b)
      /\ len.err # "ok" => len = Fail(len.err)
  BY <1>1 DEF VarintFacts
<1>3. r = CASE wt = 0 -> len
            [] wt = 1 -> Ok(0, Signed(i + 8, WordSize))
            [] wt = 2 -> IF len.err # "ok" THEN len
                         ELSE IF Signed(len.val, WordSize) < 0 THEN Fail("length")
                         ELSE Ok(0, Signed(len.next + Signed(len.val, WordSize), WordSize))
            [] wt \in {3, 4} -> Ok(0, i)
            [] wt = 5 -> Ok(0, Signed(i + 4, WordSize))
            [] OTHER  -> Fail("wiretype")
  BY DEF SkipEntry
<1> HIDE DEF len, r
<1>4. ASSUME NEW x \in Nat, x >= i, x < WordSize, r = Ok(0, Signed(x, WordSize))
      PROVE  SkipEntryFacts(b, i, wt)
  <2>1. CASE x <= MaxInt
    <3>1. r = Ok(0, x)
      BY <1>4, <2>1, SignedWord
    <3> QED BY <1>4, <2>1, <3>1 DEF SkipEntryFacts, Ok, Errors, r
  <2>2. CASE ~(x <= MaxInt)
    <3>1. Signed(x, WordSize) \in Int /\ Signed(x, WordSize) < 0
      BY <1>4, <2>2, SignedWord
    <3> QED BY <1>4, <3>1 DEF SkipEntryFacts, Ok, Errors, r
  <2> QED BY <2>1, <2>2
<1>5. ASSUME NEW e \in Errors, r = Fail(e) PROVE SkipEntryFacts(b, i, wt)
  BY <1>5 DEF SkipEntryFacts, Fail, Errors, r
<1>6. CASE wt = 0
  <2>1. r = len
    BY <1>3, <1>6
  <2> QED BY <1>0, <1>2, <2>1 DEF SkipEntryFacts, Errors, r
<1>7. CASE wt = 1
  <2>1. r = Ok(0, Signed(i + 8, WordSize))
    BY <1>3, <1>7
  <2>2. i + 8 \in Nat /\ i + 8 >= i /\ i + 8 < WordSize
    BY <1>0
  <2> QED BY <1>4, <2>1, <2>2
<1>8. CASE wt = 2
  <2>1. CASE len.err # "ok"
    <3>1. r = len
      BY <1>3, <1>8, <2>1
    <3> QED BY <1>2, <2>1, <3>1 DEF SkipEntryFacts, Errors, r
  <2>2. CASE len.err = "ok" /\ Signed(len.val, WordSize) < 0
    <3>1. r = Fail("length")
      BY <1>3, <1>8, <2>2
    <3> QED BY <1>5, <3>1 DEF Errors
  <2>3. CASE len.err = "ok" /\ ~(Signed(len.val, WordSize) < 0)
    <3>1. len.val <= MaxInt /\ Signed(len.val, WordSize) = len.val
      BY <1>0, <1>2, <2>3, SignedWord
    <3>2. r = Ok(0, Signed(len.next + len.val, WordSize))
      BY <1>3, <1>8, <2>3, <3>1
    <3>3. len.next + len.val \in Nat /\ len.next + len.val >= i /\ len.next + len.val < WordSize
      BY <1>0, <1>2, <2>3, <3>1
    <3> QED BY <1>4, <3>2, <3>3
  <2> QED BY <2>1, <2>2, <2>3
<1>9. CASE wt \in {3, 4}
  <2>1. r = Ok(0, i)
    BY <1>3, <1>9
  <2> QED BY <1>0, <2>1 DEF SkipEntryFacts, Ok, Errors, r
<1>10. CASE wt = 5
  <2>1. r = Ok(0, Signed(i + 4, WordSize))
    BY <1>3, <1>10
  <2>2. i + 4 \in Nat /\ i + 4 >= i /\ i + 4 < WordSize
    BY <1>0
  <2> QED BY <1>4, <2>1, <2>2
<1>11. CASE wt \notin {0, 1, 2, 3, 4, 5}
  <2>1. r = Fail("wiretype")
    BY <1>3, <1>11
  <2> QED BY <1>5, <2>1 DEF Errors
<1> QED BY <1>6, <1>7, <1>8, <1>9, <1>10, <1>11

\* One iteration of skip advances, or it ends the loop.
LEMMA SkipStepType ==
    ASSUME NEW b \in Slices, NEW st \in SkipStates, st.err = "more"
    PROVE  /\ SkipStep(b, st) \in SkipStates
           /\ SkipStep(b, st).err \in {"more", "ok"} =>
                 st.next < Len(b) /\ SkipStep(b, st).next > st.next
           /\ st.next >= Len(b) => SkipStep(b, st) = Fail("eof")
<1> DEFINE tag == Varint(b, st.next, WordSize)
           wt == tag.val % 8
           entry == SkipEntry(b, tag.next, wt)
           open == st.val + (IF wt = 3 THEN 1 ELSE IF wt = 4 THEN -1 ELSE 0)
           s == SkipStep(b, st)
<1>1. s = IF st.next >= Len(b) THEN Fail("eof")
          ELSE IF tag.err # "ok" THEN tag
          ELSE IF wt = 4 /\ st.val = 0 THEN Fail("endgroup")
          ELSE IF entry.err # "ok" THEN entry
          ELSE IF entry.next < 0 THEN Fail("length")
          ELSE IF open = 0 THEN Ok(0, entry.next)
          ELSE More(open, entry.next)
  BY DEF SkipStep
<1>2. st.next \in Nat /\ st.val \in Nat /\ Len(b) \in Nat /\ WordSize \in Nat \ {0}
  BY SlicesAre, Widths DEF SkipStates
<1>3. ASSUME st.next < Len(b)
      PROVE  /\ tag.err \in {"ok", "overflow", "eof"}
             /\ tag.err = "ok" => /\ tag.val \in Nat
                                  /\ tag.next \in Nat /\ st.next < tag.next /\ tag.next <= Len(b)
             /\ tag.err # "ok" => tag = Fail(tag.err)
  <2>1. VarintFacts(b, st.next, WordSize)
    BY <1>2, <1>3, VarintReading
  <2> QED BY <2>1 DEF VarintFacts
<1>4. ASSUME st.next < Len(b), tag.err = "ok"
      PROVE  /\ entry.err \in {"ok"} \cup Errors
             /\ entry.err \in Errors => entry = Fail(entry.err)
             /\ entry.err = "ok" => /\ entry.next \in Int
                                    /\ entry.next >= 0 => entry.next >= tag.next /\ entry.next <= MaxInt
  <2> HIDE DEF tag, wt
  <2>1. SkipEntryFacts(b, tag.next, wt)
    BY <1>3, <1>4, SkipEntryReading
  <2> QED BY <2>1 DEF SkipEntryFacts
<1>5. wt # 4 \/ st.val # 0 => open \in Nat
  <2> HIDE DEF wt
  <2> QED BY <1>2
<1> HIDE DEF tag, wt, entry, open, s
<1>6. \A e \in Errors : Fail(e) \in SkipStates /\ Fail(e).err \notin {"more", "ok"}
  BY DEF Errors, Fail, SkipStates
<1>7. CASE st.next >= Len(b)
  BY <1>1, <1>6, <1>7 DEF s, Errors
<1>8. CASE st.next < Len(b) /\ tag.err # "ok"
  <2>1. ~(st.next >= Len(b))
    BY <1>2, <1>8
  <2>2. s = tag /\ tag = Fail(tag.err) /\ tag.err \in Errors
    BY <1>1, <1>3, <1>8, <2>1 DEF Errors
  <2> QED BY <1>6, <2>1, <2>2 DEF s
<1>9. CASE st.next < Len(b) /\ tag.err = "ok" /\ entry.err \in Errors
  <2>1. ~(st.next >= Len(b))
    BY <1>2, <1>9
  <2>2. s = Fail("endgroup") \/ (s = entry /\ entry = Fail(entry.err))
    BY <1>1, <1>4, <1>9, <2>1 DEF Errors
  <2> QED BY <1>6, <1>9, <2>1, <2>2 DEF s, Errors
<1>10. CASE st.next < Len(b) /\ tag.err = "ok" /\ entry.err = "ok"
  <2>1. ~(st.next >= Len(b))
    BY <1>2, <1>10
  <2>2. CASE s = Fail("endgroup") \/ s = Fail("length")
    BY <1>6, <2>1, <2>2 DEF s, Errors
  <2>3. CASE ~(s = Fail("endgroup") \/ s = Fail("length"))
    <3>1. /\ ~(wt = 4 /\ st.val = 0) /\ ~(entry.next < 0)
          /\ s = IF open = 0 THEN Ok(0, entry.next) ELSE More(open, entry.next)
      BY <1>1, <1>10, <2>1, <2>3
    <3>2. /\ entry.next \in Nat /\ entry.next > st.next /\ entry.next <= MaxInt /\ open \in Nat
      BY <1>2, <1>3, <1>4, <1>5, <1>10, <3>1
    <3> PICK n, o, x : n = entry.next /\ o = open /\ x = st.next
      OBVIOUS
    <3>3. n \in Nat /\ n > x /\ x \in Nat /\ n <= MaxInt /\ o \in Nat /\ n > 0
      BY <1>2, <3>2
    <3>4. Ok(0, n) \in SkipStates /\ More(o, n) \in SkipStates /\ Ok(0, n).next = n /\ More(o, n).next = n
      BY <3>3 DEF Ok, More, SkipStates, Errors
    <3> QED BY <1>10, <2>1, <3>1, <3>3, <3>4 DEF s
  <2> QED BY <2>2, <2>3
<1>11. st.next < Len(b) \/ st.next >= Len(b)
  BY <1>2
<1> QED BY <1>3, <1>4, <1>7, <1>8, <1>9, <1>10, <1>11

IsSkipRun(r, b) ==
    /\ r \in [Nat -> SkipStates]
    /\ r[0] = More(0, 0)
    /\ \A k \in Nat : r[k + 1] = IF r[k].err = "more" THEN SkipStep(b, r[k]) ELSE r[k]
    /\ skip(b) = Ended(r, Len(b) + 1)

\* The loop of skip has a run.
LEMMA SkipRun ==
    ASSUME NEW b \in Slices
    PROVE  \E r : IsSkipRun(r, b)
<1> DEFINE S == SkipStates
           a == More(0, 0)
           F(st) == IF st.err = "more" THEN SkipStep(b, st) ELSE st
           h == [st \in S |-> F(st)]
           E(r, k) == IF k = 0 THEN a ELSE F(r[k - 1])
<1>1. a \in S
  <2>1. 0 <= MaxInt
    BY Widths
  <2> QED BY <2>1 DEF More, SkipStates, Errors
<1>2. h \in [S -> S]
  BY SkipStepType
<1>3. PICK f : f \in [Nat -> S] /\ f[0] = a /\ \A n \in Nat : f[n + 1] = h[f[n]]
  <2> HIDE DEF S, a, h
  <2>1. \E f : IsIteration(f, S, a, h)
    BY <1>1, <1>2, Iterates
  <2> QED BY <2>1 DEF IsIteration
<1>4. \A n \in Nat : f[n] \in S /\ f[n + 1] = F(f[n])
  <2> HIDE DEF S, a, F
  <2> QED BY <1>3
<1>5. f = [k \in Nat |-> E(f, k)]
  <2> HIDE DEF S, F, a
  <2>1. ASSUME NEW k \in Nat PROVE f[k] = E(f, k)
    <3>1. CASE k = 0
      BY <1>3, <3>1
    <3>2. CASE k # 0
      <4>1. k - 1 \in Nat /\ (k - 1) + 1 = k
        BY <3>2
      <4> QED BY <1>4, <3>2, <4>1
    <3> QED BY <3>1, <3>2
  <2> HIDE DEF E
  <2>2. f = [k \in Nat |-> f[k]]
    BY <1>3
  <2> QED BY <2>1, <2>2
<1> DEFINE r == CHOOSE r : r = [k \in Nat |-> E(r, k)]
<1>6. r = [k \in Nat |-> E(r, k)]
  <2> HIDE DEF E
  <2> QED BY <1>5
<1>7. skip(b) = Ended(r, Len(b) + 1)
  BY DEF skip, Loop, Ended
<1> HIDE DEF r
<1>8. r[0] = a /\ \A k \in Nat : r[k + 1] = F(r[k])
  <2>1. \A k \in Nat : r[k] = E(r, k)
    <3> HIDE DEF E
    <3> QED BY <1>6
  <2> HIDE DEF F, a
  <2>2. r[0] = a
    BY <2>1
  <2>3. ASSUME NEW k \in Nat PROVE r[k + 1] = F(r[k])
    <3>1. k + 1 \in Nat /\ k + 1 # 0 /\ (k + 1) - 1 = k
      OBVIOUS
    <3>2. r[k + 1] = E(r, k + 1)
      BY <2>1, <3>1
    <3> QED BY <3>1, <3>2
  <2> QED BY <2>2, <2>3
<1> DEFINE X == {k \in Nat : r[k] \in S}
<1>9. \A k \in Nat : k \in X
  <2>1. 0 \in X
    <3> HIDE DEF S
    <3> QED BY <1>1, <1>8
  <2>2. ASSUME NEW k \in Nat, k \in X PROVE k + 1 \in X
    <3>1. F(r[k]) \in S
      BY <2>2, SkipStepType
    <3>2. r[k + 1] \in S
      <4> HIDE DEF S, F
      <4> QED BY <1>8, <3>1
    <3> HIDE DEF S
    <3> QED BY <3>2
  <2> HIDE DEF X
  <2> QED BY <2>1, <2>2, NatSetInduction
<1>10. r \in [Nat -> S]
  <2> HIDE DEF S, E
  <2>1. r = [k \in Nat |-> r[k]]
    BY <1>6
  <2> QED BY <1>9, <2>1
<1>11. IsSkipRun(r, b)
  BY <1>7, <1>8, <1>10 DEF IsSkipRun
<1> QED BY <1>11

\* The run of skip ends within the bound of the loop.
LEMMA SkipRunEnds ==
    ASSUME NEW b \in Slices, NEW r, IsSkipRun(r, b)
    PROVE  /\ \A k \in Nat : r[k] \in SkipStates
           /\ \A k \in Nat : r[k].err # "more" => r[k + 1] = r[k]
           /\ \A k \in Nat : r[k].err # "more" => skip(b) = r[k]
           /\ Len(b) + 1 \in Nat /\ r[Len(b) + 1].err # "more"
<1> DEFINE n == Len(b) + 1
<1>0. Len(b) \in Nat /\ n \in Nat
  BY SlicesAre
<1>1. /\ \A k \in Nat : r[k] \in SkipStates
      /\ r[0] = More(0, 0)
      /\ \A k \in Nat : r[k].err # "more" => r[k + 1] = r[k]
      /\ \A k \in Nat : r[k].err = "more" => r[k + 1] = SkipStep(b, r[k])
  BY DEF IsSkipRun
<1>2. \A k \in Nat : r[k].err = "more" => r[k].next \in Nat
  BY <1>1 DEF SkipStates
<1>3. \A k \in Nat : r[k].err = "more" /\ r[k + 1].err = "more" => r[k + 1].next > r[k].next
  BY <1>1, SkipStepType
<1>4. r[0].next = 0
  BY <1>1 DEF More
<1>5. \A k \in Nat : r[k].err = "more" => r[k].next >= k
  BY <1>1, <1>2, <1>3, <1>4, RunAdvances
<1>6. r[n].err # "more"
  <2>1. CASE r[Len(b)].err # "more"
    BY <1>0, <1>1, <2>1
  <2>2. CASE r[Len(b)].err = "more"
    <3>1. r[Len(b)].next >= Len(b) /\ r[n] = SkipStep(b, r[Len(b)])
      BY <1>0, <1>1, <1>5, <2>2
    <3>2. r[n] = Fail("eof")
      BY <1>0, <1>1, <2>2, <3>1, SkipStepType
    <3> QED BY <3>2 DEF Fail
  <2> QED BY <2>1, <2>2
<1> HIDE DEF n
<1>7. ASSUME NEW k \in Nat, r[k].err # "more" PROVE skip(b) = r[k]
  <2>1. Ended(r, n) = r[n]
    BY <1>0, <1>1, <1>6, RunLast
  <2>2. r[n] = r[k]
    <3>1. CASE n >= k
      BY <1>0, <1>1, <1>7, <3>1, RunStays
    <3>2. CASE k >= n
      BY <1>0, <1>1, <1>6, <3>2, RunStays
    <3> QED BY <1>0, <3>1, <3>2
  <2> QED BY <2>1, <2>2 DEF IsSkipRun, n
<1> QED BY <1>0, <1>1, <1>6, <1>7 DEF n

\* skip ends, with an error or an index that is an int.
LEMMA SkipReading ==
    \A b \in Slices : skip(b) \in SkipStates /\ skip(b).err # "more"
<1> TAKE b \in Slices
<1>1. PICK r : IsSkipRun(r, b)
  BY SkipRun
<1> QED BY <1>1, SkipRunEnds

\* More bytes behind a skipped entry do not change it.
LEMMA SkipEntryMore ==
    \A b, c \in Slices : \A i \in Nat : \A wt :
        i <= Len(b) /\ SkipEntry(b, i, wt).err = "ok" =>
            SkipEntry(b \o c, i, wt) = SkipEntry(b, i, wt)
<1> SUFFICES ASSUME NEW b \in Slices, NEW c \in Slices, NEW i \in Nat, NEW wt,
                    i <= Len(b), SkipEntry(b, i, wt).err = "ok"
             PROVE  SkipEntry(b \o c, i, wt) = SkipEntry(b, i, wt)
  OBVIOUS
<1>1. WordSize \in Nat \ {0}
  BY Widths
<1>2. CASE Varint(b, i, WordSize).err = "ok"
  <2>1. Varint(b \o c, i, WordSize) = Varint(b, i, WordSize)
    BY <1>1, <1>2, VarintMore
  <2> QED BY <2>1 DEF SkipEntry
<1>3. CASE Varint(b, i, WordSize).err # "ok"
  <2>1. wt # 0 /\ wt # 2
    <3>1. wt = 0 => SkipEntry(b, i, wt) = Varint(b, i, WordSize)
      BY DEF SkipEntry
    <3>2. wt = 2 => SkipEntry(b, i, wt) = Varint(b, i, WordSize)
      BY <1>3 DEF SkipEntry
    <3> QED BY <1>3, <3>1, <3>2
  <2> QED BY <2>1 DEF SkipEntry
<1> QED BY <1>2, <1>3

\* More bytes behind what an iteration of skip reads do not change it.
LEMMA SkipStepMore ==
    ASSUME NEW b \in Slices, NEW c \in Slices, NEW st \in SkipStates, st.err = "more",
           SkipStep(b, st).err \in {"more", "ok"}
    PROVE  SkipStep(b \o c, st) = SkipStep(b, st)
<1> DEFINE tag == Varint(b, st.next, WordSize)
           wt == tag.val % 8
           entry == SkipEntry(b, tag.next, wt)
           open == st.val + (IF wt = 3 THEN 1 ELSE IF wt = 4 THEN -1 ELSE 0)
<1>0. WordSize \in Nat \ {0} /\ Len(b) \in Nat /\ Len(c) \in Nat /\ Len(b \o c) = Len(b) + Len(c)
      /\ st.next \in Nat
  BY SlicesAre, Concat, Widths DEF SkipStates
<1>1. st.next < Len(b)
  BY SkipStepType
<1>2. ~(st.next >= Len(b)) /\ ~(st.next >= Len(b \o c)) /\ st.next <= Len(b)
  BY <1>0, <1>1
<1>3. SkipStep(b, st) = IF tag.err # "ok" THEN tag
          ELSE IF wt = 4 /\ st.val = 0 THEN Fail("endgroup")
          ELSE IF entry.err # "ok" THEN entry
          ELSE IF entry.next < 0 THEN Fail("length")
          ELSE IF open = 0 THEN Ok(0, entry.next)
          ELSE More(open, entry.next)
  BY <1>2 DEF SkipStep
<1>4. VarintFacts(b, st.next, WordSize)
  BY <1>0, <1>2, VarintReading
<1>5. tag.err = "ok" /\ tag.next \in Nat /\ tag.next <= Len(b)
  <2>1. tag.err = "ok"
    BY <1>3, <1>4 DEF VarintFacts, Fail
  <2> QED BY <1>4, <2>1 DEF VarintFacts
<1>6. entry.err = "ok"
  <2> HIDE DEF tag, wt
  <2>1. SkipEntryFacts(b, tag.next, wt)
    BY <1>5, SkipEntryReading
  <2> HIDE DEF entry
  <2> QED BY <1>3, <1>5, <2>1 DEF SkipEntryFacts, Errors, Fail, entry
<1>7. Varint(b \o c, st.next, WordSize) = tag
  BY <1>0, <1>2, <1>5, VarintMore
<1> HIDE DEF tag, wt
<1>8. SkipEntry(b \o c, tag.next, wt) = entry
  BY <1>5, <1>6, SkipEntryMore
<1>9. SkipStep(b \o c, st) = IF tag.err # "ok" THEN tag
          ELSE IF wt = 4 /\ st.val = 0 THEN Fail("endgroup")
          ELSE IF entry.err # "ok" THEN entry
          ELSE IF entry.next < 0 THEN Fail("length")
          ELSE IF open = 0 THEN Ok(0, entry.next)
          ELSE More(open, entry.next)
  <2> HIDE DEF entry
  <2> QED BY <1>2, <1>7, <1>8 DEF SkipStep, wt
<1> QED BY <1>3, <1>9

\* More bytes behind what skip has taken do not change it.
LEMMA SkipMore ==
    \A b, c \in Slices : b \o c \in Slices /\ skip(b).err = "ok" => skip(b \o c) = skip(b)
<1> SUFFICES ASSUME NEW b \in Slices, NEW c \in Slices, b \o c \in Slices, skip(b).err = "ok"
             PROVE  skip(b \o c) = skip(b)
  OBVIOUS
<1>1. PICK r : IsSkipRun(r, b)
  BY SkipRun
<1>2. PICK e : IsSkipRun(e, b \o c)
  BY SkipRun
<1>3. /\ \A k \in Nat : r[k] \in SkipStates
      /\ Len(b) + 1 \in Nat /\ r[Len(b) + 1].err # "more" /\ skip(b) = r[Len(b) + 1]
      /\ \A k \in Nat : r[k].err # "more" => r[k + 1] = r[k]
  BY <1>1, SkipRunEnds
<1> DEFINE X == {k \in Nat : r[k].err \in {"more", "ok"} => e[k] = r[k]}
<1>4. 0 \in X
  BY <1>1, <1>2 DEF IsSkipRun
<1>5. ASSUME NEW k \in Nat, k \in X PROVE k + 1 \in X
  <2>1. ASSUME r[k + 1].err \in {"more", "ok"} PROVE e[k + 1] = r[k + 1]
    <3>1. CASE r[k].err = "more"
      <4>1. /\ e[k] = r[k] /\ r[k + 1] = SkipStep(b, r[k]) /\ e[k + 1] = SkipStep(b \o c, r[k])
        BY <1>1, <1>2, <1>5, <3>1 DEF IsSkipRun
      <4>2. r[k] \in SkipStates
        BY <1>3
      <4> QED BY <2>1, <3>1, <4>1, <4>2, SkipStepMore
    <3>2. CASE r[k].err # "more"
      <4>1. r[k + 1] = r[k]
        BY <1>3, <3>2
      <4>2. e[k] = r[k]
        BY <1>5, <2>1, <4>1
      <4>3. e[k + 1] = e[k]
        BY <1>2, <3>2, <4>2 DEF IsSkipRun
      <4> QED BY <4>1, <4>2, <4>3
    <3> QED BY <3>1, <3>2
  <2> QED BY <2>1
<1>6. \A k \in Nat : k \in X
  <2> HIDE DEF X
  <2> QED BY <1>4, <1>5, NatSetInduction
<1>7. e[Len(b) + 1] = r[Len(b) + 1]
  BY <1>3, <1>6
<1> QED BY <1>2, <1>3, <1>7, SkipRunEnds

Kinds == {"string", "uint32", "int", "message", "repeated"}

\* The table of an Unmarshal function, as far as one entry goes.
IsTable(R) ==
    /\ R \in Seq(Range(R)) /\ Len(R) \in 0..3
    /\ \A i \in 1..Len(R) : /\ R[i].kind \in Kinds
                            /\ R[i].wire = IF R[i].kind = "uint32" THEN 0 ELSE 2

\* What reading one entry gives.
EntryFacts(R, b, i) ==
    LET r == ReadEntry(R, b, i)
        num == r.val.num
    IN  /\ r.err \in {"ok"} \cup Errors
        /\ r.err # "ok" => r = Fail(r.err)
        /\ r.err = "ok" =>
              /\ r.next \in Nat /\ i < r.next /\ r.next <= Len(b)
              /\ num \in 0..Len(R)
              /\ num > 0 => IF R[num].kind = "uint32"
                            THEN r.val.data \in Nat /\ r.val.data < Int32Size
                            ELSE r.val.data \in Slices

\* Reading an entry at any index of a slice gives its number, its data and a later
\* index, or an error.
LEMMA EntryReading ==
    \A R : IsTable(R) =>
        \A b \in Slices : \A i \in Nat : i <= Len(b) => EntryFacts(R, b, i)
<1> SUFFICES ASSUME NEW R, IsTable(R), NEW b \in Slices, NEW i \in Nat, i <= Len(b)
             PROVE  EntryFacts(R, b, i)
  OBVIOUS
<1> DEFINE tag == Varint(b, i, WordSize)
           fieldNum == Signed(tag.val \div 8, Int32Size)
           wireType == tag.val % 8
           skippy == skip(SubSeq(b, i + 1, Len(b)))
           end == Signed(i + skippy.next, WordSize)
           data == IF R[fieldNum].kind = "uint32"
                   THEN Varint(b, tag.next, Int32Size) ELSE Block(b, tag.next)
           r == ReadEntry(R, b, i)
<1>0. /\ Len(b) \in Nat /\ Len(b) <= MaxInt /\ MaxInt \in Nat /\ WordSize = 2 * (MaxInt + 1)
      /\ WordSize \in Nat \ {0} /\ Int32Size \in Nat \ {0} /\ Len(R) \in Nat
  BY SlicesAre, Widths DEF IsTable
<1>1. r = IF tag.err # "ok" THEN tag
    ELSE IF wireType = 4 THEN Fail("endgroup")
    ELSE IF fieldNum <= 0 THEN Fail("tag")
    ELSE IF fieldNum > Len(R)
    THEN IF skippy.err # "ok" THEN skippy
         ELSE IF skippy.next < 0 \/ end < 0 THEN Fail("length")
         ELSE IF end > Len(b) THEN Fail("eof")
         ELSE Ok([num |-> 0, data |-> <<>>], end)
    ELSE IF wireType # R[fieldNum].wire THEN Fail("wiretype")
    ELSE IF data.err # "ok" THEN data
    ELSE Ok([num |-> fieldNum, data |-> data.val], data.next)
  BY DEF ReadEntry, ReadField, KnownField, UnknownField
<1>2. /\ tag.err \in {"ok", "overflow", "eof"}
      /\ tag.err = "ok" => /\ tag.val \in Nat /\ tag.next \in Nat
                           /\ i < tag.next /\ tag.next <= Len(b)
      /\ tag.err # "ok" => tag = Fail(tag.err)
  <2>1. VarintFacts(b, i, WordSize)
    BY <1>0, VarintReading
  <2> QED BY <2>1 DEF VarintFacts
<1>3. tag.err = "ok" => fieldNum \in Int
  <2> HIDE DEF tag
  <2>1. ASSUME tag.err = "ok" PROVE tag.val \div 8 \in Nat
    BY <1>2, <2>1
  <2> QED BY <2>1, SignedInt32
<1>4. skippy \in SkipStates /\ skippy.err # "more"
  <2>1. SubSeq(b, i + 1, Len(b)) \in Slices
    BY <1>0, SliceType
  <2> QED BY <2>1, SkipReading
<1>5. /\ skippy.err \in {"ok"} \cup Errors
      /\ skippy.err # "ok" => skippy = Fail(skippy.err)
      /\ skippy.err = "ok" => skippy.next \in Nat /\ skippy.next > 0 /\ skippy.next <= MaxInt
  <2> HIDE DEF skippy
  <2> QED BY <1>4 DEF SkipStates
<1>6. ASSUME skippy.err = "ok"
      PROVE  end \in Int /\ (end >= 0 => i < end)
  <2> HIDE DEF skippy
  <2>1. i + skippy.next \in Nat /\ i < i + skippy.next /\ i + skippy.next < WordSize
    BY <1>0, <1>5, <1>6
  <2> QED BY <2>1, SignedWord
<1>7. ASSUME tag.err = "ok", fieldNum \in 1..Len(R)
      PROVE  /\ data.err \in {"ok"} \cup Errors
             /\ data.err # "ok" => data = Fail(data.err)
             /\ data.err = "ok" =>
                  /\ data.next \in Nat /\ i < data.next /\ data.next <= Len(b)
                  /\ IF R[fieldNum].kind = "uint32" THEN data.val \in Nat /\ data.val < Int32Size
                     ELSE data.val \in Slices
  <2> HIDE DEF tag, fieldNum
  <2>1. tag.next \in Nat /\ tag.next <= Len(b) /\ i < tag.next
    BY <1>2, <1>7
  <2>2. CASE R[fieldNum].kind = "uint32"
    <3>1. VarintFacts(b, tag.next, Int32Size)
      BY <1>0, <2>1, VarintReading
    <3>2. data = Varint(b, tag.next, Int32Size)
      BY <2>2
    <3> HIDE DEF data
    <3> QED BY <2>1, <2>2, <3>1, <3>2 DEF VarintFacts, Errors
  <2>3. CASE R[fieldNum].kind # "uint32"
    <3>1. BlockFacts(b, tag.next)
      BY <1>0, <2>1, BlockReading
    <3>2. data = Block(b, tag.next)
      BY <2>3
    <3> HIDE DEF data
    <3> QED BY <2>1, <2>3, <3>1, <3>2 DEF BlockFacts, Errors
  <2> QED BY <2>2, <2>3
<1> HIDE DEF tag, fieldNum, wireType, skippy, end, data, r
<1>8. \A e \in Errors : r = Fail(e) => EntryFacts(R, b, i)
  BY DEF EntryFacts, Fail, Errors, r
<1>9. CASE tag.err # "ok"
  <2>1. r = Fail(tag.err) /\ tag.err \in Errors
    BY <1>1, <1>2, <1>9 DEF Errors
  <2> QED BY <1>8, <2>1
<1>10. CASE tag.err = "ok" /\ (r = Fail("endgroup") \/ r = Fail("tag") \/ r = Fail("length")
                               \/ r = Fail("eof") \/ r = Fail("wiretype"))
  BY <1>8, <1>10 DEF Errors
<1>11. CASE /\ tag.err = "ok" /\ fieldNum > Len(R)
            /\ ~(r = Fail("endgroup") \/ r = Fail("tag") \/ r = Fail("length")
                 \/ r = Fail("eof") \/ r = Fail("wiretype"))
  <2>1. CASE skippy.err # "ok"
    <3>1. r = skippy
      BY <1>1, <1>11, <2>1
    <3> QED BY <1>5, <1>8, <2>1, <3>1
  <2>2. CASE skippy.err = "ok"
    <3>1. r = Ok([num |-> 0, data |-> <<>>], end) /\ ~(end < 0) /\ ~(end > Len(b))
      BY <1>1, <1>11, <2>2
    <3>2. end \in Nat /\ i < end /\ end <= Len(b)
      BY <1>0, <1>6, <2>2, <3>1
    <3>3. 0 \in 0..Len(R) /\ ~(0 > 0)
      BY <1>0
    <3> QED BY <3>1, <3>2, <3>3 DEF EntryFacts, Ok, r
  <2> QED BY <2>1, <2>2
<1>12. CASE /\ tag.err = "ok" /\ ~(fieldNum > Len(R))
            /\ ~(r = Fail("endgroup") \/ r = Fail("tag") \/ r = Fail("length")
                 \/ r = Fail("eof") \/ r = Fail("wiretype"))
  <2>1. fieldNum \in 1..Len(R) /\ fieldNum \in 0..Len(R)
    <3>1. ~(fieldNum <= 0)
      BY <1>1, <1>12
    <3> QED BY <1>0, <1>3, <1>12, <3>1
  <2>2. CASE data.err # "ok"
    <3>1. r = data
      BY <1>1, <1>12, <2>2
    <3> QED BY <1>7, <1>8, <1>12, <2>1, <2>2, <3>1
  <2>3. CASE data.err = "ok"
    <3>1. r = Ok([num |-> fieldNum, data |-> data.val], data.next)
      BY <1>1, <1>12, <2>3
    <3>2. r.err = "ok" /\ r.val.num = fieldNum /\ r.val.data = data.val /\ r.next = data.next
      BY <3>1 DEF Ok
    <3> QED BY <1>7, <1>12, <2>1, <2>3, <3>2 DEF EntryFacts, r
  <2> QED BY <2>2, <2>3
<1> QED BY <1>9, <1>10, <1>11, <1>12

\* More bytes behind an entry do not change it.
LEMMA EntryMore ==
    \A R : IsTable(R) =>
        \A b, c \in Slices : \A i \in Nat :
            i <= Len(b) /\ b \o c \in Slices /\ ReadEntry(R, b, i).err = "ok" =>
                ReadEntry(R, b \o c, i) = ReadEntry(R, b, i)
<1> SUFFICES ASSUME NEW R, IsTable(R), NEW b \in Slices, NEW c \in Slices, NEW i \in Nat,
                    i <= Len(b), b \o c \in Slices, ReadEntry(R, b, i).err = "ok"
             PROVE  ReadEntry(R, b \o c, i) = ReadEntry(R, b, i)
  OBVIOUS
<1> DEFINE tag == Varint(b, i, WordSize)
           fieldNum == Signed(tag.val \div 8, Int32Size)
           wireType == tag.val % 8
           skippy == skip(SubSeq(b, i + 1, Len(b)))
           end == Signed(i + skippy.next, WordSize)
           data == IF R[fieldNum].kind = "uint32"
                   THEN Varint(b, tag.next, Int32Size) ELSE Block(b, tag.next)
           skippyc == skip(SubSeq(b \o c, i + 1, Len(b \o c)))
           datac == IF R[fieldNum].kind = "uint32"
                    THEN Varint(b \o c, tag.next, Int32Size) ELSE Block(b \o c, tag.next)
           r == ReadEntry(R, b, i)
<1>0. /\ Len(b) \in Nat /\ Len(c) \in Nat /\ Len(b \o c) = Len(b) + Len(c)
      /\ WordSize \in Nat \ {0} /\ Int32Size \in Nat \ {0} /\ Len(R) \in Nat
  <2>1. Len(b) \in Nat /\ Len(c) \in Nat /\ Len(b \o c) = Len(b) + Len(c)
    BY SlicesAre, Concat, Zenon
  <2>2. WordSize \in Nat \ {0} /\ Int32Size \in Nat \ {0}
    BY Widths
  <2>3. Len(R) \in Nat
    BY DEF IsTable
  <2> QED BY <2>1, <2>2, <2>3, Zenon
<1>1. r = IF tag.err # "ok" THEN tag
    ELSE IF wireType = 4 THEN Fail("endgroup")
    ELSE IF fieldNum <= 0 THEN Fail("tag")
    ELSE IF fieldNum > Len(R)
    THEN IF skippy.err # "ok" THEN skippy
         ELSE IF skippy.next < 0 \/ end < 0 THEN Fail("length")
         ELSE IF end > Len(b) THEN Fail("eof")
         ELSE Ok([num |-> 0, data |-> <<>>], end)
    ELSE IF wireType # R[fieldNum].wire THEN Fail("wiretype")
    ELSE IF data.err # "ok" THEN data
    ELSE Ok([num |-> fieldNum, data |-> data.val], data.next)
  BY DEF ReadEntry, ReadField, KnownField, UnknownField
<1>2. tag.err = "ok" /\ tag.val \in Nat /\ tag.next \in Nat /\ tag.next <= Len(b)
  <2>1. VarintFacts(b, i, WordSize)
    BY <1>0, VarintReading
  <2>2. tag.err = "ok"
    <3> HIDE DEF tag, fieldNum, wireType, skippy, end, data
    <3> QED BY <1>1
  <2> QED BY <2>1, <2>2 DEF VarintFacts
<1>3. Varint(b \o c, i, WordSize) = tag
  BY <1>0, <1>2, VarintMore
<1>4. ReadEntry(R, b \o c, i) =
    IF tag.err # "ok" THEN tag
    ELSE IF wireType = 4 THEN Fail("endgroup")
    ELSE IF fieldNum <= 0 THEN Fail("tag")
    ELSE IF fieldNum > Len(R)
    THEN IF skippyc.err # "ok" THEN skippyc
         ELSE IF skippyc.next < 0 \/ Signed(i + skippyc.next, WordSize) < 0 THEN Fail("length")
         ELSE IF Signed(i + skippyc.next, WordSize) > Len(b \o c) THEN Fail("eof")
         ELSE Ok([num |-> 0, data |-> <<>>], Signed(i + skippyc.next, WordSize))
    ELSE IF wireType # R[fieldNum].wire THEN Fail("wiretype")
    ELSE IF datac.err # "ok" THEN datac
    ELSE Ok([num |-> fieldNum, data |-> datac.val], datac.next)
  <2> HIDE DEF tag, skippyc
  <2> QED BY <1>3 DEF ReadEntry, ReadField, KnownField, UnknownField, skippyc
<1>5. skippy.err = "ok" => skippyc = skippy
  <2>1. SubSeq(b, i + 1, Len(b)) \in Slices
    BY <1>0, SliceType
  <2>2. SameRest(b, c, i)
    BY SliceRest
  <2>3. SubSeq(b \o c, i + 1, Len(b \o c)) \in Slices
    <3>1. i <= Len(b \o c) /\ Len(b \o c) \in Nat /\ Len(b \o c) <= Len(b \o c)
      BY <1>0
    <3> QED BY <3>1, SliceType
  <2> QED BY <2>1, <2>2, <2>3, SkipMore DEF SameRest
<1>6. data.err = "ok" => datac = data
  <2> HIDE DEF tag, fieldNum
  <2>1. CASE R[fieldNum].kind = "uint32"
    BY <1>0, <1>2, <2>1, VarintMore
  <2>2. CASE R[fieldNum].kind # "uint32"
    BY <1>2, <2>2, BlockMore
  <2> QED BY <2>1, <2>2
<1>7. tag.err = "ok" => fieldNum \in Int
  <2> HIDE DEF tag
  <2>1. tag.val \div 8 \in Nat
    BY <1>2
  <2> QED BY <2>1, SignedInt32
<1>8. EntryFacts(R, b, i)
  BY EntryReading
<1> HIDE DEF tag, fieldNum, wireType, skippy, data, skippyc, datac, r
<1>9. ~(wireType = 4) /\ ~(fieldNum <= 0)
  BY <1>1, <1>2 DEF Fail, r
<1>10. CASE fieldNum > Len(R)
  <2>1. skippy.err = "ok"
    BY <1>1, <1>2, <1>9, <1>10 DEF r
  <2>2. r = Ok([num |-> 0, data |-> <<>>], end) /\ ~(skippy.next < 0 \/ end < 0)
    BY <1>1, <1>2, <1>9, <1>10, <2>1 DEF r, Fail
  <2>3. r.next = end
    BY <2>2 DEF Ok
  <2>4. end \in Nat /\ end <= Len(b)
    BY <1>8, <2>3 DEF EntryFacts, r
  <2> HIDE DEF end
  <2>5. ~(end > Len(b \o c))
    BY <1>0, <2>4
  <2>6. skippyc = skippy
    BY <1>5, <2>1
  <2> QED BY <1>2, <1>4, <1>9, <1>10, <2>1, <2>2, <2>5, <2>6 DEF r, end
<1>11. CASE ~(fieldNum > Len(R))
  <2>1. ~(wireType # R[fieldNum].wire)
    BY <1>1, <1>2, <1>9, <1>11 DEF r, Fail
  <2>2. data.err = "ok"
    BY <1>1, <1>2, <1>9, <1>11, <2>1 DEF r
  <2> QED BY <1>1, <1>2, <1>4, <1>6, <1>9, <1>11, <2>1, <2>2 DEF r
<1> QED BY <1>10, <1>11

\* Three slices that fit into one.
LEMMA ThreeFit ==
    \A p, t, d \in Slices : Len(p) + (Len(t) + Len(d)) <= MaxInt =>
        /\ p \o t \in Slices /\ t \o d \in Slices /\ p \o (t \o d) \in Slices
        /\ p \o (t \o d) = (p \o t) \o d
        /\ Len(p \o t) = Len(p) + Len(t)
        /\ Len(t \o d) = Len(t) + Len(d)
        /\ Len(p \o (t \o d)) = Len(p) + (Len(t) + Len(d))
<1> TAKE p, t, d \in Slices
<1> HAVE Len(p) + (Len(t) + Len(d)) <= MaxInt
<1>1. Len(p) \in Nat /\ Len(t) \in Nat /\ Len(d) \in Nat /\ MaxInt \in Nat
  BY SlicesAre, Widths
<1>2. Len(p) + Len(t) <= MaxInt /\ Len(t) + Len(d) <= MaxInt
  BY <1>1
<1>3. /\ p \o t \in Slices /\ Len(p \o t) = Len(p) + Len(t)
      /\ t \o d \in Slices /\ Len(t \o d) = Len(t) + Len(d)
  BY <1>2, Concat, Zenon
<1>4. Len(p) + Len(t \o d) <= MaxInt
  BY <1>3, Zenon
<1>5. p \o (t \o d) \in Slices /\ Len(p \o (t \o d)) = Len(p) + Len(t \o d)
  BY <1>3, <1>4, Concat, Zenon
<1>6. Assoc(p, t, d)
  BY SlicesAre, SeqAssoc
<1>7. p \o (t \o d) = (p \o t) \o d
  BY <1>6 DEF Assoc
<1> QED BY <1>3, <1>5, <1>7, Zenon

\* The tag of a field.
LEMMA TagFacts ==
    \A num \in 1..5 : \A wire \in 0..7 :
        /\ num * 8 + wire \in Nat /\ num * 8 + wire < WordSize
        /\ (num * 8 + wire) \div 8 = num /\ (num * 8 + wire) % 8 = wire
        /\ Signed(num, Int32Size) = num
        /\ Tag(num, wire) \in Slices
        /\ Len(Tag(num, wire)) \in Nat /\ Len(Tag(num, wire)) >= 1
<1> TAKE num \in 1..5
<1> TAKE wire \in 0..7
<1>1. num * 8 + wire \in Nat /\ num * 8 + wire < WordSize
  BY Widths
<1>2. (num * 8 + wire) \div 8 = num /\ (num * 8 + wire) % 8 = wire
  OBVIOUS
<1>3. Signed(num, Int32Size) = num
  <2>1. num \in Nat /\ 2 * num < Int32Size
    BY Widths
  <2> QED BY <2>1, SignedInt32
<1>4. /\ Tag(num, wire) \in Slices
      /\ Len(Tag(num, wire)) \in Nat /\ Len(Tag(num, wire)) >= 1
  BY <1>1, Encoded DEF Tag
<1> QED BY <1>1, <1>2, <1>3, <1>4

\* A tag is read where it was written.
LEMMA TagWritten ==
    \A p, d \in Slices : \A num \in 1..5 : \A wire \in 0..7 :
        Len(p) + (Len(Tag(num, wire)) + Len(d)) <= MaxInt =>
            Varint(p \o (Tag(num, wire) \o d), Len(p), WordSize)
              = Ok(num * 8 + wire, Len(p) + Len(Tag(num, wire)))
<1> TAKE p, d \in Slices
<1> TAKE num \in 1..5
<1> TAKE wire \in 0..7
<1> HAVE Len(p) + (Len(Tag(num, wire)) + Len(d)) <= MaxInt
<1> DEFINE t == Tag(num, wire)
           v == num * 8 + wire
<1>1. v \in Nat /\ v < WordSize /\ t \in Slices
  BY TagFacts
<1>2. p \o t \in Slices /\ p \o (t \o d) = (p \o t) \o d
  BY <1>1, ThreeFit, Zenon
<1>3. t = encodeVarint[v]
  BY DEF Tag
<1> HIDE DEF t, v
<1>4. WordSize \in {WordSize, Int32Size} /\ p \o encodeVarint[v] \in Slices
  BY <1>2, <1>3
<1>5. Varint((p \o encodeVarint[v]) \o d, Len(p), WordSize) = Ok(v, Len(p) + Len(encodeVarint[v]))
  BY <1>1, <1>4, VarintWritten, Zenon
<1>6. Varint(p \o (t \o d), Len(p), WordSize) = Ok(v, Len(p) + Len(t))
  BY <1>2, <1>3, <1>5, Zenon
<1> QED BY <1>6 DEF t, v

-----------------------------------------------------------------------------
\* An entry of a known field.
Payload(kind, v) ==
    IF kind = "uint32" THEN encodeVarint[v] ELSE encodeVarint[Len(v)] \o v

IsData(kind, v) ==
    IF kind = "uint32" THEN v \in Nat /\ v < Int32Size
    ELSE v \in Slices /\ encodeVarint[Len(v)] \o v \in Slices

\* The payload of a field is a slice.
LEMMA PayloadFacts ==
    \A kind, v : IsData(kind, v) => Payload(kind, v) \in Slices
<1> SUFFICES ASSUME NEW kind, NEW v, IsData(kind, v) PROVE Payload(kind, v) \in Slices
  OBVIOUS
<1>1. CASE kind = "uint32"
  <2>1. v \in Nat /\ v < WordSize
    BY <1>1, Widths DEF IsData
  <2>2. encodeVarint[v] \in Slices
    BY <2>1, Encoded
  <2> QED BY <1>1, <2>2 DEF Payload
<1>2. CASE kind # "uint32"
  BY <1>2 DEF Payload, IsData
<1> QED BY <1>1, <1>2

\* A known field is read where it was written.
FieldReads(R, p, num, v, e) ==
    /\ IsTable(R) /\ p \in Slices /\ num \in 1..Len(R) /\ IsData(R[num].kind, v)
    /\ e = Tag(num, R[num].wire) \o Payload(R[num].kind, v) /\ e \in Slices /\ p \o e \in Slices
    => ReadEntry(R, p \o e, Len(p)) = Ok([num |-> num, data |-> v], Len(p \o e))

\* The entry of a known field is read as it was written.
LEMMA FieldReading == \A R, p, num, v, e : FieldReads(R, p, num, v, e)
<1> SUFFICES ASSUME NEW R, NEW p, NEW num, NEW v, NEW e PROVE FieldReads(R, p, num, v, e)
  OBVIOUS
<1> SUFFICES ASSUME IsTable(R), p \in Slices, num \in 1..Len(R), IsData(R[num].kind, v),
                    e = Tag(num, R[num].wire) \o Payload(R[num].kind, v), e \in Slices, p \o e \in Slices
             PROVE  ReadEntry(R, p \o e, Len(p)) = Ok([num |-> num, data |-> v], Len(p \o e))
  BY DEF FieldReads
<1> PICK wire, kind, t, d : /\ wire = R[num].wire /\ kind = R[num].kind
                            /\ t = Tag(num, wire) /\ d = Payload(kind, v)
  OBVIOUS
<1>1. /\ wire \in 0..7 /\ wire # 4 /\ wire = (IF kind = "uint32" THEN 0 ELSE 2)
      /\ num \in 1..5 /\ num <= Len(R) /\ Len(R) \in Nat
  BY DEF IsTable
<1>2. d \in Slices /\ t \in Slices /\ e = t \o d
  BY <1>1, PayloadFacts, TagFacts
<1>3. /\ Len(p) \in Nat /\ Len(t) \in Nat /\ Len(d) \in Nat
      /\ Len(p) + (Len(t) + Len(d)) <= MaxInt
      /\ Len(p \o e) = Len(p) + (Len(t) + Len(d))
  <2>1. Len(p \o e) <= MaxInt /\ Len(p) \in Nat /\ Len(t) \in Nat /\ Len(d) \in Nat
    BY <1>2, SlicesAre
  <2>2. Len(p \o e) = Len(p) + Len(e)
    BY Concat, Zenon
  <2>3. Len(e) = Len(t) + Len(d)
    BY <1>2, Concat, Zenon
  <2> QED BY <2>1, <2>2, <2>3
<1>4. /\ p \o t \in Slices /\ p \o e = (p \o t) \o d /\ Len(p \o t) = Len(p) + Len(t)
  <2>1. p \o t \in Slices /\ p \o (t \o d) = (p \o t) \o d /\ Len(p \o t) = Len(p) + Len(t)
    <3>1. p \o t \in Slices /\ Len(p \o t) = Len(p) + Len(t)
      BY <1>2, <1>3, ThreeFit, Zenon
    <3>2. Assoc(p, t, d)
      BY <1>2, SlicesAre, SeqAssoc
    <3> QED BY <3>1, <3>2 DEF Assoc
  <2>2. p \o e = p \o (t \o d)
    BY <1>2
  <2> QED BY <2>1, <2>2, Zenon
<1> PICK b, i, n : b = p \o e /\ i = Len(p) /\ n = Len(p \o t)
  OBVIOUS
<1>5. Varint(b, i, WordSize) = Ok(num * 8 + wire, n)
  <2>1. Varint(p \o (Tag(num, wire) \o d), Len(p), WordSize)
          = Ok(num * 8 + wire, Len(p) + Len(Tag(num, wire)))
    <3>1. Len(p) + (Len(Tag(num, wire)) + Len(d)) <= MaxInt
      BY <1>3
    <3>2. p \in Slices /\ d \in Slices /\ num \in 1..5 /\ wire \in 0..7
      BY <1>1, <1>2
    <3> QED BY ONLY <3>1, <3>2, TagWritten, Zenon
  <2>2. b = p \o (Tag(num, wire) \o d)
    BY <1>2, Zenon
  <2>3. n = Len(p) + Len(Tag(num, wire))
    BY <1>4
  <2> QED BY <2>1, <2>2, <2>3
<1>6. IF kind = "uint32" THEN Varint(b, n, Int32Size) = Ok(v, Len(b))
      ELSE Block(b, n) = Ok(v, Len(b))
  <2>1. CASE kind = "uint32"
    <3>1. d = encodeVarint[v] /\ v \in Nat /\ v < Int32Size
      BY <2>1 DEF Payload, IsData
    <3>2. b = (p \o t) \o encodeVarint[v] /\ b \in Slices
      BY <1>4, <3>1
    <3>3. Int32Size \in {WordSize, Int32Size} /\ <<>> \in Slices
      BY SlicesAre
    <3>4. Varint(((p \o t) \o encodeVarint[v]) \o <<>>, Len(p \o t), Int32Size)
            = Ok(v, Len(p \o t) + Len(encodeVarint[v]))
      BY <1>4, <3>1, <3>2, <3>3, VarintWritten, Zenon
    <3>5. b \o <<>> = b
      BY <3>2, Concat
    <3>6. Len(b) = Len(p \o t) + Len(encodeVarint[v])
      <4>1. Len((p \o t) \o d) = Len(p \o t) + Len(d)
        BY <1>2, <1>4, Concat, Zenon
      <4>2. b = (p \o t) \o d
        BY <1>4
      <4> QED BY <3>1, <4>1, <4>2, Zenon
    <3> QED BY <2>1, <3>2, <3>4, <3>5, <3>6, Zenon
  <2>2. CASE kind # "uint32"
    <3>1. d = encodeVarint[Len(v)] \o v /\ v \in Slices
      BY <2>2 DEF Payload, IsData
    <3>2. b = (p \o t) \o (encodeVarint[Len(v)] \o v) /\ b \in Slices
      BY <1>4, <3>1
    <3>3. Block(b, Len(p \o t)) = Ok(v, Len(b))
      BY <1>4, <3>1, <3>2, BlockWritten
    <3> QED BY <2>2, <3>3
  <2> QED BY <2>1, <2>2
<1>7. /\ Ok(num * 8 + wire, n).err = "ok" /\ Ok(num * 8 + wire, n).next = n
      /\ Ok(num * 8 + wire, n).val = num * 8 + wire
      /\ Ok(v, Len(b)).err = "ok" /\ Ok(v, Len(b)).next = Len(b) /\ Ok(v, Len(b)).val = v
  BY DEF Ok
<1>8. (num * 8 + wire) \div 8 = num /\ (num * 8 + wire) % 8 = wire /\ Signed(num, Int32Size) = num
  BY <1>1, TagFacts
<1> DEFINE tag == Varint(b, i, WordSize)
           fieldNum == Signed(tag.val \div 8, Int32Size)
           wireType == tag.val % 8
           data == IF R[fieldNum].kind = "uint32"
                   THEN Varint(b, tag.next, Int32Size) ELSE Block(b, tag.next)
<1>9. tag.err = "ok" /\ fieldNum = num /\ wireType = wire /\ tag.next = n
  BY <1>5, <1>7, <1>8
<1>10. data = Ok(v, Len(b))
  <2> HIDE DEF fieldNum, tag
  <2> QED BY <1>6, <1>9
<1>11. ~(wireType = 4) /\ ~(fieldNum <= 0) /\ ~(fieldNum > Len(R)) /\ ~(wireType # R[fieldNum].wire)
       /\ ~(data.err # "ok")
  <2> HIDE DEF fieldNum, tag, wireType, data
  <2>1. ~(wireType = 4) /\ wireType = R[fieldNum].wire
    BY <1>1, <1>9, Zenon
  <2>2. ~(num <= 0) /\ ~(num > Len(R))
    BY <1>1
  <2>3. ~(fieldNum <= 0) /\ ~(fieldNum > Len(R))
    BY <1>9, <2>2, Zenon
  <2>4. data.err = "ok"
    BY <1>7, <1>10, Zenon
  <2> QED BY <2>1, <2>3, <2>4, Zenon
<1>12. ReadEntry(R, b, i) = Ok([num |-> fieldNum, data |-> data.val], data.next)
  <2> DEFINE skippy == skip(SubSeq(b, i + 1, Len(b)))
             end == Signed(i + skippy.next, WordSize)
  <2>1. ReadEntry(R, b, i) = IF tag.err # "ok" THEN tag
    ELSE IF wireType = 4 THEN Fail("endgroup")
    ELSE IF fieldNum <= 0 THEN Fail("tag")
    ELSE IF fieldNum > Len(R)
    THEN IF skippy.err # "ok" THEN skippy
         ELSE IF skippy.next < 0 \/ end < 0 THEN Fail("length")
         ELSE IF end > Len(b) THEN Fail("eof")
         ELSE Ok([num |-> 0, data |-> <<>>], end)
    ELSE IF wireType # R[fieldNum].wire THEN Fail("wiretype")
    ELSE IF data.err # "ok" THEN data
    ELSE Ok([num |-> fieldNum, data |-> data.val], data.next)
    BY DEF ReadEntry, ReadField, KnownField, UnknownField
  <2> HIDE DEF tag, fieldNum, wireType, data, skippy, end
  <2> QED BY <1>9, <1>11, <2>1
<1> HIDE DEF tag, fieldNum, wireType, data
<1> QED BY <1>7, <1>9, <1>10, <1>12

\* skip is at the end of b, inside a group.
SkipReaches(b, st) ==
    /\ st.err = "more"
    /\ \E r : \E k \in Nat : IsSkipRun(r, b) /\ r[k] = st

\* skip starts outside groups.
LEMMA SkipStart == SkipReaches(<<>>, More(0, 0))
<1>1. PICK r : IsSkipRun(r, <<>>)
  BY SlicesAre, SkipRun
<1>2. r[0] = More(0, 0)
  BY <1>1 DEF IsSkipRun
<1>3. 0 \in Nat /\ More(0, 0).err = "more"
  BY DEF More
<1> QED BY <1>1, <1>2, <1>3 DEF SkipReaches

\* Runs on a slice and on a longer one.
LEMMA SkipRunMore ==
    ASSUME NEW b \in Slices, NEW c \in Slices, b \o c \in Slices,
           NEW r, IsSkipRun(r, b), NEW e, IsSkipRun(e, b \o c)
    PROVE  \A k \in Nat : r[k].err \in {"more", "ok"} => e[k] = r[k]
<1>3. /\ \A k \in Nat : r[k] \in SkipStates
      /\ \A k \in Nat : r[k].err # "more" => r[k + 1] = r[k]
  BY SkipRunEnds
<1> DEFINE X == {k \in Nat : r[k].err \in {"more", "ok"} => e[k] = r[k]}
<1>4. 0 \in X
  BY DEF IsSkipRun
<1>5. ASSUME NEW k \in Nat, k \in X PROVE k + 1 \in X
  <2>1. ASSUME r[k + 1].err \in {"more", "ok"} PROVE e[k + 1] = r[k + 1]
    <3>1. CASE r[k].err = "more"
      <4>1. /\ e[k] = r[k] /\ r[k + 1] = SkipStep(b, r[k]) /\ e[k + 1] = SkipStep(b \o c, r[k])
        BY <1>5, <3>1 DEF IsSkipRun
      <4>2. r[k] \in SkipStates
        BY <1>3
      <4> QED BY <2>1, <3>1, <4>1, <4>2, SkipStepMore
    <3>2. CASE r[k].err # "more"
      <4>1. r[k + 1] = r[k]
        BY <1>3, <3>2
      <4>2. e[k] = r[k]
        BY <1>5, <2>1, <4>1
      <4>3. e[k + 1] = e[k]
        BY <3>2, <4>2 DEF IsSkipRun
      <4> QED BY <4>1, <4>2, <4>3
    <3> QED BY <3>1, <3>2
  <2> QED BY <2>1
<1>6. \A k \in Nat : k \in X
  <2> HIDE DEF X
  <2> QED BY <1>4, <1>5, NatSetInduction
<1> QED BY <1>6

\* One more entry behind the end of b.
LEMMA SkipGoesOn ==
    ASSUME NEW b \in Slices, NEW c \in Slices, b \o c \in Slices, NEW st, SkipReaches(b, st),
           NEW s, s = SkipStep(b \o c, st)
    PROVE  /\ s.err = "more" => SkipReaches(b \o c, s)
           /\ s.err = "ok" => skip(b \o c) = s
<1>1. PICK r, k : k \in Nat /\ IsSkipRun(r, b) /\ r[k] = st /\ st.err = "more"
  BY DEF SkipReaches
<1>2. PICK e : IsSkipRun(e, b \o c)
  BY SkipRun
<1>3. e[k] = st
  BY <1>1, <1>2, SkipRunMore
<1>4. e[k + 1] = s /\ k + 1 \in Nat
  <2>1. \A j \in Nat : e[j].err = "more" => e[j + 1] = SkipStep(b \o c, e[j])
    BY <1>2 DEF IsSkipRun
  <2> QED BY <1>1, <1>3, <2>1
<1>5. s.err = "more" => SkipReaches(b \o c, s)
  BY <1>2, <1>4 DEF SkipReaches
<1>6. s.err = "ok" => skip(b \o c) = s
  BY <1>2, <1>4, SkipRunEnds
<1> QED BY <1>5, <1>6

\* From p to b one entry of the given wire type.
IsPiece(p, b, wire) ==
    /\ p \in Slices /\ b \in Slices /\ Len(p) < Len(b) /\ wire \in 0..7
    /\ \E u \in Slices : b = p \o u
    /\ \E tag, next, x : /\ Varint(b, Len(p), WordSize) = Ok(tag, next) /\ tag % 8 = wire
                         /\ SkipEntry(b, next, wire) = Ok(x, Len(b))

Opened(wire) == IF wire = 3 THEN 1 ELSE IF wire = 4 THEN -1 ELSE 0

\* An entry behind p that skip takes as a whole is a piece.
LEMMA PieceIs ==
    ASSUME NEW p \in Slices, NEW d \in Slices, NEW num \in 1..5, NEW wire \in 0..7,
           p \o (Tag(num, wire) \o d) \in Slices, 
           NEW b, b = p \o (Tag(num, wire) \o d), 
           NEW i, i = Len(p) + Len(Tag(num, wire)),
           NEW x, SkipEntry(b, i, wire) = Ok(x, Len(b))
    PROVE  IsPiece(p, b, wire)
<1> DEFINE t == Tag(num, wire)
           u == t \o d
<1>1. t \in Slices /\ Len(t) \in Nat /\ Len(t) >= 1 /\ (num * 8 + wire) % 8 = wire
  BY TagFacts
<1>2. t \in Seq(Byte) /\ d \in Seq(Byte) /\ p \in Seq(Byte)
  BY <1>1, SlicesAre
<1>3. u \in Seq(Byte) /\ Len(u) = Len(t) + Len(d)
  BY <1>2, SeqConcat, Zenon
<1>4. b = p \o u /\ b \in Slices
  OBVIOUS
<1> HIDE DEF u
<1>5. Len(b) = Len(p) + Len(u)
  <2>1. Len(p \o u) = Len(p) + Len(u)
    BY <1>2, <1>3, SeqConcat, Zenon
  <2> QED BY <1>4, <2>1
<1>6. Len(p) \in Nat /\ Len(d) \in Nat /\ Len(b) \in Nat /\ Len(b) <= MaxInt
  BY <1>4, SlicesAre
<1> DEFINE lp == Len(p) lt == Len(t) ld == Len(d) lu == Len(u) lb == Len(b)
<1>7. lt \in Nat /\ lt >= 1 /\ lu = lt + ld /\ lb = lp + lu /\ lp \in Nat /\ ld \in Nat /\ lb \in Nat
      /\ lb <= MaxInt
  BY <1>1, <1>3, <1>5, <1>6
<1>8. lp + (lt + ld) <= MaxInt /\ lu <= MaxInt /\ lp < lb
  <2> HIDE DEF lp, lt, ld, lu, lb
  <2> QED BY ONLY <1>7, Widths
<1>9. u \in Slices
  BY <1>3, <1>8, SlicesAre
<1>10. Varint(b, Len(p), WordSize) = Ok(num * 8 + wire, i)
  <2>1. Len(p) + (Len(Tag(num, wire)) + Len(d)) <= MaxInt
    BY <1>8
  <2>2. Varint(p \o (Tag(num, wire) \o d), Len(p), WordSize)
          = Ok(num * 8 + wire, Len(p) + Len(Tag(num, wire)))
    BY <2>1, TagWritten, Zenon
  <2> QED BY <2>2
<1>11. \E v \in Slices : b = p \o v
  BY <1>4, <1>9
<1>12. \E tag, next, y : /\ Varint(b, Len(p), WordSize) = Ok(tag, next) /\ tag % 8 = wire
                         /\ SkipEntry(b, next, wire) = Ok(y, Len(b))
  BY <1>1, <1>10, Zenon
<1>13. Len(p) < Len(b)
  BY <1>8
<1> QED BY <1>4, <1>11, <1>12, <1>13 DEF IsPiece

\* What skip does with a piece.
LEMMA SkipPiece ==
    ASSUME NEW p, NEW b, NEW wire, IsPiece(p, b, wire),
           NEW open \in Nat, ~(wire = 4 /\ open = 0)
    PROVE  SkipStep(b, More(open, Len(p)))
             = IF open + Opened(wire) = 0 THEN Ok(0, Len(b)) ELSE More(open + Opened(wire), Len(b))
<1> PICK i, after : i = Len(p) /\ after = open + Opened(wire)
  OBVIOUS
<1>1. PICK x, t, n : /\ Varint(b, i, WordSize) = Ok(t, n) /\ t % 8 = wire
                     /\ SkipEntry(b, n, wire) = Ok(x, Len(b))
  BY DEF IsPiece
<1>3. /\ Ok(t, n).err = "ok" /\ Ok(t, n).next = n
      /\ Ok(t, n).val = t
      /\ Ok(x, Len(b)).err = "ok" /\ Ok(x, Len(b)).next = Len(b)
      /\ More(open, i).next = i /\ More(open, i).val = open
  BY DEF Ok, More
<1>4. i \in Nat /\ Len(b) \in Nat /\ i < Len(b) /\ ~(Len(b) < 0)
  BY SlicesAre DEF IsPiece
<1> DEFINE st == More(open, i)
           tag == Varint(b, st.next, WordSize)
           wt == tag.val % 8
           entry == SkipEntry(b, tag.next, wt)
           o == st.val + (IF wt = 3 THEN 1 ELSE IF wt = 4 THEN -1 ELSE 0)
<1>5. SkipStep(b, st) = IF st.next >= Len(b) THEN Fail("eof")
        ELSE IF tag.err # "ok" THEN tag
        ELSE IF wt = 4 /\ st.val = 0 THEN Fail("endgroup")
        ELSE IF entry.err # "ok" THEN entry
        ELSE IF entry.next < 0 THEN Fail("length")
        ELSE IF o = 0 THEN Ok(0, entry.next)
        ELSE More(o, entry.next)
  BY DEF SkipStep
<1> HIDE DEF st
<1>6. st.next = i /\ st.val = open
  BY <1>3 DEF st
<1>7. tag.err = "ok" /\ tag.next = n /\ wt = wire
  BY <1>1, <1>3, <1>6
<1> HIDE DEF tag, wt
<1>8. entry = Ok(x, Len(b)) /\ o = after
  BY <1>1, <1>6, <1>7 DEF Opened
<1> HIDE DEF entry, o
<1>9. ~(st.next >= Len(b)) /\ ~(wt = 4 /\ st.val = 0) /\ ~(entry.err # "ok") /\ ~(entry.next < 0)
      /\ entry.next = Len(b)
  BY <1>3, <1>4, <1>6, <1>7, <1>8
<1>10. SkipStep(b, st) = IF o = 0 THEN Ok(0, entry.next) ELSE More(o, entry.next)
  BY <1>5, <1>7, <1>9
<1> QED BY <1>8, <1>9, <1>10 DEF st

\* The three bytes of a zero that is not in its shortest form.
LEMMA ThreeBytesAt ==
    ASSUME NEW b \in Slices, NEW i \in Nat, Len(b) = i + 3,
           b[i + 1] = Base, b[i + 2] = Base, b[i + 3] = 0
    PROVE  Varint(b, i, WordSize) = Ok(0, i + 3)
<1>0. /\ WordSize \in Nat \ {0} /\ Base \in Nat /\ Base > 31 /\ VarintBits \in Nat \ {0}
      /\ WordBits \in Nat /\ 2 * VarintBits < WordBits
  BY Widths
<1>1. b \in Seq(Byte) /\ i \in Nat
  BY SlicesAre
<1>2. Len(b) = i + 3 /\ b[i + 1] = Base /\ b[i + 2] = Base /\ b[i + 3] = 0
  OBVIOUS
<1>3. i \in 0..Len(b)
  BY <1>1, <1>2
<1>4. PICK r : IsVarintRun(r, b, i, WordSize)
  BY <1>0, <1>1, <1>3, VarintRun
<1>5. /\ r[0] = More(0, i)
      /\ \A k \in Nat : r[k + 1] =
            IF r[k].err = "more" THEN VarintByte(b, i, WordSize, r[k]) ELSE r[k]
  BY <1>4 DEF IsVarintRun
<1>6. \A k \in {0, 1, 2} : \A byte \in {0, Base} : b[(i + k) + 1] = byte =>
        VarintByte(b, i, WordSize, More(0, i + k))
          = IF byte = 0 THEN Ok(0, i + (k + 1)) ELSE More(0, i + (k + 1))
  <2> SUFFICES ASSUME NEW k \in {0, 1, 2}, NEW byte \in {0, Base}, b[(i + k) + 1] = byte
               PROVE  VarintByte(b, i, WordSize, More(0, i + k))
                        = IF byte = 0 THEN Ok(0, i + (k + 1)) ELSE More(0, i + (k + 1))
    OBVIOUS
  <2> DEFINE st == More(0, i + k)
             shift == (st.next - i) * VarintBits
             val == (st.val + (b[st.next + 1] % Base) * Pow2[shift]) % WordSize
  <2>1. st.next = i + k /\ st.val = 0
    BY DEF More
  <2>2. VarintByte(b, i, WordSize, st) =
          IF shift >= WordBits THEN Fail("overflow")
          ELSE IF st.next >= Len(b) THEN Fail("eof")
          ELSE IF st.next < 0 THEN Fail("panic")
          ELSE IF b[st.next + 1] < Base THEN Ok(val, st.next + 1)
          ELSE More(val, st.next + 1)
    BY DEF VarintByte
  <2> HIDE DEF st
  <2>3. st.next - i = k
    BY <1>1, <2>1
  <2>4. shift \in Nat /\ ~(shift >= WordBits)
    BY <1>0, <2>3
  <2>5. val = 0
    <3>1. Pow2[shift] \in Nat
      BY <2>4, Pow2Type
    <3>2. b[st.next + 1] % Base = 0
      BY <1>0, <2>1
    <3> HIDE DEF shift
    <3>3. (b[st.next + 1] % Base) * Pow2[shift] = 0
      <4>1. \A z \in Nat : 0 * z = 0
        OBVIOUS
      <4> QED BY <3>1, <3>2, <4>1, Zenon
    <3> QED BY <1>0, <2>1, <3>3
  <2> HIDE DEF shift, val
  <2>6. ~(st.next >= Len(b)) /\ ~(st.next < 0) /\ st.next + 1 = i + (k + 1)
        /\ (b[st.next + 1] < Base <=> byte = 0)
    BY <1>0, <1>1, <1>2, <2>1
  <2> QED BY <2>2, <2>4, <2>5, <2>6 DEF st
<1>a. PICK one, two, three : /\ one = 1 /\ two = 2 /\ three = 3
                             /\ one \in Nat /\ two \in Nat /\ three \in Nat
                             /\ two = one + 1 /\ three = two + 1
  OBVIOUS
<1>7. r[0] = More(0, i + 0) /\ More(0, i).err = "more" /\ \A k \in Nat : More(0, i + k).err = "more"
  BY <1>1, <1>5 DEF More
<1>8. r[1] = More(0, i + 1)
  <2>1. VarintByte(b, i, WordSize, More(0, i + 0)) = More(0, i + (0 + 1))
    <3>1. b[(i + 0) + 1] = Base
      BY <1>1, <1>2
    <3> QED BY <1>0, <1>6, <3>1
  <2>2. r[0 + 1] = VarintByte(b, i, WordSize, r[0])
    BY <1>5, <1>7
  <2> QED BY <1>7, <2>1, <2>2
<1>9. r[2] = More(0, i + 2)
  <2>1. VarintByte(b, i, WordSize, More(0, i + 1)) = More(0, i + (1 + 1))
    <3>1. b[(i + 1) + 1] = Base
      BY <1>1, <1>2
    <3> QED BY <1>0, <1>6, <3>1
  <2>2. r[one + 1] = VarintByte(b, i, WordSize, r[one])
    <3>1. r[one].err = "more"
      BY <1>a, <1>8 DEF More
    <3> QED BY <1>a, <1>5, <3>1, Zenon
  <2> QED BY <1>a, <1>8, <2>1, <2>2
<1>10. r[3] = Ok(0, i + 3)
  <2>1. VarintByte(b, i, WordSize, More(0, i + 2)) = Ok(0, i + (2 + 1))
    <3>1. b[(i + 2) + 1] = 0
      BY <1>1, <1>2
    <3> QED BY <1>0, <1>6, <3>1
  <2>2. r[two + 1] = VarintByte(b, i, WordSize, r[two])
    <3>1. r[two].err = "more"
      BY <1>a, <1>9 DEF More
    <3> QED BY <1>a, <1>5, <3>1, Zenon
  <2> QED BY <1>a, <1>9, <2>1, <2>2
<1>11. r[three].err # "more"
  BY <1>a, <1>10 DEF Ok
<1>12. Varint(b, i, WordSize) = r[three]
  <2>1. WordSize \in Nat \ {0} /\ three \in Nat
    BY <1>a, <1>0
  <2>2. \A k \in Nat : r[k].err # "more" => Varint(b, i, WordSize) = r[k]
    <3> TAKE k \in Nat
    <3> HAVE r[k].err # "more"
    <3> QED BY <2>1, <1>1, <1>3, <1>4, VarintResult
  <2> QED BY <2>1, <1>11, <2>2, Zenon
<1> QED BY <1>a, <1>10, <1>12

\* Such a zero is read as 0.
LEMMA ThreeBytes ==
    ASSUME NEW p \in Slices, p \o <<Base, Base, 0>> \in Slices
    PROVE  Varint(p \o <<Base, Base, 0>>, Len(p), WordSize) = Ok(0, Len(p \o <<Base, Base, 0>>))
<1>1. p \in Seq(Byte) /\ <<Base, Base, 0>> \in Seq(Byte)
  BY SlicesAre, Widths DEF Byte
<1> PICK i, b : i = Len(p) /\ b = p \o <<Base, Base, 0>>
  OBVIOUS
<1>2. /\ Len(b) = i + 3 /\ b[i + 1] = Base /\ b[i + 2] = Base /\ b[i + 3] = 0
      /\ i \in Nat /\ b \in Slices
  BY <1>1
<1>3. Varint(b, i, WordSize) = Ok(0, i + 3)
  BY <1>2, ThreeBytesAt, Zenon
<1> QED BY <1>2, <1>3

\* So many groups are open at the end of p.
IsOpen(p, open) == open \in Nat /\ SkipReaches(p, More(open, Len(p)))

SkipsOrOpen(b, open) ==
    IF open = 0 THEN skip(b) = Ok(0, Len(b)) ELSE IsOpen(b, open)

\* After p, with some groups open, comes one more entry.
LEMMA SkipAppend ==
    ASSUME NEW p, NEW b, NEW wire, IsPiece(p, b, wire),
           NEW open, IsOpen(p, open), ~(wire = 4 /\ open = 0),
           NEW after, after = open + Opened(wire)
    PROVE  SkipsOrOpen(b, after)
<1>0. open \in Nat /\ SkipReaches(p, More(open, Len(p))) /\ after \in Nat
  BY DEF IsOpen, IsPiece, Opened
<1> DEFINE s == SkipStep(b, More(open, Len(p)))
<1>1. s = IF after = 0 THEN Ok(0, Len(b)) ELSE More(after, Len(b))
  BY <1>0, SkipPiece
<1>2. PICK u \in Slices : b = p \o u
  BY DEF IsPiece
<1>3. p \in Slices /\ p \o u \in Slices
  BY <1>2 DEF IsPiece
<1> HIDE DEF s
<1>4. /\ s.err = "more" => SkipReaches(b, s)
      /\ s.err = "ok" => skip(b) = s
  <2>1. \A w : w = SkipStep(p \o u, More(open, Len(p))) =>
          /\ w.err = "more" => SkipReaches(p \o u, w)
          /\ w.err = "ok" => skip(p \o u) = w
    BY <1>0, <1>3, SkipGoesOn, Zenon
  <2>2. s = SkipStep(p \o u, More(open, Len(p)))
    BY <1>2 DEF s
  <2> QED BY <1>2, <2>1, <2>2
<1>5. CASE after = 0
  BY <1>1, <1>4, <1>5 DEF Ok, SkipsOrOpen
<1>6. CASE after # 0
  BY <1>0, <1>1, <1>4, <1>6 DEF More, SkipsOrOpen, IsOpen
<1> QED BY <1>5, <1>6

\* An input of one entry outside groups.
LEMMA SkipOne ==
    ASSUME NEW b, NEW wire \in {0, 1, 2, 5}, IsPiece(<<>>, b, wire)
    PROVE  skip(b) = Ok(0, Len(b))
<1> PICK zero, p : zero = 0 /\ p = <<>>
  OBVIOUS
<1>1. IsPiece(p, b, wire) /\ zero \in Nat /\ ~(wire = 4 /\ zero = 0) /\ zero = zero + Opened(wire)
  BY DEF Opened
<1>2. IsOpen(p, zero)
  BY SkipStart, SlicesAre DEF IsOpen
<1>3. SkipsOrOpen(b, zero)
  BY <1>1, <1>2, SkipAppend
<1> QED BY <1>3 DEF SkipsOrOpen

\* A single entry, given what skip takes for it behind its tag.
IsSingle(num, wire, d, b) ==
    /\ num \in 1..5 /\ wire \in {0, 1, 2, 5} /\ d \in Slices
    /\ b \in Slices /\ b = Tag(num, wire) \o d
    /\ \E x : SkipEntry(b, Len(Tag(num, wire)), wire) = Ok(x, Len(b))

\* skip takes a single entry as a whole.
LEMMA SkipSingle ==
    ASSUME NEW num, NEW wire, NEW d, NEW b, IsSingle(num, wire, d, b)
    PROVE  skip(b) = Ok(0, Len(b))
<1>0. /\ num \in 1..5 /\ wire \in {0, 1, 2, 5} /\ d \in Slices
      /\ b \in Slices /\ b = Tag(num, wire) \o d
  BY DEF IsSingle
<1> PICK x, i : i = Len(Tag(num, wire)) /\ SkipEntry(b, i, wire) = Ok(x, Len(b))
  BY DEF IsSingle
<1> PICK p : p = <<>>
  OBVIOUS
<1>1. wire \in 0..7 /\ p \in Slices /\ Len(p) = 0
  BY <1>0, SlicesAre
<1>2. b = p \o (Tag(num, wire) \o d)
  BY <1>0, Concat
<1>3. i = Len(p) + Len(Tag(num, wire))
  <2>1. Len(Tag(num, wire)) \in Nat
    BY <1>0, <1>1, TagFacts
  <2> QED BY <1>1, <2>1
<1>4. p \o (Tag(num, wire) \o d) \in Slices
  BY <1>0, <1>2
<1>5. IsPiece(p, b, wire)
  BY <1>0, <1>1, <1>2, <1>3, <1>4, PieceIs
<1> QED BY <1>0, <1>5, SkipOne

\* A number, eight bytes, a block, four bytes.
LEMMA SkipNumber ==
    \A b \in Slices : b = Tag(4, 0) \o <<Base, Base, 0>> => skip(b) = Ok(0, Len(b))
<1> TAKE b \in Slices
<1> HAVE b = Tag(4, 0) \o <<Base, Base, 0>>
<1>1. PICK num, wire, d : num = 4 /\ wire = 0 /\ d = <<Base, Base, 0>>
  OBVIOUS
<1>2. num \in 1..5 /\ wire \in {0, 1, 2, 5} /\ wire \in 0..7 /\ b = Tag(num, wire) \o d
  BY <1>1
<1>3. Tag(num, wire) \in Slices
  BY <1>2, TagFacts
<1>4. d \in Slices
  <2>1. <<Base, Base, 0>> \in Seq(Byte) /\ Len(<<Base, Base, 0>>) = 3 /\ 3 <= MaxInt
    BY Widths DEF Byte
  <2> QED BY <1>1, <2>1, SlicesAre
<1>5. Varint(b, Len(Tag(num, wire)), WordSize) = Ok(0, Len(b))
  <2>1. Varint(Tag(num, wire) \o <<Base, Base, 0>>, Len(Tag(num, wire)), WordSize)
          = Ok(0, Len(Tag(num, wire) \o <<Base, Base, 0>>))
    BY <1>1, <1>2, <1>3, ThreeBytes
  <2> QED BY <1>1, <1>2, <2>1
<1>6. SkipEntry(b, Len(Tag(num, wire)), wire) = Ok(0, Len(b))
  BY <1>1, <1>5 DEF SkipEntry
<1>7. IsSingle(num, wire, d, b)
  BY <1>2, <1>4, <1>6 DEF IsSingle
<1> QED BY <1>7, SkipSingle

\* Eight bytes, four bytes.
LEMMA SkipFixed ==
    ASSUME NEW wire \in {1, 5}, NEW d \in Slices, Len(d) = (IF wire = 1 THEN 8 ELSE 4),
           NEW b \in Slices, b = Tag(4, wire) \o d
    PROVE  skip(b) = Ok(0, Len(b))
<1> PICK num, l, t : num = 4 /\ l = Len(d) /\ t = Tag(num, wire)
  OBVIOUS
<1>1. num \in 1..5 /\ wire \in {0, 1, 2, 5} /\ wire \in 0..7 /\ b = Tag(num, wire) \o d
  OBVIOUS
<1>2. t \in Slices /\ Len(t) \in Nat
  BY <1>1, TagFacts
<1>3. Len(b) = Len(t) + l /\ Len(b) <= MaxInt /\ Len(b) \in Nat /\ Len(b) < WordSize
  <2>1. Len(t \o d) = Len(t) + Len(d)
    BY <1>2, Concat
  <2>2. Len(b) <= MaxInt /\ Len(b) \in Nat
    BY SlicesAre
  <2>3. Len(b) < WordSize
    BY ONLY <2>2, Widths
  <2> QED BY <1>1, <2>1, <2>2, <2>3
<1>4. Signed(Len(t) + l, WordSize) = Len(b)
  BY <1>3, SignedWord
<1>5. SkipEntry(b, Len(t), wire) = Ok(0, Signed(Len(t) + l, WordSize))
  <2>1. CASE wire = 1
    BY <2>1 DEF SkipEntry
  <2>2. CASE wire = 5
    BY <2>2 DEF SkipEntry
  <2> QED BY <2>1, <2>2
<1>6. SkipEntry(b, Len(Tag(num, wire)), wire) = Ok(0, Len(b))
  BY <1>4, <1>5
<1>7. IsSingle(num, wire, d, b)
  BY <1>1, <1>6 DEF IsSingle
<1> QED BY <1>7, SkipSingle

\* What skip does with a block at the end of its input.
LEMMA SkipBlock ==
    ASSUME NEW p \in Slices, NEW v \in Slices, p \o (encodeVarint[Len(v)] \o v) \in Slices
    PROVE  SkipEntry(p \o (encodeVarint[Len(v)] \o v), Len(p), 2)
             = Ok(0, Len(p \o (encodeVarint[Len(v)] \o v)))
<1> PICK l, e, b, i : /\ l = Len(v) /\ e = encodeVarint[l] /\ b = p \o (e \o v) /\ i = Len(p)
  OBVIOUS
<1>1. l \in Nat /\ l <= MaxInt /\ l < WordSize /\ i \in Nat
  BY SlicesAre, Widths
<1>2. e \in Slices /\ Len(e) \in Nat
  BY <1>1, Encoded
<1>3. e \in Seq(Byte) /\ p \in Seq(Byte) /\ v \in Seq(Byte)
  BY <1>2, SlicesAre
<1>4. b \in Slices /\ b = (p \o e) \o v
  <2>1. Assoc(p, e, v)
    BY <1>3, SeqAssoc, Zenon
  <2> QED BY <2>1 DEF Assoc
<1>5. p \o e \in Seq(Byte) /\ Len(p \o e) = i + Len(e)
  BY <1>3, SeqConcat, Zenon
<1>6. Len(b) = (i + Len(e)) + l
  <2>1. Len((p \o e) \o v) = Len(p \o e) + Len(v)
    BY <1>3, <1>5, SeqConcat, Zenon
  <2> QED BY <1>4, <1>5, <2>1, Zenon
<1>7. Len(b) <= MaxInt /\ Len(b) \in Nat /\ Len(b) < WordSize
  <2>1. Len(b) <= MaxInt /\ Len(b) \in Nat
    BY <1>4, SlicesAre
  <2> QED BY ONLY <2>1, Widths
<1>8. p \o e \in Slices
  <2>1. i + Len(e) <= MaxInt
    BY <1>1, <1>2, <1>6, <1>7, Widths
  <2> QED BY <1>5, <2>1, SlicesAre
<1>9. Varint(b, i, WordSize) = Ok(l, i + Len(e))
  <2>1. v \in Slices /\ WordSize \in {WordSize, Int32Size} /\ p \o encodeVarint[l] \in Slices
    BY <1>8
  <2>2. Varint((p \o encodeVarint[l]) \o v, Len(p), WordSize) = Ok(l, Len(p) + Len(encodeVarint[l]))
    BY <1>1, <2>1, VarintWritten, Zenon
  <2> QED BY <1>4, <2>2, Zenon
<1>10. Signed(l, WordSize) = l /\ ~(l < 0)
  BY <1>1, SignedWord
<1>11. Signed((i + Len(e)) + l, WordSize) = Len(b)
  BY <1>6, <1>7, SignedWord
<1>12. /\ Ok(l, i + Len(e)).err = "ok" /\ Ok(l, i + Len(e)).val = l
       /\ Ok(l, i + Len(e)).next = i + Len(e)
  BY DEF Ok
<1>13. SkipEntry(b, i, 2) =
         IF Varint(b, i, WordSize).err # "ok" THEN Varint(b, i, WordSize)
         ELSE IF Signed(Varint(b, i, WordSize).val, WordSize) < 0 THEN Fail("length")
         ELSE Ok(0, Signed(Varint(b, i, WordSize).next + Signed(Varint(b, i, WordSize).val, WordSize),
                           WordSize))
  BY DEF SkipEntry
<1>14. SkipEntry(b, i, 2) = Ok(0, Len(b))
  BY <1>9, <1>10, <1>11, <1>12, <1>13
<1> QED BY <1>14

\* What is in front of the end of a slice is one too.
LEMMA FrontSlice ==
    \A a \in Slices : \A c \in Seq(Byte) : \A b \in Seq(Byte) : b \o c = a => b \in Slices
<1> TAKE a \in Slices
<1> TAKE c \in Seq(Byte)
<1> TAKE b \in Seq(Byte)
<1> HAVE b \o c = a
<1>1. Len(b \o c) = Len(b) + Len(c)
  BY SeqConcat, Zenon
<1>2. Len(b) \in Nat /\ Len(c) \in Nat /\ Len(a) <= MaxInt
  BY SlicesAre
<1>3. Len(a) = Len(b) + Len(c)
  BY <1>1
<1>4. Len(b) <= MaxInt
  <2> DEFINE la == Len(a) lb == Len(b) lc == Len(c)
  <2>1. la = lb + lc /\ lb \in Nat /\ lc \in Nat /\ la <= MaxInt
    BY <1>2, <1>3
  <2> HIDE DEF la, lb, lc
  <2>2. lb <= MaxInt
    BY ONLY <2>1, Widths
  <2> QED BY <2>2 DEF lb
<1> QED BY <1>4, SlicesAre

\* The start and the end of a group.
LEMMA GroupPiece ==
    ASSUME NEW p \in Slices, NEW num \in 1..5, NEW wire \in {3, 4},
           NEW b \in Slices, b = p \o Tag(num, wire)
    PROVE  IsPiece(p, b, wire)
<1> PICK d, t : d = <<>> /\ t = Tag(num, wire)
  OBVIOUS
<1>1. wire \in 0..7 /\ d \in Slices
  BY SlicesAre
<1>2. t \in Slices
  BY <1>1, TagFacts
<1>3. b = p \o (Tag(num, wire) \o d)
  BY <1>2, Concat
<1>4. Len(b) = Len(p) + Len(Tag(num, wire))
  BY <1>2, Concat
<1>5. SkipEntry(b, Len(b), wire) = Ok(0, Len(b))
  BY DEF SkipEntry
<1>6. p \o (Tag(num, wire) \o d) \in Slices
  BY <1>3
<1> QED BY <1>1, <1>3, <1>4, <1>5, <1>6, PieceIs

\* A block.
LEMMA BlockPiece ==
    ASSUME NEW p \in Slices, NEW num \in 1..5, NEW v \in Slices,
           NEW d \in Slices, d = encodeVarint[Len(v)] \o v,
           NEW b \in Slices, b = p \o (Tag(num, 2) \o d)
    PROVE  IsPiece(p, b, 2)
<1> PICK wire, t : wire = 2 /\ t = Tag(num, wire)
  OBVIOUS
<1>1. wire \in 0..7
  OBVIOUS
<1>2. t \in Slices
  BY <1>1, TagFacts
<1>3. b = (p \o t) \o d
  <2>1. p \in Seq(Byte) /\ t \in Seq(Byte) /\ d \in Seq(Byte)
    BY <1>2, SlicesAre
  <2>2. Assoc(p, t, d)
    BY <2>1, SeqAssoc
  <2>3. t = Tag(num, 2)
    OBVIOUS
  <2> QED BY <2>2, <2>3, Zenon DEF Assoc
<1>4. p \o t \in Slices
  <2>1. p \in Seq(Byte) /\ t \in Seq(Byte) /\ d \in Seq(Byte)
    BY <1>2, SlicesAre
  <2>2. p \o t \in Seq(Byte)
    BY <2>1, SeqConcat, Zenon
  <2> QED BY <1>3, <2>1, <2>2, FrontSlice
<1>5. Len(p \o t) = Len(p) + Len(t)
  BY <1>2, Concat
<1>6. SkipEntry(b, Len(p \o t), 2) = Ok(0, Len(b))
  <2>1. (p \o t) \o (encodeVarint[Len(v)] \o v) \in Slices
    BY <1>3
  <2>2. SkipEntry((p \o t) \o (encodeVarint[Len(v)] \o v), Len(p \o t), 2)
             = Ok(0, Len((p \o t) \o (encodeVarint[Len(v)] \o v)))
    BY <1>4, <2>1, SkipBlock, Zenon
  <2> QED BY <1>3, <2>2
<1>7. SkipEntry(b, Len(p) + Len(Tag(num, wire)), wire) = Ok(0, Len(b))
  BY <1>5, <1>6
<1>8. p \o (Tag(num, wire) \o d) \in Slices /\ b = p \o (Tag(num, wire) \o d)
  OBVIOUS
<1>9. IsPiece(p, b, wire)
  BY <1>1, <1>7, <1>8, PieceIs
<1> QED BY <1>9

IsCons(h, t) == (h \o t)[1] = h[1] /\ \A j \in 1..Len(t) : (h \o t)[1 + j] = t[j]

\* A sequence behind one element.
LEMMA ConsIs ==
    ASSUME NEW S, NEW h \in Seq(S), NEW t \in Seq(S), Len(h) = 1
    PROVE  IsCons(h, t)
<1>1. (h \o t)[1] = h[1]
  BY ConcatOne, Zenon
<1>2. \A j \in 1..Len(t) : (h \o t)[1 + j] = t[j]
  BY ConcatOne
<1> QED BY ONLY <1>1, <1>2 DEF IsCons

\* Small bytes in sequence.
LEMMA SmallBytes ==
    \A x, y, z \in 0..31 :
        /\ <<x, y, z>> \in Slices /\ <<y, z>> \in Slices /\ <<z>> \in Slices /\ Len(<<z>>) = 1
        /\ Len(<<y, z>>) = 2 /\ Len(<<x, y, z>>) = 3
        /\ encodeVarint[x] = <<x>>
        /\ <<x, y, z>> = <<x>> \o <<y, z>> /\ <<y, z>> = <<y>> \o <<z>>
<1> TAKE x, y, z \in 0..31
<1>1. x \in Byte /\ y \in Byte /\ z \in Byte /\ 3 <= MaxInt
  BY Widths DEF Byte
<1>2. <<x, y, z>> \in Seq(Byte) /\ <<y, z>> \in Seq(Byte) /\ <<z>> \in Seq(Byte)
  BY <1>1
<1>3. Len(<<z>>) = 1 /\ Len(<<y, z>>) = 2 /\ Len(<<x, y, z>>) = 3
  OBVIOUS
<1>4. <<x, y, z>> \in Slices /\ <<y, z>> \in Slices /\ <<z>> \in Slices
  <2>1. Len(<<z>>) <= MaxInt /\ Len(<<y, z>>) <= MaxInt /\ Len(<<x, y, z>>) <= MaxInt
    BY <1>1, <1>3, Widths
  <2> QED BY <1>2, <2>1, SlicesAre
<1>5. encodeVarint[x] = <<x>>
  <2>1. x \in Nat /\ ~(x >= Base)
    BY Widths
  <2> QED BY <2>1, encodeVarintDef
<1>6. <<x, y, z>> = <<x>> \o <<y, z>>
  <2>0. PICK h, t, e, c : h = <<x>> /\ t = <<y, z>> /\ e = <<x, y, z>> /\ c = h \o t
    OBVIOUS
  <2>1. h \in Seq(Byte) /\ t \in Seq(Byte) /\ e \in Seq(Byte)
    BY <1>1, <2>0
  <2>2. Len(h) = 1 /\ Len(t) = 2 /\ Len(e) = 3
    BY <2>0
  <2>3. c \in Seq(Byte) /\ Len(c) = Len(h) + Len(t)
    BY <2>0, <2>1, SeqConcat, Zenon
  <2>4. c[1] = h[1] /\ \A j \in 1..Len(t) : c[1 + j] = t[j]
    <3>1. Len(h) = 1
      BY <2>2
    <3>2. (h \o t)[1] = h[1] /\ \A j \in 1..Len(t) : (h \o t)[1 + j] = t[j]
      <4>1. IsCons(h, t)
        BY <2>1, <3>1, ConsIs
      <4> QED BY <4>1 DEF IsCons
    <3> QED BY <2>0, <3>2, Zenon
  <2>5. h[1] = x /\ t[1] = y /\ t[2] = z /\ e[1] = x /\ e[2] = y /\ e[3] = z
    BY <2>0
  <2>6. \A j \in 1..Len(e) : e[j] = c[j]
    <3>1. PICK one, two, three : one = 1 /\ two = 2 /\ three = 3
      OBVIOUS
    <3>2. c[1 + one] = t[one] /\ c[1 + two] = t[two]
      BY ONLY <2>2, <2>4, <3>1
    <3>3. c[1] = e[1] /\ c[2] = e[2] /\ c[3] = e[3]
      BY ONLY <2>4, <2>5, <3>1, <3>2
    <3> QED BY ONLY <2>2, <3>3
  <2>7. Len(e) = Len(c)
    BY ONLY <2>2, <2>3
  <2>8. e = c
    BY <2>1, <2>3, <2>6, <2>7, SameSeq, Zenon
  <2> QED BY <2>0, <2>8
<1>7. <<y, z>> = <<y>> \o <<z>>
  <2>0. PICK h, t, e, c : h = <<y>> /\ t = <<z>> /\ e = <<y, z>> /\ c = h \o t
    OBVIOUS
  <2>1. h \in Seq(Byte) /\ t \in Seq(Byte) /\ e \in Seq(Byte)
    BY <1>1, <2>0
  <2>2. Len(h) = 1 /\ Len(t) = 1 /\ Len(e) = 2
    BY <2>0
  <2>3. c \in Seq(Byte) /\ Len(c) = Len(h) + Len(t)
    BY <2>0, <2>1, SeqConcat, Zenon
  <2>4. c[1] = h[1] /\ \A j \in 1..Len(t) : c[1 + j] = t[j]
    <3>1. Len(h) = 1
      BY <2>2
    <3>2. (h \o t)[1] = h[1] /\ \A j \in 1..Len(t) : (h \o t)[1 + j] = t[j]
      <4>1. IsCons(h, t)
        BY <2>1, <3>1, ConsIs
      <4> QED BY <4>1 DEF IsCons
    <3> QED BY <2>0, <3>2, Zenon
  <2>5. h[1] = y /\ t[1] = z /\ e[1] = y /\ e[2] = z
    BY <2>0
  <2>6. \A j \in 1..Len(e) : e[j] = c[j]
    <3>1. PICK one : one = 1
      OBVIOUS
    <3>2. c[1 + one] = t[one]
      BY ONLY <2>2, <2>4, <3>1
    <3>3. c[1] = e[1] /\ c[2] = e[2]
      BY ONLY <2>4, <2>5, <3>1, <3>2
    <3> QED BY ONLY <2>2, <3>3
  <2>7. Len(e) = Len(c)
    BY ONLY <2>2, <2>3
  <2>8. e = c
    BY <2>1, <2>3, <2>6, <2>7, SameSeq, Zenon
  <2> QED BY <2>0, <2>8
<1> QED BY <1>3, <1>4, <1>5, <1>6, <1>7

\* The group among the unknown entries.
LEMMA SkipGroup ==
    ASSUME NEW b \in Slices,
           b = Tag(4, 3) \o <<10, 1, 16>> \o Tag(5, 3) \o Tag(5, 4) \o Tag(4, 4)
    PROVE  skip(b) = Ok(0, Len(b))
<1>0. PICK x, g1, g2, g3, g4 :
        x = <<10, 1, 16>> /\ g1 = Tag(4, 3) /\ g2 = g1 \o x /\ g3 = g2 \o Tag(5, 3) /\ g4 = g3 \o Tag(5, 4)
  OBVIOUS
<1>11. PICK zero, one, two, four, five :
        zero = 0 /\ one = 1 /\ two = 2 /\ four = 4 /\ five = 5
  OBVIOUS
<1>1. b = g4 \o Tag(4, 4)
  BY <1>0
<1>2. /\ Tag(4, 3) \in Slices /\ Tag(5, 3) \in Slices /\ Tag(5, 4) \in Slices /\ Tag(4, 4) \in Slices
      /\ Tag(1, 2) \in Slices
  <2>1. \A num \in 1..5 : \A wire \in 0..7 : Tag(num, wire) \in Slices
    BY TagFacts
  <2> QED BY <2>1
<1>3. x \in Slices /\ <<1, 16>> \in Slices /\ x = <<10>> \o <<1, 16>> /\ <<1, 16>> = <<1>> \o <<16>>
      /\ <<16>> \in Slices /\ Len(<<16>>) = 1 /\ encodeVarint[1] = <<1>> /\ encodeVarint[10] = <<10>>
  <2>1. 10 \in 0..31 /\ 1 \in 0..31 /\ 16 \in 0..31
    OBVIOUS
  <2> QED BY <1>0, <2>1, SmallBytes
<1>4. g2 \in Seq(Byte) /\ g3 \in Seq(Byte) /\ g4 \in Seq(Byte)
  <2>1. \A s, t \in Seq(Byte) : s \o t \in Seq(Byte)
    BY SeqConcat, Zenon
  <2>2. /\ Tag(4, 3) \in Seq(Byte) /\ Tag(5, 3) \in Seq(Byte) /\ Tag(5, 4) \in Seq(Byte) /\ x \in Seq(Byte)
    BY <1>2, <1>3, SlicesAre
  <2> QED BY <1>0, <2>1, <2>2, Zenon
<1>5. g1 \in Slices /\ g2 \in Slices /\ g3 \in Slices /\ g4 \in Slices
  <2>1. \A s \in Slices : \A c \in Slices : \A f \in Seq(Byte) : f \o c = s => f \in Slices
    BY FrontSlice, SlicesAre
  <2>2. g4 \in Slices
    BY <1>1, <1>2, <1>4, <2>1, Zenon
  <2>3. g3 \in Slices
    BY <1>0, <1>2, <1>4, <2>1, <2>2, Zenon
  <2>4. g2 \in Slices
    BY <1>0, <1>2, <1>4, <2>1, <2>3, Zenon
  <2> QED BY <1>0, <1>2, <2>2, <2>3, <2>4
<1>12. 4 \in 1..5 /\ 5 \in 1..5 /\ 1 \in 1..5 /\ 3 \in {3, 4} /\ 4 \in {3, 4}
  OBVIOUS
<1>6. IsOpen(g1, one)
  <2>1. g1 = <<>> \o Tag(4, 3) /\ <<>> \in Slices
    BY <1>0, <1>2, Concat, SlicesAre
  <2>2. IsPiece(<<>>, g1, 3)
    BY <1>5, <1>12, <2>1, GroupPiece, Zenon
  <2>3. IsOpen(<<>>, zero)
    BY <1>11, SkipStart, SlicesAre DEF IsOpen
  <2>4. one = zero + Opened(3) /\ zero \in Nat /\ ~(3 = 4 /\ zero = 0)
    BY <1>11 DEF Opened
  <2>6. SkipsOrOpen(g1, one)
    BY <2>2, <2>3, <2>4, SkipAppend
  <2> QED BY <1>11, <2>6 DEF SkipsOrOpen
<1>7. IsOpen(g2, one)
  <2>1. x = Tag(1, 2) \o (encodeVarint[Len(<<16>>)] \o <<16>>)
    <3>1. Tag(1, 2) = encodeVarint[10]
      BY DEF Tag
    <3> QED BY <1>3, <3>1
  <2>2. <<1, 16>> = encodeVarint[Len(<<16>>)] \o <<16>>
    BY <1>3
  <2>3. g2 = g1 \o (Tag(1, 2) \o <<1, 16>>)
    BY <1>0, <2>1, <2>2
  <2>4. IsPiece(g1, g2, 2)
    BY <1>3, <1>5, <1>12, <2>2, <2>3, BlockPiece, Zenon
  <2>5. one = one + Opened(2) /\ one \in Nat /\ ~(2 = 4 /\ one = 0)
    BY <1>11 DEF Opened
  <2>6. SkipsOrOpen(g2, one)
    BY <1>6, <2>4, <2>5, SkipAppend
  <2> QED BY <1>11, <2>6 DEF SkipsOrOpen
<1>8. IsOpen(g3, two)
  <2>1. IsPiece(g2, g3, 3)
    BY <1>0, <1>5, <1>12, GroupPiece, Zenon
  <2>2. two = one + Opened(3) /\ one \in Nat /\ ~(3 = 4 /\ one = 0)
    BY <1>11 DEF Opened
  <2>6. SkipsOrOpen(g3, two)
    BY <1>7, <2>1, <2>2, SkipAppend
  <2> QED BY <1>11, <2>6 DEF SkipsOrOpen
<1>9. IsOpen(g4, one)
  <2>1. IsPiece(g3, g4, 4)
    BY <1>0, <1>5, <1>12, GroupPiece, Zenon
  <2>2. one = two + Opened(4) /\ two \in Nat /\ ~(4 = 4 /\ two = 0)
    BY <1>11 DEF Opened
  <2>6. SkipsOrOpen(g4, one)
    BY <1>8, <2>1, <2>2, SkipAppend
  <2> QED BY <1>11, <2>6 DEF SkipsOrOpen
<1>10. skip(b) = Ok(0, Len(b))
  <2>1. IsPiece(g4, b, 4)
    BY <1>1, <1>5, <1>12, GroupPiece, Zenon
  <2>2. zero = one + Opened(4) /\ ~(4 = 4 /\ one = 0)
    BY <1>11 DEF Opened
  <2>6. SkipsOrOpen(b, zero)
    BY <1>9, <2>1, <2>2, SkipAppend
  <2> QED BY <1>11, <2>6 DEF SkipsOrOpen
<1> QED BY <1>10

Skipped == {0, 1, 2, 3, 5}

\* An entry of field 4 that skip takes as a whole.
IsUnknown(u) ==
    /\ u \in Slices /\ skip(u) = Ok(0, Len(u))
    /\ \E wire \in Skipped : \E d \in Slices : u = Tag(4, wire) \o d

\* The tag of an unknown entry.
LEMMA UnknownTag ==
    ASSUME NEW wire \in Skipped, NEW p \in Slices, NEW d \in Slices,
           NEW u \in Slices, u = Tag(4, wire) \o d, p \o u \in Slices
    PROVE  \E n : Varint(p \o u, Len(p), WordSize) = Ok(4 * 8 + wire, n)
<1>0. PICK num, t : num = 4 /\ t = Tag(num, wire)
  OBVIOUS
<1>1. num \in 1..5 /\ wire \in 0..7
  BY <1>0 DEF Skipped
<1>2. t \in Slices /\ Len(t) \in Nat
  BY <1>0, <1>1, TagFacts
<1>3. Len(u) = Len(t) + Len(d)
  <2>1. Len(t \o d) = Len(t) + Len(d)
    BY <1>2, Concat, Zenon
  <2> QED BY <1>0, <2>1
<1>4. Len(p \o u) = Len(p) + Len(u) /\ Len(p \o u) <= MaxInt
  BY Concat, SlicesAre
<1>5. Len(p) + (Len(Tag(num, wire)) + Len(d)) <= MaxInt
  BY <1>0, <1>3, <1>4
<1>6. Varint(p \o (Tag(num, wire) \o d), Len(p), WordSize)
        = Ok(num * 8 + wire, Len(p) + Len(Tag(num, wire)))
  BY <1>1, <1>5, TagWritten, Zenon
<1> QED BY <1>0, <1>6

\* Every decoder skips it and stores nothing.
LEMMA UnknownWritten ==
    ASSUME NEW R, IsTable(R), NEW p \in Slices, NEW u, IsUnknown(u), p \o u \in Slices
    PROVE  ReadEntry(R, p \o u, Len(p)) = Ok([num |-> 0, data |-> <<>>], Len(p \o u))
<1>0. u \in Slices /\ skip(u) = Ok(0, Len(u))
  BY DEF IsUnknown
<1>1. PICK wire \in Skipped : \E d \in Slices : u = Tag(4, wire) \o d
  BY DEF IsUnknown
<1>2. PICK t, n, b, i : /\ b = p \o u /\ i = Len(p) /\ t = 4 * 8 + wire
                        /\ Varint(b, i, WordSize) = Ok(t, n)
  <2>1. \E n : Varint(p \o u, Len(p), WordSize) = Ok(4 * 8 + wire, n)
    BY <1>0, <1>1, UnknownTag, Zenon
  <2> QED BY <2>1
<1>3. t \div 8 = 4 /\ t % 8 = wire /\ Signed(4, Int32Size) = 4 /\ wire # 4
  <2>1. 4 \in 1..5 /\ wire \in 0..7 /\ wire # 4
    BY DEF Skipped
  <2>2. \A num \in 1..5 : Signed(num, Int32Size) = num
    <3>1. 0 \in 0..7
      OBVIOUS
    <3> QED BY <3>1, TagFacts
  <2>3. t \div 8 = 4 /\ t % 8 = wire
    BY <1>2, <2>1
  <2> QED BY <2>1, <2>2, <2>3
<1>4. /\ Len(b) = i + Len(u) /\ i \in Nat /\ Len(u) \in Nat /\ Len(b) \in Nat /\ Len(b) <= MaxInt
      /\ b \in Slices /\ Len(b) < WordSize
  <2>1. Len(p \o u) = Len(p) + Len(u) /\ Len(p) \in Nat /\ Len(u) \in Nat
        /\ Len(p \o u) <= MaxInt /\ Len(p \o u) \in Nat
    BY <1>0, Concat, SlicesAre
  <2>2. Len(p \o u) < WordSize
    BY ONLY <2>1, Widths
  <2> QED BY <1>2, <2>1, <2>2
<1>5. SubSeq(b, i + 1, Len(b)) = u
  <2>1. SameRest(p, u, Len(p))
    BY <1>0, SlicesAre, SliceRest
  <2>2. SubSeq(p, Len(p) + 1, Len(p)) = <<>>
    <3>1. Len(p) \in Nat /\ p \in Seq(Byte)
      BY SlicesAre
    <3> QED BY <3>1, SliceLen
  <2>3. <<>> \o u = u
    BY <1>0, Concat
  <2> QED BY <1>2, <2>1, <2>2, <2>3 DEF SameRest
<1>6. Signed(i + Len(u), WordSize) = Len(b)
  BY <1>4, SignedWord
<1>7. /\ Ok(t, n).err = "ok" /\ Ok(t, n).val = t
      /\ Ok(0, Len(u)).err = "ok" /\ Ok(0, Len(u)).next = Len(u)
  BY DEF Ok
<1> DEFINE tag == Varint(b, i, WordSize)
           fieldNum == Signed(tag.val \div 8, Int32Size)
           wireType == tag.val % 8
           skippy == skip(SubSeq(b, i + 1, Len(b)))
           end == Signed(i + skippy.next, WordSize)
           data == IF R[fieldNum].kind = "uint32"
                   THEN Varint(b, tag.next, Int32Size) ELSE Block(b, tag.next)
<1>8. tag.err = "ok" /\ fieldNum = 4 /\ wireType = wire
  BY <1>2, <1>3, <1>7
<1>9. skippy = Ok(0, Len(u)) /\ end = Len(b)
  BY <1>0, <1>5, <1>6, <1>7
<1>10. Len(R) \in Nat /\ Len(R) <= 3
  BY DEF IsTable
<1>11. ReadEntry(R, b, i) =
         IF tag.err # "ok" THEN tag
         ELSE IF wireType = 4 THEN Fail("endgroup")
         ELSE IF fieldNum <= 0 THEN Fail("tag")
         ELSE IF fieldNum > Len(R)
         THEN IF skippy.err # "ok" THEN skippy
              ELSE IF skippy.next < 0 \/ end < 0 THEN Fail("length")
              ELSE IF end > Len(b) THEN Fail("eof")
              ELSE Ok([num |-> 0, data |-> <<>>], end)
         ELSE IF wireType # R[fieldNum].wire THEN Fail("wiretype")
         ELSE IF data.err # "ok" THEN data
         ELSE Ok([num |-> fieldNum, data |-> data.val], data.next)
  BY DEF ReadEntry, ReadField, KnownField, UnknownField
<1> HIDE DEF tag, fieldNum, wireType, skippy, end, data
<1>12. /\ ~(tag.err # "ok") /\ ~(wireType = 4) /\ ~(fieldNum <= 0) /\ fieldNum > Len(R)
  BY <1>3, <1>8, <1>10
<1>13. ~(skippy.err # "ok") /\ ~(skippy.next < 0) /\ ~(end < 0) /\ ~(end > Len(b))
  BY <1>4, <1>7, <1>9
<1>14. ReadEntry(R, b, i) = Ok([num |-> 0, data |-> <<>>], end)
  BY <1>11, <1>12, <1>13
<1> QED BY <1>2, <1>9, <1>14

\* Every unknown entry of the model is such an entry.
LEMMA UnknownsAre == \A u \in Unknowns : u \in Slices => IsUnknown(u)
<1> TAKE u \in Unknowns
<1> HAVE u \in Slices
<1>1. CASE u = Tag(4, 0) \o <<Base, Base, 0>>
  <2>0. PICK d : d = <<Base, Base, 0>>
    OBVIOUS
  <2>1. d \in Slices
    <3>1. <<Base, Base, 0>> \in Seq(Byte) /\ Len(<<Base, Base, 0>>) = 3 /\ 3 <= MaxInt
      BY Widths DEF Byte
    <3> QED BY <2>0, <3>1, SlicesAre
  <2>2. skip(u) = Ok(0, Len(u))
    BY <1>1, SkipNumber
  <2> QED BY <1>1, <2>0, <2>1, <2>2 DEF IsUnknown, Skipped
<1>2. CASE u = Tag(4, 1) \o [i \in 1..8 |-> 10]
  <2>0. PICK d, wire : d = [i \in 1..8 |-> 10] /\ wire = 1
    OBVIOUS
  <2>1. d \in Slices /\ Len(d) = 8
    <3>1. d \in Seq(Byte) /\ Len(d) = 8
      BY <2>0, Widths DEF Byte
    <3>2. 8 <= MaxInt
      BY Widths
    <3> QED BY <3>1, <3>2, SlicesAre
  <2>2. skip(u) = Ok(0, Len(u))
    BY <1>2, <2>0, <2>1, SkipFixed
  <2> QED BY <1>2, <2>0, <2>1, <2>2 DEF IsUnknown, Skipped
<1>3. CASE u = Tag(4, 2) \o <<2, 10, 1>>
  <2>0. PICK d, wire, p, v, num : d = <<2, 10, 1>> /\ wire = 2 /\ p = <<>> /\ v = <<10, 1>> /\ num = 4
    OBVIOUS
  <2>1. d \in Slices /\ v \in Slices /\ d = encodeVarint[Len(v)] \o v /\ p \in Slices
    <3>1. 2 \in 0..31 /\ 10 \in 0..31 /\ 1 \in 0..31
      OBVIOUS
    <3>2. /\ <<2, 10, 1>> \in Slices /\ <<10, 1>> \in Slices /\ Len(<<10, 1>>) = 2
          /\ encodeVarint[2] = <<2>> /\ <<2, 10, 1>> = <<2>> \o <<10, 1>>
      BY <3>1, SmallBytes
    <3> QED BY <2>0, <3>2, SlicesAre
  <2>2. u = p \o (Tag(num, 2) \o d) /\ num \in 1..5
    BY <1>3, <2>0, Concat
  <2>3. IsPiece(p, u, 2)
    BY <2>1, <2>2, BlockPiece, Zenon
  <2>4. skip(u) = Ok(0, Len(u))
    <3>1. 2 \in {0, 1, 2, 5} /\ IsPiece(<<>>, u, 2)
      BY <2>0, <2>3
    <3> QED BY <3>1, SkipOne, Zenon
  <2> QED BY <1>3, <2>0, <2>1, <2>4 DEF IsUnknown, Skipped
<1>4. CASE u = Tag(4, 3) \o <<10, 1, 16>> \o Tag(5, 3) \o Tag(5, 4) \o Tag(4, 4)
  <2>0. PICK t, x, a, c, e, d : /\ t = Tag(4, 3) /\ x = <<10, 1, 16>> /\ a = Tag(5, 3) /\ c = Tag(5, 4)
                                /\ e = Tag(4, 4) /\ d = x \o (a \o (c \o e))
    OBVIOUS
  <2>1. t \in Slices /\ x \in Slices /\ a \in Slices /\ c \in Slices /\ e \in Slices
    <3>1. \A num \in 1..5 : \A wire \in 0..7 : Tag(num, wire) \in Slices
      BY TagFacts
    <3>2. x \in Slices
      <4>1. 10 \in 0..31 /\ 1 \in 0..31 /\ 16 \in 0..31
        OBVIOUS
      <4> QED BY <2>0, <4>1, SmallBytes
    <3> QED BY <2>0, <3>1, <3>2
  <2>2. t \in Seq(Byte) /\ x \in Seq(Byte) /\ a \in Seq(Byte) /\ c \in Seq(Byte) /\ e \in Seq(Byte)
    BY <2>1, SlicesAre
  <2>3. c \o e \in Seq(Byte) /\ a \o (c \o e) \in Seq(Byte) /\ d \in Seq(Byte)
    <3>1. \A s, f \in Seq(Byte) : s \o f \in Seq(Byte)
      BY SeqConcat, Zenon
    <3> QED BY <2>0, <2>2, <3>1, Zenon
  <2>4. u = t \o d
    <3>0. t \o x \in Seq(Byte) /\ (t \o x) \o a \in Seq(Byte) /\ ((t \o x) \o a) \o c \in Seq(Byte)
      <4>1. \A s, f \in Seq(Byte) : s \o f \in Seq(Byte)
        BY SeqConcat, Zenon
      <4> QED BY <2>2, <4>1, Zenon
    <3>1. Assoc((t \o x) \o a, c, e)
      BY <2>2, <3>0, SeqAssoc, Zenon
    <3>2. Assoc(t \o x, a, c \o e)
      BY <2>2, <2>3, <3>0, SeqAssoc, Zenon
    <3>3. Assoc(t, x, a \o (c \o e))
      BY <2>2, <2>3, SeqAssoc, Zenon
    <3>4. u = (((t \o x) \o a) \o c) \o e
      BY <1>4, <2>0
    <3>5. (((t \o x) \o a) \o c) \o e = ((t \o x) \o a) \o (c \o e)
      BY <3>1 DEF Assoc
    <3>6. ((t \o x) \o a) \o (c \o e) = (t \o x) \o (a \o (c \o e))
      BY <3>2 DEF Assoc
    <3>7. (t \o x) \o (a \o (c \o e)) = t \o (x \o (a \o (c \o e)))
      BY <3>3 DEF Assoc
    <3> QED BY <2>0, <3>4, <3>5, <3>6, <3>7, Zenon
  <2>5. d \in Slices
    <3>1. Len(t \o d) = Len(t) + Len(d)
      BY <2>2, <2>3, SeqConcat, Zenon
    <3>2. Len(u) <= MaxInt /\ Len(t) \in Nat /\ Len(u) = Len(t) + Len(d)
      BY <2>1, <2>4, <3>1, SlicesAre
    <3>3. Len(d) \in Nat
      BY <2>3
    <3> DEFINE ld == Len(d) lt == Len(t) lu == Len(u)
    <3>4. ld <= MaxInt
      <4>1. lu <= MaxInt /\ lt \in Nat /\ lu = lt + ld /\ ld \in Nat
        BY <3>2, <3>3
      <4> HIDE DEF ld, lt, lu
      <4> QED BY ONLY <4>1, Widths
    <3> QED BY <2>3, <3>4, SlicesAre
  <2>6. skip(u) = Ok(0, Len(u))
    BY <1>4, SkipGroup
  <2> QED BY <2>0, <2>4, <2>5, <2>6 DEF IsUnknown, Skipped
<1>5. CASE u = Tag(4, 5) \o <<12, 12, 12, 12>>
  <2>0. PICK d, wire : d = <<12, 12, 12, 12>> /\ wire = 5
    OBVIOUS
  <2>1. d \in Slices /\ Len(d) = 4
    <3>1. d \in Seq(Byte) /\ Len(d) = 4
      BY <2>0, Widths DEF Byte
    <3>2. 4 <= MaxInt
      BY Widths
    <3> QED BY <3>1, <3>2, SlicesAre
  <2>2. skip(u) = Ok(0, Len(u))
    BY <1>5, <2>0, <2>1, SkipFixed
  <2> QED BY <1>5, <2>0, <2>1, <2>2 DEF IsUnknown, Skipped
<1> QED BY <1>1, <1>2, <1>3, <1>4, <1>5 DEF Unknowns

(* Messages of depth 0, 1 and 2: without embedded ones, and so on.         *)
Depths == {0, 1, 2}

DigitTexts == {s \in Slices : \A i \in 1..Len(s) : s[i] \in 48..57}

Nested(f) == f.kind \in {"message", "repeated"}

\* The values of a field, given those of its embedded messages.
ValuesOf(f, M) ==
    CASE f.kind = "uint32"  -> 0..(Int32Size - 1)
      [] f.kind = "string"  -> Slices
      [] f.kind = "int"     -> DigitTexts
      [] f.kind = "message" -> M
      [] OTHER -> Seq(M)

MsgsOf(R, V(_)) ==
    {m \in [1..Len(R) -> UNION {V(R[i]) : i \in 1..Len(R)}] :
        \A i \in 1..Len(R) : m[i] \in V(R[i])}

Msgs0(R) == MsgsOf(R, LAMBDA f : ValuesOf(f, {}))
Msgs1(R) == MsgsOf(R, LAMBDA f : ValuesOf(f, Msgs0(f.of)))
Msgs2(R) == MsgsOf(R, LAMBDA f : ValuesOf(f, Msgs1(f.of)))
MsgsAt(d, R) == IF d = 0 THEN Msgs0(R) ELSE IF d = 1 THEN Msgs1(R) ELSE Msgs2(R)

\* The messages in a field of a message of depth d.
Below(d, f) == IF d = 0 THEN {} ELSE MsgsAt(d - 1, f.of)

IsMsg(d, R, m) ==
    /\ m = [i \in 1..Len(R) |-> m[i]]
    /\ \A i \in 1..Len(R) : m[i] \in ValuesOf(R[i], Below(d, R[i]))

\* The messages of a depth are given by their fields.
LEMMA MsgsOfAre ==
    \A R : \A d \in Depths : \A m : m \in MsgsAt(d, R) <=> IsMsg(d, R, m)
<1> TAKE R
<1> TAKE d \in Depths
<1> TAKE m
<1> DEFINE V(f) == ValuesOf(f, Below(d, f))
           T == {n \in [1..Len(R) -> UNION {V(R[i]) : i \in 1..Len(R)}] :
                    \A i \in 1..Len(R) : n[i] \in V(R[i])}
<1>1. MsgsAt(d, R) = T
  <2>1. CASE d = 0
    BY <2>1 DEF MsgsAt, Msgs0, MsgsOf, Below
  <2>2. CASE d = 1
    BY <2>2 DEF MsgsAt, Msgs1, MsgsOf, Below
  <2>3. CASE d = 2
    BY <2>3 DEF MsgsAt, Msgs2, MsgsOf, Below
  <2> QED BY <2>1, <2>2, <2>3 DEF Depths
<1>2. m \in T => IsMsg(d, R, m)
  <2> HAVE m \in T
  <2>1. m \in [1..Len(R) -> UNION {V(R[i]) : i \in 1..Len(R)}]
    OBVIOUS
  <2>2. \A i \in 1..Len(R) : m[i] \in V(R[i])
    OBVIOUS
  <2> QED BY <2>1, <2>2 DEF IsMsg
<1>3. IsMsg(d, R, m) => m \in T
  <2> HAVE IsMsg(d, R, m)
  <2>1. \A i \in 1..Len(R) : m[i] \in V(R[i])
    BY DEF IsMsg
  <2>2. m = [i \in 1..Len(R) |-> m[i]]
    BY DEF IsMsg
  <2> HIDE DEF V
  <2>3. m \in [1..Len(R) -> UNION {V(R[i]) : i \in 1..Len(R)}]
    BY <2>1, <2>2
  <2> QED BY <2>1, <2>3
<1> HIDE DEF T
<1> QED BY <1>1, <1>2, <1>3

\* One field changes.
LEMMA MsgsUpdate ==
    ASSUME NEW d \in Depths, NEW R, NEW m \in MsgsAt(d, R), NEW num \in 1..Len(R),
           NEW x \in ValuesOf(R[num], Below(d, R[num]))
    PROVE  [m EXCEPT ![num] = x] \in MsgsAt(d, R)
<1>1. IsMsg(d, R, m)
  BY MsgsOfAre
<1> DEFINE n == [m EXCEPT ![num] = x]
<1>2. IsMsg(d, R, n)
  <2>1. m = [i \in 1..Len(R) |-> m[i]]
    BY <1>1 DEF IsMsg
  <2>2. \A i \in 1..Len(R) : m[i] \in ValuesOf(R[i], Below(d, R[i]))
    BY <1>1 DEF IsMsg
  <2>3. \A i \in 1..Len(R) : n[i] = IF i = num THEN x ELSE m[i]
    BY <2>1
  <2>4. n = [i \in 1..Len(R) |-> n[i]]
    BY <2>1
  <2>5. \A i \in 1..Len(R) : n[i] \in ValuesOf(R[i], Below(d, R[i]))
    <3> HIDE DEF n
    <3> QED BY <2>2, <2>3
  <2> HIDE DEF n
  <2> QED BY <2>4, <2>5 DEF IsMsg
<1> HIDE DEF n
<1>3. n \in MsgsAt(d, R)
  BY <1>2, MsgsOfAre
<1> QED BY <1>3 DEF n

(* Reader tables of each depth.                                            *)
ReaderOf(R, Inner(_)) ==
    /\ IsTable(R)
    /\ \A i \in 1..Len(R) :
          /\ Nested(R[i]) => Inner(R[i].of)
          /\ R[i].zero = IF R[i].kind = "uint32" THEN 0
                         ELSE IF R[i].kind = "message" THEN Zero(R[i].of) ELSE <<>>

Reader0(R) == ReaderOf(R, LAMBDA of : FALSE)
Reader1(R) == ReaderOf(R, Reader0)
Reader2(R) == ReaderOf(R, Reader1)
IsReader(d, R) == IF d = 0 THEN Reader0(R) ELSE IF d = 1 THEN Reader1(R) ELSE Reader2(R)

ReaderFacts(d, R) ==
    /\ IsTable(R)
    /\ \A i \in 1..Len(R) :
          /\ Nested(R[i]) => d > 0 /\ d - 1 \in Depths /\ IsReader(d - 1, R[i].of)
          /\ R[i].zero = IF R[i].kind = "uint32" THEN 0
                         ELSE IF R[i].kind = "message" THEN Zero(R[i].of) ELSE <<>>

\* What a reader table has for each field.
LEMMA ReaderIs == \A d \in Depths : \A R : IsReader(d, R) => ReaderFacts(d, R)
<1> TAKE d \in Depths
<1> TAKE R
<1> HAVE IsReader(d, R)
<1>1. CASE d = 0
  <2>1. ReaderOf(R, LAMBDA of : FALSE)
    BY <1>1 DEF IsReader, Reader0
  <2> QED BY <1>1, <2>1 DEF ReaderOf, ReaderFacts
<1>2. CASE d = 1
  <2>1. Reader1(R)
    BY <1>2 DEF IsReader
  <2>2. d > 0 /\ d - 1 = 0 /\ d - 1 \in Depths /\ \A of : IsReader(d - 1, of) <=> Reader0(of)
    BY <1>2 DEF IsReader, Depths
  <2> QED BY <2>1, <2>2 DEF Reader1, ReaderOf, ReaderFacts
<1>3. CASE d = 2
  <2>1. Reader2(R)
    BY <1>3 DEF IsReader
  <2>2. d > 0 /\ d - 1 = 1 /\ d - 1 \in Depths /\ \A of : IsReader(d - 1, of) <=> Reader1(of)
    BY <1>3 DEF IsReader, Depths
  <2> QED BY <2>1, <2>2 DEF Reader2, ReaderOf, ReaderFacts
<1> QED BY <1>1, <1>2, <1>3 DEF Depths

ZeroTyped(d) == \A R : IsReader(d, R) => Zero(R) \in MsgsAt(d, R)

\* From one depth to the next: a new message has its type.
LEMMA ZeroLevel ==
    ASSUME NEW d \in Depths, d > 0 => ZeroTyped(d - 1)
    PROVE  ZeroTyped(d)
<1> SUFFICES ASSUME NEW R, IsReader(d, R)
             PROVE  Zero(R) \in MsgsAt(d, R)
  BY DEF ZeroTyped
<1>1. ReaderFacts(d, R)
  BY ReaderIs
<1>2. DOMAIN R = 1..Len(R) /\ \A i \in 1..Len(R) : R[i].kind \in Kinds
  <2>1. IsTable(R)
    BY <1>1 DEF ReaderFacts
  <2>2. R \in Seq(Range(R)) /\ \A i \in 1..Len(R) : R[i].kind \in Kinds
    BY <2>1 DEF IsTable
  <2> QED BY <2>2
<1> DEFINE z == Zero(R)
<1>3. z = [i \in 1..Len(R) |-> R[i].zero]
  BY <1>2 DEF Zero
<1>4. ASSUME NEW i \in 1..Len(R) PROVE R[i].zero \in ValuesOf(R[i], Below(d, R[i]))
  <2>1. R[i].zero = IF R[i].kind = "uint32" THEN 0
                    ELSE IF R[i].kind = "message" THEN Zero(R[i].of) ELSE <<>>
    BY <1>1 DEF ReaderFacts
  <2>2. CASE R[i].kind = "uint32"
    <3>1. 0 \in 0..(Int32Size - 1)
      BY Widths
    <3> QED BY <2>1, <2>2, <3>1 DEF ValuesOf
  <2>3. CASE R[i].kind = "message"
    <3>1. d > 0 /\ IsReader(d - 1, R[i].of)
      BY <1>1, <2>3 DEF ReaderFacts, Nested
    <3>2. Zero(R[i].of) \in Below(d, R[i])
      BY <3>1 DEF ZeroTyped, Below
    <3> QED BY <2>1, <2>3, <3>2 DEF ValuesOf
  <2>4. CASE R[i].kind = "string"
    <3>1. <<>> \in Slices
      BY SlicesAre
    <3> QED BY <2>1, <2>4, <3>1 DEF ValuesOf
  <2>5. CASE R[i].kind = "int"
    <3>1. <<>> \in Slices /\ Len(<<>>) = 0
      BY SlicesAre
    <3>2. <<>> \in DigitTexts
      BY <3>1 DEF DigitTexts
    <3> QED BY <2>1, <2>5, <3>2 DEF ValuesOf
  <2>6. CASE R[i].kind = "repeated"
    <3>1. <<>> \in Seq(Below(d, R[i]))
      OBVIOUS
    <3> QED BY <2>1, <2>6, <3>1 DEF ValuesOf
  <2> QED BY <1>2, <2>2, <2>3, <2>4, <2>5, <2>6 DEF Kinds
<1>5. IsMsg(d, R, z)
  <2>1. z = [i \in 1..Len(R) |-> z[i]]
    BY <1>3
  <2>2. \A i \in 1..Len(R) : z[i] = R[i].zero
    BY <1>3
  <2> HIDE DEF z
  <2> QED BY <1>4, <2>1, <2>2 DEF IsMsg
<1> HIDE DEF z
<1>6. z \in MsgsAt(d, R)
  BY <1>5, MsgsOfAre
<1> QED BY <1>6 DEF z

\* A new message of a reader table has its type.
LEMMA ZeroType == \A d \in Depths : ZeroTyped(d)
<1>1. ZeroTyped(0)
  BY ZeroLevel DEF Depths
<1>2. ZeroTyped(1)
  <2>1. 1 \in Depths /\ 1 - 1 = 0
    BY DEF Depths
  <2> QED BY <1>1, <2>1, ZeroLevel
<1>3. ZeroTyped(2)
  <2>1. 2 \in Depths /\ 2 - 1 = 1
    BY DEF Depths
  <2> QED BY <1>2, <2>1, ZeroLevel
<1> QED BY <1>1, <1>2, <1>3 DEF Depths

-----------------------------------------------------------------------------
(* The decoders by depth.                                                  *)
InnerAt(d, of, data, old) ==
    IF d = 0 THEN Fail("depth")
    ELSE IF d = 1 THEN Unmarshal0(of, data, old) ELSE Unmarshal1(of, data, old)

DecodeAt(d, R, b, m) ==
    IF d = 0 THEN Unmarshal0(R, b, m)
    ELSE IF d = 1 THEN Unmarshal1(R, b, m) ELSE UnmarshalInto(R, b, m, Unmarshal1)

NewAt(d, f, old, data) == Store(f, old, data, InnerAt(d, f.of, data, Target(f, old)))

StepAt(d, R, b, st) ==
    UnmarshalStep(R, b, st, LAMBDA of, data, old : InnerAt(d, of, data, old))

\* The decoder of embedded messages is the one of the depth below.
LEMMA InnerIs ==
    \A d \in Depths : d > 0 => \A of, data, old : InnerAt(d, of, data, old) = DecodeAt(d - 1, of, data, old)
<1> TAKE d \in Depths
<1> HAVE d > 0
<1> TAKE of, data, old
<1>1. CASE d = 1
  BY <1>1 DEF InnerAt, DecodeAt
<1>2. CASE d = 2
  BY <1>2 DEF InnerAt, DecodeAt
<1> QED BY <1>1, <1>2 DEF Depths

\* What a decoder returns.
ResultFacts(d, R, b, r) ==
    /\ r.err \in {"ok"} \cup Errors
    /\ r.err = "ok" => r = Ok(r.val, Len(b)) /\ r.val \in MsgsAt(d, R)
    /\ r.err # "ok" => r = Fail(r.err)

DecodeTyped(d) ==
    \A R : IsReader(d, R) =>
        \A b \in Slices : \A m \in MsgsAt(d, R) : ResultFacts(d, R, b, DecodeAt(d, R, b, m))

IsReadable(f, data) ==
    IF f.kind = "uint32" THEN data \in Nat /\ data < Int32Size ELSE data \in Slices

NewFacts(d, f, old, data) ==
    LET n == NewAt(d, f, old, data)
    IN  /\ n.err \in {"ok"} \cup Errors
        /\ n.err = "ok" => n.val \in ValuesOf(f, Below(d, f))
        /\ n.err # "ok" => n = Fail(n.err)

\* What it returns, given the theorem below about that depth.
LEMMA InnerType ==
    ASSUME NEW d \in Depths, d > 0 => DecodeTyped(d - 1),
           NEW R, ReaderFacts(d, R), NEW num \in 1..Len(R), Nested(R[num]),
           NEW data \in Slices,
           NEW old \in ValuesOf(R[num], Below(d, R[num]))
    PROVE  ResultFacts(d - 1, R[num].of, data, InnerAt(d, R[num].of, data, Target(R[num], old)))
<1>1. d > 0 /\ d - 1 \in Depths /\ IsReader(d - 1, R[num].of)
  BY DEF ReaderFacts
<1>2. Target(R[num], old) \in MsgsAt(d - 1, R[num].of)
  <2>1. Below(d, R[num]) = MsgsAt(d - 1, R[num].of)
    BY <1>1 DEF Below
  <2>2. CASE R[num].kind = "repeated"
    <3>1. Zero(R[num].of) \in MsgsAt(d - 1, R[num].of)
      BY <1>1, ZeroType DEF ZeroTyped
    <3> QED BY <2>2, <3>1 DEF Target
  <2>3. CASE R[num].kind = "message"
    BY <2>1, <2>3 DEF Target, ValuesOf
  <2> QED BY <2>2, <2>3 DEF Nested
<1>3. DecodeTyped(d - 1)
  BY <1>1
<1>4. ResultFacts(d - 1, R[num].of, data, DecodeAt(d - 1, R[num].of, data, Target(R[num], old)))
  BY <1>1, <1>2, <1>3 DEF DecodeTyped
<1> QED BY <1>1, <1>4, InnerIs

\* The new value of a field has its type, or there is an error.
LEMMA NewType ==
    ASSUME NEW d \in Depths, d > 0 => DecodeTyped(d - 1),
           NEW R, ReaderFacts(d, R), NEW num \in 1..Len(R),
           NEW data, IsReadable(R[num], data),
           NEW old \in ValuesOf(R[num], Below(d, R[num]))
    PROVE  NewFacts(d, R[num], old, data)
<1> DEFINE f == R[num]
           inner == InnerAt(d, f.of, data, Target(f, old))
           n == NewAt(d, f, old, data)
<1>0. f.kind \in Kinds
  <2>1. IsTable(R)
    BY DEF ReaderFacts
  <2> QED BY <2>1 DEF IsTable
<1>1. n = Store(f, old, data, inner)
  BY DEF NewAt
<1>2. Nested(f) => ResultFacts(d - 1, f.of, data, inner) /\ Below(d, f) = MsgsAt(d - 1, f.of)
  <2> HAVE Nested(f)
  <2>1. data \in Slices
    BY DEF IsReadable, Nested
  <2>2. d > 0
    BY DEF ReaderFacts
  <2> QED BY <2>1, <2>2, InnerType DEF Below
<1> HIDE DEF inner
<1>3. \A x, y : Ok(x, y).err = "ok" /\ Ok(x, y).val = x
  BY DEF Ok
<1>4. \A e : Fail(e).err = e
  BY DEF Fail
<1>5. CASE f.kind = "string"
  <2>1. n = Ok(data, 0) /\ data \in Slices
    BY <1>1, <1>5 DEF Store, IsReadable
  <2>2. data \in ValuesOf(f, Below(d, f))
    BY <1>5, <2>1 DEF ValuesOf
  <2> HIDE DEF n, f
  <2> QED BY <1>3, <2>1, <2>2 DEF NewFacts, n, f
<1>6. CASE f.kind = "uint32"
  <2>1. n = Ok(data, 0) /\ data \in Nat /\ data < Int32Size
    BY <1>1, <1>6 DEF Store, IsReadable, StoreUint32
  <2>2. data \in ValuesOf(f, Below(d, f))
    BY <1>6, <2>1, Widths DEF ValuesOf
  <2> HIDE DEF n, f
  <2> QED BY <1>3, <2>1, <2>2 DEF NewFacts, n, f
<1>7. CASE f.kind = "int"
  <2>1. n = IntUnmarshal(old, data) /\ data \in Slices
    BY <1>1, <1>7 DEF Store, IsReadable
  <2>2. old \in DigitTexts /\ ValuesOf(f, Below(d, f)) = DigitTexts
    BY <1>7 DEF ValuesOf
  <2>3. CASE data = <<>>
    <3>1. n = Ok(old, 0)
      BY <2>1, <2>3 DEF IntUnmarshal
    <3> HIDE DEF n, f
    <3> QED BY <1>3, <2>2, <3>1 DEF NewFacts, n, f
  <2>4. CASE data # <<>> /\ \A i \in 1..Len(data) : data[i] \in 48..57
    <3>1. n = Ok(data, 0)
      BY <2>1, <2>4 DEF IntUnmarshal
    <3>2. data \in DigitTexts
      BY <2>1, <2>4 DEF DigitTexts
    <3> HIDE DEF n, f
    <3> QED BY <1>3, <2>2, <3>1, <3>2 DEF NewFacts, n, f
  <2>5. CASE data # <<>> /\ ~\A i \in 1..Len(data) : data[i] \in 48..57
    <3>1. n = Fail("int")
      BY <2>1, <2>5 DEF IntUnmarshal
    <3> HIDE DEF n, f
    <3>2. n.err = "int" /\ n.err \in Errors
      BY <1>4, <3>1 DEF Errors
    <3> QED BY <3>1, <3>2 DEF NewFacts, n, f
  <2> QED BY <2>3, <2>4, <2>5
<1>8. CASE f.kind = "message"
  <2>1. n = inner
    BY <1>1, <1>8 DEF Store
  <2>2. ValuesOf(f, Below(d, f)) = MsgsAt(d - 1, f.of)
    BY <1>2, <1>8 DEF ValuesOf, Nested
  <2>3. ResultFacts(d - 1, f.of, data, inner)
    BY <1>2, <1>8 DEF Nested
  <2> HIDE DEF n, f
  <2> QED BY <2>1, <2>2, <2>3 DEF NewFacts, n, f, ResultFacts
<1>9. CASE f.kind = "repeated"
  <2>1. n = IF inner.err # "ok" THEN inner ELSE Ok(Append(old, inner.val), 0)
    BY <1>1, <1>9 DEF Store
  <2>2. ValuesOf(f, Below(d, f)) = Seq(MsgsAt(d - 1, f.of))
    BY <1>2, <1>9 DEF ValuesOf, Nested
  <2>3. ResultFacts(d - 1, f.of, data, inner)
    BY <1>2, <1>9 DEF Nested
  <2>4. CASE inner.err # "ok"
    <3> HIDE DEF n, f
    <3> QED BY <2>1, <2>3, <2>4 DEF NewFacts, n, f, ResultFacts
  <2>5. CASE inner.err = "ok"
    <3>1. inner.val \in MsgsAt(d - 1, f.of)
      BY <2>3, <2>5 DEF ResultFacts
    <3>2. old \in Seq(MsgsAt(d - 1, f.of))
      BY <2>2
    <3>3. Append(old, inner.val) \in Seq(MsgsAt(d - 1, f.of))
      BY <3>1, <3>2
    <3>4. n = Ok(Append(old, inner.val), 0)
      BY <2>1, <2>5
    <3>5. Append(old, inner.val) \in ValuesOf(f, Below(d, f))
      BY <2>2, <3>3, Zenon
    <3> HIDE DEF n, f
    <3> QED BY <1>3, <3>4, <3>5 DEF NewFacts, n, f
  <2> QED BY <2>4, <2>5
<1> QED BY <1>0, <1>5, <1>6, <1>7, <1>8, <1>9 DEF Kinds

\* The states of the loop of Unmarshal.
States(d, R, b) ==
    {st \in [err : {"more", "ok"} \cup Errors, val : MsgsAt(d, R) \cup {0}, next : Nat] :
        /\ st.err \in {"more", "ok"} => st.val \in MsgsAt(d, R) /\ st.next <= Len(b)
        /\ st.err = "ok" => st.next = Len(b)
        /\ st.err \in Errors => st = Fail(st.err)}

\* The states of the loop.
LEMMA StatesAre ==
    \A d, R, b :
        /\ \A v \in MsgsAt(d, R) : \A n \in Nat : n <= Len(b) => More(v, n) \in States(d, R, b)
        /\ \A v \in MsgsAt(d, R) : \A n \in Nat : n = Len(b) => Ok(v, n) \in States(d, R, b)
        /\ \A e \in Errors : Fail(e) \in States(d, R, b)
<1> TAKE d, R, b
<1>1. ASSUME NEW v \in MsgsAt(d, R), NEW n \in Nat, n <= Len(b) PROVE More(v, n) \in States(d, R, b)
  BY <1>1 DEF States, More, Errors
<1>2. ASSUME NEW v \in MsgsAt(d, R), NEW n \in Nat, n = Len(b) PROVE Ok(v, n) \in States(d, R, b)
  <2>1. n <= Len(b)
    BY <1>2
  <2> QED BY <1>2, <2>1 DEF States, Ok, Errors
<1>3. ASSUME NEW e \in Errors PROVE Fail(e) \in States(d, R, b)
  <2>1. e \notin {"more", "ok"}
    BY <1>3 DEF Errors
  <2> QED BY <1>3, <2>1 DEF States, Fail
<1> QED BY <1>1, <1>2, <1>3

\* One iteration, in which the next entry is read.
StepCases(d, R, b, st) ==
    LET entry == ReadEntry(R, b, st.next)
        num   == entry.val.num
        new   == NewAt(d, R[num], st.val[num], entry.val.data)
        s     == StepAt(d, R, b, st)
    IN  /\ st.next >= Len(b) => s = IF st.next > Len(b) THEN Fail("eof") ELSE Ok(st.val, st.next)
        /\ ~(st.next >= Len(b)) =>
              /\ entry.err # "ok" => s = entry
              /\ entry.err = "ok" /\ num = 0 => s = More(st.val, entry.next)
              /\ entry.err = "ok" /\ num # 0 /\ new.err # "ok" => s = new
              /\ entry.err = "ok" /\ num # 0 /\ new.err = "ok" =>
                    s = More([st.val EXCEPT ![num] = new.val], entry.next)

\* Each case of one iteration of Unmarshal.
LEMMA StepIs == \A d, R, b, st : StepCases(d, R, b, st)
<1> TAKE d, R, b, st
<1> DEFINE entry == ReadEntry(R, b, st.next)
           num   == entry.val.num
           new   == NewAt(d, R[num], st.val[num], entry.val.data)
           s     == StepAt(d, R, b, st)
           up    == [st.val EXCEPT ![num] = new.val]
<1>1. s = IF st.next >= Len(b)
          THEN IF st.next > Len(b) THEN Fail("eof") ELSE Ok(st.val, st.next)
          ELSE IF entry.err # "ok" THEN entry
          ELSE IF num = 0 THEN More(st.val, entry.next)
          ELSE IF new.err # "ok" THEN new
          ELSE More(up, entry.next)
  BY DEF StepAt, UnmarshalStep, StoreEntry, SetField, NewAt
<1>2. StepCases(d, R, b, st) <=>
        /\ st.next >= Len(b) => s = IF st.next > Len(b) THEN Fail("eof") ELSE Ok(st.val, st.next)
        /\ ~(st.next >= Len(b)) =>
              /\ entry.err # "ok" => s = entry
              /\ entry.err = "ok" /\ num = 0 => s = More(st.val, entry.next)
              /\ entry.err = "ok" /\ num # 0 /\ new.err # "ok" => s = new
              /\ entry.err = "ok" /\ num # 0 /\ new.err = "ok" => s = More(up, entry.next)
  BY DEF StepCases
<1> HIDE DEF entry, num, new, s, up
<1> QED BY <1>1, <1>2

\* One iteration stays within the message and its input, and advances.
LEMMA StepType ==
    ASSUME NEW d \in Depths, d > 0 => DecodeTyped(d - 1), NEW R, ReaderFacts(d, R),
           NEW b \in Slices, NEW st \in States(d, R, b), st.err = "more"
    PROVE  /\ StepAt(d, R, b, st) \in States(d, R, b)
           /\ StepAt(d, R, b, st).err = "more" =>
                 st.next < Len(b) /\ StepAt(d, R, b, st).next > st.next
<1> DEFINE entry == ReadEntry(R, b, st.next)
           num   == entry.val.num
           new   == NewAt(d, R[num], st.val[num], entry.val.data)
           s     == StepAt(d, R, b, st)
           up    == [st.val EXCEPT ![num] = new.val]
<1>0. st.val \in MsgsAt(d, R) /\ st.next \in Nat /\ st.next <= Len(b) /\ Len(b) \in Nat
  BY SlicesAre DEF States
<1>1. /\ st.next >= Len(b) => s = IF st.next > Len(b) THEN Fail("eof") ELSE Ok(st.val, st.next)
      /\ ~(st.next >= Len(b)) =>
            /\ entry.err # "ok" => s = entry
            /\ entry.err = "ok" /\ num = 0 => s = More(st.val, entry.next)
            /\ entry.err = "ok" /\ num # 0 /\ new.err # "ok" => s = new
            /\ entry.err = "ok" /\ num # 0 /\ new.err = "ok" => s = More(up, entry.next)
  BY StepIs DEF StepCases
<1>2. EntryFacts(R, b, st.next)
  <2>1. IsTable(R)
    BY DEF ReaderFacts
  <2> QED BY <1>0, <2>1, EntryReading
<1>3. /\ entry.err \in {"ok"} \cup Errors
      /\ entry.err # "ok" => entry = Fail(entry.err)
      /\ entry.err = "ok" =>
            /\ entry.next \in Nat /\ st.next < entry.next /\ entry.next <= Len(b)
            /\ num \in 0..Len(R)
            /\ num > 0 => IF R[num].kind = "uint32"
                          THEN entry.val.data \in Nat /\ entry.val.data < Int32Size
                          ELSE entry.val.data \in Slices
  BY <1>2 DEF EntryFacts
<1> DEFINE data == entry.val.data
<1> HIDE DEF entry, num, s, data
<1>4. ASSUME entry.err = "ok", num # 0 PROVE num \in 1..Len(R) /\ NewFacts(d, R[num], st.val[num], data)
  <2>1. num \in 1..Len(R) /\ IsReadable(R[num], data)
    <3>1. Len(R) \in Nat
      BY DEF ReaderFacts, IsTable
    <3> QED BY <1>3, <1>4, <3>1 DEF IsReadable, data
  <2>2. st.val[num] \in ValuesOf(R[num], Below(d, R[num]))
    <3>1. IsMsg(d, R, st.val)
      BY <1>0, MsgsOfAre
    <3> QED BY <2>1, <3>1 DEF IsMsg
  <2> QED BY <2>1, <2>2, NewType
<1>5. ASSUME entry.err = "ok", num # 0
      PROVE  /\ num \in 1..Len(R)
             /\ new.err \in {"ok"} \cup Errors
             /\ new.err = "ok" => new.val \in ValuesOf(R[num], Below(d, R[num]))
             /\ new.err # "ok" => new = Fail(new.err)
  BY <1>4, <1>5 DEF NewFacts, data
<1> HIDE DEF new
<1>6. ASSUME entry.err = "ok", num # 0, new.err = "ok" PROVE up \in MsgsAt(d, R)
  BY <1>0, <1>5, <1>6, MsgsUpdate
<1> HIDE DEF up
<1>7. /\ \A v, n : More(v, n).err = "more" /\ More(v, n).next = n /\ Ok(v, n).err = "ok"
      /\ "eof" \in Errors /\ "more" \notin Errors /\ "ok" \notin Errors /\ \A e : Fail(e).err = e
  BY DEF More, Ok, Fail, Errors
<1> SUFFICES s \in States(d, R, b) /\ (s.err = "more" => st.next < Len(b) /\ s.next > st.next)
  BY DEF s
<1>8. CASE st.next >= Len(b)
  <2>1. s = Ok(st.val, st.next) /\ st.next = Len(b)
    BY <1>0, <1>1, <1>8
  <2> QED BY <1>0, <1>7, <2>1, StatesAre
<1>9. CASE ~(st.next >= Len(b)) /\ entry.err # "ok"
  <2>1. s = Fail(entry.err) /\ entry.err \in Errors
    BY <1>1, <1>3, <1>9
  <2> QED BY <1>7, <2>1, StatesAre
<1>10. CASE ~(st.next >= Len(b)) /\ entry.err = "ok" /\ num = 0
  <2>1. s = More(st.val, entry.next) /\ entry.next \in Nat /\ entry.next <= Len(b)
        /\ st.next < entry.next /\ st.next < Len(b)
    BY <1>0, <1>1, <1>3, <1>10
  <2> QED BY <1>0, <1>7, <2>1, StatesAre
<1>11. CASE ~(st.next >= Len(b)) /\ entry.err = "ok" /\ num # 0 /\ new.err # "ok"
  <2>1. s = Fail(new.err) /\ new.err \in Errors
    BY <1>1, <1>5, <1>11
  <2> QED BY <1>7, <2>1, StatesAre
<1>12. CASE ~(st.next >= Len(b)) /\ entry.err = "ok" /\ num # 0 /\ new.err = "ok"
  <2>1. s = More(up, entry.next) /\ entry.next \in Nat /\ entry.next <= Len(b)
        /\ st.next < entry.next /\ st.next < Len(b) /\ up \in MsgsAt(d, R)
    BY <1>0, <1>1, <1>3, <1>6, <1>12
  <2> QED BY <1>0, <1>7, <2>1, StatesAre
<1> QED BY <1>8, <1>9, <1>10, <1>11, <1>12

\* The run of a decoder, as the recursion of Loop defines it.
ChainAt(d, R, b, m, r, k) ==
    IF k = 0 THEN More(m, 0)
    ELSE IF r[k - 1].err = "more" THEN StepAt(d, R, b, r[k - 1]) ELSE r[k - 1]

IsChain(d, R, b, m, r) == r = [k \in Nat |-> ChainAt(d, R, b, m, r, k)]

\* The iterations of Unmarshal from a message on.
LEMMA ChainExists ==
    ASSUME NEW d \in Depths, d > 0 => DecodeTyped(d - 1), NEW R, ReaderFacts(d, R),
           NEW b \in Slices, NEW m \in MsgsAt(d, R)
    PROVE  \E r : IsChain(d, R, b, m, r)
<1> DEFINE S == States(d, R, b)
           a == More(m, 0)
           F(st) == IF st.err = "more" THEN StepAt(d, R, b, st) ELSE st
           h == [st \in S |-> F(st)]
<1>1. a \in S
  BY StatesAre, SlicesAre
<1>2. h \in [S -> S]
  <2>1. \A st \in S : F(st) \in S
    BY StepType
  <2> HIDE DEF S, F
  <2> QED BY <2>1
<1>3. PICK f : f \in [Nat -> S] /\ f[0] = a /\ \A n \in Nat : f[n + 1] = h[f[n]]
  <2> HIDE DEF S, a, h
  <2>1. \E f : IsIteration(f, S, a, h)
    BY <1>1, <1>2, Iterates
  <2> QED BY <2>1 DEF IsIteration
<1>4. \A n \in Nat : f[n] \in S /\ f[n + 1] = F(f[n])
  <2> HIDE DEF S, a, F
  <2> QED BY <1>3
<1>5. ASSUME NEW k \in Nat PROVE f[k] = ChainAt(d, R, b, m, f, k)
  <2>1. CASE k = 0
    BY <1>3, <2>1 DEF ChainAt
  <2>2. CASE k # 0
    <3>1. k - 1 \in Nat /\ (k - 1) + 1 = k
      BY <2>2
    <3>2. f[k] = F(f[k - 1])
      <4> HIDE DEF F
      <4> QED BY <1>4, <3>1
    <3> QED BY <2>2, <3>2 DEF ChainAt
  <2> QED BY <2>1, <2>2
<1>6. f = [k \in Nat |-> f[k]]
  BY <1>3
<1>7. IsChain(d, R, b, m, f)
  BY <1>5, <1>6 DEF IsChain
<1> QED BY <1>7

\* Each of the three decoders is such a run.
LEMMA ChainIsDecode ==
    ASSUME NEW d \in Depths, NEW R, NEW b, NEW m, NEW f, IsChain(d, R, b, m, f)
    PROVE  \E r : IsChain(d, R, b, m, r) /\ DecodeAt(d, R, b, m) = Ended(r, Len(b) + 1)
<1> DEFINE E(r, k) == ChainAt(d, R, b, m, r, k)
<1>0. f = [k \in Nat |-> E(f, k)]
  BY DEF IsChain
<1>1. CASE d = 0
  <2> DEFINE Step(st) == UnmarshalStep(R, b, st, LAMBDA of, data, old : Fail("depth"))
             G(r, k) == IF k = 0 THEN More(m, 0)
                        ELSE IF r[k - 1].err = "more" THEN Step(r[k - 1]) ELSE r[k - 1]
             r == CHOOSE r : r = [k \in Nat |-> G(r, k)]
  <2>1. DecodeAt(d, R, b, m) = Ended(r, Len(b) + 1)
    BY <1>1 DEF DecodeAt, Unmarshal0, UnmarshalInto, UnmarshalStep, StoreEntry, SetField, Loop, Ended
  <2>2. \A st : Step(st) = StepAt(d, R, b, st)
    BY <1>1 DEF StepAt, UnmarshalStep, StoreEntry, SetField, InnerAt
  <2> HIDE DEF Step
  <2>3. \A g : \A k \in Nat : G(g, k) = E(g, k)
    BY <2>2 DEF ChainAt
  <2> HIDE DEF G, E
  <2>4. f = [k \in Nat |-> G(f, k)]
    BY <1>0, <2>3
  <2>5. r = [k \in Nat |-> G(r, k)]
    BY <2>4
  <2> HIDE DEF r
  <2>6. r = [k \in Nat |-> E(r, k)]
    BY <2>3, <2>5
  <2> QED BY <2>1, <2>6 DEF E, IsChain
<1>2. CASE d = 1
  <2> DEFINE Step(st) == UnmarshalStep(R, b, st, Unmarshal0)
             G(r, k) == IF k = 0 THEN More(m, 0)
                        ELSE IF r[k - 1].err = "more" THEN Step(r[k - 1]) ELSE r[k - 1]
             r == CHOOSE r : r = [k \in Nat |-> G(r, k)]
  <2>1. DecodeAt(d, R, b, m) = Ended(r, Len(b) + 1)
    BY <1>2 DEF DecodeAt, Unmarshal1, UnmarshalInto, UnmarshalStep, StoreEntry, SetField, Loop, Ended
  <2>2. \A st : Step(st) = StepAt(d, R, b, st)
    BY <1>2 DEF StepAt, UnmarshalStep, StoreEntry, SetField, InnerAt
  <2> HIDE DEF Step
  <2>3. \A g : \A k \in Nat : G(g, k) = E(g, k)
    BY <2>2 DEF ChainAt
  <2> HIDE DEF G, E
  <2>4. f = [k \in Nat |-> G(f, k)]
    BY <1>0, <2>3
  <2>5. r = [k \in Nat |-> G(r, k)]
    BY <2>4
  <2> HIDE DEF r
  <2>6. r = [k \in Nat |-> E(r, k)]
    BY <2>3, <2>5
  <2> QED BY <2>1, <2>6 DEF E, IsChain
<1>3. CASE d = 2
  <2> DEFINE Step(st) == UnmarshalStep(R, b, st, Unmarshal1)
             G(r, k) == IF k = 0 THEN More(m, 0)
                        ELSE IF r[k - 1].err = "more" THEN Step(r[k - 1]) ELSE r[k - 1]
             r == CHOOSE r : r = [k \in Nat |-> G(r, k)]
  <2>1. DecodeAt(d, R, b, m) = Ended(r, Len(b) + 1)
    BY <1>3 DEF DecodeAt, UnmarshalInto, UnmarshalStep, StoreEntry, SetField, Loop, Ended
  <2>2. \A st : Step(st) = StepAt(d, R, b, st)
    BY <1>3 DEF StepAt, UnmarshalStep, StoreEntry, SetField, InnerAt
  <2> HIDE DEF Step
  <2>3. \A g : \A k \in Nat : G(g, k) = E(g, k)
    BY <2>2 DEF ChainAt
  <2> HIDE DEF G, E
  <2>4. f = [k \in Nat |-> G(f, k)]
    BY <1>0, <2>3
  <2>5. r = [k \in Nat |-> G(r, k)]
    BY <2>4
  <2> HIDE DEF r
  <2>6. r = [k \in Nat |-> E(r, k)]
    BY <2>3, <2>5
  <2> QED BY <2>1, <2>6 DEF E, IsChain
<1> QED BY <1>1, <1>2, <1>3 DEF Depths

IsRun(d, R, b, m, r) ==
    /\ \A k \in Nat : r[k] \in States(d, R, b)
    /\ r[0] = More(m, 0)
    /\ \A k \in Nat : r[k].err = "more" => r[k + 1] = StepAt(d, R, b, r[k])
    /\ \A k \in Nat : r[k].err # "more" => r[k + 1] = r[k]
    /\ \A k \in Nat : r[k].err # "more" => DecodeAt(d, R, b, m) = r[k]
    /\ \E k \in Nat : r[k].err # "more"

\* The loop of Unmarshal has a run, and it ends.
LEMMA DecodeRun ==
    ASSUME NEW d \in Depths, d > 0 => DecodeTyped(d - 1), NEW R, ReaderFacts(d, R),
           NEW b \in Slices, NEW m \in MsgsAt(d, R)
    PROVE  \E r : IsRun(d, R, b, m, r)
<1> DEFINE S == States(d, R, b)
           n == Len(b) + 1
<1>0. Len(b) \in Nat /\ n \in Nat
  BY SlicesAre
<1>1. PICK r : IsChain(d, R, b, m, r) /\ DecodeAt(d, R, b, m) = Ended(r, n)
  BY ChainExists, ChainIsDecode
<1>2. \A k \in Nat : r[k] = ChainAt(d, R, b, m, r, k)
  BY <1>1 DEF IsChain
<1>3. r[0] = More(m, 0)
  BY <1>2 DEF ChainAt
<1>4. /\ \A k \in Nat : r[k].err = "more" => r[k + 1] = StepAt(d, R, b, r[k])
      /\ \A k \in Nat : r[k].err # "more" => r[k + 1] = r[k]
  <2>1. ASSUME NEW k \in Nat PROVE r[k + 1] = IF r[k].err = "more" THEN StepAt(d, R, b, r[k]) ELSE r[k]
    <3>1. k + 1 \in Nat /\ k + 1 # 0 /\ (k + 1) - 1 = k
      OBVIOUS
    <3>2. r[k + 1] = ChainAt(d, R, b, m, r, k + 1)
      BY <1>2, <3>1
    <3> QED BY <3>1, <3>2 DEF ChainAt
  <2> QED BY <2>1
<1>5. \A k \in Nat : r[k] \in S
  <2> DEFINE X == {k \in Nat : r[k] \in S}
  <2>1. 0 \in X
    BY <1>0, <1>3, StatesAre
  <2>2. ASSUME NEW k \in Nat, k \in X PROVE k + 1 \in X
    <3>1. r[k + 1] \in S
      <4>1. CASE r[k].err = "more"
        BY <1>4, <2>2, <4>1, StepType
      <4>2. CASE r[k].err # "more"
        BY <1>4, <2>2, <4>2
      <4> QED BY <4>1, <4>2
    <3> HIDE DEF S
    <3> QED BY <3>1
  <2>3. \A k \in Nat : k \in X
    <3> HIDE DEF X
    <3> QED BY <2>1, <2>2, NatSetInduction
  <2> QED BY <2>3
<1>6. \A k \in Nat : r[k].err = "more" => r[k].next \in Nat /\ r[k].next <= Len(b)
  BY <1>5 DEF States
<1>7. \A k \in Nat : r[k].err = "more" /\ r[k + 1].err = "more" => r[k + 1].next > r[k].next
  BY <1>4, <1>5, StepType
<1>8. r[0].next = 0
  BY <1>3 DEF More
<1>9. \A k \in Nat : r[k].err = "more" => r[k].next >= k
  BY <1>4, <1>6, <1>7, <1>8, RunAdvances
<1>10. r[n].err # "more"
  <2>1. r[n].err = "more" => r[n].next >= n /\ r[n].next <= Len(b) /\ r[n].next \in Nat
    BY <1>0, <1>6, <1>9
  <2> QED BY <1>0, <2>1
<1> HIDE DEF n
<1>11. ASSUME NEW k \in Nat, r[k].err # "more" PROVE DecodeAt(d, R, b, m) = r[k]
  <2>1. Ended(r, n) = r[n]
    BY <1>0, <1>4, <1>10, RunLast
  <2>2. r[n] = r[k]
    <3>1. CASE n >= k
      BY <1>0, <1>4, <1>11, <3>1, RunStays
    <3>2. CASE k >= n
      BY <1>0, <1>4, <1>10, <3>2, RunStays
    <3> QED BY <1>0, <3>1, <3>2
  <2> QED BY <1>1, <2>1, <2>2
<1> HIDE DEF S
<1>12. IsRun(d, R, b, m, r)
  BY <1>0, <1>3, <1>4, <1>5, <1>10, <1>11 DEF IsRun, S
<1> QED BY <1>12

\* From one depth to the next: decoders end and keep their types.
LEMMA DecodeLevel ==
    ASSUME NEW d \in Depths, d > 0 => DecodeTyped(d - 1)
    PROVE  DecodeTyped(d)
<1> SUFFICES ASSUME NEW R, IsReader(d, R), NEW b \in Slices, NEW m \in MsgsAt(d, R)
             PROVE  ResultFacts(d, R, b, DecodeAt(d, R, b, m))
  BY DEF DecodeTyped
<1>1. PICK r : IsRun(d, R, b, m, r)
  BY ReaderIs, DecodeRun
<1>2. PICK k \in Nat : r[k].err # "more" /\ DecodeAt(d, R, b, m) = r[k] /\ r[k] \in States(d, R, b)
  BY <1>1 DEF IsRun
<1> DEFINE s == r[k]
<1>3. ResultFacts(d, R, b, s)
  <2>1. s \in States(d, R, b) /\ s.err # "more"
    BY <1>2
  <2> HIDE DEF s
  <2>2. s.err \in {"ok"} \cup Errors
    BY <2>1 DEF States
  <2>3. CASE s.err = "ok"
    <3>1. s.val \in MsgsAt(d, R) /\ s.next = Len(b)
      BY <2>1, <2>3 DEF States
    <3>2. s = [err |-> s.err, val |-> s.val, next |-> s.next]
      BY <2>1 DEF States
    <3>3. s = Ok(s.val, Len(b))
      BY <2>3, <3>1, <3>2 DEF Ok
    <3> QED BY <2>3, <3>1, <3>3 DEF ResultFacts
  <2>4. CASE s.err # "ok"
    BY <2>1, <2>2, <2>4 DEF States, ResultFacts
  <2> QED BY <2>3, <2>4
<1> QED BY <1>2, <1>3

\* Every decoder ends, with a message of its type or an error.
LEMMA DecodeType == \A d \in Depths : DecodeTyped(d)
<1>1. DecodeTyped(0)
  BY DecodeLevel DEF Depths
<1>2. DecodeTyped(1)
  <2>1. 1 \in Depths /\ 1 - 1 = 0
    BY DEF Depths
  <2> QED BY <1>1, <2>1, DecodeLevel
<1>3. DecodeTyped(2)
  <2>1. 2 \in Depths /\ 2 - 1 = 1
    BY DEF Depths
  <2> QED BY <1>2, <2>1, DecodeLevel
<1> QED BY <1>1, <1>2, <1>3 DEF Depths

\* The same one depth below.
LEMMA DecodeTypeBelow == \A d \in Depths : d > 0 => DecodeTyped(d - 1)
<1> TAKE d \in Depths
<1>1. d > 0 => d - 1 \in Depths
  BY DEF Depths
<1> QED BY <1>1, DecodeType

\* A decoder that reads b has come to st.
Reaches(d, R, b, m, st) ==
    /\ st \in States(d, R, b)
    /\ \E r : \E k \in Nat : IsRun(d, R, b, m, r) /\ r[k] = st

\* A decoder starts with the message it is given.
LEMMA ReachesStart ==
    ASSUME NEW d \in Depths, NEW R, IsReader(d, R), NEW b \in Slices, NEW m \in MsgsAt(d, R)
    PROVE  Reaches(d, R, b, m, More(m, 0))
<1>1. PICK r : IsRun(d, R, b, m, r)
  BY DecodeTypeBelow, ReaderIs, DecodeRun
<1>2. r[0] = More(m, 0) /\ r[0] \in States(d, R, b)
  BY <1>1 DEF IsRun
<1> QED BY <1>1, <1>2 DEF Reaches

\* A decoder goes on step by step until it ends.
LEMMA ReachesNext ==
    ASSUME NEW d, NEW R, NEW b, NEW m, NEW st, Reaches(d, R, b, m, st)
    PROVE  /\ st.err = "more" => Reaches(d, R, b, m, StepAt(d, R, b, st))
           /\ st.err # "more" => DecodeAt(d, R, b, m) = st
<1>1. PICK r, k : k \in Nat /\ IsRun(d, R, b, m, r) /\ r[k] = st
  BY DEF Reaches
<1>2. ASSUME st.err = "more" PROVE Reaches(d, R, b, m, StepAt(d, R, b, st))
  <2>1. r[k + 1] = StepAt(d, R, b, st) /\ r[k + 1] \in States(d, R, b) /\ k + 1 \in Nat
    BY <1>1, <1>2 DEF IsRun
  <2> QED BY <1>1, <2>1 DEF Reaches
<1>3. ASSUME st.err # "more" PROVE DecodeAt(d, R, b, m) = st
  BY <1>1, <1>3 DEF IsRun
<1> QED BY <1>2, <1>3

\* A step that reads an entry of b does the same when more follows.
LEMMA StepMore ==
    ASSUME NEW d \in Depths, NEW R, IsReader(d, R), NEW b \in Slices, NEW c \in Slices, b \o c \in Slices,
           NEW st \in States(d, R, b), st.err = "more", StepAt(d, R, b, st).err = "more"
    PROVE  StepAt(d, R, b \o c, st) = StepAt(d, R, b, st)
<1>0. ReaderFacts(d, R) /\ IsTable(R)
  BY ReaderIs DEF ReaderFacts
<1>1. st.next \in Nat /\ st.next < Len(b)
  <2>1. st.next \in Nat
    BY DEF States
  <2> QED BY <1>0, <2>1, DecodeTypeBelow, StepType
<1>2. Len(b \o c) = Len(b) + Len(c) /\ Len(b) \in Nat /\ Len(c) \in Nat
  BY Concat, SlicesAre
<1> DEFINE u == b \o c
           entry == ReadEntry(R, b, st.next)
           num   == entry.val.num
           new   == NewAt(d, R[num], st.val[num], entry.val.data)
           s     == StepAt(d, R, b, st)
           up    == [st.val EXCEPT ![num] = new.val]
<1>3. /\ entry.err # "ok" => s = entry
      /\ entry.err = "ok" /\ num = 0 => s = More(st.val, entry.next)
      /\ entry.err = "ok" /\ num # 0 /\ new.err # "ok" => s = new
      /\ entry.err = "ok" /\ num # 0 /\ new.err = "ok" => s = More(up, entry.next)
  <2>1. StepCases(d, R, b, st)
    BY StepIs
  <2>2. ~(st.next >= Len(b))
    BY <1>1, <1>2
  <2> QED BY <2>1, <2>2 DEF StepCases
<1>4. entry.err = "ok"
  <2>1. EntryFacts(R, b, st.next)
    BY <1>0, <1>1, <1>2, EntryReading
  <2>2. entry.err \in {"ok"} \cup Errors /\ "more" \notin Errors
    BY <2>1 DEF EntryFacts, Errors
  <2> QED BY <1>3, <2>2
<1>5. ReadEntry(R, u, st.next) = entry
  BY <1>0, <1>1, <1>2, <1>4, EntryMore
<1>6. /\ entry.err = "ok" /\ num = 0 => StepAt(d, R, u, st) = More(st.val, entry.next)
      /\ entry.err = "ok" /\ num # 0 /\ new.err # "ok" => StepAt(d, R, u, st) = new
      /\ entry.err = "ok" /\ num # 0 /\ new.err = "ok" => StepAt(d, R, u, st) = More(up, entry.next)
  <2> HIDE DEF u
  <2>1. StepCases(d, R, u, st)
    BY StepIs
  <2>2. ~(st.next >= Len(u))
    BY <1>1, <1>2 DEF u
  <2> QED BY <1>5, <2>1, <2>2 DEF StepCases
<1> HIDE DEF entry, num, new, up, s, u
<1>7. s = StepAt(d, R, u, st)
  BY <1>3, <1>4, <1>6
<1> QED BY <1>7 DEF s, u

\* What a decoder has read is not touched by what follows.
LEMMA ReachesMore ==
    ASSUME NEW d \in Depths, NEW R, IsReader(d, R), NEW b \in Slices, NEW c \in Slices, b \o c \in Slices,
           NEW m \in MsgsAt(d, R), DecodeAt(d, R, b, m).err = "ok"
    PROVE  Reaches(d, R, b \o c, m, More(DecodeAt(d, R, b, m).val, Len(b)))
<1>0. ReaderFacts(d, R) /\ (d > 0 => DecodeTyped(d - 1)) /\ Len(b) \in Nat
  BY ReaderIs, DecodeTypeBelow, SlicesAre
<1> DEFINE u == b \o c
<1>1. PICK r, e : IsRun(d, R, b, m, r) /\ IsRun(d, R, u, m, e)
  BY <1>0, DecodeRun
<1> DEFINE X == {k \in Nat : r[k].err = "more" => e[k] = r[k]}
<1>2. 0 \in X
  BY <1>1 DEF IsRun
<1>3. ASSUME NEW k \in Nat, k \in X PROVE k + 1 \in X
  <2>1. ASSUME r[k + 1].err = "more" PROVE e[k + 1] = r[k + 1]
    <3>1. r[k].err = "more"
      BY <1>1, <2>1 DEF IsRun
    <3>2. e[k] = r[k] /\ r[k + 1] = StepAt(d, R, b, r[k]) /\ r[k] \in States(d, R, b)
      BY <1>1, <1>3, <3>1 DEF IsRun
    <3>3. e[k + 1] = StepAt(d, R, u, r[k])
      BY <1>1, <3>1, <3>2 DEF IsRun
    <3>4. StepAt(d, R, b \o c, r[k]) = StepAt(d, R, b, r[k])
      BY <2>1, <3>1, <3>2, StepMore
    <3> QED BY <3>2, <3>3, <3>4
  <2> QED BY <2>1
<1>4. \A k \in Nat : k \in X
  <2> HIDE DEF X
  <2> QED BY <1>2, <1>3, NatSetInduction
<1>5. PICK k \in Nat : r[k].err = "more" /\ r[k + 1].err # "more"
  <2> SUFFICES ASSUME \A k \in Nat : r[k].err = "more" => r[k + 1].err = "more"
               PROVE  FALSE
    OBVIOUS
  <2> DEFINE Y == {k \in Nat : r[k].err = "more"}
  <2>1. 0 \in Y
    BY <1>1 DEF IsRun, More
  <2>2. \A k \in Nat : k \in Y => k + 1 \in Y
    OBVIOUS
  <2>3. \A k \in Nat : k \in Y
    <3> HIDE DEF Y
    <3> QED BY <2>1, <2>2, NatSetInduction
  <2> QED BY <1>1, <2>3 DEF IsRun
<1> DEFINE st == r[k]
           res == DecodeAt(d, R, b, m)
<1>6. res = r[k + 1] /\ r[k + 1] = StepAt(d, R, b, st) /\ st \in States(d, R, b)
  BY <1>1, <1>5 DEF IsRun
<1>7. st.next \in Nat /\ st.next <= Len(b) /\ st.val \in MsgsAt(d, R) /\ st.err = "more"
      /\ st = [err |-> st.err, val |-> st.val, next |-> st.next]
  BY <1>5, <1>6 DEF States
<1>8. st.next >= Len(b)
  <2> SUFFICES ASSUME ~(st.next >= Len(b)) PROVE FALSE
    OBVIOUS
  <2> DEFINE entry == ReadEntry(R, b, st.next)
             num   == entry.val.num
             new   == NewAt(d, R[num], st.val[num], entry.val.data)
             up    == [st.val EXCEPT ![num] = new.val]
  <2>1. /\ entry.err # "ok" => res = entry
        /\ entry.err = "ok" /\ num = 0 => res = More(st.val, entry.next)
        /\ entry.err = "ok" /\ num # 0 /\ new.err # "ok" => res = new
        /\ entry.err = "ok" /\ num # 0 /\ new.err = "ok" => res = More(up, entry.next)
    <3>1. StepCases(d, R, b, st)
      BY StepIs
    <3> QED BY <1>6, <3>1 DEF StepCases
  <2> HIDE DEF entry, num, new, up, st, res
  <2>2. res.err = "ok" /\ res.err # "more"
    BY DEF res
  <2> QED BY <2>1, <2>2 DEF More
<1>9. res = Ok(st.val, st.next) /\ st.next = Len(b)
  <2>1. StepCases(d, R, b, st)
    BY StepIs
  <2>2. res = IF st.next > Len(b) THEN Fail("eof") ELSE Ok(st.val, st.next)
    BY <1>6, <1>8, <2>1 DEF StepCases
  <2>3. ~(st.next > Len(b))
    BY <1>0, <1>7
  <2> HIDE DEF st, res
  <2> QED BY <1>0, <1>7, <1>8, <2>2, <2>3
<1>10. st = More(res.val, Len(b))
  <2> HIDE DEF st, res
  <2>1. res.val = st.val
    BY <1>9 DEF Ok
  <2> QED BY <1>7, <1>9, <2>1 DEF More
<1>11. e[k] = st
  BY <1>4, <1>5
<1>12. e[k] \in States(d, R, u)
  BY <1>1 DEF IsRun
<1> HIDE DEF st, res, u
<1>13. Reaches(d, R, u, m, st)
  BY <1>1, <1>11, <1>12 DEF Reaches
<1> QED BY <1>10, <1>13 DEF res, u

\* Empty input leaves the message as it is.
LEMMA DecodeEmpty ==
    ASSUME NEW d \in Depths, NEW R, IsReader(d, R), NEW m \in MsgsAt(d, R)
    PROVE  DecodeAt(d, R, <<>>, m) = Ok(m, 0)
<1> PICK b, st, zero : b = <<>> /\ zero = 0 /\ st = More(m, zero)
  OBVIOUS
<1>1. b \in Slices /\ Len(b) = zero
  BY SlicesAre
<1>2. Reaches(d, R, b, m, st)
  BY <1>1, ReachesStart
<1>3. st.err = "more" /\ st.next = zero /\ st.val = m
  BY DEF More
<1>4. StepAt(d, R, b, st) = Ok(m, zero)
  <2>1. StepCases(d, R, b, st)
    BY StepIs
  <2>2. st.next >= Len(b) /\ ~(st.next > Len(b))
    BY <1>1, <1>3
  <2> QED BY <1>3, <2>1, <2>2 DEF StepCases
<1>5. Ok(m, zero).err # "more"
  BY DEF Ok
<1>6. Reaches(d, R, b, m, Ok(m, zero))
  BY <1>2, <1>3, <1>4, ReachesNext
<1>7. DecodeAt(d, R, b, m) = Ok(m, zero)
  BY <1>5, <1>6, ReachesNext
<1> QED BY <1>7

\* The step that reads what follows b.
Behind(d, R, u, i, m) ==
    LET entry == ReadEntry(R, u, i)
        num   == entry.val.num
        new   == NewAt(d, R[num], m[num], entry.val.data)
        s     == StepAt(d, R, u, More(m, i))
    IN  /\ entry.err # "ok" => s = entry
        /\ entry.err = "ok" /\ num = 0 => s = More(m, entry.next)
        /\ entry.err = "ok" /\ num # 0 /\ new.err # "ok" => s = new
        /\ entry.err = "ok" /\ num # 0 /\ new.err = "ok" =>
              s = More([m EXCEPT ![num] = new.val], entry.next)

\* Each case of the step that reads what follows.
LEMMA StepBehind ==
    ASSUME NEW d, NEW R, NEW u \in Slices, NEW i \in Nat, i < Len(u), NEW m
    PROVE  Behind(d, R, u, i, m)
<1> PICK st : st = More(m, i)
  OBVIOUS
<1>1. st.next = i /\ st.val = m
  BY DEF More
<1>2. Len(u) \in Nat
  BY SlicesAre
<1>3. ~(st.next >= Len(u))
  BY <1>1, <1>2
<1>4. StepCases(d, R, u, st)
  BY StepIs
<1> QED BY <1>1, <1>3, <1>4 DEF StepCases, Behind

\* At the end of the input a decoder is done.
LEMMA DecodeDone ==
    \A d, R, m, m1 : \A u \in Slices :
        Reaches(d, R, u, m, More(m1, Len(u))) => DecodeAt(d, R, u, m) = Ok(m1, Len(u))
<1> TAKE d, R, m, m1
<1> TAKE u \in Slices
<1> HAVE Reaches(d, R, u, m, More(m1, Len(u)))
<1> PICK st : st = More(m1, Len(u))
  OBVIOUS
<1>1. st.err = "more" /\ st.next = Len(u) /\ st.val = m1 /\ Len(u) \in Nat
  BY SlicesAre DEF More
<1>2. StepAt(d, R, u, st) = Ok(m1, Len(u))
  <2>1. StepCases(d, R, u, st)
    BY StepIs
  <2>2. st.next >= Len(u) /\ ~(st.next > Len(u))
    BY <1>1
  <2> QED BY <1>1, <2>1, <2>2 DEF StepCases
<1>3. Reaches(d, R, u, m, Ok(m1, Len(u)))
  BY <1>1, <1>2, ReachesNext
<1>4. Ok(m1, Len(u)).err # "more"
  BY DEF Ok
<1> QED BY <1>3, <1>4, ReachesNext

\* The effect of one more entry.
Extends(d, R, m, u, m1, num, data) ==
    LET new == NewAt(d, R[num], m1[num], data)
        res == DecodeAt(d, R, u, m)
    IN  /\ num = 0 => res = Ok(m1, Len(u))
        /\ num # 0 /\ new.err = "ok" => res = Ok([m1 EXCEPT ![num] = new.val], Len(u))
        /\ num # 0 /\ new.err # "ok" => res.err # "ok"

\* A decoder that has read b reads one more entry as its effect on the message.
LEMMA DecodeSnoc ==
    ASSUME NEW d \in Depths, NEW R, IsReader(d, R), NEW b \in Slices, NEW e \in Slices,
           NEW u \in Slices, u = b \o e, NEW m \in MsgsAt(d, R),
           NEW m1, DecodeAt(d, R, b, m) = Ok(m1, Len(b)),
           NEW num, NEW data,
           ReadEntry(R, u, Len(b)) = Ok([num |-> num, data |-> data], Len(u))
    PROVE  Extends(d, R, m, u, m1, num, data)
<1>0. Ok(m1, Len(b)).err = "ok" /\ Ok(m1, Len(b)).val = m1
  BY DEF Ok
<1>d. \A x : Reaches(d, R, u, m, More(x, Len(u))) => DecodeAt(d, R, u, m) = Ok(x, Len(u))
  <2> TAKE x
  <2>1. u \in Slices
    OBVIOUS
  <2> QED BY ONLY <2>1, DecodeDone
<1>1. Reaches(d, R, u, m, More(m1, Len(b)))
  <2>1. b \o e \in Slices /\ DecodeAt(d, R, b, m).err = "ok"
    BY <1>0
  <2> QED BY <1>0, <2>1, ReachesMore
<1> DEFINE entry == ReadEntry(R, u, Len(b))
           i == Len(b)
           new == NewAt(d, R[num], m1[num], data)
           up == [m1 EXCEPT ![num] = new.val]
           st == More(m1, Len(b))
           s == StepAt(d, R, u, st)
<1>2. entry.err = "ok" /\ entry.next = Len(u) /\ entry.val.num = num /\ entry.val.data = data
  BY DEF Ok
<1>3. Len(b) \in Nat /\ Len(b) < Len(u)
  <2>1. IsTable(R) /\ Len(b) \in Nat /\ Len(b) <= Len(u)
    <3>1. Len(u) = Len(b) + Len(e) /\ Len(b) \in Nat /\ Len(e) \in Nat
      BY Concat, SlicesAre
    <3>2. IsTable(R)
      BY ReaderIs DEF ReaderFacts
    <3> QED BY <3>1, <3>2
  <2>2. EntryFacts(R, u, Len(b))
    BY <2>1, EntryReading
  <2> QED BY <1>2, <2>1, <2>2 DEF EntryFacts
<1>4. /\ num = 0 => s = More(m1, Len(u))
      /\ num # 0 /\ new.err # "ok" => s = new
      /\ num # 0 /\ new.err = "ok" => s = More(up, Len(u))
  <2>1. Behind(d, R, u, Len(b), m1)
    BY <1>3, StepBehind
  <2> QED BY <1>2, <2>1 DEF Behind
<1>5. st.err = "more"
  BY DEF More
<1>6. Reaches(d, R, u, m, s)
  BY <1>1, <1>5, ReachesNext
<1> HIDE DEF s, up, new
<1>7. num = 0 => DecodeAt(d, R, u, m) = Ok(m1, Len(u))
  <2> HAVE num = 0
  <2>1. Reaches(d, R, u, m, More(m1, Len(u)))
    BY <1>4, <1>6
  <2> QED BY <1>d, <2>1
<1>8. num # 0 /\ new.err = "ok" => DecodeAt(d, R, u, m) = Ok(up, Len(u))
  <2> HAVE num # 0 /\ new.err = "ok"
  <2>1. Reaches(d, R, u, m, More(up, Len(u)))
    BY <1>4, <1>6
  <2> QED BY <1>d, <2>1
<1>9. num # 0 /\ new.err # "ok" => DecodeAt(d, R, u, m).err # "ok"
  <2> HAVE num # 0 /\ new.err # "ok"
  <2>1. s = new
    BY <1>4
  <2>2. CASE s.err # "more"
    BY <1>6, <2>1, <2>2, ReachesNext
  <2>3. CASE s.err = "more"
    <3>1. NewFacts(d, R[num], m1[num], data)
      <4>1. ReaderFacts(d, R) /\ (d > 0 => DecodeTyped(d - 1))
        BY ReaderIs, DecodeTypeBelow
      <4>2. num \in 1..Len(R) /\ IsReadable(R[num], data)
        <5>1. EntryFacts(R, u, Len(b))
          <6>1. IsTable(R) /\ Len(b) <= Len(u)
            BY <1>3, <4>1 DEF ReaderFacts
          <6> QED BY <1>3, <6>1, EntryReading
        <5>2. Len(R) \in Nat
          BY <4>1 DEF ReaderFacts, IsTable
        <5> QED BY <1>2, <5>1, <5>2 DEF EntryFacts, IsReadable
      <4>3. m1[num] \in ValuesOf(R[num], Below(d, R[num]))
        <5>1. ResultFacts(d, R, b, DecodeAt(d, R, b, m))
          BY DecodeType DEF DecodeTyped
        <5>2. m1 \in MsgsAt(d, R)
          BY <1>0, <5>1 DEF ResultFacts
        <5>3. IsMsg(d, R, m1)
          BY <5>2, MsgsOfAre
        <5> QED BY <4>2, <5>3 DEF IsMsg
      <4> QED BY <4>1, <4>2, <4>3, NewType
    <3>2. new.err \in {"ok"} \cup Errors /\ "more" \notin Errors
      BY <3>1 DEF NewFacts, Errors, new
    <3> QED BY <2>1, <2>3, <3>2
  <2> QED BY <2>2, <2>3
<1> QED BY <1>7, <1>8, <1>9 DEF Extends, new, up

\* An entry that cannot be read makes the whole unreadable.
LEMMA DecodeCut ==
    ASSUME NEW d \in Depths, NEW R, IsReader(d, R), NEW b \in Slices, NEW e \in Slices,
           NEW u \in Slices, u = b \o e, NEW m \in MsgsAt(d, R),
           DecodeAt(d, R, b, m).err = "ok", Len(b) < Len(u),
           ReadEntry(R, u, Len(b)).err # "ok"
    PROVE  DecodeAt(d, R, u, m).err # "ok"
<1> PICK m1, i : m1 = DecodeAt(d, R, b, m).val /\ i = Len(b)
  OBVIOUS
<1>0. i \in Nat /\ Len(u) \in Nat
  BY SlicesAre
<1>1. Reaches(d, R, u, m, More(m1, i))
  <2>1. b \o e \in Slices
    OBVIOUS
  <2> QED BY <2>1, ReachesMore
<1> DEFINE entry == ReadEntry(R, u, i)
           s == StepAt(d, R, u, More(m1, i))
<1>2. s = entry
  <2>1. Behind(d, R, u, i, m1)
    BY <1>0, StepBehind
  <2> QED BY <2>1 DEF Behind
<1>3. More(m1, i).err = "more"
  BY DEF More
<1>4. Reaches(d, R, u, m, s)
  BY <1>1, <1>3, ReachesNext
<1>5. s.err # "more"
  <2>1. EntryFacts(R, u, i)
    <3>1. IsTable(R)
      BY ReaderIs DEF ReaderFacts
    <3>2. i <= Len(u)
      BY <1>0
    <3> QED BY <1>0, <3>1, <3>2, EntryReading
  <2>2. entry.err \in {"ok"} \cup Errors /\ "more" \notin Errors
    BY <2>1 DEF EntryFacts, Errors
  <2> QED BY <1>2, <2>2
<1>6. DecodeAt(d, R, u, m) = s
  BY <1>4, <1>5, ReachesNext
<1> QED BY <1>2, <1>6

(* The reference by depth: the writes, their effect and their bytes.       *)
WritesAt(d, R) == IF d = 0 THEN Writes0(R) ELSE IF d = 1 THEN Writes1(R) ELSE Writes(R)
ApplyAt(d, R, m, w) ==
    IF d = 0 THEN Apply0(R, m, w) ELSE IF d = 1 THEN Apply1(R, m, w) ELSE Apply(R, m, w)
WriteBytesAt(d, R, w) ==
    IF d = 0 THEN WriteBytes0(R, w) ELSE IF d = 1 THEN WriteBytes1(R, w) ELSE WriteBytes(R, w)

\* A write into an embedded message, as its value says.
InnerWrites(d, f) == IF d = 0 THEN {} ELSE WritesAt(d - 1, f.of)
MergeAt(d, f, into, val) ==
    IF val = <<>> THEN into ELSE IF d = 0 THEN into ELSE ApplyAt(d - 1, f.of, into, val[1])
ContentAt(d, f, val) ==
    IF ~Nested(f) THEN val
    ELSE IF val = <<>> THEN <<>> ELSE IF d = 0 THEN <<>> ELSE WriteBytesAt(d - 1, f.of, val[1])

IsWritten(d, f, val) ==
    CASE f.kind = "string" -> val \in Strings
      [] f.kind = "int"    -> val \in Ints
      [] f.kind = "uint32" -> val \in Numbers
      [] OTHER -> val = <<>> \/ \E w \in InnerWrites(d, f) : val = <<w>>

FieldAt(d, f, old, val) ==
    CASE f.kind = "message"  -> MergeAt(d, f, old, val)
      [] f.kind = "repeated" -> Append(old, MergeAt(d, f, Zero(f.of), val))
      [] f.kind = "int"      -> IF val = <<>> THEN old ELSE val
      [] OTHER -> val

\* Every write is one to a field of the table.
LEMMA WritesAre ==
    \A d \in Depths : \A R : IsTable(R) => \A w \in WritesAt(d, R) :
        w.num \in 1..Len(R) /\ IsWritten(d, R[w.num], w.val)
<1> TAKE d \in Depths
<1> TAKE R
<1> HAVE IsTable(R)
<1> TAKE w \in WritesAt(d, R)
<1>0. DOMAIN R = 1..Len(R)
  <2>1. R \in Seq(Range(R))
    BY DEF IsTable
  <2> QED BY <2>1
<1> DEFINE V(f) == CASE f.kind = "string" -> Strings
                     [] f.kind = "int" -> Ints
                     [] f.kind = "uint32" -> Numbers
                     [] OTHER -> {<<>>} \cup {<<x>> : x \in InnerWrites(d, f)}
<1>1. WritesAt(d, R) = UNION {{[num |-> i, val |-> v] : v \in V(R[i])} : i \in DOMAIN R}
  <2>1. CASE d = 0
    BY <2>1 DEF WritesAt, Writes0, WritesOf, InnerWrites
  <2>2. CASE d = 1
    BY <2>2 DEF WritesAt, Writes1, WritesOf, InnerWrites
  <2>3. CASE d = 2
    BY <2>3 DEF WritesAt, Writes, WritesOf, InnerWrites
  <2> QED BY <2>1, <2>2, <2>3 DEF Depths
<1>2. PICK i \in DOMAIN R : \E v \in V(R[i]) : w = [num |-> i, val |-> v]
  <2> HIDE DEF V
  <2> QED BY <1>1
<1>3. w.num = i /\ w.val \in V(R[i])
  <2> HIDE DEF V
  <2> QED BY <1>2
<1>4. IsWritten(d, R[i], w.val)
  BY <1>3 DEF IsWritten
<1> QED BY <1>0, <1>3, <1>4

\* The effect of a write is one on its field.
LEMMA ApplyIs ==
    \A d \in Depths : \A R, m, w :
        ApplyAt(d, R, m, w) = [m EXCEPT ![w.num] = FieldAt(d, R[w.num], m[w.num], w.val)]
<1> TAKE d \in Depths
<1> TAKE R, m, w
<1>1. CASE d = 0
  BY <1>1 DEF ApplyAt, Apply0, ApplyTo, FieldAt, MergeAt
<1>2. CASE d = 1
  BY <1>2 DEF ApplyAt, Apply1, ApplyTo, FieldAt, MergeAt
<1>3. CASE d = 2
  BY <1>3 DEF ApplyAt, Apply, ApplyTo, FieldAt, MergeAt
<1> QED BY <1>1, <1>2, <1>3 DEF Depths

\* The bytes of a write are its tag and its payload.
LEMMA WriteBytesIs ==
    \A d \in Depths : \A R, w :
        WriteBytesAt(d, R, w) =
            Tag(w.num, R[w.num].wire) \o Payload(R[w.num].kind, ContentAt(d, R[w.num], w.val))
<1> TAKE d \in Depths
<1> TAKE R, w
<1> DEFINE f == R[w.num]
           content == ContentAt(d, f, w.val)
<1>1. f.kind = "uint32" => content = w.val
  BY DEF ContentAt, Nested
<1>2. WriteBytesAt(d, R, w) = Tag(w.num, f.wire) \o
        (IF f.kind = "uint32" THEN encodeVarint[w.val] ELSE encodeVarint[Len(content)] \o content)
  <2>1. CASE d = 0
    BY <2>1 DEF WriteBytesAt, WriteBytes0, BytesOf, ContentAt, Nested
  <2>2. CASE d = 1
    <3> DEFINE inner == IF f.kind \notin {"message", "repeated"} THEN w.val
                       ELSE IF w.val = <<>> THEN <<>> ELSE WriteBytes0(f.of, w.val[1])
    <3>1. \A x, y : WriteBytesAt(d - 1, x, y) = WriteBytes0(x, y)
      BY <2>2 DEF WriteBytesAt
    <3>2. content = inner
      BY <2>2, <3>1 DEF ContentAt, Nested
    <3>3. WriteBytesAt(d, R, w) = Tag(w.num, f.wire) \o
            (IF f.kind = "uint32" THEN encodeVarint[w.val] ELSE encodeVarint[Len(inner)] \o inner)
      BY <2>2 DEF WriteBytesAt, WriteBytes1, BytesOf
    <3> HIDE DEF inner, content
    <3> QED BY <3>2, <3>3
  <2>3. CASE d = 2
    <3> DEFINE inner == IF f.kind \notin {"message", "repeated"} THEN w.val
                       ELSE IF w.val = <<>> THEN <<>> ELSE WriteBytes1(f.of, w.val[1])
    <3>1. \A x, y : WriteBytesAt(d - 1, x, y) = WriteBytes1(x, y)
      BY <2>3 DEF WriteBytesAt
    <3>2. content = inner
      BY <2>3, <3>1 DEF ContentAt, Nested
    <3>3. WriteBytesAt(d, R, w) = Tag(w.num, f.wire) \o
            (IF f.kind = "uint32" THEN encodeVarint[w.val] ELSE encodeVarint[Len(inner)] \o inner)
      BY <2>3 DEF WriteBytesAt, WriteBytes, BytesOf
    <3> HIDE DEF inner, content
    <3> QED BY <3>2, <3>3
  <2> QED BY <2>1, <2>2, <2>3 DEF Depths
<1> QED BY <1>1, <1>2 DEF Payload

\* The bytes of a write.
BytesTyped(d) ==
    \A R : IsReader(d, R) => \A w \in WritesAt(d, R) : WriteBytesAt(d, R, w) \in Seq(Byte)

\* The content of a field is a number or bytes.
LEMMA ContentType ==
    ASSUME NEW d \in Depths, d > 0 => BytesTyped(d - 1), NEW R, IsReader(d, R),
           NEW num \in 1..Len(R), NEW val, IsWritten(d, R[num], val)
    PROVE  IF R[num].kind = "uint32" THEN val \in Nat /\ val < Int32Size /\ ContentAt(d, R[num], val) = val
           ELSE ContentAt(d, R[num], val) \in Seq(Byte)
<1>0. R[num].kind \in Kinds /\ ReaderFacts(d, R)
  <2>1. ReaderFacts(d, R)
    BY ReaderIs
  <2>2. IsTable(R)
    BY <2>1 DEF ReaderFacts
  <2> QED BY <2>1, <2>2 DEF IsTable
<1>1. CASE R[num].kind = "uint32"
  <2>1. val \in Numbers
    BY <1>1 DEF IsWritten
  <2>2. val \in 0..(Int32Size - 1)
    BY <2>1, ContentAssumption
  <2> QED BY <1>1, <2>2, Widths DEF ContentAt, Nested
<1>2. CASE R[num].kind = "string"
  <2>1. val \in Strings /\ ContentAt(d, R[num], val) = val
    BY <1>2 DEF IsWritten, ContentAt, Nested
  <2>2. val \in Seq(Byte)
    BY <2>1, ContentAssumption
  <2> QED BY <1>2, <2>1, <2>2, Zenon
<1>3. CASE R[num].kind = "int"
  <2>1. val \in Ints /\ ContentAt(d, R[num], val) = val
    BY <1>3 DEF IsWritten, ContentAt, Nested
  <2>2. val \in Seq(48..57)
    BY <2>1, ContentAssumption
  <2>3. \A x \in 48..57 : x \in Byte
    BY Widths DEF Byte
  <2>4. val \in Seq(Byte)
    BY <2>2, <2>3
  <2> QED BY <1>3, <2>1, <2>4, Zenon
<1>4. CASE R[num].kind \in {"message", "repeated"}
  <2>1. Nested(R[num]) /\ R[num].kind # "uint32"
    BY <1>4 DEF Nested
  <2>2. d > 0 /\ d - 1 \in Depths /\ IsReader(d - 1, R[num].of)
    BY <1>0, <2>1 DEF ReaderFacts
  <2>3. CASE val = <<>>
    <3>1. ContentAt(d, R[num], val) = <<>>
      BY <2>1, <2>3 DEF ContentAt
    <3>2. <<>> \in Seq(Byte)
      OBVIOUS
    <3> QED BY <2>1, <3>1, <3>2, Zenon
  <2>4. CASE val # <<>>
    <3>1. PICK w \in WritesAt(d - 1, R[num].of) : val = <<w>>
      BY <1>4, <2>2, <2>4 DEF IsWritten, InnerWrites
    <3>2. ContentAt(d, R[num], val) = WriteBytesAt(d - 1, R[num].of, w)
      BY <2>1, <2>2, <2>4, <3>1 DEF ContentAt
    <3>3. WriteBytesAt(d - 1, R[num].of, w) \in Seq(Byte)
      BY <2>2, <3>1 DEF BytesTyped
    <3> QED BY <2>1, <3>2, <3>3, Zenon
  <2> QED BY <2>3, <2>4
<1> QED BY <1>0, <1>1, <1>2, <1>3, <1>4 DEF Kinds

\* What is behind the start of a slice is one too.
LEMMA BackSlice ==
    \A a \in Slices : \A c \in Seq(Byte) : \A b \in Seq(Byte) : c \o b = a => b \in Slices /\ c \in Slices
<1> TAKE a \in Slices
<1> TAKE c \in Seq(Byte)
<1> TAKE b \in Seq(Byte)
<1> HAVE c \o b = a
<1>1. Len(c \o b) = Len(c) + Len(b)
  BY SeqConcat, Zenon
<1> DEFINE la == Len(a) lb == Len(b) lc == Len(c)
<1>2. la = lc + lb /\ lb \in Nat /\ lc \in Nat /\ la <= MaxInt
  <2>1. lb \in Nat /\ lc \in Nat
    OBVIOUS
  <2>2. la <= MaxInt
    BY SlicesAre
  <2>3. la = lc + lb
    BY <1>1
  <2> QED BY <2>1, <2>2, <2>3
<1>3. lb <= MaxInt /\ lc <= MaxInt
  <2> HIDE DEF la, lb, lc
  <2> QED BY ONLY <1>2, Widths
<1> QED BY <1>3, SlicesAre

\* Bytes behind bytes.
LEMMA BytesConcat == \A a, b \in Seq(Byte) : a \o b \in Seq(Byte)
<1> QED BY SeqConcat, Zenon

\* The pieces of a write.
WriteParts(d, R, w) ==
    LET f == R[w.num]
        c == ContentAt(d, f, w.val)
    IN  /\ w.num \in 1..Len(R) /\ w.num \in 1..5 /\ f.wire \in 0..7
        /\ Tag(w.num, f.wire) \in Slices
        /\ Payload(f.kind, c) \in Seq(Byte)
        /\ IF f.kind = "uint32" THEN w.val \in Nat /\ w.val < Int32Size /\ c = w.val
           ELSE c \in Seq(Byte) /\ encodeVarint[Len(c)] \in Seq(Byte)
                /\ Payload(f.kind, c) = encodeVarint[Len(c)] \o c

\* What the pieces are.
LEMMA WritePartsAre ==
    ASSUME NEW d \in Depths, d > 0 => BytesTyped(d - 1), NEW R, IsReader(d, R), NEW w \in WritesAt(d, R)
    PROVE  WriteParts(d, R, w)
<1> DEFINE f == R[w.num]
           c == ContentAt(d, f, w.val)
<1>0. IsTable(R)
  BY ReaderIs DEF ReaderFacts
<1>1. w.num \in 1..Len(R) /\ IsWritten(d, f, w.val)
  BY <1>0, WritesAre
<1>2. w.num \in 1..5 /\ f.wire \in 0..7 /\ Len(R) \in Nat
  BY <1>0, <1>1 DEF IsTable
<1>3. Tag(w.num, f.wire) \in Slices
  BY <1>2, TagFacts
<1>4. IF f.kind = "uint32" THEN w.val \in Nat /\ w.val < Int32Size /\ c = w.val
      ELSE c \in Seq(Byte)
  BY <1>1, ContentType, Zenon
<1> HIDE DEF c
<1>5. \A v \in Nat : encodeVarint[v] \in Seq(Byte)
  BY encodeVarintDef
<1>6. CASE f.kind = "uint32"
  <2>1. w.val \in Nat /\ w.val < Int32Size /\ c = w.val
    BY <1>4, <1>6
  <2>2. encodeVarint[w.val] \in Seq(Byte)
    BY <1>5, <2>1
  <2>3. Payload(f.kind, c) = encodeVarint[w.val]
    BY <1>6, <2>1 DEF Payload
  <2>4. Payload(f.kind, c) \in Seq(Byte)
    BY <2>2, <2>3, Zenon
  <2> QED BY <1>1, <1>2, <1>3, <1>6, <2>1, <2>4 DEF WriteParts, c
<1>7. CASE f.kind # "uint32"
  <2>1. c \in Seq(Byte)
    BY <1>4, <1>7, Zenon
  <2>2. encodeVarint[Len(c)] \in Seq(Byte)
    <3>1. Len(c) \in Nat
      BY <2>1
    <3> QED BY <1>5, <3>1, Zenon
  <2>3. Payload(f.kind, c) = encodeVarint[Len(c)] \o c
    BY <1>7, Zenon DEF Payload
  <2>4. Payload(f.kind, c) \in Seq(Byte)
    BY <2>1, <2>2, <2>3, BytesConcat, Zenon
  <2> QED BY <1>1, <1>2, <1>3, <1>7, <2>1, <2>2, <2>3, <2>4, Zenon DEF WriteParts, c
<1> QED BY <1>6, <1>7

\* From one depth to the next: a write has bytes.
LEMMA BytesLevel ==
    ASSUME NEW d \in Depths, d > 0 => BytesTyped(d - 1)
    PROVE  BytesTyped(d)
<1> SUFFICES ASSUME NEW R, IsReader(d, R), NEW w \in WritesAt(d, R)
             PROVE  WriteBytesAt(d, R, w) \in Seq(Byte)
  BY DEF BytesTyped
<1>1. WriteParts(d, R, w)
  BY WritePartsAre
<1>2. WriteBytesAt(d, R, w) =
        Tag(w.num, R[w.num].wire) \o Payload(R[w.num].kind, ContentAt(d, R[w.num], w.val))
  BY WriteBytesIs
<1>3. Tag(w.num, R[w.num].wire) \in Seq(Byte)
  BY <1>1, SlicesAre DEF WriteParts
<1>4. Payload(R[w.num].kind, ContentAt(d, R[w.num], w.val)) \in Seq(Byte)
  BY <1>1, Zenon DEF WriteParts
<1> QED BY <1>2, <1>3, <1>4, BytesConcat, Zenon

\* Every write has bytes.
LEMMA BytesType == \A d \in Depths : BytesTyped(d) /\ (d > 0 => BytesTyped(d - 1))
<1>1. BytesTyped(0)
  BY BytesLevel DEF Depths
<1>2. BytesTyped(1)
  <2>1. 1 \in Depths /\ 1 - 1 = 0
    BY DEF Depths
  <2> QED BY <1>1, <2>1, BytesLevel
<1>3. BytesTyped(2)
  <2>1. 2 \in Depths /\ 2 - 1 = 1
    BY DEF Depths
  <2> QED BY <1>2, <2>1, BytesLevel
<1>4. \A d \in Depths : d > 0 => d - 1 \in Depths
  BY DEF Depths
<1>5. \A d \in Depths : BytesTyped(d)
  BY <1>1, <1>2, <1>3 DEF Depths
<1> QED BY <1>4, <1>5

-----------------------------------------------------------------------------
\* A decoder reads a write as what it says.
ReadsWrite(d, R, w, b, u, m, m1) ==
    /\ IsReader(d, R) /\ w \in WritesAt(d, R) /\ m \in MsgsAt(d, R)
    /\ b \in Slices /\ u \in Slices /\ u = b \o WriteBytesAt(d, R, w)
    /\ DecodeAt(d, R, b, m) = Ok(m1, Len(b))
    => DecodeAt(d, R, u, m) = Ok(ApplyAt(d, R, m1, w), Len(u))

WriteRead(d) == \A R, w, b, u, m, m1 : ReadsWrite(d, R, w, b, u, m, m1)

\* An embedded decoder reads the content of a write.
InnerReads(d, R, num, val, c, into) ==
    /\ IsReader(d, R) /\ num \in 1..Len(R) /\ Nested(R[num]) /\ IsWritten(d, R[num], val)
    /\ c \in Slices /\ c = ContentAt(d, R[num], val) /\ into \in Below(d, R[num])
    => InnerAt(d, R[num].of, c, into) = Ok(MergeAt(d, R[num], into, val), Len(c))

\* The embedded decoder reads the content, given the depth below.
LEMMA InnerReading ==
    ASSUME NEW d \in Depths, d > 0 => WriteRead(d - 1)
    PROVE  \A R, num, val, c, into : InnerReads(d, R, num, val, c, into)
<1> SUFFICES ASSUME NEW R, NEW num, NEW val, NEW c, NEW into PROVE InnerReads(d, R, num, val, c, into)
  OBVIOUS
<1> SUFFICES ASSUME IsReader(d, R), num \in 1..Len(R), Nested(R[num]), IsWritten(d, R[num], val),
                    c \in Slices, c = ContentAt(d, R[num], val), into \in Below(d, R[num])
             PROVE  InnerAt(d, R[num].of, c, into) = Ok(MergeAt(d, R[num], into, val), Len(c))
  BY DEF InnerReads
<1>0. d > 0 /\ d - 1 \in Depths /\ IsReader(d - 1, R[num].of)
  BY ReaderIs DEF ReaderFacts
<1> PICK below, of : below = d - 1 /\ of = R[num].of
  OBVIOUS
<1>1. below \in Depths /\ IsReader(below, of) /\ WriteRead(below) /\ into \in MsgsAt(below, of)
  BY <1>0 DEF Below
<1>2. InnerAt(d, of, c, into) = DecodeAt(below, of, c, into)
  BY <1>0, InnerIs
<1>3. <<>> \in Slices /\ Len(<<>>) = 0
  BY SlicesAre
<1>4. DecodeAt(below, of, <<>>, into) = Ok(into, 0)
  BY <1>1, DecodeEmpty
<1>5. CASE val = <<>>
  <2>1. c = <<>> /\ MergeAt(d, R[num], into, val) = into
    BY <1>5 DEF ContentAt, MergeAt
  <2> QED BY <1>2, <1>3, <1>4, <2>1
<1>6. CASE val # <<>>
  <2>1. PICK w \in WritesAt(below, of) : val = <<w>>
    <3>1. \E w \in InnerWrites(d, R[num]) : val = <<w>>
      BY <1>6 DEF IsWritten, Nested
    <3> QED BY <1>0, <3>1 DEF InnerWrites
  <2>2. c = WriteBytesAt(below, of, w) /\ MergeAt(d, R[num], into, val) = ApplyAt(below, of, into, w)
    <3>1. val[1] = w
      BY <2>1
    <3> QED BY <1>0, <1>6, <3>1 DEF ContentAt, MergeAt
  <2>3. c = <<>> \o WriteBytesAt(below, of, w)
    <3>1. <<>> \o c = c
      BY Concat
    <3> QED BY <2>2, <3>1
  <2>4. DecodeAt(below, of, <<>>, into) = Ok(into, Len(<<>>))
    BY <1>3, <1>4
  <2>5. DecodeAt(below, of, c, into) = Ok(ApplyAt(below, of, into, w), Len(c))
    <3>1. ReadsWrite(below, of, w, <<>>, c, into, into)
      BY <1>1 DEF WriteRead
    <3> QED BY <1>1, <1>3, <2>1, <2>3, <2>4, <3>1, Zenon DEF ReadsWrite
  <2> QED BY <1>2, <2>2, <2>5
<1> QED BY <1>5, <1>6

NewIs(d, f, old, val, c) ==
    NewAt(d, f, old, c).err = "ok" /\ NewAt(d, f, old, c).val = FieldAt(d, f, old, val)

\* What a field holds after a write.
LEMMA NewWritten ==
    ASSUME NEW d \in Depths, d > 0 => WriteRead(d - 1), NEW R, IsReader(d, R),
           NEW num \in 1..Len(R), NEW val, IsWritten(d, R[num], val),
           NEW c, c = ContentAt(d, R[num], val), IsReadable(R[num], c),
           NEW old \in ValuesOf(R[num], Below(d, R[num]))
    PROVE  NewIs(d, R[num], old, val, c)
<1> PICK f, target : f = R[num] /\ target = Target(f, old)
  OBVIOUS
<1> DEFINE inner == InnerAt(d, f.of, c, target)
           n == NewAt(d, f, old, c)
<1>0. R[num].kind \in Kinds /\ ReaderFacts(d, R)
  <2>1. ReaderFacts(d, R)
    BY ReaderIs
  <2>2. IsTable(R)
    BY <2>1 DEF ReaderFacts
  <2> QED BY <2>1, <2>2 DEF IsTable
<1>1. n = Store(f, old, c, inner)
  BY DEF NewAt
<1>2. \A x, y : Ok(x, y).err = "ok" /\ Ok(x, y).val = x
  BY DEF Ok
<1> SUFFICES n.err = "ok" /\ n.val = FieldAt(d, f, old, val)
  BY DEF NewIs
<1>3. ASSUME Nested(f) PROVE inner = Ok(MergeAt(d, f, target, val), Len(c))
  <2>1. d > 0 /\ d - 1 \in Depths /\ IsReader(d - 1, f.of)
    BY <1>0, <1>3 DEF ReaderFacts
  <2>2. target \in Below(d, f)
    <3>1. Below(d, f) = MsgsAt(d - 1, f.of)
      BY <2>1 DEF Below
    <3>2. CASE f.kind = "repeated"
      <4>1. Zero(f.of) \in MsgsAt(d - 1, f.of)
        BY <2>1, ZeroType DEF ZeroTyped
      <4> QED BY <3>1, <3>2, <4>1 DEF Target
    <3>3. CASE f.kind = "message"
      BY <3>3 DEF Target, ValuesOf
    <3> QED BY <1>3, <3>2, <3>3 DEF Nested
  <2>3. c \in Slices
    BY <1>3 DEF IsReadable, Nested
  <2>4. Nested(R[num]) /\ target \in Below(d, R[num])
    BY <1>3, <2>2
  <2>5. InnerReads(d, R, num, val, c, target)
    BY InnerReading
  <2>6. InnerAt(d, R[num].of, c, target) = Ok(MergeAt(d, R[num], target, val), Len(c))
    BY <2>3, <2>4, <2>5, Zenon DEF InnerReads
  <2> QED BY <2>6
<1> HIDE DEF inner
<1>4. CASE f.kind = "string"
  <2>1. n = Ok(c, 0) /\ c = val /\ FieldAt(d, f, old, val) = val
    BY <1>1, <1>4 DEF Store, ContentAt, Nested, FieldAt
  <2> QED BY <1>2, <2>1
<1>5. CASE f.kind = "uint32"
  <2>1. n = Ok(c, 0) /\ c = val /\ FieldAt(d, f, old, val) = val
    BY <1>1, <1>5 DEF Store, StoreUint32, ContentAt, Nested, FieldAt
  <2> QED BY <1>2, <2>1
<1>6. CASE f.kind = "int"
  <2>1. n = IntUnmarshal(old, c) /\ c = val /\ FieldAt(d, f, old, val) = IF val = <<>> THEN old ELSE val
    BY <1>1, <1>6 DEF Store, ContentAt, Nested, FieldAt
  <2>2. \A i \in 1..Len(val) : val[i] \in 48..57
    <3>1. val \in Ints
      BY <1>6 DEF IsWritten
    <3>2. val \in Seq(48..57)
      BY <3>1, ContentAssumption
    <3> QED BY <3>2
  <2>3. n = IF val = <<>> THEN Ok(old, 0) ELSE Ok(val, 0)
    BY <2>1, <2>2 DEF IntUnmarshal
  <2> QED BY <1>2, <2>1, <2>3
<1>7. CASE f.kind = "message"
  <2>1. n = inner /\ target = old /\ FieldAt(d, f, old, val) = MergeAt(d, f, old, val)
    BY <1>1, <1>7 DEF Store, FieldAt, Target
  <2>2. inner = Ok(MergeAt(d, f, target, val), Len(c))
    BY <1>3, <1>7 DEF Nested
  <2> QED BY <1>2, <2>1, <2>2
<1>8. CASE f.kind = "repeated"
  <2>1. /\ n = IF inner.err # "ok" THEN inner ELSE Ok(Append(old, inner.val), 0)
        /\ target = Zero(f.of) /\ FieldAt(d, f, old, val) = Append(old, MergeAt(d, f, Zero(f.of), val))
    BY <1>1, <1>8 DEF Store, FieldAt, Target
  <2>2. inner = Ok(MergeAt(d, f, target, val), Len(c))
    BY <1>3, <1>8 DEF Nested
  <2>3. inner.err = "ok" /\ inner.val = MergeAt(d, f, target, val)
    BY <1>2, <2>2
  <2>4. n = Ok(Append(old, inner.val), 0)
    BY <2>1, <2>3
  <2>5. n = Ok(FieldAt(d, f, old, val), 0)
    BY <2>1, <2>3, <2>4, Zenon
  <2> HIDE DEF n
  <2> QED BY <1>2, <2>5
<1> QED BY <1>0, <1>4, <1>5, <1>6, <1>7, <1>8 DEF Kinds

WrittenEntry(d, R, w, b, u, e) ==
    /\ e \in Slices
    /\ IsReadable(R[w.num], ContentAt(d, R[w.num], w.val))
    /\ ReadEntry(R, u, Len(b)) = Ok([num |-> w.num, data |-> ContentAt(d, R[w.num], w.val)], Len(u))

\* The entry that a write leaves.
LEMMA WriteEntry ==
    ASSUME NEW d \in Depths, NEW R, IsReader(d, R), NEW w \in WritesAt(d, R),
           NEW b \in Slices, NEW u \in Slices, NEW e, e = WriteBytesAt(d, R, w), u = b \o e
    PROVE  WrittenEntry(d, R, w, b, u, e)
<1> PICK num, f, c, t, p : /\ num = w.num /\ f = R[num] /\ c = ContentAt(d, f, w.val)
                           /\ t = Tag(num, f.wire) /\ p = Payload(f.kind, c)
  OBVIOUS
<1>0. IsTable(R)
  BY ReaderIs DEF ReaderFacts
<1>1. WriteParts(d, R, w)
  BY BytesType, WritePartsAre
<1>2. e = t \o p
  BY WriteBytesIs
<1>3. e \in Seq(Byte) /\ t \in Seq(Byte) /\ p \in Seq(Byte)
  <2>1. t \in Slices /\ p \in Seq(Byte)
    BY <1>1 DEF WriteParts
  <2>2. t \in Seq(Byte)
    BY <2>1, SlicesAre
  <2> QED BY <1>2, <2>1, <2>2, BytesConcat, Zenon
<1>4. e \in Slices
  <2>1. b \in Seq(Byte)
    BY SlicesAre
  <2> QED BY <1>3, <2>1, BackSlice, Zenon
<1>5. p \in Slices
  BY <1>2, <1>3, <1>4, BackSlice, Zenon
<1>6. IsData(f.kind, c)
  <2>1. CASE f.kind = "uint32"
    BY <1>1, <2>1 DEF WriteParts, IsData
  <2>2. CASE f.kind # "uint32"
    <3>1. c \in Seq(Byte) /\ encodeVarint[Len(c)] \in Seq(Byte) /\ p = encodeVarint[Len(c)] \o c
      BY <1>1, <2>2, Zenon DEF WriteParts
    <3>2. c \in Slices
      BY <1>5, <3>1, BackSlice, Zenon
    <3> QED BY <1>5, <2>2, <3>1, <3>2, Zenon DEF IsData
  <2> QED BY <2>1, <2>2
<1>7. num \in 1..Len(R)
  BY <1>1 DEF WriteParts
<1>8. ReadEntry(R, b \o e, Len(b)) = Ok([num |-> num, data |-> c], Len(b \o e))
  <2>1. e = Tag(num, R[num].wire) \o Payload(R[num].kind, c)
    BY <1>2
  <2>2. IsData(R[num].kind, c) /\ b \o e \in Slices
    BY <1>6
  <2>3. FieldReads(R, b, num, c, e)
    BY FieldReading
  <2> QED BY <1>0, <1>4, <1>7, <2>1, <2>2, <2>3, Zenon DEF FieldReads
<1>9. IsReadable(f, c)
  BY <1>6 DEF IsData, IsReadable
<1> QED BY <1>4, <1>8, <1>9 DEF WrittenEntry

\* From one depth to the next: a decoder reads a write as what it says.
LEMMA WriteLevel ==
    ASSUME NEW d \in Depths, d > 0 => WriteRead(d - 1)
    PROVE  WriteRead(d)
<1> SUFFICES ASSUME NEW R, NEW w, NEW b, NEW u, NEW m, NEW m1 PROVE ReadsWrite(d, R, w, b, u, m, m1)
  BY DEF WriteRead
<1> SUFFICES ASSUME IsReader(d, R), w \in WritesAt(d, R), m \in MsgsAt(d, R), b \in Slices, u \in Slices,
                    u = b \o WriteBytesAt(d, R, w), DecodeAt(d, R, b, m) = Ok(m1, Len(b))
             PROVE  DecodeAt(d, R, u, m) = Ok(ApplyAt(d, R, m1, w), Len(u))
  BY DEF ReadsWrite
<1> PICK e, num, c : e = WriteBytesAt(d, R, w) /\ num = w.num /\ c = ContentAt(d, R[num], w.val)
  OBVIOUS
<1>1. /\ e \in Slices /\ u = b \o e /\ IsReadable(R[num], c)
      /\ ReadEntry(R, u, Len(b)) = Ok([num |-> num, data |-> c], Len(u))
  <2>1. e = WriteBytesAt(d, R, w) /\ u = b \o e
    OBVIOUS
  <2>2. WrittenEntry(d, R, w, b, u, e)
    BY <2>1, WriteEntry, Zenon
  <2> QED BY <2>2 DEF WrittenEntry
<1>2. num \in 1..Len(R) /\ IsWritten(d, R[num], w.val)
  <2>1. IsTable(R)
    BY ReaderIs DEF ReaderFacts
  <2> QED BY <2>1, WritesAre
<1>3. m1[num] \in ValuesOf(R[num], Below(d, R[num]))
  <2>1. ResultFacts(d, R, b, DecodeAt(d, R, b, m))
    BY DecodeType DEF DecodeTyped
  <2>2. m1 \in MsgsAt(d, R)
    BY <2>1 DEF ResultFacts, Ok
  <2>3. IsMsg(d, R, m1)
    BY <2>2, MsgsOfAre
  <2> QED BY <1>2, <2>3 DEF IsMsg
<1> DEFINE new == NewAt(d, R[num], m1[num], c)
<1>4. new.err = "ok" /\ new.val = FieldAt(d, R[num], m1[num], w.val)
  <2>1. c = ContentAt(d, R[num], w.val)
    OBVIOUS
  <2>2. NewIs(d, R[num], m1[num], w.val, c)
    BY <1>1, <1>2, <1>3, <2>1, NewWritten, Zenon
  <2> QED BY <2>2 DEF NewIs
<1>5. Extends(d, R, m, u, m1, num, c)
  BY <1>1, DecodeSnoc
<1>6. num # 0
  BY <1>2
<1>7. DecodeAt(d, R, u, m) = Ok([m1 EXCEPT ![num] = new.val], Len(u))
  BY <1>4, <1>5, <1>6 DEF Extends
<1> QED BY <1>4, <1>7, ApplyIs

\* Every decoder reads a write as what it says.
LEMMA WriteReads == \A d \in Depths : WriteRead(d)
<1>1. WriteRead(0)
  BY WriteLevel DEF Depths
<1>2. WriteRead(1)
  <2>1. 1 \in Depths /\ 1 - 1 = 0
    BY DEF Depths
  <2> QED BY <1>1, <2>1, WriteLevel
<1>3. WriteRead(2)
  <2>1. 2 \in Depths /\ 2 - 1 = 1
    BY DEF Depths
  <2> QED BY <1>2, <2>1, WriteLevel
<1> QED BY <1>1, <1>2, <1>3 DEF Depths

(* The tables of the message types.                                        *)
FieldOk(d, f) ==
    /\ f.kind \in Kinds /\ f.wire = IF f.kind = "uint32" THEN 0 ELSE 2
    /\ Nested(f) => d > 0 /\ d - 1 \in Depths /\ IsReader(d - 1, f.of)
    /\ f.zero = IF f.kind = "uint32" THEN 0 ELSE IF f.kind = "message" THEN Zero(f.of) ELSE <<>>

\* A table is one of a reader if its fields are.
LEMMA ReaderOfFields ==
    ASSUME NEW d \in Depths, NEW R, R \in Seq(Range(R)), Len(R) \in 0..3,
           \A i \in 1..Len(R) : FieldOk(d, R[i])
    PROVE  IsReader(d, R)
<1>1. IsTable(R)
  BY DEF IsTable, FieldOk
<1>2. CASE d = 0
  <2>1. Reader0(R)
    BY <1>1, <1>2 DEF FieldOk, Reader0, ReaderOf
  <2> QED BY <1>2, <2>1 DEF IsReader
<1>3. CASE d = 1
  <2>1. \A of : IsReader(d - 1, of) => Reader0(of)
    BY <1>3 DEF IsReader
  <2>2. Reader1(R)
    BY <1>1, <2>1 DEF FieldOk, Reader1, ReaderOf
  <2> QED BY <1>3, <2>2 DEF IsReader
<1>4. CASE d = 2
  <2>1. \A of : IsReader(d - 1, of) => Reader1(of)
    BY <1>4 DEF IsReader
  <2>2. Reader2(R)
    BY <1>1, <2>1 DEF FieldOk, Reader2, ReaderOf
  <2> QED BY <1>4, <2>2 DEF IsReader
<1> QED BY <1>2, <1>3, <1>4 DEF Depths

\* Tables of up to three fields.
LEMMA ReaderTables ==
    ASSUME NEW d \in Depths
    PROVE  /\ IsReader(d, <<>>)
           /\ \A a : FieldOk(d, a) => IsReader(d, <<a>>)
           /\ \A a, b : FieldOk(d, a) /\ FieldOk(d, b) => IsReader(d, <<a, b>>)
           /\ \A a, b, c : FieldOk(d, a) /\ FieldOk(d, b) /\ FieldOk(d, c) => IsReader(d, <<a, b, c>>)
<1>r. \A S : \A s \in Seq(S) : s \in Seq(Range(s))
  <2> TAKE S
  <2> TAKE s \in Seq(S)
  <2>1. \A i \in 1..Len(s) : s[i] \in Range(s)
    BY DEF Range
  <2> QED BY <2>1
<1>1. IsReader(d, <<>>)
  <2> PICK R : R = <<>>
    OBVIOUS
  <2>1. R \in Seq({}) /\ Len(R) = 0
    OBVIOUS
  <2>2. R \in Seq(Range(R))
    BY <1>r, <2>1
  <2>3. \A i \in 1..Len(R) : FieldOk(d, R[i])
    BY <2>1
  <2>4. Len(R) \in 0..3
    BY <2>1
  <2>5. IsReader(d, R)
    BY <2>2, <2>3, <2>4, ReaderOfFields, Zenon
  <2> QED BY <2>5
<1>2. ASSUME NEW a, FieldOk(d, a) PROVE IsReader(d, <<a>>)
  <2> PICK R : R = <<a>>
    OBVIOUS
  <2>1. R \in Seq({a}) /\ Len(R) = 1 /\ R[1] = a
    OBVIOUS
  <2>2. R \in Seq(Range(R))
    BY <1>r, <2>1
  <2>3. \A i \in 1..Len(R) : FieldOk(d, R[i])
    BY <1>2, <2>1
  <2>4. Len(R) \in 0..3
    BY <2>1
  <2>5. IsReader(d, R)
    BY <2>2, <2>3, <2>4, ReaderOfFields, Zenon
  <2> QED BY <2>5
<1>3. ASSUME NEW a, NEW b, FieldOk(d, a), FieldOk(d, b) PROVE IsReader(d, <<a, b>>)
  <2> PICK R : R = <<a, b>>
    OBVIOUS
  <2>1. R \in Seq({a, b}) /\ Len(R) = 2 /\ R[1] = a /\ R[2] = b
    OBVIOUS
  <2>2. R \in Seq(Range(R))
    BY <1>r, <2>1
  <2>3. \A i \in 1..Len(R) : FieldOk(d, R[i])
    BY <1>3, <2>1
  <2>4. Len(R) \in 0..3
    BY <2>1
  <2>5. IsReader(d, R)
    BY <2>2, <2>3, <2>4, ReaderOfFields, Zenon
  <2> QED BY <2>5
<1>4. ASSUME NEW a, NEW b, NEW c, FieldOk(d, a), FieldOk(d, b), FieldOk(d, c)
      PROVE  IsReader(d, <<a, b, c>>)
  <2> PICK R : R = <<a, b, c>>
    OBVIOUS
  <2>1. R \in Seq({a, b, c}) /\ Len(R) = 3 /\ R[1] = a /\ R[2] = b /\ R[3] = c
    OBVIOUS
  <2>2. R \in Seq(Range(R))
    BY <1>r, <2>1
  <2>3. \A i \in 1..Len(R) : FieldOk(d, R[i])
    BY <1>4, <2>1
  <2>4. Len(R) \in 0..3
    BY <2>1
  <2>5. IsReader(d, R)
    BY <2>2, <2>3, <2>4, ReaderOfFields, Zenon
  <2> QED BY <2>5
<1> QED BY <1>1, <1>2, <1>3, <1>4

\* The fields Take makes.
LEMMA ReaderFields ==
    ASSUME NEW d \in Depths
    PROVE  /\ FieldOk(d, Take(2, "string", <<>>))
           /\ FieldOk(d, Take(2, "int", <<>>))
           /\ FieldOk(d, Take(0, "uint32", <<>>))
           /\ \A of : d > 0 /\ IsReader(d - 1, of) =>
                 FieldOk(d, Take(2, "message", of)) /\ FieldOk(d, Take(2, "repeated", of))
<1>1. FieldOk(d, Take(2, "string", <<>>)) /\ FieldOk(d, Take(2, "int", <<>>)) /\ FieldOk(d, Take(0, "uint32", <<>>))
  BY DEF FieldOk, Take, Kinds, Nested
<1>2. ASSUME NEW of, d > 0, IsReader(d - 1, of)
      PROVE  FieldOk(d, Take(2, "message", of)) /\ FieldOk(d, Take(2, "repeated", of))
  <2>1. d - 1 \in Depths
    BY <1>2 DEF Depths
  <2> QED BY <1>2, <2>1 DEF FieldOk, Take, Kinds, Nested
<1> QED BY <1>1, <1>2

\* The Unmarshal table of every message type is a reader table.
LEMMA TypeReaders == \A t \in MessageTypes : IsReader(2, t.unmarshal)
<1> PICK two, one, zero : two = 2 /\ one = 1 /\ zero = 0
  OBVIOUS
<1>0. /\ two \in Depths /\ one \in Depths /\ zero \in Depths /\ two - 1 = one /\ one - 1 = zero
      /\ one > 0 /\ two > 0
  BY DEF Depths
<1>1. IsReader(zero, Coin_Unmarshal) /\ IsReader(one, Coin_Unmarshal)
  BY <1>0, ReaderTables, ReaderFields DEF Coin_Unmarshal
<1>2. IsReader(one, Params_Unmarshal) /\ IsReader(one, VirtualStakingMaxCapInfo_Unmarshal)
  BY <1>0, <1>1, ReaderTables, ReaderFields DEF Params_Unmarshal, VirtualStakingMaxCapInfo_Unmarshal
<1>3. IsReader(two, MsgSetVirtualStakingMaxCap_Unmarshal) /\ IsReader(two, MsgSetVirtualStakingMaxCapResponse_Unmarshal)
  BY <1>0, <1>1, ReaderTables, ReaderFields
     DEF MsgSetVirtualStakingMaxCap_Unmarshal, MsgSetVirtualStakingMaxCapResponse_Unmarshal
<1>4. IsReader(two, VirtualStakingMaxCapInfo_Unmarshal) /\ IsReader(two, Params_Unmarshal)
  BY <1>0, <1>1, ReaderTables, ReaderFields DEF Params_Unmarshal, VirtualStakingMaxCapInfo_Unmarshal
<1>5. IsReader(two, GenesisState_Unmarshal) /\ IsReader(two, ValidatorAddress_Unmarshal)
  BY <1>0, <1>2, ReaderTables, ReaderFields DEF GenesisState_Unmarshal, ValidatorAddress_Unmarshal
<1>6. /\ IsReader(two, QueryVirtualStakingMaxCapLimitRequest_Unmarshal)
      /\ IsReader(two, QueryVirtualStakingMaxCapLimitResponse_Unmarshal)
  BY <1>0, <1>1, ReaderTables, ReaderFields
     DEF QueryVirtualStakingMaxCapLimitRequest_Unmarshal, QueryVirtualStakingMaxCapLimitResponse_Unmarshal
<1>7. /\ IsReader(two, QueryVirtualStakingMaxCapLimitsRequest_Unmarshal)
      /\ IsReader(two, QueryVirtualStakingMaxCapLimitsResponse_Unmarshal)
  BY <1>0, <1>2, ReaderTables, ReaderFields
     DEF QueryVirtualStakingMaxCapLimitsRequest_Unmarshal, QueryVirtualStakingMaxCapLimitsResponse_Unmarshal
<1>8. IsReader(two, QueryParamsRequest_Unmarshal) /\ IsReader(two, QueryParamsResponse_Unmarshal)
  BY <1>0, <1>2, ReaderTables, ReaderFields DEF QueryParamsRequest_Unmarshal, QueryParamsResponse_Unmarshal
<1>9. \A m, s, u : Type(m, s, u).unmarshal = u
  BY DEF Type
<1> SUFFICES ASSUME NEW t \in MessageTypes PROVE IsReader(two, t.unmarshal)
  OBVIOUS
<1> QED
  BY <1>3, <1>4, <1>5, <1>6, <1>7, <1>8, <1>9
     DEF MessageTypes, MsgSetVirtualStakingMaxCap, MsgSetVirtualStakingMaxCapResponse, VirtualStakingMaxCapInfo,
         Params, GenesisState, ValidatorAddress, QueryVirtualStakingMaxCapLimitRequest,
         QueryVirtualStakingMaxCapLimitResponse, QueryVirtualStakingMaxCapLimitsRequest,
         QueryVirtualStakingMaxCapLimitsResponse, QueryParamsRequest, QueryParamsResponse

\* The functions themselves are those of depth 2.
LEMMA TopLevel ==
    /\ 2 \in Depths
    /\ \A t, b : Unmarshal(t, b) = DecodeAt(2, t.unmarshal, b, Zero(t.unmarshal))
    /\ \A R, m, w : WritesAt(2, R) = Writes(R) /\ ApplyAt(2, R, m, w) = Apply(R, m, w)
                    /\ WriteBytesAt(2, R, w) = WriteBytes(R, w)
<1>1. 2 \in Depths
  BY DEF Depths
<1>2. ASSUME NEW t, NEW b PROVE Unmarshal(t, b) = DecodeAt(2, t.unmarshal, b, Zero(t.unmarshal))
  BY DEF Unmarshal, DecodeAt
<1>3. ASSUME NEW R, NEW m, NEW w
      PROVE  WritesAt(2, R) = Writes(R) /\ ApplyAt(2, R, m, w) = Apply(R, m, w)
             /\ WriteBytesAt(2, R, w) = WriteBytes(R, w)
  BY DEF WritesAt, ApplyAt, WriteBytesAt
<1> QED BY <1>1, <1>2, <1>3

SplitAt(b, i, k) == SubSeq(b, 1, k) = SubSeq(b, 1, i) \o SubSeq(b, i + 1, k)

\* Sequences split at an index.
LEMMA SeqSplit ==
    ASSUME NEW S, NEW b \in Seq(S), NEW i \in Nat, NEW k \in Nat, i <= k, k <= Len(b)
    PROVE  SplitAt(b, i, k) /\ SubSeq(b, 1, Len(b)) = b
<1> DEFINE u == SubSeq(b, 1, k)
           v == SubSeq(b, 1, i) \o SubSeq(b, i + 1, k)
<1>1. u \in Seq(S) /\ v \in Seq(S) /\ Len(u) = Len(v)
  OBVIOUS
<1>2. ASSUME NEW j \in 1..Len(u) PROVE u[j] = v[j]
  OBVIOUS
<1>3. SubSeq(b, 1, Len(b)) = b
  <2> DEFINE w == SubSeq(b, 1, Len(b))
  <2>1. w \in Seq(S) /\ Len(w) = Len(b) /\ \A j \in 1..Len(w) : w[j] = b[j]
    OBVIOUS
  <2> HIDE DEF w
  <2>2. w = b
    BY <2>1, SameSeq, Zenon
  <2> QED BY <2>2 DEF w
<1> HIDE DEF u, v
<1>4. u = v
  BY <1>1, <1>2, SameSeq
<1> QED BY <1>3, <1>4 DEF SplitAt, u, v

\* Slices split at an index.
LEMMA SliceSplit ==
    \A b \in Slices : \A i, k \in Nat : i <= k /\ k <= Len(b) =>
        SplitAt(b, i, k) /\ SubSeq(b, 1, Len(b)) = b /\ SubSeq(b, 1, k) \in Slices
        /\ Len(SubSeq(b, 1, k)) = k
<1> TAKE b \in Slices
<1> TAKE i, k \in Nat
<1> HAVE i <= k /\ k <= Len(b)
<1>1. b \in Seq(Byte)
  BY SlicesAre
<1>2. SplitAt(b, i, k) /\ SubSeq(b, 1, Len(b)) = b
  BY <1>1, SeqSplit, Zenon
<1>3. SubSeq(b, 1, k) \in Slices /\ Len(SubSeq(b, 1, k)) = k
  <2> PICK zero : zero = 0
    OBVIOUS
  <2>1. SubSeq(b, zero + 1, k) \in Slices /\ Len(SubSeq(b, zero + 1, k)) = k - zero
    BY SliceType
  <2> QED BY <2>1
<1> QED BY <1>2, <1>3

\* A decoder refuses input that ends inside an entry.
RefusesCut(d, R, b, e, u, m, k) ==
    /\ IsReader(d, R) /\ b \in Slices /\ e \in Slices /\ u \in Slices /\ u = b \o e
    /\ m \in MsgsAt(d, R) /\ DecodeAt(d, R, b, m).err = "ok"
    /\ \E x : ReadEntry(R, u, Len(b)) = Ok(x, Len(u))
    /\ k \in Nat /\ Len(b) < k /\ k < Len(u)
    => DecodeAt(d, R, SubSeq(u, 1, k), m).err # "ok"

\* A cut inside the last entry is refused.
LEMMA CutRefused == \A d \in Depths : \A R, b, e, u, m, k : RefusesCut(d, R, b, e, u, m, k)
<1> TAKE d \in Depths
<1> TAKE R, b, e, u, m, k
<1> SUFFICES ASSUME IsReader(d, R), b \in Slices, e \in Slices, u \in Slices, u = b \o e,
                    m \in MsgsAt(d, R), DecodeAt(d, R, b, m).err = "ok",
                    \E x : ReadEntry(R, u, Len(b)) = Ok(x, Len(u)),
                    k \in Nat, Len(b) < k, k < Len(u)
             PROVE  DecodeAt(d, R, SubSeq(u, 1, k), m).err # "ok"
  BY DEF RefusesCut
<1>u. u \in Slices
  OBVIOUS
<1>s. /\ \A j, l \in Nat : j <= l /\ l <= Len(u) =>
            SplitAt(u, j, l) /\ SubSeq(u, 1, l) \in Slices /\ Len(SubSeq(u, 1, l)) = l
      /\ SubSeq(u, 1, Len(u)) = u
  <2>1. Len(u) \in Nat
    BY ONLY <1>u, SlicesAre
  <2>2. Len(u) <= Len(u)
    BY ONLY <2>1
  <2> QED BY ONLY <1>u, <2>1, <2>2, SliceSplit
<1>t. \A j, l \in Nat : j <= l /\ l <= Len(u) => SubSeq(u, j + 1, l) \in Slices
  BY ONLY <1>u, SliceType
<1>k. k \in Nat
  OBVIOUS
<1>0. PICK i, v, x, y : i = Len(b) /\ v = SubSeq(u, 1, k) /\ x = SubSeq(u, i + 1, k) /\ y = SubSeq(u, k + 1, Len(u))
  OBVIOUS
<1>1. i \in Nat /\ i < k /\ Len(u) \in Nat /\ k < Len(u)
  BY <1>0, SlicesAre
<1>u1. i <= k /\ k <= Len(u) /\ Len(u) <= Len(u) /\ k \in Nat
  BY ONLY <1>1, <1>k
<1>2. SubSeq(u, 1, i) = b
  <2>0. PICK zero : zero = 0 /\ zero \in Nat
    OBVIOUS
  <2>1. zero <= i /\ i <= Len(b)
    BY <1>0, <1>1, <2>0
  <2>2. SameLeft(b, e, zero, i)
    BY <1>1, <2>0, <2>1, SliceLeft
  <2>3. SubSeq(b \o e, zero + 1, i) = SubSeq(b, zero + 1, i)
    BY <2>2 DEF SameLeft
  <2>4. zero + 1 = 1
    BY <2>0
  <2>5. SubSeq(b \o e, 1, i) = SubSeq(b, 1, i)
    BY <2>3, <2>4
  <2>6. SubSeq(b, 1, Len(b)) = b
    BY <1>1, <2>1, <1>0, SliceSplit
  <2> QED BY <1>0, <2>5, <2>6
<1>3. v \in Slices /\ x \in Slices /\ y \in Slices /\ Len(v) = k
  <2>1. v \in Slices /\ Len(v) = k
    <3>1. SubSeq(u, 1, k) \in Slices /\ Len(SubSeq(u, 1, k)) = k
      BY ONLY <1>1, <1>u1, <1>s
    <3> QED BY <1>0, <3>1
  <2>2. SubSeq(u, i + 1, k) \in Slices
    BY ONLY <1>1, <1>u1, <1>t
  <2>3. SubSeq(u, k + 1, Len(u)) \in Slices
    BY ONLY <1>1, <1>u1, <1>t
  <2> QED BY <1>0, <2>1, <2>2, <2>3
<1>4. v = b \o x
  <2>1. SplitAt(u, i, k)
    BY ONLY <1>1, <1>u1, <1>s
  <2> QED BY <1>0, <1>2, <2>1 DEF SplitAt
<1>5. u = v \o y
  <2>1. SplitAt(u, k, Len(u)) /\ SubSeq(u, 1, Len(u)) = u
    BY ONLY <1>1, <1>u1, <1>s
  <2> QED BY <1>0, <2>1 DEF SplitAt
<1>6. IsTable(R)
  BY ReaderIs DEF ReaderFacts
<1>7. ReadEntry(R, v, i).err # "ok"
  <2> SUFFICES ASSUME ReadEntry(R, v, i).err = "ok" PROVE FALSE
    OBVIOUS
  <2>1. ReadEntry(R, v \o y, i) = ReadEntry(R, v, i)
    <3>1. i <= Len(v) /\ v \o y \in Slices
      BY <1>1, <1>3, <1>5
    <3> QED BY <1>1, <1>3, <1>6, <3>1, EntryMore
  <2>2. ReadEntry(R, v, i).next <= k
    <3>1. EntryFacts(R, v, i)
      <4>1. i <= Len(v)
        BY <1>1, <1>3
      <4> QED BY <1>1, <1>3, <1>6, <4>1, EntryReading
    <3> QED BY <1>3, <3>1 DEF EntryFacts
  <2>3. PICK z : ReadEntry(R, u, i) = Ok(z, Len(u))
    BY <1>0
  <2>4. ReadEntry(R, u, i).next = Len(u)
    BY <2>3 DEF Ok
  <2>5. ReadEntry(R, u, i) = ReadEntry(R, v, i)
    BY <1>5, <2>1
  <2>6. Len(u) <= k
    BY ONLY <2>2, <2>4, <2>5, Zenon
  <2> QED BY ONLY <1>1, <1>k, <2>6
<1>8. Len(b) < Len(v) /\ ReadEntry(R, v, Len(b)).err # "ok"
  BY <1>0, <1>1, <1>3, <1>7
<1>9. DecodeAt(d, R, v, m).err # "ok"
  BY <1>3, <1>4, <1>8, DecodeCut
<1> QED BY <1>0, <1>9

Top == 2

DecodeIs(R, b, x) == DecodeAt(Top, R, b, Zero(R)) = Ok(x, Len(b))

\* Only at the ends of entries can the bytes be cut off unnoticed.
CutsKnown(R, b, es) ==
    \A k \in 0..Len(b) :
        DecodeAt(Top, R, SubSeq(b, 1, k), Zero(R)).err = "ok" => \E n \in DOMAIN es : es[n] = k

SendKeeps(R, b, e, u, x, es) ==
    /\ IsReader(Top, R) /\ b \in Slices /\ e \in Slices /\ u \in Slices /\ u = b \o e
    /\ es \in Seq(Nat) /\ DecodeIs(R, b, x) /\ CutsKnown(R, b, es)
    /\ \E z : ReadEntry(R, u, Len(b)) = Ok(z, Len(u))
    => CutsKnown(R, u, Append(es, Len(u)))

\* One more entry adds one place where the bytes can be cut off.
LEMMA SendCuts == \A R, b, e, u, x, es : SendKeeps(R, b, e, u, x, es)
<1> TAKE R, b, e, u, x, es
<1> SUFFICES ASSUME IsReader(Top, R), b \in Slices, e \in Slices, u \in Slices, u = b \o e,
                    es \in Seq(Nat), DecodeIs(R, b, x), CutsKnown(R, b, es),
                    \E z : ReadEntry(R, u, Len(b)) = Ok(z, Len(u))
             PROVE  CutsKnown(R, u, Append(es, Len(u)))
  BY DEF SendKeeps
<1>u. u \in Slices /\ b \in Slices /\ e \in Slices /\ u = b \o e
  OBVIOUS
<1>1. Len(u) \in Nat /\ Len(b) \in Nat /\ Len(e) \in Nat /\ Len(u) = Len(b) + Len(e)
  <2>1. Len(b \o e) = Len(b) + Len(e)
    BY ONLY <1>u, Concat
  <2> QED BY ONLY <1>u, <2>1, SlicesAre
<1>2. Top \in Depths /\ Zero(R) \in MsgsAt(Top, R)
  <2>1. Top \in Depths
    BY DEF Top, Depths
  <2> QED BY <2>1, ZeroType DEF ZeroTyped
<1>3. DecodeAt(Top, R, b, Zero(R)).err = "ok"
  BY DEF DecodeIs, Ok
<1> DEFINE fs == Append(es, Len(u))
<1>4. /\ DOMAIN es \subseteq DOMAIN fs /\ \A n \in DOMAIN es : fs[n] = es[n]
      /\ Len(es) + 1 \in DOMAIN fs /\ fs[Len(es) + 1] = Len(u)
  <2>1. Len(u) \in Nat /\ es \in Seq(Nat)
    BY <1>1
  <2> QED BY ONLY <2>1
<1> HIDE DEF fs
<1> SUFFICES ASSUME NEW k \in 0..Len(u), DecodeAt(Top, R, SubSeq(u, 1, k), Zero(R)).err = "ok"
             PROVE  \E n \in DOMAIN fs : fs[n] = k
  BY DEF CutsKnown, fs
<1>k. k \in Nat /\ k <= Len(u)
  BY <1>1
<1>5. CASE k = Len(u)
  BY <1>4, <1>5
<1>6. CASE k <= Len(b)
  <2>1. SubSeq(u, 1, k) = SubSeq(b, 1, k)
    <3>0. PICK zero : zero = 0 /\ zero \in Nat
      OBVIOUS
    <3>1. zero <= k /\ k <= Len(b)
      BY <1>k, <1>6, <3>0
    <3>2. SameLeft(b, e, zero, k)
      BY <1>u, <1>k, <3>0, <3>1, SliceLeft
    <3>3. SubSeq(b \o e, zero + 1, k) = SubSeq(b, zero + 1, k)
      BY <3>2 DEF SameLeft
    <3>4. zero + 1 = 1
      BY <3>0
    <3> QED BY <1>u, <3>3, <3>4
  <2>2. k \in 0..Len(b)
    BY <1>k, <1>6
  <2>3. PICK n \in DOMAIN es : es[n] = k
    BY <2>1, <2>2 DEF CutsKnown
  <2> QED BY <1>4, <2>3
<1>7. CASE Len(b) < k /\ k < Len(u)
  <2>1. RefusesCut(Top, R, b, e, u, Zero(R), k)
    BY <1>2, CutRefused
  <2>2. DecodeAt(Top, R, SubSeq(u, 1, k), Zero(R)).err # "ok"
    BY <1>2, <1>3, <1>7, <1>k, <2>1, Zenon DEF RefusesCut
  <2> QED BY <2>2
<1>8. k = Len(u) \/ k <= Len(b) \/ (Len(b) < k /\ k < Len(u))
  BY ONLY <1>1, <1>k
<1> QED BY <1>5, <1>6, <1>7, <1>8

-----------------------------------------------------------------------------
\* The decoder has read what was sent as what it says, and can only be cut off
\* at the end of an entry.
WireInv ==
    /\ type \in MessageTypes /\ bytes \in Slices /\ ends \in Seq(Nat) /\ garbled \in BOOLEAN
    /\ \E n \in DOMAIN ends : ends[n] = Len(bytes)
    /\ ~garbled => /\ DecodeIs(type.unmarshal, bytes, expected)
                   /\ CutsKnown(type.unmarshal, bytes, ends)

\* The state of a new message.
Fresh(R) == DecodeIs(R, <<>>, Zero(R)) /\ CutsKnown(R, <<>>, <<0>>)

\* A new message has not been written to.
LEMMA FreshIs == \A R : IsReader(Top, R) => Fresh(R)
<1> TAKE R
<1> HAVE IsReader(Top, R)
<1>1. Top \in Depths /\ Zero(R) \in MsgsAt(Top, R)
  <2>1. Top \in Depths
    BY DEF Top, Depths
  <2> QED BY <2>1, ZeroType DEF ZeroTyped
<1>2. <<>> \in Slices /\ Len(<<>>) = 0
  BY SlicesAre
<1>3. DecodeIs(R, <<>>, Zero(R))
  BY <1>1, <1>2, DecodeEmpty DEF DecodeIs
<1>4. CutsKnown(R, <<>>, <<0>>)
  <2>1. 1 \in DOMAIN <<0>> /\ <<0>>[1] = 0
    OBVIOUS
  <2>2. \A k \in 0..Len(<<>>) : k = 0
    BY <1>2
  <2> QED BY <2>1, <2>2 DEF CutsKnown
<1> QED BY <1>3, <1>4 DEF Fresh

\* The unknown and the malformed entries are bytes.
LEMMA MalformedBytes == \A e \in Malformed \cup Unknowns : e \in Seq(Byte)
<1>1. \A v \in Nat : encodeVarint[v] \in Seq(Byte)
  BY encodeVarintDef
<1>2. \A n \in 0..5 : \A w \in 0..7 : Tag(n, w) \in Seq(Byte)
  BY <1>1 DEF Tag
<1>3. MaxInt \in Nat /\ WordSize - 1 \in Nat /\ WordBits \div VarintBits + 2 \in Nat
      /\ 2 * Base - 1 \in Byte
  BY Widths DEF Byte
<1>4. Tag(1, 2) \in Seq(Byte) /\ Tag(4, 2) \in Seq(Byte) /\ Tag(4, 3) \in Seq(Byte) /\ Tag(5, 2) \in Seq(Byte)
      /\ Tag(4, 4) \in Seq(Byte) /\ Tag(0, 2) \in Seq(Byte) /\ Tag(1, 5) \in Seq(Byte) /\ Tag(4, 6) \in Seq(Byte)
      /\ Tag(4, 0) \in Seq(Byte) /\ Tag(4, 1) \in Seq(Byte) /\ Tag(4, 5) \in Seq(Byte)
      /\ Tag(5, 3) \in Seq(Byte) /\ Tag(5, 4) \in Seq(Byte)
  BY <1>2
<1>5. encodeVarint[MaxInt] \in Seq(Byte) /\ encodeVarint[WordSize - 1] \in Seq(Byte)
  BY <1>1, <1>3
<1>6. Tag(1, 2) \o encodeVarint[MaxInt] \in Seq(Byte)
  BY <1>4, <1>5, BytesConcat, Zenon
<1>7. Tag(1, 2) \o encodeVarint[WordSize - 1] \in Seq(Byte)
  BY <1>4, <1>5, BytesConcat, Zenon
<1>8. Tag(4, 2) \o encodeVarint[MaxInt] \in Seq(Byte)
  BY <1>4, <1>5, BytesConcat, Zenon
<1>9. Tag(4, 3) \o Tag(5, 2) \o encodeVarint[MaxInt] \in Seq(Byte)
  BY <1>4, <1>5, BytesConcat, Zenon
<1>10. [i \in 1..(WordBits \div VarintBits + 2) |-> 2 * Base - 1] \in Seq(Byte)
  BY <1>3
<1>11. \A e \in Malformed : e \in Seq(Byte)
  BY <1>4, <1>6, <1>7, <1>8, <1>9, <1>10, Zenon DEF Malformed
<1>12. Tag(4, 0) \o <<Base, Base, 0>> \in Seq(Byte)
  <2>1. <<Base, Base, 0>> \in Seq(Byte)
    BY Widths DEF Byte
  <2> QED BY <1>4, <2>1, BytesConcat, Zenon
<1>13. Tag(4, 1) \o [i \in 1..8 |-> 10] \in Seq(Byte)
  <2>1. [i \in 1..8 |-> 10] \in Seq(Byte)
    BY Widths DEF Byte
  <2> QED BY <1>4, <2>1, BytesConcat, Zenon
<1>14. Tag(4, 2) \o <<2, 10, 1>> \in Seq(Byte)
  <2>1. <<2, 10, 1>> \in Seq(Byte)
    BY Widths DEF Byte
  <2> QED BY <1>4, <2>1, BytesConcat, Zenon
<1>15. Tag(4, 3) \o <<10, 1, 16>> \o Tag(5, 3) \o Tag(5, 4) \o Tag(4, 4) \in Seq(Byte)
  <2>1. <<10, 1, 16>> \in Seq(Byte)
    BY Widths DEF Byte
  <2>2. Tag(4, 3) \o <<10, 1, 16>> \o Tag(5, 3) \in Seq(Byte)
    BY <1>4, <2>1, BytesConcat, Zenon
  <2> QED BY <1>4, <2>2, BytesConcat, Zenon
<1>16. Tag(4, 5) \o <<12, 12, 12, 12>> \in Seq(Byte)
  <2>1. <<12, 12, 12, 12>> \in Seq(Byte)
    BY Widths DEF Byte
  <2> QED BY <1>4, <2>1, BytesConcat, Zenon
<1>17. \A e \in Unknowns : e \in Seq(Byte)
  BY <1>12, <1>13, <1>14, <1>15, <1>16, Zenon DEF Unknowns
<1> QED BY <1>11, <1>17

\* Nothing has been sent.
LEMMA WireInvInit == Init => WireInv
<1> SUFFICES ASSUME Init PROVE WireInv
  OBVIOUS
<1> USE DEF Init
<1>1. Fresh(type.unmarshal)
  BY TypeReaders, FreshIs DEF Top
<1>2. <<>> \in Slices /\ Len(<<>>) = 0
  BY SlicesAre
<1>3. <<0>> \in Seq(Nat) /\ 1 \in DOMAIN <<0>> /\ <<0>>[1] = 0
  OBVIOUS
<1> QED BY <1>1, <1>2, <1>3 DEF WireInv, Fresh

\* What any Send keeps.
LEMMA SendType ==
    ASSUME WireInv, NEW entry \in Seq(Byte), Send(entry)
    PROVE  /\ type' \in MessageTypes /\ bytes' \in Slices /\ ends' \in Seq(Nat)
           /\ \E n \in DOMAIN ends' : ends'[n] = Len(bytes')
           /\ type' = type /\ bytes' = bytes \o entry /\ ends' = Append(ends, Len(bytes')) /\ entry \in Slices
<1> PICK e, u : e = entry /\ u = bytes'
  OBVIOUS
<1>1. bytes \in Slices /\ ends \in Seq(Nat) /\ type \in MessageTypes
  BY DEF WireInv
<1>2. u = bytes \o entry /\ ends' = Append(ends, Len(u)) /\ Len(bytes \o entry) <= MaxInt /\ type' = type
  BY DEF Send
<1>3. bytes \o entry \in Slices
  <2>1. bytes \in Seq(Byte)
    BY <1>1, SlicesAre
  <2>2. bytes \o entry \in Seq(Byte)
    BY <2>1, BytesConcat, Zenon
  <2> QED BY <1>2, <2>2, SlicesAre, Zenon
<1>4. u \in Slices
  BY <1>2, <1>3
<1>5. Len(u) \in Nat
  BY <1>4, SlicesAre
<1>6. entry \in Slices
  <2>1. bytes \in Seq(Byte)
    BY <1>1, SlicesAre
  <2> QED BY <1>3, <2>1, BackSlice, Zenon
<1>7. /\ Append(ends, Len(u)) \in Seq(Nat) /\ Len(ends) + 1 \in DOMAIN Append(ends, Len(u))
      /\ Append(ends, Len(u))[Len(ends) + 1] = Len(u)
  BY ONLY <1>1, <1>5
<1> QED BY <1>1, <1>2, <1>4, <1>6, <1>7, Zenon

\* One step per kind of entry, and Finish.
LEMMA WireInvStep == WireInv /\ [Next]_vars => WireInv'
<1> SUFFICES ASSUME WireInv, [Next]_vars PROVE WireInv'
  OBVIOUS
<1>0. Top \in Depths /\ Top = 2
  BY TopLevel DEF Top
<1>1. ASSUME NEW w \in Writes(type.unmarshal), SendField(w) PROVE WireInv'
  <2> PICK R, entry : R = type.unmarshal /\ entry = WriteBytes(R, w)
    OBVIOUS
  <2>1. IsReader(Top, R) /\ w \in WritesAt(Top, R) /\ WriteBytesAt(Top, R, w) = entry
    <3>1. type \in MessageTypes
      BY DEF WireInv
    <3> QED BY <1>0, <3>1, TypeReaders, TopLevel
  <2>2. entry \in Seq(Byte)
    BY <1>0, <2>1, BytesType DEF BytesTyped
  <2>3. /\ Send(entry) /\ expected' = Apply(R, expected, w) /\ garbled' = garbled
    BY <1>1 DEF SendField
  <2>4. /\ type' \in MessageTypes /\ bytes' \in Slices /\ ends' \in Seq(Nat)
        /\ \E n \in DOMAIN ends' : ends'[n] = Len(bytes')
        /\ type' = type /\ bytes' = bytes \o entry /\ ends' = Append(ends, Len(bytes')) /\ entry \in Slices
    BY <2>2, <2>3, SendType, Zenon
  <2>5. ASSUME ~garbled
        PROVE  DecodeIs(R, bytes', expected') /\ CutsKnown(R, bytes', ends')
    <3> PICK b, u, es, x : b = bytes /\ u = bytes' /\ es = ends /\ x = expected
      OBVIOUS
    <3>1. /\ b \in Slices /\ u \in Slices /\ es \in Seq(Nat)
          /\ DecodeIs(R, b, x) /\ CutsKnown(R, b, es)
      BY <2>4, <2>5 DEF WireInv
    <3>2. Zero(R) \in MsgsAt(Top, R)
      BY <1>0, <2>1, ZeroType DEF ZeroTyped
    <3>3. u = b \o WriteBytesAt(Top, R, w)
      BY <2>1, <2>4
    <3>4. DecodeAt(Top, R, u, Zero(R)) = Ok(ApplyAt(Top, R, x, w), Len(u))
      <4>1. ReadsWrite(Top, R, w, b, u, Zero(R), x)
        BY <1>0, WriteReads DEF WriteRead
      <4> QED BY <2>1, <3>1, <3>2, <3>3, <4>1, Zenon DEF ReadsWrite, DecodeIs
    <3>5. DecodeIs(R, u, expected')
      <4>1. ApplyAt(Top, R, x, w) = Apply(R, x, w)
        BY <1>0, TopLevel
      <4>2. Ok(Apply(R, x, w), Len(u)) = Ok(expected', Len(u))
        BY <2>3
      <4> QED BY <3>4, <4>1, <4>2 DEF DecodeIs
    <3>6. \E z : ReadEntry(R, u, Len(b)) = Ok(z, Len(u))
      <4>1. entry = WriteBytesAt(Top, R, w) /\ u = b \o entry
        BY <2>1, <2>4
      <4>2. WrittenEntry(Top, R, w, b, u, entry)
        BY <1>0, <2>1, <3>1, <4>1, WriteEntry, Zenon
      <4> QED BY <4>2 DEF WrittenEntry
    <3>7. CutsKnown(R, u, Append(es, Len(u)))
      <4>1. SendKeeps(R, b, entry, u, x, es)
        BY SendCuts
      <4>2. u = b \o entry /\ entry \in Slices
        BY <2>4
      <4> QED BY <2>1, <3>1, <3>6, <4>1, <4>2, Zenon DEF SendKeeps
    <3> QED BY <2>4, <3>5, <3>7
  <2> QED BY <2>3, <2>4, <2>5 DEF WireInv
<1>2. ASSUME NEW entry \in Unknowns, SendUnknown(entry) PROVE WireInv'
  <2> PICK R : R = type.unmarshal
    OBVIOUS
  <2>1. IsReader(Top, R) /\ IsTable(R)
    <3>1. type \in MessageTypes
      BY DEF WireInv
    <3>2. IsReader(Top, R)
      BY <1>0, <3>1, TypeReaders
    <3> QED BY <1>0, <3>2, ReaderIs DEF ReaderFacts
  <2>2. entry \in Seq(Byte)
    BY MalformedBytes
  <2>3. Send(entry) /\ expected' = expected /\ garbled' = garbled
    BY <1>2 DEF SendUnknown
  <2>4. /\ type' \in MessageTypes /\ bytes' \in Slices /\ ends' \in Seq(Nat)
        /\ \E n \in DOMAIN ends' : ends'[n] = Len(bytes')
        /\ type' = type /\ bytes' = bytes \o entry /\ ends' = Append(ends, Len(bytes')) /\ entry \in Slices
    BY <2>2, <2>3, SendType, Zenon
  <2>5. ASSUME ~garbled
        PROVE  DecodeIs(R, bytes', expected') /\ CutsKnown(R, bytes', ends')
    <3> PICK b, u, es, x, num : b = bytes /\ u = bytes' /\ es = ends /\ x = expected /\ num = 0
      OBVIOUS
    <3>1. /\ b \in Slices /\ u \in Slices /\ es \in Seq(Nat)
          /\ DecodeIs(R, b, x) /\ CutsKnown(R, b, es)
      BY <2>4, <2>5 DEF WireInv
    <3>2. Zero(R) \in MsgsAt(Top, R)
      BY <1>0, <2>1, ZeroType DEF ZeroTyped
    <3>3. u = b \o entry /\ entry \in Slices
      BY <2>4
    <3>4. ReadEntry(R, u, Len(b)) = Ok([num |-> num, data |-> <<>>], Len(u))
      <4>1. IsUnknown(entry)
        BY <3>3, UnknownsAre
      <4>2. b \o entry \in Slices
        BY <3>1, <3>3
      <4>3. ReadEntry(R, b \o entry, Len(b)) = Ok([num |-> 0, data |-> <<>>], Len(b \o entry))
        BY <2>1, <3>1, <4>1, <4>2, UnknownWritten, Zenon
      <4> QED BY <3>3, <4>3
    <3>5. DecodeIs(R, u, expected')
      <4>1. DecodeAt(Top, R, b, Zero(R)) = Ok(x, Len(b))
        BY <3>1 DEF DecodeIs
      <4>2. Extends(Top, R, Zero(R), u, x, num, <<>>)
        BY <1>0, <2>1, <3>1, <3>2, <3>3, <3>4, <4>1, DecodeSnoc, Zenon
      <4>3. DecodeAt(Top, R, u, Zero(R)) = Ok(x, Len(u))
        BY <4>2 DEF Extends
      <4> QED BY <2>3, <4>3 DEF DecodeIs
    <3>6. \E z : ReadEntry(R, u, Len(b)) = Ok(z, Len(u))
      BY <3>4
    <3>7. CutsKnown(R, u, Append(es, Len(u)))
      <4>1. SendKeeps(R, b, entry, u, x, es)
        BY SendCuts
      <4> QED BY <2>1, <3>1, <3>3, <3>6, <4>1, Zenon DEF SendKeeps
    <3> QED BY <2>4, <3>5, <3>7
  <2> QED BY <2>3, <2>4, <2>5 DEF WireInv
<1>3. ASSUME NEW entry \in Malformed, SendMalformed(entry) PROVE WireInv'
  <2>1. Send(entry) /\ garbled' = TRUE
    BY <1>3 DEF SendMalformed
  <2>2. entry \in Seq(Byte)
    BY MalformedBytes
  <2>3. /\ type' \in MessageTypes /\ bytes' \in Slices /\ ends' \in Seq(Nat)
        /\ \E n \in DOMAIN ends' : ends'[n] = Len(bytes')
    BY <2>1, <2>2, SendType, Zenon
  <2> QED BY <2>1, <2>3 DEF WireInv
<1>4. CASE Finish
  <2>1. /\ type' \in MessageTypes /\ bytes' = <<>> /\ ends' = <<0>> /\ garbled' = FALSE
        /\ expected' = Zero(type'.unmarshal)
    BY <1>4 DEF Finish
  <2>2. Fresh(type'.unmarshal)
    BY <1>0, <2>1, TypeReaders, FreshIs
  <2>3. <<>> \in Slices /\ Len(<<>>) = 0
    BY SlicesAre
  <2>4. <<0>> \in Seq(Nat) /\ 1 \in DOMAIN <<0>> /\ <<0>>[1] = 0
    OBVIOUS
  <2> QED BY <2>1, <2>2, <2>3, <2>4 DEF WireInv, Fresh
<1>5. CASE UNCHANGED vars
  <2>1. type' = type /\ bytes' = bytes /\ ends' = ends /\ garbled' = garbled /\ expected' = expected
    BY <1>5 DEF vars
  <2> QED BY <2>1 DEF WireInv
<1> QED BY <1>1, <1>2, <1>3, <1>4, <1>5 DEF Next

\* What a decoder makes of the bytes sent so far is what their entries say, and the
\* ends of entries are the only places where they can be cut off unnoticed: holds
\* after every Send, for the Unmarshal of every message type (the .pb.go files).
THEOREM WireInvariant == Spec => []WireInv
<1>1. Init => WireInv
  BY WireInvInit
<1>2. WireInv /\ [Next]_vars => WireInv'
  BY WireInvStep
<1> QED BY <1>1, <1>2, PTL DEF Spec

\* Unmarshal computes what the fields say, whatever their order and number and
\* whatever unknown entries lie between them: the field loops and the skip functions
\* of the .pb.go files, for every message type, all widths and all contents.
THEOREM DecodeIsLastWriteHolds == Spec => []DecodeIsLastWrite
<1>1. WireInv => DecodeIsLastWrite
  <2> SUFFICES ASSUME WireInv, ~garbled PROVE Unmarshal(type, bytes) = Ok(expected, Len(bytes))
    BY DEF DecodeIsLastWrite
  <2>1. DecodeIs(type.unmarshal, bytes, expected)
    BY DEF WireInv
  <2> QED BY <2>1, TopLevel DEF DecodeIs, Top
<1> QED BY <1>1, WireInvariant, PTL

\* Every Unmarshal of the .pb.go files, on any bytes at all, ends with a message of
\* its type read to the last byte or with one of its errors: never with a panic, and
\* never without an end.
THEOREM UnmarshalEnds ==
    \A t \in MessageTypes : \A b \in Slices :
        LET r == Unmarshal(t, b)
        IN  r.err \in {"ok"} \cup Errors /\ (r.err = "ok" => r = Ok(r.val, Len(b)) /\ r.val \in MsgsAt(2, t.unmarshal))
<1> TAKE t \in MessageTypes
<1> TAKE b \in Slices
<1> PICK R : R = t.unmarshal
  OBVIOUS
<1>1. IsReader(2, R) /\ 2 \in Depths
  BY TypeReaders, TopLevel
<1>2. Zero(R) \in MsgsAt(2, R)
  BY <1>1, ZeroType DEF ZeroTyped
<1>3. ResultFacts(2, R, b, DecodeAt(2, R, b, Zero(R)))
  BY <1>1, <1>2, DecodeType DEF DecodeTyped
<1>4. Unmarshal(t, b) = DecodeAt(2, R, b, Zero(R))
  BY TopLevel
<1> QED BY <1>3, <1>4 DEF ResultFacts

\* Whatever bytes arrive, cut off wherever, Unmarshal neither panics nor runs on,
\* and it refuses bytes cut off inside an entry (the checks on negative lengths and
\* overflowing indexes in every Unmarshal and skip function).
THEOREM TruncationIsDetected == Spec => []TruncationDetected
<1>1. WireInv => TruncationDetected
  <2> SUFFICES ASSUME WireInv, NEW k \in 0..Len(bytes)
               PROVE  /\ Unmarshal(type, Prefix(k)).err \notin {"panic", "more"}
                      /\ ~garbled /\ Unmarshal(type, Prefix(k)).err = "ok" => \E n \in DOMAIN ends : ends[n] = k
    BY DEF TruncationDetected
  <2>1. type \in MessageTypes /\ bytes \in Slices
    BY DEF WireInv
  <2>2. Prefix(k) \in Slices
    <3>1. Len(bytes) \in Nat
      BY <2>1, SlicesAre
    <3>2. k \in Nat /\ k <= Len(bytes)
      BY <3>1
    <3>3. SubSeq(bytes, 1, k) \in Slices
      BY <2>1, <3>2, SliceSplit
    <3> QED BY <3>3 DEF Prefix
  <2>3. Unmarshal(type, Prefix(k)).err \notin {"panic", "more"}
    BY <2>1, <2>2, UnmarshalEnds DEF Errors
  <2>4. ASSUME ~garbled, Unmarshal(type, Prefix(k)).err = "ok" PROVE \E n \in DOMAIN ends : ends[n] = k
    <3>1. CutsKnown(type.unmarshal, bytes, ends)
      BY <2>4 DEF WireInv
    <3>2. DecodeAt(2, type.unmarshal, SubSeq(bytes, 1, k), Zero(type.unmarshal)).err = "ok"
      BY <2>4, TopLevel DEF Prefix
    <3> QED BY <3>1, <3>2 DEF CutsKnown, Top
  <2> QED BY <2>3, <2>4
<1> QED BY <1>1, WireInvariant, PTL

(* Writing.                                                                *)

\* g[k] is what the first k strings of s make together.
IsGlue(g, s) ==
    /\ g \in [0..Len(s) -> Seq(Byte)] /\ g[0] = <<>>
    /\ \A k \in 0..(Len(s) - 1) : g[k + 1] = g[k] \o s[k + 1]

\* Strings can be put together one by one.
LEMMA GlueExists ==
    ASSUME NEW s \in Seq(Seq(Byte))
    PROVE  \E g : IsGlue(g, s)
<1> DEFINE Solves(g, n) == /\ g \in [0..n -> Seq(Byte)] /\ g[0] = <<>>
                           /\ \A k \in 0..(n - 1) : g[k + 1] = g[k] \o s[k + 1]
           X == {n \in Nat : n <= Len(s) => \E g : Solves(g, n)}
<1>1. 0 \in X
  <2>1. Solves([k \in 0..0 |-> <<>>], 0)
    OBVIOUS
  <2> QED BY <2>1
<1> HIDE DEF Solves
<1>2. ASSUME NEW n \in Nat, n \in X PROVE n + 1 \in X
  <2> SUFFICES ASSUME n + 1 <= Len(s) PROVE \E e : Solves(e, n + 1)
    OBVIOUS
  <2>0. PICK g : Solves(g, n)
    BY <1>2
  <2>1. g \in [0..n -> Seq(Byte)] /\ g[0] = <<>> /\ \A k \in 0..(n - 1) : g[k + 1] = g[k] \o s[k + 1]
    BY <2>0 DEF Solves
  <2>s. s[n + 1] \in Seq(Byte)
    OBVIOUS
  <2>g. g[n] \in Seq(Byte)
    BY <2>1
  <2>c. g[n] \o s[n + 1] \in Seq(Byte)
    BY <2>s, <2>g, BytesConcat, Zenon
  <2> DEFINE x == g[n] \o s[n + 1]
             e == [k \in 0..(n + 1) |-> IF k = n + 1 THEN x ELSE g[k]]
  <2> HIDE DEF x
  <2>2. e \in [0..(n + 1) -> Seq(Byte)]
    BY <2>1, <2>c DEF x
  <2>3. e[0] = <<>>
    BY <2>1
  <2>4. ASSUME NEW k \in 0..n PROVE e[k + 1] = e[k] \o s[k + 1]
    <3>1. CASE k = n
      <4>1. e[k + 1] = x /\ e[k] = g[n]
        BY <3>1
      <4> QED BY <3>1, <4>1 DEF x
    <3>2. CASE k < n
      <4>1. e[k + 1] = g[k + 1] /\ e[k] = g[k]
        BY <3>2
      <4>2. g[k + 1] = g[k] \o s[k + 1]
        <5>1. k \in 0..(n - 1)
          BY <3>2
        <5> QED BY ONLY <2>1, <5>1
      <4> HIDE DEF e
      <4> QED BY <4>1, <4>2
    <3>3. k = n \/ k < n
      OBVIOUS
    <3> QED BY ONLY <3>1, <3>2, <3>3
  <2>5. Solves(e, n + 1)
    <3>1. \A k \in 0..((n + 1) - 1) : e[k + 1] = e[k] \o s[k + 1]
      <4>1. (n + 1) - 1 = n
        OBVIOUS
      <4> HIDE DEF e
      <4> QED BY <2>4, <4>1
    <3> HIDE DEF e
    <3> QED BY <2>2, <2>3, <3>1 DEF Solves
  <2> HIDE DEF e
  <2> QED BY <2>5
<1>3. \A n \in Nat : n \in X
  <2> HIDE DEF X
  <2> QED BY <1>1, <1>2, NatSetInduction
<1>4. Len(s) \in Nat
  OBVIOUS
<1>5. \E g : Solves(g, Len(s))
  BY <1>3, <1>4
<1> QED BY <1>5 DEF IsGlue, Solves

\* FlattenSeq puts them together.
LEMMA FlattenIs ==
    ASSUME NEW s \in Seq(Seq(Byte)), NEW g, IsGlue(g, s)
    PROVE  FlattenSeq(s) = g[Len(s)]
<1>0. Len(s) \in Nat
  OBVIOUS
<1>1. CASE Len(s) = 0
  <2>1. s = <<>>
    BY <1>1
  <2> QED BY <1>1, <2>1 DEF FlattenSeq, IsGlue
<1>2. CASE Len(s) # 0
  <2> DEFINE Eq(f) == f = [i \in 1..Len(s) |-> IF i = 1 THEN s[i] ELSE f[i - 1] \o s[i]]
             flat == CHOOSE f : Eq(f)
             e == [i \in 1..Len(s) |-> g[i]]
  <2>1. ASSUME NEW i \in 1..Len(s) PROVE g[i] = IF i = 1 THEN s[i] ELSE g[i - 1] \o s[i]
    <3>1. i - 1 \in 0..(Len(s) - 1) /\ (i - 1) + 1 = i
      BY <1>0
    <3>2. g[i] = g[i - 1] \o s[i]
      BY <3>1 DEF IsGlue
    <3>3. ASSUME i = 1 PROVE g[i - 1] \o s[i] = s[i]
      <4>1. g[i - 1] = <<>> /\ s[i] \in Seq(Byte)
        BY <3>3 DEF IsGlue
      <4>2. <<>> \o s[i] = s[i]
        BY <4>1, SeqConcat, Zenon
      <4> QED BY <4>1, <4>2
    <3> QED BY <3>2, <3>3
  <2>2. Eq(e)
    <3>1. \A i \in 1..Len(s) : i # 1 => i - 1 \in 1..Len(s)
      BY <1>0
    <3> QED BY <2>1, <3>1
  <2>3. Eq(flat)
    <3> HIDE DEF Eq, e
    <3> QED BY <2>2
  <2>4. FlattenSeq(s) = flat[Len(s)]
    BY <1>2 DEF FlattenSeq
  <2> HIDE DEF flat
  <2> DEFINE X == {n \in Nat : n + 1 <= Len(s) => flat[n + 1] = g[n + 1]}
  <2>5. 0 \in X
    <3>1. 1 \in 1..Len(s)
      BY <1>0, <1>2
    <3>2. flat[1] = s[1] /\ g[1] = s[1]
      BY <2>1, <2>3, <3>1
    <3> QED BY <3>2
  <2>6. ASSUME NEW n \in Nat, n \in X PROVE n + 1 \in X
    <3> SUFFICES ASSUME (n + 1) + 1 <= Len(s) PROVE flat[(n + 1) + 1] = g[(n + 1) + 1]
      OBVIOUS
    <3>0. PICK i : i = n + 2 /\ i \in 1..Len(s) /\ i # 1 /\ i - 1 = n + 1 /\ i = (n + 1) + 1
      BY <1>0
    <3>1. flat[i - 1] = g[i - 1]
      BY <1>0, <2>6, <3>0
    <3>2. flat[i] = flat[i - 1] \o s[i]
      BY <2>3, <3>0
    <3>3. g[i] = g[i - 1] \o s[i]
      BY <2>1, <3>0
    <3>4. flat[i] = g[i]
      BY ONLY <3>1, <3>2, <3>3
    <3> QED BY ONLY <3>0, <3>4
  <2>7. \A n \in Nat : n \in X
    <3> HIDE DEF X
    <3> QED BY <2>5, <2>6, NatSetInduction
  <2>8. Len(s) - 1 \in Nat /\ (Len(s) - 1) + 1 = Len(s)
    BY <1>0, <1>2
  <2>9. flat[Len(s)] = g[Len(s)]
    <3>0. PICK n : n = Len(s) - 1
      OBVIOUS
    <3>a. n \in Nat /\ n + 1 = Len(s) /\ n + 1 <= Len(s)
      BY ONLY <1>0, <2>8, <3>0
    <3>b. n \in X
      <4> HIDE DEF X
      <4> QED BY <2>7, <3>a
    <3>1. n \in X /\ n + 1 = Len(s) /\ n + 1 <= Len(s)
      <4> HIDE DEF X
      <4> QED BY <3>a, <3>b
    <3>2. flat[n + 1] = g[n + 1]
      BY <3>1
    <3> QED BY ONLY <3>1, <3>2
  <2> QED BY <2>4, <2>9
<1> QED BY <1>1, <1>2

\* The lengths of the strings add up.
LEMMA GlueLen ==
    ASSUME NEW s \in Seq(Seq(Byte)), NEW g, IsGlue(g, s),
           NEW f, \A k \in 1..Len(s) : f[k] = Len(s[k])
    PROVE  Len(g[Len(s)]) = Sum(f, 1..Len(s))
<1>0. Len(s) \in Nat
  OBVIOUS
<1> DEFINE X == {n \in Nat : n <= Len(s) => Len(g[n]) = Sum(f, 1..n)}
<1>1. 0 \in X
  <2>1. 1..0 = {}
    OBVIOUS
  <2>2. Len(g[0]) = 0
    BY DEF IsGlue
  <2> QED BY <2>1, <2>2, SumEmpty
<1>2. ASSUME NEW n \in Nat, n \in X PROVE n + 1 \in X
  <2> SUFFICES ASSUME n + 1 <= Len(s) PROVE Len(g[n + 1]) = Sum(f, 1..(n + 1))
    OBVIOUS
  <2>1. g[n] \in Seq(Byte) /\ s[n + 1] \in Seq(Byte) /\ g[n + 1] = g[n] \o s[n + 1]
    <3>1. n \in 0..(Len(s) - 1) /\ n \in 0..Len(s)
      BY <1>0
    <3>2. \A x \in 1..Len(s) : s[x] \in Seq(Byte)
      OBVIOUS
    <3>3. n + 1 \in 1..Len(s)
      BY <1>0
    <3>4. g \in [0..Len(s) -> Seq(Byte)] /\ \A k \in 0..(Len(s) - 1) : g[k + 1] = g[k] \o s[k + 1]
      BY DEF IsGlue
    <3> QED BY ONLY <3>1, <3>2, <3>3, <3>4
  <2>2. Len(g[n + 1]) = Len(g[n]) + Len(s[n + 1])
    <3>0. \A a, b \in Seq(Byte) : Len(a \o b) = Len(a) + Len(b)
      BY SeqConcat, Zenon
    <3>1. Len(g[n] \o s[n + 1]) = Len(g[n]) + Len(s[n + 1])
      BY ONLY <2>1, <3>0, Zenon
    <3> QED BY ONLY <2>1, <3>1
  <2>3. IsFiniteSet(1..n) /\ n + 1 \notin 1..n /\ 1..(n + 1) = (1..n) \cup {n + 1}
    <3>1. IsFiniteSet(1..n)
      BY FS_Interval
    <3> QED BY <3>1
  <2>4. \A x \in (1..n) \cup {n + 1} : f[x] \in Int
    <3>1. \A x \in 1..Len(s) : s[x] \in Seq(Byte) /\ Len(s[x]) \in Int
      OBVIOUS
    <3>2. \A x \in (1..n) \cup {n + 1} : x \in 1..Len(s)
      BY <1>0
    <3> QED BY <3>1, <3>2
  <2>5. Sum(f, (1..n) \cup {n + 1}) = f[n + 1] + Sum(f, 1..n)
    BY <2>3, <2>4, SumAdd
  <2>6. f[n + 1] = Len(s[n + 1]) /\ Len(s[n + 1]) \in Nat /\ Len(g[n]) \in Nat
    BY <1>0, <2>1
  <2>7. Len(g[n]) = Sum(f, 1..n)
    BY <1>0, <1>2
  <2> DEFINE a == Len(g[n]) b == Len(s[n + 1])
  <2> HIDE DEF a, b
  <2>8. Len(g[n + 1]) = a + b /\ Sum(f, 1..(n + 1)) = b + a /\ a \in Nat /\ b \in Nat
    BY <2>2, <2>3, <2>5, <2>6, <2>7 DEF a, b
  <2> QED BY ONLY <2>8
<1>3. \A n \in Nat : n \in X
  <2> HIDE DEF X
  <2> QED BY <1>1, <1>2, NatSetInduction
<1> QED BY <1>0, <1>3

\* Total is the sum of the sizes.
LEMMA TotalIs == \A f, n : DOMAIN f = 1..n => Total(f) = Sum(f, 1..n)
BY DEF Total, Sum

(* The three tables of a message type fit together.                        *)
CodedOf(W, S, R, Inner(_, _, _)) ==
    /\ IsTable(R) /\ DOMAIN W = 1..Len(R) /\ DOMAIN S = 1..Len(R)
    /\ \A i \in 1..Len(R) :
          /\ W[i].kind = R[i].kind /\ S[i].kind = R[i].kind /\ W[i].tag = i * 8 + R[i].wire
          /\ Nested(R[i]) => Inner(W[i].of, S[i].of, R[i].of)

Coded0(W, S, R) == Reader0(R) /\ CodedOf(W, S, R, LAMBDA w, s, r : FALSE)
Coded1(W, S, R) == Reader1(R) /\ CodedOf(W, S, R, Coded0)
Coded2(W, S, R) == Reader2(R) /\ CodedOf(W, S, R, Coded1)
IsCoded(d, W, S, R) ==
    IF d = 0 THEN Coded0(W, S, R) ELSE IF d = 1 THEN Coded1(W, S, R) ELSE Coded2(W, S, R)

FitAt(d, w, s, f, i) ==
    /\ w.kind = f.kind /\ s.kind = f.kind /\ w.tag = i * 8 + f.wire
    /\ Nested(f) => d > 0 /\ d - 1 \in Depths /\ IsCoded(d - 1, w.of, s.of, f.of)

CodedFacts(d, W, S, R) ==
    /\ IsReader(d, R) /\ IsTable(R) /\ DOMAIN W = 1..Len(R) /\ DOMAIN S = 1..Len(R)
    /\ \A i \in 1..Len(R) : FitAt(d, W[i], S[i], R[i], i)

\* What fitting tables have for each field.
LEMMA CodedIs == \A d \in Depths : \A W, S, R : IsCoded(d, W, S, R) <=> CodedFacts(d, W, S, R)
<1> TAKE d \in Depths
<1> TAKE W, S, R
<1>1. CASE d = 0
  <2>1. IsReader(d, R) <=> Reader0(R)
    BY <1>1 DEF IsReader
  <2>2. Reader0(R) => IsTable(R)
    BY DEF Reader0, ReaderOf
  <2> QED BY <1>1, <2>1, <2>2 DEF IsCoded, Coded0, CodedOf, CodedFacts, FitAt
<1>2. CASE d = 1
  <2>1. IsReader(d, R) <=> Reader1(R)
    BY <1>2 DEF IsReader
  <2>2. d > 0 /\ d - 1 \in Depths /\ \A w, s, r : IsCoded(d - 1, w, s, r) <=> Coded0(w, s, r)
    BY <1>2 DEF IsCoded, Depths
  <2>3. IsCoded(d, W, S, R) <=> Coded1(W, S, R)
    BY <1>2 DEF IsCoded
  <2> QED BY <2>1, <2>2, <2>3 DEF Coded1, CodedOf, CodedFacts, FitAt
<1>3. CASE d = 2
  <2>1. IsReader(d, R) <=> Reader2(R)
    BY <1>3 DEF IsReader
  <2>2. d > 0 /\ d - 1 \in Depths /\ \A w, s, r : IsCoded(d - 1, w, s, r) <=> Coded1(w, s, r)
    BY <1>3 DEF IsCoded, Depths
  <2>3. IsCoded(d, W, S, R) <=> Coded2(W, S, R)
    BY <1>3 DEF IsCoded
  <2> QED BY <2>1, <2>2, <2>3 DEF Coded2, CodedOf, CodedFacts, FitAt
<1> QED BY <1>1, <1>2, <1>3 DEF Depths

-----------------------------------------------------------------------------
(* The encoders by depth.                                                  *)
MarshalAt(d, W, m) ==
    IF d = 0 THEN Marshal0(W, m) ELSE IF d = 1 THEN Marshal1(W, m) ELSE MarshalToSizedBuffer(W, m)
SizeAt(d, S, m) == IF d = 0 THEN Size0(S, m) ELSE IF d = 1 THEN Size1(S, m) ELSE Size(S, m)
NilAt(d, R, m) ==
    IF d = 0 THEN NilIsZero0(R, m) ELSE IF d = 1 THEN NilIsZero1(R, m) ELSE NilIsZero(R, m)

InnerBytes(d, of, e) == IF d = 0 THEN <<>> ELSE MarshalAt(d - 1, of, e)
InnerSize(d, of, e) == IF d = 0 THEN 0 ELSE SizeAt(d - 1, of, e)
InnerNil(d, of, e) == IF d = 0 THEN e ELSE NilAt(d - 1, of, e)

FieldOut(d, f, v) ==
    FieldBytes(f, v, [k \in DOMAIN Embedded(f, v) |-> InnerBytes(d, f.of, Embedded(f, v)[k])])
FieldLen(d, f, v) ==
    FieldSize(f, v, [k \in DOMAIN Embedded(f, v) |-> InnerSize(d, f.of, Embedded(f, v)[k])])
NilField(d, f, v) ==
    CASE f.kind = "int"      -> IntMarshal(v)
      [] f.kind = "message"  -> InnerNil(d, f.of, v)
      [] f.kind = "repeated" -> [k \in DOMAIN v |-> InnerNil(d, f.of, v[k])]
      [] OTHER -> v

\* The encoder writes field after field.
LEMMA MarshalIs ==
    \A d \in Depths : \A W, m : MarshalAt(d, W, m) = FlattenSeq([i \in DOMAIN W |-> FieldOut(d, W[i], m[i])])
<1> TAKE d \in Depths
<1> TAKE W, m
<1>1. CASE d = 0
  <2>1. \A of, e : InnerBytes(d, of, e) = <<>>
    BY <1>1 DEF InnerBytes
  <2>2. MarshalAt(d, W, m) = Marshal0(W, m)
    BY <1>1 DEF MarshalAt
  <2> QED BY <2>1, <2>2 DEF Marshal0, MarshalFields, FieldOut
<1>2. CASE d = 1
  <2>1. \A of, e : InnerBytes(d, of, e) = Marshal0(of, e)
    BY <1>2 DEF InnerBytes, MarshalAt
  <2>2. MarshalAt(d, W, m) = Marshal1(W, m)
    BY <1>2 DEF MarshalAt
  <2> QED BY <2>1, <2>2 DEF Marshal1, MarshalFields, FieldOut
<1>3. CASE d = 2
  <2>1. \A of, e : InnerBytes(d, of, e) = Marshal1(of, e)
    BY <1>3 DEF InnerBytes, MarshalAt
  <2>2. MarshalAt(d, W, m) = MarshalToSizedBuffer(W, m)
    BY <1>3 DEF MarshalAt
  <2> QED BY <2>1, <2>2 DEF MarshalToSizedBuffer, MarshalFields, FieldOut
<1> QED BY <1>1, <1>2, <1>3 DEF Depths

\* The size is the sum of the sizes of the fields.
LEMMA SizeIs ==
    \A d \in Depths : \A S, m : SizeAt(d, S, m) = Total([i \in DOMAIN S |-> FieldLen(d, S[i], m[i])])
<1> TAKE d \in Depths
<1> TAKE S, m
<1>1. CASE d = 0
  <2>1. \A of, e : InnerSize(d, of, e) = 0
    BY <1>1 DEF InnerSize
  <2>2. SizeAt(d, S, m) = Size0(S, m)
    BY <1>1 DEF SizeAt
  <2> QED BY <2>1, <2>2 DEF Size0, SizeFields, FieldLen
<1>2. CASE d = 1
  <2>1. \A of, e : InnerSize(d, of, e) = Size0(of, e)
    BY <1>2 DEF InnerSize, SizeAt
  <2>2. SizeAt(d, S, m) = Size1(S, m)
    BY <1>2 DEF SizeAt
  <2> QED BY <2>1, <2>2 DEF Size1, SizeFields, FieldLen
<1>3. CASE d = 2
  <2>1. \A of, e : InnerSize(d, of, e) = Size1(of, e)
    BY <1>3 DEF InnerSize, SizeAt
  <2>2. SizeAt(d, S, m) = Size(S, m)
    BY <1>3 DEF SizeAt
  <2> QED BY <2>1, <2>2 DEF Size, SizeFields, FieldLen
<1> QED BY <1>1, <1>2, <1>3 DEF Depths

\* Nil numbers are written out field by field.
LEMMA NilIs ==
    \A d \in Depths : \A R, m : NilAt(d, R, m) = [i \in DOMAIN R |-> NilField(d, R[i], m[i])]
<1> TAKE d \in Depths
<1> TAKE R, m
<1>1. CASE d = 0
  <2>1. \A of, e : InnerNil(d, of, e) = e
    BY <1>1 DEF InnerNil
  <2>2. NilAt(d, R, m) = NilIsZero0(R, m)
    BY <1>1 DEF NilAt
  <2> QED BY <2>1, <2>2 DEF NilIsZero0, NilIsZeroOf, NilField
<1>2. CASE d = 1
  <2>1. \A of, e : InnerNil(d, of, e) = NilIsZero0(of, e)
    BY <1>2 DEF InnerNil, NilAt
  <2>2. NilAt(d, R, m) = NilIsZero1(R, m)
    BY <1>2 DEF NilAt
  <2> QED BY <2>1, <2>2 DEF NilIsZero1, NilIsZeroOf, NilField
<1>3. CASE d = 2
  <2>1. \A of, e : InnerNil(d, of, e) = NilIsZero1(of, e)
    BY <1>3 DEF InnerNil, NilAt
  <2>2. NilAt(d, R, m) = NilIsZero(R, m)
    BY <1>3 DEF NilAt
  <2> QED BY <2>1, <2>2 DEF NilIsZero, NilIsZeroOf, NilField
<1> QED BY <1>1, <1>2, <1>3 DEF Depths

(* Sizes.                                                                  *)

\* n is the length of b, if it is an int.
Sized(b, n) == b \in Seq(Byte) /\ n \in Nat /\ (n <= MaxInt => Len(b) = n)

\* A varint has at least one byte.
LEMMA SovType == \A n \in Nat : sov(n) \in Nat /\ sov(n) >= 1
<1> TAKE n \in Nat
<1> DEFINE w == n % WordSize
<1>1. WordSize \in Nat \ {0}
  BY Widths
<1>2. w \in Nat /\ w < WordSize /\ w % WordSize = w
  <2>1. w \in 0..(WordSize - 1)
    BY <1>1
  <2> HIDE DEF w
  <2> QED BY <1>1, <2>1
<1>3. sov(n) = sov(w)
  <2>1. sov(n) = LET bits == IF w = 0 THEN 1 ELSE Len64(w) IN (bits + VarintBits - 1) \div VarintBits
    BY DEF sov
  <2> HIDE DEF w
  <2>2. sov(w) = LET bits == IF w = 0 THEN 1 ELSE Len64(w) IN (bits + VarintBits - 1) \div VarintBits
    BY <1>2 DEF sov
  <2> QED BY <2>1, <2>2
<1> HIDE DEF w
<1>4. sov(w) = Len(encodeVarint[w]) /\ Len(encodeVarint[w]) \in Nat /\ Len(encodeVarint[w]) >= 1
  BY <1>2, Encoded
<1> QED BY <1>3, <1>4

\* A byte is a sequence of one.
LEMMA ByteSeq == \A t \in Byte : <<t>> \in Seq(Byte) /\ Len(<<t>>) = 1
OBVIOUS

\* A delimited block has its size.
LEMMA SizedDelimited ==
    ASSUME NEW tag \in Byte, NEW b, NEW n, Sized(b, n)
    PROVE  Sized(Delimited(tag, b), DelimitedSize(n))
<1>1. b \in Seq(Byte) /\ n \in Nat
  BY DEF Sized
<1>2. Len(b) \in Nat
  BY <1>1
<1>3. encodeVarint[Len(b)] \in Seq(Byte) /\ <<tag>> \in Seq(Byte) /\ Len(<<tag>>) = 1
  BY <1>2, encodeVarintDef, ByteSeq
<1> PICK t, e : t = <<tag>> /\ e = encodeVarint[Len(b)]
  OBVIOUS
<1>4. t \in Seq(Byte) /\ e \in Seq(Byte) /\ Len(t) = 1
  BY <1>3
<1>5. t \o e \in Seq(Byte)
  BY <1>4, BytesConcat, Zenon
<1>6. Delimited(tag, b) = (t \o e) \o b
  BY DEF Delimited
<1>7. Delimited(tag, b) \in Seq(Byte)
  BY <1>1, <1>5, <1>6, BytesConcat, Zenon
<1>8. Len(Delimited(tag, b)) = Len(t) + Len(e) + Len(b)
  <2>0. \A x, y \in Seq(Byte) : Len(x \o y) = Len(x) + Len(y)
    BY SeqConcat, Zenon
  <2>1. Len((t \o e) \o b) = Len(t \o e) + Len(b)
    BY ONLY <1>1, <1>5, <2>0, Zenon
  <2>2. Len(t \o e) = Len(t) + Len(e)
    BY ONLY <1>4, <2>0, Zenon
  <2> QED BY ONLY <1>6, <2>1, <2>2, Zenon
<1>9. DelimitedSize(n) = 1 + n + sov(n) /\ sov(n) \in Nat
  BY <1>1, SovType DEF DelimitedSize
<1>10. ASSUME DelimitedSize(n) <= MaxInt PROVE Len(Delimited(tag, b)) = DelimitedSize(n)
  <2>1. n <= MaxInt /\ n < WordSize
    BY <1>1, <1>9, <1>10, Widths
  <2>2. Len(b) = n
    BY <2>1 DEF Sized
  <2>3. Len(e) = sov(n)
    <3>1. Len(encodeVarint[n]) = sov(n)
      BY <1>1, <2>1, Encoded
    <3> QED BY <2>2, <3>1
  <2> QED BY ONLY <1>1, <1>4, <1>8, <1>9, <2>2, <2>3
<1>11. DelimitedSize(n) \in Nat
  BY <1>1, <1>9
<1> QED BY <1>7, <1>10, <1>11 DEF Sized

\* Strings of known sizes, put together.
LEMMA SizedFlatten ==
    ASSUME NEW n \in Nat, NEW s, s = [k \in 1..n |-> s[k]], NEW f, \A k \in 1..n : Sized(s[k], f[k])
    PROVE  Sized(FlattenSeq(s), Sum(f, 1..n))
<1>1. \A k \in 1..n : s[k] \in Seq(Byte) /\ f[k] \in Nat
  BY DEF Sized
<1>2. s \in Seq(Seq(Byte)) /\ Len(s) = n
  <2>1. s \in [1..n -> Seq(Byte)]
    BY <1>1
  <2> QED BY <2>1
<1>n. n \in Nat
  OBVIOUS
<1>3. IsFiniteSet(1..n)
  BY ONLY <1>n, FS_Interval
<1>4. Sum(f, 1..n) \in Nat /\ \A k \in 1..n : f[k] <= Sum(f, 1..n)
  BY <1>1, <1>3, SumNat
<1>5. PICK g : IsGlue(g, s)
  BY <1>2, GlueExists
<1>6. FlattenSeq(s) = g[n]
  BY <1>2, <1>5, FlattenIs
<1>7. g[n] \in Seq(Byte)
  BY <1>2, <1>5 DEF IsGlue
<1>8. ASSUME Sum(f, 1..n) <= MaxInt PROVE Len(g[n]) = Sum(f, 1..n)
  <2>1. \A k \in 1..n : f[k] = Len(s[k])
    <3> TAKE k \in 1..n
    <3>1. f[k] <= Sum(f, 1..n) /\ f[k] \in Nat
      BY <1>1, <1>4
    <3>2. f[k] <= MaxInt
      BY <1>4, <1>8, <3>1, Widths
    <3> QED BY <3>2 DEF Sized
  <2>2. \A k \in 1..Len(s) : f[k] = Len(s[k])
    BY <1>2, <2>1
  <2>3. Len(g[Len(s)]) = Sum(f, 1..Len(s))
    BY <1>2, <1>5, <2>2, GlueLen
  <2> QED BY <1>2, <2>3
<1> QED BY <1>4, <1>6, <1>7, <1>8 DEF Sized

SizeRight(d) ==
    \A W, S, R, m : IsCoded(d, W, S, R) /\ m \in MsgsAt(d, R) => Sized(MarshalAt(d, W, m), SizeAt(d, S, m))

\* The embedded messages in a field.
LEMMA InnerSized ==
    ASSUME NEW d \in Depths, d > 0 => SizeRight(d - 1), NEW w, NEW s, NEW f, NEW i, FitAt(d, w, s, f, i),
           Nested(f), NEW e \in Below(d, f)
    PROVE  Sized(InnerBytes(d, w.of, e), InnerSize(d, s.of, e))
<1>1. d > 0 /\ IsCoded(d - 1, w.of, s.of, f.of)
  BY DEF FitAt
<1>2. e \in MsgsAt(d - 1, f.of)
  BY <1>1 DEF Below
<1>3. Sized(MarshalAt(d - 1, w.of, e), SizeAt(d - 1, s.of, e))
  BY <1>1, <1>2 DEF SizeRight
<1>4. InnerBytes(d, w.of, e) = MarshalAt(d - 1, w.of, e) /\ InnerSize(d, s.of, e) = SizeAt(d - 1, s.of, e)
  BY <1>1 DEF InnerBytes, InnerSize
<1> QED BY <1>3, <1>4

\* The elements of a field.
ElementsIn(d, f, v) ==
    /\ DOMAIN Embedded(f, v) = 1..Len(Embedded(f, v)) /\ Len(Embedded(f, v)) \in Nat
    /\ \A k \in 1..Len(Embedded(f, v)) : Embedded(f, v)[k] \in Below(d, f)

\* What they are.
LEMMA EmbeddedIs ==
    ASSUME NEW d \in Depths, NEW f, Nested(f), NEW v \in ValuesOf(f, Below(d, f))
    PROVE  ElementsIn(d, f, v)
<1>1. CASE f.kind = "message"
  <2>1. Embedded(f, v) = <<v>> /\ v \in Below(d, f)
    BY <1>1 DEF Embedded, ValuesOf
  <2>2. Len(<<v>>) = 1 /\ DOMAIN <<v>> = 1..1 /\ <<v>>[1] = v
    OBVIOUS
  <2> QED BY <2>1, <2>2 DEF ElementsIn
<1>2. CASE f.kind = "repeated"
  <2>1. Embedded(f, v) = v /\ v \in Seq(Below(d, f))
    BY <1>2 DEF Embedded, ValuesOf
  <2>2. DOMAIN v = 1..Len(v) /\ Len(v) \in Nat /\ \A k \in 1..Len(v) : v[k] \in Below(d, f)
    BY <2>1
  <2> QED BY <2>1, <2>2 DEF ElementsIn
<1> QED BY <1>1, <1>2 DEF Nested

\* The text of a number is not empty and has digits only.
LEMMA DigitBytes == \A v \in DigitTexts : IntMarshal(v) \in Seq(Byte) /\ IntMarshal(v) # <<>>
                                           /\ \A i \in 1..Len(IntMarshal(v)) : IntMarshal(v)[i] \in 48..57
<1> TAKE v \in DigitTexts
<1>1. v \in Slices /\ \A i \in 1..Len(v) : v[i] \in 48..57
  BY DEF DigitTexts
<1>2. v \in Seq(Byte)
  BY <1>1, SlicesAre
<1>3. 48 \in Byte /\ 48 \in 48..57
  <2>1. 31 < Base
    BY Widths
  <2>2. Base \in Nat
    BY Widths
  <2> QED BY <2>1, <2>2 DEF Byte
<1>4. CASE v = <<>>
  <2>1. IntMarshal(v) = <<48>>
    BY <1>4 DEF IntMarshal
  <2>2. <<48>> \in Seq(Byte) /\ <<48>> # <<>> /\ Len(<<48>>) = 1 /\ <<48>>[1] = 48
    BY <1>3
  <2> QED BY <1>3, <2>1, <2>2
<1>5. CASE v # <<>>
  BY <1>1, <1>2, <1>5, Zenon DEF IntMarshal
<1> QED BY <1>4, <1>5

\* The bytes of a field are as many as its size says, given the depth below.
LEMMA FieldSized ==
    ASSUME NEW d \in Depths, d > 0 => SizeRight(d - 1), NEW w, NEW s, NEW f, NEW i \in 1..3, FitAt(d, w, s, f, i),
           f.kind \in Kinds, f.wire \in {0, 2}, NEW v \in ValuesOf(f, Below(d, f))
    PROVE  Sized(FieldOut(d, w, v), FieldLen(d, s, v))
<1>0. w.kind = f.kind /\ s.kind = f.kind /\ w.tag \in Byte
  <2>1. w.kind = f.kind /\ s.kind = f.kind /\ w.tag = i * 8 + f.wire
    BY DEF FitAt
  <2>2. Base \in Nat /\ Base > 31
    BY Widths
  <2>3. i * 8 + f.wire \in Nat /\ i * 8 + f.wire <= 26
    OBVIOUS
  <2> QED BY <2>1, <2>2, <2>3 DEF Byte
<1>1. Sized(<<>>, 0)
  <2>1. <<>> \in Seq(Byte) /\ Len(<<>>) = 0
    OBVIOUS
  <2> QED BY <2>1 DEF Sized
<1>2. CASE f.kind = "string"
  <2>1. v \in Slices
    BY <1>2 DEF ValuesOf
  <2>2. FieldOut(d, w, v) = (IF v = <<>> THEN <<>> ELSE Delimited(w.tag, v))
        /\ FieldLen(d, s, v) = IF v = <<>> THEN 0 ELSE DelimitedSize(Len(v))
    BY <1>0, <1>2 DEF FieldOut, FieldLen, FieldBytes, FieldSize
  <2>3. Sized(v, Len(v))
    BY <2>1, SlicesAre DEF Sized
  <2>4. Sized(Delimited(w.tag, v), DelimitedSize(Len(v)))
    BY <1>0, <2>3, SizedDelimited
  <2> QED BY <1>1, <2>2, <2>4
<1>3. CASE f.kind = "uint32"
  <2>1. v \in Nat /\ v < WordSize
    <3>1. v \in 0..(Int32Size - 1)
      BY <1>3 DEF ValuesOf
    <3> QED BY <3>1, Widths
  <2>2. FieldOut(d, w, v) = (IF v = 0 THEN <<>> ELSE <<w.tag>> \o encodeVarint[v])
        /\ FieldLen(d, s, v) = IF v = 0 THEN 0 ELSE 1 + sov(v)
    BY <1>0, <1>3 DEF FieldOut, FieldLen, FieldBytes, FieldSize
  <2>3. <<w.tag>> \in Seq(Byte) /\ Len(<<w.tag>>) = 1 /\ encodeVarint[v] \in Seq(Byte)
        /\ Len(encodeVarint[v]) = sov(v) /\ sov(v) \in Nat
    BY <1>0, <2>1, ByteSeq, Encoded, encodeVarintDef, SovType
  <2>4. <<w.tag>> \o encodeVarint[v] \in Seq(Byte) /\ Len(<<w.tag>> \o encodeVarint[v]) = 1 + sov(v)
    <3>0. \A x, y \in Seq(Byte) : Len(x \o y) = Len(x) + Len(y)
      BY SeqConcat, Zenon
    <3>1. Len(<<w.tag>> \o encodeVarint[v]) = Len(<<w.tag>>) + Len(encodeVarint[v])
      BY <2>3, <3>0, Zenon
    <3>2. <<w.tag>> \o encodeVarint[v] \in Seq(Byte)
      BY <2>3, BytesConcat, Zenon
    <3> QED BY <2>3, <3>1, <3>2, Zenon
  <2>5. Sized(<<w.tag>> \o encodeVarint[v], 1 + sov(v))
    <3>1. 1 + sov(v) \in Nat
      BY <2>3
    <3> QED BY <2>4, <3>1, Zenon DEF Sized
  <2> QED BY <1>1, <2>2, <2>5
<1>4. CASE f.kind = "int"
  <2>1. FieldOut(d, w, v) = Delimited(w.tag, IntMarshal(v))
        /\ FieldLen(d, s, v) = DelimitedSize(Len(IntMarshal(v)))
    BY <1>0, <1>4 DEF FieldOut, FieldLen, FieldBytes, FieldSize
  <2>2. IntMarshal(v) \in Seq(Byte)
    BY <1>4, DigitBytes DEF ValuesOf
  <2>3. Len(IntMarshal(v)) \in Nat
    BY <2>2
  <2>4. Sized(IntMarshal(v), Len(IntMarshal(v)))
    BY <2>2, <2>3, Zenon DEF Sized
  <2> QED BY <1>0, <2>1, <2>4, SizedDelimited
<1>5. CASE Nested(f)
  <2> DEFINE es == Embedded(f, v)
             n == Len(es)
             out == [k \in 1..n |-> Delimited(w.tag, InnerBytes(d, w.of, es[k]))]
             len == [k \in 1..n |-> DelimitedSize(InnerSize(d, s.of, es[k]))]
  <2>1. Embedded(w, v) = es /\ Embedded(s, v) = es
    BY <1>0 DEF Embedded
  <2>2. ElementsIn(d, f, v)
    BY <1>5, EmbeddedIs
  <2>3. DOMAIN es = 1..n /\ n \in Nat /\ \A k \in 1..n : es[k] \in Below(d, f)
    BY <2>2 DEF ElementsIn
  <2>4. w.kind \notin {"string", "uint32", "int"} /\ s.kind \notin {"string", "uint32", "int"}
    BY <1>0, <1>5 DEF Nested
  <2> HIDE DEF es, n
  <2>5. FieldOut(d, w, v) = FlattenSeq(out)
    <3>1. FieldOut(d, w, v) = FieldBytes(w, v, [k \in 1..n |-> InnerBytes(d, w.of, es[k])])
      BY <2>1, <2>3 DEF FieldOut
    <3> DEFINE em == [k \in 1..n |-> InnerBytes(d, w.of, es[k])]
    <3>2. FieldBytes(w, v, em) = FlattenSeq([k \in DOMAIN em |-> Delimited(w.tag, em[k])])
      <4> HIDE DEF em
      <4> QED BY <2>4 DEF FieldBytes
    <3>3. [k \in DOMAIN em |-> Delimited(w.tag, em[k])] = out
      OBVIOUS
    <3> QED BY <3>1, <3>2, <3>3
  <2>6. FieldLen(d, s, v) = Total(len)
    <3>1. FieldLen(d, s, v) = FieldSize(s, v, [k \in 1..n |-> InnerSize(d, s.of, es[k])])
      BY <2>1, <2>3 DEF FieldLen
    <3> DEFINE em == [k \in 1..n |-> InnerSize(d, s.of, es[k])]
    <3>2. FieldSize(s, v, em) = Total([k \in DOMAIN em |-> DelimitedSize(em[k])])
      <4> HIDE DEF em
      <4> QED BY <2>4 DEF FieldSize
    <3>3. [k \in DOMAIN em |-> DelimitedSize(em[k])] = len
      OBVIOUS
    <3> QED BY <3>1, <3>2, <3>3
  <2>7. \A k \in 1..n : Sized(out[k], len[k])
    <3> TAKE k \in 1..n
    <3>1. Sized(InnerBytes(d, w.of, es[k]), InnerSize(d, s.of, es[k]))
      BY <1>5, <2>3, InnerSized
    <3> QED BY <1>0, <3>1, SizedDelimited
  <2>8. out = [k \in 1..n |-> out[k]] /\ DOMAIN len = 1..n
    OBVIOUS
  <2> HIDE DEF out, len
  <2>9. Sized(FlattenSeq(out), Sum(len, 1..n))
    BY <2>3, <2>7, <2>8, SizedFlatten
  <2>10. Total(len) = Sum(len, 1..n)
    BY <2>8, TotalIs
  <2> QED BY <2>5, <2>6, <2>9, <2>10
<1> QED BY <1>2, <1>3, <1>4, <1>5 DEF Kinds, Nested

\* From one depth to the next: sizes are exact.
LEMMA SizeLevel ==
    ASSUME NEW d \in Depths, d > 0 => SizeRight(d - 1)
    PROVE  SizeRight(d)
<1> SUFFICES ASSUME NEW W, NEW S, NEW R, NEW m, IsCoded(d, W, S, R), m \in MsgsAt(d, R)
             PROVE  Sized(MarshalAt(d, W, m), SizeAt(d, S, m))
  BY DEF SizeRight
<1>1. CodedFacts(d, W, S, R) /\ IsMsg(d, R, m)
  BY CodedIs, MsgsOfAre
<1> DEFINE n == Len(R)
           out == [i \in 1..n |-> FieldOut(d, W[i], m[i])]
           len == [i \in 1..n |-> FieldLen(d, S[i], m[i])]
<1>2. DOMAIN W = 1..n /\ DOMAIN S = 1..n /\ n \in 0..3
  BY <1>1 DEF CodedFacts, IsTable
<1>3. MarshalAt(d, W, m) = FlattenSeq(out) /\ SizeAt(d, S, m) = Total(len)
  BY <1>2, MarshalIs, SizeIs
<1>4. \A i \in 1..n : Sized(out[i], len[i])
  <2> TAKE i \in 1..n
  <2>1. FitAt(d, W[i], S[i], R[i], i) /\ R[i].kind \in Kinds /\ R[i].wire \in {0, 2}
    BY <1>1 DEF CodedFacts, IsTable
  <2>2. m[i] \in ValuesOf(R[i], Below(d, R[i])) /\ i \in 1..3
    BY <1>1, <1>2 DEF IsMsg
  <2>3. Sized(FieldOut(d, W[i], m[i]), FieldLen(d, S[i], m[i]))
    BY <2>1, <2>2, FieldSized
  <2> QED BY <2>3
<1>5. out = [i \in 1..n |-> out[i]] /\ DOMAIN len = 1..n
  OBVIOUS
<1> HIDE DEF out, len, n
<1>6. Sized(FlattenSeq(out), Sum(len, 1..n))
  BY <1>2, <1>4, <1>5, SizedFlatten
<1>7. Total(len) = Sum(len, 1..n)
  BY <1>5, TotalIs
<1> QED BY <1>3, <1>6, <1>7

\* Size is exactly how many bytes MarshalToSizedBuffer writes, for every message
\* whose size is an int.
LEMMA SizesRight == \A d \in Depths : SizeRight(d)
<1>1. SizeRight(0)
  BY SizeLevel DEF Depths
<1>2. SizeRight(1)
  <2>1. 1 \in Depths /\ 1 - 1 = 0
    BY DEF Depths
  <2> QED BY <1>1, <2>1, SizeLevel
<1>3. SizeRight(2)
  <2>1. 2 \in Depths /\ 2 - 1 = 1
    BY DEF Depths
  <2> QED BY <1>2, <2>1, SizeLevel
<1> QED BY <1>1, <1>2, <1>3 DEF Depths

(* Reading what was written, one entry at a time.                          *)

\* The bytes of one entry of field i with content c.
EntryBytes(f, i, c) == Tag(i, f.wire) \o Payload(f.kind, c)

IsContent(f, c) == IF f.kind = "uint32" THEN c \in Nat /\ c < Int32Size ELSE c \in Seq(Byte)

EntryFits(d, R, i, c, b, u) ==
    /\ IsReader(d, R) /\ i \in 1..Len(R) /\ IsContent(R[i], c)
    /\ b \in Slices /\ u \in Slices /\ u = b \o EntryBytes(R[i], i, c)
    => /\ EntryBytes(R[i], i, c) \in Slices /\ IsReadable(R[i], c)
       /\ ReadEntry(R, u, Len(b)) = Ok([num |-> i, data |-> c], Len(u))

\* The decoder reads the entry as its number and content.
LEMMA EntryFit == \A d \in Depths : \A R, i, c, b, u : EntryFits(d, R, i, c, b, u)
<1> SUFFICES ASSUME NEW d \in Depths, NEW R, NEW i, NEW c, NEW b, NEW u PROVE EntryFits(d, R, i, c, b, u)
  OBVIOUS
<1> SUFFICES ASSUME IsReader(d, R), i \in 1..Len(R), IsContent(R[i], c), b \in Slices, u \in Slices,
                    u = b \o EntryBytes(R[i], i, c)
             PROVE  /\ EntryBytes(R[i], i, c) \in Slices /\ IsReadable(R[i], c)
                    /\ ReadEntry(R, u, Len(b)) = Ok([num |-> i, data |-> c], Len(u))
  BY DEF EntryFits
<1> PICK f, t, p, e : f = R[i] /\ t = Tag(i, f.wire) /\ p = Payload(f.kind, c) /\ e = EntryBytes(f, i, c)
  OBVIOUS
<1>0. IsTable(R)
  BY ReaderIs DEF ReaderFacts
<1>1. e = t \o p /\ u = b \o e
  BY DEF EntryBytes
<1>2. t \in Seq(Byte)
  <2>1. i \in 1..5 /\ f.wire \in 0..7
    BY <1>0 DEF IsTable
  <2>2. t \in Slices
    BY <2>1, TagFacts
  <2> QED BY <2>2, SlicesAre
<1>3. p \in Seq(Byte) /\ (f.kind # "uint32" => encodeVarint[Len(c)] \in Seq(Byte))
  <2>0. \A v \in Nat : encodeVarint[v] \in Seq(Byte)
    BY encodeVarintDef
  <2>1. CASE f.kind = "uint32"
    <3>1. c \in Nat
      BY <2>1 DEF IsContent
    <3>2. p = encodeVarint[c]
      BY <2>1 DEF Payload
    <3>3. encodeVarint[c] \in Seq(Byte)
      BY ONLY <2>0, <3>1
    <3>4. p \in Seq(Byte)
      BY ONLY <3>2, <3>3
    <3> QED BY <2>1, <3>4, Zenon
  <2>2. CASE f.kind # "uint32"
    <3>1. c \in Seq(Byte)
      BY <2>2 DEF IsContent
    <3>2. Len(c) \in Nat
      BY <3>1
    <3>3. encodeVarint[Len(c)] \in Seq(Byte)
      BY ONLY <2>0, <3>2
    <3>4. p = encodeVarint[Len(c)] \o c
      BY <2>2, Zenon DEF Payload
    <3>5. p \in Seq(Byte)
      BY <3>1, <3>3, <3>4, BytesConcat, Zenon
    <3> QED BY <3>3, <3>5, Zenon
  <2> QED BY <2>1, <2>2
<1>4. e \in Seq(Byte)
  BY <1>1, <1>2, <1>3, BytesConcat, Zenon
<1>5. e \in Slices
  <2>1. b \in Seq(Byte)
    BY SlicesAre
  <2> QED BY <1>1, <1>4, <2>1, BackSlice, Zenon
<1>6. p \in Slices
  BY <1>1, <1>2, <1>3, <1>5, BackSlice, Zenon
<1>7. IsData(f.kind, c)
  <2>1. CASE f.kind = "uint32"
    BY <2>1 DEF IsContent, IsData
  <2>2. CASE f.kind # "uint32"
    <3>1. c \in Seq(Byte) /\ p = encodeVarint[Len(c)] \o c
      BY <2>2, Zenon DEF IsContent, Payload
    <3>2. c \in Slices
      BY <1>3, <1>6, <2>2, <3>1, BackSlice, Zenon
    <3> QED BY <1>6, <2>2, <3>1, <3>2, Zenon DEF IsData
  <2> QED BY <2>1, <2>2
<1>8. ReadEntry(R, b \o e, Len(b)) = Ok([num |-> i, data |-> c], Len(b \o e))
  <2>1. e = Tag(i, R[i].wire) \o Payload(R[i].kind, c)
    BY <1>1
  <2>2. IsData(R[i].kind, c) /\ b \o e \in Slices
    BY <1>1, <1>7
  <2>3. FieldReads(R, b, i, c, e)
    BY FieldReading
  <2> QED BY <1>0, <1>5, <2>1, <2>2, <2>3, Zenon DEF FieldReads
<1>9. IsReadable(f, c)
  BY <1>7 DEF IsData, IsReadable
<1> QED BY <1>1, <1>5, <1>8, <1>9

\* The decoder stores the content of the entry.
EntryStored(d, R, i, c, b, u, m, m1, x) ==
    /\ IsReader(d, R) /\ i \in 1..Len(R) /\ IsContent(R[i], c) /\ m \in MsgsAt(d, R)
    /\ b \in Slices /\ u \in Slices /\ u = b \o EntryBytes(R[i], i, c)
    /\ DecodeAt(d, R, b, m) = Ok(m1, Len(b))
    /\ NewAt(d, R[i], m1[i], c).err = "ok" /\ NewAt(d, R[i], m1[i], c).val = x
    => DecodeAt(d, R, u, m) = Ok([m1 EXCEPT ![i] = x], Len(u))

\* The decoder stores that content.
LEMMA EntryStores == \A d \in Depths : \A R, i, c, b, u, m, m1, x : EntryStored(d, R, i, c, b, u, m, m1, x)
<1> SUFFICES ASSUME NEW d \in Depths, NEW R, NEW i, NEW c, NEW b, NEW u, NEW m, NEW m1, NEW x
             PROVE EntryStored(d, R, i, c, b, u, m, m1, x)
  OBVIOUS
<1> SUFFICES ASSUME IsReader(d, R), i \in 1..Len(R), IsContent(R[i], c), m \in MsgsAt(d, R),
                    b \in Slices, u \in Slices, u = b \o EntryBytes(R[i], i, c),
                    DecodeAt(d, R, b, m) = Ok(m1, Len(b)),
                    NewAt(d, R[i], m1[i], c).err = "ok", NewAt(d, R[i], m1[i], c).val = x
             PROVE  DecodeAt(d, R, u, m) = Ok([m1 EXCEPT ![i] = x], Len(u))
  BY DEF EntryStored
<1>1. EntryFits(d, R, i, c, b, u)
  BY EntryFit
<1>2. /\ EntryBytes(R[i], i, c) \in Slices
      /\ ReadEntry(R, u, Len(b)) = Ok([num |-> i, data |-> c], Len(u))
  BY <1>1, Zenon DEF EntryFits
<1> PICK e : e = EntryBytes(R[i], i, c)
  OBVIOUS
<1>3. e \in Slices /\ u = b \o e
  BY <1>2
<1>4. Extends(d, R, m, u, m1, i, c)
  BY <1>2, <1>3, DecodeSnoc
<1>5. i # 0
  OBVIOUS
<1> QED BY <1>4, <1>5 DEF Extends

\* A field is written as such an entry.
LEMMA WrittenAsEntry ==
    ASSUME NEW f, NEW i \in 1..3, f.wire \in {0, 2}
    PROVE  /\ \A c \in Seq(Byte) : f.kind # "uint32" => Delimited(i * 8 + f.wire, c) = EntryBytes(f, i, c)
           /\ \A v \in Nat : f.kind = "uint32" => <<i * 8 + f.wire>> \o encodeVarint[v] = EntryBytes(f, i, v)
<1> PICK t : t = i * 8 + f.wire
  OBVIOUS
<1>1. t \in 0..31 /\ t \in Byte
  <2>1. t \in 0..31
    OBVIOUS
  <2>2. Base \in Nat /\ Base > 31
    BY Widths
  <2> QED BY ONLY <2>1, <2>2 DEF Byte
<1>2. Tag(i, f.wire) = <<t>>
  BY <1>1, SmallBytes DEF Tag
<1>3. ASSUME NEW c \in Seq(Byte), f.kind # "uint32" PROVE Delimited(t, c) = EntryBytes(f, i, c)
  <2> PICK h, e : h = <<t>> /\ e = encodeVarint[Len(c)]
    OBVIOUS
  <2>1. Delimited(t, c) = (h \o e) \o c
    BY DEF Delimited
  <2>2. EntryBytes(f, i, c) = h \o (e \o c)
    BY <1>2, <1>3 DEF EntryBytes, Payload
  <2>3. h \in Seq(Byte)
    BY <1>1, ByteSeq
  <2>4. e \in Seq(Byte)
    <3>1. Len(c) \in Nat
      OBVIOUS
    <3> QED BY <3>1, encodeVarintDef
  <2>5. Assoc(h, e, c)
    BY <2>3, <2>4, SeqAssoc, Zenon
  <2> QED BY <2>1, <2>2, <2>5, Zenon DEF Assoc
<1>4. ASSUME NEW v \in Nat, f.kind = "uint32" PROVE <<t>> \o encodeVarint[v] = EntryBytes(f, i, v)
  BY <1>2, <1>4 DEF EntryBytes, Payload
<1> QED BY <1>3, <1>4

\* A decoder reads back what the encoder wrote.
RoundRead(d) ==
    \A W, S, R, m :
        IsCoded(d, W, S, R) /\ m \in MsgsAt(d, R) /\ MarshalAt(d, W, m) \in Slices =>
            DecodeAt(d, R, MarshalAt(d, W, m), Zero(R)) = Ok(NilAt(d, R, m), Len(MarshalAt(d, W, m)))

InnerRound(d, w, s, f, i, e, c) ==
    /\ FitAt(d, w, s, f, i) /\ Nested(f) /\ e \in Below(d, f) /\ c = InnerBytes(d, w.of, e) /\ c \in Slices
    => InnerAt(d, f.of, c, Zero(f.of)) = Ok(InnerNil(d, f.of, e), Len(c))

\* The embedded decoder reads back an embedded message, given the depth below.
LEMMA InnerRounds ==
    ASSUME NEW d \in Depths, d > 0 => RoundRead(d - 1)
    PROVE  \A w, s, f, i, e, c : InnerRound(d, w, s, f, i, e, c)
<1> SUFFICES ASSUME NEW w, NEW s, NEW f, NEW i, NEW e, NEW c PROVE InnerRound(d, w, s, f, i, e, c)
  OBVIOUS
<1> SUFFICES ASSUME FitAt(d, w, s, f, i), Nested(f), e \in Below(d, f), c = InnerBytes(d, w.of, e), c \in Slices
             PROVE  InnerAt(d, f.of, c, Zero(f.of)) = Ok(InnerNil(d, f.of, e), Len(c))
  BY DEF InnerRound
<1>1. d > 0 /\ IsCoded(d - 1, w.of, s.of, f.of)
  BY DEF FitAt
<1>2. e \in MsgsAt(d - 1, f.of)
  BY <1>1 DEF Below
<1>3. c = MarshalAt(d - 1, w.of, e) /\ InnerNil(d, f.of, e) = NilAt(d - 1, f.of, e)
  BY <1>1 DEF InnerBytes, InnerNil
<1>4. DecodeAt(d - 1, f.of, c, Zero(f.of)) = Ok(NilAt(d - 1, f.of, e), Len(c))
  BY <1>1, <1>2, <1>3 DEF RoundRead
<1> QED BY <1>1, <1>3, <1>4, InnerIs

\* The value of a nested field after one more embedded message.
Stored(f, old, x) == IF f.kind = "repeated" THEN Append(old, x) ELSE x

ElementRead(d, W, S, R, i, e, b, u, m1) ==
    /\ CodedFacts(d, W, S, R) /\ i \in 1..Len(R) /\ Nested(R[i]) /\ e \in Below(d, R[i])
    /\ b \in Slices /\ u \in Slices /\ u = b \o Delimited(W[i].tag, InnerBytes(d, W[i].of, e))
    /\ DecodeAt(d, R, b, Zero(R)) = Ok(m1, Len(b))
    /\ R[i].kind = "message" => m1[i] = Zero(R[i].of)
    => DecodeAt(d, R, u, Zero(R)) = Ok([m1 EXCEPT ![i] = Stored(R[i], m1[i], InnerNil(d, R[i].of, e))], Len(u))

\* One more embedded message is read back.
LEMMA ElementReads ==
    ASSUME NEW d \in Depths, d > 0 => RoundRead(d - 1)
    PROVE  \A W, S, R, i, e, b, u, m1 : ElementRead(d, W, S, R, i, e, b, u, m1)
<1> SUFFICES ASSUME NEW W, NEW S, NEW R, NEW i, NEW e, NEW b, NEW u, NEW m1
             PROVE  ElementRead(d, W, S, R, i, e, b, u, m1)
  OBVIOUS
<1> SUFFICES ASSUME CodedFacts(d, W, S, R), i \in 1..Len(R), Nested(R[i]), e \in Below(d, R[i]),
                    b \in Slices, u \in Slices, u = b \o Delimited(W[i].tag, InnerBytes(d, W[i].of, e)),
                    DecodeAt(d, R, b, Zero(R)) = Ok(m1, Len(b)),
                    R[i].kind = "message" => m1[i] = Zero(R[i].of)
             PROVE  DecodeAt(d, R, u, Zero(R))
                      = Ok([m1 EXCEPT ![i] = Stored(R[i], m1[i], InnerNil(d, R[i].of, e))], Len(u))
  BY DEF ElementRead
<1> PICK w, s, f, c : w = W[i] /\ s = S[i] /\ f = R[i] /\ c = InnerBytes(d, w.of, e)
  OBVIOUS
<1>1. IsReader(d, R) /\ IsTable(R) /\ FitAt(d, w, s, f, i)
  BY DEF CodedFacts
<1>2. i \in 1..3 /\ f.wire \in {0, 2} /\ w.tag = i * 8 + f.wire /\ f.kind # "uint32"
  BY <1>1 DEF IsTable, FitAt, Nested
<1>3. d > 0 => SizeRight(d - 1)
  <2>1. d > 0 => d - 1 \in Depths
    BY DEF Depths
  <2> QED BY <2>1, SizesRight
<1>4. c \in Seq(Byte)
  <2>1. Sized(InnerBytes(d, w.of, e), InnerSize(d, s.of, e))
    BY <1>1, <1>3, InnerSized
  <2> QED BY <2>1 DEF Sized
<1>5. Delimited(w.tag, c) = EntryBytes(f, i, c)
  BY <1>2, <1>4, WrittenAsEntry, Zenon
<1>6. u = b \o EntryBytes(R[i], i, c) /\ IsContent(R[i], c)
  BY <1>2, <1>4, <1>5, Zenon DEF IsContent
<1>7. c \in Slices
  <2>1. EntryFits(d, R, i, c, b, u)
    BY EntryFit
  <2>2. IsReadable(R[i], c)
    BY <1>1, <1>6, <2>1, Zenon DEF EntryFits
  <2> QED BY <1>2, <2>2 DEF IsReadable
<1>8. InnerAt(d, f.of, c, Zero(f.of)) = Ok(InnerNil(d, f.of, e), Len(c))
  <2>1. InnerRound(d, w, s, f, i, e, c)
    BY InnerRounds
  <2>2. Nested(f) /\ e \in Below(d, f) /\ c = InnerBytes(d, w.of, e)
    OBVIOUS
  <2> QED BY <1>1, <1>7, <2>1, <2>2, Zenon DEF InnerRound
<1> PICK inner, x : inner = InnerAt(d, f.of, c, Zero(f.of)) /\ x = InnerNil(d, f.of, e)
  OBVIOUS
<1>9. inner.err = "ok" /\ inner.val = x
  BY <1>8 DEF Ok
<1>10. Target(f, m1[i]) = Zero(f.of)
  BY DEF Target, Nested
<1>11. NewAt(d, f, m1[i], c) = Store(f, m1[i], c, inner)
  BY <1>10 DEF NewAt
<1>12. NewAt(d, f, m1[i], c).err = "ok" /\ NewAt(d, f, m1[i], c).val = Stored(f, m1[i], x)
  <2>1. CASE f.kind = "message"
    BY <1>9, <1>11, <2>1 DEF Store, Stored
  <2>2. CASE f.kind = "repeated"
    <3>1. NewAt(d, f, m1[i], c) = Ok(Append(m1[i], x), 0)
      BY <1>9, <1>11, <2>2, Zenon DEF Store
    <3>2. Ok(Append(m1[i], x), 0).err = "ok" /\ Ok(Append(m1[i], x), 0).val = Append(m1[i], x)
      BY DEF Ok
    <3>3. Stored(f, m1[i], x) = Append(m1[i], x)
      BY <2>2 DEF Stored
    <3> QED BY ONLY <3>1, <3>2, <3>3
  <2> QED BY <2>1, <2>2 DEF Nested
<1>13. Zero(R) \in MsgsAt(d, R)
  BY <1>1, ZeroType DEF ZeroTyped
<1>14. EntryStored(d, R, i, c, b, u, Zero(R), m1, Stored(f, m1[i], x))
  BY EntryStores
<1>15. DecodeAt(d, R, u, Zero(R)) = Ok([m1 EXCEPT ![i] = Stored(f, m1[i], x)], Len(u))
  BY <1>1, <1>6, <1>12, <1>13, <1>14, Zenon DEF EntryStored
<1> QED BY <1>15

-----------------------------------------------------------------------------
\* Everything up to a string is a slice if the whole is.
GlueStep(b, g, s, k) ==
    /\ s \in Seq(Seq(Byte)) /\ IsGlue(g, s) /\ k \in Nat /\ k + 1 <= Len(s)
    /\ b \in Slices /\ b \o g[k + 1] \in Slices
    => b \o g[k] \in Slices /\ b \o g[k + 1] = (b \o g[k]) \o s[k + 1]

\* Putting together slice after slice.
LEMMA GlueSteps == \A b, g, s, k : GlueStep(b, g, s, k)
<1> SUFFICES ASSUME NEW b, NEW g, NEW s, NEW k PROVE GlueStep(b, g, s, k)
  OBVIOUS
<1> SUFFICES ASSUME s \in Seq(Seq(Byte)), IsGlue(g, s), k \in Nat, k + 1 <= Len(s),
                    b \in Slices, b \o g[k + 1] \in Slices
             PROVE  b \o g[k] \in Slices /\ b \o g[k + 1] = (b \o g[k]) \o s[k + 1]
  BY DEF GlueStep
<1>0. k \in 0..Len(s) /\ k \in 0..(Len(s) - 1) /\ k + 1 \in 1..Len(s)
  <2>1. Len(s) \in Nat
    OBVIOUS
  <2> QED BY <2>1
<1>1. g[k] \in Seq(Byte) /\ g[k + 1] = g[k] \o s[k + 1]
  BY <1>0 DEF IsGlue
<1>2. s[k + 1] \in Seq(Byte)
  BY <1>0
<1> PICK h, t, u : h = g[k] /\ t = s[k + 1] /\ u = b \o g[k + 1]
  OBVIOUS
<1>3. h \in Seq(Byte) /\ t \in Seq(Byte) /\ u = b \o (h \o t) /\ b \in Seq(Byte) /\ u \in Slices
  BY <1>1, <1>2, SlicesAre
<1>4. Assoc(b, h, t)
  BY ONLY <1>3, SeqAssoc, Zenon
<1>5. (b \o h) \o t = u
  BY ONLY <1>3, <1>4, Zenon DEF Assoc
<1>6. b \o h \in Seq(Byte)
  BY <1>3, BytesConcat, Zenon
<1>7. b \o h \in Slices
  BY ONLY <1>3, <1>5, <1>6, BackSlice, Zenon
<1> QED BY <1>5, <1>7

\* A field that still has its zero value is read back from its bytes.
FieldRead(d, W, S, R, i, v, b, u, m1) ==
    /\ CodedFacts(d, W, S, R) /\ i \in 1..Len(R) /\ v \in ValuesOf(R[i], Below(d, R[i]))
    /\ b \in Slices /\ u \in Slices /\ u = b \o FieldOut(d, W[i], v)
    /\ DecodeAt(d, R, b, Zero(R)) = Ok(m1, Len(b)) /\ m1[i] = R[i].zero
    => DecodeAt(d, R, u, Zero(R)) = Ok([m1 EXCEPT ![i] = NilField(d, R[i], v)], Len(u))

\* The value after k embedded messages.
StoredUpTo(d, f, es, k) ==
    IF f.kind = "repeated" THEN [j \in 1..k |-> InnerNil(d, f.of, es[j])]
    ELSE IF k = 0 THEN Zero(f.of) ELSE InnerNil(d, f.of, es[k])

\* One more element.
LEMMA StoredNext ==
    ASSUME NEW d, NEW f, NEW es, NEW k \in Nat
    PROVE  f.kind = "repeated" => Append(StoredUpTo(d, f, es, k), InnerNil(d, f.of, es[k + 1]))
                                    = StoredUpTo(d, f, es, k + 1)
<1> HAVE f.kind = "repeated"
<1> DEFINE x(j) == InnerNil(d, f.of, es[j])
           T == {x(j) : j \in Nat}
           p == [j \in 1..k |-> x(j)]
           q == [j \in 1..(k + 1) |-> x(j)]
           a == Append(p, x(k + 1))
<1>0. \A j \in Nat : x(j) \in T
  OBVIOUS
<1> HIDE DEF x, T
<1>1. p \in Seq(T) /\ Len(p) = k /\ q \in Seq(T) /\ Len(q) = k + 1
  BY <1>0
<1>2. a \in Seq(T) /\ Len(a) = k + 1
  <2>1. x(k + 1) \in T
    BY <1>0
  <2> QED BY <1>1, <2>1
<1>3. ASSUME NEW j \in 1..Len(a) PROVE a[j] = q[j]
  <2>1. j \in 1..(k + 1)
    BY <1>2
  <2>2. CASE j = k + 1
    <3>1. a[k + 1] = x(k + 1)
      BY <1>1
    <3> QED BY <2>2, <3>1
  <2>3. CASE j # k + 1
    <3>1. j \in 1..k
      BY <2>1, <2>3
    <3>2. a[j] = p[j]
      BY <1>1, <3>1
    <3> QED BY <2>1, <3>1, <3>2
  <2> QED BY <2>2, <2>3
<1>4. a = q
  <2> HIDE DEF a, q
  <2>1. Len(a) = Len(q)
    BY <1>1, <1>2
  <2> QED BY <1>1, <1>2, <1>3, <2>1, SameSeq
<1> QED BY <1>4 DEF x, StoredUpTo

\* An update of an update.
LEMMA UpdateTwice ==
    ASSUME NEW D, NEW m, m = [j \in D |-> m[j]], NEW i \in D, NEW x, NEW y
    PROVE  /\ [[m EXCEPT ![i] = x] EXCEPT ![i] = y] = [m EXCEPT ![i] = y]
           /\ [m EXCEPT ![i] = x][i] = x
           /\ [m EXCEPT ![i] = m[i]] = m
<1> DEFINE n == [m EXCEPT ![i] = x]
<1>1. n = [j \in D |-> IF j = i THEN x ELSE m[j]]
  OBVIOUS
<1>2. [m EXCEPT ![i] = y] = [j \in D |-> IF j = i THEN y ELSE m[j]]
  OBVIOUS
<1>3. [m EXCEPT ![i] = m[i]] = [j \in D |-> m[j]]
  OBVIOUS
<1> HIDE DEF n
<1>4. [n EXCEPT ![i] = y] = [j \in D |-> IF j = i THEN y ELSE m[j]]
  BY <1>1
<1>5. n[i] = x
  BY <1>1
<1>6. [n EXCEPT ![i] = y] = [m EXCEPT ![i] = y] /\ [m EXCEPT ![i] = m[i]] = m
  BY <1>2, <1>3, <1>4
<1> QED BY <1>5, <1>6 DEF n

\* A field with embedded messages is read back, one after another.
LEMMA NestedReads ==
    ASSUME NEW d \in Depths, d > 0 => RoundRead(d - 1)
    PROVE  \A W, S, R, i, v, b, u, m1 : Nested(R[i]) => FieldRead(d, W, S, R, i, v, b, u, m1)
<1> SUFFICES ASSUME NEW W, NEW S, NEW R, NEW i, NEW v, NEW b, NEW u, NEW m1, Nested(R[i])
             PROVE  FieldRead(d, W, S, R, i, v, b, u, m1)
  OBVIOUS
<1> SUFFICES ASSUME CodedFacts(d, W, S, R), i \in 1..Len(R), v \in ValuesOf(R[i], Below(d, R[i])),
                    b \in Slices, u \in Slices, u = b \o FieldOut(d, W[i], v),
                    DecodeAt(d, R, b, Zero(R)) = Ok(m1, Len(b)), m1[i] = R[i].zero
             PROVE  DecodeAt(d, R, u, Zero(R)) = Ok([m1 EXCEPT ![i] = NilField(d, R[i], v)], Len(u))
  BY DEF FieldRead
<1> PICK w, s, f : w = W[i] /\ s = S[i] /\ f = R[i]
  OBVIOUS
<1> DEFINE es == Embedded(f, v)
           n == Len(es)
           out == [k \in 1..n |-> Delimited(w.tag, InnerBytes(d, w.of, es[k]))]
<1>1. IsReader(d, R) /\ IsTable(R) /\ FitAt(d, w, s, f, i) /\ w.kind = f.kind
  BY DEF CodedFacts, FitAt
<1>2. i \in 1..3 /\ f.wire \in {0, 2} /\ w.tag \in Byte
  <2>1. i \in 1..3 /\ f.wire \in {0, 2} /\ w.tag = i * 8 + f.wire
    BY <1>1 DEF IsTable, FitAt
  <2>2. i * 8 + f.wire \in 0..31
    <3>1. \A j \in 1..3 : \A k \in {0, 2} : j * 8 + k \in 0..31
      OBVIOUS
    <3> QED BY ONLY <2>1, <3>1
  <2>3. Base \in Nat /\ Base > 31
    BY Widths
  <2>4. 0..31 \subseteq Byte
    BY ONLY <2>3 DEF Byte
  <2> QED BY ONLY <2>1, <2>2, <2>4
<1>3. DOMAIN es = 1..n /\ n \in Nat /\ \A k \in 1..n : es[k] \in Below(d, f)
  <2>1. ElementsIn(d, f, v)
    BY EmbeddedIs
  <2> QED BY <2>1 DEF ElementsIn
<1>4. FieldOut(d, w, v) = FlattenSeq(out)
  <2>0. Embedded(w, v) = es /\ w.kind \notin {"string", "uint32", "int"}
    BY <1>1 DEF Embedded, Nested
  <2> HIDE DEF es, n
  <2>1. FieldOut(d, w, v) = FieldBytes(w, v, [k \in 1..n |-> InnerBytes(d, w.of, es[k])])
    BY <1>3, <2>0 DEF FieldOut
  <2> DEFINE em == [k \in 1..n |-> InnerBytes(d, w.of, es[k])]
  <2>2. FieldBytes(w, v, em) = FlattenSeq([k \in DOMAIN em |-> Delimited(w.tag, em[k])])
    <3> HIDE DEF em
    <3> QED BY <2>0 DEF FieldBytes
  <2>3. [k \in DOMAIN em |-> Delimited(w.tag, em[k])] = out
    OBVIOUS
  <2> QED BY <2>1, <2>2, <2>3
<1>5. out \in Seq(Seq(Byte)) /\ Len(out) = n
  <2>0. d > 0 => SizeRight(d - 1)
    <3>1. d > 0 => d - 1 \in Depths
      BY DEF Depths
    <3> QED BY <3>1, SizesRight
  <2>1. \A k \in 1..n : out[k] \in Seq(Byte)
    <3> TAKE k \in 1..n
    <3> HIDE DEF es, n
    <3>1. Sized(InnerBytes(d, w.of, es[k]), InnerSize(d, s.of, es[k]))
      BY <1>1, <1>3, <2>0, InnerSized
    <3>2. Sized(Delimited(w.tag, InnerBytes(d, w.of, es[k])), DelimitedSize(InnerSize(d, s.of, es[k])))
      BY <1>2, <3>1, SizedDelimited
    <3> QED BY <3>2 DEF Sized
  <2>2. out \in [1..n -> Seq(Byte)]
    <3> HIDE DEF es, n
    <3> QED BY <2>1
  <2> HIDE DEF es, n
  <2>3. n \in Nat
    BY <1>3
  <2>4. \A T : \A q \in [1..n -> T] : q \in Seq(T) /\ Len(q) = n
    BY ONLY <2>3
  <2> HIDE DEF out
  <2> QED BY <2>2, <2>4, Zenon
<1>6. PICK g : IsGlue(g, out)
  BY <1>5, GlueExists
<1>7. u = b \o g[n] /\ g[0] = <<>>
  <2>1. FlattenSeq(out) = g[n]
    BY <1>5, <1>6, FlattenIs
  <2> QED BY <1>4, <1>6, <2>1 DEF IsGlue
<1>8. m1 = [j \in 1..Len(R) |-> m1[j]]
  <2>1. Zero(R) \in MsgsAt(d, R)
    BY <1>1, ZeroType DEF ZeroTyped
  <2>2. ResultFacts(d, R, b, DecodeAt(d, R, b, Zero(R)))
    BY <1>1, <2>1, DecodeType DEF DecodeTyped
  <2>3. m1 \in MsgsAt(d, R)
    BY <2>2 DEF ResultFacts, Ok
  <2>4. IsMsg(d, R, m1)
    BY <2>3, MsgsOfAre
  <2> QED BY <2>4 DEF IsMsg
<1> DEFINE val(k) == StoredUpTo(d, f, es, k)
           X == {k \in Nat : k <= n /\ b \o g[k] \in Slices =>
                    DecodeAt(d, R, b \o g[k], Zero(R)) = Ok([m1 EXCEPT ![i] = val(k)], Len(b \o g[k]))}
<1>9. val(0) = m1[i]
  <2>1. f.zero = IF f.kind = "uint32" THEN 0 ELSE IF f.kind = "message" THEN Zero(f.of) ELSE <<>>
    <3>1. ReaderFacts(d, R)
      BY <1>1, ReaderIs
    <3> QED BY <3>1 DEF ReaderFacts
  <2>2. [j \in 1..0 |-> InnerNil(d, f.of, es[j])] = <<>>
    OBVIOUS
  <2> HIDE DEF es
  <2> QED BY <2>1, <2>2 DEF StoredUpTo, Nested
<1>10. val(n) = NilField(d, f, v)
  <2>1. CASE f.kind = "message"
    <3>1. es = <<v>>
      BY <2>1 DEF Embedded
    <3>2. n = 1 /\ es[n] = v
      BY <3>1
    <3> HIDE DEF es, n
    <3> QED BY <2>1, <3>2 DEF StoredUpTo, NilField
  <2>2. CASE f.kind = "repeated"
    <3>1. es = v
      BY <2>2 DEF Embedded
    <3>2. DOMAIN v = 1..n
      BY <1>3, <3>1
    <3>3. NilField(d, f, v) = [k \in DOMAIN v |-> InnerNil(d, f.of, v[k])]
      BY <2>2 DEF NilField
    <3>4. val(n) = [j \in 1..n |-> InnerNil(d, f.of, es[j])]
      BY <2>2 DEF StoredUpTo
    <3> HIDE DEF es, n, val
    <3> QED BY <3>1, <3>2, <3>3, <3>4
  <2> QED BY <2>1, <2>2 DEF Nested
<1>11. \A k \in Nat : k + 1 <= n => Stored(f, val(k), InnerNil(d, f.of, es[k + 1])) = val(k + 1)
                                    /\ (f.kind = "message" => val(k) = Zero(f.of))
  <2> TAKE k \in Nat
  <2> HAVE k + 1 <= n
  <2>1. CASE f.kind = "message"
    <3>1. es = <<v>>
      BY <2>1 DEF Embedded
    <3>2. k = 0
      BY <3>1
    <3>3. val(0) = Zero(f.of)
      BY <2>1 DEF StoredUpTo
    <3>4. val(1) = InnerNil(d, f.of, es[1])
      BY <2>1 DEF StoredUpTo
    <3> HIDE DEF es, n, val
    <3>5. Stored(f, val(k), InnerNil(d, f.of, es[k + 1])) = InnerNil(d, f.of, es[k + 1])
      BY <2>1 DEF Stored
    <3> QED BY <3>2, <3>3, <3>4, <3>5
  <2>2. CASE f.kind = "repeated"
    <3> HIDE DEF es, n
    <3>1. Append(val(k), InnerNil(d, f.of, es[k + 1])) = val(k + 1)
      BY <2>2, StoredNext
    <3>2. f.kind # "message"
      BY <2>2
    <3> QED BY <2>2, <3>1, <3>2, Zenon DEF Stored
  <2> QED BY <2>1, <2>2 DEF Nested
<1>12. \A k \in 1..n : out[k] = Delimited(w.tag, InnerBytes(d, w.of, es[k]))
  OBVIOUS
<1> HIDE DEF es, n, out, val
<1>13. 0 \in X
  <2>1. b \o g[0] = b
    BY <1>7, Concat
  <2>2. [m1 EXCEPT ![i] = val(0)] = m1
    BY <1>8, <1>9, UpdateTwice
  <2> QED BY <2>1, <2>2
<1>14. ASSUME NEW k \in Nat, k \in X PROVE k + 1 \in X
  <2> SUFFICES ASSUME k + 1 <= n, b \o g[k + 1] \in Slices
               PROVE  DecodeAt(d, R, b \o g[k + 1], Zero(R))
                        = Ok([m1 EXCEPT ![i] = val(k + 1)], Len(b \o g[k + 1]))
    OBVIOUS
  <2> PICK a, z, e, m2 : /\ a = b \o g[k] /\ z = b \o g[k + 1] /\ e = es[k + 1] /\ m2 = [m1 EXCEPT ![i] = val(k)]
    OBVIOUS
  <2>1. k + 1 \in 1..n /\ k <= n
    BY <1>3
  <2>2. a \in Slices /\ z = a \o out[k + 1] /\ z \in Slices
    <3>1. GlueStep(b, g, out, k)
      BY GlueSteps
    <3>2. k + 1 <= Len(out)
      BY <1>5
    <3>3. b \o g[k] \in Slices /\ b \o g[k + 1] = (b \o g[k]) \o out[k + 1]
      BY <1>5, <1>6, <3>1, <3>2, Zenon DEF GlueStep
    <3> QED BY <3>3
  <2>3. DecodeAt(d, R, a, Zero(R)) = Ok(m2, Len(a))
    BY <1>14, <2>1, <2>2
  <2>4. m2[i] = val(k) /\ \A y : [m2 EXCEPT ![i] = y] = [m1 EXCEPT ![i] = y]
    BY <1>8, UpdateTwice
  <2>5. e \in Below(d, R[i]) /\ z = a \o Delimited(W[i].tag, InnerBytes(d, W[i].of, e))
    BY <1>3, <1>12, <2>1, <2>2
  <2>6. R[i].kind = "message" => m2[i] = Zero(R[i].of)
    BY <1>11, <2>4
  <2>7. ElementRead(d, W, S, R, i, e, a, z, m2)
    BY ElementReads
  <2>8. DecodeAt(d, R, z, Zero(R)) = Ok([m2 EXCEPT ![i] = Stored(R[i], m2[i], InnerNil(d, R[i].of, e))], Len(z))
    BY <2>2, <2>3, <2>5, <2>6, <2>7, Zenon DEF ElementRead
  <2>9. Stored(R[i], m2[i], InnerNil(d, R[i].of, e)) = val(k + 1)
    BY <1>11, <2>4
  <2>10. DecodeAt(d, R, z, Zero(R)) = Ok([m1 EXCEPT ![i] = val(k + 1)], Len(z))
    BY <2>4, <2>8, <2>9
  <2> QED BY <2>10
<1>15. \A k \in Nat : k \in X
  <2> HIDE DEF X
  <2> QED BY <1>13, <1>14, NatSetInduction
<1>16. DecodeAt(d, R, u, Zero(R)) = Ok([m1 EXCEPT ![i] = val(n)], Len(u))
  BY <1>3, <1>7, <1>15
<1> QED BY <1>10, <1>16

\* A field without them is read back: one that is left out keeps its zero.
LEMMA ScalarReads ==
    ASSUME NEW d \in Depths
    PROVE  \A W, S, R, i, v, b, u, m1 : ~Nested(R[i]) => FieldRead(d, W, S, R, i, v, b, u, m1)
<1> SUFFICES ASSUME NEW W, NEW S, NEW R, NEW i, NEW v, NEW b, NEW u, NEW m1, ~Nested(R[i])
             PROVE  FieldRead(d, W, S, R, i, v, b, u, m1)
  OBVIOUS
<1> SUFFICES ASSUME CodedFacts(d, W, S, R), i \in 1..Len(R), v \in ValuesOf(R[i], Below(d, R[i])),
                    b \in Slices, u \in Slices, u = b \o FieldOut(d, W[i], v),
                    DecodeAt(d, R, b, Zero(R)) = Ok(m1, Len(b)), m1[i] = R[i].zero
             PROVE  DecodeAt(d, R, u, Zero(R)) = Ok([m1 EXCEPT ![i] = NilField(d, R[i], v)], Len(u))
  BY DEF FieldRead
<1> PICK w, f, old : w = W[i] /\ f = R[i] /\ old = m1[i]
  OBVIOUS
<1>1. IsReader(d, R) /\ IsTable(R) /\ w.kind = f.kind /\ w.tag = i * 8 + f.wire
  BY DEF CodedFacts, FitAt
<1>2. i \in 1..3 /\ f.wire \in {0, 2} /\ f.kind \in {"string", "uint32", "int"}
  BY <1>1 DEF IsTable, Kinds, Nested
<1>3. Zero(R) \in MsgsAt(d, R)
  BY <1>1, ZeroType DEF ZeroTyped
<1>4. [m1 EXCEPT ![i] = old] = m1
  <2>2. ResultFacts(d, R, b, DecodeAt(d, R, b, Zero(R)))
    BY <1>1, <1>3, DecodeType DEF DecodeTyped
  <2>3. m1 \in MsgsAt(d, R)
    BY <2>2 DEF ResultFacts, Ok
  <2>4. IsMsg(d, R, m1)
    BY <2>3, MsgsOfAre
  <2>5. m1 = [j \in 1..Len(R) |-> m1[j]]
    BY <2>4 DEF IsMsg
  <2> QED BY <2>5, UpdateTwice
<1>5. f.zero = IF f.kind = "uint32" THEN 0 ELSE IF f.kind = "message" THEN Zero(f.of) ELSE <<>>
  <2>1. ReaderFacts(d, R)
    BY <1>1, ReaderIs
  <2> QED BY <2>1 DEF ReaderFacts
\* A zero value that is left out.
<1>6. ASSUME FieldOut(d, w, v) = <<>>, NilField(d, f, v) = f.zero
      PROVE  DecodeAt(d, R, u, Zero(R)) = Ok([m1 EXCEPT ![i] = NilField(d, R[i], v)], Len(u))
  <2>1. u = b
    BY <1>6, Concat
  <2>2. NilField(d, R[i], v) = old
    BY <1>6
  <2> QED BY <1>4, <2>1, <2>2
\* A value that is written.
<1>7. ASSUME NEW c, IsContent(f, c), FieldOut(d, w, v) = EntryBytes(f, i, c),
             NewAt(d, f, old, c) = Ok(NilField(d, f, v), 0)
      PROVE  DecodeAt(d, R, u, Zero(R)) = Ok([m1 EXCEPT ![i] = NilField(d, R[i], v)], Len(u))
  <2>1. NewAt(d, R[i], m1[i], c).err = "ok" /\ NewAt(d, R[i], m1[i], c).val = NilField(d, R[i], v)
    BY <1>7 DEF Ok
  <2>2. u = b \o EntryBytes(R[i], i, c) /\ IsContent(R[i], c)
    BY <1>7
  <2>3. EntryStored(d, R, i, c, b, u, Zero(R), m1, NilField(d, R[i], v))
    BY EntryStores
  <2> QED BY <1>1, <1>3, <2>1, <2>2, <2>3, Zenon DEF EntryStored
<1>8. CASE f.kind = "string"
  <2>1. v \in Slices
    BY <1>8 DEF ValuesOf
  <2>2. NilField(d, f, v) = v /\ FieldOut(d, w, v) = IF v = <<>> THEN <<>> ELSE Delimited(w.tag, v)
    BY <1>1, <1>8 DEF NilField, FieldOut, FieldBytes
  <2>3. f.zero = <<>>
    BY <1>5, <1>8
  <2>4. v \in Seq(Byte)
    BY <2>1, SlicesAre
  <2>5. IsContent(f, v) /\ Delimited(w.tag, v) = EntryBytes(f, i, v)
    <3>1. Delimited(i * 8 + f.wire, v) = EntryBytes(f, i, v)
      <4>1. f.kind # "uint32"
        BY <1>8
      <4> QED BY <1>2, <2>4, <4>1, WrittenAsEntry, Zenon
    <3> QED BY <1>1, <1>8, <2>4, <3>1 DEF IsContent
  <2>6. NewAt(d, f, old, v) = Ok(NilField(d, f, v), 0)
    BY <1>8, <2>2 DEF NewAt, Store
  <2>7. CASE v = <<>>
    BY <1>6, <2>2, <2>3, <2>7
  <2>8. CASE v # <<>>
    <3>1. FieldOut(d, w, v) = EntryBytes(f, i, v)
      BY <2>2, <2>5, <2>8
    <3> QED BY <1>7, <2>5, <2>6, <3>1
  <2> QED BY <2>7, <2>8
<1>9. CASE f.kind = "uint32"
  <2>1. v \in Nat /\ v < Int32Size
    <3>1. v \in 0..(Int32Size - 1)
      BY <1>9 DEF ValuesOf
    <3> QED BY <3>1, Widths
  <2>2. NilField(d, f, v) = v /\ FieldOut(d, w, v) = IF v = 0 THEN <<>> ELSE <<w.tag>> \o encodeVarint[v]
    BY <1>1, <1>9 DEF NilField, FieldOut, FieldBytes
  <2>3. f.zero = 0
    BY <1>5, <1>9
  <2>5. IsContent(f, v) /\ <<w.tag>> \o encodeVarint[v] = EntryBytes(f, i, v)
    BY <1>1, <1>2, <1>9, <2>1, WrittenAsEntry DEF IsContent
  <2>6. NewAt(d, f, old, v) = Ok(NilField(d, f, v), 0)
    BY <1>9, <2>2 DEF NewAt, Store, StoreUint32
  <2>7. CASE v = 0
    BY <1>6, <2>2, <2>3, <2>7
  <2>8. CASE v # 0
    <3>1. FieldOut(d, w, v) = EntryBytes(f, i, v)
      BY <2>2, <2>5, <2>8
    <3> QED BY <1>7, <2>5, <2>6, <3>1
  <2> QED BY <2>7, <2>8
<1>10. CASE f.kind = "int"
  <2>1. v \in DigitTexts
    BY <1>10 DEF ValuesOf
  <2> PICK c : c = IntMarshal(v)
    OBVIOUS
  <2>2. NilField(d, f, v) = c /\ FieldOut(d, w, v) = Delimited(w.tag, c)
    BY <1>1, <1>10 DEF NilField, FieldOut, FieldBytes
  <2>4. c \in Seq(Byte) /\ c # <<>> /\ \A k \in 1..Len(c) : c[k] \in 48..57
    BY <2>1, DigitBytes
  <2>5. IsContent(f, c) /\ Delimited(w.tag, c) = EntryBytes(f, i, c)
    <3>1. Delimited(i * 8 + f.wire, c) = EntryBytes(f, i, c)
      <4>1. f.kind # "uint32"
        BY <1>10
      <4> QED BY <1>2, <2>4, <4>1, WrittenAsEntry, Zenon
    <3> QED BY <1>1, <1>10, <2>4, <3>1 DEF IsContent
  <2>6. NewAt(d, f, old, c) = Ok(NilField(d, f, v), 0)
    <3>1. NewAt(d, f, old, c) = IntUnmarshal(old, c)
      BY <1>10 DEF NewAt, Store
    <3>2. IntUnmarshal(old, c) = Ok(c, 0)
      BY <2>4 DEF IntUnmarshal
    <3> QED BY <2>2, <3>1, <3>2
  <2>7. FieldOut(d, w, v) = EntryBytes(f, i, c)
    BY <2>2, <2>5, Zenon
  <2> QED BY <1>7, <2>5, <2>6, <2>7
<1> QED BY <1>2, <1>8, <1>9, <1>10

\* Every field is read back.
LEMMA FieldsRead ==
    ASSUME NEW d \in Depths, d > 0 => RoundRead(d - 1)
    PROVE  \A W, S, R, i, v, b, u, m1 : FieldRead(d, W, S, R, i, v, b, u, m1)
BY NestedReads, ScalarReads

\* From one depth to the next: what was encoded is read back.
LEMMA RoundLevel ==
    ASSUME NEW d \in Depths, d > 0 => RoundRead(d - 1)
    PROVE  RoundRead(d)
<1> SUFFICES ASSUME NEW W, NEW S, NEW R, NEW m, IsCoded(d, W, S, R), m \in MsgsAt(d, R),
                    MarshalAt(d, W, m) \in Slices
             PROVE  DecodeAt(d, R, MarshalAt(d, W, m), Zero(R)) = Ok(NilAt(d, R, m), Len(MarshalAt(d, W, m)))
  BY DEF RoundRead
<1>1. CodedFacts(d, W, S, R) /\ IsMsg(d, R, m)
  BY CodedIs, MsgsOfAre
<1> DEFINE n == Len(R)
           out == [i \in 1..n |-> FieldOut(d, W[i], m[i])]
<1>2. IsReader(d, R) /\ IsTable(R) /\ DOMAIN W = 1..n /\ n \in Nat /\ n \in 0..3
  BY <1>1 DEF CodedFacts, IsTable
<1>3. MarshalAt(d, W, m) = FlattenSeq(out)
  BY <1>2, MarshalIs
<1>4. \A i \in 1..n : m[i] \in ValuesOf(R[i], Below(d, R[i]))
  BY <1>1 DEF IsMsg
<1>5. out \in Seq(Seq(Byte)) /\ Len(out) = n
  <2>1. ASSUME NEW i \in 1..n PROVE out[i] \in Seq(Byte)
    <3>0. d > 0 => SizeRight(d - 1)
      <4>1. d > 0 => d - 1 \in Depths
        BY DEF Depths
      <4> QED BY <4>1, SizesRight
    <3>1. FitAt(d, W[i], S[i], R[i], i) /\ R[i].kind \in Kinds /\ R[i].wire \in {0, 2}
      BY <1>1 DEF CodedFacts, IsTable
    <3>2. i \in 1..3
      <4>1. \A k \in 0..3 : 1..k \subseteq 1..3
        OBVIOUS
      <4> HIDE DEF n
      <4> QED BY <1>2, <4>1
    <3>3. Sized(FieldOut(d, W[i], m[i]), FieldLen(d, S[i], m[i]))
      BY <1>4, <3>0, <3>1, <3>2, FieldSized
    <3> QED BY <3>3 DEF Sized
  <2>2. out \in [1..n -> Seq(Byte)]
    <3> HIDE DEF n
    <3> QED BY <2>1
  <2>3. n \in Nat
    BY <1>2
  <2>4. \A T : \A q \in [1..n -> T] : q \in Seq(T) /\ Len(q) = n
    <3> HIDE DEF n
    <3> QED BY ONLY <2>3
  <2> HIDE DEF out
  <2> QED BY <2>2, <2>4, Zenon
<1>6. PICK g : IsGlue(g, out)
  BY <1>5, GlueExists
<1>7. FlattenSeq(out) = g[n] /\ g[0] = <<>> /\ \A k \in 0..n : g[k] \in Seq(Byte)
  BY <1>5, <1>6, FlattenIs DEF IsGlue
<1> PICK none : none = <<>>
  OBVIOUS
<1>8. none \in Slices /\ \A k \in 0..n : none \o g[k] = g[k]
  <2>1. none \in Slices
    BY SlicesAre
  <2>2. \A x \in Seq(Byte) : none \o x = x
    BY SeqConcat, Zenon
  <2> QED BY <1>7, <2>1, <2>2
<1> DEFINE read(k) == [j \in 1..n |-> IF j <= k THEN NilField(d, R[j], m[j]) ELSE R[j].zero]
           X == {k \in Nat : k <= n /\ g[k] \in Slices => DecodeAt(d, R, g[k], Zero(R)) = Ok(read(k), Len(g[k]))}
<1>9. DOMAIN R = 1..n
  <2>1. R \in Seq(Range(R))
    BY <1>2 DEF IsTable
  <2> QED BY <2>1
<1>10. read(0) = Zero(R)
  BY <1>9 DEF Zero
<1>11. read(n) = NilAt(d, R, m)
  <2>1. NilAt(d, R, m) = [j \in 1..n |-> NilField(d, R[j], m[j])]
    BY <1>9, NilIs
  <2> HIDE DEF n
  <2> QED BY <1>2, <2>1
<1>12. \A k \in Nat : k + 1 <= n => /\ read(k)[k + 1] = R[k + 1].zero
                                    /\ [read(k) EXCEPT ![k + 1] = NilField(d, R[k + 1], m[k + 1])] = read(k + 1)
  <2> TAKE k \in Nat
  <2> HAVE k + 1 <= n
  <2>0. k + 1 \in 1..n
    BY <1>2
  <2> HIDE DEF n
  <2>1. read(k)[k + 1] = R[k + 1].zero
    BY <2>0
  <2>2. [read(k) EXCEPT ![k + 1] = NilField(d, R[k + 1], m[k + 1])]
          = [j \in 1..n |-> IF j = k + 1 THEN NilField(d, R[k + 1], m[k + 1]) ELSE read(k)[j]]
    BY <2>0
  <2>3. \A j \in 1..n : (IF j = k + 1 THEN NilField(d, R[k + 1], m[k + 1]) ELSE read(k)[j])
                          = IF j <= k + 1 THEN NilField(d, R[j], m[j]) ELSE R[j].zero
    <3> TAKE j \in 1..n
    <3>1. CASE j = k + 1
      BY <3>1
    <3>2. CASE j # k + 1
      <4>1. j <= k <=> j <= k + 1
        BY <3>2
      <4> QED BY <3>2, <4>1
    <3> QED BY <3>1, <3>2
  <2> QED BY <2>1, <2>2, <2>3
<1>13. \A k \in 1..n : out[k] = FieldOut(d, W[k], m[k])
  OBVIOUS
<1> HIDE DEF n, out, read
<1>14. 0 \in X
  <2>1. DecodeAt(d, R, <<>>, Zero(R)) = Ok(Zero(R), 0)
    <3>1. Zero(R) \in MsgsAt(d, R)
      BY <1>2, ZeroType DEF ZeroTyped
    <3> QED BY <1>2, <3>1, DecodeEmpty
  <2>2. Len(<<>>) = 0
    OBVIOUS
  <2>3. DecodeAt(d, R, g[0], Zero(R)) = Ok(read(0), Len(g[0]))
    BY <1>7, <1>10, <2>1, <2>2
  <2> QED BY <2>3
<1>15. ASSUME NEW k \in Nat, k \in X PROVE k + 1 \in X
  <2> SUFFICES ASSUME k + 1 <= n, g[k + 1] \in Slices
               PROVE  DecodeAt(d, R, g[k + 1], Zero(R)) = Ok(read(k + 1), Len(g[k + 1]))
    OBVIOUS
  <2>1. k + 1 \in 1..n /\ k <= n /\ k \in 0..n /\ k + 1 \in 0..n
    BY <1>2
  <2> PICK a, z, i, v, m1 : a = g[k] /\ z = g[k + 1] /\ i = k + 1 /\ v = m[k + 1] /\ m1 = read(k)
    OBVIOUS
  <2>2. a \in Slices /\ z = a \o out[i] /\ z \in Slices
    <3>1. GlueStep(none, g, out, k)
      BY GlueSteps
    <3>2. k + 1 <= Len(out) /\ none \o g[k + 1] \in Slices
      BY <1>5, <1>8, <2>1
    <3>3. none \o g[k] \in Slices /\ none \o g[k + 1] = (none \o g[k]) \o out[k + 1]
      BY <1>5, <1>6, <1>8, <3>1, <3>2, Zenon DEF GlueStep
    <3> QED BY <1>8, <2>1, <3>3
  <2>3. DecodeAt(d, R, a, Zero(R)) = Ok(m1, Len(a))
    BY <1>15, <2>1, <2>2
  <2>4. z = a \o FieldOut(d, W[i], v) /\ i \in 1..Len(R) /\ v \in ValuesOf(R[i], Below(d, R[i]))
    BY <1>4, <1>13, <2>1, <2>2 DEF n
  <2>5. m1[i] = R[i].zero /\ [m1 EXCEPT ![i] = NilField(d, R[i], v)] = read(k + 1)
    BY <1>12
  <2>6. FieldRead(d, W, S, R, i, v, a, z, m1)
    BY FieldsRead
  <2>7. DecodeAt(d, R, z, Zero(R)) = Ok([m1 EXCEPT ![i] = NilField(d, R[i], v)], Len(z))
    BY <1>1, <2>2, <2>3, <2>4, <2>5, <2>6, Zenon DEF FieldRead
  <2> QED BY <2>5, <2>7
<1>16. \A k \in Nat : k \in X
  <2> HIDE DEF X
  <2> QED BY <1>14, <1>15, NatSetInduction
<1>17. g[n] \in Slices
  BY <1>3, <1>7
<1>18. DecodeAt(d, R, g[n], Zero(R)) = Ok(read(n), Len(g[n]))
  BY <1>2, <1>16, <1>17
<1> QED BY <1>3, <1>7, <1>11, <1>18

\* Every decoder reads back what its encoder wrote.
LEMMA RoundReads == \A d \in Depths : RoundRead(d)
<1>1. RoundRead(0)
  BY RoundLevel DEF Depths
<1>2. RoundRead(1)
  <2>1. 1 \in Depths /\ 1 - 1 = 0
    BY DEF Depths
  <2> QED BY <1>1, <2>1, RoundLevel
<1>3. RoundRead(2)
  <2>1. 2 \in Depths /\ 2 - 1 = 1
    BY DEF Depths
  <2> QED BY <1>2, <2>1, RoundLevel
<1> QED BY <1>1, <1>2, <1>3 DEF Depths

FieldFits(d, w, s, f, i) == FieldOk(d, f) /\ FitAt(d, w, s, f, i)

\* Tables fit together if their fields do.
LEMMA CodedOfFields ==
    ASSUME NEW d \in Depths, NEW W, NEW S, NEW R, R \in Seq(Range(R)), Len(R) \in 0..3,
           DOMAIN W = 1..Len(R), DOMAIN S = 1..Len(R),
           \A i \in 1..Len(R) : FieldFits(d, W[i], S[i], R[i], i)
    PROVE  IsCoded(d, W, S, R)
<1>1. \A i \in 1..Len(R) : FieldOk(d, R[i]) /\ FitAt(d, W[i], S[i], R[i], i)
  BY DEF FieldFits
<1>2. IsReader(d, R)
  BY <1>1, ReaderOfFields, Zenon
<1>3. IsTable(R)
  BY <1>2, ReaderIs DEF ReaderFacts
<1>4. CodedFacts(d, W, S, R)
  BY <1>1, <1>2, <1>3 DEF CodedFacts
<1> QED BY <1>4, CodedIs

\* Tables of up to three fields.
LEMMA CodedTables ==
    ASSUME NEW d \in Depths
    PROVE  /\ IsCoded(d, <<>>, <<>>, <<>>)
           /\ \A a, x, p : FieldFits(d, a, x, p, 1) => IsCoded(d, <<a>>, <<x>>, <<p>>)
           /\ \A a, b, x, y, p, q :
                 FieldFits(d, a, x, p, 1) /\ FieldFits(d, b, y, q, 2) =>
                    IsCoded(d, <<a, b>>, <<x, y>>, <<p, q>>)
           /\ \A a, b, c, x, y, z, p, q, r :
                 FieldFits(d, a, x, p, 1) /\ FieldFits(d, b, y, q, 2) /\ FieldFits(d, c, z, r, 3) =>
                    IsCoded(d, <<a, b, c>>, <<x, y, z>>, <<p, q, r>>)
<1>r. \A T : \A s \in Seq(T) : s \in Seq(Range(s))
  <2> TAKE T
  <2> TAKE s \in Seq(T)
  <2>1. \A i \in 1..Len(s) : s[i] \in Range(s)
    BY DEF Range
  <2> QED BY <2>1
<1>1. IsCoded(d, <<>>, <<>>, <<>>)
  <2> PICK R : R = <<>>
    OBVIOUS
  <2>1. R \in Seq({}) /\ Len(R) = 0 /\ DOMAIN R = 1..Len(R)
    OBVIOUS
  <2>2. R \in Seq(Range(R))
    BY <1>r, <2>1
  <2>3. \A i \in 1..Len(R) : FieldFits(d, R[i], R[i], R[i], i)
    BY <2>1
  <2>4. Len(R) \in 0..3
    BY <2>1
  <2>5. IsCoded(d, R, R, R)
    BY <2>1, <2>2, <2>3, <2>4, CodedOfFields, Zenon
  <2> QED BY <2>5
<1>2. ASSUME NEW a, NEW x, NEW p, FieldFits(d, a, x, p, 1) PROVE IsCoded(d, <<a>>, <<x>>, <<p>>)
  <2> PICK W, S, R : W = <<a>> /\ S = <<x>> /\ R = <<p>>
    OBVIOUS
  <2>1. R \in Seq({p}) /\ Len(R) = 1 /\ R[1] = p /\ W[1] = a /\ S[1] = x
        /\ DOMAIN W = 1..1 /\ DOMAIN S = 1..1
    OBVIOUS
  <2>2. R \in Seq(Range(R))
    BY <1>r, <2>1
  <2>3. \A i \in 1..Len(R) : FieldFits(d, W[i], S[i], R[i], i)
    BY <1>2, <2>1
  <2>4. Len(R) \in 0..3 /\ DOMAIN W = 1..Len(R) /\ DOMAIN S = 1..Len(R)
    BY <2>1
  <2>5. IsCoded(d, W, S, R)
    BY <2>2, <2>3, <2>4, CodedOfFields, Zenon
  <2> QED BY <2>5
<1>3. ASSUME NEW a, NEW b, NEW x, NEW y, NEW p, NEW q, FieldFits(d, a, x, p, 1), FieldFits(d, b, y, q, 2)
      PROVE  IsCoded(d, <<a, b>>, <<x, y>>, <<p, q>>)
  <2> PICK W, S, R : W = <<a, b>> /\ S = <<x, y>> /\ R = <<p, q>>
    OBVIOUS
  <2>1. R \in Seq({p, q}) /\ Len(R) = 2 /\ R[1] = p /\ R[2] = q /\ W[1] = a /\ W[2] = b /\ S[1] = x /\ S[2] = y
        /\ DOMAIN W = 1..2 /\ DOMAIN S = 1..2
    OBVIOUS
  <2>2. R \in Seq(Range(R))
    BY <1>r, <2>1
  <2>3. \A i \in 1..Len(R) : FieldFits(d, W[i], S[i], R[i], i)
    BY <1>3, <2>1
  <2>4. Len(R) \in 0..3 /\ DOMAIN W = 1..Len(R) /\ DOMAIN S = 1..Len(R)
    BY <2>1
  <2>5. IsCoded(d, W, S, R)
    BY <2>2, <2>3, <2>4, CodedOfFields, Zenon
  <2> QED BY <2>5
<1>4. ASSUME NEW a, NEW b, NEW c, NEW x, NEW y, NEW z, NEW p, NEW q, NEW r,
             FieldFits(d, a, x, p, 1), FieldFits(d, b, y, q, 2), FieldFits(d, c, z, r, 3)
      PROVE  IsCoded(d, <<a, b, c>>, <<x, y, z>>, <<p, q, r>>)
  <2> PICK W, S, R : W = <<a, b, c>> /\ S = <<x, y, z>> /\ R = <<p, q, r>>
    OBVIOUS
  <2>1. R \in Seq({p, q, r}) /\ Len(R) = 3 /\ R[1] = p /\ R[2] = q /\ R[3] = r
        /\ W[1] = a /\ W[2] = b /\ W[3] = c /\ S[1] = x /\ S[2] = y /\ S[3] = z
        /\ DOMAIN W = 1..3 /\ DOMAIN S = 1..3
    OBVIOUS
  <2>2. R \in Seq(Range(R))
    BY <1>r, <2>1
  <2>3. \A i \in 1..Len(R) : FieldFits(d, W[i], S[i], R[i], i)
    BY <1>4, <2>1
  <2>4. Len(R) \in 0..3 /\ DOMAIN W = 1..Len(R) /\ DOMAIN S = 1..Len(R)
    BY <2>1
  <2>5. IsCoded(d, W, S, R)
    BY <2>2, <2>3, <2>4, CodedOfFields, Zenon
  <2> QED BY <2>5
<1> QED BY <1>1, <1>2, <1>3, <1>4

\* The fields with number i: t is the tag of a block, n that of a number.
FieldsFit(d, i, t, n) ==
    /\ FieldFits(d, Put(t, "string", <<>>), Add("string", <<>>), Take(2, "string", <<>>), i)
    /\ FieldFits(d, Put(t, "int", <<>>), Add("int", <<>>), Take(2, "int", <<>>), i)
    /\ FieldFits(d, Put(n, "uint32", <<>>), Add("uint32", <<>>), Take(0, "uint32", <<>>), i)
    /\ \A W, S, R : d > 0 /\ IsCoded(d - 1, W, S, R) =>
          /\ FieldFits(d, Put(t, "message", W), Add("message", S), Take(2, "message", R), i)
          /\ FieldFits(d, Put(t, "repeated", W), Add("repeated", S), Take(2, "repeated", R), i)

\* The fields Put, Add and Take make.
LEMMA CodedFields ==
    \A d \in Depths : \A i, t, n : t = i * 8 + 2 /\ n = i * 8 + 0 => FieldsFit(d, i, t, n)
<1> SUFFICES ASSUME NEW d \in Depths, NEW i, NEW t, NEW n, t = i * 8 + 2, n = i * 8 + 0
             PROVE  FieldsFit(d, i, t, n)
  OBVIOUS
<1>1. /\ FieldFits(d, Put(t, "string", <<>>), Add("string", <<>>), Take(2, "string", <<>>), i)
      /\ FieldFits(d, Put(t, "int", <<>>), Add("int", <<>>), Take(2, "int", <<>>), i)
  BY ReaderFields DEF FieldFits, FitAt, Put, Add, Take, Nested
<1>2. FieldFits(d, Put(n, "uint32", <<>>), Add("uint32", <<>>), Take(0, "uint32", <<>>), i)
  BY ReaderFields DEF FieldFits, FitAt, Put, Add, Take, Nested
<1>3. ASSUME NEW W, NEW S, NEW R, d > 0, IsCoded(d - 1, W, S, R)
      PROVE  /\ FieldFits(d, Put(t, "message", W), Add("message", S), Take(2, "message", R), i)
             /\ FieldFits(d, Put(t, "repeated", W), Add("repeated", S), Take(2, "repeated", R), i)
  <2>1. d - 1 \in Depths
    BY <1>3 DEF Depths
  <2>2. CodedFacts(d - 1, W, S, R)
    BY <1>3, <2>1, CodedIs
  <2>3. IsReader(d - 1, R)
    BY <2>2 DEF CodedFacts
  <2>4. FieldOk(d, Take(2, "message", R)) /\ FieldOk(d, Take(2, "repeated", R))
    BY <1>3, <2>3, ReaderFields
  <2> QED BY <1>3, <2>1, <2>4 DEF FieldFits, FitAt, Put, Add, Take, Nested
<1> QED BY <1>1, <1>2, <1>3 DEF FieldsFit

\* The three tables of every message type fit together.
LEMMA TypesCoded == \A t \in MessageTypes : IsCoded(2, t.marshal, t.size, t.unmarshal)
<1> PICK two, one, zero : two = 2 /\ one = 1 /\ zero = 0
  OBVIOUS
<1>0. /\ two \in Depths /\ one \in Depths /\ zero \in Depths /\ two - 1 = one /\ one - 1 = zero
      /\ one > 0 /\ two > 0
  BY DEF Depths
<1>f. \A d \in Depths : FieldsFit(d, 1, 10, 8) /\ FieldsFit(d, 2, 18, 16) /\ FieldsFit(d, 3, 26, 24)
  <2> TAKE d \in Depths
  <2>1. PICK i, t, n : i = 1 /\ t = 10 /\ n = 8
    OBVIOUS
  <2>2. PICK j, u, o : j = 2 /\ u = 18 /\ o = 16
    OBVIOUS
  <2>3. PICK k, v, p : k = 3 /\ v = 26 /\ p = 24
    OBVIOUS
  <2>4. /\ t = i * 8 + 2 /\ n = i * 8 + 0 /\ u = j * 8 + 2 /\ o = j * 8 + 0
        /\ v = k * 8 + 2 /\ p = k * 8 + 0
    BY ONLY <2>1, <2>2, <2>3
  <2>5. FieldsFit(d, i, t, n) /\ FieldsFit(d, j, u, o) /\ FieldsFit(d, k, v, p)
    BY <2>4, CodedFields, Zenon
  <2> QED BY ONLY <2>1, <2>2, <2>3, <2>5
<1>1. /\ IsCoded(zero, Coin_Marshal, Coin_Size, Coin_Unmarshal)
      /\ IsCoded(one, Coin_Marshal, Coin_Size, Coin_Unmarshal)
  BY <1>0, <1>f, CodedTables
     DEF FieldsFit, Coin_Marshal, Coin_Size, Coin_Unmarshal
<1>2. IsCoded(one, Params_Marshal, Params_Size, Params_Unmarshal)
  BY <1>0, <1>f, <1>1, CodedTables
     DEF FieldsFit, Params_Marshal, Params_Size, Params_Unmarshal
<1>3. IsCoded(one, VirtualStakingMaxCapInfo_Marshal, VirtualStakingMaxCapInfo_Size, VirtualStakingMaxCapInfo_Unmarshal)
  BY <1>0, <1>f, <1>1, CodedTables
     DEF FieldsFit, VirtualStakingMaxCapInfo_Marshal, VirtualStakingMaxCapInfo_Size, VirtualStakingMaxCapInfo_Unmarshal
<1>4. IsCoded(two, MsgSetVirtualStakingMaxCap_Marshal, MsgSetVirtualStakingMaxCap_Size, MsgSetVirtualStakingMaxCap_Unmarshal)
  BY <1>0, <1>f, <1>1, CodedTables
     DEF FieldsFit, MsgSetVirtualStakingMaxCap_Marshal, MsgSetVirtualStakingMaxCap_Size, MsgSetVirtualStakingMaxCap_Unmarshal
<1>5. IsCoded(two, MsgSetVirtualStakingMaxCapResponse_Marshal, MsgSetVirtualStakingMaxCapResponse_Size, MsgSetVirtualStakingMaxCapResponse_Unmarshal)
  BY <1>0, <1>f, CodedTables
     DEF FieldsFit, MsgSetVirtualStakingMaxCapResponse_Marshal, MsgSetVirtualStakingMaxCapResponse_Size, MsgSetVirtualStakingMaxCapResponse_Unmarshal
<1>6. IsCoded(two, VirtualStakingMaxCapInfo_Marshal, VirtualStakingMaxCapInfo_Size, VirtualStakingMaxCapInfo_Unmarshal)
  BY <1>0, <1>f, <1>1, CodedTables
     DEF FieldsFit, VirtualStakingMaxCapInfo_Marshal, VirtualStakingMaxCapInfo_Size, VirtualStakingMaxCapInfo_Unmarshal
<1>7. IsCoded(two, Params_Marshal, Params_Size, Params_Unmarshal)
  BY <1>0, <1>f, <1>1, CodedTables
     DEF FieldsFit, Params_Marshal, Params_Size, Params_Unmarshal
<1>8. IsCoded(two, GenesisState_Marshal, GenesisState_Size, GenesisState_Unmarshal)
  BY <1>0, <1>f, <1>2, CodedTables
     DEF FieldsFit, GenesisState_Marshal, GenesisState_Size, GenesisState_Unmarshal
<1>9. IsCoded(two, ValidatorAddress_Marshal, ValidatorAddress_Size, ValidatorAddress_Unmarshal)
  BY <1>0, <1>f, CodedTables
     DEF FieldsFit, ValidatorAddress_Marshal, ValidatorAddress_Size, ValidatorAddress_Unmarshal
<1>10. IsCoded(two, QueryVirtualStakingMaxCapLimitRequest_Marshal, QueryVirtualStakingMaxCapLimitRequest_Size, QueryVirtualStakingMaxCapLimitRequest_Unmarshal)
  BY <1>0, <1>f, CodedTables
     DEF FieldsFit, QueryVirtualStakingMaxCapLimitRequest_Marshal, QueryVirtualStakingMaxCapLimitRequest_Size, QueryVirtualStakingMaxCapLimitRequest_Unmarshal
<1>11. IsCoded(two, QueryVirtualStakingMaxCapLimitResponse_Marshal, QueryVirtualStakingMaxCapLimitResponse_Size, QueryVirtualStakingMaxCapLimitResponse_Unmarshal)
  BY <1>0, <1>f, <1>1, CodedTables
     DEF FieldsFit, QueryVirtualStakingMaxCapLimitResponse_Marshal, QueryVirtualStakingMaxCapLimitResponse_Size, QueryVirtualStakingMaxCapLimitResponse_Unmarshal
<1>12. IsCoded(two, QueryVirtualStakingMaxCapLimitsRequest_Marshal, QueryVirtualStakingMaxCapLimitsRequest_Size, QueryVirtualStakingMaxCapLimitsRequest_Unmarshal)
  BY <1>0, <1>f, CodedTables
     DEF FieldsFit, QueryVirtualStakingMaxCapLimitsRequest_Marshal, QueryVirtualStakingMaxCapLimitsRequest_Size, QueryVirtualStakingMaxCapLimitsRequest_Unmarshal
<1>13. IsCoded(two, QueryVirtualStakingMaxCapLimitsResponse_Marshal, QueryVirtualStakingMaxCapLimitsResponse_Size, QueryVirtualStakingMaxCapLimitsResponse_Unmarshal)
  BY <1>0, <1>f, <1>3, CodedTables
     DEF FieldsFit, QueryVirtualStakingMaxCapLimitsResponse_Marshal, QueryVirtualStakingMaxCapLimitsResponse_Size, QueryVirtualStakingMaxCapLimitsResponse_Unmarshal
<1>14. IsCoded(two, QueryParamsRequest_Marshal, QueryParamsRequest_Size, QueryParamsRequest_Unmarshal)
  BY <1>0, <1>f, CodedTables
     DEF FieldsFit, QueryParamsRequest_Marshal, QueryParamsRequest_Size, QueryParamsRequest_Unmarshal
<1>15. IsCoded(two, QueryParamsResponse_Marshal, QueryParamsResponse_Size, QueryParamsResponse_Unmarshal)
  BY <1>0, <1>f, <1>2, CodedTables
     DEF FieldsFit, QueryParamsResponse_Marshal, QueryParamsResponse_Size, QueryParamsResponse_Unmarshal
<1>16. \A m, s, u : Type(m, s, u).marshal = m /\ Type(m, s, u).size = s /\ Type(m, s, u).unmarshal = u
  BY DEF Type
<1> SUFFICES ASSUME NEW t \in MessageTypes PROVE IsCoded(two, t.marshal, t.size, t.unmarshal)
  OBVIOUS
<1> QED
  BY <1>4, <1>5, <1>6, <1>7, <1>8, <1>9, <1>10, <1>11, <1>12, <1>13, <1>14, <1>15, <1>16
     DEF MessageTypes, MsgSetVirtualStakingMaxCap, MsgSetVirtualStakingMaxCapResponse, VirtualStakingMaxCapInfo,
         Params, GenesisState, ValidatorAddress, QueryVirtualStakingMaxCapLimitRequest,
         QueryVirtualStakingMaxCapLimitResponse, QueryVirtualStakingMaxCapLimitsRequest,
         QueryVirtualStakingMaxCapLimitsResponse, QueryParamsRequest, QueryParamsResponse

\* Every message a decoder accepts and whose encoding fits into a slice is encoded
\* without a panic, into exactly Size bytes, and read back as it was: Size,
\* MarshalToSizedBuffer and Unmarshal of every message type agree.
THEOREM RoundTripHolds == Spec => []RoundTrip
<1>1. WireInv => RoundTrip
  <2> SUFFICES ASSUME WireInv, Unmarshal(type, bytes).err = "ok",
                      Size(type.size, Unmarshal(type, bytes).val) <= MaxInt
               PROVE  EncodesExactly(Unmarshal(type, bytes).val, Marshal(type, Unmarshal(type, bytes).val))
    BY DEF RoundTrip
  <2> PICK t, m, W, S, R : /\ t = type /\ m = Unmarshal(type, bytes).val
                           /\ W = t.marshal /\ S = t.size /\ R = t.unmarshal
    OBVIOUS
  <2>1. t \in MessageTypes /\ bytes \in Slices
    BY DEF WireInv
  <2>2. IsCoded(2, W, S, R) /\ 2 \in Depths
    BY <2>1, TypesCoded, TopLevel
  <2>3. m \in MsgsAt(2, R)
    BY <2>1, UnmarshalEnds
  <2> PICK size, out : size = Size(S, m) /\ out = MarshalToSizedBuffer(W, m)
    OBVIOUS
  <2>4. Sized(out, size)
    <3>1. Sized(MarshalAt(2, W, m), SizeAt(2, S, m))
      BY <2>2, <2>3, SizesRight DEF SizeRight
    <3> QED BY <3>1 DEF MarshalAt, SizeAt
  <2>5. out \in Seq(Byte) /\ size \in Nat /\ size <= MaxInt /\ Len(out) = size
    BY <2>4 DEF Sized
  <2>6. out \in Slices
    BY <2>5, SlicesAre
  <2>7. Marshal(t, m) = Ok(out, size)
    <3> PICK free : free = [i \in 1..(size - Len(out)) |-> 0]
      OBVIOUS
    <3>1. free = <<>>
      BY <2>5
    <3>2. <<>> \o out = out
      BY <2>6, Concat
    <3>3. SubSeq(out, 1, Len(out)) = out
      BY <2>5
    <3>4. ~(Len(out) > size)
      BY <2>5
    <3>5. SubSeq(free \o out, 1, Len(out)) = out
      BY ONLY <3>1, <3>2, <3>3
    <3>6. Marshal(t, m) = IF Len(out) > size THEN Fail("panic") ELSE Ok(SubSeq(free \o out, 1, Len(out)), size)
      BY DEF Marshal
    <3> QED BY ONLY <3>4, <3>5, <3>6
  <2>8. Unmarshal(t, out) = Ok(NilIsZero(R, m), Len(out))
    <3>1. MarshalAt(2, W, m) = out /\ NilAt(2, R, m) = NilIsZero(R, m)
      BY DEF MarshalAt, NilAt
    <3>2. DecodeAt(2, R, out, Zero(R)) = Ok(NilIsZero(R, m), Len(out))
      BY <2>2, <2>3, <2>6, <3>1, RoundReads DEF RoundRead
    <3> QED BY <3>2, TopLevel
  <2>9. Marshal(t, m).err = "ok" /\ Marshal(t, m).val = out
    BY <2>7 DEF Ok
  <2>10. Unmarshal(t, out).err = "ok" /\ Unmarshal(t, out).val = NilIsZero(R, m)
    BY <2>8 DEF Ok
  <2> QED BY <2>9, <2>10 DEF EncodesExactly, ReadsBack
<1> QED BY <1>1, WireInvariant, PTL
=============================================================================
