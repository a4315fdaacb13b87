-------------------------- MODULE SlashShareProofs --------------------------
(***************************************************************************)
(* What a slash report can be off by, for all delegators, shares, slashes  *)
(* and precisions.                                                         *)
(***************************************************************************)
EXTENDS SlashShare, Arithmetic

-----------------------------------------------------------------------------
(* The decimals.                                                           *)

\* chopPrecisionAndRound is off by half a unit at most.
LEMMA ChopNearest ==
    ASSUME NEW x \in Nat
    PROVE  /\ chopPrecisionAndRound(x) \in Nat
           /\ 2 * (Precision * chopPrecisionAndRound(x)) <= 2 * x + Precision
           /\ 2 * x <= 2 * (Precision * chopPrecisionAndRound(x)) + Precision
<1>1. chopPrecisionAndRound(x) = Rounded(x, Precision)
  BY DEF chopPrecisionAndRound, Rounded
<1> QED BY <1>1, PrecisionAssumption, RoundedNearest

\* It does not pass a whole number of units.
LEMMA ChopBound ==
    ASSUME NEW x \in Nat, NEW n \in Nat, x <= Precision * n
    PROVE  chopPrecisionAndRound(x) \in Nat /\ chopPrecisionAndRound(x) <= n
<1>1. chopPrecisionAndRound(x) = Rounded(x, Precision)
  BY DEF chopPrecisionAndRound, Rounded
<1> QED BY <1>1, PrecisionAssumption, RoundedBound

\* A quotient of decimals, truncated, does not pass a whole number that bounds
\* the exact quotient: the two roundings of Quo never push it over.
LEMMA QuoBound ==
    ASSUME NEW a \in Nat, NEW b \in Nat \ {0}, NEW k \in Nat, a <= b * k
    PROVE  /\ Quo(a, b) \in Nat /\ Quo(a, b) <= k * Precision
           /\ TruncateInt(Quo(a, b)) \in Nat /\ TruncateInt(Quo(a, b)) <= k
<1>1. Quo(a, b) = Rounded((a * Precision * Precision) \div b, Precision)
  BY DEF Quo, chopPrecisionAndRound, Rounded
<1> QED BY <1>1, PrecisionAssumption, QuotientBound DEF TruncateInt

ShareMaps == [Delegators -> Nat]

\* A slash that happened: the validator had shares.
SlashRecords ==
    {s \in [amount : Nat, shares : ShareMaps] : DelegatorShares(s.shares) > 0}

\* DelegatorSlashAmount with the shares m.
Reported(m, c, amount) ==
    IF DelegatorShares(m) = 0 THEN 0
    ELSE RoundInt(MulInt(Quo(m[c], DelegatorShares(m)), amount))

\* What was reported was worked out from the shares of that time.
ReportOK(r) ==
    /\ r.contract \in Contracts
    /\ r.slash \in SlashRecords
    /\ r.then \in ShareMaps
    /\ r.amount = Reported(r.then, r.contract, r.slash.amount)

\* The inductive invariant.
ShareInv ==
    /\ shares \in ShareMaps
    /\ slashes \in Seq(SlashRecords)
    /\ due \subseteq Contracts
    /\ \A r \in reports : ReportOK(r)

\* The validator's shares are at least those of each delegator.
LEMMA SharesBound ==
    ASSUME NEW m \in ShareMaps, NEW c \in Delegators
    PROVE  /\ DelegatorShares(m) \in Nat
           /\ m[c] \in Nat /\ m[c] <= DelegatorShares(m)
<1>1. IsFiniteSet(Delegators)
  BY ConstantsAssumption, FS_Union DEF Delegators
<1>2. \A x \in Delegators : m[x] \in Nat
  BY DEF ShareMaps
<1>3. Sum(m, Delegators) \in Nat /\ \A x \in Delegators : m[x] <= Sum(m, Delegators)
  BY <1>1, <1>2, SumNat
<1>4. DelegatorShares(m) = Sum(m, Delegators)
  BY DEF DelegatorShares, Sum
<1> QED BY <1>2, <1>3, <1>4

-----------------------------------------------------------------------------
(* The two roundings of a report: s of D shares, of a slash of A tokens.   *)

\* How close the rounded ratio q and the rounded amount a are to exact ones.
LEMMA TwoRoundings ==
    ASSUME NEW s \in Nat, NEW D \in Nat \ {0}, NEW A \in Nat, s <= D
    PROVE  LET P == Precision
               y == (s * P * P) \div D
               a == RoundInt(MulInt(Quo(s, D), A))
           IN  /\ y \in Nat /\ a \in Nat
               /\ D * y <= s * (P * P)
               /\ s * (P * P) <= D * (y + 1)
               /\ 2 * (P * P) * a <= 2 * (A * y) + A * P + P * P
               /\ 2 * (A * y) <= 2 * (P * P) * a + A * P + P * P
               /\ a <= A
<1> DEFINE P == Precision
           y == (s * P * P) \div D
           q == Quo(s, D)
           a == RoundInt(MulInt(q, A))
<1>1. P \in Nat \ {0}
  BY PrecisionAssumption
<1>2. s * P * P \in Nat /\ s * P * P = s * (P * P)
  <2> HIDE DEF P
  <2> QED BY <1>1
<1>3. /\ y \in Nat /\ D * y <= s * (P * P) /\ s * (P * P) <= D * (y + 1)
  <2> DEFINE x == s * P * P
             m == x % D
  <2>1. x \in Nat
    BY <1>2
  <2> HIDE DEF x
  <2>2. x \div D \in Nat /\ m \in Nat /\ m < D /\ x = D * (x \div D) + m
    BY <2>1, DivMod
  <2> DEFINE z == x \div D
  <2> HIDE DEF m, z
  <2>3. z \in Nat /\ x = D * z + m
    BY <2>2 DEF z
  <2>4. D * z \in Nat /\ D * (z + 1) = D * z + D
    BY <2>3
  <2>5. D * z <= x /\ x <= D * (z + 1)
    BY <2>2, <2>3, <2>4
  <2>6. y = z
    BY DEF z, x
  <2>7. x = s * (P * P)
    BY <1>2 DEF x
  <2> HIDE DEF y
  <2> QED BY <2>3, <2>5, <2>6, <2>7
<1>4. /\ q \in Nat
      /\ 2 * (P * q) <= 2 * y + P
      /\ 2 * y <= 2 * (P * q) + P
  <2>1. q = chopPrecisionAndRound(y)
    BY DEF Quo
  <2> HIDE DEF y
  <2> QED BY <1>3, <2>1, ChopNearest
<1>5. q <= P
  <2>1. s <= D * 1 /\ 1 \in Nat
    OBVIOUS
  <2>2. q <= 1 * P
    BY <2>1, QuoBound
  <2> QED BY <1>1, <2>2
<1>6. a = chopPrecisionAndRound(q * A)
  BY DEF RoundInt, MulInt
<1> HIDE DEF P, y, q, a
<1>7. q * A \in Nat /\ q * A <= P * A
  BY <1>1, <1>4, <1>5, TimesMonotone
<1>8. /\ a \in Nat
      /\ 2 * (P * a) <= 2 * (q * A) + P
      /\ 2 * (q * A) <= 2 * (P * a) + P
  BY <1>6, <1>7, ChopNearest DEF P
<1>9. a <= A
  BY <1>6, <1>7, ChopBound DEF P
<1>10. 2 * (P * P) * a <= 2 * (A * y) + A * P + P * P
  <2>1. P * (2 * (P * a)) <= P * (2 * (q * A) + P)
    BY <1>1, <1>7, <1>8, TimesMonotone
  <2>2. A * (2 * (P * q)) <= A * (2 * y + P)
    BY <1>1, <1>3, <1>4, TimesMonotone
  <2>3. P * (2 * (P * a)) = 2 * (P * P) * a
    BY <1>1, <1>8
  <2>4. P * (2 * (q * A) + P) = A * (2 * (P * q)) + P * P
    BY <1>1, <1>4
  <2>5. A * (2 * y + P) = 2 * (A * y) + A * P
    BY <1>1, <1>3
  <2> QED BY <1>1, <1>3, <1>4, <1>8, <2>1, <2>2, <2>3, <2>4, <2>5
<1>11. 2 * (A * y) <= 2 * (P * P) * a + A * P + P * P
  <2>1. P * (2 * (q * A)) <= P * (2 * (P * a) + P)
    BY <1>1, <1>7, <1>8, TimesMonotone
  <2>2. A * (2 * y) <= A * (2 * (P * q) + P)
    BY <1>1, <1>3, <1>4, TimesMonotone
  <2>3. P * (2 * (P * a) + P) = 2 * (P * P) * a + P * P
    BY <1>1, <1>8
  <2>4. A * (2 * (P * q) + P) = P * (2 * (q * A)) + A * P
    BY <1>1, <1>4
  <2>5. A * (2 * y) = 2 * (A * y)
    BY <1>3
  <2> QED BY <1>1, <1>3, <1>4, <1>8, <2>1, <2>2, <2>3, <2>4, <2>5
<1> QED BY <1>3, <1>8, <1>9, <1>10, <1>11 DEF P, y, q, a

\* From s shares of D to at least as many, S0, of at most as many, D0: what is
\* reported exceeds the loss by the slack at most.
LEMMA UpperBound ==
    ASSUME NEW P \in Nat, NEW A \in Nat, NEW y \in Nat, NEW a \in Nat,
           NEW s \in Nat, NEW D \in Nat, NEW S0 \in Nat, NEW D0 \in Nat,
           s <= S0, D0 <= D,
           D * y <= s * (P * P),
           2 * (P * P) * a <= 2 * (A * y) + A * P + P * P
    PROVE  2 * P * P * a * D0 <= 2 * P * P * S0 * A + (P * P + A * (P + 2)) * D0
<1>1. D0 * y <= D * y
  BY TimesMonotone
<1>2. s * (P * P) <= S0 * (P * P)
  BY TimesMonotone
<1>3. D0 * y <= S0 * (P * P)
  <2>1. D0 * y \in Nat /\ D * y \in Nat /\ s * (P * P) \in Nat /\ S0 * (P * P) \in Nat
    OBVIOUS
  <2> QED BY <1>1, <1>2, <2>1
<1>4. (2 * A) * (D0 * y) <= (2 * A) * (S0 * (P * P))
  BY <1>3, TimesMonotone
<1>5. (2 * (P * P) * a) * D0 <= (2 * (A * y) + A * P + P * P) * D0
  BY TimesMonotone
<1>6. (2 * (A * y) + A * P + P * P) * D0 = (2 * A) * (D0 * y) + (A * P) * D0 + (P * P) * D0
  OBVIOUS
<1>7. (P * P + A * (P + 2)) * D0 = (P * P) * D0 + (A * P) * D0 + (2 * A) * D0
  OBVIOUS
<1>8. (2 * (P * P) * a) * D0 = 2 * P * P * a * D0
  OBVIOUS
<1>9. (2 * A) * (S0 * (P * P)) = 2 * P * P * S0 * A
  OBVIOUS
<1>10. /\ (2 * A) * (D0 * y) \in Nat /\ (A * P) * D0 \in Nat
       /\ (P * P) * D0 \in Nat /\ (2 * A) * D0 \in Nat
       /\ 2 * P * P * a * D0 \in Nat /\ 2 * P * P * S0 * A \in Nat
  OBVIOUS
<1> QED BY <1>4, <1>5, <1>6, <1>7, <1>8, <1>9, <1>10

\* From s shares of D to at most as many, S0, of at least as many, D0: what is
\* reported falls short of the loss by the slack at most.
LEMMA LowerBound ==
    ASSUME NEW P \in Nat, NEW A \in Nat, NEW y \in Nat, NEW a \in Nat,
           NEW s \in Nat, NEW D \in Nat, NEW S0 \in Nat, NEW D0 \in Nat,
           S0 <= s, D <= D0,
           s * (P * P) <= D * (y + 1),
           2 * (A * y) <= 2 * (P * P) * a + A * P + P * P
    PROVE  2 * P * P * a * D0 >= 2 * P * P * S0 * A - (P * P + A * (P + 2)) * D0
<1>1. D * (y + 1) <= D0 * (y + 1)
  BY TimesMonotone
<1>2. S0 * (P * P) <= s * (P * P)
  BY TimesMonotone
<1>3. S0 * (P * P) <= D0 * (y + 1)
  <2>1. /\ D0 * (y + 1) \in Nat /\ D * (y + 1) \in Nat
        /\ s * (P * P) \in Nat /\ S0 * (P * P) \in Nat
    OBVIOUS
  <2> QED BY <1>1, <1>2, <2>1
<1>4. (2 * A) * (S0 * (P * P)) <= (2 * A) * (D0 * (y + 1))
  <2>1. D0 * (y + 1) \in Nat /\ S0 * (P * P) \in Nat /\ 2 * A \in Nat
    OBVIOUS
  <2> QED BY <1>3, <2>1, TimesMonotone
<1>5. (2 * (A * y)) * D0 <= (2 * (P * P) * a + A * P + P * P) * D0
  BY TimesMonotone
<1>6. (2 * (P * P) * a + A * P + P * P) * D0
        = 2 * P * P * a * D0 + (A * P) * D0 + (P * P) * D0
  OBVIOUS
<1>7. (P * P + A * (P + 2)) * D0 = (P * P) * D0 + (A * P) * D0 + (2 * A) * D0
  OBVIOUS
<1>8. (2 * A) * (D0 * (y + 1)) = (2 * (A * y)) * D0 + (2 * A) * D0
  OBVIOUS
<1>9. (2 * A) * (S0 * (P * P)) = 2 * P * P * S0 * A
  OBVIOUS
<1>10. /\ (2 * (A * y)) * D0 \in Nat /\ (A * P) * D0 \in Nat
       /\ (P * P) * D0 \in Nat /\ (2 * A) * D0 \in Nat
       /\ 2 * P * P * a * D0 \in Nat /\ 2 * P * P * S0 * A \in Nat
  OBVIOUS
<1> QED BY <1>4, <1>5, <1>6, <1>7, <1>8, <1>9, <1>10

-----------------------------------------------------------------------------
(* One report.                                                             *)

\* ReportIsLossUpToMoves for the report r.
Fair(r) ==
    LET own == r.then[r.contract]
        ownAtSlash == r.slash.shares[r.contract]
        all == DelegatorShares(r.then)
        allAtSlash == DelegatorShares(r.slash.shares)
    IN  /\ own <= ownAtSlash /\ all >= allAtSlash
              => Claim(r) <= Loss(r) + Slack(r)
        /\ own >= ownAtSlash /\ all <= allAtSlash
              => Claim(r) >= Loss(r) - Slack(r)
        /\ r.amount <= r.slash.amount

\* A report worked out from the shares of its time errs as allowed: whether the
\* validator still has shares when it is built or not (abci.go:41-62).
LEMMA ReportOKIsFair ==
    ASSUME NEW r, ReportOK(r)
    PROVE  Fair(r)
<1> DEFINE P == Precision
           A == r.slash.amount
           a == r.amount
           s == r.then[r.contract]
           D == DelegatorShares(r.then)
           S0 == r.slash.shares[r.contract]
           D0 == DelegatorShares(r.slash.shares)
           y == (s * P * P) \div D
<1>1. /\ r.contract \in Delegators
      /\ r.slash.shares \in ShareMaps /\ r.then \in ShareMaps
      /\ A \in Nat /\ D0 > 0
  BY DEF ReportOK, SlashRecords, Delegators
<1>2. /\ s \in Nat /\ D \in Nat /\ s <= D
      /\ S0 \in Nat /\ D0 \in Nat /\ S0 <= D0
  BY <1>1, SharesBound
<1>3. P \in Nat \ {0}
  BY PrecisionAssumption
<1>4. /\ Claim(r) = 2 * P * P * a * D0
      /\ Loss(r) = 2 * P * P * S0 * A
      /\ Slack(r) = (P * P + A * (P + 2)) * D0
  BY DEF Claim, Loss, Slack, RoundingError
<1>5. a = IF D = 0 THEN 0 ELSE RoundInt(MulInt(Quo(s, D), A))
  BY DEF ReportOK, Reported
<1>6. Fair(r) = /\ s <= S0 /\ D >= D0 => Claim(r) <= Loss(r) + Slack(r)
                /\ s >= S0 /\ D <= D0 => Claim(r) >= Loss(r) - Slack(r)
                /\ a <= A
  BY DEF Fair
<1>7. CASE D = 0
  <2>1. a = 0
    BY <1>5, <1>7
  <2> HIDE DEF P, A, a, s, D, S0, D0
  <2>2. s = 0 /\ ~(D >= D0)
    BY <1>1, <1>2, <1>7
  <2>3. s >= S0 => S0 = 0
    BY <1>2, <2>2
  <2>4. 2 * P * P * a * D0 = 0
    BY <1>2, <1>3, <2>1
  <2>5. S0 = 0 => 2 * P * P * S0 * A = 0
    BY <1>1, <1>3
  <2>6. (P * P + A * (P + 2)) * D0 \in Nat
    BY <1>1, <1>2, <1>3
  <2>7. s >= S0 /\ D <= D0 => Claim(r) >= Loss(r) - Slack(r)
    BY <1>4, <2>3, <2>4, <2>5, <2>6
  <2>8. a <= A
    BY <1>1, <2>1
  <2> QED BY <1>6, <2>2, <2>7, <2>8
<1>8. CASE D # 0
  <2>1. a = RoundInt(MulInt(Quo(s, D), A))
    BY <1>5, <1>8
  <2>2. D \in Nat \ {0}
    BY <1>2, <1>8
  <2> HIDE DEF A, a, s, D, S0, D0
  <2>3. /\ y \in Nat /\ a \in Nat
        /\ D * y <= s * (P * P)
        /\ s * (P * P) <= D * (y + 1)
        /\ 2 * (P * P) * a <= 2 * (A * y) + A * P + P * P
        /\ 2 * (A * y) <= 2 * (P * P) * a + A * P + P * P
        /\ a <= A
    BY <1>1, <1>2, <2>1, <2>2, TwoRoundings
  <2> HIDE DEF P, y
  <2>4. ASSUME s <= S0, D0 <= D
        PROVE  2 * P * P * a * D0 <= 2 * P * P * S0 * A + (P * P + A * (P + 2)) * D0
    BY <1>1, <1>2, <1>3, <2>3, <2>4, UpperBound
  <2>5. ASSUME S0 <= s, D <= D0
        PROVE  2 * P * P * a * D0 >= 2 * P * P * S0 * A - (P * P + A * (P + 2)) * D0
    BY <1>1, <1>2, <1>3, <2>3, <2>5, LowerBound
  <2>6. /\ D >= D0 => D0 <= D
        /\ s >= S0 => S0 <= s
    BY <1>2
  <2> QED BY <1>4, <1>6, <2>3, <2>4, <2>5, <2>6
<1> QED BY <1>7, <1>8

-----------------------------------------------------------------------------
(* The invariant.                                                          *)

\* The invariant holds in the first block.
LEMMA ShareInit == Init => ShareInv
<1> SUFFICES ASSUME Init PROVE ShareInv
  OBVIOUS
<1>1. shares \in ShareMaps
  BY ConstantsAssumption DEF Init, ShareMaps
<1>2. slashes = <<>> /\ due = {} /\ reports = {}
  BY DEF Init
<1>3. <<>> \in Seq(SlashRecords)
  OBVIOUS
<1> QED BY <1>1, <1>2, <1>3 DEF ShareInv

\* Every step of the block keeps it.
LEMMA ShareStep == ShareInv /\ [Next]_vars => ShareInv'
<1> SUFFICES ASSUME ShareInv, [Next]_vars PROVE ShareInv'
  OBVIOUS
<1> USE DEF ShareInv
<1>0. ASSUME UNCHANGED <<shares, slashes, due, reports>>
      PROVE  ShareInv'
  BY <1>0
<1>1. ASSUME NEW amount \in SlashAmounts, Slash(amount)
      PROVE  ShareInv'
  <2>1. [amount |-> amount, shares |-> shares] \in SlashRecords
    BY <1>1, ConstantsAssumption DEF Slash, SlashRecords
  <2>2. slashes' \in Seq(SlashRecords)
    BY <1>1, <2>1 DEF Slash
  <2> QED BY <1>1, <2>2 DEF Slash
<1>2. ASSUME BeginBlockDone PROVE ShareInv'
  BY <1>0, <1>2 DEF BeginBlockDone
<1>3. ASSUME NEW d \in Delegators, NEW amount \in ShareAmounts,
             ChangeDelegation(d, amount)
      PROVE  ShareInv'
  <2>1. shares' \in ShareMaps
    BY <1>3, ConstantsAssumption DEF ChangeDelegation, ShareMaps
  <2> QED BY <1>3, <2>1 DEF ChangeDelegation
<1>4. ASSUME EndBlockerStart PROVE ShareInv'
  BY <1>4 DEF EndBlockerStart
<1>5. ASSUME NEW c \in due, NEW amount \in ShareAmounts,
             SendValsetUpdate(c, amount)
      PROVE  ShareInv'
  <2>1. c \in Contracts /\ c \in Delegators
    BY DEF Delegators
  <2>2. shares' \in ShareMaps
    BY <1>5, <2>1, ConstantsAssumption DEF SendValsetUpdate, ShareMaps
  <2>3. ASSUME NEW i \in 1..Len(slashes)
        PROVE  ReportOK([contract |-> c, slash |-> slashes[i], then |-> shares,
                         amount |-> DelegatorSlashAmount(c, slashes[i].amount)])
    <3>1. slashes[i] \in SlashRecords
      OBVIOUS
    <3>2. DelegatorSlashAmount(c, slashes[i].amount)
            = Reported(shares, c, slashes[i].amount)
      BY DEF DelegatorSlashAmount, Reported
    <3> QED BY <2>1, <3>1, <3>2 DEF ReportOK
  <2>4. \A r \in reports' : ReportOK(r)
    BY <1>5, <2>3 DEF SendValsetUpdate
  <2>5. due' \subseteq Contracts /\ slashes' = slashes
    BY <1>5 DEF SendValsetUpdate
  <2> QED BY <2>2, <2>4, <2>5
<1>6. ASSUME EndBlockerDone PROVE ShareInv'
  BY <1>6 DEF EndBlockerDone
<1>7. CASE UNCHANGED vars
  BY <1>0, <1>7 DEF vars
<1> QED BY <1>1, <1>2, <1>3, <1>4, <1>5, <1>6, <1>7 DEF Next

\* Every report was worked out from shares and slashes of this block.
THEOREM ShareInductive == Spec => []ShareInv
BY ShareInit, ShareStep, PTL DEF Spec

\* For all delegators, shares, slashes and precisions: a slash report is the
\* contract's loss up to rounding and to what moved between slash and report,
\* and never more than the slash (EndBlocker, abci.go:30-64).
THEOREM ReportsAreLosses == Spec => []ReportIsLossUpToMoves
<1>1. ShareInv => ReportIsLossUpToMoves
  BY ReportOKIsFair DEF ShareInv, ReportIsLossUpToMoves, Fair
<1> QED BY <1>1, ShareInductive, PTL
=============================================================================
