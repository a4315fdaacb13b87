------------------------- MODULE VirtualStakeProofs -------------------------
(***************************************************************************)
(* The safety properties of virtual staking for all contracts, other       *)
(* delegators, validators, amounts, caps, slashes and precisions.          *)
(***************************************************************************)
EXTENDS VirtualStakeLedger, VirtualStakeGenesis, Arithmetic

-----------------------------------------------------------------------------
(* The decimals.                                                           *)

\* chopPrecisionAndRound is exact on whole numbers of units.
LEMMA ChopExact ==
    ASSUME NEW n \in Nat
    PROVE  chopPrecisionAndRound(n * Precision) = n
<1>1. chopPrecisionAndRound(n * Precision) = Rounded(n * Precision, Precision)
  BY DEF chopPrecisionAndRound, Rounded
<1> QED BY <1>1, PrecisionAssumption, RoundedExact

\* A quotient of decimals, truncated, does not pass a whole number that bounds
\* the exact quotient: the two roundings of Quo never push it over.
LEMMA QuoBound ==
    ASSUME NEW a \in Nat, NEW b \in Nat \ {0}, NEW k \in Nat, a <= b * k
    PROVE  /\ Quo(a, b) \in Nat /\ Quo(a, b) <= k * Precision
           /\ TruncateInt(Quo(a, b)) \in Nat /\ TruncateInt(Quo(a, b)) <= k
<1>1. Quo(a, b) = Rounded((a * Precision * Precision) \div b, Precision)
  BY DEF Quo, chopPrecisionAndRound, Rounded
<1> QED BY <1>1, PrecisionAssumption, QuotientBound DEF TruncateInt

ValRecord == [status : Statuses, tokens : Nat, shares : Nat]

\* The delegations to a validator make up its shares.
SharesMatch ==
    \A v \in Validators : Sum(del[v], Holders) = val[v].shares

\* The inductive invariant.
StakeInv ==
    /\ TypeOK
    /\ bal[Mesh] = 0
    /\ SharesMatch
    /\ PoolsBacked
    /\ SupplyConserved

\* The sets sums are taken over.
LEMMA SetsFinite ==
    /\ IsFiniteSet(Contracts) /\ IsFiniteSet(Validators)
    /\ IsFiniteSet(Holders) /\ IsFiniteSet(Pools) /\ IsFiniteSet(Accounts)
<1>1. IsFiniteSet(Contracts) /\ IsFiniteSet(Validators) /\ IsFiniteSet(Others)
  BY ConstantsAssumption
<1>2. IsFiniteSet(Holders)
  BY <1>1, FS_Union DEF Holders
<1>3. IsFiniteSet({"bonded"}) /\ IsFiniteSet({"notBonded"}) /\ IsFiniteSet({Mesh})
  BY FS_Singleton
<1>4. IsFiniteSet({"bonded"} \cup {"notBonded"})
  BY <1>3, FS_Union
<1>5. Pools = {"bonded"} \cup {"notBonded"}
  BY DEF Pools
<1>6. IsFiniteSet(Pools)
  BY <1>4, <1>5
<1>7. IsFiniteSet(Holders \cup Pools)
  BY <1>2, <1>6, FS_Union
<1>8. IsFiniteSet((Holders \cup Pools) \cup {Mesh})
  BY <1>3, <1>7, FS_Union
<1> QED BY <1>1, <1>2, <1>6, <1>8 DEF Accounts

\* Module accounts are no holders.
LEMMA AccountsApart ==
    /\ Contracts \subseteq Holders
    /\ Holders \subseteq Accounts /\ Pools \subseteq Accounts /\ Mesh \in Accounts
    /\ \A h \in Holders : h # Mesh /\ h \notin Pools
    /\ Mesh \notin Pools
BY ConstantsAssumption DEF Holders, Accounts, Pools, Mesh

-----------------------------------------------------------------------------
(* x/bank: what a call does to the sum of all balances.                    *)

Balances == [Accounts -> Int]

\* A payment to an account changes the sum by the amount.
LEMMA DepositSum ==
    ASSUME NEW b \in Balances, NEW a \in Accounts, NEW d \in Int
    PROVE  LET e == [b EXCEPT ![a] = @ + d]
           IN  e \in Balances /\ Sum(e, Accounts) = Sum(b, Accounts) + d
               /\ Sum(b, Accounts) \in Int
<1> DEFINE e == [b EXCEPT ![a] = @ + d]
<1>1. e \in Balances /\ e[a] = b[a] + d
  BY DEF Balances
<1>2. \A x \in Accounts \ {a} : e[x] = b[x]
  BY DEF Balances
<1> HIDE DEF e
<1>3. \A x \in Accounts : b[x] \in Int /\ e[x] \in Int
  BY <1>1 DEF Balances
<1>4. IsFiniteSet(Accounts)
  BY SetsFinite
<1>5. Sum(e, Accounts) = Sum(b, Accounts) + e[a] - b[a]
  BY <1>2, <1>3, <1>4, SumUpdate
<1>6. \A x \in Accounts : b[x] \in Int
  BY <1>3
<1>7. Sum(b, Accounts) \in Int /\ b[a] \in Int
  BY <1>4, <1>6, SumInt
<1>8. Sum(e, Accounts) = Sum(b, Accounts) + d
  BY <1>1, <1>5, <1>7
<1> QED BY <1>1, <1>7, <1>8 DEF e

\* Sending between two accounts does not change it.
LEMMA SendSum ==
    ASSUME NEW b \in Balances, NEW from \in Accounts, NEW to \in Accounts,
           from # to, NEW amt \in Int
    PROVE  LET e == SendCoins(b, from, to, amt)
           IN  /\ e \in Balances
               /\ e[from] = b[from] - amt /\ e[to] = b[to] + amt
               /\ \A x \in Accounts \ {from, to} : e[x] = b[x]
               /\ Sum(e, Accounts) = Sum(b, Accounts)
<1> DEFINE d == [b EXCEPT ![from] = @ + (-amt)]
           e == [d EXCEPT ![to] = @ + amt]
<1>1. d \in Balances /\ Sum(d, Accounts) = Sum(b, Accounts) + (-amt)
      /\ Sum(b, Accounts) \in Int
  <2>1. -amt \in Int
    OBVIOUS
  <2> QED BY <2>1, DepositSum
<1>2. d[from] = b[from] - amt /\ \A x \in Accounts \ {from} : d[x] = b[x]
  BY DEF Balances
<1>3. SendCoins(b, from, to, amt) = [b EXCEPT ![from] = @ - amt, ![to] = @ + amt]
  BY DEF SendCoins
<1>a. b[from] - amt = b[from] + (-amt)
  BY DEF Balances
<1>4. SendCoins(b, from, to, amt) = e
  BY <1>3, <1>a DEF Balances
<1> HIDE DEF d
<1>5. e \in Balances /\ Sum(e, Accounts) = Sum(d, Accounts) + amt
  BY <1>1, DepositSum
<1>6. e[to] = d[to] + amt /\ \A x \in Accounts \ {to} : e[x] = d[x]
  BY <1>1 DEF Balances
<1> HIDE DEF e
<1>7. Sum(e, Accounts) = Sum(b, Accounts)
  BY <1>1, <1>5
<1> QED BY <1>2, <1>4, <1>5, <1>6, <1>7

-----------------------------------------------------------------------------
(* x/staking: what the validators keep in a pool.                          *)

\* The tokens a validator keeps in pool p.
InPool(w, p) ==
    IF (IF w.status = "bonded" THEN "bonded" ELSE "notBonded") = p
    THEN w.tokens ELSE 0

PoolTokens(x, p) == [v \in Validators |-> InPool(x[v], p)]

\* A sum of tokens, as one of a function.
LEMMA TokensSum ==
    ASSUME NEW S, IsFiniteSet(S), NEW x
    PROVE  SumOver(S, LAMBDA v : x[v].tokens) = Sum([v \in S |-> x[v].tokens], S)
<1> DEFINE f == [v \in S |-> x[v].tokens]
           Body(g, s) == IF s = {} THEN 0
                         ELSE x[Pick(s)].tokens + g[s \ {Pick(s)}]
           iter == CHOOSE g : g = [s \in SUBSET S |-> Body(g, s)]
<1>1. ASSUME NEW g, NEW s \in SUBSET S PROVE Body(g, s) = Rest(f, g, s)
  <2>1. CASE s = {}
    BY <2>1 DEF Rest
  <2>2. CASE s # {}
    <3>1. Pick(s) \in S
      BY <2>2 DEF Pick
    <3>2. f[Pick(s)] = x[Pick(s)].tokens
      BY <3>1
    <3> QED BY <2>2, <3>2 DEF Rest
  <2> QED BY <2>1, <2>2
<1>2. SumOver(S, LAMBDA v : x[v].tokens) = iter[S]
  BY DEF SumOver, MapThenSumSet, MapThenFoldSet, Pick
<1> HIDE DEF Body, f
<1>3. PICK g : IsIter(g, f, S)
  BY IterExists
<1>4. g = [s \in SUBSET S |-> Body(g, s)]
  BY <1>1, <1>3 DEF IsIter
<1>5. iter = [s \in SUBSET S |-> Body(iter, s)]
  BY <1>4
<1> HIDE DEF iter
<1>6. IsIter(iter, f, S)
  BY <1>1, <1>5 DEF IsIter
<1>7. PICK h : IsIter(h, f, S) /\ Sum(f, S) = h[S]
  BY SumUnfold
<1>8. S \in SUBSET S /\ \A v \in S : f[v] = f[v]
  OBVIOUS
<1>9. \A s \in SUBSET S : iter[s] = h[s]
  BY <1>6, <1>7, <1>8, IterAgree
<1>10. iter[S] = h[S]
  BY <1>8, <1>9
<1> QED BY <1>2, <1>7, <1>10 DEF f

\* The tokens of the validators with status of a pool, as a sum over all
\* validators.
LEMMA PoolSum ==
    ASSUME NEW x \in [Validators -> ValRecord], NEW p
    PROVE  /\ SumOver({v \in Validators :
                         (IF x[v].status = "bonded"
                          THEN "bonded" ELSE "notBonded") = p},
                      LAMBDA v : x[v].tokens)
                = Sum(PoolTokens(x, p), Validators)
           /\ PoolTokens(x, p) \in [Validators -> Nat]
<1> DEFINE S == {v \in Validators :
                   (IF x[v].status = "bonded"
                    THEN "bonded" ELSE "notBonded") = p}
           T == Validators \ S
           f == PoolTokens(x, p)
           g == [v \in S |-> x[v].tokens]
<1>1. \A v \in Validators : x[v].tokens \in Nat
  BY DEF ValRecord
<1>2. /\ f \in [Validators -> Nat]
      /\ \A v \in S : f[v] = g[v]
      /\ \A v \in T : f[v] = 0
  BY <1>1 DEF PoolTokens, InPool
<1>3. IsFiniteSet(S) /\ IsFiniteSet(T)
  <2>1. S \in SUBSET Validators /\ T \in SUBSET Validators
    OBVIOUS
  <2> QED BY <2>1, SetsFinite, FS_Subset
<1>4. SumOver(S, LAMBDA v : x[v].tokens) = Sum(g, S)
  BY <1>3, TokensSum
<1>5. S \cup T = Validators /\ S \cap T = {}
  OBVIOUS
<1> HIDE DEF f, g, T
<1>6. \A v \in S \cup T : f[v] \in Int
  BY <1>2, <1>5
<1>a. Sum(f, S \cup T) = Sum(f, S) + Sum(f, T)
  <2> HIDE DEF S
  <2> QED BY <1>3, <1>5, <1>6, SumUnion
<1>7. Sum(f, S) = Sum(g, S)
  <2> HIDE DEF S
  <2> QED BY <1>2, <1>3, SumAgree
<1>8. Sum(f, T) = Cardinality(T) * 0
  BY <1>2, <1>3, SumConst
<1>9. Cardinality(T) \in Nat
  BY <1>3, FS_CardinalityType
<1>10. \A v \in S : f[v] \in Int
  BY <1>2
<1>11. Sum(f, S) \in Int
  <2> HIDE DEF S
  <2> QED BY <1>3, <1>10, SumInt
<1>12. Sum(f, S \cup T) = Sum(g, S)
  <2> HIDE DEF S
  <2> QED BY <1>a, <1>7, <1>8, <1>9, <1>11
<1>13. Sum(f, Validators) = Sum(g, S)
  <2> HIDE DEF S
  <2> QED BY <1>5, <1>12
<1>14. SumOver(S, LAMBDA v : x[v].tokens) = Sum(f, Validators)
  BY <1>4, <1>13
<1> QED BY <1>2, <1>14 DEF f

\* What one validator does to the tokens in a pool.
LEMMA PoolUpdate ==
    ASSUME NEW x \in [Validators -> ValRecord], NEW y \in [Validators -> ValRecord],
           NEW v \in Validators, \A w \in Validators \ {v} : y[w] = x[w], NEW p
    PROVE  /\ Sum(PoolTokens(y, p), Validators)
                = Sum(PoolTokens(x, p), Validators)
                    + InPool(y[v], p) - InPool(x[v], p)
           /\ Sum(PoolTokens(x, p), Validators) \in Nat
           /\ InPool(x[v], p) \in Nat /\ InPool(y[v], p) \in Nat
           /\ InPool(x[v], p) <= Sum(PoolTokens(x, p), Validators)
<1> DEFINE f == PoolTokens(x, p)
           e == PoolTokens(y, p)
<1>1. f \in [Validators -> Nat] /\ e \in [Validators -> Nat]
  BY PoolSum
<1>2. \A w \in Validators : f[w] = InPool(x[w], p) /\ e[w] = InPool(y[w], p)
  BY DEF PoolTokens
<1>3. \A w \in Validators \ {v} : e[w] = f[w]
  BY <1>2
<1> HIDE DEF f, e
<1>4. \A w \in Validators : f[w] \in Int /\ e[w] \in Int
  BY <1>1
<1>5. IsFiniteSet(Validators)
  BY SetsFinite
<1>6. Sum(e, Validators) = Sum(f, Validators) + e[v] - f[v]
  BY <1>3, <1>4, <1>5, SumUpdate
<1>7. \A w \in Validators : f[w] \in Nat
  BY <1>1
<1>8. Sum(f, Validators) \in Nat /\ f[v] <= Sum(f, Validators)
  BY <1>5, <1>7, SumNat
<1> QED BY <1>1, <1>2, <1>6, <1>8 DEF f, e

\* The tokens in a pool after a step.
LEMMA TokensInNext ==
    ASSUME val' \in [Validators -> ValRecord], NEW p
    PROVE  TokensIn(p)' = Sum(PoolTokens(val', p), Validators)
<1>1. TokensIn(p)' = SumOver({w \in Validators :
                         (IF val'[w].status = "bonded"
                          THEN "bonded" ELSE "notBonded") = p},
                      LAMBDA w : val'[w].tokens)
  BY DEF TokensIn, PoolOf, SumOver, MapThenSumSet, MapThenFoldSet
<1> QED BY <1>1, PoolSum

\* The pools stay backed by a step that changes one validator and pays its
\* pools what the change is worth.
LEMMA PoolsStep ==
    ASSUME val \in [Validators -> ValRecord], val' \in [Validators -> ValRecord],
           NEW v \in Validators, \A w \in Validators \ {v} : val'[w] = val[w],
           PoolsBacked, bal \in [Accounts -> Nat],
           \A p \in Pools :
              bal'[p] = bal[p] + InPool(val'[v], p) - InPool(val[v], p)
    PROVE  PoolsBacked'
<1> SUFFICES ASSUME NEW p \in Pools PROVE bal'[p] = TokensIn(p)'
  BY DEF PoolsBacked
<1>1. bal[p] = TokensIn(p)
  BY DEF PoolsBacked
<1>2. TokensIn(p) = Sum(PoolTokens(val, p), Validators)
  BY PoolSum DEF TokensIn, PoolOf
<1>4. TokensIn(p)' = Sum(PoolTokens(val', p), Validators)
  BY TokensInNext
<1>5. Sum(PoolTokens(val', p), Validators)
        = Sum(PoolTokens(val, p), Validators)
            + InPool(val'[v], p) - InPool(val[v], p)
  BY PoolUpdate
<1>6. bal'[p] = bal[p] + InPool(val'[v], p) - InPool(val[v], p)
  OBVIOUS
<1> QED BY <1>1, <1>2, <1>4, <1>5, <1>6

\* A pool has the tokens of each of its validators.
LEMMA PoolEnough ==
    ASSUME TypeOK, PoolsBacked, NEW v \in Validators
    PROVE  PoolOf(v) \in Pools /\ val[v].tokens <= bal[PoolOf(v)]
<1>1. val \in [Validators -> ValRecord]
  BY DEF TypeOK, ValRecord
<1>2. PoolOf(v) \in Pools
  BY DEF PoolOf, Pools
<1>3. bal[PoolOf(v)] = TokensIn(PoolOf(v))
  BY <1>2 DEF PoolsBacked
<1> DEFINE p == PoolOf(v)
<1>4. TokensIn(p) = Sum(PoolTokens(val, p), Validators)
  BY <1>1, PoolSum DEF TokensIn, PoolOf
<1>5. InPool(val[v], p) <= Sum(PoolTokens(val, p), Validators)
  BY <1>1, PoolUpdate
<1>6. InPool(val[v], p) = val[v].tokens
  BY DEF InPool, PoolOf
<1> QED BY <1>2, <1>3, <1>4, <1>5, <1>6

-----------------------------------------------------------------------------
(* x/staking: shares and the tokens they are worth.                        *)

\* A holder has no more than all shares.
LEMMA HolderShares ==
    ASSUME TypeOK, SharesMatch, NEW v \in Validators, NEW h \in Holders
    PROVE  /\ del[v][h] \in Nat /\ val[v].shares \in Nat
           /\ del[v][h] <= val[v].shares
<1>1. \A x \in Holders : del[v][x] \in Nat
  BY DEF TypeOK
<1>2. IsFiniteSet(Holders)
  BY SetsFinite
<1>3. \A x \in Holders : del[v][x] <= Sum(del[v], Holders)
  BY <1>1, <1>2, SumNat
<1>4. Sum(del[v], Holders) = val[v].shares
  BY DEF SharesMatch
<1>5. val[v].shares \in Nat
  BY DEF TypeOK
<1> QED BY <1>1, <1>3, <1>4, <1>5

\* The shares still match when one holder's shares and the validator's change
\* by the same number.
LEMMA SharesStep ==
    ASSUME TypeOK, SharesMatch, NEW v \in Validators, NEW h \in Holders,
           NEW d \in Int,
           del' = [del EXCEPT ![v][h] = @ + d],
           \A w \in Validators \ {v} : val'[w].shares = val[w].shares,
           val'[v].shares = val[v].shares + d
    PROVE  SharesMatch'
<1> SUFFICES ASSUME NEW w \in Validators
             PROVE  Sum(del'[w], Holders) = val'[w].shares
  BY DEF SharesMatch, Sum, MapThenSumSet, MapThenFoldSet
<1>1. Sum(del[w], Holders) = val[w].shares
  BY DEF SharesMatch
<1>2. CASE w # v
  <2>1. del'[w] = del[w] /\ val'[w].shares = val[w].shares
    BY <1>2 DEF TypeOK
  <2> QED BY <1>1, <2>1
<1>3. CASE w = v
  <2> DEFINE f == del[v]
             e == del'[v]
  <2>1. f \in [Holders -> Nat]
    BY DEF TypeOK
  <2>2. e = [f EXCEPT ![h] = @ + d]
    BY DEF TypeOK
  <2> HIDE DEF e, f
  <2>3. \A x \in Holders : f[x] \in Int /\ e[x] \in Int
    BY <2>1, <2>2
  <2>4. \A x \in Holders \ {h} : e[x] = f[x]
    BY <2>1, <2>2
  <2>5. IsFiniteSet(Holders)
    BY SetsFinite
  <2>6. Sum(e, Holders) = Sum(f, Holders) + e[h] - f[h]
    BY <2>3, <2>4, <2>5, SumUpdate
  <2>7. e[h] = f[h] + d /\ f[h] \in Int
    BY <2>1, <2>2
  <2>8. val[v].shares \in Int
    BY DEF TypeOK
  <2>9. Sum(f, Holders) = val[v].shares
    BY <1>1, <1>3 DEF f
  <2>10. Sum(e, Holders) = val[v].shares + d
    BY <2>6, <2>7, <2>8, <2>9
  <2> QED BY <1>3, <2>10 DEF e
<1> QED BY <1>2, <1>3

\* A step that leaves del and all shares alone.
LEMMA SharesUnchanged ==
    ASSUME SharesMatch, del' = del,
           \A w \in Validators : val'[w].shares = val[w].shares
    PROVE  SharesMatch'
<1> SUFFICES ASSUME NEW w \in Validators
             PROVE  Sum(del'[w], Holders) = val'[w].shares
  BY DEF SharesMatch, Sum, MapThenSumSet, MapThenFoldSet
<1>1. Sum(del[w], Holders) = val[w].shares
  BY DEF SharesMatch
<1> QED BY <1>1

\* A delegation is worth a whole number of the smallest share units.
LEMMA IssuedNat ==
    ASSUME TypeOK, NEW v \in Validators, NEW amt \in Nat, ~InvalidExRate(v)
    PROVE  IssuedShares(v, amt) \in Nat
<1>1. val[v].tokens \in Nat /\ val[v].shares \in Nat
  BY DEF TypeOK
<1>2. CASE val[v].shares = 0
  BY <1>2, PrecisionAssumption DEF IssuedShares, NewDecFromInt
<1>3. CASE val[v].shares # 0
  <2>1. val[v].tokens # 0
    BY <1>1, <1>3 DEF InvalidExRate
  <2>2. val[v].shares * amt \in Nat
    BY <1>1
  <2> QED BY <1>1, <1>3, <2>1, <2>2, DivMod
          DEF IssuedShares, SharesFromTokens, QuoInt, MulInt
<1> QED BY <1>2, <1>3

\* Unbonding takes no more shares than the holder has, and returns no more
\* tokens than the validator has or the holder asked for.
LEMMA UnbondFacts ==
    ASSUME TypeOK, SharesMatch, NEW v \in Validators, NEW h \in Holders,
           NEW amt \in Nat, CanUnbond(v, h, amt)
    PROVE  LET s == UnbondShares(v, h, amt)
               r == UnbondReturn(v, s)
           IN  /\ s \in Nat /\ s <= del[v][h] /\ s <= val[v].shares
               /\ r \in Nat /\ r <= val[v].tokens /\ r <= amt
<1> DEFINE T == val[v].tokens
           H == val[v].shares
           d == del[v][h]
           q == (H * amt) \div T
           s == UnbondShares(v, h, amt)
           r == UnbondReturn(v, s)
<1>1. T \in Nat \ {0} /\ H \in Nat /\ d \in Nat \ {0} /\ d <= H
  <2>1. T \in Nat /\ T > 0 /\ d > 0
    BY DEF TypeOK, CanUnbond
  <2> QED BY <2>1, HolderShares
<1>2. q \in Nat /\ T * q <= H * amt
  <2> HIDE DEF T, H
  <2>1. H * amt \in Nat
    BY <1>1
  <2>2. q \in Nat /\ (H * amt) % T \in Nat /\ H * amt = T * q + ((H * amt) % T)
    BY <1>1, <2>1, DivMod
  <2>3. T * q \in Nat
    BY <1>1, <2>2
  <2> HIDE DEF q
  <2> QED BY <2>1, <2>2, <2>3
<1>3. s = IF q > d THEN d ELSE q
  BY DEF UnbondShares, SharesFromTokens, QuoInt, MulInt
<1>4. r = IF s = H THEN T ELSE TruncateInt(Quo(s * T, H))
  BY DEF UnbondReturn, TokensFromShares, MulInt
<1> HIDE DEF T, H, d, q, s, r
<1>5. s \in Nat /\ s <= d /\ s <= q /\ s <= H
  BY <1>1, <1>2, <1>3
<1>6. s * T <= H * T /\ s * T \in Nat
  BY <1>1, <1>5, TimesMonotone
<1>7. s * T <= H * amt
  <2>1. T * s <= T * q /\ T * s \in Nat /\ T * q \in Nat
    BY <1>1, <1>2, <1>5, TimesMonotone
  <2>2. T * s = s * T
    BY <1>1, <1>5
  <2>3. H * amt \in Nat
    BY <1>1
  <2> QED BY <1>2, <2>1, <2>2, <2>3
<1>8. H \in Nat \ {0}
  BY <1>1
<1>9. CASE s = H
  <2>1. H * T <= H * amt
    BY <1>7, <1>9
  <2>2. T <= amt
    BY <1>1, <1>8, <2>1, TimesCancel
  <2>3. r = T
    BY <1>4, <1>9
  <2>4. r \in Nat /\ r <= T /\ r <= amt
    BY <1>1, <2>2, <2>3
  <2> QED BY <1>5, <2>4 DEF T, H, d, s, r
<1>10. CASE s # H
  <2>1. r = TruncateInt(Quo(s * T, H))
    BY <1>4, <1>10
  <2>2. T \in Nat
    BY <1>1
  <2>3. TruncateInt(Quo(s * T, H)) \in Nat /\ TruncateInt(Quo(s * T, H)) <= T
    BY <1>6, <1>8, <2>2, QuoBound
  <2>4. TruncateInt(Quo(s * T, H)) <= amt
    BY <1>6, <1>7, <1>8, QuoBound
  <2>5. r \in Nat /\ r <= T /\ r <= amt
    BY <2>1, <2>3, <2>4
  <2> QED BY <1>5, <2>5 DEF T, H, d, s, r
<1> QED BY <1>9, <1>10

\* A delegation adds its tokens to the pool of the validator, and shares to
\* match.
LEMMA AddEffect ==
    ASSUME TypeOK, SharesMatch, NEW v \in Validators, NEW h \in Holders,
           NEW amt \in Nat, ~InvalidExRate(v), AddDelegation(v, h, amt)
    PROVE  /\ val' \in [Validators -> ValRecord]
           /\ del' \in [Validators -> [Holders -> Nat]]
           /\ \A w \in Validators \ {v} : val'[w] = val[w]
           /\ \A p : InPool(val'[v], p)
                       = InPool(val[v], p) + (IF p = PoolOf(v) THEN amt ELSE 0)
           /\ SharesMatch'
<1> DEFINE n == IssuedShares(v, amt)
<1>1. n \in Nat
  BY IssuedNat
<1>2. /\ val' = [val EXCEPT ![v].tokens = @ + amt, ![v].shares = @ + n]
      /\ del' = [del EXCEPT ![v][h] = @ + n]
  BY DEF AddDelegation
<1> HIDE DEF n
<1>3. val \in [Validators -> ValRecord] /\ del \in [Validators -> [Holders -> Nat]]
  BY DEF TypeOK, ValRecord
<1> DEFINE w1 == [val[v] EXCEPT !.tokens = @ + amt, !.shares = @ + n]
<1>a. val' = [val EXCEPT ![v] = w1]
  BY <1>2, <1>3
<1>b. /\ w1 \in ValRecord
      /\ w1.status = val[v].status
      /\ w1.tokens = val[v].tokens + amt
      /\ w1.shares = val[v].shares + n
  <2>1. /\ val[v] \in ValRecord /\ val[v].tokens + amt \in Nat
        /\ val[v].shares + n \in Nat
    BY <1>1, <1>3 DEF ValRecord
  <2> QED BY <2>1 DEF ValRecord
<1> HIDE DEF w1
<1>4. val' \in [Validators -> ValRecord]
      /\ \A w \in Validators \ {v} : val'[w] = val[w]
  BY <1>a, <1>b, <1>3
<1>5. del' \in [Validators -> [Holders -> Nat]]
  BY <1>1, <1>2, <1>3
<1>6. /\ val'[v].status = val[v].status
      /\ val'[v].tokens = val[v].tokens + amt
      /\ val'[v].shares = val[v].shares + n
  BY <1>a, <1>b, <1>3
<1>7. SharesMatch'
  <2>1. \A w \in Validators \ {v} : val'[w].shares = val[w].shares
    BY <1>4
  <2>2. del' = [del EXCEPT ![v][h] = @ + n] /\ n \in Int
    BY <1>1, <1>2
  <2>3. val'[v].shares = val[v].shares + n
    BY <1>6
  <2> QED BY <2>1, <2>2, <2>3, SharesStep
<1>8. val[v].tokens \in Nat
  BY <1>3 DEF ValRecord
<1>9. \A p : InPool(val'[v], p)
               = InPool(val[v], p) + (IF p = PoolOf(v) THEN amt ELSE 0)
  BY <1>6, <1>8 DEF InPool, PoolOf
<1> QED BY <1>4, <1>5, <1>7, <1>9

\* Unbonding takes what it returns from the pool of the validator, also when
\* the validator is removed with it.
LEMMA RemoveEffect ==
    ASSUME TypeOK, SharesMatch, NEW v \in Validators, NEW h \in Holders,
           NEW s \in Nat, s <= del[v][h], s <= val[v].shares,
           UnbondReturn(v, s) \in Nat, UnbondReturn(v, s) <= val[v].tokens,
           RemoveDelegation(v, h, s)
    PROVE  /\ val' \in [Validators -> ValRecord]
           /\ del' \in [Validators -> [Holders -> Nat]]
           /\ \A w \in Validators \ {v} : val'[w] = val[w]
           /\ \A p : InPool(val'[v], p)
                       = InPool(val[v], p)
                           - (IF p = PoolOf(v) THEN UnbondReturn(v, s) ELSE 0)
           /\ SharesMatch'
<1> DEFINE r == UnbondReturn(v, s)
           left == val[v].shares - s
           w0 == val[v]
           w1 == IF left = 0 /\ w0.status = "unbonded"
                 THEN [status |-> "absent", tokens |-> 0, shares |-> 0]
                 ELSE [w0 EXCEPT !.tokens = w0.tokens - r, !.shares = left]
<1>1. /\ val' = [val EXCEPT ![v] = w1]
      /\ del' = [del EXCEPT ![v][h] = @ - s]
  <2>1. del' = [del EXCEPT ![v][h] = @ - s]
    BY DEF RemoveDelegation
  <2>2. val' = [val EXCEPT ![v] = w1]
    BY DEF RemoveDelegation
  <2> QED BY <2>1, <2>2
<1>2. val \in [Validators -> ValRecord] /\ del \in [Validators -> [Holders -> Nat]]
  BY DEF TypeOK, ValRecord
<1>3. r \in Nat /\ r <= w0.tokens /\ left \in Nat /\ w0 \in ValRecord
  BY <1>2 DEF ValRecord
<1>4. left = 0 => r = w0.tokens
  <2>0. val[v].shares \in Nat
    BY <1>2 DEF ValRecord
  <2>1. left = 0 => s = val[v].shares
    BY <2>0
  <2> QED BY <2>1 DEF UnbondReturn
<1> HIDE DEF r
<1>5. /\ w1 \in ValRecord
      /\ w1.shares = left
      /\ w1.tokens = w0.tokens - r
      /\ (w1.status = "bonded") <=> (w0.status = "bonded")
  <2>1. CASE left = 0 /\ w0.status = "unbonded"
    <3>1. w1 = [status |-> "absent", tokens |-> 0, shares |-> 0]
      BY <2>1
    <3>2. w0.tokens \in Nat
      BY <1>3 DEF ValRecord
    <3> QED BY <1>3, <1>4, <2>1, <3>1, <3>2 DEF ValRecord, Statuses
  <2>2. CASE ~(left = 0 /\ w0.status = "unbonded")
    <3>1. w1 = [w0 EXCEPT !.tokens = w0.tokens - r, !.shares = left]
      BY <2>2
    <3>2. w0.tokens - r \in Nat
      BY <1>3 DEF ValRecord
    <3> HIDE DEF left, w0, w1
    <3> QED BY <1>3, <3>1, <3>2 DEF ValRecord
  <2> QED BY <2>1, <2>2
<1>6. val'[v] = w1
  BY <1>1, <1>2
<1>7. val' \in [Validators -> ValRecord]
      /\ \A w \in Validators \ {v} : val'[w] = val[w]
  <2> HIDE DEF w1
  <2> QED BY <1>1, <1>2, <1>5
<1>8. del' \in [Validators -> [Holders -> Nat]]
  BY <1>1, <1>2
<1>9. SharesMatch'
  <2>1. \A w \in Validators \ {v} : val'[w].shares = val[w].shares
    BY <1>7
  <2>2. del' = [del EXCEPT ![v][h] = @ + (-s)]
    <3>1. del[v][h] - s = del[v][h] + (-s)
      BY <1>2
    <3>2. [del EXCEPT ![v][h] = @ - s] = [del EXCEPT ![v][h] = @ + (-s)]
      BY <3>1
    <3> QED BY <1>1, <3>2
  <2>3. val'[v].shares = val[v].shares + (-s)
    <3>1. val[v].shares \in Nat
      BY <1>2 DEF ValRecord
    <3> QED BY <1>5, <1>6, <3>1
  <2>4. -s \in Int
    OBVIOUS
  <2> QED BY <2>1, <2>2, <2>3, <2>4, SharesStep
<1>10. \A p : InPool(val'[v], p)
               = InPool(val[v], p) - (IF p = PoolOf(v) THEN r ELSE 0)
  <2>1. w0.tokens \in Nat
    BY <1>3 DEF ValRecord
  <2> HIDE DEF w1, left
  <2> QED BY <1>3, <1>5, <1>6, <2>1 DEF InPool, PoolOf
<1> QED BY <1>7, <1>8, <1>9, <1>10 DEF r

-----------------------------------------------------------------------------
(* What a step has to show to keep the invariant.                          *)

\* The totals and the supply offset change by the same amount.
TotalsKept ==
    Sum(total', Contracts) + offset' = Sum(total, Contracts) + offset

LEMMA TotalsStep ==
    ASSUME TypeOK, NEW c \in Contracts, NEW d \in Int,
           total' = [total EXCEPT ![c] = @ + d], offset' = offset - d
    PROVE  TotalsKept
<1>1. total \in [Contracts -> Nat] /\ offset \in Int
  BY DEF TypeOK
<1>2. \A x \in Contracts : total[x] \in Int /\ total'[x] \in Int
  BY <1>1
<1>3. \A x \in Contracts \ {c} : total'[x] = total[x]
  BY <1>1
<1>4. IsFiniteSet(Contracts)
  BY SetsFinite
<1>5. Sum(total', Contracts) = Sum(total, Contracts) + total'[c] - total[c]
  <2> DEFINE f == total
             e == total'
  <2>1. \A x \in Contracts : f[x] \in Int /\ e[x] \in Int
    BY <1>2
  <2>2. \A x \in Contracts \ {c} : e[x] = f[x]
    BY <1>3
  <2> HIDE DEF e, f
  <2>3. Sum(e, Contracts) = Sum(f, Contracts) + e[c] - f[c]
    BY <1>4, <2>1, <2>2, SumUpdate
  <2> QED BY <2>3 DEF e, f
<1>6. \A x \in Contracts : total[x] \in Int
  BY <1>2
<1>7. Sum(total, Contracts) \in Int
  BY <1>4, <1>6, SumInt
<1>8. total'[c] = total[c] + d /\ total[c] \in Int
  BY <1>1
<1> QED BY <1>1, <1>5, <1>7, <1>8 DEF TotalsKept

\* What the bank's supply changes by is matched by the offset and by slashes.
LEMMA SupplyStep ==
    ASSUME SupplyConserved,
           Sum(bal', Accounts) + offset' + slashed'
             = Sum(bal, Accounts) + offset + slashed
    PROVE  SupplyConserved'
BY DEF SupplyConserved, SumOver, Sum, MapThenSumSet, MapThenFoldSet

\* A step on one validator that keeps shares, pools and supply in balance.
LEMMA StakeStep ==
    ASSUME StakeInv, NEW v \in Validators,
           val' \in [Validators -> ValRecord],
           \A w \in Validators \ {v} : val'[w] = val[w],
           del' \in [Validators -> [Holders -> Nat]],
           SharesMatch',
           bal' \in [Accounts -> Nat],
           bal'[Mesh] = bal[Mesh],
           \A p \in Pools :
              bal'[p] = bal[p] + InPool(val'[v], p) - InPool(val[v], p),
           capSet' \subseteq Contracts,
           maxCap' \in [Contracts -> Nat],
           total' \in [Contracts -> Nat],
           offset' \in Int,
           slashed' \in 0..MaxSlashed,
           Sum(bal', Accounts) + offset' + slashed'
             = Sum(bal, Accounts) + offset + slashed
    PROVE  StakeInv'
<1>1. TypeOK'
  BY DEF TypeOK, ValRecord
<1>2. val \in [Validators -> ValRecord] /\ bal \in [Accounts -> Nat] /\ PoolsBacked
  BY DEF StakeInv, TypeOK, ValRecord
<1>3. PoolsBacked'
  BY <1>2, PoolsStep
<1>4. SupplyConserved'
  BY SupplyStep DEF StakeInv
<1>5. bal'[Mesh] = 0
  BY DEF StakeInv
<1> QED BY <1>1, <1>3, <1>4, <1>5 DEF StakeInv

-----------------------------------------------------------------------------
(* The actions.                                                            *)

\* What the invariant says in the words the actions need.
LEMMA StateFacts ==
    ASSUME StakeInv
    PROVE  /\ TypeOK /\ SharesMatch /\ PoolsBacked
           /\ bal \in [Accounts -> Nat] /\ bal \in Balances
           /\ Sum(bal, Accounts) \in Int
           /\ offset \in Int /\ slashed \in 0..MaxSlashed /\ MaxSlashed \in Nat
           /\ total \in [Contracts -> Nat] /\ maxCap \in [Contracts -> Nat]
           /\ val \in [Validators -> ValRecord]
           /\ \A p, v : InPool(val[v], p) \in Int \/ v \notin Validators
<1>1. TypeOK /\ SharesMatch /\ PoolsBacked
  BY DEF StakeInv
<1>2. bal \in [Accounts -> Nat] /\ bal \in Balances
  BY <1>1 DEF TypeOK, Balances
<1>3. \A a \in Accounts : bal[a] \in Int
  BY <1>2
<1>4. Sum(bal, Accounts) \in Int
  BY <1>3, SetsFinite, SumInt
<1>5. val \in [Validators -> ValRecord]
  BY <1>1 DEF TypeOK, ValRecord
<1>6. ASSUME NEW p, NEW v \in Validators PROVE InPool(val[v], p) \in Int
  BY <1>5 DEF ValRecord, InPool
<1> QED BY <1>1, <1>2, <1>4, <1>5, <1>6, ConstantsAssumption DEF TypeOK

\* A step that leaves coins and delegations alone.
LEMMA CoinsUnchanged ==
    ASSUME StakeInv, UNCHANGED <<val, del, bal, offset, slashed>>,
           capSet' \subseteq Contracts,
           maxCap' \in [Contracts -> Nat], total' \in [Contracts -> Nat]
    PROVE  StakeInv'
<1>1. TypeOK'
  BY DEF TypeOK, StakeInv
<1>2. SharesMatch'
  BY SharesUnchanged DEF StakeInv
<1>3. PoolsBacked'
  <2> SUFFICES ASSUME NEW p \in Pools PROVE bal'[p] = TokensIn(p)'
    BY DEF PoolsBacked
  <2>1. val \in [Validators -> ValRecord]
    BY StateFacts
  <2>2. val' \in [Validators -> ValRecord]
    BY <2>1
  <2>3. TokensIn(p)' = Sum(PoolTokens(val', p), Validators)
    BY <2>2, TokensInNext
  <2>4. TokensIn(p) = Sum(PoolTokens(val, p), Validators)
    BY <2>1, PoolSum DEF TokensIn, PoolOf
  <2>5. bal[p] = TokensIn(p)
    BY DEF StakeInv, PoolsBacked
  <2> QED BY <2>3, <2>4, <2>5
<1>4. SupplyConserved'
  BY SupplyStep DEF StakeInv
<1>5. bal'[Mesh] = 0
  BY DEF StakeInv
<1> QED BY <1>1, <1>2, <1>3, <1>4, <1>5 DEF StakeInv

\* SetMaxCapLimit touches no coin.
LEMMA SetMaxCapLimitStep ==
    ASSUME StakeInv, NEW c \in Contracts, NEW amount \in CapAmounts,
           SetMaxCapLimit(c, amount)
    PROVE  StakeInv' /\ TotalsKept
<1>1. /\ capSet' = capSet \cup {c} /\ maxCap' = [maxCap EXCEPT ![c] = amount]
      /\ UNCHANGED <<total, val, del, bal, offset, slashed>>
  BY DEF SetMaxCapLimit
<1>2. amount \in Nat
  BY ConstantsAssumption
<1>3. /\ capSet' \subseteq Contracts
      /\ maxCap' \in [Contracts -> Nat] /\ total' \in [Contracts -> Nat]
  BY <1>1, <1>2 DEF TypeOK, StakeInv
<1>4. StakeInv'
  BY <1>1, <1>3, CoinsUnchanged
<1>5. TotalsKept
  BY <1>1 DEF TotalsKept
<1> QED BY <1>4, <1>5

\* Delegate: the minted coins pass through the module to the contract.
LEMMA FundsBalance ==
    ASSUME bal \in Balances, NEW c \in Contracts, NEW amt \in Int
    PROVE  DelegateFunds(c, amt) = [bal EXCEPT ![c] = @ + amt]
<1> DEFINE m == MintCoins(bal, amt)
           e == SendCoins(m, Mesh, c, amt)
<1>1. c \in Accounts /\ Mesh \in Accounts /\ c # Mesh
  BY AccountsApart
<1>2. m \in Balances /\ m[Mesh] = bal[Mesh] + amt
      /\ \A x \in Accounts \ {Mesh} : m[x] = bal[x]
  BY <1>1 DEF MintCoins, Balances
<1> HIDE DEF m
<1>3. /\ e \in Balances
      /\ e[Mesh] = m[Mesh] - amt /\ e[c] = m[c] + amt
      /\ \A x \in Accounts \ {Mesh, c} : e[x] = m[x]
  BY <1>1, <1>2, SendSum
<1> HIDE DEF e
<1>4. ASSUME NEW x \in Accounts
      PROVE  e[x] = [bal EXCEPT ![c] = @ + amt][x]
  <2>1. bal[x] \in Int /\ bal[Mesh] \in Int /\ bal[c] \in Int
    BY <1>1 DEF Balances
  <2> QED BY <1>1, <1>2, <1>3, <2>1 DEF Balances
<1>5. e = [bal EXCEPT ![c] = @ + amt]
  BY <1>3, <1>4 DEF Balances
<1> QED BY <1>5 DEF e, m, DelegateFunds

\* And from there to the pool: all of them end up there.
LEMMA DelegateBalance ==
    ASSUME bal \in Balances, NEW c \in Contracts, NEW p \in Pools, NEW amt \in Int
    PROVE  SendCoins(DelegateFunds(c, amt), c, p, amt) = [bal EXCEPT ![p] = @ + amt]
<1> DEFINE s == DelegateFunds(c, amt)
           e == SendCoins(s, c, p, amt)
<1>1. c \in Accounts /\ p \in Accounts /\ c # p
  BY AccountsApart
<1>2. s = [bal EXCEPT ![c] = @ + amt]
  BY FundsBalance
<1> HIDE DEF s
<1>3. s \in Balances /\ s[c] = bal[c] + amt
      /\ \A x \in Accounts \ {c} : s[x] = bal[x]
  BY <1>1, <1>2 DEF Balances
<1>4. /\ e \in Balances
      /\ e[c] = s[c] - amt /\ e[p] = s[p] + amt
      /\ \A x \in Accounts \ {c, p} : e[x] = s[x]
  BY <1>1, <1>3, SendSum
<1> HIDE DEF e
<1>5. ASSUME NEW x \in Accounts
      PROVE  e[x] = [bal EXCEPT ![p] = @ + amt][x]
  <2>1. bal[x] \in Int /\ bal[p] \in Int /\ bal[c] \in Int
    BY <1>1 DEF Balances
  <2> QED BY <1>1, <1>3, <1>4, <2>1 DEF Balances
<1>6. e = [bal EXCEPT ![p] = @ + amt]
  BY <1>4, <1>5 DEF Balances
<1> QED BY <1>6 DEF e, s

\* A Delegate that succeeds: the pool of the validator gets what was minted.
LEMMA DelegateStep ==
    ASSUME StakeInv, NEW c \in Contracts, NEW v \in Validators, NEW amt \in Nat,
           Delegate(c, v, amt)
    PROVE  /\ StakeInv' /\ TotalsKept
           /\ bal' = [bal EXCEPT ![PoolOf(v)] = @ + amt]
           /\ Sum(bal', Accounts) = Sum(bal, Accounts) + amt
<1> DEFINE p == PoolOf(v)
<1>1. /\ ~InvalidExRate(v) /\ AddDelegation(v, c, amt)
      /\ bal' = SendCoins(DelegateFunds(c, amt), c, p, amt)
      /\ offset' = offset - amt
      /\ total' = [total EXCEPT ![c] = @ + amt]
      /\ UNCHANGED <<capSet, maxCap, slashed>>
  BY DEF Delegate, DelegateTotal
<1>2. p \in Pools /\ p \in Accounts /\ c \in Holders /\ p # Mesh
  BY AccountsApart DEF PoolOf, Pools
<1>3. bal \in [Accounts -> Nat] /\ bal \in Balances /\ Sum(bal, Accounts) \in Int
  BY StateFacts
<1>4. bal' = [bal EXCEPT ![p] = @ + amt]
  BY <1>1, <1>2, <1>3, DelegateBalance
<1>5. Sum(bal', Accounts) = Sum(bal, Accounts) + amt
  <2>1. amt \in Int /\ p \in Accounts
    BY <1>2
  <2> HIDE DEF p
  <2>2. Sum([bal EXCEPT ![p] = @ + amt], Accounts) = Sum(bal, Accounts) + amt
    BY <1>3, <2>1, DepositSum
  <2> QED BY <1>4, <2>2
<1>6. TypeOK /\ SharesMatch
  BY StateFacts
<1>7. /\ val' \in [Validators -> ValRecord]
      /\ del' \in [Validators -> [Holders -> Nat]]
      /\ \A w \in Validators \ {v} : val'[w] = val[w]
      /\ \A q : InPool(val'[v], q)
                  = InPool(val[v], q) + (IF q = p THEN amt ELSE 0)
      /\ SharesMatch'
  BY <1>1, <1>2, <1>6, AddEffect
<1>8. bal' \in [Accounts -> Nat] /\ bal'[Mesh] = bal[Mesh]
  BY <1>2, <1>3, <1>4, AccountsApart
<1>9. ASSUME NEW q \in Pools
      PROVE  bal'[q] = bal[q] + InPool(val'[v], q) - InPool(val[v], q)
  <2>1. q \in Accounts /\ bal[q] \in Int /\ InPool(val[v], q) \in Int
    BY <1>3, AccountsApart, StateFacts
  <2>2. bal'[q] = bal[q] + (IF q = p THEN amt ELSE 0)
    BY <1>2, <1>3, <1>4, <2>1
  <2>3. (IF q = p THEN amt ELSE 0) \in Int
    OBVIOUS
  <2>4. InPool(val'[v], q) = InPool(val[v], q) + (IF q = p THEN amt ELSE 0)
    BY <1>7
  <2> QED BY <2>1, <2>2, <2>3, <2>4
<1>10. TotalsKept
  <2>1. amt \in Int
    OBVIOUS
  <2>2. total' = [total EXCEPT ![c] = @ + amt]
    BY <1>1
  <2>3. offset' = offset - amt
    BY <1>1
  <2> QED BY <1>6, <2>1, <2>2, <2>3, TotalsStep
<1>11. /\ capSet' \subseteq Contracts /\ maxCap' \in [Contracts -> Nat]
       /\ total' \in [Contracts -> Nat] /\ offset' \in Int
       /\ slashed' \in 0..MaxSlashed
  BY <1>1, <1>6 DEF TypeOK
<1>12. Sum(bal', Accounts) + offset' + slashed'
         = Sum(bal, Accounts) + offset + slashed
  <2>1. offset \in Int /\ slashed \in Int
    BY <1>6, ConstantsAssumption DEF TypeOK
  <2> QED BY <1>1, <1>3, <1>5, <2>1
<1>13. StakeInv'
  BY <1>7, <1>8, <1>9, <1>11, <1>12, StakeStep
<1> QED BY <1>4, <1>5, <1>10, <1>13

\* A Delegate that x/staking refuses: nothing happens, or the minted coins stay
\* with the contract.
LEMMA DelegateFailsStep ==
    ASSUME StakeInv, NEW c \in Contracts, NEW v \in Validators, NEW amt \in Nat,
           DelegateFails(c, v, amt)
    PROVE  /\ StakeInv' /\ TotalsKept
           /\ CallerReverts => UNCHANGED <<bal, total, offset>>
           /\ ~CallerReverts => Sum(bal', Accounts) = Sum(bal, Accounts) + amt
<1>0. TypeOK
  BY StateFacts
<1>1. CASE CallerReverts
  <2>1. UNCHANGED vars
    BY <1>1 DEF DelegateFails, vars
  <2>2. /\ capSet' \subseteq Contracts
        /\ maxCap' \in [Contracts -> Nat] /\ total' \in [Contracts -> Nat]
    BY <1>0, <2>1 DEF TypeOK, vars
  <2>3. StakeInv'
    BY <2>1, <2>2, CoinsUnchanged DEF vars
  <2> QED BY <1>1, <2>1, <2>3 DEF vars, TotalsKept
<1>2. CASE ~CallerReverts
  <2>1. /\ bal' = DelegateFunds(c, amt)
        /\ offset' = offset - amt
        /\ total' = [total EXCEPT ![c] = @ + amt]
        /\ UNCHANGED <<capSet, maxCap, val, del, slashed>>
    BY <1>2 DEF DelegateFails, DelegateTotal
  <2>2. c \in Holders /\ c \in Accounts /\ Mesh \in Accounts /\ c # Mesh
    BY AccountsApart
  <2>3. bal \in [Accounts -> Nat] /\ bal \in Balances /\ Sum(bal, Accounts) \in Int
    BY StateFacts
  <2>4. bal' = [bal EXCEPT ![c] = @ + amt]
    BY <2>1, <2>2, <2>3, FundsBalance
  <2>5. Sum(bal', Accounts) = Sum(bal, Accounts) + amt
    <3>1. amt \in Int
      OBVIOUS
    <3>2. Sum([bal EXCEPT ![c] = @ + amt], Accounts) = Sum(bal, Accounts) + amt
      BY <2>2, <2>3, <3>1, DepositSum
    <3> QED BY <2>4, <3>2
  <2>6. bal' \in [Accounts -> Nat] /\ bal'[Mesh] = bal[Mesh]
    BY <2>2, <2>3, <2>4
  <2>7. val' = val /\ del' = del /\ val \in [Validators -> ValRecord]
    BY <2>1, StateFacts
  <2>8. ASSUME NEW q \in Pools
        PROVE  bal'[q] = bal[q] + InPool(val'[v], q) - InPool(val[v], q)
    <3>1. q \in Accounts /\ InPool(val[v], q) \in Int /\ q # c
      BY <2>2, AccountsApart, StateFacts
    <3>2. bal[q] \in Int
      BY <2>3, <3>1
    <3> QED BY <2>3, <2>4, <2>7, <3>1, <3>2
  <2>9. SharesMatch'
    BY <2>7, SharesUnchanged DEF StakeInv
  <2>10. TotalsKept
    <3>1. amt \in Int
      OBVIOUS
    <3>2. total' = [total EXCEPT ![c] = @ + amt]
      BY <2>1
    <3>3. offset' = offset - amt
      BY <2>1
    <3> QED BY <1>0, <3>1, <3>2, <3>3, TotalsStep
  <2>11. /\ capSet' \subseteq Contracts /\ maxCap' \in [Contracts -> Nat]
         /\ total' \in [Contracts -> Nat] /\ offset' \in Int
         /\ slashed' \in 0..MaxSlashed
         /\ del' \in [Validators -> [Holders -> Nat]]
    BY <1>0, <2>1 DEF TypeOK
  <2>12. Sum(bal', Accounts) + offset' + slashed'
           = Sum(bal, Accounts) + offset + slashed
    <3>1. offset \in Int /\ slashed \in Int
      BY <1>0, ConstantsAssumption DEF TypeOK
    <3> QED BY <2>1, <2>3, <2>5, <3>1
  <2>13. StakeInv'
    BY <2>6, <2>7, <2>8, <2>9, <2>11, <2>12, StakeStep
  <2> QED BY <1>2, <2>5, <2>10, <2>13
<1> QED BY <1>1, <1>2

\* InstantUndelegate and the burn: what the pool pays passes through the
\* contract and the module, and none of it stays there.
LEMMA UndelegateBalance ==
    ASSUME bal \in Balances, NEW c \in Contracts, NEW v \in Validators, NEW r \in Int
    PROVE  BurnCoins(SendCoins(InstantUndelegate(c, v, r), c, Mesh, r), r)
             = [bal EXCEPT ![PoolOf(v)] = @ + (-r)]
<1> DEFINE p == PoolOf(v)
           i == SendCoins(bal, p, c, r)
           s == SendCoins(i, c, Mesh, r)
           e == BurnCoins(s, r)
<1>1. /\ c \in Accounts /\ p \in Accounts /\ Mesh \in Accounts
      /\ c # p /\ c # Mesh /\ p # Mesh
  BY AccountsApart DEF PoolOf, Pools
<1> HIDE DEF p
<1>2. /\ i \in Balances
      /\ i[p] = bal[p] - r /\ i[c] = bal[c] + r
      /\ \A x \in Accounts \ {p, c} : i[x] = bal[x]
  BY <1>1, SendSum
<1> HIDE DEF i
<1>3. /\ s \in Balances
      /\ s[c] = i[c] - r /\ s[Mesh] = i[Mesh] + r
      /\ \A x \in Accounts \ {c, Mesh} : s[x] = i[x]
  BY <1>1, <1>2, SendSum
<1> HIDE DEF s
<1>4. /\ e \in Balances
      /\ e[Mesh] = s[Mesh] - r
      /\ \A x \in Accounts \ {Mesh} : e[x] = s[x]
  BY <1>1, <1>3 DEF BurnCoins, Balances
<1> HIDE DEF e
<1>5. ASSUME NEW x \in Accounts
      PROVE  e[x] = [bal EXCEPT ![p] = @ + (-r)][x]
  <2>1. bal[x] \in Int /\ bal[p] \in Int /\ bal[c] \in Int /\ bal[Mesh] \in Int
    BY <1>1 DEF Balances
  <2> QED BY <1>1, <1>2, <1>3, <1>4, <2>1 DEF Balances
<1>6. e = [bal EXCEPT ![p] = @ + (-r)]
  BY <1>4, <1>5 DEF Balances
<1> QED BY <1>6 DEF e, s, i, p, InstantUndelegate, UndelegatePool

\* Undelegate: the pool of the validator loses what is burned and taken off the
\* total.
LEMMA UndelegateStep ==
    ASSUME StakeInv, NEW c \in Contracts, NEW v \in Validators, NEW amt \in Nat,
           Undelegate(c, v, amt)
    PROVE  LET r == UnbondReturn(v, UnbondShares(v, c, amt))
           IN  /\ StakeInv' /\ TotalsKept
               /\ r \in Nat /\ r <= total[c]
               /\ bal' = [bal EXCEPT ![PoolOf(v)] = @ + (-r)]
               /\ Sum(bal', Accounts) = Sum(bal, Accounts) - r
               /\ total' = [total EXCEPT ![c] = @ - r]
               /\ offset' = offset + r
<1> DEFINE s == UnbondShares(v, c, amt)
           r == UnbondReturn(v, s)
           p == PoolOf(v)
<1>1. /\ CanUnbond(v, c, amt)
      /\ r <= total[c]
      /\ RemoveDelegation(v, c, s)
      /\ bal' = BurnCoins(SendCoins(InstantUndelegate(c, v, r), c, Mesh, r), r)
      /\ offset' = offset + r
      /\ total' = [total EXCEPT ![c] = @ - r]
      /\ UNCHANGED <<capSet, maxCap, slashed>>
  BY DEF Undelegate, UndelegateShares, Released, OffsetAfterUndelegate
<1>2. p \in Pools /\ p \in Accounts /\ c \in Holders /\ p # Mesh /\ Mesh \in Accounts
  BY AccountsApart DEF PoolOf, Pools
<1>3. bal \in [Accounts -> Nat] /\ bal \in Balances /\ Sum(bal, Accounts) \in Int
  BY StateFacts
<1>4. TypeOK /\ SharesMatch /\ PoolsBacked
  BY StateFacts
<1>5. /\ s \in Nat /\ s <= del[v][c] /\ s <= val[v].shares
      /\ r \in Nat /\ r <= val[v].tokens
  BY <1>1, <1>2, <1>4, UnbondFacts
<1>6. /\ val' \in [Validators -> ValRecord]
      /\ del' \in [Validators -> [Holders -> Nat]]
      /\ \A w \in Validators \ {v} : val'[w] = val[w]
      /\ \A q : InPool(val'[v], q)
                  = InPool(val[v], q) - (IF q = p THEN r ELSE 0)
      /\ SharesMatch'
  BY <1>1, <1>2, <1>4, <1>5, RemoveEffect
<1>7. val[v].tokens <= bal[p] /\ val[v].tokens \in Nat
  BY <1>4, PoolEnough DEF TypeOK
<1> HIDE DEF s, r
<1>8. bal' = [bal EXCEPT ![p] = @ + (-r)]
  <2>1. r \in Int
    BY <1>5
  <2> QED BY <1>1, <1>3, <2>1, UndelegateBalance
<1> HIDE DEF p
<1>9. Sum(bal', Accounts) = Sum(bal, Accounts) + (-r)
  <2>1. -r \in Int
    BY <1>5
  <2>2. Sum([bal EXCEPT ![p] = @ + (-r)], Accounts) = Sum(bal, Accounts) + (-r)
    BY <1>2, <1>3, <2>1, DepositSum
  <2> QED BY <1>8, <2>2
<1>10. bal' \in [Accounts -> Nat] /\ bal'[Mesh] = bal[Mesh]
  <2>1. bal[p] \in Nat /\ bal[p] + (-r) \in Nat
    BY <1>2, <1>3, <1>5, <1>7
  <2> QED BY <1>2, <1>3, <1>8, <2>1
<1>11. ASSUME NEW q \in Pools
      PROVE  bal'[q] = bal[q] + InPool(val'[v], q) - InPool(val[v], q)
  <2>1. q \in Accounts /\ InPool(val[v], q) \in Int
    BY AccountsApart, StateFacts
  <2>2. bal'[q] = IF q = p THEN bal[q] + (-r) ELSE bal[q]
    BY <1>2, <1>3, <1>8, <2>1
  <2>3. InPool(val'[v], q) = InPool(val[v], q) - (IF q = p THEN r ELSE 0)
    BY <1>6
  <2>4. bal[q] \in Int
    BY <1>3, <2>1
  <2> QED BY <1>5, <2>1, <2>2, <2>3, <2>4
<1>12. total \in [Contracts -> Nat] /\ offset \in Int /\ slashed \in Int
  BY <1>4, ConstantsAssumption DEF TypeOK
<1>13. TotalsKept
  <2>1. -r \in Int
    BY <1>5
  <2>2. total[c] - r = total[c] + (-r)
    BY <1>5, <1>12
  <2>3. total' = [total EXCEPT ![c] = @ + (-r)]
    BY <1>1, <2>2
  <2>4. offset' = offset - (-r)
    BY <1>1, <1>5, <1>12
  <2> QED BY <1>4, <2>1, <2>3, <2>4, TotalsStep
<1>14. total' \in [Contracts -> Nat]
  <2>1. total[c] - r \in Nat
    BY <1>1, <1>5, <1>12
  <2> QED BY <1>1, <1>12, <2>1
<1>15. /\ capSet' \subseteq Contracts /\ maxCap' \in [Contracts -> Nat]
       /\ slashed' \in 0..MaxSlashed
  BY <1>1, <1>4 DEF TypeOK
<1>16. offset' \in Int
  BY <1>1, <1>5, <1>12
<1>17. Sum(bal', Accounts) + offset' + slashed'
         = Sum(bal, Accounts) + offset + slashed
  BY <1>1, <1>3, <1>5, <1>9, <1>12
<1>18. StakeInv'
  BY <1>6, <1>10, <1>11, <1>14, <1>15, <1>16, <1>17, StakeStep
<1>19. Sum(bal', Accounts) = Sum(bal, Accounts) - r
  BY <1>3, <1>5, <1>9
<1> QED BY <1>1, <1>5, <1>8, <1>13, <1>18, <1>19 DEF r, s, p

\* A staking message that delegates.
LEMMA StakingDelegateStep ==
    ASSUME StakeInv, NEW h \in Holders, NEW v \in Validators, NEW amt \in Nat,
           StakingDelegate(h, v, amt)
    PROVE  /\ StakeInv' /\ TotalsKept
           /\ Sum(bal', Accounts) = Sum(bal, Accounts)
           /\ \A x \in Holders \ {h} : bal'[x] = bal[x]
<1> DEFINE p == PoolOf(v)
<1>1. /\ bal[h] >= amt /\ ~InvalidExRate(v) /\ AddDelegation(v, h, amt)
      /\ bal' = SendCoins(bal, h, p, amt)
      /\ UNCHANGED <<capSet, maxCap, total, offset, slashed>>
  BY DEF StakingDelegate
<1>2. /\ p \in Pools /\ p \in Accounts /\ h \in Accounts /\ h # p /\ h \notin Pools
      /\ p # Mesh /\ h # Mesh /\ Mesh \in Accounts
  BY AccountsApart DEF PoolOf, Pools
<1>3. bal \in [Accounts -> Nat] /\ bal \in Balances /\ Sum(bal, Accounts) \in Int
  BY StateFacts
<1>4. TypeOK /\ SharesMatch
  BY StateFacts
<1>5. /\ val' \in [Validators -> ValRecord]
      /\ del' \in [Validators -> [Holders -> Nat]]
      /\ \A w \in Validators \ {v} : val'[w] = val[w]
      /\ \A q : InPool(val'[v], q)
                  = InPool(val[v], q) + (IF q = p THEN amt ELSE 0)
      /\ SharesMatch'
  BY <1>1, <1>4, AddEffect
<1> HIDE DEF p
<1>6. /\ bal' \in Balances
      /\ bal'[h] = bal[h] - amt /\ bal'[p] = bal[p] + amt
      /\ \A x \in Accounts \ {h, p} : bal'[x] = bal[x]
      /\ Sum(bal', Accounts) = Sum(bal, Accounts)
  <2>1. amt \in Int
    OBVIOUS
  <2> DEFINE e == SendCoins(bal, h, p, amt)
  <2>2. /\ e \in Balances
        /\ e[h] = bal[h] - amt /\ e[p] = bal[p] + amt
        /\ \A x \in Accounts \ {h, p} : e[x] = bal[x]
        /\ Sum(e, Accounts) = Sum(bal, Accounts)
    BY <1>2, <1>3, <2>1, SendSum
  <2> HIDE DEF e
  <2>3. bal' = e
    BY <1>1 DEF e
  <2> QED BY <2>2, <2>3
<1>7. bal' \in [Accounts -> Nat]
  <2>1. \A x \in Accounts : bal'[x] \in Nat
    BY <1>1, <1>2, <1>3, <1>6
  <2> QED BY <1>6, <2>1 DEF Balances
<1>8. bal'[Mesh] = bal[Mesh]
  BY <1>2, <1>6
<1>9. ASSUME NEW q \in Pools
      PROVE  bal'[q] = bal[q] + InPool(val'[v], q) - InPool(val[v], q)
  <2>1. q \in Accounts /\ InPool(val[v], q) \in Int /\ q # h
    BY <1>2, AccountsApart, StateFacts
  <2>2. bal'[q] = bal[q] + (IF q = p THEN amt ELSE 0) /\ bal[q] \in Int
    BY <1>2, <1>3, <1>6, <2>1
  <2>3. InPool(val'[v], q) = InPool(val[v], q) + (IF q = p THEN amt ELSE 0)
    BY <1>5
  <2> QED BY <2>1, <2>2, <2>3
<1>10. TotalsKept
  BY <1>1 DEF TotalsKept
<1>11. /\ capSet' \subseteq Contracts /\ maxCap' \in [Contracts -> Nat]
       /\ total' \in [Contracts -> Nat] /\ offset' \in Int
       /\ slashed' \in 0..MaxSlashed
  BY <1>1, <1>4 DEF TypeOK
<1>12. Sum(bal', Accounts) + offset' + slashed'
         = Sum(bal, Accounts) + offset + slashed
  BY <1>1, <1>6
<1>13. StakeInv'
  BY <1>5, <1>7, <1>8, <1>9, <1>11, <1>12, StakeStep
<1>14. \A x \in Holders \ {h} : bal'[x] = bal[x]
  BY <1>2, <1>6, AccountsApart
<1> QED BY <1>6, <1>10, <1>13, <1>14

\* A staking message that undelegates.
LEMMA StakingUndelegateStep ==
    ASSUME StakeInv, NEW h \in Holders, NEW v \in Validators, NEW amt \in Nat,
           StakingUndelegate(h, v, amt)
    PROVE  /\ StakeInv' /\ TotalsKept
           /\ Sum(bal', Accounts) = Sum(bal, Accounts)
           /\ \A x \in Holders \ {h} : bal'[x] = bal[x]
<1> DEFINE p == PoolOf(v)
           s == UnbondShares(v, h, amt)
           r == UnbondReturn(v, s)
<1>1. /\ CanUnbond(v, h, amt) /\ RemoveDelegation(v, h, s)
      /\ bal' = SendCoins(bal, p, h, r)
      /\ UNCHANGED <<capSet, maxCap, total, offset, slashed>>
  BY DEF StakingUndelegate
<1>2. /\ p \in Pools /\ p \in Accounts /\ h \in Accounts /\ h # p /\ h \notin Pools
      /\ p # Mesh /\ h # Mesh /\ Mesh \in Accounts
  BY AccountsApart DEF PoolOf, Pools
<1>3. bal \in [Accounts -> Nat] /\ bal \in Balances /\ Sum(bal, Accounts) \in Int
  BY StateFacts
<1>4. TypeOK /\ SharesMatch /\ PoolsBacked
  BY StateFacts
<1>a. /\ s \in Nat /\ s <= del[v][h] /\ s <= val[v].shares
      /\ r \in Nat /\ r <= val[v].tokens
  BY <1>1, <1>4, UnbondFacts
<1>5. /\ val' \in [Validators -> ValRecord]
      /\ del' \in [Validators -> [Holders -> Nat]]
      /\ \A w \in Validators \ {v} : val'[w] = val[w]
      /\ \A q : InPool(val'[v], q)
                  = InPool(val[v], q) - (IF q = p THEN r ELSE 0)
      /\ SharesMatch'
  BY <1>1, <1>4, <1>a, RemoveEffect
<1>b. r <= bal[p]
  <2>1. val[v].tokens <= bal[p] /\ val[v].tokens \in Nat
    BY <1>4, PoolEnough DEF TypeOK
  <2>2. bal[p] \in Nat
    BY <1>2, <1>3
  <2> HIDE DEF r, p
  <2> QED BY <1>a, <2>1, <2>2
<1> HIDE DEF p, s, r
<1>6. /\ bal' \in Balances
      /\ bal'[p] = bal[p] - r /\ bal'[h] = bal[h] + r
      /\ \A x \in Accounts \ {h, p} : bal'[x] = bal[x]
      /\ Sum(bal', Accounts) = Sum(bal, Accounts)
  <2>1. r \in Int
    BY <1>a
  <2> DEFINE e == SendCoins(bal, p, h, r)
  <2>2. /\ e \in Balances
        /\ e[p] = bal[p] - r /\ e[h] = bal[h] + r
        /\ \A x \in Accounts \ {p, h} : e[x] = bal[x]
        /\ Sum(e, Accounts) = Sum(bal, Accounts)
    BY <1>2, <1>3, <2>1, SendSum
  <2> HIDE DEF e
  <2>3. bal' = e
    BY <1>1 DEF e
  <2> QED BY <2>2, <2>3
<1>7. bal' \in [Accounts -> Nat]
  <2>1. \A x \in Accounts : bal'[x] \in Nat
    BY <1>2, <1>3, <1>6, <1>a, <1>b
  <2> QED BY <1>6, <2>1 DEF Balances
<1>8. bal'[Mesh] = bal[Mesh]
  BY <1>2, <1>6
<1>9. ASSUME NEW q \in Pools
      PROVE  bal'[q] = bal[q] + InPool(val'[v], q) - InPool(val[v], q)
  <2>1. q \in Accounts /\ InPool(val[v], q) \in Int /\ q # h
    BY <1>2, AccountsApart, StateFacts
  <2>2. bal'[q] = bal[q] - (IF q = p THEN r ELSE 0) /\ bal[q] \in Int
    BY <1>2, <1>3, <1>6, <1>a, <2>1
  <2>3. InPool(val'[v], q) = InPool(val[v], q) - (IF q = p THEN r ELSE 0)
    BY <1>5
  <2> QED BY <1>a, <2>1, <2>2, <2>3
<1>10. TotalsKept
  BY <1>1 DEF TotalsKept
<1>11. /\ capSet' \subseteq Contracts /\ maxCap' \in [Contracts -> Nat]
       /\ total' \in [Contracts -> Nat] /\ offset' \in Int
       /\ slashed' \in 0..MaxSlashed
  BY <1>1, <1>4 DEF TypeOK
<1>12. Sum(bal', Accounts) + offset' + slashed'
         = Sum(bal, Accounts) + offset + slashed
  BY <1>1, <1>6
<1>13. StakeInv'
  BY <1>5, <1>7, <1>8, <1>9, <1>11, <1>12, StakeStep
<1>14. \A x \in Holders \ {h} : bal'[x] = bal[x]
  BY <1>2, <1>6, AccountsApart
<1> QED BY <1>6, <1>10, <1>13, <1>14

\* A slash: the tokens of the validator are burned out of its pool.
LEMMA SlashStep ==
    ASSUME StakeInv, NEW v \in Validators, NEW amount \in SlashAmounts,
           Slash(v, amount)
    PROVE  /\ StakeInv' /\ TotalsKept
           /\ \A x \in Holders : bal'[x] = bal[x]
           /\ \E n \in Nat : Sum(bal', Accounts) = Sum(bal, Accounts) - n
<1> DEFINE p == PoolOf(v)
           n == IF amount > val[v].tokens THEN val[v].tokens ELSE amount
           w1 == [val[v] EXCEPT !.tokens = val[v].tokens - n]
<1>1. /\ slashed + n <= MaxSlashed
      /\ val' = [val EXCEPT ![v].tokens = @ - n]
      /\ bal' = [bal EXCEPT ![p] = @ - n]
      /\ slashed' = slashed + n
      /\ UNCHANGED <<capSet, maxCap, total, del, offset>>
  BY DEF Slash
<1>2. p \in Pools /\ p \in Accounts /\ p # Mesh /\ Mesh \in Accounts
  BY AccountsApart DEF PoolOf, Pools
<1>3. /\ bal \in [Accounts -> Nat] /\ bal \in Balances /\ Sum(bal, Accounts) \in Int
      /\ val \in [Validators -> ValRecord]
  BY StateFacts
<1>4. TypeOK /\ SharesMatch /\ PoolsBacked
  BY StateFacts
<1>5. n \in Nat /\ n <= val[v].tokens /\ val[v].tokens \in Nat
  <2>1. amount \in Nat /\ val[v].tokens \in Nat
    BY <1>3, ConstantsAssumption DEF ValRecord
  <2> QED BY <2>1
<1>6. n <= bal[p] /\ bal[p] \in Nat
  <2>1. val[v].tokens <= bal[p]
    BY <1>4, PoolEnough
  <2>2. bal[p] \in Nat
    BY <1>2, <1>3
  <2> HIDE DEF n, p
  <2> QED BY <1>5, <2>1, <2>2
<1> HIDE DEF n
<1>7. val' = [val EXCEPT ![v] = w1]
  BY <1>1, <1>3
<1>8. /\ w1 \in ValRecord /\ w1.status = val[v].status
      /\ w1.tokens = val[v].tokens - n /\ w1.shares = val[v].shares
  <2>1. val[v] \in ValRecord /\ val[v].tokens - n \in Nat
    BY <1>3, <1>5
  <2> QED BY <2>1 DEF ValRecord
<1> HIDE DEF w1
<1>9. /\ val' \in [Validators -> ValRecord]
      /\ \A w \in Validators \ {v} : val'[w] = val[w]
      /\ val'[v] = w1
  BY <1>3, <1>7, <1>8
<1>10. SharesMatch'
  <2>1. \A w \in Validators : val'[w].shares = val[w].shares
    BY <1>8, <1>9
  <2> QED BY <1>1, <1>4, <2>1, SharesUnchanged
<1>11. \A q : InPool(val'[v], q) = InPool(val[v], q) - (IF q = p THEN n ELSE 0)
  BY <1>5, <1>8, <1>9 DEF InPool, PoolOf
<1> HIDE DEF p
<1>12. bal' = [bal EXCEPT ![p] = @ + (-n)]
  <2>1. bal[p] - n = bal[p] + (-n)
    BY <1>5, <1>6
  <2> QED BY <1>1, <2>1
<1>13. Sum(bal', Accounts) = Sum(bal, Accounts) + (-n)
  <2>1. -n \in Int
    BY <1>5
  <2>2. Sum([bal EXCEPT ![p] = @ + (-n)], Accounts) = Sum(bal, Accounts) + (-n)
    BY <1>2, <1>3, <2>1, DepositSum
  <2> QED BY <1>12, <2>2
<1>14. bal' \in [Accounts -> Nat] /\ bal'[Mesh] = bal[Mesh]
  <2>1. bal[p] - n \in Nat
    BY <1>5, <1>6
  <2> QED BY <1>1, <1>2, <1>3, <2>1
<1>15. ASSUME NEW q \in Pools
      PROVE  bal'[q] = bal[q] + InPool(val'[v], q) - InPool(val[v], q)
  <2>1. q \in Accounts /\ InPool(val[v], q) \in Int
    BY <1>2, AccountsApart, StateFacts
  <2>2. bal'[q] = bal[q] - (IF q = p THEN n ELSE 0) /\ bal[q] \in Int
    BY <1>1, <1>2, <1>3, <1>5, <2>1
  <2>3. InPool(val'[v], q) = InPool(val[v], q) - (IF q = p THEN n ELSE 0)
    BY <1>11
  <2> QED BY <1>5, <2>1, <2>2, <2>3
<1>16. TotalsKept
  BY <1>1 DEF TotalsKept
<1>17. /\ capSet' \subseteq Contracts /\ maxCap' \in [Contracts -> Nat]
       /\ total' \in [Contracts -> Nat] /\ offset' \in Int
       /\ del' \in [Validators -> [Holders -> Nat]]
  BY <1>1, <1>4 DEF TypeOK
<1>18. slashed \in Nat /\ MaxSlashed \in Nat /\ offset \in Int
  BY <1>4, ConstantsAssumption DEF TypeOK
<1>19. slashed' \in 0..MaxSlashed
  BY <1>1, <1>5, <1>18
<1>20. Sum(bal', Accounts) + offset' + slashed'
         = Sum(bal, Accounts) + offset + slashed
  BY <1>1, <1>3, <1>5, <1>13, <1>18
<1>21. StakeInv'
  BY <1>9, <1>10, <1>14, <1>15, <1>17, <1>19, <1>20, StakeStep
<1>22. \A x \in Holders : bal'[x] = bal[x]
  BY <1>1, <1>2, <1>3, AccountsApart
<1>23. Sum(bal', Accounts) = Sum(bal, Accounts) - n
  BY <1>3, <1>5, <1>13
<1> QED BY <1>5, <1>16, <1>21, <1>22, <1>23

\* A new status: the tokens follow the validator to its pool.
LEMMA ChangeStatusStep ==
    ASSUME StakeInv, NEW v \in Validators, NEW status \in Statuses,
           ChangeStatus(v, status)
    PROVE  /\ StakeInv' /\ TotalsKept
           /\ \A x \in Holders : bal'[x] = bal[x]
           /\ Sum(bal', Accounts) = Sum(bal, Accounts)
<1> DEFINE from == PoolOf(v)
           to == IF status = "bonded" THEN "bonded" ELSE "notBonded"
           st == IF status = "unbonded" /\ val[v].shares = 0
                 THEN "absent" ELSE status
           n == val[v].tokens
           w1 == [val[v] EXCEPT !.status = st]
<1>1. /\ val' = [val EXCEPT ![v].status = st]
      /\ bal' = SendCoins(bal, from, to, n)
      /\ UNCHANGED <<capSet, maxCap, total, del, offset, slashed>>
  BY DEF ChangeStatus
<1>2. /\ from \in Pools /\ from \in Accounts /\ to \in Pools /\ to \in Accounts
      /\ Mesh \in Accounts /\ Mesh \notin Pools
  BY AccountsApart DEF PoolOf, Pools
<1>3. /\ bal \in [Accounts -> Nat] /\ bal \in Balances /\ Sum(bal, Accounts) \in Int
      /\ val \in [Validators -> ValRecord]
  BY StateFacts
<1>4. TypeOK /\ SharesMatch /\ PoolsBacked
  BY StateFacts
<1>5. n \in Nat /\ n <= bal[from]
  <2>1. n \in Nat
    BY <1>3 DEF ValRecord
  <2>2. n <= bal[from]
    BY <1>4, PoolEnough
  <2> QED BY <2>1, <2>2
<1>6. st \in Statuses /\ (st = "bonded" <=> status = "bonded")
  BY DEF Statuses
<1> HIDE DEF st
<1>7. val' = [val EXCEPT ![v] = w1]
  BY <1>1, <1>3
<1>8. /\ w1 \in ValRecord /\ w1.status = st
      /\ w1.tokens = n /\ w1.shares = val[v].shares
  <2>1. val[v] \in ValRecord
    BY <1>3
  <2> QED BY <1>6, <2>1 DEF ValRecord
<1> HIDE DEF w1
<1>9. /\ val' \in [Validators -> ValRecord]
      /\ \A w \in Validators \ {v} : val'[w] = val[w]
      /\ val'[v] = w1
  BY <1>3, <1>7, <1>8
<1>10. SharesMatch'
  <2>1. \A w \in Validators : val'[w].shares = val[w].shares
    BY <1>8, <1>9
  <2> QED BY <1>1, <1>4, <2>1, SharesUnchanged
<1>11. \A q : /\ InPool(val[v], q) = IF q = from THEN n ELSE 0
              /\ InPool(val'[v], q) = IF q = to THEN n ELSE 0
  BY <1>6, <1>8, <1>9 DEF InPool, PoolOf
<1> HIDE DEF from, to, n
<1>12. /\ bal' \in Balances
       /\ Sum(bal', Accounts) = Sum(bal, Accounts)
       /\ \A x \in Accounts \ Pools : bal'[x] = bal[x]
       /\ \A q \in Pools : bal'[q] = bal[q] + (IF q = to THEN n ELSE 0)
                                          - (IF q = from THEN n ELSE 0)
  <2>0. \A x \in Accounts : bal[x] \in Int
    BY <1>3
  <2>1. CASE from = to
    <3>1. bal' = bal
      BY <1>1, <2>1 DEF SendCoins
    <3>2. \A q \in Pools : bal'[q] = bal[q] + (IF q = to THEN n ELSE 0)
                                           - (IF q = from THEN n ELSE 0)
      BY <1>5, <2>0, <2>1, <3>1, AccountsApart
    <3> QED BY <1>3, <3>1, <3>2
  <2>2. CASE from # to
    <3>1. n \in Int
      BY <1>5
    <3> DEFINE e == SendCoins(bal, from, to, n)
    <3>2. /\ e \in Balances
          /\ e[from] = bal[from] - n /\ e[to] = bal[to] + n
          /\ \A x \in Accounts \ {from, to} : e[x] = bal[x]
          /\ Sum(e, Accounts) = Sum(bal, Accounts)
      BY <1>2, <1>3, <2>2, <3>1, SendSum
    <3> HIDE DEF e
    <3>3. bal' = e
      BY <1>1 DEF e
    <3>4. \A x \in Accounts \ Pools : e[x] = bal[x]
      BY <1>2, <3>2
    <3>5. ASSUME NEW q \in Pools
          PROVE  e[q] = bal[q] + (IF q = to THEN n ELSE 0)
                               - (IF q = from THEN n ELSE 0)
      <4>1. q \in Accounts /\ bal[q] \in Int
        BY <2>0, AccountsApart
      <4> QED BY <2>2, <3>1, <3>2, <4>1
    <3> QED BY <3>2, <3>3, <3>4, <3>5
  <2> QED BY <2>1, <2>2
<1>13. bal' \in [Accounts -> Nat]
  <2>1. ASSUME NEW x \in Accounts PROVE bal'[x] \in Nat
    <3>1. CASE x \notin Pools
      BY <1>3, <1>12, <3>1
    <3>2. CASE x \in Pools
      <4>1. bal'[x] = bal[x] + (IF x = to THEN n ELSE 0)
                             - (IF x = from THEN n ELSE 0)
        BY <1>12, <3>2
      <4>2. bal[x] \in Nat
        BY <1>3
      <4> QED BY <1>5, <4>1, <4>2
    <3> QED BY <3>1, <3>2
  <2> QED BY <1>12, <2>1 DEF Balances
<1>14. bal'[Mesh] = bal[Mesh] /\ \A x \in Holders : bal'[x] = bal[x]
  BY <1>2, <1>12, AccountsApart
<1>15. ASSUME NEW q \in Pools
       PROVE  bal'[q] = bal[q] + InPool(val'[v], q) - InPool(val[v], q)
  BY <1>11, <1>12
<1>16. TotalsKept
  BY <1>1 DEF TotalsKept
<1>17. /\ capSet' \subseteq Contracts /\ maxCap' \in [Contracts -> Nat]
       /\ total' \in [Contracts -> Nat] /\ offset' \in Int
       /\ del' \in [Validators -> [Holders -> Nat]]
       /\ slashed' \in 0..MaxSlashed
  BY <1>1, <1>4 DEF TypeOK
<1>18. Sum(bal', Accounts) + offset' + slashed'
         = Sum(bal, Accounts) + offset + slashed
  BY <1>1, <1>12
<1>19. StakeInv'
  BY <1>9, <1>10, <1>13, <1>14, <1>15, <1>17, <1>18, StakeStep
<1> QED BY <1>12, <1>14, <1>16, <1>19

-----------------------------------------------------------------------------
(* The initial states.                                                     *)

\* Every validator has its stake from one delegator.
LEMMA InitShares ==
    ASSUME Init
    PROVE  SharesMatch
<1> SUFFICES ASSUME NEW v \in Validators
             PROVE  Sum(del[v], Holders) = val[v].shares
  BY DEF SharesMatch
<1> DEFINE k == NewDecFromInt(InitialStake)
           f == [h \in Holders |-> 0]
           e == del[v]
<1>1. k \in Nat
  BY ConstantsAssumption, PrecisionAssumption DEF NewDecFromInt
<1>2. val[v].shares = k
  BY DEF Init
<1>3. PICK o \in Others : \A h \in Holders : del[v][h] > 0 <=> h = o
  BY DEF Init
<1>4. o \in Holders
  BY DEF Holders
<1>5. \A h \in Holders : e[h] \in {0, k}
  BY DEF Init
<1> HIDE DEF k, e
<1>6. \A h \in Holders : h # o => e[h] = 0
  BY <1>1, <1>3, <1>5 DEF e
<1>7. e[o] = k
  BY <1>1, <1>3, <1>4, <1>5 DEF e
<1>8. \A h \in Holders : f[h] \in Int /\ e[h] \in Int
  BY <1>1, <1>5
<1>9. \A h \in Holders \ {o} : e[h] = f[h]
  BY <1>6
<1>10. \A h \in Holders : f[h] = 0
  OBVIOUS
<1>11. IsFiniteSet(Holders)
  BY SetsFinite
<1> HIDE DEF f
<1>12. Sum(e, Holders) = Sum(f, Holders) + e[o] - f[o]
  BY <1>4, <1>8, <1>9, <1>11, SumUpdate
<1>13. Sum(f, Holders) = Cardinality(Holders) * 0
  <2>1. 0 \in Int
    OBVIOUS
  <2> QED BY <1>10, <1>11, <2>1, SumConst
<1>14. Cardinality(Holders) \in Nat
  BY <1>11, FS_CardinalityType
<1>15. Sum(e, Holders) = k
  BY <1>1, <1>4, <1>7, <1>10, <1>12, <1>13, <1>14
<1> QED BY <1>2, <1>15 DEF e

\* The two pools have the initial stake of every validator.
LEMMA InitPools ==
    ASSUME Init
    PROVE  /\ TokensIn("bonded") \in Nat /\ TokensIn("notBonded") \in Nat
           /\ TokensIn("bonded") + TokensIn("notBonded")
                = Cardinality(Validators) * InitialStake
<1> DEFINE f == [v \in Validators |-> InitialStake]
           S(p) == {v \in Validators : PoolOf(v) = p}
<1>1. InitialStake \in Nat /\ IsFiniteSet(Validators)
  BY ConstantsAssumption
<1>2. \A v \in Validators : val[v].tokens = InitialStake
  BY DEF Init
<1>3. ASSUME NEW p PROVE TokensIn(p) = Sum(f, S(p)) /\ IsFiniteSet(S(p))
  <2> DEFINE g == [v \in S(p) |-> val[v].tokens]
  <2>1. S(p) \in SUBSET Validators
    OBVIOUS
  <2>2. IsFiniteSet(S(p))
    BY <1>1, <2>1, FS_Subset
  <2>3. TokensIn(p) = SumOver(S(p), LAMBDA v : val[v].tokens)
    BY DEF TokensIn
  <2>4. \A v \in S(p) : g[v] = f[v]
    BY <1>2
  <2> HIDE DEF S
  <2>5. SumOver(S(p), LAMBDA v : val[v].tokens) = Sum(g, S(p))
    BY <2>2, TokensSum
  <2> HIDE DEF f, g
  <2>6. Sum(g, S(p)) = Sum(f, S(p))
    BY <2>2, <2>4, SumAgree
  <2> QED BY <2>2, <2>3, <2>5, <2>6
<1>4. S("bonded") \cup S("notBonded") = Validators
  BY DEF PoolOf
<1>5. S("bonded") \cap S("notBonded") = {}
  OBVIOUS
<1>6. \A v \in Validators : f[v] = InitialStake
  OBVIOUS
<1>7. S("bonded") \subseteq Validators /\ S("notBonded") \subseteq Validators
  OBVIOUS
<1> HIDE DEF f, S
<1>8. \A v \in Validators : f[v] \in Nat
  BY <1>1, <1>6
<1>9. \A v \in S("bonded") \cup S("notBonded") : f[v] \in Int
  BY <1>4, <1>8
<1>10. Sum(f, S("bonded") \cup S("notBonded"))
        = Sum(f, S("bonded")) + Sum(f, S("notBonded"))
  BY <1>3, <1>5, <1>9, SumUnion
<1>11. Sum(f, Validators) = Cardinality(Validators) * InitialStake
  BY <1>1, <1>6, SumConst
<1>12. Sum(f, S("bonded") \cup S("notBonded")) = Sum(f, Validators)
  BY <1>4
<1>13. Sum(f, S("bonded")) \in Nat
  <2>1. \A v \in S("bonded") : f[v] \in Nat
    BY <1>7, <1>8
  <2> QED BY <1>3, <2>1, SumNat
<1>14. Sum(f, S("notBonded")) \in Nat
  <2>1. \A v \in S("notBonded") : f[v] \in Nat
    BY <1>7, <1>8
  <2> QED BY <1>3, <2>1, SumNat
<1> QED BY <1>3, <1>10, <1>11, <1>12, <1>13, <1>14

\* The invariant holds at the start.
LEMMA InitInv == Init => StakeInv
<1> SUFFICES ASSUME Init PROVE StakeInv
  OBVIOUS
<1>1. /\ TokensIn("bonded") \in Nat /\ TokensIn("notBonded") \in Nat
      /\ TokensIn("bonded") + TokensIn("notBonded")
           = Cardinality(Validators) * InitialStake
  BY InitPools
<1>2. /\ \A h \in Holders : bal[h] = InitialLiquid
      /\ \A p \in Pools : bal[p] = TokensIn(p)
      /\ bal[Mesh] = 0
      /\ DOMAIN bal = Accounts
      /\ bal = [a \in Accounts |-> bal[a]]
  <2>1. bal = [a \in Accounts |->
                CASE a \in Holders -> InitialLiquid
                  [] a \in Pools -> TokensIn(a)
                  [] a = Mesh -> 0]
    BY DEF Init
  <2>2. ASSUME NEW h \in Holders PROVE bal[h] = InitialLiquid
    <3>1. h \in Accounts /\ h \notin Pools /\ h # Mesh
      BY AccountsApart
    <3> QED BY <2>1, <3>1
  <2>3. ASSUME NEW p \in Pools PROVE bal[p] = TokensIn(p)
    <3>1. p \in Accounts /\ p \notin Holders /\ p # Mesh
      BY AccountsApart
    <3> QED BY <2>1, <3>1
  <2>4. bal[Mesh] = 0
    <3>1. Mesh \in Accounts /\ Mesh \notin Holders /\ Mesh \notin Pools
      BY AccountsApart
    <3> QED BY <2>1, <3>1
  <2>5. DOMAIN bal = Accounts /\ bal = [a \in Accounts |-> bal[a]]
    <3> DEFINE b(a) == CASE a \in Holders -> InitialLiquid
                         [] a \in Pools -> TokensIn(a)
                         [] a = Mesh -> 0
    <3>1. bal = [a \in Accounts |-> b(a)]
      BY <2>1
    <3> HIDE DEF b
    <3> QED BY <3>1
  <2> QED BY <2>2, <2>3, <2>4, <2>5
<1>3. InitialLiquid \in Nat /\ InitialStake \in Nat /\ MaxSlashed \in Nat
  BY ConstantsAssumption
<1>4. \A p \in Pools : bal[p] \in Nat
  BY <1>1, <1>2 DEF Pools
<1>5. bal \in [Accounts -> Nat]
  <2>1. \A a \in Accounts : bal[a] \in Nat
    BY <1>2, <1>3, <1>4 DEF Accounts
  <2> QED BY <1>2, <2>1
<1>6. TypeOK
  <2>1. NewDecFromInt(InitialStake) \in Nat
    BY <1>3, PrecisionAssumption DEF NewDecFromInt
  <2>2. val \in [Validators -> [status : Statuses, tokens : Nat, shares : Nat]]
    <3>1. ASSUME NEW v \in Validators
          PROVE  val[v] \in [status : Statuses, tokens : Nat, shares : Nat]
      BY <1>3, <2>1 DEF Init
    <3>2. val = [v \in Validators |-> val[v]]
      BY DEF Init
    <3> QED BY <3>1, <3>2
  <2>3. del \in [Validators -> [Holders -> Nat]]
    BY <2>1 DEF Init
  <2>4. /\ capSet = {} /\ maxCap = [c \in Contracts |-> 0]
        /\ total = [c \in Contracts |-> 0] /\ offset = 0 /\ slashed = 0
    BY DEF Init
  <2>5. capSet \subseteq Contracts /\ slashed \in 0..MaxSlashed /\ offset \in Int
    BY <1>3, <2>4
  <2>6. maxCap \in [Contracts -> Nat] /\ total \in [Contracts -> Nat]
    BY <2>4
  <2> QED BY <1>5, <2>2, <2>3, <2>5, <2>6 DEF TypeOK
<1>7. PoolsBacked
  BY <1>2 DEF PoolsBacked
<1>8. SupplyConserved
  <2>1. \A a \in Accounts : bal[a] \in Int
    BY <1>5
  <2>2. IsFiniteSet(Holders) /\ IsFiniteSet(Pools) /\ IsFiniteSet(Holders \cup Pools)
    BY SetsFinite, FS_Union
  <2>3. Sum(bal, Holders) = Cardinality(Holders) * InitialLiquid
    <3>1. InitialLiquid \in Int /\ \A h \in Holders : bal[h] = InitialLiquid
      BY <1>2, <1>3
    <3> QED BY <2>2, <3>1, SumConst
  <2>4. Sum(bal, Pools) = bal["bonded"] + bal["notBonded"]
    <3>1. IsFiniteSet({"notBonded"}) /\ "bonded" \notin {"notBonded"}
          /\ IsFiniteSet({})
      BY FS_Singleton, FS_EmptySet
    <3>2. \A x \in {"notBonded"} \cup {"bonded"} : bal[x] \in Int
      BY <1>4 DEF Pools
    <3>3. Sum(bal, {"notBonded"} \cup {"bonded"})
            = bal["bonded"] + Sum(bal, {"notBonded"})
      BY <3>1, <3>2, SumAdd
    <3>4. \A x \in {} \cup {"notBonded"} : bal[x] \in Int
      BY <3>2
    <3>5. "notBonded" \notin {}
      OBVIOUS
    <3>6. Sum(bal, {} \cup {"notBonded"}) = bal["notBonded"] + Sum(bal, {})
      BY <3>1, <3>4, <3>5, SumAdd
    <3>7. Sum(bal, {}) = 0
      BY SumEmpty
    <3>8. {} \cup {"notBonded"} = {"notBonded"}
          /\ {"notBonded"} \cup {"bonded"} = Pools
      BY DEF Pools
    <3>9. bal["bonded"] \in Int /\ bal["notBonded"] \in Int
      BY <3>2
    <3>10. Sum(bal, {"notBonded"}) = bal["notBonded"]
      BY <3>6, <3>7, <3>8, <3>9
    <3> QED BY <3>3, <3>8, <3>10
  <2>5. Sum(bal, Holders \cup Pools) = Sum(bal, Holders) + Sum(bal, Pools)
    <3>1. Holders \cap Pools = {}
      BY AccountsApart
    <3>2. \A x \in Holders \cup Pools : bal[x] \in Int
      BY <2>1, AccountsApart
    <3> QED BY <2>2, <3>1, <3>2, SumUnion
  <2>6. Sum(bal, (Holders \cup Pools) \cup {Mesh})
          = bal[Mesh] + Sum(bal, Holders \cup Pools)
    <3>1. Mesh \notin Holders \cup Pools
      BY AccountsApart
    <3>2. \A x \in (Holders \cup Pools) \cup {Mesh} : bal[x] \in Int
      BY <2>1 DEF Accounts
    <3> QED BY <2>2, <3>1, <3>2, SumAdd
  <2>7. Accounts = (Holders \cup Pools) \cup {Mesh}
    BY DEF Accounts
  <2>8. bal["bonded"] + bal["notBonded"] = Cardinality(Validators) * InitialStake
        /\ bal["bonded"] \in Int /\ bal["notBonded"] \in Int
    BY <1>1, <1>2 DEF Pools
  <2> DEFINE A == Cardinality(Holders) * InitialLiquid
             B == Cardinality(Validators) * InitialStake
  <2>9. A \in Int
    <3>1. Cardinality(Holders) \in Nat
      BY <2>2, FS_CardinalityType
    <3> QED BY <1>3, <3>1
  <2>10. B \in Int
    BY <2>8
  <2> HIDE DEF A, B
  <2>11. Sum(bal, Accounts) = A + B
    <3>1. Sum(bal, Holders) = A /\ Sum(bal, Pools) = B
      BY <2>3, <2>4, <2>8 DEF A, B
    <3>2. Sum(bal, Accounts) = 0 + (A + B)
      BY <1>2, <2>5, <2>6, <2>7, <3>1
    <3> QED BY <2>9, <2>10, <3>2
  <2>12. offset = 0 /\ slashed = 0
    BY DEF Init
  <2>13. Sum(bal, Accounts) + offset + slashed = A + B
    BY <2>9, <2>10, <2>11, <2>12
  <2> QED BY <2>13 DEF SupplyConserved, SumOver, Sum, A, B
<1> QED BY <1>2, <1>6, <1>7, <1>8, InitShares DEF StakeInv

-----------------------------------------------------------------------------
(* The invariants.                                                         *)

\* The custom message handler is the only one that knows a virtual stake
\* message, and wants a max cap entry.
LEMMA OnlyCappedDispatched ==
    ASSUME NEW c, Dispatched(c, "custom")
    PROVE  c \in capSet
<1> DEFINE answers == MessageHandlerChain(c, "custom")
<1>1. answers = <<"unknown", "unknown", IF c \in capSet THEN "handled" ELSE "rejected">>
  <2>1. IntegrityHandler(c, "custom") = "unknown"
    BY DEF IntegrityHandler
  <2>2. NestedHandler(c, "custom") = "unknown"
    BY DEF NestedHandler
  <2>3. CustomMsgHandler(c, "custom")
          = IF c \in capSet THEN "handled" ELSE "rejected"
    BY DEF CustomMsgHandler, Authorized
  <2> QED BY <2>1, <2>2, <2>3 DEF MessageHandlerChain
<1>2. \E i \in DOMAIN answers : answers[i] = "handled"
  BY DEF Dispatched
<1> HIDE DEF answers
<1> QED BY <1>1, <1>2

\* The steps, with amounts as naturals and custom messages taken apart.
LEMMA NextCases ==
    ASSUME Next
    PROVE  \/ \E c \in Contracts, amount \in CapAmounts : SetMaxCapLimit(c, amount)
           \/ \E c \in Contracts, v \in Validators, amt \in Nat :
                 /\ c \in capSet
                 /\ \/ Delegate(c, v, amt)
                    \/ DelegateFails(c, v, amt)
                    \/ Undelegate(c, v, amt)
           \/ \E h \in Holders, v \in Validators, amt \in Nat :
                 StakingDelegate(h, v, amt) \/ StakingUndelegate(h, v, amt)
           \/ \E v \in Validators, amount \in SlashAmounts : Slash(v, amount)
           \/ \E v \in Validators, status \in Statuses : ChangeStatus(v, status)
<1>1. Amounts \subseteq Nat
  BY ConstantsAssumption
<1>2. ASSUME NEW c \in Contracts, NEW v \in Validators, NEW coin \in Coins,
             DispatchMsg(c, v, coin)
      PROVE  /\ c \in capSet
             /\ \E amt \in Nat :
                    \/ Delegate(c, v, amt)
                    \/ DelegateFails(c, v, amt)
                    \/ Undelegate(c, v, amt)
  <2>1. coin.amount \in Nat
    BY <1>1 DEF Coins
  <2>2. Dispatched(c, "custom")
    BY <1>2 DEF DispatchMsg
  <2>3. c \in capSet
    BY <2>2, OnlyCappedDispatched
  <2> QED BY <1>2, <2>1, <2>3 DEF DispatchMsg, handleBondMsg, handleUnbondMsg
<1>3. ASSUME NEW h \in Holders, NEW v \in Validators, NEW amt \in Amounts,
             StakingDelegate(h, v, amt) \/ StakingUndelegate(h, v, amt)
      PROVE  \E n \in Nat : StakingDelegate(h, v, n) \/ StakingUndelegate(h, v, n)
  BY <1>1, <1>3
<1> QED BY <1>2, <1>3 DEF Next

\* A step that leaves all variables of VirtualStake alone.
LEMMA StutterStep ==
    ASSUME StakeInv, UNCHANGED vars
    PROVE  StakeInv' /\ TotalsKept
<1>1. /\ UNCHANGED <<val, del, bal, offset, slashed>>
      /\ capSet' \subseteq Contracts
      /\ maxCap' \in [Contracts -> Nat] /\ total' \in [Contracts -> Nat]
  BY DEF StakeInv, TypeOK, vars
<1>2. StakeInv'
  BY <1>1, CoinsUnchanged
<1>3. TotalsKept
  BY DEF vars, TotalsKept
<1> QED BY <1>2, <1>3

\* Every message, slash and status change keeps the invariant, and totals and
\* supply offset together.
LEMMA NextStep ==
    ASSUME StakeInv, [Next]_vars
    PROVE  StakeInv' /\ TotalsKept
<1>1. CASE UNCHANGED vars
  BY <1>1, StutterStep
<1>2. ASSUME NEW c \in Contracts, NEW amount \in CapAmounts,
             SetMaxCapLimit(c, amount)
      PROVE  StakeInv' /\ TotalsKept
  BY <1>2, SetMaxCapLimitStep
<1>3. ASSUME NEW c \in Contracts, NEW v \in Validators, NEW amt \in Nat,
             Delegate(c, v, amt)
      PROVE  StakeInv' /\ TotalsKept
  BY <1>3, DelegateStep
<1>4. ASSUME NEW c \in Contracts, NEW v \in Validators, NEW amt \in Nat,
             DelegateFails(c, v, amt)
      PROVE  StakeInv' /\ TotalsKept
  BY <1>4, DelegateFailsStep
<1>5. ASSUME NEW c \in Contracts, NEW v \in Validators, NEW amt \in Nat,
             Undelegate(c, v, amt)
      PROVE  StakeInv' /\ TotalsKept
  BY <1>5, UndelegateStep
<1>6. ASSUME NEW h \in Holders, NEW v \in Validators, NEW amt \in Nat,
             StakingDelegate(h, v, amt)
      PROVE  StakeInv' /\ TotalsKept
  BY <1>6, StakingDelegateStep
<1>7. ASSUME NEW h \in Holders, NEW v \in Validators, NEW amt \in Nat,
             StakingUndelegate(h, v, amt)
      PROVE  StakeInv' /\ TotalsKept
  BY <1>7, StakingUndelegateStep
<1>8. ASSUME NEW v \in Validators, NEW amount \in SlashAmounts, Slash(v, amount)
      PROVE  StakeInv' /\ TotalsKept
  BY <1>8, SlashStep
<1>9. ASSUME NEW v \in Validators, NEW status \in Statuses,
             ChangeStatus(v, status)
      PROVE  StakeInv' /\ TotalsKept
  BY <1>9, ChangeStatusStep
<1>10. CASE Next
  BY <1>2, <1>3, <1>4, <1>5, <1>6, <1>7, <1>8, <1>9, <1>10, NextCases
<1> QED BY <1>1, <1>10

\* The invariant of virtual staking: types, an empty module account, shares
\* that match the delegations, backed pools and a conserved supply, through
\* every message of keeper/stake.go and everything x/staking does around it.
THEOREM StakeInductive == Spec => []StakeInv
<1>1. StakeInv /\ [Next]_vars => StakeInv'
  BY NextStep
<1> QED BY <1>1, InitInv, PTL DEF Spec

\* Balances, tokens, shares and totals are never negative: no burn, send or
\* unbonding takes more than there is (keeper/stake.go, keeper/adapter.go).
THEOREM StakeTypes == Spec => []TypeOK
<1>1. StakeInv => TypeOK
  BY DEF StakeInv
<1> QED BY <1>1, StakeInductive, PTL

\* An instant undelegate pays from the pool the tokens of the validator are in
\* (keeper/adapter.go InstantUndelegate), so that both pools hold exactly the
\* tokens of their validators.
THEOREM PoolsAlwaysBacked == Spec => []PoolsBacked
<1>1. StakeInv => PoolsBacked
  BY DEF StakeInv
<1> QED BY <1>1, StakeInductive, PTL

\* Each mint and burn of Delegate and Undelegate is matched by its
\* AddSupplyOffset: the supply less the virtual tokens changes by slashes only.
THEOREM SupplyAccounted == Spec => []SupplyConserved
<1>1. StakeInv => SupplyConserved
  BY DEF StakeInv
<1> QED BY <1>1, StakeInductive, PTL

\* The stored totals of all contracts add up to the virtual tokens the supply
\* offset has, with a caller that reverts a failed Delegate and without.
THEOREM TotalsMatchOffset == Spec => []TotalsMatchSupplyOffset
<1> DEFINE I == StakeInv /\ TotalsMatchSupplyOffset
<1>1. Init => I
  <2> SUFFICES ASSUME Init PROVE I
    OBVIOUS
  <2>1. offset = 0 /\ \A c \in Contracts : total[c] = 0
    BY DEF Init
  <2>2. 0 \in Int /\ IsFiniteSet(Contracts)
    BY SetsFinite
  <2>3. Sum(total, Contracts) = Cardinality(Contracts) * 0
    BY <2>1, <2>2, SumConst
  <2>4. Cardinality(Contracts) \in Nat
    BY <2>2, FS_CardinalityType
  <2>5. Sum(total, Contracts) = -offset
    BY <2>1, <2>3, <2>4
  <2> QED BY <2>5, InitInv DEF TotalsMatchSupplyOffset, SumOver, Sum
<1>2. I /\ [Next]_vars => I'
  <2> SUFFICES ASSUME I, [Next]_vars PROVE I'
    OBVIOUS
  <2>1. StakeInv' /\ TotalsKept
    BY NextStep
  <2>2. Sum(total, Contracts) = -offset
    BY DEF TotalsMatchSupplyOffset, SumOver, Sum
  <2>3. offset \in Int /\ offset' \in Int
    BY <2>1 DEF StakeInv, TypeOK
  <2>4. Sum(total', Contracts) \in Int
    <3>1. \A c \in Contracts : total'[c] \in Int
      BY <2>1 DEF StakeInv, TypeOK
    <3> QED BY <3>1, SetsFinite, SumInt
  <2>5. Sum(total', Contracts) = -offset'
    BY <2>1, <2>2, <2>3, <2>4 DEF TotalsKept
  <2> QED BY <2>1, <2>5 DEF TotalsMatchSupplyOffset, SumOver, Sum,
                            MapThenSumSet, MapThenFoldSet
<1> QED BY <1>1, <1>2, PTL DEF Spec

\* Undelegate never burns more than the contract asked for, whatever the
\* exchange rate of shares, the precision and the order of roundings in
\* ValidateUnbondAmount and Unbond: Coin.Sub on the total can not panic.
THEOREM BurnsAtMostAsked == Spec => []NeverBurnsMoreThanAsked
<1>1. StakeInv => NeverBurnsMoreThanAsked
  <2> SUFFICES ASSUME StakeInv, NEW c \in Contracts, NEW v \in Validators,
                      NEW amt \in Amounts \ {0}, CanUnbond(v, c, amt)
               PROVE  UnbondReturn(v, UndelegateShares(c, v, amt)) <= amt
    BY DEF NeverBurnsMoreThanAsked
  <2>1. TypeOK /\ SharesMatch
    BY StateFacts
  <2>2. c \in Holders /\ amt \in Nat
    BY AccountsApart, ConstantsAssumption
  <2> QED BY <2>1, <2>2, UnbondFacts DEF UndelegateShares
<1> QED BY <1>1, StakeInductive, PTL

-----------------------------------------------------------------------------
(* Virtual tokens stay virtual.                                            *)

\* The integrity handler comes first: no staking message of a contract with a
\* max cap entry reaches x/staking.
LEMMA CappedCannotStake ==
    ASSUME NEW c \in capSet, c \in Contracts
    PROVE  ~MayStake(c)
<1> DEFINE answers == MessageHandlerChain(c, "staking")
<1>1. answers = <<"rejected", NestedHandler(c, "staking"),
                  CustomMsgHandler(c, "staking")>>
  BY DEF MessageHandlerChain, IntegrityHandler
<1>2. DOMAIN answers = 1..3 /\ answers[1] = "rejected"
  BY <1>1
<1> HIDE DEF answers
<1>3. ASSUME NEW i \in 1..3, answers[i] = "handled",
             \A j \in 1..(i - 1) : answers[j] = "unknown"
      PROVE  FALSE
  <2>1. i # 1
    BY <1>2, <1>3
  <2>2. 1 \in 1..(i - 1)
    BY <2>1
  <2> QED BY <1>2, <1>3, <2>2
<1>4. ~Dispatched(c, "staking")
  BY <1>2, <1>3 DEF Dispatched, answers
<1> QED BY <1>4 DEF MayStake

\* A step gives no contract with a max cap entry liquid tokens, nor takes any.
LEMMA LiquidStep ==
    ASSUME StakeInv, [Next]_vars, CallerReverts
    PROVE  bal'[Mesh] = 0 /\ \A x \in capSet : bal'[x] = bal[x]
<1>1. bal'[Mesh] = 0
  BY NextStep DEF StakeInv
<1>2. bal \in [Accounts -> Nat]
  BY StateFacts
<1>3. \A x \in capSet : x \in Contracts /\ x \in Holders /\ x \in Accounts /\ x \notin Pools
  BY AccountsApart DEF StakeInv, TypeOK
<1> DEFINE Kept == \A x \in capSet : bal'[x] = bal[x]
<1>4. CASE UNCHANGED vars
  BY <1>1, <1>4 DEF vars
<1>5. ASSUME NEW c \in Contracts, NEW amount \in CapAmounts,
             SetMaxCapLimit(c, amount)
      PROVE  Kept
  BY <1>5 DEF SetMaxCapLimit
<1>6. ASSUME NEW c \in Contracts, NEW v \in Validators, NEW amt \in Nat,
             Delegate(c, v, amt)
      PROVE  Kept
  <2>1. bal' = [bal EXCEPT ![PoolOf(v)] = @ + amt]
    BY <1>6, DelegateStep
  <2>2. PoolOf(v) \in Pools
    BY DEF PoolOf, Pools
  <2> QED BY <1>2, <1>3, <2>1, <2>2
<1>7. ASSUME NEW c \in Contracts, NEW v \in Validators, NEW amt \in Nat,
             DelegateFails(c, v, amt)
      PROVE  Kept
  BY <1>7, DelegateFailsStep
<1>8. ASSUME NEW c \in Contracts, NEW v \in Validators, NEW amt \in Nat,
             Undelegate(c, v, amt)
      PROVE  Kept
  <2> DEFINE r == UnbondReturn(v, UnbondShares(v, c, amt))
  <2>1. bal' = [bal EXCEPT ![PoolOf(v)] = @ + (-r)]
    BY <1>8, UndelegateStep
  <2>2. PoolOf(v) \in Pools
    BY DEF PoolOf, Pools
  <2> HIDE DEF r
  <2> QED BY <1>2, <1>3, <2>1, <2>2
<1>9. ASSUME NEW h \in Holders, NEW v \in Validators, NEW amt \in Nat,
             StakingDelegate(h, v, amt)
      PROVE  Kept
  <2>1. h \notin capSet
    BY <1>3, <1>9, CappedCannotStake DEF StakingDelegate
  <2>2. \A x \in Holders \ {h} : bal'[x] = bal[x]
    BY <1>9, StakingDelegateStep
  <2> QED BY <1>3, <2>1, <2>2
<1>10. ASSUME NEW h \in Holders, NEW v \in Validators, NEW amt \in Nat,
              StakingUndelegate(h, v, amt)
       PROVE  Kept
  <2>1. h \notin capSet
    BY <1>3, <1>10, CappedCannotStake DEF StakingUndelegate
  <2>2. \A x \in Holders \ {h} : bal'[x] = bal[x]
    BY <1>10, StakingUndelegateStep
  <2> QED BY <1>3, <2>1, <2>2
<1>11. ASSUME NEW v \in Validators, NEW amount \in SlashAmounts, Slash(v, amount)
       PROVE  Kept
  BY <1>3, <1>11, SlashStep
<1>12. ASSUME NEW v \in Validators, NEW status \in Statuses,
              ChangeStatus(v, status)
       PROVE  Kept
  BY <1>3, <1>12, ChangeStatusStep
<1>13. CASE Next
  BY <1>1, <1>5, <1>6, <1>7, <1>8, <1>9, <1>10, <1>11, <1>12, <1>13, NextCases
<1> QED BY <1>1, <1>4, <1>13

\* Under a caller that reverts failed messages, as wasmd does, virtual tokens
\* never become liquid: once a contract has a max cap entry its balance does
\* not change, and the module keeps nothing (keeper/stake.go and
\* keeper/handler_plugin.go NewIntegrityHandler).
THEOREM StaysVirtual == CallerReverts => (Spec => VirtualNeverLiquid)
<1> SUFFICES ASSUME CallerReverts PROVE Spec => VirtualNeverLiquid
  OBVIOUS
<1>1. StakeInv /\ [Next]_vars =>
        [bal'[Mesh] = 0 /\ \A c \in capSet : bal'[c] = bal[c]]_vars
  BY LiquidStep
<1> QED BY <1>1, StakeInductive, PTL DEF Spec, VirtualNeverLiquid

-----------------------------------------------------------------------------
(* The ledger.                                                             *)

\* All caps together are no more than the limit, so each one is.
LEMMA CapWithinLimit ==
    ASSUME TypeOK, NEW c \in Contracts, NEW amount \in Nat,
           SumOver(capSet \ {c}, LAMBDA x : maxCap[x]) + amount
             <= TotalContractsMaxCap
    PROVE  amount \in 0..TotalContractsMaxCap
<1> DEFINE S == capSet \ {c}
<1>1. S \in SUBSET Contracts
  BY DEF TypeOK
<1>2. IsFiniteSet(S)
  BY <1>1, SetsFinite, FS_Subset
<1>3. \A x \in S : maxCap[x] \in Nat
  BY <1>1 DEF TypeOK
<1>4. Sum(maxCap, S) + amount <= TotalContractsMaxCap
  BY DEF SumOver, Sum
<1> HIDE DEF S
<1>5. Sum(maxCap, S) \in Nat
  BY <1>2, <1>3, SumNat
<1>6. TotalContractsMaxCap \in Nat
  BY ConstantsAssumption
<1> QED BY <1>4, <1>5, <1>6

\* A step of virtual staking is a step of the ledger, or invisible there.
LEMMA LedgerStep ==
    ASSUME StakeInv, [Next]_vars
    PROVE  [Ledger!Next]_(Ledger!vars)
<1> DEFINE K == Sum(bal, Accounts)
           K1 == Sum(bal', Accounts)
           Goal == [Ledger!Next]_(Ledger!vars)
<1>1. TokenSupply = K /\ TokenSupply' = K1
  BY DEF TokenSupply, SumOver, Sum, MapThenSumSet, MapThenFoldSet
<1>2. K \in Nat /\ K1 \in Nat
  <2>1. \A a \in Accounts : bal[a] \in Nat
    BY DEF StakeInv, TypeOK
  <2>2. \A a \in Accounts : bal'[a] \in Nat
    BY NextStep DEF StakeInv, TypeOK
  <2> QED BY <2>1, <2>2, SetsFinite, SumNat
<1>3. /\ total \in [Contracts -> Nat] /\ maxCap \in [Contracts -> Nat]
      /\ offset \in Int
  BY DEF StakeInv, TypeOK
<1>4. UNCHANGED <<maxCap, total, offset>> /\ K1 = K => Goal
  BY <1>1 DEF Ledger!vars
<1> HIDE DEF K, K1
<1>5. CASE UNCHANGED vars
  <2>1. K1 = K
    BY <1>5 DEF K, K1, vars
  <2> QED BY <1>4, <1>5, <2>1 DEF vars
<1>6. ASSUME NEW c \in Contracts, NEW amount \in CapAmounts,
             SetMaxCapLimit(c, amount)
      PROVE  Goal
  <2>1. amount \in 0..TotalContractsMaxCap
    <3>1. amount \in Nat /\ TypeOK
      BY ConstantsAssumption DEF StakeInv
    <3> QED BY <1>6, <3>1, CapWithinLimit DEF SetMaxCapLimit
  <2>2. K1 = K
    BY <1>6 DEF K, K1, SetMaxCapLimit
  <2>3. Ledger!SetCap(c)
    BY <1>1, <1>6, <2>1, <2>2 DEF Ledger!SetCap, SetMaxCapLimit
  <2> QED BY <2>3 DEF Ledger!Next
<1>7. ASSUME NEW c \in Contracts, NEW amt \in Nat,
             total[c] + amt <= maxCap[c],
             total' = [total EXCEPT ![c] = @ + amt],
             offset' = offset - amt, maxCap' = maxCap, K1 = K + amt
      PROVE  Goal
  <2>1. amt \in 0..(maxCap[c] - total[c])
    BY <1>3, <1>7
  <2>2. Ledger!Mint(c)
    BY <1>1, <1>7, <2>1 DEF Ledger!Mint
  <2> QED BY <2>2 DEF Ledger!Next
<1>8. ASSUME NEW c \in Contracts, NEW v \in Validators, NEW amt \in Nat,
             Delegate(c, v, amt)
      PROVE  Goal
  <2>1. K1 = K + amt
    BY <1>8, DelegateStep DEF K, K1
  <2> QED BY <1>7, <1>8, <2>1 DEF Delegate, DelegateAllowed, DelegateTotal
<1>9. ASSUME NEW c \in Contracts, NEW v \in Validators, NEW amt \in Nat,
             DelegateFails(c, v, amt)
      PROVE  Goal
  <2>1. CASE CallerReverts
    <3>1. UNCHANGED <<maxCap, total, offset, bal>>
      BY <1>9, <2>1 DEF DelegateFails
    <3>2. K1 = K
      BY <3>1 DEF K, K1
    <3> QED BY <1>4, <3>1, <3>2
  <2>2. CASE ~CallerReverts
    <3>1. K1 = K + amt
      BY <1>9, <2>2, DelegateFailsStep DEF K, K1
    <3> QED BY <1>7, <1>9, <2>2, <3>1
            DEF DelegateFails, DelegateAllowed, DelegateTotal
  <2> QED BY <2>1, <2>2
<1>10. ASSUME NEW c \in Contracts, NEW v \in Validators, NEW amt \in Nat,
              Undelegate(c, v, amt)
       PROVE  Goal
  <2> DEFINE r == UnbondReturn(v, UnbondShares(v, c, amt))
  <2>1. /\ r \in Nat /\ r <= total[c]
        /\ total' = [total EXCEPT ![c] = @ - r]
        /\ offset' = offset + r
        /\ K1 = K - r
    BY <1>10, UndelegateStep DEF K, K1
  <2>2. maxCap' = maxCap
    BY <1>10 DEF Undelegate
  <2> HIDE DEF r
  <2>3. r \in 0..total[c]
    BY <1>3, <2>1
  <2>4. Ledger!Burn(c)
    BY <1>1, <2>1, <2>2, <2>3 DEF Ledger!Burn
  <2> QED BY <2>4 DEF Ledger!Next
<1>11. ASSUME NEW h \in Holders, NEW v \in Validators, NEW amt \in Nat,
              StakingDelegate(h, v, amt)
       PROVE  Goal
  <2>1. K1 = K
    BY <1>11, StakingDelegateStep DEF K, K1
  <2> QED BY <1>4, <1>11, <2>1 DEF StakingDelegate
<1>12. ASSUME NEW h \in Holders, NEW v \in Validators, NEW amt \in Nat,
              StakingUndelegate(h, v, amt)
       PROVE  Goal
  <2>1. K1 = K
    BY <1>12, StakingUndelegateStep DEF K, K1
  <2> QED BY <1>4, <1>12, <2>1 DEF StakingUndelegate
<1>13. ASSUME NEW v \in Validators, NEW amount \in SlashAmounts, Slash(v, amount)
       PROVE  Goal
  <2>1. PICK n \in Nat : K1 = K - n
    BY <1>13, SlashStep DEF K, K1
  <2>2. n \in 0..K
    BY <1>2, <2>1
  <2>3. UNCHANGED <<maxCap, total, offset>>
    BY <1>13 DEF Slash
  <2>4. Ledger!Slash
    BY <1>1, <2>1, <2>2, <2>3 DEF Ledger!Slash
  <2> QED BY <2>4 DEF Ledger!Next
<1>14. ASSUME NEW v \in Validators, NEW status \in Statuses,
              ChangeStatus(v, status)
       PROVE  Goal
  <2>1. K1 = K
    BY <1>14, ChangeStatusStep DEF K, K1
  <2> QED BY <1>4, <1>14, <2>1 DEF ChangeStatus
<1>15. CASE Next
  BY <1>6, <1>8, <1>9, <1>10, <1>11, <1>12, <1>13, <1>14, <1>15, NextCases
<1> QED BY <1>5, <1>15

\* Virtual staking implements the ledger: whatever rounding, share prices,
\* pools, slashes and failed messages do, a contract's account is filled by
\* minting within its cap and emptied by burning what was minted.
THEOREM RefinesLedger == Spec => ImplementsLedger
<1>1. Init => Ledger!Init
  <2> SUFFICES ASSUME Init PROVE Ledger!Init
    OBVIOUS
  <2>1. StakeInv
    BY InitInv
  <2>2. \A a \in Accounts : bal[a] \in Nat
    BY <2>1 DEF StakeInv, TypeOK
  <2>3. Sum(bal, Accounts) \in Nat
    BY <2>2, SetsFinite, SumNat
  <2>4. TokenSupply \in Nat
    BY <2>3 DEF TokenSupply, SumOver, Sum
  <2> QED BY <2>4 DEF Ledger!Init, Init
<1>2. StakeInv /\ [Next]_vars => [Ledger!Next]_(Ledger!vars)
  BY LedgerStep
<1> QED BY <1>1, <1>2, StakeInductive, PTL
        DEF Spec, ImplementsLedger, Ledger!Spec

-----------------------------------------------------------------------------
(* Restarts from a genesis.                                                *)

\* A restart leaves what x/bank and x/staking keep.
LEMMA RestartStep ==
    ASSUME StakeInv, RestartFromGenesis
    PROVE  /\ StakeInv'
           /\ UNCHANGED <<val, del, bal, offset, slashed>>
           /\ capSet' = {}
           /\ \A c \in Contracts : total'[c] = 0
<1>1. /\ UNCHANGED <<val, del, bal, offset, slashed>>
      /\ capSet' = {} /\ maxCap' = [c \in Contracts |-> 0]
      /\ total' = [c \in Contracts |-> 0]
  BY DEF RestartFromGenesis, ExportGenesis, ImportTotals
<1>2. /\ capSet' \subseteq Contracts
      /\ maxCap' \in [Contracts -> Nat] /\ total' \in [Contracts -> Nat]
  BY <1>1
<1>3. StakeInv'
  BY <1>1, <1>2, CoinsUnchanged
<1> QED BY <1>1, <1>3

\* The invariant of virtual staking is one across restarts, too.
LEMMA GenesisInductive == GenesisSpec => []StakeInv
<1>1. GenesisInit => StakeInv
  BY InitInv DEF GenesisInit
<1>2. StakeInv /\ [GenesisNext]_genesisVars => StakeInv'
  <2> SUFFICES ASSUME StakeInv, [GenesisNext]_genesisVars PROVE StakeInv'
    OBVIOUS
  <2>1. CASE [Next]_vars
    BY <2>1, NextStep
  <2>2. CASE RestartFromGenesis
    BY <2>2, RestartStep
  <2> QED BY <2>1, <2>2 DEF GenesisNext, genesisVars
<1> QED BY <1>1, <1>2, PTL DEF GenesisSpec

\* Across restarts from an exported genesis, which takes over balances and
\* validators and no max cap, the pools stay backed.
THEOREM GenesisPoolsBacked == GenesisSpec => []PoolsBacked
<1>1. StakeInv => PoolsBacked
  BY DEF StakeInv
<1> QED BY <1>1, GenesisInductive, PTL

\* And no virtual token becomes liquid on a chain whose contracts lost their
\* max cap entries in a restart (x/meshsecurity/keeper/genesis.go), while they
\* have one.
THEOREM GenesisStaysVirtual == CallerReverts => (GenesisSpec => VirtualNeverLiquid)
<1> SUFFICES ASSUME CallerReverts PROVE GenesisSpec => VirtualNeverLiquid
  OBVIOUS
<1> DEFINE A == bal'[Mesh] = 0 /\ \A c \in capSet : bal'[c] = bal[c]
<1>1. StakeInv /\ [GenesisNext]_genesisVars => [A]_vars
  <2> SUFFICES ASSUME StakeInv, [GenesisNext]_genesisVars PROVE [A]_vars
    OBVIOUS
  <2>1. CASE [Next]_vars
    BY <2>1, LiquidStep
  <2>2. CASE RestartFromGenesis
    BY <2>2, RestartStep DEF StakeInv
  <2> QED BY <2>1, <2>2 DEF GenesisNext, genesisVars
<1> QED BY <1>1, GenesisInductive, PTL DEF GenesisSpec, VirtualNeverLiquid

-----------------------------------------------------------------------------
(* Without slashes a share is worth one token.                             *)

\* A contract without a max cap entry has no total.
CapTotals == \A c \in Contracts : c \notin capSet => total[c] = 0

\* Shares are worth their number of tokens for as long as nothing was slashed.
AtPar ==
    slashed = 0 =>
        \A v \in Validators : val[v].shares = NewDecFromInt(val[v].tokens)

\* The inductive invariant of UnslashedTotalIsBacked.
BackedInv == StakeInv /\ CapTotals /\ AtPar /\ UnslashedTotalIsBacked

\* At par a delegation of amt tokens is amt shares.
LEMMA IssuedAtPar ==
    ASSUME TypeOK, NEW v \in Validators, NEW amt \in Nat,
           val[v].shares = NewDecFromInt(val[v].tokens)
    PROVE  IssuedShares(v, amt) = NewDecFromInt(amt)
<1> DEFINE T == val[v].tokens
           H == val[v].shares
           P == Precision
<1>1. T \in Nat /\ H = T * P /\ P \in Nat \ {0}
  BY PrecisionAssumption DEF TypeOK, NewDecFromInt
<1>2. IssuedShares(v, amt) = IF H = 0 THEN amt * P ELSE (H * amt) \div T
  BY DEF IssuedShares, NewDecFromInt, SharesFromTokens, QuoInt, MulInt
<1> HIDE DEF T, H, P
<1>3. CASE H = 0
  BY <1>2, <1>3 DEF NewDecFromInt, P
<1>4. CASE H # 0
  <2>1. T # 0
    BY <1>1, <1>4
  <2>2. H * amt = T * (amt * P) /\ amt * P \in Nat
    BY <1>1
  <2>3. (T * (amt * P)) \div T = amt * P
    BY <1>1, <2>1, <2>2, DivExact
  <2> QED BY <1>2, <1>4, <2>2, <2>3 DEF NewDecFromInt, P
<1> QED BY <1>3, <1>4

\* At par unbonding amt tokens takes amt shares and returns amt tokens: neither
\* of the two share prices of ValidateUnbondAmount rounds.
LEMMA UnbondAtPar ==
    ASSUME TypeOK, SharesMatch, NEW v \in Validators, NEW h \in Holders,
           NEW amt \in Nat, CanUnbond(v, h, amt),
           val[v].shares = NewDecFromInt(val[v].tokens)
    PROVE  /\ UnbondShares(v, h, amt) = NewDecFromInt(amt)
           /\ UnbondReturn(v, NewDecFromInt(amt)) = amt
<1> DEFINE T == val[v].tokens
           H == val[v].shares
           P == Precision
           d == del[v][h]
           A == amt * P
<1>1. T \in Nat \ {0} /\ H = T * P /\ P \in Nat \ {0} /\ d \in Nat
  BY PrecisionAssumption, HolderShares DEF TypeOK, NewDecFromInt, CanUnbond
<1>2. UnbondShares(v, h, amt)
        = IF (H * amt) \div T > d THEN d ELSE (H * amt) \div T
  BY DEF UnbondShares, SharesFromTokens, QuoInt, MulInt
<1>3. ((H * amt * P * P) \div (T * P)) \div P <= d
  BY DEF CanUnbond, SharesFromTokensTruncated, QuoTruncate, MulInt, NewDecFromInt
<1>4. UnbondReturn(v, A)
        = IF A = H THEN T
          ELSE chopPrecisionAndRound((A * T * P * P) \div H) \div P
  BY DEF UnbondReturn, TokensFromShares, TruncateInt, Quo, MulInt
<1> HIDE DEF T, H, P, d
<1>5. A \in Nat /\ A * P \in Nat /\ T * P \in Nat \ {0}
  BY <1>1
<1>6. (H * amt) \div T = A
  <2>1. H * amt = T * A
    BY <1>1
  <2> HIDE DEF A
  <2>2. (T * A) \div T = A
    BY <1>1, <1>5, DivExact
  <2> QED BY <2>1, <2>2
<1>7. (P * A) \div P = A /\ (A * P) \div P = A
  <2> HIDE DEF A
  <2>1. (P * A) \div P = A
    BY <1>1, <1>5, DivExact
  <2>2. P * A = A * P
    BY <1>1, <1>5
  <2> QED BY <2>1, <2>2
<1>8. ((T * P) * (A * P)) \div (T * P) = A * P
  <2> DEFINE b == T * P
             a == A * P
  <2>1. b \in Nat \ {0} /\ a \in Nat
    BY <1>5
  <2> HIDE DEF a, b
  <2>2. (b * a) \div b = a
    BY <2>1, DivExact
  <2> QED BY <2>2 DEF a, b
<1>9. A <= d
  <2>1. H * amt * P * P = (T * P) * (A * P)
    BY <1>1
  <2> QED BY <1>3, <1>7, <1>8, <2>1
<1>10. UnbondShares(v, h, amt) = A
  <2> HIDE DEF A
  <2> QED BY <1>1, <1>2, <1>5, <1>6, <1>9
<1>11. UnbondReturn(v, A) = amt
  <2>1. CASE A = H
    <3>1. P * amt = P * T
      BY <1>1, <2>1
    <3>2. T = amt
      <4>1. P * amt <= P * T /\ P * T <= P * amt
        BY <1>1, <3>1
      <4>2. amt <= T /\ T <= amt
        BY <1>1, <4>1, TimesCancel
      <4> QED BY <1>1, <4>2
    <3> QED BY <1>4, <2>1, <3>2
  <2>2. CASE A # H
    <3>1. A * T * P * P = (T * P) * (A * P)
      BY <1>1
    <3>2. (A * T * P * P) \div H = A * P
      BY <1>1, <1>8, <3>1
    <3>3. chopPrecisionAndRound(A * P) = A
      <4> HIDE DEF A
      <4> QED BY <1>5, ChopExact DEF P
    <3>4. UnbondReturn(v, A) = A \div P
      BY <1>4, <2>2, <3>2, <3>3
    <3>5. P * amt = A
      BY <1>1
    <3>6. (P * amt) \div P = amt
      BY <1>1, DivExact
    <3> QED BY <3>4, <3>5, <3>6
  <2> QED BY <2>1, <2>2
<1> QED BY <1>10, <1>11 DEF A, P, NewDecFromInt

\* The shares of a holder on all validators.
SharesOf(x, c) == [v \in Validators |-> x[v][c]]

LEMMA SharesOfSum ==
    ASSUME NEW x, NEW c
    PROVE  SumOver(Validators, LAMBDA v : x[v][c]) = Sum(SharesOf(x, c), Validators)
<1> DEFINE f == SharesOf(x, c)
           Body(g, s) == IF s = {} THEN 0
                         ELSE x[Pick(s)][c] + g[s \ {Pick(s)}]
           iter == CHOOSE g : g = [s \in SUBSET Validators |-> Body(g, s)]
<1>1. ASSUME NEW g, NEW s \in SUBSET Validators PROVE Body(g, s) = Rest(f, g, s)
  <2>1. CASE s = {}
    BY <2>1 DEF Rest
  <2>2. CASE s # {}
    <3>1. Pick(s) \in Validators
      BY <2>2 DEF Pick
    <3>2. f[Pick(s)] = x[Pick(s)][c]
      BY <3>1 DEF SharesOf
    <3> QED BY <2>2, <3>2 DEF Rest
  <2> QED BY <2>1, <2>2
<1>2. SumOver(Validators, LAMBDA v : x[v][c]) = iter[Validators]
  BY DEF SumOver, MapThenSumSet, MapThenFoldSet, Pick
<1>0. IsFiniteSet(Validators)
  BY SetsFinite
<1> HIDE DEF Body, f
<1>3. PICK g : IsIter(g, f, Validators)
  BY <1>0, IterExists
<1>4. g = [s \in SUBSET Validators |-> Body(g, s)]
  BY <1>1, <1>3 DEF IsIter
<1>5. iter = [s \in SUBSET Validators |-> Body(iter, s)]
  BY <1>4
<1> HIDE DEF iter
<1>6. IsIter(iter, f, Validators)
  BY <1>1, <1>5 DEF IsIter
<1>7. PICK h : IsIter(h, f, Validators) /\ Sum(f, Validators) = h[Validators]
  BY <1>0, SumUnfold
<1>8. Validators \in SUBSET Validators /\ \A v \in Validators : f[v] = f[v]
  OBVIOUS
<1>9. \A s \in SUBSET Validators : iter[s] = h[s]
  BY <1>0, <1>6, <1>7, <1>8, IterAgree
<1>10. iter[Validators] = h[Validators]
  BY <1>8, <1>9
<1> QED BY <1>2, <1>7, <1>10 DEF f

\* A sum over validators, after a change of one value by k.
LEMMA ValidatorSum ==
    ASSUME NEW f, NEW e, NEW v \in Validators, NEW k \in Int,
           \A w \in Validators : f[w] \in Nat /\ e[w] \in Nat,
           \A w \in Validators \ {v} : e[w] = f[w],
           e[v] = f[v] + k
    PROVE  /\ Sum(f, Validators) \in Nat /\ Sum(e, Validators) \in Nat
           /\ Sum(e, Validators) = Sum(f, Validators) + k
<1>1. \A w \in Validators : f[w] \in Nat
  OBVIOUS
<1>2. \A w \in Validators : e[w] \in Nat
  OBVIOUS
<1>3. \A w \in Validators : f[w] \in Int /\ e[w] \in Int
  OBVIOUS
<1>4. IsFiniteSet(Validators)
  BY SetsFinite
<1>5. Sum(f, Validators) \in Nat
  BY <1>1, <1>4, SumNat
<1>6. Sum(e, Validators) \in Nat
  BY <1>2, <1>4, SumNat
<1>7. Sum(e, Validators) = Sum(f, Validators) + e[v] - f[v]
  BY <1>3, <1>4, SumUpdate
<1> QED BY <1>1, <1>5, <1>6, <1>7

\* What a change of one delegation does to them.
LEMMA SharesOfUpdate ==
    ASSUME NEW x, NEW y, NEW c, NEW v \in Validators,
           \A w \in Validators : x[w][c] \in Nat /\ y[w][c] \in Nat,
           \A w \in Validators \ {v} : y[w][c] = x[w][c]
    PROVE  /\ Sum(SharesOf(x, c), Validators) \in Nat
           /\ Sum(SharesOf(y, c), Validators) \in Nat
           /\ Sum(SharesOf(y, c), Validators)
                = Sum(SharesOf(x, c), Validators) + (y[v][c] - x[v][c])
<1> DEFINE f == SharesOf(x, c)
           e == SharesOf(y, c)
           k == y[v][c] - x[v][c]
<1>1. \A w \in Validators : f[w] = x[w][c] /\ e[w] = y[w][c]
  BY DEF SharesOf
<1> HIDE DEF f, e
<1>2. \A w \in Validators : f[w] \in Nat /\ e[w] \in Nat
  BY <1>1
<1>3. \A w \in Validators \ {v} : e[w] = f[w]
  BY <1>1
<1>4. k \in Int /\ e[v] = f[v] + k
  BY <1>1
<1> HIDE DEF k
<1>5. /\ Sum(f, Validators) \in Nat /\ Sum(e, Validators) \in Nat
      /\ Sum(e, Validators) = Sum(f, Validators) + k
  BY <1>2, <1>3, <1>4, ValidatorSum
<1> QED BY <1>5 DEF f, e, k

\* At par a delegation of amt tokens keeps the validator at par, and gives the
\* holder amt shares.
LEMMA AddAtPar ==
    ASSUME TypeOK, NEW v \in Validators, NEW h \in Holders,
           NEW amt \in Nat, AddDelegation(v, h, amt),
           \A w \in Validators : val[w].shares = NewDecFromInt(val[w].tokens)
    PROVE  /\ \A w \in Validators : val'[w].shares = NewDecFromInt(val'[w].tokens)
           /\ \A c \in Holders :
                 /\ Sum(SharesOf(del, c), Validators) \in Nat
                 /\ Sum(SharesOf(del', c), Validators)
                      = Sum(SharesOf(del, c), Validators)
                          + (IF c = h THEN NewDecFromInt(amt) ELSE 0)
<1> DEFINE k == NewDecFromInt(amt)
<1>0. k \in Nat /\ k \in Int
  BY PrecisionAssumption DEF NewDecFromInt
<1>1. IssuedShares(v, amt) = k
  BY IssuedAtPar
<1>2. /\ val' = [val EXCEPT ![v].tokens = @ + amt, ![v].shares = @ + k]
      /\ del' = [del EXCEPT ![v][h] = @ + k]
  BY <1>1 DEF AddDelegation
<1>3. val \in [Validators -> ValRecord] /\ del \in [Validators -> [Holders -> Nat]]
  BY DEF TypeOK, ValRecord
<1>4. ASSUME NEW w \in Validators
      PROVE  val'[w].shares = NewDecFromInt(val'[w].tokens)
  <2>1. CASE w # v
    <3>1. val'[w] = val[w]
      BY <1>2, <1>3, <2>1
    <3> QED BY <3>1
  <2>2. CASE w = v
    <3>1. val'[v].shares = val[v].shares + k /\ val'[v].tokens = val[v].tokens + amt
      BY <1>2, <1>3 DEF ValRecord
    <3>2. val[v].tokens \in Nat
      BY <1>3 DEF ValRecord
    <3>3. (val[v].tokens + amt) * Precision
            = val[v].tokens * Precision + amt * Precision
      BY <3>2, PrecisionAssumption
    <3> QED BY <2>2, <3>1, <3>3 DEF NewDecFromInt
  <2> QED BY <2>1, <2>2
<1> HIDE DEF k
<1>5. del[v][h] + k \in Nat
  BY <1>0, <1>3
<1>6. ASSUME NEW c \in Holders
      PROVE  /\ Sum(SharesOf(del, c), Validators) \in Nat
             /\ Sum(SharesOf(del', c), Validators)
                  = Sum(SharesOf(del, c), Validators) + (IF c = h THEN k ELSE 0)
  <2>1. del' = [del EXCEPT ![v][h] = @ + k]
    BY <1>2
  <2>2. /\ \A w \in Validators : del[w][c] \in Nat /\ del'[w][c] \in Nat
        /\ \A w \in Validators \ {v} : del'[w][c] = del[w][c]
        /\ del'[v][c] = del[v][c] + (IF c = h THEN k ELSE 0)
    BY <1>0, <1>3, <1>5, <2>1
  <2> DEFINE x == del
             y == del'
  <2>4. \A w \in Validators : x[w][c] \in Nat /\ y[w][c] \in Nat
    BY <2>2
  <2>5. \A w \in Validators \ {v} : y[w][c] = x[w][c]
    BY <2>2
  <2>6. y[v][c] - x[v][c] = IF c = h THEN k ELSE 0
    BY <1>0, <2>2
  <2> HIDE DEF x, y
  <2>7. /\ Sum(SharesOf(x, c), Validators) \in Nat
        /\ Sum(SharesOf(y, c), Validators)
             = Sum(SharesOf(x, c), Validators) + (y[v][c] - x[v][c])
    BY <2>4, <2>5, SharesOfUpdate
  <2> QED BY <2>6, <2>7 DEF x, y
<1> QED BY <1>4, <1>6 DEF k

\* Unbonding amt tokens likewise, and takes amt shares.
LEMMA RemoveAtPar ==
    ASSUME TypeOK, SharesMatch, NEW v \in Validators, NEW h \in Holders,
           NEW amt \in Nat, CanUnbond(v, h, amt),
           RemoveDelegation(v, h, UnbondShares(v, h, amt)),
           \A w \in Validators : val[w].shares = NewDecFromInt(val[w].tokens)
    PROVE  /\ UnbondReturn(v, UnbondShares(v, h, amt)) = amt
           /\ \A w \in Validators : val'[w].shares = NewDecFromInt(val'[w].tokens)
           /\ \A c \in Holders :
                 /\ Sum(SharesOf(del, c), Validators) \in Nat
                 /\ Sum(SharesOf(del', c), Validators) \in Nat
                 /\ Sum(SharesOf(del', c), Validators)
                      = Sum(SharesOf(del, c), Validators)
                          - (IF c = h THEN NewDecFromInt(amt) ELSE 0)
<1> DEFINE k == NewDecFromInt(amt)
           left == val[v].shares - k
           w0 == val[v]
<1>0. k \in Nat /\ k \in Int
  BY PrecisionAssumption DEF NewDecFromInt
<1>1. UnbondShares(v, h, amt) = k /\ UnbondReturn(v, k) = amt
  BY UnbondAtPar
<1>2. k <= del[v][h] /\ del[v][h] \in Nat /\ k <= w0.shares
  BY <1>1, UnbondFacts, HolderShares
<1>3. val \in [Validators -> ValRecord] /\ del \in [Validators -> [Holders -> Nat]]
  BY DEF TypeOK, ValRecord
<1> DEFINE w1 == IF left = 0 /\ w0.status = "unbonded"
                 THEN [status |-> "absent", tokens |-> 0, shares |-> 0]
                 ELSE [w0 EXCEPT !.tokens = w0.tokens - amt, !.shares = left]
<1>4. /\ val' = [val EXCEPT ![v] = w1]
      /\ del' = [del EXCEPT ![v][h] = @ - k]
  <2>1. RemoveDelegation(v, h, k)
    BY <1>1
  <2>2. del' = [del EXCEPT ![v][h] = @ - k]
    BY <2>1 DEF RemoveDelegation
  <2>3. val' = [val EXCEPT ![v] = w1]
    BY <1>1, <2>1 DEF RemoveDelegation
  <2> QED BY <2>2, <2>3
<1>5. w1.shares = NewDecFromInt(w1.tokens)
  <2>1. CASE left = 0 /\ w0.status = "unbonded"
    <3>1. w1.shares = 0 /\ w1.tokens = 0
      BY <2>1
    <3> QED BY <3>1, PrecisionAssumption DEF NewDecFromInt
  <2>2. CASE ~(left = 0 /\ w0.status = "unbonded")
    <3>1. w0 \in ValRecord
      BY <1>3
    <3>2. w1 = [w0 EXCEPT !.tokens = w0.tokens - amt, !.shares = left]
      BY <2>2
    <3> HIDE DEF w1
    <3>3. w1.shares = left /\ w1.tokens = w0.tokens - amt /\ w0.tokens \in Nat
      BY <3>1, <3>2 DEF ValRecord
    <3>4. w0.shares = w0.tokens * Precision
      BY DEF NewDecFromInt
    <3>5. (w0.tokens - amt) * Precision = w0.tokens * Precision - amt * Precision
      BY <3>3, PrecisionAssumption
    <3> QED BY <3>3, <3>4, <3>5 DEF NewDecFromInt
  <2> QED BY <2>1, <2>2
<1> HIDE DEF w1
<1>6. ASSUME NEW w \in Validators
      PROVE  val'[w].shares = NewDecFromInt(val'[w].tokens)
  BY <1>3, <1>4, <1>5
<1> HIDE DEF k
<1>7. -k \in Int /\ del[v][h] + (-k) \in Nat
  BY <1>0, <1>2
<1>8. ASSUME NEW c \in Holders
      PROVE  /\ Sum(SharesOf(del, c), Validators) \in Nat
             /\ Sum(SharesOf(del', c), Validators) \in Nat
             /\ Sum(SharesOf(del', c), Validators)
                  = Sum(SharesOf(del, c), Validators) - (IF c = h THEN k ELSE 0)
  <2>1. del' = [del EXCEPT ![v][h] = @ + (-k)]
    <3>1. del[v][h] - k = del[v][h] + (-k)
      BY <1>0, <1>2
    <3> QED BY <1>4, <3>1
  <2>2. /\ \A w \in Validators : del[w][c] \in Nat /\ del'[w][c] \in Nat
        /\ \A w \in Validators \ {v} : del'[w][c] = del[w][c]
        /\ del'[v][c] = del[v][c] + (IF c = h THEN -k ELSE 0)
    BY <1>3, <1>7, <2>1
  <2>4. /\ Sum(SharesOf(del, c), Validators) \in Nat
        /\ Sum(SharesOf(del', c), Validators) \in Nat
        /\ Sum(SharesOf(del', c), Validators)
             = Sum(SharesOf(del, c), Validators) + (IF c = h THEN -k ELSE 0)
    <3> DEFINE x == del
               y == del'
    <3>1. \A w \in Validators : x[w][c] \in Nat /\ y[w][c] \in Nat
      BY <2>2
    <3>2. \A w \in Validators \ {v} : y[w][c] = x[w][c]
      BY <2>2
    <3>3. y[v][c] - x[v][c] = IF c = h THEN -k ELSE 0
      BY <1>0, <2>2
    <3> HIDE DEF x, y
    <3>4. /\ Sum(SharesOf(x, c), Validators) \in Nat
          /\ Sum(SharesOf(y, c), Validators) \in Nat
          /\ Sum(SharesOf(y, c), Validators)
               = Sum(SharesOf(x, c), Validators) + (y[v][c] - x[v][c])
      BY <3>1, <3>2, SharesOfUpdate
    <3> QED BY <3>3, <3>4 DEF x, y
  <2> QED BY <1>0, <2>4
<1> QED BY <1>1, <1>6, <1>8 DEF k

\* The parts of BackedInv after a step, in the values after it.
LEMMA BackedNextIf ==
    ASSUME StakeInv',
           \A c \in Contracts : c \notin capSet' => total'[c] = 0,
           slashed' = 0 =>
              /\ \A v \in Validators :
                    val'[v].shares = NewDecFromInt(val'[v].tokens)
              /\ \A c \in Contracts :
                    NewDecFromInt(total'[c])
                      <= Sum(SharesOf(del', c), Validators)
    PROVE  BackedInv'
<1>1. CapTotals'
  BY DEF CapTotals
<1>2. AtPar'
  BY DEF AtPar, NewDecFromInt
<1>3. UnslashedTotalIsBacked'
  <2> SUFFICES ASSUME slashed' = 0, NEW c \in Contracts
               PROVE  NewDecFromInt(total'[c])
                        <= SumOver(Validators, LAMBDA v : del'[v][c])
    BY DEF UnslashedTotalIsBacked, NewDecFromInt, SumOver,
           MapThenSumSet, MapThenFoldSet
  <2> QED BY SharesOfSum
<1> QED BY <1>1, <1>2, <1>3 DEF BackedInv

\* What BackedInv says of an unslashed state.
LEMMA BackedFacts ==
    ASSUME BackedInv
    PROVE  /\ StakeInv /\ TypeOK /\ SharesMatch /\ slashed \in Nat
           /\ \A c \in Contracts : c \notin capSet => total[c] = 0
           /\ \A c \in Contracts :
                 c \in Holders /\ total[c] \in Nat
                   /\ NewDecFromInt(total[c]) \in Nat
           /\ slashed = 0 =>
                /\ \A v \in Validators :
                      val[v].shares = NewDecFromInt(val[v].tokens)
                /\ \A c \in Contracts :
                      NewDecFromInt(total[c]) <= Sum(SharesOf(del, c), Validators)
<1>1. StakeInv /\ TypeOK /\ SharesMatch
  BY DEF BackedInv, StakeInv
<1>2. slashed \in Nat
  BY <1>1, ConstantsAssumption DEF TypeOK
<1>3. \A c \in Contracts : c \notin capSet => total[c] = 0
  BY DEF BackedInv, CapTotals
<1>4. ASSUME NEW c \in Contracts
      PROVE  c \in Holders /\ total[c] \in Nat /\ NewDecFromInt(total[c]) \in Nat
  BY <1>1, AccountsApart, PrecisionAssumption DEF TypeOK, NewDecFromInt
<1>5. ASSUME slashed = 0, NEW c \in Contracts
      PROVE  NewDecFromInt(total[c]) <= Sum(SharesOf(del, c), Validators)
  BY <1>5, SharesOfSum DEF BackedInv, UnslashedTotalIsBacked
<1>6. slashed = 0 =>
        \A v \in Validators : val[v].shares = NewDecFromInt(val[v].tokens)
  BY DEF BackedInv, AtPar
<1> QED BY <1>1, <1>2, <1>3, <1>4, <1>5, <1>6

\* Steps that change no delegation and no total of a contract with an entry.
LEMMA BackedUnchanged ==
    ASSUME BackedInv, StakeInv', del' = del,
           \A c \in Contracts : c \notin capSet' => total'[c] = 0,
           \A c \in Contracts : total'[c] \in {0, total[c]},
           slashed' = 0 =>
              /\ slashed = 0
              /\ \A v \in Validators : val'[v].shares = val[v].shares
                                       /\ val'[v].tokens = val[v].tokens
    PROVE  BackedInv'
<1>1. ASSUME slashed' = 0, NEW v \in Validators
      PROVE  val'[v].shares = NewDecFromInt(val'[v].tokens)
  BY <1>1, BackedFacts
<1>2. ASSUME slashed' = 0, NEW c \in Contracts
      PROVE  NewDecFromInt(total'[c]) <= Sum(SharesOf(del', c), Validators)
  <2>1. /\ NewDecFromInt(total[c]) <= Sum(SharesOf(del, c), Validators)
        /\ NewDecFromInt(total[c]) \in Nat
    BY <1>2, BackedFacts
  <2>2. CASE total'[c] = total[c]
    BY <2>1, <2>2
  <2>3. CASE total'[c] = 0
    <3>1. NewDecFromInt(0) = 0
      BY PrecisionAssumption DEF NewDecFromInt
    <3>2. Sum(SharesOf(del, c), Validators) \in Nat
      <4> DEFINE f == SharesOf(del, c)
      <4>1. \A v \in Validators : f[v] \in Nat
        BY BackedFacts DEF TypeOK, SharesOf
      <4> HIDE DEF f
      <4>2. Sum(f, Validators) \in Nat
        BY <4>1, SetsFinite, SumNat
      <4> QED BY <4>2 DEF f
    <3> QED BY <2>3, <3>1, <3>2
  <2> QED BY <2>2, <2>3
<1> QED BY <1>1, <1>2, BackedNextIf

\* A step of virtual staking keeps the totals backed.
LEMMA BackedStep ==
    ASSUME BackedInv, [Next]_vars
    PROVE  BackedInv'
<1>0. /\ StakeInv /\ StakeInv' /\ TypeOK /\ SharesMatch
      /\ total \in [Contracts -> Nat]
  BY BackedFacts, NextStep DEF TypeOK
<1>1. CASE UNCHANGED vars
  <2>1. /\ capSet' = capSet /\ total' = total /\ val' = val /\ del' = del
        /\ slashed' = slashed
    BY <1>1 DEF vars
  <2> QED BY <1>0, <2>1, BackedFacts, BackedUnchanged
<1>2. ASSUME NEW c \in Contracts, NEW amount \in CapAmounts,
             SetMaxCapLimit(c, amount)
      PROVE  BackedInv'
  <2>1. /\ capSet' = capSet \cup {c} /\ total' = total /\ val' = val
        /\ del' = del /\ slashed' = slashed
    BY <1>2 DEF SetMaxCapLimit
  <2> QED BY <1>0, <2>1, BackedFacts, BackedUnchanged
<1>3. ASSUME NEW c \in Contracts, c \in capSet, NEW v \in Validators,
             NEW amt \in Nat, Delegate(c, v, amt)
      PROVE  BackedInv'
  <2>1. /\ AddDelegation(v, c, amt) /\ total' = [total EXCEPT ![c] = @ + amt]
        /\ capSet' = capSet /\ slashed' = slashed
    BY <1>3 DEF Delegate, DelegateTotal
  <2>2. \A x \in Contracts : x \notin capSet' => total'[x] = 0
    BY <1>0, <1>3, <2>1, BackedFacts
  <2>3. ASSUME slashed' = 0
        PROVE  /\ \A w \in Validators :
                     val'[w].shares = NewDecFromInt(val'[w].tokens)
               /\ \A x \in Contracts :
                     NewDecFromInt(total'[x]) <= Sum(SharesOf(del', x), Validators)
    <3>1. slashed = 0 /\ c \in Holders
      BY <2>1, <2>3, AccountsApart
    <3>2. \A w \in Validators : val[w].shares = NewDecFromInt(val[w].tokens)
      BY <3>1, BackedFacts
    <3>3. /\ \A w \in Validators : val'[w].shares = NewDecFromInt(val'[w].tokens)
          /\ \A x \in Holders :
                /\ Sum(SharesOf(del, x), Validators) \in Nat
                /\ Sum(SharesOf(del', x), Validators)
                     = Sum(SharesOf(del, x), Validators)
                         + (IF x = c THEN NewDecFromInt(amt) ELSE 0)
      BY <1>0, <2>1, <3>1, <3>2, AddAtPar
    <3>4. ASSUME NEW x \in Contracts
          PROVE  NewDecFromInt(total'[x]) <= Sum(SharesOf(del', x), Validators)
      <4>1. /\ x \in Holders /\ total[x] \in Nat /\ NewDecFromInt(total[x]) \in Nat
            /\ NewDecFromInt(total[x]) <= Sum(SharesOf(del, x), Validators)
        BY <3>1, BackedFacts
      <4>2. NewDecFromInt(amt) \in Nat
        BY PrecisionAssumption DEF NewDecFromInt
      <4>3. CASE x = c
        <5>1. total'[x] = total[x] + amt
          BY <1>0, <2>1, <4>3
        <5>2. NewDecFromInt(total[x] + amt)
                = NewDecFromInt(total[x]) + NewDecFromInt(amt)
          BY <4>1, PrecisionAssumption DEF NewDecFromInt
        <5>3. Sum(SharesOf(del', x), Validators)
                = Sum(SharesOf(del, x), Validators) + NewDecFromInt(amt)
              /\ Sum(SharesOf(del, x), Validators) \in Nat
          BY <3>3, <4>1, <4>3
        <5> QED BY <4>1, <4>2, <5>1, <5>2, <5>3
      <4>4. CASE x # c
        <5>1. total'[x] = total[x]
          BY <1>0, <2>1, <4>4
        <5>2. Sum(SharesOf(del', x), Validators)
                = Sum(SharesOf(del, x), Validators) + 0
              /\ Sum(SharesOf(del, x), Validators) \in Nat
          BY <3>3, <4>1, <4>4
        <5> QED BY <4>1, <5>1, <5>2
      <4> QED BY <4>3, <4>4
    <3> QED BY <3>3, <3>4
  <2> QED BY <1>0, <2>2, <2>3, BackedNextIf
<1>4. ASSUME NEW c \in Contracts, c \in capSet, NEW v \in Validators,
             NEW amt \in Nat, DelegateFails(c, v, amt)
      PROVE  BackedInv'
  <2>1. /\ InvalidExRate(v) /\ capSet' = capSet /\ slashed' = slashed
        /\ total' = total \/ total' = [total EXCEPT ![c] = @ + amt]
    BY <1>4 DEF DelegateFails, DelegateTotal
  <2>2. \A x \in Contracts : x \notin capSet' => total'[x] = 0
    BY <1>0, <1>4, <2>1, BackedFacts
  <2>3. slashed' # 0
    <3> SUFFICES ASSUME slashed' = 0 PROVE FALSE
      OBVIOUS
    <3>1. val[v].shares = NewDecFromInt(val[v].tokens)
      BY <2>1, BackedFacts
    <3>2. val[v].shares = 0
      BY <2>1, <3>1, PrecisionAssumption DEF InvalidExRate, NewDecFromInt
    <3> QED BY <2>1, <3>2 DEF InvalidExRate
  <2> QED BY <1>0, <2>2, <2>3, BackedNextIf
<1>5. ASSUME NEW c \in Contracts, c \in capSet, NEW v \in Validators,
             NEW amt \in Nat, Undelegate(c, v, amt)
      PROVE  BackedInv'
  <2> DEFINE r == UnbondReturn(v, UnbondShares(v, c, amt))
  <2>1. /\ CanUnbond(v, c, amt)
        /\ RemoveDelegation(v, c, UnbondShares(v, c, amt))
        /\ capSet' = capSet /\ slashed' = slashed
    BY <1>5 DEF Undelegate, UndelegateShares
  <2>a. total' = [total EXCEPT ![c] = @ - r]
    BY <1>0, <1>5, UndelegateStep
  <2>2. \A x \in Contracts : x \notin capSet' => total'[x] = 0
    <3> HIDE DEF r
    <3> QED BY <1>0, <1>5, <2>1, <2>a, BackedFacts
  <2>3. ASSUME slashed' = 0
        PROVE  /\ \A w \in Validators :
                     val'[w].shares = NewDecFromInt(val'[w].tokens)
               /\ \A x \in Contracts :
                     NewDecFromInt(total'[x]) <= Sum(SharesOf(del', x), Validators)
    <3>1. slashed = 0 /\ c \in Holders
      BY <2>1, <2>3, AccountsApart
    <3>2. \A w \in Validators : val[w].shares = NewDecFromInt(val[w].tokens)
      BY <3>1, BackedFacts
    <3>3. /\ r = amt
          /\ \A w \in Validators : val'[w].shares = NewDecFromInt(val'[w].tokens)
          /\ \A x \in Holders :
                /\ Sum(SharesOf(del, x), Validators) \in Nat
                /\ Sum(SharesOf(del', x), Validators)
                     = Sum(SharesOf(del, x), Validators)
                         - (IF x = c THEN NewDecFromInt(amt) ELSE 0)
      BY <1>0, <2>1, <3>1, <3>2, RemoveAtPar
    <3> HIDE DEF r
    <3>4. ASSUME NEW x \in Contracts
          PROVE  NewDecFromInt(total'[x]) <= Sum(SharesOf(del', x), Validators)
      <4>1. /\ x \in Holders /\ total[x] \in Nat /\ NewDecFromInt(total[x]) \in Nat
            /\ NewDecFromInt(total[x]) <= Sum(SharesOf(del, x), Validators)
        BY <3>1, BackedFacts
      <4>2. NewDecFromInt(amt) \in Nat
        BY PrecisionAssumption DEF NewDecFromInt
      <4>3. CASE x = c
        <5>1. total'[x] = total[x] - amt
          BY <1>0, <2>a, <3>3, <4>3
        <5>2. NewDecFromInt(total[x] - amt)
                = NewDecFromInt(total[x]) - NewDecFromInt(amt)
          BY <4>1, PrecisionAssumption DEF NewDecFromInt
        <5>3. Sum(SharesOf(del', x), Validators)
                = Sum(SharesOf(del, x), Validators) - NewDecFromInt(amt)
              /\ Sum(SharesOf(del, x), Validators) \in Nat
          BY <3>3, <4>1, <4>3
        <5> QED BY <4>1, <4>2, <5>1, <5>2, <5>3
      <4>4. CASE x # c
        <5>1. total'[x] = total[x]
          BY <1>0, <2>a, <4>4
        <5>2. Sum(SharesOf(del', x), Validators)
                = Sum(SharesOf(del, x), Validators) - 0
              /\ Sum(SharesOf(del, x), Validators) \in Nat
          BY <3>3, <4>1, <4>4
        <5> QED BY <4>1, <5>1, <5>2
      <4> QED BY <4>3, <4>4
    <3> QED BY <3>3, <3>4
  <2> QED BY <1>0, <2>2, <2>3, BackedNextIf
<1>6. ASSUME NEW h \in Holders, NEW v \in Validators, NEW amt \in Nat,
             StakingDelegate(h, v, amt)
      PROVE  BackedInv'
  <2>1. /\ AddDelegation(v, h, amt) /\ total' = total
        /\ capSet' = capSet /\ slashed' = slashed
    BY <1>6 DEF StakingDelegate
  <2>2. \A x \in Contracts : x \notin capSet' => total'[x] = 0
    BY <2>1, BackedFacts
  <2>3. ASSUME slashed' = 0
        PROVE  /\ \A w \in Validators :
                     val'[w].shares = NewDecFromInt(val'[w].tokens)
               /\ \A x \in Contracts :
                     NewDecFromInt(total'[x]) <= Sum(SharesOf(del', x), Validators)
    <3>1. slashed = 0
      BY <2>1, <2>3
    <3>2. \A w \in Validators : val[w].shares = NewDecFromInt(val[w].tokens)
      BY <3>1, BackedFacts
    <3>3. /\ \A w \in Validators : val'[w].shares = NewDecFromInt(val'[w].tokens)
          /\ \A x \in Holders :
                /\ Sum(SharesOf(del, x), Validators) \in Nat
                /\ Sum(SharesOf(del', x), Validators)
                     = Sum(SharesOf(del, x), Validators)
                         + (IF x = h THEN NewDecFromInt(amt) ELSE 0)
      BY <1>0, <2>1, <3>2, AddAtPar
    <3>4. NewDecFromInt(amt) \in Nat
      BY PrecisionAssumption DEF NewDecFromInt
    <3>5. ASSUME NEW x \in Contracts
          PROVE  NewDecFromInt(total'[x]) <= Sum(SharesOf(del', x), Validators)
      <4>1. /\ x \in Holders /\ NewDecFromInt(total[x]) \in Nat
            /\ NewDecFromInt(total[x]) <= Sum(SharesOf(del, x), Validators)
        BY <3>1, BackedFacts
      <4>2. /\ Sum(SharesOf(del, x), Validators) \in Nat
            /\ Sum(SharesOf(del, x), Validators) <= Sum(SharesOf(del', x), Validators)
            /\ Sum(SharesOf(del', x), Validators) \in Nat
        BY <3>3, <3>4, <4>1
      <4> QED BY <2>1, <4>1, <4>2
    <3> QED BY <3>3, <3>5
  <2> QED BY <1>0, <2>2, <2>3, BackedNextIf
<1>7. ASSUME NEW h \in Holders, NEW v \in Validators, NEW amt \in Nat,
             StakingUndelegate(h, v, amt)
      PROVE  BackedInv'
  <2>1. /\ CanUnbond(v, h, amt)
        /\ RemoveDelegation(v, h, UnbondShares(v, h, amt))
        /\ total' = total /\ capSet' = capSet /\ slashed' = slashed
        /\ MayStake(h)
    BY <1>7 DEF StakingUndelegate
  <2>2. \A x \in Contracts : x \notin capSet' => total'[x] = 0
    BY <2>1, BackedFacts
  <2>3. ASSUME slashed' = 0
        PROVE  /\ \A w \in Validators :
                     val'[w].shares = NewDecFromInt(val'[w].tokens)
               /\ \A x \in Contracts :
                     NewDecFromInt(total'[x]) <= Sum(SharesOf(del', x), Validators)
    <3>1. slashed = 0
      BY <2>1, <2>3
    <3>2. \A w \in Validators : val[w].shares = NewDecFromInt(val[w].tokens)
      BY <3>1, BackedFacts
    <3>3. /\ \A w \in Validators : val'[w].shares = NewDecFromInt(val'[w].tokens)
          /\ \A x \in Holders :
                /\ Sum(SharesOf(del, x), Validators) \in Nat
                /\ Sum(SharesOf(del', x), Validators) \in Nat
                /\ Sum(SharesOf(del', x), Validators)
                     = Sum(SharesOf(del, x), Validators)
                         - (IF x = h THEN NewDecFromInt(amt) ELSE 0)
      BY <1>0, <2>1, <3>2, RemoveAtPar
    <3>4. ASSUME NEW x \in Contracts
          PROVE  NewDecFromInt(total'[x]) <= Sum(SharesOf(del', x), Validators)
      <4>1. /\ x \in Holders
            /\ NewDecFromInt(total[x]) <= Sum(SharesOf(del, x), Validators)
        BY <3>1, BackedFacts
      <4>2. CASE x = h
        <5>1. h \notin capSet
          BY <2>1, <4>2, CappedCannotStake
        <5>2. total'[x] = 0
          BY <2>1, <2>2, <4>2, <5>1
        <5>3. NewDecFromInt(0) = 0
          BY PrecisionAssumption DEF NewDecFromInt
        <5>4. Sum(SharesOf(del', x), Validators) \in Nat
          BY <3>3, <4>1
        <5> QED BY <5>2, <5>3, <5>4
      <4>3. CASE x # h
        <5>1. Sum(SharesOf(del', x), Validators)
                = Sum(SharesOf(del, x), Validators) - 0
              /\ Sum(SharesOf(del, x), Validators) \in Nat
          BY <3>3, <4>1, <4>3
        <5> QED BY <2>1, <4>1, <5>1
      <4> QED BY <4>2, <4>3
    <3> QED BY <3>3, <3>4
  <2> QED BY <1>0, <2>2, <2>3, BackedNextIf
<1>8. ASSUME NEW v \in Validators, NEW amount \in SlashAmounts, Slash(v, amount)
      PROVE  BackedInv'
  <2> DEFINE n == IF amount > val[v].tokens THEN val[v].tokens ELSE amount
  <2>1. /\ val' = [val EXCEPT ![v].tokens = @ - n] /\ slashed' = slashed + n
        /\ total' = total /\ capSet' = capSet /\ del' = del
    BY <1>8 DEF Slash
  <2>2. val \in [Validators -> ValRecord] /\ slashed \in Nat
    BY <1>0, StateFacts, BackedFacts
  <2>3. n \in Nat
    <3>1. amount \in Nat /\ val[v].tokens \in Nat
      BY <2>2, ConstantsAssumption DEF ValRecord
    <3> QED BY <3>1
  <2> HIDE DEF n
  <2>4. ASSUME slashed' = 0
        PROVE  slashed = 0 /\ val' = val
    <3>1. n = 0 /\ slashed = 0
      BY <2>1, <2>2, <2>3, <2>4
    <3>2. val[v].tokens - 0 = val[v].tokens
      BY <2>2 DEF ValRecord
    <3>3. [val EXCEPT ![v].tokens = @ - 0] = val
      <4>1. [val[v] EXCEPT !.tokens = val[v].tokens] = val[v]
        BY <2>2 DEF ValRecord
      <4> QED BY <2>2, <3>2, <4>1
    <3> QED BY <2>1, <3>1, <3>3
  <2>5. \A c \in Contracts : c \notin capSet' => total'[c] = 0
    BY <2>1, BackedFacts
  <2>6. \A c \in Contracts : total'[c] \in {0, total[c]}
    BY <2>1
  <2> QED BY <1>0, <2>1, <2>4, <2>5, <2>6, BackedUnchanged
<1>9. ASSUME NEW v \in Validators, NEW status \in Statuses,
             ChangeStatus(v, status)
      PROVE  BackedInv'
  <2> DEFINE st == IF status = "unbonded" /\ val[v].shares = 0
                   THEN "absent" ELSE status
  <2>1. /\ val' = [val EXCEPT ![v].status = st] /\ slashed' = slashed
        /\ total' = total /\ capSet' = capSet /\ del' = del
    BY <1>9 DEF ChangeStatus
  <2> HIDE DEF st
  <2>2. val \in [Validators -> ValRecord]
    BY <1>0, StateFacts
  <2>3. \A w \in Validators : val'[w].shares = val[w].shares
                              /\ val'[w].tokens = val[w].tokens
    BY <2>1, <2>2 DEF ValRecord
  <2>4. \A c \in Contracts : c \notin capSet' => total'[c] = 0
    BY <2>1, BackedFacts
  <2>5. \A c \in Contracts : total'[c] \in {0, total[c]}
    BY <2>1
  <2> QED BY <1>0, <2>1, <2>3, <2>4, <2>5, BackedUnchanged
<1>10. CASE Next
  BY <1>2, <1>3, <1>4, <1>5, <1>6, <1>7, <1>8, <1>9, <1>10, NextCases
<1> QED BY <1>1, <1>10

\* As long as nothing was slashed, the total of a contract is backed by its own
\* shares: all of the cap it uses can be freed by Undelegate, over restarts,
\* status changes, failed messages and everything other delegators do.
THEOREM TotalsBacked == GenesisSpec => []UnslashedTotalIsBacked
<1>1. GenesisInit => BackedInv
  <2> SUFFICES ASSUME GenesisInit PROVE BackedInv
    OBVIOUS
  <2>1. Init /\ StakeInv
    BY InitInv DEF GenesisInit
  <2>2. \A c \in Contracts : total[c] = 0
    BY <2>1 DEF Init
  <2>3. \A v \in Validators : val[v].shares = NewDecFromInt(val[v].tokens)
    BY <2>1 DEF Init
  <2>4. UnslashedTotalIsBacked
    <3> SUFFICES ASSUME NEW c \in Contracts
                 PROVE  NewDecFromInt(total[c])
                          <= SumOver(Validators, LAMBDA v : del[v][c])
      BY DEF UnslashedTotalIsBacked
    <3> DEFINE f == SharesOf(del, c)
    <3>1. \A v \in Validators : f[v] \in Nat
      BY <2>1, AccountsApart DEF StakeInv, TypeOK, SharesOf
    <3>2. SumOver(Validators, LAMBDA v : del[v][c]) = Sum(f, Validators)
      BY SharesOfSum
    <3> HIDE DEF f
    <3>3. Sum(f, Validators) \in Nat
      BY <3>1, SetsFinite, SumNat
    <3>4. NewDecFromInt(total[c]) = 0
      BY <2>2, PrecisionAssumption DEF NewDecFromInt
    <3> QED BY <3>2, <3>3, <3>4
  <2> QED BY <2>1, <2>2, <2>3, <2>4 DEF BackedInv, CapTotals, AtPar
<1>2. BackedInv /\ [GenesisNext]_genesisVars => BackedInv'
  <2> SUFFICES ASSUME BackedInv, [GenesisNext]_genesisVars PROVE BackedInv'
    OBVIOUS
  <2>1. CASE [Next]_vars
    BY <2>1, BackedStep
  <2>2. CASE RestartFromGenesis
    <3>1. StakeInv
      BY BackedFacts
    <3>2. /\ StakeInv' /\ val' = val /\ del' = del /\ slashed' = slashed
          /\ \A c \in Contracts : total'[c] = 0
      BY <2>2, <3>1, RestartStep
    <3> QED BY <3>2, BackedUnchanged
  <2> QED BY <2>1, <2>2 DEF GenesisNext, genesisVars
<1>3. BackedInv => UnslashedTotalIsBacked
  BY DEF BackedInv
<1> QED BY <1>1, <1>2, <1>3, PTL DEF GenesisSpec
=============================================================================
