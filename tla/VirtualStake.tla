---------------------------- MODULE VirtualStake ----------------------------
(***************************************************************************)
(* Virtual staking: a contract with a max cap delegates tokens that are    *)
(* minted for it and gets them burned when it undelegates.                 *)
(*                                                                         *)
(* keeper/stake.go Delegate and Undelegate, the staking adapter            *)
(* (keeper/adapter.go InstantUndelegate) and the message handlers that     *)
(* guard them (keeper/handler_plugin.go), over the parts of x/bank and     *)
(* x/staking they use: balances, the two staking pools, validators with    *)
(* tokens and shares, delegations.  x/bank and x/staking are external.     *)
(***************************************************************************)
EXTENDS Integers, FiniteSets, FiniteSetsExt, Dec

CONSTANTS
    Contracts,
    Others,          \* delegators that are no virtual staking contracts
    Validators,
    Amounts,         \* amounts in messages, zero included
    Denoms, BondDenom,
    CapAmounts,
    TotalContractsMaxCap,
    InitialStake,    \* tokens Others have on each validator at the start
    InitialLiquid,   \* tokens every account owns besides
    SlashAmounts,
    MaxSlashed,      \* bound on the tokens all slashes burn
    CallerReverts    \* the caller drops all writes of a failed Delegate

ASSUME ConstantsAssumption ==
    /\ IsFiniteSet(Contracts) /\ IsFiniteSet(Others) /\ IsFiniteSet(Validators)
    /\ Contracts \cap Others = {}
    /\ (Contracts \cup Others) \cap {"mesh", "bonded", "notBonded"} = {}
    /\ Amounts \subseteq Nat /\ CapAmounts \subseteq Nat
    /\ SlashAmounts \subseteq Nat /\ TotalContractsMaxCap \in Nat
    /\ BondDenom \in Denoms
    /\ InitialStake \in Nat /\ InitialLiquid \in Nat /\ MaxSlashed \in Nat
    /\ CallerReverts \in BOOLEAN

Holders == Contracts \cup Others
Pools == {"bonded", "notBonded"}     \* module accounts of x/staking
Mesh == "mesh"                      \* module account of mesh-security
Accounts == Holders \cup Pools \cup {Mesh}
Statuses == {"absent", "unbonded", "unbonding", "bonded"}
Coins == [denom : Denoms, amount : Amounts]

VARIABLES
    capSet,    \* contracts with a max cap entry
    maxCap,    \* GetMaxCapLimit
    total,     \* GetTotalDelegated
    val,       \* validators: status, tokens, shares
    del,       \* shares of each holder on each validator
    bal,       \* bank balances
    offset,    \* sum of all AddSupplyOffset calls
    slashed    \* history: tokens burned by slashes

vars == <<capSet, maxCap, total, val, del, bal, offset, slashed>>

TypeOK ==
    /\ capSet \subseteq Contracts
    /\ maxCap \in [Contracts -> Nat]
    /\ total \in [Contracts -> Nat]
    /\ val \in [Validators -> [status : Statuses, tokens : Nat, shares : Nat]]
    /\ del \in [Validators -> [Holders -> Nat]]
    /\ bal \in [Accounts -> Nat]
    /\ offset \in Int
    /\ slashed \in 0..MaxSlashed

SumOver(S, f(_)) == MapThenSumSet(f, S)

-----------------------------------------------------------------------------
(* x/bank: balances b after a call.  Mint and burn are those of the        *)
(* mesh-security module account.                                           *)

MintCoins(b, amt) == [b EXCEPT ![Mesh] = @ + amt]
BurnCoins(b, amt) == [b EXCEPT ![Mesh] = @ - amt]
SendCoins(b, from, to, amt) ==
    IF from = to THEN b ELSE [b EXCEPT ![from] = @ - amt, ![to] = @ + amt]

-----------------------------------------------------------------------------
(* x/staking                                                               *)

Exists(v) == val[v].status # "absent"

PoolOf(v) == IF val[v].status = "bonded" THEN "bonded" ELSE "notBonded"

\* Shares without tokens: x/staking refuses new delegations.
InvalidExRate(v) == val[v].tokens = 0 /\ val[v].shares > 0

SharesFromTokens(v, amt) == QuoInt(MulInt(val[v].shares, amt), val[v].tokens)

SharesFromTokensTruncated(v, amt) ==
    QuoTruncate(MulInt(val[v].shares, amt), NewDecFromInt(val[v].tokens))

TokensFromShares(v, s) == Quo(MulInt(s, val[v].tokens), val[v].shares)

IssuedShares(v, amt) ==
    IF val[v].shares = 0 THEN NewDecFromInt(amt) ELSE SharesFromTokens(v, amt)

\* The delegation part of x/staking Delegate: the coins have left the holder.
AddDelegation(v, holder, amt) ==
    /\ val' = [val EXCEPT ![v].tokens = @ + amt,
                          ![v].shares = @ + IssuedShares(v, amt)]
    /\ del' = [del EXCEPT ![v][holder] = @ + IssuedShares(v, amt)]

\* ValidateUnbondAmount: the shares to unbond for amt tokens.
CanUnbond(v, holder, amt) ==
    /\ Exists(v)
    /\ del[v][holder] > 0
    /\ val[v].tokens > 0
    /\ SharesFromTokensTruncated(v, amt) <= del[v][holder]

UnbondShares(v, holder, amt) ==
    LET s == SharesFromTokens(v, amt)
    IN  IF s > del[v][holder] THEN del[v][holder] ELSE s

\* The tokens Unbond returns; who takes the last share takes all tokens.
UnbondReturn(v, s) ==
    IF s = val[v].shares THEN val[v].tokens
    ELSE TruncateInt(TokensFromShares(v, s))

\* Unbond; an unbonded validator without shares is removed.
RemoveDelegation(v, holder, s) ==
    LET left == val[v].shares - s
    IN  /\ del' = [del EXCEPT ![v][holder] = @ - s]
        /\ val' = [val EXCEPT ![v] =
                     IF left = 0 /\ @.status = "unbonded"
                     THEN [status |-> "absent", tokens |-> 0, shares |-> 0]
                     ELSE [@ EXCEPT !.tokens = val[v].tokens - UnbondReturn(v, s),
                                    !.shares = left]]

\* All tokens of the validators that keep them in pool p.
TokensIn(p) ==
    SumOver({v \in Validators : PoolOf(v) = p}, LAMBDA v : val[v].tokens)

-----------------------------------------------------------------------------
Init ==
    /\ capSet = {}
    /\ maxCap = [c \in Contracts |-> 0]
    /\ total = [c \in Contracts |-> 0]
    /\ val \in [Validators -> [status : Statuses \ {"absent", "unbonding"},
                               tokens : {InitialStake},
                               shares : {NewDecFromInt(InitialStake)}]]
    /\ del \in [Validators -> [Holders -> {0, NewDecFromInt(InitialStake)}]]
    /\ \A v \in Validators :
          \E o \in Others : \A h \in Holders : del[v][h] > 0 <=> h = o
    /\ bal = [a \in Accounts |->
                CASE a \in Holders -> InitialLiquid
                  [] a \in Pools -> TokensIn(a)
                  [] a = Mesh -> 0]
    /\ offset = 0
    /\ slashed = 0

\* Governance; the HandleEpoch tasks are in EpochScheduler.tla.
SetMaxCapLimit(c, amount) ==
    /\ SumOver(capSet \ {c}, LAMBDA x : maxCap[x]) + amount
          <= TotalContractsMaxCap
    /\ capSet' = capSet \cup {c}
    /\ maxCap' = [maxCap EXCEPT ![c] = amount]
    /\ UNCHANGED <<total, val, del, bal, offset, slashed>>

\* IsAuthorized of the default CustomMsgHandler: any cap, zero included.
Authorized(c) == c \in capSet

\* NewIntegrityHandler: staking and stargate messages of a contract with a max
\* cap entry are rejected, everything else goes on to the next handler.
IntegrityHandler(c, kind) ==
    IF kind = "staking" /\ c \in capSet THEN "rejected" ELSE "unknown"

\* The handlers of wasmd know no custom messages (external).
NestedHandler(c, kind) == IF kind = "custom" THEN "unknown" ELSE "handled"

\* CustomMsgHandler: a virtual stake message, if the contract may send one.
CustomMsgHandler(c, kind) ==
    CASE kind # "custom" -> "unknown"
      [] kind = "custom" /\ Authorized(c) -> "handled"
      [] OTHER -> "rejected"

M_MessageHandlerChain(c, kind) ==
    <<NestedHandler(c, kind), IntegrityHandler(c, kind),
      CustomMsgHandler(c, kind)>>

\* The order the application puts them in.
MessageHandlerChain(c, kind) ==
    <<IntegrityHandler(c, kind), NestedHandler(c, kind),
      CustomMsgHandler(c, kind)>>

\* A message goes down the chain to the first handler that knows it.
Dispatched(c, kind) ==
    LET answers == MessageHandlerChain(c, kind)
    IN  \E i \in DOMAIN answers :
            /\ answers[i] = "handled"
            /\ \A j \in 1..(i - 1) : answers[j] = "unknown"

M_MayStake(h) == TRUE

\* Who may send a staking message: contracts through the message handlers,
\* other accounts in a transaction of their own.
MayStake(h) == h \in Contracts => Dispatched(h, "staking")

\* Checks of Delegate before it touches the bank.
DelegateAllowed(c, v, amt) ==
    /\ amt > 0 /\ Exists(v)
    /\ total[c] + amt <= maxCap[c]

M_DelegateTotal(c, amt) == [total EXCEPT ![c] = amt]

DelegateTotal(c, amt) == [total EXCEPT ![c] = @ + amt]

\* The virtual coins are minted to the module and sent to the contract.
DelegateFunds(c, amt) == SendCoins(MintCoins(bal, amt), Mesh, c, amt)

\* A Delegate that x/staking accepts: the contract gets the minted coins
\* and x/staking takes them from there.
Delegate(c, v, amt) ==
    /\ DelegateAllowed(c, v, amt)
    /\ ~InvalidExRate(v)
    /\ AddDelegation(v, c, amt)
    /\ bal' = SendCoins(DelegateFunds(c, amt), c, PoolOf(v), amt)
    /\ offset' = offset - amt
    /\ total' = DelegateTotal(c, amt)
    /\ UNCHANGED <<capSet, maxCap, slashed>>

\* A Delegate that x/staking refuses.  The error of Staking.Delegate is
\* returned, but only after the new total was stored and the cached context
\* written: the minted coins stay with the contract unless the caller drops
\* the writes (wasmd does, for every message that fails).
DelegateFails(c, v, amt) ==
    /\ DelegateAllowed(c, v, amt)
    /\ InvalidExRate(v)
    /\ IF CallerReverts
       THEN UNCHANGED <<total, bal, offset>>
       ELSE /\ total' = DelegateTotal(c, amt)
            /\ bal' = DelegateFunds(c, amt)
            /\ offset' = offset - amt
    /\ UNCHANGED <<capSet, maxCap, val, del, slashed>>

M_UndelegatePool(v) == "bonded"

\* The pool InstantUndelegate takes the coins from: the status is the one
\* before Unbond.
UndelegatePool(v) == PoolOf(v)

\* Balances after InstantUndelegate: no unbonding time, no unbonding entry.
InstantUndelegate(c, v, returned) ==
    SendCoins(bal, UndelegatePool(v), c, returned)

M_Released(amt, returned) == amt

\* What is burned and taken off the total: what x/staking returned, not what
\* was asked for.
Released(amt, returned) == returned

M_OffsetAfterUndelegate(amt, burned) == offset + amt

OffsetAfterUndelegate(amt, burned) == offset + burned

M_UndelegateShares(c, v, amt) == del[v][c]

\* The shares handed to InstantUndelegate.
UndelegateShares(c, v, amt) == UnbondShares(v, c, amt)

\* Undelegate.  Without a delegation it succeeds and does nothing;
\* a total below the burned amount would panic in Coin.Sub.
Undelegate(c, v, amt) ==
    /\ amt > 0
    /\ amt <= total[c]
    /\ CanUnbond(v, c, amt)
    /\ LET s == UndelegateShares(c, v, amt)
           returned == UnbondReturn(v, s)
           burned == Released(amt, returned)
       IN  /\ burned <= total[c]
           /\ RemoveDelegation(v, c, s)
           /\ bal' = BurnCoins(
                       SendCoins(InstantUndelegate(c, v, returned),
                                 c, Mesh, burned),
                       burned)
           /\ offset' = OffsetAfterUndelegate(amt, burned)
           /\ total' = [total EXCEPT ![c] = @ - burned]
    /\ UNCHANGED <<capSet, maxCap, slashed>>

handleBondMsg(c, v, coin) ==
    /\ coin.denom = BondDenom
    /\ Delegate(c, v, coin.amount) \/ DelegateFails(c, v, coin.amount)

handleUnbondMsg(c, v, coin) ==
    /\ coin.denom = BondDenom
    /\ Undelegate(c, v, coin.amount)

\* A custom message of a contract.  Where it ends with an error, wasmd drops
\* whatever it wrote.
DispatchMsg(c, v, coin) ==
    /\ Dispatched(c, "custom")
    /\ handleBondMsg(c, v, coin) \/ handleUnbondMsg(c, v, coin)

-----------------------------------------------------------------------------
\* A staking message: delegate liquid tokens.
StakingDelegate(h, v, amt) ==
    /\ MayStake(h)
    /\ Exists(v) /\ amt > 0 /\ bal[h] >= amt
    /\ ~InvalidExRate(v)
    /\ AddDelegation(v, h, amt)
    /\ bal' = SendCoins(bal, h, PoolOf(v), amt)
    /\ UNCHANGED <<capSet, maxCap, total, offset, slashed>>

\* A staking message: undelegate.  The unbonding time is left out, the
\* tokens are liquid at once.
StakingUndelegate(h, v, amt) ==
    /\ MayStake(h)
    /\ amt > 0
    /\ CanUnbond(v, h, amt)
    /\ LET s == UnbondShares(v, h, amt)
           returned == UnbondReturn(v, s)
       IN  /\ RemoveDelegation(v, h, s)
           /\ bal' = SendCoins(bal, PoolOf(v), h, returned)
    /\ UNCHANGED <<capSet, maxCap, total, offset, slashed>>

\* x/staking Slash: tokens are burned, shares stay.
Slash(v, amount) ==
    LET burned == IF amount > val[v].tokens THEN val[v].tokens ELSE amount
    IN  /\ slashed + burned <= MaxSlashed
        /\ val[v].status \in {"bonded", "unbonding"}
        /\ val' = [val EXCEPT ![v].tokens = @ - burned]
        /\ bal' = [bal EXCEPT ![PoolOf(v)] = @ - burned]
        /\ slashed' = slashed + burned
        /\ UNCHANGED <<capSet, maxCap, total, del, offset>>

\* The end blocker of x/staking moves a validator to its next status, and
\* its tokens to the other pool; a mature validator without shares goes.
ChangeStatus(v, status) ==
    LET gone == status = "unbonded" /\ val[v].shares = 0
        from == PoolOf(v)
        to   == IF status = "bonded" THEN "bonded" ELSE "notBonded"
    IN  /\ <<val[v].status, status>> \in
             {<<"bonded", "unbonding">>, <<"unbonding", "unbonded">>,
              <<"unbonding", "bonded">>, <<"unbonded", "bonded">>}
        /\ status = "bonded" => val[v].tokens > 0
        /\ val' = [val EXCEPT ![v].status = IF gone THEN "absent" ELSE status]
        /\ bal' = SendCoins(bal, from, to, val[v].tokens)
        /\ UNCHANGED <<capSet, maxCap, total, del, offset, slashed>>

Next ==
    \/ \E c \in Contracts, amount \in CapAmounts : SetMaxCapLimit(c, amount)
    \/ \E c \in Contracts, v \in Validators, coin \in Coins :
          DispatchMsg(c, v, coin)
    \/ \E h \in Holders, v \in Validators, amt \in Amounts :
          StakingDelegate(h, v, amt) \/ StakingUndelegate(h, v, amt)
    \/ \E v \in Validators, amount \in SlashAmounts : Slash(v, amount)
    \/ \E v \in Validators, status \in Statuses : ChangeStatus(v, status)

Spec == Init /\ [][Next]_vars

-----------------------------------------------------------------------------
\* The totals of all contracts are exactly the virtual tokens minted and not
\* yet burned, as the supply offset has them: truncation on the way in and
\* out, slashes in between and failing messages never let the two drift apart.
TotalsMatchSupplyOffset == SumOver(Contracts, LAMBDA c : total[c]) = -offset

\* Virtual tokens never become liquid: from the time a contract has a max cap
\* entry its balance does not change, and nothing stays with the module.
VirtualNeverLiquid ==
    [][bal'[Mesh] = 0 /\ \A c \in capSet : bal'[c] = bal[c]]_vars

\* The staking pools hold exactly the tokens of their validators: an instant
\* undelegate pays from the pool the validator's tokens are in.
PoolsBacked ==
    \A p \in Pools : bal[p] = TokensIn(p)

\* The bank's total supply, corrected by the supply offset and by what slashes
\* burned, is what it was at the start: every mint and every burn of virtual
\* tokens is matched by an AddSupplyOffset of the same amount.
SupplyConserved ==
    SumOver(Accounts, LAMBDA a : bal[a]) + offset + slashed
        = Cardinality(Holders) * InitialLiquid
            + Cardinality(Validators) * InitialStake

\* An undelegate never burns more than the contract asked for, and so never
\* more than its total: the subtraction of the total can not panic, and a
\* contract can not be made to release stake it did not name.
NeverBurnsMoreThanAsked ==
    \A c \in Contracts, v \in Validators, amt \in Amounts \ {0} :
        CanUnbond(v, c, amt) =>
            UnbondReturn(v, UndelegateShares(c, v, amt)) <= amt

\* The tests of Delegate expect no delegation, no change of the supply and no
\* supply offset after an error (keeper/stake_test.go:110-129): a step that
\* leaves all delegations alone leaves the supply offset alone.
FailedDelegateKeepsSupply ==
    [][UNCHANGED <<del, slashed>> => offset' = offset]_vars
=============================================================================
