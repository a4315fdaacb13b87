----------------------------- MODULE SlashShare -----------------------------
(***************************************************************************)
(* The share of a slash that the end blocker reports to a contract         *)
(* (abci.go:27-64).  A slash takes the same part of every share when it    *)
(* happens; the report splits the slashed amount by the shares it finds    *)
(* when it is built, after the transactions of the block and the callbacks *)
(* of other contracts.                                                     *)
(*                                                                         *)
(* One validator that x/staking keeps all the time; what a delegator does  *)
(* with it is a change of its shares (external).                           *)
(***************************************************************************)
EXTENDS Dec, Sequences, FiniteSets, FiniteSetsExt

CONSTANTS
    Contracts,      \* contracts owed a report, naturals in byte order
    Others,         \* delegators that are no contracts
    ShareAmounts,   \* shares of a delegation, in units of 1/Precision
    SlashAmounts,   \* tokens a slash burns
    MaxSlashes      \* bound: slashes of one block

Delegators == Contracts \cup Others

ASSUME ConstantsAssumption ==
    /\ IsFiniteSet(Contracts) /\ IsFiniteSet(Others)
    /\ Contracts \subseteq Nat /\ Contracts \cap Others = {}
    /\ ShareAmounts \subseteq Nat /\ SlashAmounts \subseteq Nat
    /\ MaxSlashes \in Nat

VARIABLES
    phase,      \* "begin", "tx" or "mesh"
    shares,     \* GetDelegation, zero when there is none
    slashes,    \* the slashes of this block with the shares they hit
    due,        \* contracts whose report is still to be built
    reports     \* what was reported: shares then, slash, amount

vars == <<phase, shares, slashes, due, reports>>

DelegatorShares(s) == MapThenSumSet(LAMBDA d : s[d], Delegators)

Init ==
    /\ phase = "begin"
    /\ shares \in [Delegators -> ShareAmounts]
    /\ slashes = <<>> /\ due = {} /\ reports = {}

\* x/slashing or x/evidence slashes the validator (StakingDecorator.Slash).
Slash(amount) ==
    /\ phase = "begin"
    /\ Len(slashes) < MaxSlashes
    /\ DelegatorShares(shares) > 0
    /\ slashes' = Append(slashes, [amount |-> amount, shares |-> shares])
    /\ UNCHANGED <<phase, shares, due, reports>>

BeginBlockDone ==
    /\ phase = "begin"
    /\ phase' = "tx"
    /\ UNCHANGED <<shares, slashes, due, reports>>

\* A transaction delegates or undelegates.
ChangeDelegation(d, amount) ==
    /\ phase = "tx"
    /\ shares' = [shares EXCEPT ![d] = amount]
    /\ UNCHANGED <<phase, slashes, due, reports>>

EndBlockerStart ==
    /\ phase = "tx"
    /\ phase' = "mesh"
    /\ due' = Contracts
    /\ UNCHANGED <<shares, slashes, reports>>

M_Truncated(c, amount) ==
    IF DelegatorShares(shares) = 0 THEN 0
    ELSE TruncateInt(MulInt(Quo(shares[c], DelegatorShares(shares)), amount))

\* The amount for contract c out of a slash: its ratio of the validator's
\* shares, times the total, rounded to an integer.
DelegatorSlashAmount(c, amount) ==
    IF DelegatorShares(shares) = 0 THEN 0
    ELSE RoundInt(MulInt(Quo(shares[c], DelegatorShares(shares)), amount))

\* The report to the next contract in key order.  In its callback the contract
\* may bond or unbond, before the next report is built.
SendValsetUpdate(c, amount) ==
    /\ phase = "mesh"
    /\ c \in due /\ \A d \in due : c <= d
    /\ reports' = reports \cup
         {[contract |-> c, slash |-> slashes[i], then |-> shares,
           amount |-> DelegatorSlashAmount(c, slashes[i].amount)] :
              i \in 1..Len(slashes)}
    /\ shares' = [shares EXCEPT ![c] = amount]
    /\ due' = due \ {c}
    /\ UNCHANGED <<phase, slashes>>

EndBlockerDone ==
    /\ phase = "mesh" /\ due = {}
    /\ phase' = "begin"
    /\ slashes' = <<>> /\ reports' = {}
    /\ UNCHANGED <<shares, due>>

Next ==
    \/ \E amount \in SlashAmounts : Slash(amount)
    \/ BeginBlockDone
    \/ \E d \in Delegators, amount \in ShareAmounts : ChangeDelegation(d, amount)
    \/ EndBlockerStart
    \/ \E c \in due, amount \in ShareAmounts : SendValsetUpdate(c, amount)
    \/ EndBlockerDone

Spec == Init /\ [][Next]_vars

-----------------------------------------------------------------------------
\* Twice Precision^2 times the largest error that rounding the ratio and then
\* the amount makes, per share of the validator.
RoundingError(slash) ==
    Precision * Precision + slash.amount * (Precision + 2)

\* What contract c lost in the slash and what was reported to it, in a common
\* unit; the difference of the two is compared with the rounding error.
Loss(r) == 2 * Precision * Precision * r.slash.shares[r.contract] * r.slash.amount
Claim(r) == 2 * Precision * Precision * r.amount * DelegatorShares(r.slash.shares)
Slack(r) == RoundingError(r.slash) * DelegatorShares(r.slash.shares)

\* A report that errs is off in a known direction: it is more than the contract
\* lost only if after the slash its own shares grew or others left, and less
\* only if its own shares shrank or others came; with the shares of the slash
\* it is the loss, up to rounding, however many slashes the block has.  It is
\* never more than the whole slash, wherever the shares went.
ReportIsLossUpToMoves ==
    \A r \in reports :
        LET own == r.then[r.contract]
            ownAtSlash == r.slash.shares[r.contract]
            all == DelegatorShares(r.then)
            allAtSlash == DelegatorShares(r.slash.shares)
        IN  /\ own <= ownAtSlash /\ all >= allAtSlash
                  => Claim(r) <= Loss(r) + Slack(r)
            /\ own >= ownAtSlash /\ all <= allAtSlash
                  => Claim(r) >= Loss(r) - Slack(r)
            /\ r.amount <= r.slash.amount
=============================================================================
