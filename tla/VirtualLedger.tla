---------------------------- MODULE VirtualLedger ----------------------------
(***************************************************************************)
(* What virtual staking promises, without validators, shares, pools or     *)
(* messages: an account per contract that is filled by minting within a    *)
(* cap and emptied by burning, and a token supply that shows, corrected by *)
(* the supply offset, none of it.                                          *)
(***************************************************************************)
EXTENDS Integers

CONSTANTS
    Contracts,
    Limit       \* of all caps together

VARIABLES
    cap,       \* what each contract may use; set by governance
    used,      \* minted and not burned, per contract
    offset,    \* supply offset: minus all that is minted and not burned
    supply     \* tokens that exist

vars == <<cap, used, offset, supply>>

Init ==
    /\ cap = [c \in Contracts |-> 0]
    /\ used = [c \in Contracts |-> 0]
    /\ offset = 0
    /\ supply \in Nat

\* A cap may be cut below what is used: no more is minted, nothing is burned.
SetCap(c) ==
    /\ \E amount \in 0..Limit : cap' = [cap EXCEPT ![c] = amount]
    /\ UNCHANGED <<used, offset, supply>>

Mint(c) ==
    \E n \in 0..(cap[c] - used[c]) :
        /\ used' = [used EXCEPT ![c] = @ + n]
        /\ offset' = offset - n
        /\ supply' = supply + n
        /\ UNCHANGED cap

Burn(c) ==
    \E n \in 0..used[c] :
        /\ used' = [used EXCEPT ![c] = @ - n]
        /\ offset' = offset + n
        /\ supply' = supply - n
        /\ UNCHANGED cap

\* Slashes burn real and virtual tokens alike and change no account.
Slash ==
    /\ \E n \in 0..supply : supply' = supply - n
    /\ UNCHANGED <<cap, used, offset>>

Next ==
    \/ \E c \in Contracts : SetCap(c) \/ Mint(c) \/ Burn(c)
    \/ Slash

Spec == Init /\ [][Next]_vars
=============================================================================
