------------------------- MODULE VirtualStakeGenesis -------------------------
(***************************************************************************)
(* Virtual staking across a restart from an exported genesis.              *)
(*                                                                         *)
(* ExportGenesis of mesh-security writes its parameters and nothing else;  *)
(* x/bank and x/staking export balances, supply offset, validators and     *)
(* delegations in full.  The chain that starts from such a file has the    *)
(* virtual delegations of the contracts, but neither their max caps nor    *)
(* their totals.                                                           *)
(***************************************************************************)
EXTENDS VirtualStake

CONSTANT MaxRestarts     \* bound on the restarts from a genesis

ASSUME RestartsAssumption == MaxRestarts \in Nat

VARIABLE restarts        \* how many there were, for the bound

genesisVars == <<vars, restarts>>

GenesisInit == Init /\ restarts = 0

\* ExportGenesis: the parameters (constants here), no max cap, no total.
ExportGenesis == [capSet |-> {}, maxCap |-> [c \in Contracts |-> 0]]

\* InitGenesis on the empty store of the new chain: a total never set reads 0.
ImportTotals == [c \in Contracts |-> 0]

\* The state is exported and a new chain starts from it.
RestartFromGenesis ==
    /\ restarts < MaxRestarts
    /\ capSet' = ExportGenesis.capSet
    /\ maxCap' = ExportGenesis.maxCap
    /\ total' = ImportTotals
    /\ restarts' = restarts + 1
    /\ UNCHANGED <<val, del, bal, offset, slashed>>

GenesisNext ==
    \/ Next /\ UNCHANGED restarts
    \/ RestartFromGenesis

GenesisSpec == GenesisInit /\ [][GenesisNext]_genesisVars

-----------------------------------------------------------------------------
\* The total of a contract is backed by its own shares for as long as nothing
\* was slashed, over restarts, status changes and other delegators: all of
\* the cap it uses can be freed by undelegating.
UnslashedTotalIsBacked ==
    slashed = 0 =>
        \A c \in Contracts :
            NewDecFromInt(total[c]) <= SumOver(Validators, LAMBDA v : del[v][c])
=============================================================================
