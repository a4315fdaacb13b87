------------------------- MODULE VirtualStakeLedger -------------------------
\* VirtualStake implements VirtualLedger.
EXTENDS VirtualStake

\* All tokens: on accounts, in the pools, with the module.
TokenSupply == SumOver(Accounts, LAMBDA a : bal[a])

Ledger == INSTANCE VirtualLedger
    WITH cap <- maxCap, used <- total, supply <- TokenSupply,
         Limit <- TotalContractsMaxCap

\* Every message, slash and status change is a mint within the cap, a burn of
\* what was minted, or invisible in the ledger: rounding, the exchange rate of
\* shares and the choice of the pool never create or lose a token, and a cap
\* that was cut below the total stops mints but no burns (keeper/stake.go).
ImplementsLedger == Ledger!Spec
=============================================================================
