--------------------------- MODULE MCValsetUpdates ---------------------------
\* Small instances of ValsetUpdates for TLC.
EXTENDS ValsetUpdates, TLC

CONSTANTS v1, v2

MCContracts == {1, 2}
MCValidators == {v1, v2}
MCCapAmounts == {0, 1}
MCPowers == {10}
MCInfractionAges == {2}
MCSlashAmounts == {7}
ValidatorSymmetry == Permutations(MCValidators)
=============================================================================
