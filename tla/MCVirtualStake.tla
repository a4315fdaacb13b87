--------------------------- MODULE MCVirtualStake ---------------------------
\* Small instances of VirtualStake for TLC.
EXTENDS VirtualStakeLedger

CONSTANTS c1, other, v1

MCContracts == {c1}
MCOthers == {other}
MCValidators == {v1}
MCDenoms == {"stake", "other"}
MCAmounts == {0, 1, 2}
MCCapAmounts == {0, 3}
MCSlashAmounts == {1, 3}
=============================================================================
