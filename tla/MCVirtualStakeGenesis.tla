------------------------ MODULE MCVirtualStakeGenesis ------------------------
\* Small instances of VirtualStakeGenesis for TLC.
EXTENDS VirtualStakeGenesis, TLC

CONSTANTS c1, c2, other, v1, v2

MCContracts == {c1, c2}
MCOthers == {other}
MCValidators == {v1, v2}
MCDenoms == {"stake"}
MCAmounts == {1}
MCCapAmounts == {0, 1}
MCSlashAmounts == {1}
Symmetry == Permutations(MCContracts) \cup Permutations(MCValidators)
=============================================================================
