---------------------------- MODULE MCSlashShare ----------------------------
\* Small instance of SlashShare for TLC.
EXTENDS SlashShare

MCContracts == {1, 2}
MCOthers == {3}
MCShareAmounts == {0, 7, 30}
MCSlashAmounts == {3, 8}
=============================================================================
