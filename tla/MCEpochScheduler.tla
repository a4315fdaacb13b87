-------------------------- MODULE MCEpochScheduler --------------------------
\* Small instances of EpochScheduler for TLC.
EXTENDS EpochSchedulerClock

MCContracts == {1, 2}
MCAccounts == {"gov", "someone"}
MCDenoms == {"stake", "other"}
MCCapAmounts == {0, 1, 2}
=============================================================================
