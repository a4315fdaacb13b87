------------------------ MODULE EpochSchedulerClock ------------------------
(***************************************************************************)
(* EpochScheduler implements RebalanceClock: the clock of a contract is    *)
(* its repeating task, and it is owed a strike while any task of it is due *)
(* in the current block.                                                   *)
(***************************************************************************)
EXTENDS EpochScheduler

ClockNext ==
    [c \in Contracts |->
       IF Repeating(c) = {} THEN 0
       ELSE (CHOOSE t \in Repeating(c) : TRUE).height]

ClockOwed ==
    {c \in Contracts : DueTasks(ContractTasks(tasks, "HandleEpoch", c),
                                "HandleEpoch", height) # {}}

Clock == INSTANCE RebalanceClock
           WITH Clocks <- Contracts, Epoch <- EpochLength, Horizon <- MaxHeight,
                now <- height, next <- ClockNext, owed <- ClockOwed,
                called <- Called

\* Cap messages, one-shot and repeating tasks, failing callbacks and the order
\* of the end blocker (msg_server.go, scheduler.go, abci.go) behave like one
\* clock per contract, in safety and in liveness.
ImplementsClock == Clock!FairSpec
=============================================================================
