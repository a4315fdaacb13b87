--------------------------- MODULE EpochScheduler ---------------------------
(***************************************************************************)
(* Max caps and the regular rebalance of virtual staking contracts.        *)
(*                                                                         *)
(* Governance sets a max cap per contract (keeper/msg_server.go); the same *)
(* handler keeps the HandleEpoch tasks of that contract in the scheduler,  *)
(* and the end blocker (abci.go) runs the tasks that are due, one after    *)
(* the other, each in a cached context of its own.                         *)
(*                                                                         *)
(* A block is: phase "deliver" (transactions, and the end blockers that    *)
(* come before mesh-security, governance among them), then phase           *)
(* "endblock" (the HandleEpoch half of the mesh-security end blocker),     *)
(* then commit.  ValsetUpdate tasks are the subject of ValsetUpdates.tla.  *)
(***************************************************************************)
EXTENDS Integers, Sequences, FiniteSets, FiniteSetsExt, SchedulerStore

CONSTANTS
    Contracts,             \* contract addresses, naturals in byte order
    Accounts,              \* signers of a MsgSetVirtualStakingMaxCap
    Authority,             \* the keeper's authority, the gov module account
    Denoms, BondDenom,
    CapAmounts,            \* the amounts proposals ask for
    TotalContractsMaxCap,  \* Params.TotalContractsMaxCap
    EpochLength,           \* Params.EpochLength
    MaxHeight              \* bound: the last block that is only started

\* Params.ValidateBasic rejects an epoch length of zero and a negative coin.
ASSUME ParamsAssumption ==
    /\ EpochLength \in Nat \ {0}
    /\ TotalContractsMaxCap \in Nat

ASSUME ConstantsAssumption ==
    /\ Contracts \subseteq Nat /\ IsFiniteSet(Contracts)
    /\ CapAmounts \subseteq Nat
    /\ MaxHeight \in Nat

VARIABLES
    height,    \* block height
    phase,     \* "deliver" or "endblock"
    deployed,  \* contracts x/wasm knows (external)
    capSet,    \* contracts with a max cap entry in the store
    maxCap,    \* GetMaxCapLimit: 0 when there is no entry
    tasks,     \* the scheduler store
    due,       \* what the iterator of ExecScheduledTasks has still to visit
    calls,     \* history: the callbacks of this end blocker, in order
    recapped   \* history: contracts whose positive cap was set in this block

vars == <<height, phase, deployed, capSet, maxCap, tasks, due, calls, recapped>>

Msgs == [authority : Accounts, contract : Contracts,
         denom : Denoms, amount : CapAmounts]

Calls == [contract : Contracts, ok : BOOLEAN]

Called == {calls[i].contract : i \in 1..Len(calls)}

TypeOK ==
    /\ height \in Nat
    /\ phase \in {"deliver", "endblock"}
    /\ deployed \subseteq Contracts
    /\ capSet \subseteq Contracts
    /\ maxCap \in [Contracts -> Nat]
    /\ tasks \subseteq Tasks(Contracts)
    /\ due \subseteq Tasks(Contracts)
    /\ calls \in Seq(Calls)
    /\ recapped \subseteq Contracts

-----------------------------------------------------------------------------
\* Genesis holds parameters only: no caps, no tasks.
Init ==
    /\ height = 1
    /\ phase = "deliver"
    /\ deployed = {}
    /\ capSet = {}
    /\ maxCap = [c \in Contracts |-> 0]
    /\ tasks = {}
    /\ due = {}
    /\ calls = <<>>
    /\ recapped = {}

\* x/wasm instantiates a contract (external).
Instantiate(c) ==
    /\ phase = "deliver"
    /\ c \notin deployed
    /\ deployed' = deployed \cup {c}
    /\ UNCHANGED <<height, phase, capSet, maxCap, tasks, due, calls, recapped>>

\* The caps of all contracts but c, added up.
CapsOfOthers(c) == MapThenSumSet(LAMBDA x : maxCap[x], capSet \ {c})

\* Mutated forms of WithinTotal and RebalanceTasks.
M_WithinTotal(c, amount) == amount <= TotalContractsMaxCap

M_RebalanceKeepOneShot(c, amount) ==
    IF ~HasScheduledTask(tasks, "HandleEpoch", c, TRUE)
    THEN ScheduleRepeatingTask(tasks, "HandleEpoch", c, height + EpochLength)
    ELSE IF amount = 0 THEN DeleteAllScheduledTasks(tasks, "HandleEpoch", c)
    ELSE ScheduleOneShotTask(tasks, "HandleEpoch", c, height)

M_RebalanceAnyTask(c, amount) ==
    IF ContractTasks(tasks, "HandleEpoch", c) = {}
    THEN ScheduleRepeatingTask(tasks, "HandleEpoch", c, height + EpochLength)
    ELSE ScheduleOneShotTask(
           IF amount = 0
           THEN DeleteAllScheduledTasks(tasks, "HandleEpoch", c)
           ELSE tasks,
           "HandleEpoch", c, height)

M_RebalanceUndefinedType(c, amount) ==
    ScheduleRepeatingTask(tasks, "Undefined", c, height + EpochLength)

M_RebalancePostponed(c, amount) ==
    ScheduleRepeatingTask(
        DeleteAllScheduledTasks(tasks, "HandleEpoch", c),
        "HandleEpoch", c, height + EpochLength)

\* The check of SetMaxCapLimit.
WithinTotal(c, amount) == CapsOfOthers(c) + amount <= TotalContractsMaxCap

\* What SetVirtualStakingMaxCap leaves in the scheduler: a first regular
\* rebalance if there is none; else a one-shot rebalance in this block, all
\* other tasks of the contract being deleted first when the new cap is 0.
RebalanceTasks(c, amount) ==
    IF ~HasScheduledTask(tasks, "HandleEpoch", c, TRUE)
    THEN ScheduleRepeatingTask(tasks, "HandleEpoch", c, height + EpochLength)
    ELSE ScheduleOneShotTask(
           IF amount = 0
           THEN DeleteAllScheduledTasks(tasks, "HandleEpoch", c)
           ELSE tasks,
           "HandleEpoch", c, height)

M_SchedulingAllowed(c) == TRUE

\* ScheduleRegularRebalanceTask fails for an address without contract info.
\* The heights both schedule functions are called with are never in the past.
SchedulingAllowed(c) ==
    HasScheduledTask(tasks, "HandleEpoch", c, TRUE) \/ c \in deployed

\* SetVirtualStakingMaxCap.  Every error rolls the message back (governance
\* runs it in a cached context), so a failing message changes nothing.
SetVirtualStakingMaxCap(msg) ==
    /\ phase = "deliver"
    /\ msg.authority = Authority
    /\ msg.denom = BondDenom
    /\ WithinTotal(msg.contract, msg.amount)
    /\ SchedulingAllowed(msg.contract)
    /\ capSet' = capSet \cup {msg.contract}
    /\ maxCap' = [maxCap EXCEPT ![msg.contract] = msg.amount]
    /\ tasks' = RebalanceTasks(msg.contract, msg.amount)
    /\ recapped' = IF maxCap[msg.contract] > 0
                   THEN recapped \cup {msg.contract}
                   ELSE recapped
    /\ UNCHANGED <<height, phase, deployed, due, calls>>

\* The end blocker of mesh-security opens the iterator over the HandleEpoch
\* tasks up to the current height.  It sees the store as it is now.
EndBlockerStart ==
    /\ phase = "deliver"
    /\ height < MaxHeight
    /\ phase' = "endblock"
    /\ due' = DueTasks(tasks, "HandleEpoch", height)
    /\ UNCHANGED <<height, deployed, capSet, maxCap, tasks, calls, recapped>>

M_StoreAfter(t) ==
    IF t.repeat
    THEN ScheduleRepeatingTask(tasks, t.tp, t.contract, height + EpochLength)
    ELSE deleteScheduledTask(tasks, t.tp, t.contract, t.height)

M_StoreAfterFailure(t) ==
    deleteScheduledTask(tasks, t.tp, t.contract, t.height)

StoreAfter(t) == AfterExec(tasks, t, height, EpochLength)

\* ExecScheduledTasks for one task.  The sudo call may fail (an error, a
\* panic, out of gas): its writes are dropped, what the scheduler does is not.
ExecTask(t, ok) ==
    /\ phase = "endblock"
    /\ t \in due
    /\ \A u \in due \ {t} : KeyBefore(t, u)
    /\ ok => t.contract \in deployed
    /\ tasks' = StoreAfter(t)
    /\ due' = due \ {t}
    /\ calls' = Append(calls, [contract |-> t.contract, ok |-> ok])
    /\ UNCHANGED <<height, phase, deployed, capSet, maxCap, recapped>>

Commit ==
    /\ phase = "endblock"
    /\ due = {}
    /\ height' = height + 1
    /\ phase' = "deliver"
    /\ calls' = <<>>
    /\ recapped' = {}
    /\ UNCHANGED <<deployed, capSet, maxCap, tasks, due>>

Next ==
    \/ \E c \in Contracts : Instantiate(c)
    \/ \E msg \in Msgs : SetVirtualStakingMaxCap(msg)
    \/ EndBlockerStart
    \/ \E t \in due, ok \in BOOLEAN : ExecTask(t, ok)
    \/ Commit

Spec == Init /\ [][Next]_vars

\* Consensus keeps producing blocks and the end blocker runs to its end.
\* Nothing makes anybody send a message.
BlockProduction ==
    /\ WF_vars(EndBlockerStart)
    /\ WF_vars(\E t \in due, ok \in BOOLEAN : ExecTask(t, ok))
    /\ WF_vars(Commit)

FairSpec == Spec /\ BlockProduction

-----------------------------------------------------------------------------
Repeating(c) == {t \in ContractTasks(tasks, "HandleEpoch", c) : t.repeat}

\* A contract with a positive cap always has exactly one repeating rebalance
\* in the store, and it is due within one epoch: neither a cap update, nor a
\* failing callback, nor switching the cap off and on within a block loses or
\* doubles it (msg_server.go SetVirtualStakingMaxCap, ExecScheduledTasks).
EnabledHasOneRegularRebalance ==
    \A c \in Contracts :
        maxCap[c] > 0 =>
            \E t \in Repeating(c) :
                /\ Repeating(c) = {t}
                /\ height <= t.height
                /\ t.height <= height + EpochLength

\* The end blocker calls a contract's HandleEpoch at most once per block,
\* whatever one-shot and repeating tasks have piled up for it.
AtMostOneCallbackPerBlock ==
    \A i, j \in 1..Len(calls) :
        calls[i].contract = calls[j].contract => i = j

\* A contract whose positive cap was changed in this block (cut to zero
\* included) has been called back when the end blocker is done: the "last
\* rebalance callback to let the contract do undelegates" is never lost.
CapChangeIsRebalanced ==
    phase = "endblock" /\ due = {} => recapped \subseteq Called

\* When a block starts no task is left from an earlier block.
NoOverdueTask == phase = "deliver" => \A t \in tasks : t.height >= height

\* Only deployed contracts have a cap, and with it the permission to stake,
\* and only they are called back (HasContractInfo in
\* ScheduleRegularRebalanceTask runs after the cap was written).
OnlyContractsRegistered ==
    /\ capSet \subseteq deployed
    /\ \A t \in tasks : t.contract \in deployed

\* The caps of all contracts stay within Params.TotalContractsMaxCap, in
\* whatever order contracts are raised and lowered (SetMaxCapLimit).
TotalCapRespected ==
    MapThenSumSet(LAMBDA x : maxCap[x], Contracts) <= TotalContractsMaxCap

\* A regular rebalance is never moved or dropped before it is due, except by
\* a cap of zero; when it is due its successor is one epoch away.  So a
\* stream of cap updates can not postpone it.
RebalanceNotPostponed ==
    [][\A t \in tasks :
          t.repeat /\ t \notin tasks' =>
              \/ maxCap'[t.contract] = 0
              \/ /\ t.height <= height
                 /\ \E u \in tasks' : /\ u.contract = t.contract /\ u.repeat
                                      /\ u.height = height + EpochLength]_vars

\* Under block production a contract with a positive cap is called back, or
\* loses its cap (MaxHeight only cuts the horizon).
EnabledIsRebalanced ==
    \A c \in Contracts :
        (maxCap[c] > 0 /\ height + EpochLength < MaxHeight)
            ~> (c \in Called \/ maxCap[c] = 0)

\* "no need to run regular rebalances with a new limit of 0"
\* (msg_server.go:51): a contract whose cap was set to zero has no repeating
\* task left.
ZeroCapHasNoRegularRebalance ==
    \A c \in capSet : maxCap[c] = 0 => Repeating(c) = {}
=============================================================================
