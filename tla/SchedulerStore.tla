--------------------------- MODULE SchedulerStore ---------------------------
(***************************************************************************)
(* The task scheduler of x/meshsecurity/keeper/scheduler.go as operators   *)
(* on the content of its KV store.                                         *)
(*                                                                         *)
(* A store entry is a record: the key is <<task type, height, contract>>   *)
(* (types/keys.go), the value the repeat flag.  A store never holds two    *)
(* entries with one key.  A contract address is a natural number, whose    *)
(* order stands for the byte order of the addresses: an iterator of the    *)
(* store runs through the entries of a type by height, then by contract.   *)
(***************************************************************************)
EXTENDS Naturals

\* types.SchedulerTaskType, without the undefined value: every key builder
\* rejects it.
TaskTypes == {"HandleEpoch", "ValsetUpdate"}

\* One entry of the store, for contracts in the set C.
Tasks(C) == [tp : TaskTypes, height : Nat, contract : C, repeat : BOOLEAN]

HasKey(S, tp, h, c) ==
    \E t \in S : t.tp = tp /\ t.height = h /\ t.contract = c

deleteScheduledTask(S, tp, c, h) ==
    {t \in S : ~(t.tp = tp /\ t.height = h /\ t.contract = c)}

\* The tasks of one type and contract that iterateScheduledContractTasks
\* visits when it is given no height limit.
ContractTasks(S, tp, c) == {t \in S : t.tp = tp /\ t.contract = c}

DeleteAllScheduledTasks(S, tp, c) == S \ ContractTasks(S, tp, c)

HasScheduledTask(S, tp, c, repeat) ==
    \E t \in ContractTasks(S, tp, c) : t.repeat = repeat

\* An entry that exists already is kept, with its repeat flag.
ScheduleOneShotTask(S, tp, c, h) ==
    IF HasKey(S, tp, h, c)
    THEN S
    ELSE S \cup {[tp |-> tp, height |-> h, contract |-> c, repeat |-> FALSE]}

\* An entry that exists already is overwritten.
ScheduleRepeatingTask(S, tp, c, h) ==
    deleteScheduledTask(S, tp, c, h)
        \cup {[tp |-> tp, height |-> h, contract |-> c, repeat |-> TRUE]}

\* Mutated form of DueTasks.
M_DueTasks(S, tp, maxHeight) == {t \in S : t.tp = tp /\ t.height < maxHeight}

\* What IterateScheduledTasks visits, up to maxHeight (included).
DueTasks(S, tp, maxHeight) == {t \in S : t.tp = tp /\ t.height <= maxHeight}

\* Key order within one task type.
KeyBefore(a, b) ==
    \/ a.height < b.height
    \/ a.height = b.height /\ a.contract < b.contract

\* The store after ExecScheduledTasks has called back for task t at height
\* now: rescheduling comes first, then the entry just run is deleted.  The
\* outcome of the callback does not matter here.
AfterExec(S, t, now, epochLength) ==
    LET rescheduled ==
          IF t.repeat /\ epochLength # 0
          THEN ScheduleRepeatingTask(S, t.tp, t.contract, now + epochLength)
          ELSE S
    IN  deleteScheduledTask(rescheduled, t.tp, t.contract, t.height)
=============================================================================
