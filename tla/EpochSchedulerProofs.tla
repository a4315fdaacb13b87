------------------------ MODULE EpochSchedulerProofs ------------------------
(***************************************************************************)
(* The safety properties of EpochScheduler for all contracts, caps, epoch  *)
(* lengths and heights.                                                    *)
(***************************************************************************)
EXTENDS EpochSchedulerClock, Arithmetic, TLAPS

(***************************************************************************)
(* The inductive invariant, in parts.                                      *)
(***************************************************************************)

\* The store has one entry per key, and here only HandleEpoch entries.
StoreOK ==
    /\ \A t \in tasks : t.tp = "HandleEpoch"
    /\ \A t, u \in tasks :
          t.height = u.height /\ t.contract = u.contract => t = u

\* No entry is overdue or further away than an epoch; a one-shot entry is for
\* the current block.
HeightsOK ==
    \A t \in tasks :
        /\ height <= t.height
        /\ t.height <= height + EpochLength
        /\ ~t.repeat => t.height = height

\* At most one repeating entry per contract, and one if its cap is positive.
RepeatingOK ==
    /\ \A t, u \in tasks :
          t.repeat /\ u.repeat /\ t.contract = u.contract => t = u
    /\ \A c \in Contracts :
          maxCap[c] > 0 => \E t \in tasks : t.contract = c /\ t.repeat

\* The iterator's snapshot is, all through the end blocker, what the store
\* still holds for the current height.
IteratorOK ==
    IF phase = "deliver"
    THEN due = {} /\ calls = <<>>
    ELSE due = {t \in tasks : t.height = height}

\* A contract was called once at most, and is not to be called again.
CallsOK ==
    /\ AtMostOneCallbackPerBlock
    /\ \A t \in due : t.contract \notin Called

\* A contract whose positive cap was set has an entry for the current block
\* until it is called.
RecappedOK ==
    \A c \in recapped :
        c \in Called \/ \E t \in tasks : t.contract = c /\ t.height = height

IndInv ==
    /\ TypeOK
    /\ StoreOK
    /\ HeightsOK
    /\ RepeatingOK
    /\ IteratorOK
    /\ CallsOK
    /\ RecappedOK
    /\ OnlyContractsRegistered

-----------------------------------------------------------------------------
(* What the two steps that write the store do to it.                       *)

OneShotAt(c, h) ==
    [tp |-> "HandleEpoch", height |-> h, contract |-> c, repeat |-> FALSE]

RepeatingAt(c, h) ==
    [tp |-> "HandleEpoch", height |-> h, contract |-> c, repeat |-> TRUE]

\* SetVirtualStakingMaxCap adds a repeating entry where there is none, or
\* replaces all entries of the contract by a one-shot one, or makes sure that
\* there is an entry for the current block, and nothing else.
LEMMA CapStore ==
    ASSUME IndInv, NEW c \in Contracts, NEW amount \in Nat
    PROVE  \/ /\ RebalanceTasks(c, amount)
                   = tasks \cup {RepeatingAt(c, height + EpochLength)}
              /\ \A t \in tasks : t.contract = c => ~t.repeat
              /\ maxCap[c] = 0
           \/ /\ RebalanceTasks(c, amount)
                   = {t \in tasks : t.contract # c} \cup {OneShotAt(c, height)}
              /\ amount = 0
              /\ \E t \in tasks : t.contract = c /\ t.repeat
           \/ /\ RebalanceTasks(c, amount) = tasks
              /\ \E t \in tasks : t.contract = c /\ t.height = height
              /\ \E t \in tasks : t.contract = c /\ t.repeat
           \/ /\ RebalanceTasks(c, amount) = tasks \cup {OneShotAt(c, height)}
              /\ \A t \in tasks : t.contract = c => t.height # height
              /\ \E t \in tasks : t.contract = c /\ t.repeat
<1> USE DEF IndInv, TypeOK, Tasks, TaskTypes
<1>1. CASE ~HasScheduledTask(tasks, "HandleEpoch", c, TRUE)
  <2>1. \A t \in tasks : t.contract = c => ~t.repeat
    BY <1>1 DEF HasScheduledTask, ContractTasks, StoreOK
  <2>2. \A t \in tasks :
          ~(t.tp = "HandleEpoch" /\ t.height = height + EpochLength
              /\ t.contract = c)
    BY <2>1, ParamsAssumption DEF HeightsOK
  <2>3. deleteScheduledTask(tasks, "HandleEpoch", c, height + EpochLength)
          = tasks
    BY <2>2 DEF deleteScheduledTask
  <2>4. RebalanceTasks(c, amount)
          = tasks \cup {RepeatingAt(c, height + EpochLength)}
    BY <1>1, <2>3 DEF RebalanceTasks, ScheduleRepeatingTask, RepeatingAt
  <2>5. maxCap[c] = 0
    BY <2>1 DEF RepeatingOK
  <2> QED BY <2>1, <2>4, <2>5
<1>2. CASE HasScheduledTask(tasks, "HandleEpoch", c, TRUE)
  <2>1. PICK r \in tasks : r.contract = c /\ r.repeat
    BY <1>2 DEF HasScheduledTask, ContractTasks
  <2>2. CASE amount = 0
    <3> DEFINE rest == DeleteAllScheduledTasks(tasks, "HandleEpoch", c)
    <3>1. rest = {t \in tasks : t.contract # c}
      BY DEF DeleteAllScheduledTasks, ContractTasks, StoreOK
    <3>2. ~HasKey(rest, "HandleEpoch", height, c)
      BY <3>1 DEF HasKey
    <3>3. RebalanceTasks(c, amount)
            = ScheduleOneShotTask(rest, "HandleEpoch", c, height)
      BY <1>2, <2>2 DEF RebalanceTasks
    <3>4. RebalanceTasks(c, amount) = rest \cup {OneShotAt(c, height)}
      BY <3>2, <3>3 DEF ScheduleOneShotTask, OneShotAt
    <3> QED BY <2>1, <2>2, <3>1, <3>4
  <2>3. CASE amount # 0
    <3>1. RebalanceTasks(c, amount)
            = ScheduleOneShotTask(tasks, "HandleEpoch", c, height)
      BY <1>2, <2>3 DEF RebalanceTasks
    <3>2. CASE HasKey(tasks, "HandleEpoch", height, c)
      BY <2>1, <3>1, <3>2 DEF ScheduleOneShotTask, HasKey
    <3>3. CASE ~HasKey(tasks, "HandleEpoch", height, c)
      <4>1. \A t \in tasks : t.contract = c => t.height # height
        BY <3>3 DEF HasKey, StoreOK
      <4>2. RebalanceTasks(c, amount) = tasks \cup {OneShotAt(c, height)}
        BY <3>1, <3>3 DEF ScheduleOneShotTask, OneShotAt
      <4> QED BY <2>1, <4>1, <4>2
    <3> QED BY <3>2, <3>3
  <2> QED BY <2>2, <2>3
<1> QED BY <1>1, <1>2

\* Running a due task takes it out of the store; a repeating one leaves its
\* successor one epoch away.
LEMMA ExecStore ==
    ASSUME IndInv, phase = "endblock", NEW t \in due
    PROVE  /\ t \in tasks
           /\ t.height = height
           /\ StoreAfter(t) =
                IF t.repeat
                THEN (tasks \ {t})
                       \cup {RepeatingAt(t.contract, height + EpochLength)}
                ELSE tasks \ {t}
<1> USE DEF IndInv, TypeOK, Tasks, TaskTypes
<1>1. t \in tasks /\ t.height = height /\ t.tp = "HandleEpoch"
  BY DEF IteratorOK, StoreOK
<1>2. \A u \in tasks :
        u.tp = t.tp /\ u.height = t.height /\ u.contract = t.contract <=> u = t
  BY <1>1 DEF StoreOK
<1>3. CASE ~t.repeat
  <2>1. StoreAfter(t) = deleteScheduledTask(tasks, t.tp, t.contract, t.height)
    BY <1>3 DEF StoreAfter, AfterExec
  <2>2. deleteScheduledTask(tasks, t.tp, t.contract, t.height) = tasks \ {t}
    BY <1>2 DEF deleteScheduledTask
  <2> QED BY <1>1, <1>3, <2>1, <2>2
<1>4. CASE t.repeat
  <2> DEFINE next == RepeatingAt(t.contract, height + EpochLength)
             full == ScheduleRepeatingTask(tasks, t.tp, t.contract,
                                           height + EpochLength)
  <2>1. \A u \in tasks :
          ~(u.tp = t.tp /\ u.height = height + EpochLength
              /\ u.contract = t.contract)
    <3> SUFFICES ASSUME NEW u \in tasks, u.height = height + EpochLength,
                        u.contract = t.contract
                 PROVE  FALSE
      OBVIOUS
    <3>1. u.height # height
      BY ParamsAssumption
    <3>2. u.repeat
      BY <3>1 DEF HeightsOK
    <3>3. u = t
      BY <1>1, <1>4, <3>2 DEF RepeatingOK
    <3> QED BY <1>1, <3>1, <3>3
  <2>2. full = tasks \cup {next}
    <3>1. deleteScheduledTask(tasks, t.tp, t.contract, height + EpochLength)
            = tasks
      BY <2>1 DEF deleteScheduledTask
    <3> QED BY <1>1, <3>1 DEF ScheduleRepeatingTask, RepeatingAt
  <2>3. StoreAfter(t) = deleteScheduledTask(full, t.tp, t.contract, t.height)
    BY <1>4, ParamsAssumption DEF StoreAfter, AfterExec
  <2>4. next.height # t.height
    BY <1>1, ParamsAssumption DEF RepeatingAt
  <2>5. next # t
    BY <2>4
  <2>6. deleteScheduledTask(full, t.tp, t.contract, t.height)
          = (tasks \ {t}) \cup {next}
    BY <1>2, <2>2, <2>4, <2>5 DEF deleteScheduledTask
  <2> QED BY <1>1, <1>4, <2>3, <2>6
<1> QED BY <1>3, <1>4
-----------------------------------------------------------------------------
(* Every step keeps the invariant.                                         *)

\* The genesis state, without caps and tasks, satisfies the invariant.
LEMMA InitIndInv == Init => IndInv
<1> SUFFICES ASSUME Init PROVE IndInv
  OBVIOUS
<1>1. TypeOK
  BY DEF Init, TypeOK, Tasks
<1>2. StoreOK /\ HeightsOK /\ RepeatingOK /\ IteratorOK /\ RecappedOK
  BY DEF Init, StoreOK, HeightsOK, RepeatingOK, IteratorOK, RecappedOK
<1>3. CallsOK
  BY DEF Init, CallsOK, AtMostOneCallbackPerBlock
<1>4. OnlyContractsRegistered
  BY DEF Init, OnlyContractsRegistered
<1> QED BY <1>1, <1>2, <1>3, <1>4 DEF IndInv

\* A contract x/wasm instantiates has no cap and no task yet.
LEMMA InstantiateIndInv ==
    ASSUME IndInv, NEW c \in Contracts, Instantiate(c)
    PROVE  IndInv'
<1> USE DEF IndInv, Instantiate
<1>1. TypeOK'
  BY DEF TypeOK
<1>2. StoreOK' /\ HeightsOK' /\ RepeatingOK' /\ IteratorOK'
  BY DEF StoreOK, HeightsOK, RepeatingOK, IteratorOK
<1>3. CallsOK' /\ RecappedOK'
  BY DEF CallsOK, RecappedOK, AtMostOneCallbackPerBlock, Called
<1>4. OnlyContractsRegistered'
  BY DEF OnlyContractsRegistered
<1> QED BY <1>1, <1>2, <1>3, <1>4

\* SetVirtualStakingMaxCap keeps the invariant: of the four things it can do
\* to the store (CapStore) none leaves a positive cap without its one
\* repeating entry, or a changed cap without an entry for this block.
LEMMA SetCapIndInv ==
    ASSUME IndInv, NEW msg \in Msgs, SetVirtualStakingMaxCap(msg)
    PROVE  IndInv'
<1> DEFINE c == msg.contract
           amount == msg.amount
<1>1. c \in Contracts /\ amount \in Nat
  BY ConstantsAssumption DEF Msgs
<1> HIDE DEF c, amount
<1>2. /\ phase = "deliver"
      /\ capSet' = capSet \cup {c}
      /\ maxCap' = [maxCap EXCEPT ![c] = amount]
      /\ tasks' = RebalanceTasks(c, amount)
      /\ recapped' = IF maxCap[c] > 0 THEN recapped \cup {c} ELSE recapped
      /\ UNCHANGED <<height, phase, deployed, due, calls>>
      /\ HasScheduledTask(tasks, "HandleEpoch", c, TRUE) \/ c \in deployed
  BY DEF SetVirtualStakingMaxCap, SchedulingAllowed, c, amount
<1> DEFINE rep == RepeatingAt(c, height + EpochLength)
           one == OneShotAt(c, height)
<1>3. /\ rep \in Tasks(Contracts) /\ one \in Tasks(Contracts)
      /\ rep.tp = "HandleEpoch" /\ one.tp = "HandleEpoch"
      /\ rep.contract = c /\ one.contract = c
      /\ rep.height = height + EpochLength /\ one.height = height
      /\ rep.repeat = TRUE /\ one.repeat = FALSE
  BY <1>1, ParamsAssumption
     DEF IndInv, TypeOK, Tasks, TaskTypes, RepeatingAt, OneShotAt
<1>4. \/ /\ tasks' = tasks \cup {rep}
         /\ \A t \in tasks : t.contract = c => ~t.repeat
         /\ maxCap[c] = 0
      \/ /\ tasks' = {t \in tasks : t.contract # c} \cup {one}
         /\ amount = 0
         /\ \E t \in tasks : t.contract = c /\ t.repeat
      \/ /\ tasks' = tasks
         /\ \E t \in tasks : t.contract = c /\ t.height = height
         /\ \E t \in tasks : t.contract = c /\ t.repeat
      \/ /\ tasks' = tasks \cup {one}
         /\ \A t \in tasks : t.contract = c => t.height # height
         /\ \E t \in tasks : t.contract = c /\ t.repeat
  BY <1>1, <1>2, CapStore
<1> HIDE DEF rep, one
<1>5. TypeOK'
  BY <1>1, <1>2, <1>3, <1>4 DEF IndInv, TypeOK
<1>6. StoreOK'
  <2>1. \A t \in tasks' : t.tp = "HandleEpoch"
    BY <1>3, <1>4 DEF IndInv, StoreOK
  <2>2. \A t \in tasks : t.contract = c => t.height # height + EpochLength
                                            \/ t.repeat
    BY ParamsAssumption DEF IndInv, HeightsOK, TypeOK
  <2>3. \A t, u \in tasks' :
          t.height = u.height /\ t.contract = u.contract => t = u
    BY <1>3, <1>4, <2>2 DEF IndInv, StoreOK
  <2> QED BY <2>1, <2>3 DEF StoreOK
<1>7. HeightsOK'
  BY <1>2, <1>3, <1>4, ParamsAssumption DEF IndInv, TypeOK, HeightsOK
<1>8. RepeatingOK'
  <2>1. \A t, u \in tasks' :
          t.repeat /\ u.repeat /\ t.contract = u.contract => t = u
    BY <1>3, <1>4 DEF IndInv, RepeatingOK
  <2>2. ASSUME NEW x \in Contracts, maxCap'[x] > 0
        PROVE  \E t \in tasks' : t.contract = x /\ t.repeat
    <3>1. CASE x = c
      <4>1. amount > 0
        BY <1>1, <1>2, <2>2, <3>1 DEF IndInv, TypeOK
      <4> QED BY <1>1, <1>3, <1>4, <3>1, <4>1
    <3>2. CASE x # c
      <4>1. PICK t \in tasks : t.contract = x /\ t.repeat
        BY <1>2, <2>2, <3>2 DEF IndInv, TypeOK, RepeatingOK
      <4> QED BY <1>4, <3>2, <4>1
    <3> QED BY <3>1, <3>2
  <2> QED BY <2>1, <2>2 DEF RepeatingOK
<1>9. IteratorOK' /\ CallsOK'
  BY <1>2 DEF IndInv, IteratorOK, CallsOK, AtMostOneCallbackPerBlock, Called
<1>10. RecappedOK'
  <2> SUFFICES ASSUME NEW x \in recapped'
               PROVE  x \in Called' \/ \E t \in tasks' :
                         t.contract = x /\ t.height = height'
    BY DEF RecappedOK
  <2>1. Called' = Called /\ height' = height
    BY <1>2 DEF Called
  <2>2. CASE x \in recapped
    <3>1. x \in Called \/ \E t \in tasks : t.contract = x /\ t.height = height
      BY <2>2 DEF IndInv, RecappedOK
    <3> QED BY <1>3, <1>4, <2>1, <3>1
  <2>3. CASE x = c /\ maxCap[c] > 0
    BY <1>1, <1>3, <1>4, <2>1, <2>3
  <2> QED BY <1>2, <2>2, <2>3
<1>11. OnlyContractsRegistered'
  <2>1. c \in deployed
    BY <1>2 DEF IndInv, OnlyContractsRegistered, HasScheduledTask, ContractTasks
  <2> QED BY <1>2, <1>3, <1>4, <2>1 DEF IndInv, OnlyContractsRegistered
<1> QED BY <1>5, <1>6, <1>7, <1>8, <1>9, <1>10, <1>11 DEF IndInv

\* Opening the iterator keeps the invariant: what it is to visit is exactly
\* what the store holds for the current height.
LEMMA EndBlockerStartIndInv ==
    ASSUME IndInv, EndBlockerStart
    PROVE  IndInv'
<1> USE DEF IndInv, EndBlockerStart
<1>1. due' = {t \in tasks : t.height = height}
  BY DEF DueTasks, StoreOK, HeightsOK, TypeOK, Tasks
<1>2. TypeOK'
  BY <1>1 DEF TypeOK
<1>3. StoreOK' /\ HeightsOK' /\ RepeatingOK' /\ IteratorOK'
  BY <1>1 DEF StoreOK, HeightsOK, RepeatingOK, IteratorOK
<1>4. CallsOK'
  <2>1. calls' = <<>>
    BY DEF IteratorOK
  <2> QED BY <2>1 DEF CallsOK, AtMostOneCallbackPerBlock, Called
<1>5. RecappedOK'
  BY DEF RecappedOK, Called
<1>6. OnlyContractsRegistered'
  BY DEF OnlyContractsRegistered
<1> QED BY <1>2, <1>3, <1>4, <1>5, <1>6

\* Running one task of the iterator keeps the invariant, whether or not the
\* callback succeeds.
LEMMA ExecTaskIndInv ==
    ASSUME IndInv, NEW t \in due, NEW ok \in BOOLEAN, ExecTask(t, ok)
    PROVE  IndInv'
<1>1. /\ phase = "endblock"
      /\ tasks' = StoreAfter(t)
      /\ due' = due \ {t}
      /\ calls' = Append(calls, [contract |-> t.contract, ok |-> ok])
      /\ UNCHANGED <<height, phase, deployed, capSet, maxCap, recapped>>
  BY DEF ExecTask
<1> DEFINE next == RepeatingAt(t.contract, height + EpochLength)
<1>2. /\ t \in tasks
      /\ t.height = height
      /\ tasks' = IF t.repeat THEN (tasks \ {t}) \cup {next} ELSE tasks \ {t}
  BY <1>1, ExecStore
<1>3. t \in Tasks(Contracts)
  BY <1>2 DEF IndInv, TypeOK
<1>4. /\ next \in Tasks(Contracts)
      /\ next.tp = "HandleEpoch"
      /\ next.contract = t.contract
      /\ next.height = height + EpochLength
      /\ next.repeat = TRUE
  BY <1>3, ParamsAssumption
     DEF IndInv, TypeOK, Tasks, TaskTypes, RepeatingAt
<1> HIDE DEF next
<1>5. /\ calls' \in Seq(Calls)
      /\ Len(calls') = Len(calls) + 1
      /\ \A i \in 1..Len(calls) : calls'[i] = calls[i]
      /\ calls'[Len(calls) + 1].contract = t.contract
  BY <1>1, <1>3 DEF IndInv, TypeOK, Calls, Tasks
<1>6. Called' = Called \cup {t.contract}
  BY <1>5 DEF Called, IndInv, TypeOK
<1>7. TypeOK'
  BY <1>1, <1>2, <1>4, <1>5 DEF IndInv, TypeOK
<1>8. \A u \in tasks : u.contract = t.contract /\ u # t
                          => u.height # height + EpochLength \/ ~t.repeat
  BY <1>2, ParamsAssumption
     DEF IndInv, TypeOK, HeightsOK, RepeatingOK, StoreOK
<1>9. StoreOK'
  BY <1>2, <1>4, <1>8 DEF IndInv, StoreOK
<1>10. HeightsOK'
  BY <1>1, <1>2, <1>4, ParamsAssumption DEF IndInv, TypeOK, HeightsOK
<1>11. RepeatingOK'
  <2>1. \A u, w \in tasks' :
          u.repeat /\ w.repeat /\ u.contract = w.contract => u = w
    BY <1>2, <1>4 DEF IndInv, RepeatingOK
  <2>2. ASSUME NEW x \in Contracts, maxCap'[x] > 0
        PROVE  \E u \in tasks' : u.contract = x /\ u.repeat
    <3>1. PICK u \in tasks : u.contract = x /\ u.repeat
      BY <1>1, <2>2 DEF IndInv, RepeatingOK
    <3> QED BY <1>2, <1>4, <3>1
  <2> QED BY <2>1, <2>2 DEF RepeatingOK
<1>12. IteratorOK'
  <2>1. due = {u \in tasks : u.height = height}
    BY <1>1 DEF IndInv, IteratorOK
  <2>2. height + EpochLength # height
    BY ParamsAssumption DEF IndInv, TypeOK
  <2>3. due' = {u \in tasks' : u.height = height}
    BY <1>1, <1>2, <1>4, <2>1, <2>2
  <2> QED BY <1>1, <2>3 DEF IteratorOK
<1>13. CallsOK'
  <2>1. t.contract \notin Called
    BY DEF IndInv, CallsOK
  <2>2. AtMostOneCallbackPerBlock'
    BY <1>5, <2>1 DEF AtMostOneCallbackPerBlock, Called, IndInv, CallsOK, TypeOK
  <2>3. \A u \in due' : u.contract \notin Called'
    BY <1>1, <1>2, <1>6 DEF IndInv, CallsOK, IteratorOK, StoreOK
  <2> QED BY <2>2, <2>3 DEF CallsOK
<1>14. RecappedOK'
  BY <1>1, <1>2, <1>6 DEF IndInv, RecappedOK
<1>15. OnlyContractsRegistered'
  BY <1>1, <1>2, <1>4 DEF IndInv, OnlyContractsRegistered
<1> QED
  BY <1>7, <1>9, <1>10, <1>11, <1>12, <1>13, <1>14, <1>15 DEF IndInv

\* The end of a block keeps the invariant: no entry is left for its height.
LEMMA CommitIndInv ==
    ASSUME IndInv, Commit
    PROVE  IndInv'
<1> USE DEF IndInv, Commit
<1>1. \A t \in tasks : t.height # height
  BY DEF IteratorOK
<1>2. TypeOK'
  BY DEF TypeOK
<1>3. StoreOK' /\ RepeatingOK' /\ IteratorOK'
  BY DEF StoreOK, RepeatingOK, IteratorOK
<1>4. HeightsOK'
  BY <1>1, ParamsAssumption DEF HeightsOK, TypeOK, Tasks
<1>5. CallsOK' /\ RecappedOK'
  BY DEF CallsOK, RecappedOK, AtMostOneCallbackPerBlock
<1>6. OnlyContractsRegistered'
  BY DEF OnlyContractsRegistered
<1> QED BY <1>2, <1>3, <1>4, <1>5, <1>6

\* Every step of the specification keeps the invariant.
LEMMA NextIndInv == IndInv /\ [Next]_vars => IndInv'
<1> SUFFICES ASSUME IndInv, [Next]_vars PROVE IndInv'
  OBVIOUS
<1>1. ASSUME NEW c \in Contracts, Instantiate(c) PROVE IndInv'
  BY <1>1, InstantiateIndInv
<1>2. ASSUME NEW msg \in Msgs, SetVirtualStakingMaxCap(msg) PROVE IndInv'
  BY <1>2, SetCapIndInv
<1>3. CASE EndBlockerStart
  BY <1>3, EndBlockerStartIndInv
<1>4. ASSUME NEW t \in due, NEW ok \in BOOLEAN, ExecTask(t, ok) PROVE IndInv'
  BY <1>4, ExecTaskIndInv
<1>5. CASE Commit
  BY <1>5, CommitIndInv
<1>6. CASE UNCHANGED vars
  <2>1. TypeOK' /\ OnlyContractsRegistered'
    BY <1>6 DEF vars, IndInv, TypeOK, OnlyContractsRegistered
  <2>2. StoreOK' /\ HeightsOK' /\ RepeatingOK' /\ IteratorOK'
    BY <1>6 DEF vars, IndInv, StoreOK, HeightsOK, RepeatingOK, IteratorOK
  <2>3. CallsOK' /\ RecappedOK'
    BY <1>6 DEF vars, IndInv, CallsOK, RecappedOK, AtMostOneCallbackPerBlock,
                Called
  <2> QED BY <2>1, <2>2, <2>3 DEF IndInv
<1> QED BY <1>1, <1>2, <1>3, <1>4, <1>5, <1>6 DEF Next

\* The inductive invariant holds in every reachable state.
THEOREM Inductive == Spec => []IndInv
BY InitIndInv, NextIndInv, PTL DEF Spec

-----------------------------------------------------------------------------
\* Every variable keeps its type.
THEOREM TypeCorrect == Spec => []TypeOK
<1>1. IndInv => TypeOK
  BY DEF IndInv
<1> QED BY <1>1, Inductive, PTL

\* A contract with a positive cap always has exactly one regular rebalance,
\* due within an epoch: for any number of contracts, any caps and any sequence
\* of cap updates, failing callbacks and blocks.
THEOREM RegularRebalance == Spec => []EnabledHasOneRegularRebalance
<1>1. IndInv => EnabledHasOneRegularRebalance
  <2> SUFFICES ASSUME IndInv, NEW c \in Contracts, maxCap[c] > 0
               PROVE  \E t \in Repeating(c) :
                         /\ Repeating(c) = {t}
                         /\ height <= t.height
                         /\ t.height <= height + EpochLength
    BY DEF EnabledHasOneRegularRebalance
  <2>1. PICK t \in tasks : t.contract = c /\ t.repeat
    BY DEF IndInv, RepeatingOK
  <2>2. t \in Repeating(c)
    BY <2>1 DEF Repeating, ContractTasks, IndInv, StoreOK
  <2>3. \A u \in Repeating(c) : u = t
    BY <2>1 DEF Repeating, ContractTasks, IndInv, RepeatingOK
  <2>4. height <= t.height /\ t.height <= height + EpochLength
    BY <2>1 DEF IndInv, HeightsOK
  <2> QED BY <2>2, <2>3, <2>4
<1> QED BY <1>1, Inductive, PTL

\* The end blocker never calls a contract's HandleEpoch twice in a block.
THEOREM OneCallbackPerBlock == Spec => []AtMostOneCallbackPerBlock
<1>1. IndInv => AtMostOneCallbackPerBlock
  BY DEF IndInv, CallsOK
<1> QED BY <1>1, Inductive, PTL

\* A contract whose positive cap was set in a block is called back before the
\* block is committed: the last rebalance after a cut to zero is never lost.
THEOREM CapChangeCallback == Spec => []CapChangeIsRebalanced
<1>1. IndInv => CapChangeIsRebalanced
  BY DEF IndInv, CapChangeIsRebalanced, RecappedOK, IteratorOK
<1> QED BY <1>1, Inductive, PTL

\* No task outlives its block.
THEOREM NothingOverdue == Spec => []NoOverdueTask
<1>1. IndInv => NoOverdueTask
  BY DEF IndInv, NoOverdueTask, HeightsOK, TypeOK, Tasks
<1> QED BY <1>1, Inductive, PTL

\* Only deployed contracts are registered and called.
THEOREM RegisteredAreContracts == Spec => []OnlyContractsRegistered
<1>1. IndInv => OnlyContractsRegistered
  BY DEF IndInv
<1> QED BY <1>1, Inductive, PTL

\* No step moves or drops a regular rebalance before it is due, except a cap
\* of zero; one that is due is followed by the next, an epoch away.
THEOREM NotPostponed == Spec => RebalanceNotPostponed
<1> DEFINE Kept(t) ==
             t.repeat /\ t \notin tasks' =>
                 \/ maxCap'[t.contract] = 0
                 \/ /\ t.height <= height
                    /\ \E u \in tasks' : /\ u.contract = t.contract /\ u.repeat
                                         /\ u.height = height + EpochLength
<1>1. ASSUME IndInv, Next, NEW t \in tasks PROVE Kept(t)
  <2> SUFFICES ASSUME t.repeat, t \notin tasks'
               PROVE  \/ maxCap'[t.contract] = 0
                      \/ /\ t.height <= height
                         /\ \E u \in tasks' :
                               /\ u.contract = t.contract /\ u.repeat
                               /\ u.height = height + EpochLength
    OBVIOUS
  <2>1. t \in Tasks(Contracts) /\ t.tp = "HandleEpoch"
    BY <1>1 DEF IndInv, TypeOK, StoreOK
  <2>2. ASSUME NEW msg \in Msgs, SetVirtualStakingMaxCap(msg)
        PROVE  maxCap'[t.contract] = 0
    <3>1. /\ tasks' = RebalanceTasks(msg.contract, msg.amount)
          /\ maxCap' = [maxCap EXCEPT ![msg.contract] = msg.amount]
          /\ msg.contract \in Contracts /\ msg.amount \in Nat
      BY <2>2, ConstantsAssumption DEF SetVirtualStakingMaxCap, Msgs
    <3>2. t.contract = msg.contract /\ msg.amount = 0
      BY <1>1, <3>1, CapStore
    <3> QED BY <1>1, <3>1, <3>2 DEF IndInv, TypeOK
  <2>3. ASSUME NEW u \in due, NEW ok \in BOOLEAN, ExecTask(u, ok)
        PROVE  /\ t.height <= height
               /\ \E w \in tasks' : /\ w.contract = t.contract /\ w.repeat
                                    /\ w.height = height + EpochLength
    <3>1. phase = "endblock" /\ tasks' = StoreAfter(u)
      BY <2>3 DEF ExecTask
    <3>2. u = t
      BY <1>1, <3>1, ExecStore
    <3>3. t.height = height
      BY <1>1, <3>1, <3>2, ExecStore
    <3>4. RepeatingAt(t.contract, height + EpochLength) \in tasks'
      BY <1>1, <3>1, <3>2, ExecStore
    <3> QED BY <1>1, <3>3, <3>4 DEF RepeatingAt, IndInv, TypeOK
  <2>4. ~(\E c \in Contracts : Instantiate(c)) /\ ~EndBlockerStart /\ ~Commit
    BY DEF Instantiate, EndBlockerStart, Commit
  <2> QED BY <1>1, <2>2, <2>3, <2>4 DEF Next
<1>2. IndInv /\ [Next]_vars => [\A t \in tasks : Kept(t)]_vars
  BY <1>1
<1> QED BY <1>2, Inductive, PTL DEF Spec, RebalanceNotPostponed

-----------------------------------------------------------------------------
(* The caps never add up to more than the limit.                           *)

\* What a contract without an entry has is 0, as GetMaxCapLimit reads it.
CapsOK ==
    /\ TotalCapRespected
    /\ \A c \in Contracts \ capSet : maxCap[c] = 0

\* SetMaxCapLimit compares the limit with the sum over all contracts: its loop
\* over the stored entries leaves out nothing but zeros.
LEMMA CapsOfOthersIsSum ==
    ASSUME TypeOK, CapsOK, NEW c \in Contracts
    PROVE  CapsOfOthers(c) = Sum(maxCap, Contracts \ {c})
<1> DEFINE S == capSet \ {c}
           T == Contracts \ (capSet \cup {c})
<1>1. IsFiniteSet(S) /\ IsFiniteSet(T)
  BY ConstantsAssumption, FS_Subset DEF TypeOK
<1>2. Sum(maxCap, S \cup T) = Sum(maxCap, S) + Sum(maxCap, T)
  <2>1. S \cap T = {} /\ \A x \in S \cup T : maxCap[x] \in Int
    BY DEF TypeOK
  <2> HIDE DEF S, T
  <2> QED BY <1>1, <2>1, SumUnion
<1>3. Sum(maxCap, T) = 0
  <2>1. \A x \in T : maxCap[x] = 0
    BY DEF CapsOK
  <2>2. Sum(maxCap, T) = Cardinality(T) * 0
    <3> HIDE DEF T
    <3> QED BY <1>1, <2>1, SumConst
  <2> QED BY <1>1, <2>2, FS_CardinalityType
<1>4. Sum(maxCap, S \cup T) = Sum(maxCap, Contracts \ {c})
  <2>1. S \cup T = Contracts \ {c}
    BY DEF TypeOK
  <2> QED BY <2>1
<1>5. Sum(maxCap, S) \in Int
  BY <1>1, SumInt DEF TypeOK
<1>6. CapsOfOthers(c) = Sum(maxCap, S)
  BY DEF CapsOfOthers, Sum
<1> QED BY <1>2, <1>3, <1>4, <1>5, <1>6

\* A cap message that passes the check keeps the sum within the limit.
LEMMA SetCapCapsOK ==
    ASSUME TypeOK, CapsOK, NEW msg \in Msgs, SetVirtualStakingMaxCap(msg)
    PROVE  CapsOK'
<1> DEFINE c == msg.contract
           rest == Contracts \ {c}
<1>1. c \in Contracts /\ msg.amount \in Nat
  BY ConstantsAssumption DEF Msgs
<1>2. /\ capSet' = capSet \cup {c}
      /\ maxCap' = [maxCap EXCEPT ![c] = msg.amount]
      /\ CapsOfOthers(c) + msg.amount <= TotalContractsMaxCap
  BY DEF SetVirtualStakingMaxCap, WithinTotal
<1>3. /\ maxCap' \in [Contracts -> Nat] /\ maxCap'[c] = msg.amount
      /\ \A x \in rest : maxCap'[x] = maxCap[x]
  BY <1>1, <1>2 DEF TypeOK
<1>4. Sum(maxCap', Contracts) = maxCap'[c] + Sum(maxCap', rest)
  <2>1. \A x \in Contracts : maxCap'[x] \in Int
    BY <1>3
  <2> QED BY <1>1, <2>1, ConstantsAssumption, SumRemove
<1>5. Sum(maxCap', rest) = Sum(maxCap, rest)
  BY <1>3, ConstantsAssumption, FS_RemoveElement, SumAgree
<1>6. Sum(maxCap, rest) = CapsOfOthers(c)
  BY <1>1, CapsOfOthersIsSum
<1>7. Sum(maxCap, rest) \in Int
  <2>1. IsFiniteSet(rest)
    BY ConstantsAssumption, FS_RemoveElement
  <2>2. \A x \in rest : maxCap[x] \in Int
    BY DEF TypeOK
  <2> HIDE DEF rest
  <2> QED BY <2>1, <2>2, SumInt
<1>8. Sum(maxCap', Contracts) <= TotalContractsMaxCap
  BY <1>1, <1>2, <1>3, <1>4, <1>5, <1>6, <1>7, ParamsAssumption
<1>9. TotalCapRespected'
  BY <1>8 DEF TotalCapRespected, Sum, MapThenSumSet, MapThenFoldSet
<1>10. \A x \in Contracts \ capSet' : maxCap'[x] = 0
  BY <1>2, <1>3 DEF CapsOK
<1> QED BY <1>9, <1>10 DEF CapsOK

\* The caps of all contracts stay within Params.TotalContractsMaxCap, in
\* whatever order governance raises and lowers them (SetMaxCapLimit).
THEOREM CapsWithinLimit == Spec => []TotalCapRespected
<1>1. Init => CapsOK
  <2> SUFFICES ASSUME Init PROVE CapsOK
    OBVIOUS
  <2>1. \A c \in Contracts : maxCap[c] = 0
    BY DEF Init
  <2>2. Sum(maxCap, Contracts) = Cardinality(Contracts) * 0
    <3>1. 0 \in Int
      OBVIOUS
    <3> QED BY <2>1, <3>1, ConstantsAssumption, SumConst
  <2>3. Sum(maxCap, Contracts) = 0
    BY <2>2, ConstantsAssumption, FS_CardinalityType
  <2> QED BY <2>1, <2>3, ParamsAssumption DEF CapsOK, TotalCapRespected, Sum
<1>2. TypeOK /\ CapsOK /\ [Next]_vars => CapsOK'
  <2> SUFFICES ASSUME TypeOK, CapsOK, [Next]_vars PROVE CapsOK'
    OBVIOUS
  <2>1. ASSUME NEW msg \in Msgs, SetVirtualStakingMaxCap(msg) PROVE CapsOK'
    BY <2>1, SetCapCapsOK
  <2>2. CASE UNCHANGED <<capSet, maxCap>>
    BY <2>2 DEF CapsOK, TotalCapRespected, MapThenSumSet, MapThenFoldSet
  <2> QED
    BY <2>1, <2>2 DEF Next, vars, Instantiate, EndBlockerStart, ExecTask, Commit
<1>3. CapsOK => TotalCapRespected
  BY DEF CapsOK
<1> QED BY <1>1, <1>2, <1>3, TypeCorrect, PTL DEF Spec

-----------------------------------------------------------------------------
(* The scheduler implements one clock per contract.                        *)

\* Heights start at 1, and tasks are run below the horizon only.
HorizonOK ==
    /\ height >= 1
    /\ phase = "endblock" => height < MaxHeight

\* The abstract state in terms of the store: the clock of a contract shows its
\* repeating entry, and it is owed a strike for an entry of this block.
ClockFacts ==
    \A c \in Contracts :
        /\ \A t \in tasks : t.contract = c /\ t.repeat =>
               ClockNext[c] = t.height /\ t.height # 0
        /\ (\A t \in tasks : t.contract = c => ~t.repeat) => ClockNext[c] = 0
        /\ c \in ClockOwed <=>
               \E t \in tasks : t.contract = c /\ t.height = height

\* The refinement mapping reads the store as ClockFacts says.
LEMMA ClockState == IndInv /\ HorizonOK => ClockFacts
<1> SUFFICES ASSUME IndInv, HorizonOK, NEW c \in Contracts
             PROVE  /\ \A t \in tasks : t.contract = c /\ t.repeat =>
                           ClockNext[c] = t.height /\ t.height # 0
                    /\ (\A t \in tasks : t.contract = c => ~t.repeat)
                           => ClockNext[c] = 0
                    /\ c \in ClockOwed <=>
                           \E t \in tasks : t.contract = c /\ t.height = height
  BY DEF ClockFacts
<1>1. Repeating(c) = {t \in tasks : t.contract = c /\ t.repeat}
  BY DEF Repeating, ContractTasks, IndInv, StoreOK
<1>2. ASSUME NEW t \in tasks, t.contract = c, t.repeat
      PROVE  ClockNext[c] = t.height /\ t.height # 0
  <2>1. Repeating(c) = {t}
    BY <1>1, <1>2 DEF IndInv, RepeatingOK
  <2>2. (CHOOSE u \in Repeating(c) : TRUE) = t
    BY <2>1
  <2>3. t.height # 0
    BY DEF IndInv, HeightsOK, HorizonOK, TypeOK, Tasks
  <2> QED BY <2>1, <2>2, <2>3 DEF ClockNext
<1>3. (\A t \in tasks : t.contract = c => ~t.repeat) => ClockNext[c] = 0
  BY <1>1 DEF ClockNext
<1>4. c \in ClockOwed <=> \E t \in tasks : t.contract = c /\ t.height = height
  BY DEF ClockOwed, DueTasks, ContractTasks, IndInv, StoreOK, HeightsOK, TypeOK,
         Tasks
<1> QED BY <1>2, <1>3, <1>4

\* What the proofs below know of a step's first and last state.
ClockInv == IndInv /\ HorizonOK /\ ClockFacts

\* All of it holds in every reachable state.
LEMMA ClockInductive == Spec => []ClockInv
<1>1. Init => HorizonOK
  BY DEF Init, HorizonOK
<1>2. IndInv /\ HorizonOK /\ [Next]_vars => HorizonOK'
  <2> SUFFICES ASSUME IndInv, HorizonOK, [Next]_vars PROVE HorizonOK'
    OBVIOUS
  <2>1. CASE UNCHANGED <<height, phase>>
    BY <2>1 DEF HorizonOK
  <2>2. CASE EndBlockerStart
    BY <2>2 DEF HorizonOK, EndBlockerStart
  <2>3. CASE Commit
    BY <2>3 DEF HorizonOK, Commit, IndInv, TypeOK
  <2> QED
    BY <2>1, <2>2, <2>3
       DEF Next, vars, Instantiate, SetVirtualStakingMaxCap, ExecTask
<1>3. Spec => []HorizonOK
  BY <1>1, <1>2, Inductive, PTL DEF Spec
<1> QED BY <1>3, Inductive, ClockState, PTL DEF ClockInv

\* A cap message starts the clock of its contract, asks it for a strike in this
\* block, or stops it with a last strike.
LEMMA SetCapClock ==
    ASSUME ClockInv, ClockInv', NEW msg \in Msgs, SetVirtualStakingMaxCap(msg)
    PROVE  \E c \in Contracts : Clock!Start(c) \/ Clock!Ask(c) \/ Clock!Stop(c)
<1> USE DEF ClockInv
<1> DEFINE c == msg.contract
           amount == msg.amount
           rep == RepeatingAt(c, height + EpochLength)
           one == OneShotAt(c, height)
<1>1. c \in Contracts /\ amount \in Nat
  BY ConstantsAssumption DEF Msgs
<1>2. /\ phase = "deliver"
      /\ tasks' = RebalanceTasks(c, amount)
      /\ UNCHANGED <<height, calls>>
  BY DEF SetVirtualStakingMaxCap
<1>3. Called = {} /\ UNCHANGED Called
  BY <1>2 DEF IndInv, IteratorOK, Called
<1>4. /\ rep.contract = c /\ one.contract = c
      /\ rep.height = height + EpochLength /\ one.height = height
      /\ rep.repeat = TRUE /\ one.repeat = FALSE
      /\ height + EpochLength # height /\ height # 0 /\ height \in Nat
  BY ParamsAssumption DEF IndInv, TypeOK, HorizonOK, RepeatingAt, OneShotAt
<1>5. ASSUME NEW d \in Contracts, d # c,
             \A t : t.contract = d => (t \in tasks' <=> t \in tasks)
      PROVE  /\ ClockNext'[d] = ClockNext[d]
             /\ d \in ClockOwed' <=> d \in ClockOwed
  <2>1. CASE \E t \in tasks : t.contract = d /\ t.repeat
    BY <1>2, <1>5, <2>1 DEF ClockFacts
  <2>2. CASE \A t \in tasks : t.contract = d => ~t.repeat
    BY <1>2, <1>5, <2>2 DEF ClockFacts
  <2> QED BY <2>1, <2>2
<1>6. /\ ClockNext \in [Contracts -> {ClockNext[d] : d \in Contracts}]
      /\ ClockNext' \in [Contracts -> {ClockNext'[d] : d \in Contracts}]
      /\ ClockOwed \subseteq Contracts /\ ClockOwed' \subseteq Contracts
  BY DEF ClockNext, ClockOwed
<1> HIDE DEF c, amount, rep, one
<1>7. CASE /\ tasks' = tasks \cup {rep}
           /\ \A t \in tasks : t.contract = c => ~t.repeat
  <2>1. \A d \in Contracts \ {c} : /\ ClockNext'[d] = ClockNext[d]
                                   /\ d \in ClockOwed' <=> d \in ClockOwed
    BY <1>4, <1>5, <1>7
  <2>2. ClockNext[c] = 0 /\ ClockNext'[c] = height + EpochLength
    BY <1>1, <1>4, <1>7 DEF ClockFacts
  <2>3. c \in ClockOwed' <=> c \in ClockOwed
    BY <1>1, <1>2, <1>4, <1>7 DEF ClockFacts
  <2>4. ClockOwed' = ClockOwed
    <3>1. \A d \in Contracts : d \in ClockOwed' <=> d \in ClockOwed
      BY <2>1, <2>3
    <3> QED BY <1>6, <3>1
  <2>5. ClockNext' = [ClockNext EXCEPT ![c] = height + EpochLength]
    BY <1>6, <2>1, <2>2
  <2>6. Clock!Start(c)
    BY <1>2, <1>3, <2>2, <2>4, <2>5 DEF Clock!Start, Clock!Stopped
  <2> QED BY <1>1, <2>6
<1>8. CASE /\ tasks' = {t \in tasks : t.contract # c} \cup {one}
           /\ \E t \in tasks : t.contract = c /\ t.repeat
  <2>1. \A d \in Contracts \ {c} : /\ ClockNext'[d] = ClockNext[d]
                                   /\ d \in ClockOwed' <=> d \in ClockOwed
    BY <1>4, <1>5, <1>8
  <2>2. ClockNext[c] # 0 /\ ClockNext'[c] = 0
    BY <1>1, <1>4, <1>8 DEF ClockFacts
  <2>3. c \in ClockOwed'
    BY <1>1, <1>2, <1>4, <1>8 DEF ClockFacts
  <2>4. ClockOwed' = ClockOwed \cup {c}
    BY <1>1, <1>6, <2>1, <2>3
  <2>5. ClockNext' = [ClockNext EXCEPT ![c] = 0]
    BY <1>6, <2>1, <2>2
  <2>6. Clock!Stop(c)
    BY <1>2, <1>3, <2>2, <2>4, <2>5 DEF Clock!Stop, Clock!Stopped
  <2> QED BY <1>1, <2>6
<1>9. CASE /\ tasks' = tasks \/ tasks' = tasks \cup {one}
           /\ \E t \in tasks' : t.contract = c /\ t.height = height
           /\ \E t \in tasks : t.contract = c /\ t.repeat
  <2>1. \A d \in Contracts \ {c} : /\ ClockNext'[d] = ClockNext[d]
                                   /\ d \in ClockOwed' <=> d \in ClockOwed
    BY <1>4, <1>5, <1>9
  <2>2. ClockNext[c] # 0 /\ ClockNext'[c] = ClockNext[c]
    BY <1>1, <1>9 DEF ClockFacts
  <2>3. c \in ClockOwed'
    BY <1>1, <1>2, <1>9 DEF ClockFacts
  <2>4. ClockOwed' = ClockOwed \cup {c}
    BY <1>1, <1>6, <2>1, <2>3
  <2>5. ClockNext' = ClockNext
    BY <1>6, <2>1, <2>2
  <2>6. Clock!Ask(c)
    BY <1>2, <1>3, <2>2, <2>4, <2>5 DEF Clock!Ask, Clock!Stopped
  <2> QED BY <1>1, <2>6
<1> QED BY <1>1, <1>2, <1>4, <1>7, <1>8, <1>9, CapStore DEF one, rep

\* Running a task is a strike of its contract's clock: the only one it is owed
\* in this block, and a regular one if the clock shows this block.
LEMMA ExecTaskClock ==
    ASSUME ClockInv, ClockInv', NEW t \in due, NEW ok \in BOOLEAN,
           ExecTask(t, ok)
    PROVE  Clock!Strike(t.contract)
<1> USE DEF ClockInv
<1> DEFINE c == t.contract
           next == RepeatingAt(c, height + EpochLength)
<1>1. /\ phase = "endblock"
      /\ tasks' = StoreAfter(t)
      /\ calls' = Append(calls, [contract |-> c, ok |-> ok])
      /\ UNCHANGED height
  BY DEF ExecTask
<1>2. /\ t \in tasks
      /\ t.height = height
      /\ tasks' = IF t.repeat THEN (tasks \ {t}) \cup {next} ELSE tasks \ {t}
  BY <1>1, ExecStore
<1>3. c \in Contracts /\ height < MaxHeight
  BY <1>1, <1>2 DEF IndInv, TypeOK, Tasks, HorizonOK
<1>4. c \notin Called
  BY DEF IndInv, CallsOK
<1>5. Called' = Called \cup {c}
  <2>1. calls \in Seq(Calls) /\ [contract |-> c, ok |-> ok] \in Calls
    BY <1>3 DEF IndInv, TypeOK, Calls
  <2> QED BY <1>1, <2>1 DEF Called
<1>6. /\ next.contract = c /\ next.height = height + EpochLength
      /\ next.repeat = TRUE
      /\ height + EpochLength # height
  BY ParamsAssumption DEF IndInv, TypeOK, RepeatingAt
<1>7. \A u \in tasks : u.contract = c /\ u.height = height => u = t
  BY <1>2 DEF IndInv, StoreOK
<1>8. /\ ClockNext \in [Contracts -> {ClockNext[d] : d \in Contracts}]
      /\ ClockNext' \in [Contracts -> {ClockNext'[d] : d \in Contracts}]
      /\ ClockOwed \subseteq Contracts /\ ClockOwed' \subseteq Contracts
  BY DEF ClockNext, ClockOwed
<1> HIDE DEF c, next
<1>9. ASSUME NEW d \in Contracts, d # c
      PROVE  /\ ClockNext'[d] = ClockNext[d]
             /\ d \in ClockOwed' <=> d \in ClockOwed
  <2>1. \A u : u.contract = d => (u \in tasks' <=> u \in tasks)
    BY <1>2, <1>6, <1>9 DEF c
  <2>2. CASE \E u \in tasks : u.contract = d /\ u.repeat
    BY <1>1, <2>1, <2>2 DEF ClockFacts
  <2>3. CASE \A u \in tasks : u.contract = d => ~u.repeat
    BY <1>1, <2>1, <2>3 DEF ClockFacts
  <2> QED BY <2>2, <2>3
<1>10. c \in ClockOwed /\ c \notin ClockOwed'
  <2>1. c \in ClockOwed
    BY <1>2, <1>3 DEF ClockFacts, c
  <2>2. \A u \in tasks' : ~(u.contract = c /\ u.height = height)
    BY <1>2, <1>6, <1>7
  <2> QED BY <1>1, <1>3, <2>1, <2>2 DEF ClockFacts
<1>11. ClockOwed' = ClockOwed \ {c}
  <2>1. \A d \in Contracts : d \in ClockOwed' <=> d \in ClockOwed \ {c}
    BY <1>9, <1>10
  <2> QED BY <1>8, <2>1
<1>12. ClockNext'[c] = IF ClockNext[c] = height THEN height + EpochLength
                       ELSE ClockNext[c]
  <2>1. CASE t.repeat
    <3>1. ClockNext[c] = height
      BY <1>2, <1>3, <2>1 DEF ClockFacts, c
    <3>2. next \in tasks'
      BY <1>2, <2>1
    <3>3. ClockNext'[c] = height + EpochLength
      BY <1>3, <1>6, <3>2 DEF ClockFacts
    <3> QED BY <3>1, <3>3
  <2>2. CASE ~t.repeat
    <3>1. tasks' = tasks \ {t}
      BY <1>2, <2>2
    <3>2. CASE \E u \in tasks : u.contract = c /\ u.repeat
      <4>1. PICK u \in tasks : u.contract = c /\ u.repeat
        BY <3>2
      <4>2. u # t /\ u.height # height
        BY <1>7, <2>2, <4>1
      <4>3. u \in tasks'
        BY <3>1, <4>2
      <4>4. ClockNext[c] = u.height /\ ClockNext'[c] = u.height
        BY <1>3, <4>1, <4>3 DEF ClockFacts
      <4> QED BY <4>2, <4>4
    <3>3. CASE \A u \in tasks : u.contract = c => ~u.repeat
      <4>1. ClockNext[c] = 0 /\ ClockNext'[c] = 0
        BY <1>3, <3>1, <3>3 DEF ClockFacts
      <4>2. height # 0
        BY DEF HorizonOK
      <4> QED BY <4>1, <4>2
    <3> QED BY <3>2, <3>3
  <2> QED BY <2>1, <2>2 DEF IndInv, TypeOK, Tasks
<1>13. ClockNext' = [ClockNext EXCEPT ![c] =
                       IF @ = height THEN height + EpochLength ELSE @]
  BY <1>8, <1>9, <1>12
<1> QED BY <1>1, <1>3, <1>4, <1>5, <1>10, <1>11, <1>13 DEF Clock!Strike, c

\* At the end of a block no strike is owed, and in the next one the clocks that
\* show it owe theirs.
LEMMA CommitClock ==
    ASSUME ClockInv, ClockInv', Commit
    PROVE  Clock!NextBlock
<1> USE DEF ClockInv
<1>1. /\ phase = "endblock" /\ due = {}
      /\ height' = height + 1 /\ calls' = <<>>
      /\ UNCHANGED tasks
  BY DEF Commit
<1>2. height < MaxHeight /\ Called' = {}
  BY <1>1 DEF HorizonOK, Called
<1>3. \A t \in tasks : t.height # height /\ t.repeat
  BY <1>1 DEF IndInv, IteratorOK, HeightsOK
<1>4. ClockOwed \subseteq Contracts /\ ClockOwed' \subseteq Contracts
  BY DEF ClockOwed
<1>5. ClockOwed = {}
  BY <1>3, <1>4 DEF ClockFacts
<1>6. UNCHANGED ClockNext
  BY <1>1 DEF ClockNext, Repeating
<1>7. ClockOwed' = {c \in Contracts : ClockNext[c] = height + 1}
  <2> SUFFICES ASSUME NEW c \in Contracts
               PROVE  c \in ClockOwed' <=> ClockNext[c] = height + 1
    BY <1>4
  <2>1. c \in ClockOwed' <=> \E t \in tasks : t.contract = c
                                                /\ t.height = height + 1
    BY <1>1 DEF ClockFacts
  <2>2. CASE \E t \in tasks : t.contract = c
    <3>1. PICK t \in tasks : t.contract = c
      BY <2>2
    <3>2. ClockNext[c] = t.height
      BY <1>3, <3>1 DEF ClockFacts
    <3>3. \A u \in tasks : u.contract = c => u = t
      BY <1>3, <3>1 DEF IndInv, RepeatingOK
    <3> QED BY <2>1, <3>1, <3>2, <3>3
  <2>3. CASE \A t \in tasks : t.contract # c
    <3>1. ClockNext[c] = 0
      BY <2>3 DEF ClockFacts
    <3>2. height + 1 # 0
      BY DEF IndInv, TypeOK
    <3> QED BY <2>1, <2>3, <3>1, <3>2
  <2> QED BY <2>2, <2>3
<1> QED BY <1>1, <1>2, <1>5, <1>6, <1>7 DEF Clock!NextBlock

\* Cap messages, one-shot and repeating tasks, failing callbacks and the order
\* of the end blocker behave like one clock per contract: every behaviour of
\* the scheduler is one of the clocks, for all contracts and epoch lengths.
THEOREM RefinesClock == Spec => Clock!Spec
<1>1. Init => Clock!Init
  <2> SUFFICES ASSUME Init PROVE Clock!Init
    OBVIOUS
  <2>1. ClockNext = [c \in Contracts |-> 0]
    BY DEF Init, ClockNext, Repeating, ContractTasks
  <2>2. ClockOwed = {} /\ Called = {}
    BY DEF Init, ClockOwed, DueTasks, ContractTasks, Called
  <2> QED BY <2>1, <2>2 DEF Init, Clock!Init, Clock!Stopped
<1>2. ClockInv /\ ClockInv' /\ [Next]_vars => [Clock!Next]_(Clock!vars)
  <2> SUFFICES ASSUME ClockInv, ClockInv', [Next]_vars
               PROVE  [Clock!Next]_(Clock!vars)
    OBVIOUS
  <2>1. ASSUME NEW msg \in Msgs, SetVirtualStakingMaxCap(msg)
        PROVE  Clock!Next
    BY <2>1, SetCapClock DEF Clock!Next
  <2>2. ASSUME NEW t \in due, NEW ok \in BOOLEAN, ExecTask(t, ok)
        PROVE  Clock!Next
    <3>1. t.contract \in Contracts
      BY DEF ClockInv, IndInv, TypeOK, Tasks
    <3> QED BY <2>2, <3>1, ExecTaskClock DEF Clock!Next
  <2>3. CASE Commit
    BY <2>3, CommitClock DEF Clock!Next
  <2>4. CASE UNCHANGED <<height, tasks, calls>>
    <3>1. UNCHANGED <<ClockNext, ClockOwed, Called>>
      BY <2>4 DEF ClockNext, ClockOwed, Called, Repeating
    <3> QED BY <2>4, <3>1 DEF Clock!vars
  <2> QED
    BY <2>1, <2>2, <2>3, <2>4 DEF Next, vars, Instantiate, EndBlockerStart
<1> QED BY <1>1, <1>2, ClockInductive, PTL DEF Spec, Clock!Spec
=============================================================================
