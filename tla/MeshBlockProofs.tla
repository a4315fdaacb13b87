--------------------------- MODULE MeshBlockProofs ---------------------------
(***************************************************************************)
(* The safety properties of MeshBlock for all contracts, validators, epoch *)
(* lengths and heights.                                                    *)
(***************************************************************************)
EXTENDS MeshBlock, TLAPS

(***************************************************************************)
(* The inductive invariant, in parts.                                      *)
(***************************************************************************)

\* What a node that restarted has in its memory store lies between the events
\* of this block since the last clearing and what the others have, which is no
\* more than these and the late ones.
MemoryOK ==
    /\ fresh \subseteq twin
    /\ twin \subseteq piped
    /\ piped \subseteq fresh \cup late
    /\ phase = "epoch" => piped \subseteq late

\* A contract that is still to get a report.
Pending(c) ==
    IF phase = "valset"
    THEN \E t \in due : t.contract = c
    ELSE \E t \in tasks : /\ t.tp = "ValsetUpdate" /\ t.contract = c
                          /\ t.height <= height

\* A contract with a cap that is behind has missed something or is still to
\* get a report of it.
KnownOK ==
    \A c \in enabled :
        Stale(c) \subseteq missed[c] \cup (IF Pending(c) THEN piped ELSE {})

\* The iterator of the second half has HandleEpoch tasks only.
IteratorOK == phase = "epoch" => \A t \in due : t.tp = "HandleEpoch"

BlockInv == TypeOK /\ MemoryOK /\ KnownOK /\ IteratorOK

-----------------------------------------------------------------------------
(* What the steps that write the scheduler store do to it.                 *)

\* sendAsync keeps all tasks and leaves every contract with a cap one for the
\* current block (valset_updates.go).
LEMMA NotifyStore ==
    ASSUME TypeOK, NEW vals
    PROVE  /\ Notify(tasks, vals) \subseteq Tasks(Contracts)
           /\ tasks \subseteq Notify(tasks, vals)
           /\ vals # {} => \A c \in enabled :
                 \E t \in Notify(tasks, vals) :
                     t.tp = "ValsetUpdate" /\ t.height = height /\ t.contract = c
<1> DEFINE task(c) == [tp |-> "ValsetUpdate", height |-> height,
                       contract |-> c, repeat |-> FALSE]
<1>1. \A c \in enabled : /\ task(c) \in Tasks(Contracts)
                         /\ task(c).tp = "ValsetUpdate"
                         /\ task(c).height = height
                         /\ task(c).contract = c
  BY DEF TypeOK, Tasks, TaskTypes
<1>2. Notify(tasks, vals) \subseteq Tasks(Contracts)
  BY <1>1 DEF Notify, TypeOK
<1>3. tasks \subseteq Notify(tasks, vals)
  BY DEF Notify
<1>4. ASSUME vals # {}, NEW c \in enabled
      PROVE  \E t \in Notify(tasks, vals) :
                 t.tp = "ValsetUpdate" /\ t.height = height /\ t.contract = c
  <2>1. CASE HasKey(tasks, "ValsetUpdate", height, c)
    BY <1>3, <2>1 DEF HasKey
  <2>2. CASE ~HasKey(tasks, "ValsetUpdate", height, c)
    <3>1. task(c) \in Notify(tasks, vals)
      BY <1>4, <2>2 DEF Notify
    <3> QED BY <1>1, <3>1
  <2> QED BY <2>1, <2>2
<1> QED BY <1>2, <1>3, <1>4

\* ExecScheduledTasks writes tasks of its own type only.
LEMMA ExecStore ==
    ASSUME TypeOK, NEW S \in SUBSET Tasks(Contracts), NEW t \in Tasks(Contracts)
    PROVE  /\ AfterExec(S, t, height, EpochLength) \subseteq Tasks(Contracts)
           /\ \A u \in S : u.tp # t.tp => u \in AfterExec(S, t, height, EpochLength)
<1> DEFINE new == [tp |-> t.tp, height |-> height + EpochLength,
                   contract |-> t.contract, repeat |-> TRUE]
<1>1. new \in Tasks(Contracts)
  BY ConstantsAssumption DEF TypeOK, Tasks
<1> QED
  BY <1>1 DEF AfterExec, ScheduleRepeatingTask, deleteScheduledTask

\* A cap message writes HandleEpoch tasks only.
LEMMA CapStore ==
    ASSUME TypeOK, NEW c \in Contracts, NEW on \in BOOLEAN
    PROVE  /\ CapTasks(c, on) \subseteq Tasks(Contracts)
           /\ \A u \in tasks : u.tp = "ValsetUpdate" => u \in CapTasks(c, on)
<1> DEFINE new(h, r) == [tp |-> "HandleEpoch", height |-> h, contract |-> c,
                         repeat |-> r]
<1>1. /\ new(height + EpochLength, TRUE) \in Tasks(Contracts)
      /\ new(height, FALSE) \in Tasks(Contracts)
  BY ConstantsAssumption DEF TypeOK, Tasks, TaskTypes
<1> QED
  BY <1>1 DEF CapTasks, ScheduleRepeatingTask, deleteScheduledTask,
         ScheduleOneShotTask, DeleteAllScheduledTasks, ContractTasks, TypeOK

\* What a modification makes a contract fall behind with is the modified
\* validators.
LEMMA EditedStale ==
    ASSUME TypeOK, NEW vals \in SUBSET Validators, meta' = Edited(vals),
           UNCHANGED view, NEW c \in Contracts
    PROVE  Stale(c)' \subseteq Stale(c) \cup vals
BY DEF TypeOK, Edited, Stale

-----------------------------------------------------------------------------
(* Every step keeps the invariant.                                         *)

\* The first block starts with nothing piped, scheduled or missed.
LEMMA InitBlockInv == Init => BlockInv
<1> SUFFICES ASSUME Init PROVE BlockInv
  OBVIOUS
<1>1. TypeOK
  BY DEF Init, TypeOK
<1>2. MemoryOK /\ IteratorOK /\ KnownOK
  BY DEF Init, MemoryOK, IteratorOK, KnownOK
<1> QED BY <1>1, <1>2 DEF BlockInv

\* A cap message keeps the invariant: a contract that gets its cap knows the
\* validator set as it is.
LEMMA SetCapBlockInv ==
    ASSUME BlockInv, NEW c \in Contracts, NEW on \in BOOLEAN,
           SetVirtualStakingMaxCap(c, on)
    PROVE  BlockInv'
<1> USE DEF BlockInv
<1>1. /\ phase = "tx"
      /\ enabled' = IF on THEN enabled \cup {c} ELSE enabled \ {c}
      /\ tasks' = CapTasks(c, on)
      /\ view' = IF on /\ c \notin enabled THEN [view EXCEPT ![c] = meta] ELSE view
      /\ missed' = IF on /\ c \notin enabled THEN [missed EXCEPT ![c] = {}] ELSE missed
      /\ UNCHANGED <<height, phase, meta, due, piped, twin, fresh, late>>
  BY DEF SetVirtualStakingMaxCap
<1>2. TypeOK'
  <2>1. enabled' \subseteq Contracts /\ tasks' \subseteq Tasks(Contracts)
    BY <1>1, CapStore DEF TypeOK
  <2>2. view' \in [Contracts -> [Validators -> {0, 1}]]
    BY <1>1 DEF TypeOK
  <2>3. missed' \in [Contracts -> SUBSET Validators]
    BY <1>1 DEF TypeOK
  <2> QED BY <1>1, <2>1, <2>2, <2>3 DEF TypeOK
<1>3. MemoryOK' /\ IteratorOK'
  BY <1>1 DEF MemoryOK, IteratorOK
<1>4. ASSUME NEW d \in enabled'
      PROVE  Stale(d)' \subseteq
                missed'[d] \cup (IF Pending(d)' THEN piped' ELSE {})
  <2>1. CASE d \in enabled
    <3>1. view'[d] = view[d] /\ missed'[d] = missed[d]
      BY <1>1, <2>1 DEF TypeOK
    <3>2. Stale(d)' = Stale(d)
      BY <1>1, <3>1 DEF Stale
    <3>3. Pending(d) => Pending(d)'
      BY <1>1, CapStore DEF Pending
    <3> QED BY <1>1, <2>1, <3>1, <3>2, <3>3 DEF KnownOK
  <2>2. CASE d \notin enabled
    <3>1. d = c /\ on /\ c \notin enabled
      BY <1>1, <1>4, <2>2
    <3>2. view'[d] = meta
      BY <1>1, <3>1 DEF TypeOK
    <3>3. Stale(d)' = {}
      BY <1>1, <3>2 DEF Stale
    <3> QED BY <3>3
  <2> QED BY <2>1, <2>2
<1>5. KnownOK'
  BY <1>4 DEF KnownOK
<1> QED BY <1>2, <1>3, <1>5

\* MsgEditValidator keeps the invariant: every contract with a cap has a task
\* afterwards, and the event is in the memory store.
LEMMA EditValidatorBlockInv ==
    ASSUME BlockInv, NEW v \in Validators, EditValidator(v)
    PROVE  BlockInv'
<1> USE DEF BlockInv
<1>1. /\ phase = "tx"
      /\ meta' = Edited({v})
      /\ piped' = piped \cup {v} /\ twin' = twin \cup {v}
      /\ fresh' = fresh \cup {v}
      /\ tasks' = Notify(tasks, {v})
      /\ UNCHANGED <<height, phase, enabled, due, late, view, missed>>
  BY DEF EditValidator, sendAsync
<1>2. TypeOK'
  <2>1. meta' \in [Validators -> {0, 1}]
    BY <1>1 DEF TypeOK, Edited
  <2> QED BY <1>1, <2>1, NotifyStore DEF TypeOK
<1>3. MemoryOK' /\ IteratorOK'
  BY <1>1 DEF MemoryOK, IteratorOK
<1>4. ASSUME NEW d \in enabled'
      PROVE  Stale(d)' \subseteq
                missed'[d] \cup (IF Pending(d)' THEN piped' ELSE {})
  <2>1. d \in enabled /\ d \in Contracts
    BY <1>1 DEF TypeOK
  <2>2. Stale(d)' \subseteq Stale(d) \cup {v}
    BY <1>1, <2>1, EditedStale
  <2>3. PICK t \in tasks' : /\ t.tp = "ValsetUpdate" /\ t.height = height
                            /\ t.contract = d
    BY <1>1, <2>1, NotifyStore
  <2>4. Pending(d)'
    BY <1>1, <2>3 DEF Pending, TypeOK
  <2> QED BY <1>1, <2>1, <2>2, <2>4 DEF KnownOK
<1>5. KnownOK'
  BY <1>4 DEF KnownOK
<1> QED BY <1>2, <1>3, <1>5

\* The iterator of the first half visits all tasks that are pending.
LEMMA EndBlockerStartBlockInv ==
    ASSUME BlockInv, EndBlockerStart
    PROVE  BlockInv'
<1> USE DEF BlockInv, EndBlockerStart
<1>1. TypeOK'
  BY DEF TypeOK, DueTasks
<1>2. MemoryOK' /\ IteratorOK'
  BY DEF MemoryOK, IteratorOK
<1>3. ASSUME NEW d \in enabled'
      PROVE  Stale(d)' \subseteq
                missed'[d] \cup (IF Pending(d)' THEN piped' ELSE {})
  <2>1. Stale(d)' = Stale(d)
    BY DEF Stale
  <2>2. Pending(d) => Pending(d)'
    BY DEF Pending, DueTasks
  <2> QED BY <2>1, <2>2 DEF KnownOK
<1>4. KnownOK'
  BY <1>3 DEF KnownOK
<1> QED BY <1>1, <1>2, <1>4

\* What the two halves' steps have in common: types and memory stores.
LEMMA ExecCommon ==
    ASSUME BlockInv, NEW t \in due, NEW ok \in BOOLEAN,
           NEW edits \in CallbackEdits, ExecScheduledTask(t, ok, edits),
           UNCHANGED <<height, enabled>>
    PROVE  /\ height' \in Nat /\ enabled' \subseteq Contracts
           /\ meta' \in [Validators -> {0, 1}]
           /\ tasks' \subseteq Tasks(Contracts) /\ due' \subseteq Tasks(Contracts)
           /\ piped' \subseteq Validators /\ twin' \subseteq Validators
           /\ fresh' \subseteq Validators
<1> USE DEF BlockInv
<1> DEFINE vals == IF ok THEN edits ELSE {}
<1>1. vals \subseteq Validators
  BY ConstantsAssumption
<1>2. /\ meta' = Edited(vals)
      /\ piped' = piped \cup vals /\ twin' = twin \cup vals
      /\ fresh' = fresh \cup vals
      /\ tasks' = AfterCallback(t, ok, edits)
      /\ due' = due \ {t}
  BY DEF ExecScheduledTask, sendAsync
<1>3. meta' \in [Validators -> {0, 1}]
  BY <1>2 DEF TypeOK, Edited
<1>4. tasks' \subseteq Tasks(Contracts)
  <2>1. t \in Tasks(Contracts)
    BY DEF TypeOK
  <2>2. Notify(tasks, vals) \in SUBSET Tasks(Contracts)
    BY NotifyStore
  <2> QED BY <1>2, <2>1, <2>2, ExecStore DEF AfterCallback
<1> QED BY <1>1, <1>2, <1>3, <1>4 DEF TypeOK

\* Sending a report keeps the invariant, whether or not the contract takes it:
\* it is up to date with all that was piped, or it missed that, and what its
\* callback modifies counts as missed for all.
LEMMA SendValsetUpdateBlockInv ==
    ASSUME BlockInv, NEW t \in due, NEW ok \in BOOLEAN,
           NEW edits \in CallbackEdits, SendValsetUpdate(t, ok, edits)
    PROVE  BlockInv'
<1> USE DEF BlockInv
<1> DEFINE c == t.contract
           vals == IF ok THEN edits ELSE {}
<1>0. vals \subseteq Validators /\ c \in Contracts
  BY ConstantsAssumption DEF TypeOK, Tasks
<1>1. /\ phase = "valset"
      /\ ExecScheduledTask(t, ok, edits)
      /\ view' = [view EXCEPT ![c] =
           [v \in Validators |-> IF ok /\ v \in piped THEN meta[v] ELSE view[c][v]]]
      /\ missed' = [d \in Contracts |->
           IF ~ok THEN missed[d] \cup (IF d = c THEN piped ELSE {})
           ELSE (missed[d] \ (IF d = c THEN piped ELSE {})) \cup edits]
      /\ UNCHANGED <<height, phase, enabled, late>>
  BY DEF SendValsetUpdate
<1>2. /\ meta' = Edited(vals)
      /\ piped' = piped \cup vals /\ twin' = twin \cup vals
      /\ fresh' = fresh \cup vals
      /\ due' = due \ {t}
  BY <1>1 DEF ExecScheduledTask, sendAsync
<1> HIDE DEF c, vals
<1>3. TypeOK'
  <2>1. view' \in [Contracts -> [Validators -> {0, 1}]]
    <3>1. [v \in Validators |-> IF ok /\ v \in piped THEN meta[v] ELSE view[c][v]]
             \in [Validators -> {0, 1}]
      BY <1>0 DEF TypeOK
    <3> QED BY <1>0, <1>1, <3>1 DEF TypeOK
  <2>2. missed' \in [Contracts -> SUBSET Validators]
    BY <1>1, ConstantsAssumption DEF TypeOK
  <2> QED BY <1>1, <2>1, <2>2, ExecCommon DEF TypeOK
<1>4. MemoryOK' /\ IteratorOK'
  BY <1>1, <1>2 DEF MemoryOK, IteratorOK
<1>5. ASSUME NEW d \in enabled'
      PROVE  Stale(d)' \subseteq
                missed'[d] \cup (IF Pending(d)' THEN piped' ELSE {})
  <2>1. d \in enabled /\ d \in Contracts
    BY <1>1 DEF TypeOK
  <2>2. Stale(d) \subseteq missed[d] \cup (IF Pending(d) THEN piped ELSE {})
    BY <2>1 DEF KnownOK
  <2>3. CASE d = c
    <3>1. Stale(d)' \subseteq (IF ok THEN Stale(d) \ piped ELSE Stale(d)) \cup vals
      BY <1>0, <1>1, <1>2, <2>3 DEF TypeOK, Stale, Edited
    <3>2. missed'[d] = IF ok THEN (missed[d] \ piped) \cup edits
                       ELSE missed[d] \cup piped
      BY <1>1, <2>1, <2>3
    <3> QED BY <2>2, <3>1, <3>2 DEF vals
  <2>4. CASE d # c
    <3>1. view'[d] = view[d]
      BY <1>1, <2>1, <2>4 DEF TypeOK
    <3>2. Stale(d)' \subseteq Stale(d) \cup vals
      BY <1>2, <3>1 DEF Stale, Edited
    <3>3. missed'[d] = missed[d] \cup vals
      BY <1>1, <2>1, <2>4 DEF vals
    <3>4. Pending(d) => Pending(d)'
      BY <1>1, <1>2, <2>4 DEF Pending, c
    <3> QED BY <1>2, <2>2, <3>2, <3>3, <3>4
  <2> QED BY <2>3, <2>4
<1>6. KnownOK'
  BY <1>5 DEF KnownOK
<1> QED BY <1>3, <1>4, <1>6

\* When all reports are sent nobody is behind with anything it did not miss, so
\* the memory store can be cleared.
LEMMA ValsetUpdatesDoneBlockInv ==
    ASSUME BlockInv, ValsetUpdatesDone
    PROVE  BlockInv'
<1> USE DEF BlockInv, ValsetUpdatesDone
<1>1. piped' = {} /\ twin' = {}
  BY DEF ClearPipedValsetOperations
<1>2. TypeOK'
  BY <1>1 DEF TypeOK, DueTasks
<1>3. MemoryOK' /\ IteratorOK'
  BY <1>1 DEF MemoryOK, IteratorOK, DueTasks
<1>4. ASSUME NEW d \in enabled' PROVE Stale(d)' \subseteq missed'[d]
  <2>1. Stale(d)' = Stale(d)
    BY DEF Stale
  <2>2. ~Pending(d)
    BY DEF Pending
  <2> QED BY <2>1, <2>2 DEF KnownOK
<1>5. KnownOK'
  BY <1>4 DEF KnownOK
<1> QED BY <1>2, <1>3, <1>5

\* A HandleEpoch callback keeps the invariant: what it modifies is late for
\* this block, and all contracts with a cap have a task for it.
LEMMA SendHandleEpochBlockInv ==
    ASSUME BlockInv, NEW t \in due, NEW ok \in BOOLEAN,
           NEW edits \in CallbackEdits, SendHandleEpoch(t, ok, edits)
    PROVE  BlockInv'
<1> USE DEF BlockInv
<1> DEFINE vals == IF ok THEN edits ELSE {}
<1>0. vals \in SUBSET Validators /\ t \in Tasks(Contracts)
  BY ConstantsAssumption DEF TypeOK
<1>1. /\ phase = "epoch"
      /\ ExecScheduledTask(t, ok, edits)
      /\ late' = late \cup vals
      /\ UNCHANGED <<height, phase, enabled, view, missed>>
  BY DEF SendHandleEpoch
<1>2. /\ meta' = Edited(vals)
      /\ piped' = piped \cup vals /\ twin' = twin \cup vals
      /\ fresh' = fresh \cup vals
      /\ tasks' = AfterExec(Notify(tasks, vals), t, height, EpochLength)
      /\ due' = due \ {t}
  BY <1>1 DEF ExecScheduledTask, sendAsync, AfterCallback
<1> HIDE DEF vals
<1>3. TypeOK'
  BY <1>0, <1>1, ExecCommon DEF TypeOK
<1>4. MemoryOK' /\ IteratorOK'
  BY <1>1, <1>2 DEF MemoryOK, IteratorOK
<1>5. \A u \in Notify(tasks, vals) : u.tp = "ValsetUpdate" => u \in tasks'
  <2>1. t.tp = "HandleEpoch"
    BY <1>1 DEF IteratorOK
  <2>2. Notify(tasks, vals) \in SUBSET Tasks(Contracts)
    BY NotifyStore
  <2> QED BY <1>0, <1>2, <2>1, <2>2, ExecStore
<1>6. ASSUME NEW d \in enabled'
      PROVE  Stale(d)' \subseteq
                missed'[d] \cup (IF Pending(d)' THEN piped' ELSE {})
  <2>1. d \in enabled /\ d \in Contracts
    BY <1>1 DEF TypeOK
  <2>2. Stale(d) \subseteq missed[d] \cup (IF Pending(d) THEN piped ELSE {})
    BY <2>1 DEF KnownOK
  <2>3. Stale(d)' \subseteq Stale(d) \cup vals
    BY <1>0, <1>1, <1>2, <2>1, EditedStale
  <2>4. Pending(d) => Pending(d)'
    BY <1>1, <1>5, NotifyStore DEF Pending
  <2>5. ASSUME vals # {} PROVE Pending(d)'
    <3>1. PICK u \in Notify(tasks, vals) :
             u.tp = "ValsetUpdate" /\ u.height = height /\ u.contract = d
      BY <2>1, <2>5, NotifyStore
    <3> QED BY <1>1, <1>5, <3>1 DEF Pending, TypeOK
  <2> QED BY <1>1, <1>2, <2>2, <2>3, <2>4, <2>5
<1>7. KnownOK'
  BY <1>6 DEF KnownOK
<1> QED BY <1>3, <1>4, <1>7

\* The end of a block keeps the invariant: what is left in the memory store is
\* late, and the tasks that go with it are due in the next block.
LEMMA CommitBlockInv ==
    ASSUME BlockInv, Commit
    PROVE  BlockInv'
<1> USE DEF BlockInv, Commit
<1>1. TypeOK'
  BY DEF TypeOK
<1>2. MemoryOK' /\ IteratorOK'
  BY DEF MemoryOK, IteratorOK
<1>3. ASSUME NEW d \in enabled'
      PROVE  Stale(d)' \subseteq
                missed'[d] \cup (IF Pending(d)' THEN piped' ELSE {})
  <2>1. Stale(d)' = Stale(d)
    BY DEF Stale
  <2>2. Pending(d) => Pending(d)'
    BY DEF Pending, TypeOK, Tasks
  <2> QED BY <2>1, <2>2 DEF KnownOK
<1>4. KnownOK'
  BY <1>3 DEF KnownOK
<1> QED BY <1>1, <1>2, <1>4

\* A restart at any point keeps the invariant.
LEMMA RestartBlockInv ==
    ASSUME BlockInv, Restart
    PROVE  BlockInv'
<1> USE DEF BlockInv, Restart
<1>1. TypeOK' /\ MemoryOK' /\ IteratorOK'
  BY DEF TypeOK, MemoryOK, IteratorOK
<1>2. KnownOK'
  BY DEF KnownOK, Stale, Pending
<1> QED BY <1>1, <1>2

\* Every step of the specification keeps the invariant.
LEMMA NextBlockInv == BlockInv /\ [Next]_vars => BlockInv'
<1> SUFFICES ASSUME BlockInv, [Next]_vars PROVE BlockInv'
  OBVIOUS
<1>1. ASSUME NEW c \in Contracts, NEW on \in BOOLEAN,
             SetVirtualStakingMaxCap(c, on)
      PROVE  BlockInv'
  BY <1>1, SetCapBlockInv
<1>2. ASSUME NEW v \in Validators, EditValidator(v) PROVE BlockInv'
  BY <1>2, EditValidatorBlockInv
<1>3. CASE EndBlockerStart
  BY <1>3, EndBlockerStartBlockInv
<1>4. CASE ExecTasks
  BY <1>4, SendValsetUpdateBlockInv, SendHandleEpochBlockInv DEF ExecTasks
<1>5. CASE ValsetUpdatesDone
  BY <1>5, ValsetUpdatesDoneBlockInv
<1>6. CASE Commit
  BY <1>6, CommitBlockInv
<1>7. CASE Restart
  BY <1>7, RestartBlockInv
<1>8. CASE UNCHANGED vars
  <2>1. TypeOK' /\ MemoryOK' /\ IteratorOK'
    BY <1>8 DEF BlockInv, vars, TypeOK, MemoryOK, IteratorOK
  <2>2. KnownOK'
    BY <1>8 DEF BlockInv, vars, KnownOK, Stale, Pending
  <2> QED BY <2>1, <2>2 DEF BlockInv
<1> QED BY <1>1, <1>2, <1>3, <1>4, <1>5, <1>6, <1>7, <1>8 DEF Next

\* The inductive invariant holds in every reachable state.
THEOREM BlockInductive == Spec => []BlockInv
BY InitBlockInv, NextBlockInv, PTL DEF Spec

-----------------------------------------------------------------------------
\* Every variable keeps its type.
THEOREM BlockTypes == Spec => []TypeOK
<1>1. BlockInv => TypeOK
  BY DEF BlockInv
<1> QED BY <1>1, BlockInductive, PTL

\* A node that restarts at any point of any block has the events the reports of
\* that block are built from, but for those of HandleEpoch callbacks.
THEOREM RestartKeepsEvents == Spec => []RestartLosesOnlyLateEvents
<1>1. BlockInv => RestartLosesOnlyLateEvents
  BY DEF BlockInv, MemoryOK, RestartLosesOnlyLateEvents
<1> QED BY <1>1, BlockInductive, PTL

\* Between end blockers a contract with a cap is behind only with what is still
\* to be reported or what it missed, whatever callbacks modify, whichever of
\* them fail, and however caps are taken away and given back.
THEOREM NoOtherWayToFallBehind == Spec => []StaleOnlyIfMissed
<1>1. BlockInv => StaleOnlyIfMissed
  BY DEF BlockInv, KnownOK, StaleOnlyIfMissed
<1> QED BY <1>1, BlockInductive, PTL
=============================================================================
