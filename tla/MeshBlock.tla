------------------------------ MODULE MeshBlock ------------------------------
(***************************************************************************)
(* The whole end blocker of mesh-security (abci.go), block after block: the *)
(* ValsetUpdate half, the clearing of the memory store and the HandleEpoch  *)
(* half, with nodes that restart.  The response handler logs what failed.   *)
(*                                                                         *)
(* Of a validator the model keeps its metadata, which a report copies at    *)
(* the moment it is built (ConvertSdkValidatorToWasm).  ValsetUpdates.tla   *)
(* has all kinds of events, EpochScheduler.tla all of the cap message; here *)
(* the question is how the halves, blocks and nodes act on each other.      *)
(***************************************************************************)
EXTENDS Naturals, FiniteSets, SchedulerStore

CONSTANTS
    Contracts,        \* contract addresses, naturals in byte order
    Validators,
    EpochLength,      \* Params.EpochLength
    CallbackEdits,    \* sets of validators a callback may modify
    MaxHeight         \* bound: the last block that is only started

ASSUME ConstantsAssumption ==
    /\ Contracts \subseteq Nat
    /\ EpochLength \in Nat \ {0}
    /\ {} \in CallbackEdits /\ CallbackEdits \subseteq SUBSET Validators
    /\ MaxHeight \in Nat

VARIABLES
    height,
    phase,      \* "tx" (all before the end blocker), "valset" or "epoch"
    enabled,    \* contracts with a positive cap
    meta,       \* metadata of the validators (external)
    tasks,      \* the scheduler store
    due,        \* what the iterator of ExecScheduledTasks has still to visit
    piped,      \* memory store: validators with a Modified entry
    twin,       \* the same memory store in a node that restarts now and then
    fresh,      \* history: entries made in this block since the last clearing
    late,       \* history: entries made by HandleEpoch callbacks since then
    view,       \* external: the metadata each contract knows
    missed      \* history: validators in reports a contract failed on, or
                \* modified while the reports of the block went out

vars == <<height, phase, enabled, meta, tasks, due, piped, twin, fresh, late,
          view, missed>>

TypeOK ==
    /\ height \in Nat
    /\ phase \in {"tx", "valset", "epoch"}
    /\ enabled \subseteq Contracts
    /\ meta \in [Validators -> {0, 1}]
    /\ tasks \subseteq Tasks(Contracts) /\ due \subseteq Tasks(Contracts)
    /\ piped \subseteq Validators /\ twin \subseteq Validators
    /\ fresh \subseteq Validators /\ late \subseteq Validators
    /\ view \in [Contracts -> [Validators -> {0, 1}]]
    /\ missed \in [Contracts -> SUBSET Validators]

Init ==
    /\ height = 1 /\ phase = "tx"
    /\ enabled = {} /\ tasks = {} /\ due = {}
    /\ piped = {} /\ twin = {} /\ fresh = {} /\ late = {}
    /\ meta = [v \in Validators |-> 0]
    /\ view = [c \in Contracts |-> meta]
    /\ missed = [c \in Contracts |-> {}]

-----------------------------------------------------------------------------
(* Before the end blocker.                                                 *)

\* Mutated forms of CapTasks and Notify.
M_CapTasks(c, on) ==
    ScheduleRepeatingTask(tasks, "Undefined", c, height + EpochLength)

M_Notify(S, vals) ==
    LET new == IF vals = {} \/ piped # {} THEN {} ELSE enabled
    IN  S \cup {[tp |-> "ValsetUpdate", height |-> height, contract |-> c,
                 repeat |-> FALSE] : c \in new}

\* The HandleEpoch tasks after a cap message.
CapTasks(c, on) ==
    IF ~HasScheduledTask(tasks, "HandleEpoch", c, TRUE)
    THEN ScheduleRepeatingTask(tasks, "HandleEpoch", c, height + EpochLength)
    ELSE ScheduleOneShotTask(
           IF on THEN tasks ELSE DeleteAllScheduledTasks(tasks, "HandleEpoch", c),
           "HandleEpoch", c, height)

\* Governance sets a cap, positive or zero.  A contract learns the validator
\* set when it starts to work (external).
SetVirtualStakingMaxCap(c, on) ==
    /\ phase = "tx"
    /\ enabled' = IF on THEN enabled \cup {c} ELSE enabled \ {c}
    /\ tasks' = CapTasks(c, on)
    /\ view' = IF on /\ c \notin enabled THEN [view EXCEPT ![c] = meta] ELSE view
    /\ missed' = IF on /\ c \notin enabled THEN [missed EXCEPT ![c] = {}] ELSE missed
    /\ UNCHANGED <<height, phase, meta, due, piped, twin, fresh, late>>

\* sendAsync for the validators in the set: the one-shot tasks it adds to S.
Notify(S, vals) ==
    LET new == IF vals = {} THEN {}
               ELSE {c \in enabled : ~HasKey(S, "ValsetUpdate", height, c)}
    IN  S \cup {[tp |-> "ValsetUpdate", height |-> height, contract |-> c,
                 repeat |-> FALSE] : c \in new}

Edited(vals) == [v \in Validators |-> IF v \in vals THEN 1 - meta[v] ELSE meta[v]]

\* MsgEditValidator and the hook BeforeValidatorModified; all nodes run it.
sendAsync(S, vals) ==
    /\ meta' = Edited(vals)
    /\ piped' = piped \cup vals
    /\ twin' = twin \cup vals
    /\ fresh' = fresh \cup vals
    /\ tasks' = S

EditValidator(v) ==
    /\ phase = "tx"
    /\ sendAsync(Notify(tasks, {v}), {v})
    /\ UNCHANGED <<height, phase, enabled, due, late, view, missed>>

-----------------------------------------------------------------------------
(* The end blocker.                                                        *)

EndBlockerStart ==
    /\ phase = "tx"
    /\ height < MaxHeight
    /\ phase' = "valset"
    /\ due' = DueTasks(tasks, "ValsetUpdate", height)
    /\ UNCHANGED <<height, enabled, meta, tasks, piped, twin, fresh, late, view,
                   missed>>

FirstDue(t) == t \in due /\ \A u \in due \ {t} : KeyBefore(t, u)

\* The store after a callback that modified validators: its writes are kept if
\* it succeeded, and the entry just run is deleted in any case, last.
AfterCallback(t, ok, edits) ==
    AfterExec(Notify(tasks, IF ok THEN edits ELSE {}), t, height, EpochLength)

\* One step of ExecScheduledTasks: safeExec recovers panics, and a failing
\* callback (out of gas, a panic, an error) leaves no writes behind.
ExecScheduledTask(t, ok, edits) ==
    /\ FirstDue(t)
    /\ sendAsync(AfterCallback(t, ok, edits), IF ok THEN edits ELSE {})
    /\ due' = due \ {t}

\* The sudo call with the report: the contract knows the metadata the report
\* has for the validators it names, or has missed it.  Nobody sends it again.
\* What the callback itself modifies is in the reports that follow only.
SendValsetUpdate(t, ok, edits) ==
    LET c == t.contract
    IN  /\ phase = "valset"
        /\ ExecScheduledTask(t, ok, edits)
        /\ view' = [view EXCEPT ![c] =
             [v \in Validators |-> IF ok /\ v \in piped THEN meta[v] ELSE @[v]]]
        /\ missed' = [d \in Contracts |->
             IF ~ok THEN missed[d] \cup (IF d = c THEN piped ELSE {})
             ELSE (missed[d] \ (IF d = c THEN piped ELSE {})) \cup edits]
        /\ UNCHANGED <<height, phase, enabled, late>>

M_ClearPiped(keys) == keys

ClearPipedValsetOperations(keys) == {}

\* The memory store is cleared when all reports are sent, and the second half
\* begins.
ValsetUpdatesDone ==
    /\ phase = "valset" /\ due = {}
    /\ piped' = ClearPipedValsetOperations(piped)
    /\ twin' = ClearPipedValsetOperations(twin)
    /\ fresh' = {} /\ late' = {}
    /\ phase' = "epoch"
    /\ due' = DueTasks(tasks, "HandleEpoch", height)
    /\ UNCHANGED <<height, enabled, meta, tasks, view, missed>>

SendHandleEpoch(t, ok, edits) ==
    /\ phase = "epoch"
    /\ ExecScheduledTask(t, ok, edits)
    /\ late' = IF ok THEN late \cup edits ELSE late
    /\ UNCHANGED <<height, phase, enabled, view, missed>>

Commit ==
    /\ phase = "epoch" /\ due = {}
    /\ fresh' = {}
    /\ height' = height + 1
    /\ phase' = "tx"
    /\ UNCHANGED <<enabled, meta, tasks, due, piped, twin, late, view, missed>>

\* A node restarts: it loads the last committed version, has a new memory store
\* and runs the current block again from its start.
Restart ==
    /\ twin' = fresh
    /\ UNCHANGED <<height, phase, enabled, meta, tasks, due, piped, fresh, late,
                   view, missed>>

ExecTasks ==
    \E t \in due, ok \in BOOLEAN, edits \in CallbackEdits :
        SendValsetUpdate(t, ok, edits) \/ SendHandleEpoch(t, ok, edits)

Next ==
    \/ \E c \in Contracts, on \in BOOLEAN : SetVirtualStakingMaxCap(c, on)
    \/ \E v \in Validators : EditValidator(v)
    \/ EndBlockerStart
    \/ ExecTasks
    \/ ValsetUpdatesDone
    \/ Commit
    \/ Restart

Spec == Init /\ [][Next]_vars

\* Consensus produces blocks and every callback ends, gas being limited.
FairSpec ==
    /\ Spec
    /\ WF_vars(EndBlockerStart) /\ WF_vars(ExecTasks)
    /\ WF_vars(ValsetUpdatesDone) /\ WF_vars(Commit)

-----------------------------------------------------------------------------
\* A node that restarted, at any point of any block, builds the same reports as
\* one that did not, but for the events of HandleEpoch callbacks: these alone
\* outlive their block in the memory store (abci.go:67, the clearing comes
\* before the second half).
RestartLosesOnlyLateEvents == phase = "valset" => twin \ late = piped \ late

Stale(c) == {v \in Validators : view[c][v] # meta[v]}

\* Outside the end blocker what a contract with a cap does not know about the
\* validators is what is still to be reported, or what it missed and nobody has
\* changed since: there is no retry, and no other way to fall behind
\* (abci.go:65).
StaleOnlyIfMissed ==
    phase = "tx" => \A c \in enabled : Stale(c) \subseteq missed[c] \cup piped

\* Every modification, in whatever phase of a block, is eventually known to a
\* contract that has a cap, unless the contract missed it or lost its cap.  An
\* event of a HandleEpoch callback is late, not lost (abci.go:67).
ModificationArrives ==
    \A c \in Contracts, v \in Validators :
        (c \in enabled /\ v \in Stale(c) /\ height + 1 < MaxHeight)
            ~> (v \notin Stale(c) \/ v \in missed[c] \/ c \notin enabled)
=============================================================================
