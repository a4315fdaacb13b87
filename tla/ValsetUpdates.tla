---------------------------- MODULE ValsetUpdates ----------------------------
(***************************************************************************)
(* Propagation of validator set changes to the virtual staking contracts.  *)
(*                                                                         *)
(* Staking hooks (keeper/staking_hooks.go) and keeper decorators           *)
(* (keeper/adapter.go) note every change of a block in a memory store and  *)
(* schedule a one-shot ValsetUpdate task for every contract with a         *)
(* positive max cap (keeper/valset_updates.go).  The end blocker, last of  *)
(* all modules, sends each of them one report, clears the store and runs   *)
(* the HandleEpoch tasks.  Callbacks of both halves may cause events too.  *)
(*                                                                         *)
(* The phases follow the order of the application's begin and end blockers *)
(* (demo/app/app.go): slashing and evidence, transactions, governance,     *)
(* staking, the two halves of mesh-security.  x/staking, x/slashing and    *)
(* x/evidence are external: they are modelled as far as they drive the     *)
(* hooks.                                                                  *)
(***************************************************************************)
EXTENDS Integers, Sequences, FiniteSets, FiniteSetsExt, SchedulerStore

CONSTANTS
    Contracts,       \* contract addresses, naturals in byte order
    Validators,      \* operator addresses
    CapAmounts,      \* amounts SetMaxCapLimit is called with
    TotalContractsMaxCap,
    MaxValidators,   \* x/staking parameter: size of the active set
    EpochLength,     \* Params.EpochLength
    Powers,          \* consensus power at the time of an infraction
    InfractionAges,  \* how many blocks ago an infraction happened
    SlashAmounts,    \* tokens a slash burns
    FirstHeight,     \* height of the first modelled block
    MaxMessages,     \* bound: messages executed
    MaxHeight        \* bound: the last block that is only started

ASSUME ConstantsAssumption ==
    /\ Contracts \subseteq Nat
    /\ CapAmounts \subseteq Nat /\ TotalContractsMaxCap \in Nat
    /\ EpochLength \in Nat \ {0}
    /\ FirstHeight \in Nat /\ MaxHeight \in Nat /\ MaxMessages \in Nat

VARIABLES
    height,     \* block height
    phase,      \* where the block is: see Phases
    val,        \* the validators (external)
    maxCap,     \* GetMaxCapLimit
    tasks,      \* the scheduler store
    piped,      \* memory store: keys of the valset operations
    due,        \* what the iterator of ExecScheduledTasks has still to visit
    running,    \* the ValsetUpdate task whose successful callback is executing
    results,    \* history: one entry per callback of this valset half
    events,     \* history: what happened to validators since the last clearing
    gone,       \* history: validators removed after such an event
    late,       \* history: a callback of this end blocker caused an event
    owed,       \* history: calls that events ask for and that are not over
    round,      \* history: the calls owed when this valset half began
    before,     \* history: bonded and jailed validators at the last clearing
    messages    \* how many messages were executed, for the bound

state == <<height, phase, val, maxCap, tasks, piped, due, running>>
history == <<results, events, gone, late, owed, round, before>>
vars == <<state, history, messages>>

Phases == {"begin", "tx", "gov", "staking", "valset", "epoch"}

-----------------------------------------------------------------------------
(* Validators as x/staking keeps them.                                     *)

Statuses == {"absent", "unbonded", "unbonding", "bonded"}

\* "locked" after x/slashing jailed the validator in this block: the jail period
\* is not over.
ValidatorState == [status : Statuses, jailed : BOOLEAN, tombstoned : BOOLEAN,
                   locked : BOOLEAN]

Exists(v) == val[v].status # "absent"
Bonded(s) == {v \in Validators : s[v].status = "bonded"}
Jailed(s) == {v \in Validators : s[v].jailed}

NoValidator == [status |-> "absent", jailed |-> FALSE, tombstoned |-> FALSE,
                locked |-> FALSE]

-----------------------------------------------------------------------------
(* Keys of the memory store.  A slash key has the slash information in it: *)
(* two 8-byte words, the amount and the fraction.                          *)

Operations == {"Bonded", "Unbonded", "Jailed", "Tombstoned", "Unjailed",
               "Modified", "Slashed"}

M_SlashWords(slashInfo) == <<slashInfo.Power, slashInfo.InfractionHeight>>

\* The two words BuildPipedValsetOpKey writes, in their order.
SlashWords(slashInfo) == <<slashInfo.InfractionHeight, slashInfo.Power>>

BuildPipedValsetOpKey(op, v) == [op |-> op, val |-> v, slash |-> <<>>]

M_BuildSlashKey(v, slashInfo) ==
    [op |-> "Slashed", val |-> v, slash |-> <<>>]

BuildSlashKey(v, slashInfo) ==
    [op    |-> "Slashed", val |-> v,
     slash |-> SlashWords(slashInfo)
                 \o <<slashInfo.TotalSlashAmount, slashInfo.SlashFraction>>]

\* What iteratePipedValsetOperations reads back from a slash key.
ReadSlashInfo(key) ==
    [Power            |-> key.slash[1],
     InfractionHeight |-> key.slash[2],
     TotalSlashAmount |-> key.slash[3],
     SlashFraction    |-> key.slash[4]]

\* StakingDecorator.Slash: x/slashing and x/evidence pass the infraction
\* height first and the power second; the decorator names its two parameters
\* power and height and hands them to ScheduleSlashed under these names.
ScheduleSlashed(v, power, infractionHeight, amount, fraction) ==
    BuildSlashKey(v, [Power            |-> power,
                      InfractionHeight |-> infractionHeight,
                      TotalSlashAmount |-> amount,
                      SlashFraction    |-> fraction])

StakingDecoratorSlash(v, infractionHeight, power, amount, fraction) ==
    ScheduleSlashed(v, infractionHeight, power, amount, fraction)

-----------------------------------------------------------------------------
\* The contracts IterateMaxCapLimit finds with a positive max cap.
Enabled == {c \in Contracts : maxCap[c] > 0}

M_NotifyAll(S) ==
    S \cup {[tp |-> "ValsetUpdate", height |-> height, contract |-> c,
             repeat |-> FALSE] : c \in Contracts}

\* The one-shot tasks sendAsync adds; an entry with the same key stays.
Notify(S) ==
    LET fresh == {c \in Enabled : ~HasKey(S, "ValsetUpdate", height, c)}
    IN  S \cup {[tp |-> "ValsetUpdate", height |-> height, contract |-> c,
                 repeat |-> FALSE] : c \in fresh}

\* A call is owed to a contract for the events of one block.
Call(t) == [contract |-> t.contract, height |-> t.height]

Owed(keys) ==
    IF keys = {} THEN owed
    ELSE owed \cup {[contract |-> c, height |-> height] : c \in Enabled}

\* sendAsync for every key of a set: each is stored and all enabled contracts
\* are notified.  Only the set of keys matters, not the order of the calls.
sendAsync(keys) ==
    /\ piped' = piped \cup keys
    /\ tasks' = IF keys = {} THEN tasks ELSE Notify(tasks)
    /\ owed' = Owed(keys)

Op(op, v) == [op |-> op, val |-> v]

-----------------------------------------------------------------------------
\* A block boundary of a running chain: any active set, any caps within the
\* limit, nothing pending.
Init ==
    /\ height = FirstHeight
    /\ phase = "begin"
    /\ val \in [Validators -> {NoValidator,
                               [NoValidator EXCEPT !.status = "unbonded"],
                               [NoValidator EXCEPT !.status = "bonded"]}]
    /\ Cardinality(Bonded(val)) <= MaxValidators
    /\ maxCap \in [Contracts -> CapAmounts]
    /\ MapThenSumSet(LAMBDA x : maxCap[x], Contracts) <= TotalContractsMaxCap
    /\ tasks = {} /\ piped = {} /\ due = {} /\ running = {}
    /\ results = <<>>
    /\ events = {} /\ gone = {} /\ owed = {} /\ round = {}
    /\ late = FALSE
    /\ messages = 0
    /\ before = [bonded |-> Bonded(val), jailed |-> {}]

\* The real slash, as the report should describe it.
SlashEvent(v, infractionHeight, power, amount, fraction) ==
    [op |-> "Slashed", val |-> v, power |-> power,
     infractionHeight |-> infractionHeight, amount |-> amount,
     fraction |-> fraction]

M_DowntimeKeys(v, ih, power, amount) ==
    {BuildPipedValsetOpKey("Modified", v),
     StakingDecoratorSlash(v, ih, power, amount, "downtime")}

\* Hooks and decorators a downtime slash goes through: x/staking calls
\* BeforeValidatorModified inside Slash, then the decorator stores the slash,
\* then Jail stores the jailing.
DowntimeKeys(v, ih, power, amount) ==
    {BuildPipedValsetOpKey("Modified", v),
     StakingDecoratorSlash(v, ih, power, amount, "downtime"),
     BuildPipedValsetOpKey("Jailed", v)}

\* x/slashing in its begin blocker: a validator that missed too many blocks
\* is slashed and jailed.
Downtime(v, age, power, amount) ==
    /\ phase = "begin"
    /\ val[v].status \in {"bonded", "unbonding"}
    /\ ~val[v].jailed
    /\ sendAsync(DowntimeKeys(v, height - age, power, amount))
    /\ val' = [val EXCEPT ![v].jailed = TRUE, ![v].locked = TRUE]
    /\ events' = events \cup
         {Op("Modified", v), Op("Jailed", v),
          SlashEvent(v, height - age, power, amount, "downtime")}
    /\ UNCHANGED <<height, phase, maxCap, due, running, results, gone, late,
                   round, before, messages>>

\* x/evidence in its begin blocker: slash, jail unless jailed already, and
\* tombstone, the latter through SlashingKeeperDecorator.Tombstone.
DoubleSign(v, age, power, amount) ==
    LET jailKeys == {BuildPipedValsetOpKey("Jailed", w) :
                        w \in {v} \ Jailed(val)}
    IN  /\ phase = "begin"
        /\ val[v].status \in {"bonded", "unbonding"}
        /\ ~val[v].tombstoned
        /\ sendAsync({BuildPipedValsetOpKey("Modified", v),
                      StakingDecoratorSlash(v, height - age, power, amount,
                                            "doublesign"),
                      BuildPipedValsetOpKey("Tombstoned", v)} \cup jailKeys)
        /\ val' = [val EXCEPT ![v].jailed = TRUE, ![v].tombstoned = TRUE]
        /\ events' = events \cup
             {Op("Modified", v), Op("Tombstoned", v),
              SlashEvent(v, height - age, power, amount, "doublesign")} \cup
             {Op("Jailed", w) : w \in {v} \ Jailed(val)}
        /\ UNCHANGED <<height, phase, maxCap, due, running, results, gone,
                       late, round, before, messages>>

\* Messages are executed in transactions and by contracts in their callbacks, of
\* the second half too, where some HandleEpoch callback executes them (which
\* contract has one due is in EpochScheduler.tla).  A callback that fails leaves
\* nothing behind (CacheContext), so only the messages of successful ones are
\* steps.
Executing ==
    /\ phase \in {"tx", "epoch"} \/ running # {}
    /\ messages < MaxMessages
    /\ messages' = messages + 1

InEndBlocker == phase \in {"valset", "epoch"}

\* MsgUnjail, through StakingDecorator.Unjail, after the jail period.
Unjail(v) ==
    /\ Executing
    /\ Exists(v) /\ val[v].jailed /\ ~val[v].tombstoned /\ ~val[v].locked
    /\ sendAsync({BuildPipedValsetOpKey("Unjailed", v)})
    /\ val' = [val EXCEPT ![v].jailed = FALSE]
    /\ events' = events \cup {Op("Unjailed", v)}
    /\ late' = (late \/ InEndBlocker)
    /\ UNCHANGED <<height, phase, maxCap, due, running, results, gone, round,
                   before>>

\* MsgEditValidator, through the hook BeforeValidatorModified.
EditValidator(v) ==
    /\ Executing
    /\ Exists(v)
    /\ sendAsync({BuildPipedValsetOpKey("Modified", v)})
    /\ events' = events \cup {Op("Modified", v)}
    /\ late' = (late \/ InEndBlocker)
    /\ UNCHANGED <<height, phase, val, maxCap, due, running, results, gone,
                   round, before>>

\* MsgCreateValidator: the hook AfterValidatorCreated does nothing.
CreateValidator(v) ==
    /\ Executing
    /\ ~Exists(v)
    /\ val' = [val EXCEPT ![v] = [NoValidator EXCEPT !.status = "unbonded"]]
    /\ UNCHANGED <<height, phase, maxCap, tasks, piped, due, running, history>>

\* An operator takes its own stake below the minimum it promised: x/staking
\* jails the validator itself, past the decorator and without a hook.
SelfUndelegate(v) ==
    /\ Executing
    /\ Exists(v) /\ ~val[v].jailed
    /\ val' = [val EXCEPT ![v].jailed = TRUE]
    /\ UNCHANGED <<height, phase, maxCap, tasks, piped, due, running, history>>

\* Validators with an event since the last clearing, of the ones removed.
Missed(removed) == {v \in removed : \E e \in events : e.val = v}

\* The last delegator leaves an unbonded validator, for instance a contract in
\* its callback: x/staking removes it at once.  The hook AfterValidatorRemoved
\* does nothing.
LastUndelegate(v) ==
    /\ Executing
    /\ val[v].status = "unbonded"
    /\ val' = [val EXCEPT ![v] = NoValidator]
    /\ gone' = gone \cup Missed({v})
    /\ UNCHANGED <<height, phase, maxCap, tasks, piped, due, running, results,
                   events, late, owed, round, before>>

\* Governance changes a cap (the HandleEpoch tasks that come with it are in
\* EpochScheduler.tla).  ValsetUpdate tasks stay as they are.
SetMaxCapLimit(c, amount) ==
    /\ phase = "gov"
    /\ MapThenSumSet(LAMBDA x : maxCap[x], Contracts \ {c}) + amount
          <= TotalContractsMaxCap
    /\ maxCap' = [maxCap EXCEPT ![c] = amount]
    /\ UNCHANGED <<height, phase, val, tasks, piped, due, running, history,
                   messages>>

\* The end blocker of x/staking: a new active set without jailed validators
\* (hooks AfterValidatorBonded and AfterValidatorBeginUnbonding), then the
\* validators whose unbonding time is over, removed if nobody delegates to
\* them any more.
StakingEndBlocker(active, mature, removed) ==
    LET added  == active \ Bonded(val)
        left   == Bonded(val) \ active
        status == [v \in Validators |->
                     CASE v \in active -> "bonded"
                       [] v \in removed -> "absent"
                       [] v \in mature -> "unbonded"
                       [] v \in left -> "unbonding"
                       [] OTHER -> val[v].status]
    IN  /\ phase = "staking"
        /\ \A v \in active : Exists(v) /\ ~val[v].jailed
        /\ Cardinality(active) <= MaxValidators
        /\ \A v \in mature : val[v].status = "unbonding" /\ v \notin active
        /\ removed \subseteq mature
        /\ sendAsync({BuildPipedValsetOpKey("Bonded", v) : v \in added}
               \cup {BuildPipedValsetOpKey("Unbonded", v) : v \in left})
        /\ val' = [v \in Validators |->
                     IF v \in removed THEN NoValidator
                     ELSE [val[v] EXCEPT !.status = status[v]]]
        /\ events' = events \cup {Op("Bonded", v) : v \in added}
                            \cup {Op("Unbonded", v) : v \in left}
        /\ gone' = gone \cup Missed(removed)
        /\ phase' = "valset"
        /\ due' = DueTasks(tasks', "ValsetUpdate", height)
        /\ round' = owed'
        /\ late' = FALSE
        /\ UNCHANGED <<height, maxCap, running, results, before, messages>>

\* Begin blockers, transactions and governance come to their end.
NextPhase ==
    /\ \/ phase = "begin" /\ phase' = "tx"
       \/ phase = "tx" /\ phase' = "gov"
       \/ phase = "gov" /\ height < MaxHeight /\ phase' = "staking"
    /\ UNCHANGED <<height, val, maxCap, tasks, piped, due, running, history,
                   messages>>

-----------------------------------------------------------------------------
(* The end blocker of mesh-security.                                       *)

OpVals(op) == {k.val : k \in {x \in piped : x.op = op}}

\* Mutated form of ReportFails.
M_ReportFails ==
    \E k \in piped :
        k.op \in {"Bonded", "Modified", "Slashed"} /\ val[k.val].status # "bonded"

\* ValsetUpdateReport fails on a bonded or modified validator that does not
\* exist any more; the end blocker fails on a slashed one.
ReportFails ==
    \E k \in piped : k.op \in {"Bonded", "Modified", "Slashed"} /\ ~Exists(k.val)

\* The report, by type of event; the lists have no duplicates and their order
\* (by validator) tells nothing.  The share of a slash amount that is a
\* contract's own is computed from this by the end blocker.
ValsetUpdateReport ==
    [Additions  |-> OpVals("Bonded"),   Removals |-> OpVals("Unbonded"),
     Updated    |-> OpVals("Modified"), Jailed   |-> OpVals("Jailed"),
     Unjailed   |-> OpVals("Unjailed"), Tombstoned |-> OpVals("Tombstoned"),
     Slashed    |-> {[val |-> k.val, info |-> ReadSlashInfo(k)] :
                        k \in {x \in piped : x.op = "Slashed"}}]

\* The entry of a task is deleted after its callback, in any case, and that
\* call is over.
Finish(t) ==
    /\ tasks' = AfterExec(tasks, t, height, EpochLength)
    /\ owed' = owed \ {Call(t)}

\* ExecScheduledTasks for one ValsetUpdate task, of this block or left by the
\* callbacks of the last one: the report is built and sent to the contract,
\* which may fail on it.  If it does not, it may execute messages of its own
\* until CallbackDone, which the reports for the next contracts will show.
ExecTask(t, ok) ==
    /\ phase = "valset" /\ running = {}
    /\ t \in due
    /\ \A u \in due \ {t} : KeyBefore(t, u)
    /\ ok => ~ReportFails
    /\ results' = Append(results,
         [call    |-> Call(t),
          outcome |-> IF ReportFails THEN "no report"
                      ELSE IF ok THEN "delivered" ELSE "sudo failed",
          reports |-> IF ok THEN {ValsetUpdateReport} ELSE {},
          seen    |-> [events |-> events, val |-> val]])
    /\ due' = due \ {t}
    /\ IF ok THEN running' = {t} /\ UNCHANGED <<tasks, owed>>
             ELSE Finish(t) /\ UNCHANGED running
    /\ UNCHANGED <<height, phase, val, maxCap, piped, events, gone, late, round,
                   before, messages>>

CallbackDone ==
    /\ \E t \in running : Finish(t)
    /\ running' = {}
    /\ UNCHANGED <<height, phase, val, maxCap, piped, due, results, events,
                   gone, late, round, before, messages>>

M_Clear(keys) == keys

M_ClearButSlashes(keys) == {k \in keys : k.op = "Slashed"}

ClearPipedValsetOperations(keys) == {}

\* The memory store is cleared when all reports are sent.
ValsetUpdatesDone ==
    /\ phase = "valset" /\ due = {} /\ running = {}
    /\ piped' = ClearPipedValsetOperations(piped)
    /\ phase' = "epoch"
    /\ results' = <<>>
    /\ events' = {} /\ gone' = {} /\ round' = {}
    /\ before' = [bonded |-> Bonded(val), jailed |-> Jailed(val)]
    /\ UNCHANGED <<height, val, maxCap, tasks, due, running, late, owed,
                   messages>>

\* The end of the HandleEpoch half.  What its callbacks left in the memory store,
\* and the tasks those of both halves left, stay for the next block.
Commit ==
    /\ phase = "epoch"
    /\ height' = height + 1
    /\ phase' = "begin"
    /\ val' = [v \in Validators |-> [val[v] EXCEPT !.locked = FALSE]]
    /\ UNCHANGED <<maxCap, tasks, piped, due, running, history, messages>>

BeginBlock ==
    \E v \in Validators, age \in InfractionAges, power \in Powers,
       amount \in SlashAmounts :
        Downtime(v, age, power, amount) \/ DoubleSign(v, age, power, amount)

Message ==
    \E v \in Validators :
        \/ Unjail(v)
        \/ EditValidator(v)
        \/ CreateValidator(v)
        \/ SelfUndelegate(v)
        \/ LastUndelegate(v)

Next ==
    \/ BeginBlock
    \/ Message
    \/ \E c \in Contracts, amount \in CapAmounts : SetMaxCapLimit(c, amount)
    \/ NextPhase
    \/ \E active, mature, removed \in SUBSET Validators :
          StakingEndBlocker(active, mature, removed)
    \/ \E t \in due, ok \in BOOLEAN : ExecTask(t, ok)
    \/ CallbackDone
    \/ ValsetUpdatesDone
    \/ Commit

Spec == Init /\ [][Next]_vars

-----------------------------------------------------------------------------
Calls == [contract : Contracts, height : Nat]

TypeOK ==
    /\ height \in Nat
    /\ phase \in Phases
    /\ val \in [Validators -> ValidatorState]
    /\ maxCap \in [Contracts -> Nat]
    /\ tasks \subseteq Tasks(Contracts)
    /\ due \subseteq tasks /\ running \subseteq tasks
    /\ \A k \in piped :
          /\ k.op \in Operations /\ k.val \in Validators
          /\ (k.op = "Slashed") = (Len(k.slash) = 4)
    /\ \A i \in 1..Len(results) :
          /\ results[i].call \in Calls
          /\ results[i].outcome \in {"delivered", "sudo failed", "no report"}
    /\ gone \subseteq Validators
    /\ late \in BOOLEAN /\ messages \in Nat
    /\ owed \subseteq Calls /\ round \subseteq Calls
    /\ before \in [bonded : SUBSET Validators, jailed : SUBSET Validators]

\* A report describes exactly how the active set changed in this block: the
\* bonded validators at its start, plus the additions, less the removals, are
\* the ones bonded now.  So a contract that applies every report knows the
\* active set; nothing is left over from an earlier block or a failed report.
ReportIsTheDelta ==
    \A i \in 1..Len(results) : \A r \in results[i].reports :
        /\ (before.bonded \cup r.Additions) \ r.Removals = Bonded(val)
        /\ r.Additions \cap r.Removals = {}

ValsOf(E, op) == {e.val : e \in {x \in E : x.op = op}}

\* A report lists every jailing, unjailing, tombstoning and modification the
\* decorators and hooks saw since the memory store was cleared in the last
\* block, and no other: those that callbacks caused after that clearing, and
\* those that the callbacks of contracts served earlier caused in this block,
\* are in it too.
ReportIsComplete ==
    \A i \in 1..Len(results) : \A r \in results[i].reports :
        /\ r.Updated = ValsOf(results[i].seen.events, "Modified")
        /\ r.Jailed = ValsOf(results[i].seen.events, "Jailed")
        /\ r.Unjailed = ValsOf(results[i].seen.events, "Unjailed")
        /\ r.Tombstoned = ValsOf(results[i].seen.events, "Tombstoned")

\* Every slash of the block arrives once, with its power, infraction height,
\* amount and fraction each in the field of its name, although power and
\* height change places in the decorator and again in the store key; two
\* slashes of one validator in one block stay two.
SlashReportFaithful ==
    \A i \in 1..Len(results) : \A r \in results[i].reports :
        {SlashEvent(s.val, s.info.InfractionHeight, s.info.Power,
                    s.info.TotalSlashAmount, s.info.SlashFraction) :
             s \in r.Slashed}
          = {e \in results[i].seen.events : e.op = "Slashed"}

\* When the reports are out, exactly the calls have been made that were owed
\* when the end blocker began: to each contract that had a positive cap at some
\* event, one for the events of this block and one for those that callbacks
\* caused in the last, each once, whatever the outcome of the other calls,
\* whatever governance did to caps later, and whatever the callbacks of this
\* round add for the next one.
EveryOwedContractCalledOnce ==
    phase = "valset" /\ due = {} /\ running = {} =>
        /\ {results[i].call : i \in 1..Len(results)} = round
        /\ Len(results) = Cardinality(round)

\* What a block leaves to the next one comes from callbacks: without an event
\* in a callback neither the memory store nor the scheduler has anything left.
\* The store has the events of HandleEpoch callbacks only, whose half comes
\* after the clearing (abci.go:67), and no task waits longer than one block.
OnlyCallbacksLeaveWork ==
    phase = "epoch" =>
        /\ ~late => piped = {} /\ tasks = {}
        /\ \A k \in piped : \E e \in events : e.op = k.op /\ e.val = k.val
        /\ \A t \in tasks : t.height = height

\* The report can not be built only if a validator has been removed after an
\* event that the report is about, a late one of the last block included.
NoReportOnlyAfterRemoval ==
    \A i \in 1..Len(results) :
        results[i].outcome = "no report" =>
            \E v \in gone : results[i].seen.val[v].status = "absent"

\* "async send to all registered contracts in the end blocker"
\* (valset_updates.go:58-59): when a contract is called, the report of the
\* block's changes is there to be sent.
ReportAlwaysBuilt ==
    \A i \in 1..Len(results) : results[i].outcome # "no report"

\* "decorate the sdk keeper to capture all jail/ unjail events for MS"
\* (demo/app/app.go:424): the jailed validators at the last report, plus the
\* ones reported jailed, less the ones reported unjailed, are the ones jailed
\* when the report is built (of those that still exist).
JailReportIsTheDelta ==
    \A i \in 1..Len(results) : \A r \in results[i].reports :
        LET then == results[i].seen.val
        IN  {v \in (before.jailed \cup r.Jailed) \ r.Unjailed :
                then[v].status # "absent"} = Jailed(then)
=============================================================================
