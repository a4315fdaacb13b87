------------------------- MODULE ValsetUpdatesProofs -------------------------
(***************************************************************************)
(* The safety properties of ValsetUpdates for all contracts, validators,   *)
(* caps, slashes and heights.                                              *)
(***************************************************************************)
EXTENDS ValsetUpdates, FiniteSetTheorems, TLAPS

(***************************************************************************)
(* The inductive invariant, in parts.                                      *)
(***************************************************************************)

\* An event, as the actions record it.
IsEvent(e) ==
    \/ \E op \in Operations \ {"Slashed"}, v \in Validators : e = Op(op, v)
    \/ \E v \in Validators : \E ih, power, amount, fraction :
          e = SlashEvent(v, ih, power, amount, fraction)

\* The key hooks and decorators store for it.
KeyOf(e) ==
    IF e.op = "Slashed"
    THEN StakingDecoratorSlash(e.val, e.infractionHeight, e.power, e.amount,
                               e.fraction)
    ELSE BuildPipedValsetOpKey(e.op, e.val)

\* The memory store has the key of every event since the last clearing, and no
\* other.
EventsOK ==
    /\ \A e \in events : IsEvent(e)
    /\ piped = {KeyOf(e) : e \in events}

\* Only the end blocker of x/staking changes the active set, and its events are
\* cleared in the same block.
DeltaOK ==
    IF phase = "valset"
    THEN /\ (before.bonded \cup ValsOf(events, "Bonded"))
                \ ValsOf(events, "Unbonded") = Bonded(val)
         /\ ValsOf(events, "Bonded") \cap ValsOf(events, "Unbonded") = {}
    ELSE /\ Bonded(val) = before.bonded
         /\ ValsOf(events, "Bonded") = {} /\ ValsOf(events, "Unbonded") = {}

\* A validator with an event is there, or was removed after it.
GoneOK ==
    \A e \in events : val[e.val].status # "absent" \/ e.val \in gone

TaskOf(p) ==
    [tp |-> "ValsetUpdate", height |-> p.height, contract |-> p.contract,
     repeat |-> FALSE]

Called == {results[i].call : i \in 1..Len(results)}

\* Calls of this round that are not over.
Waiting == (round \ Called) \cup {Call(t) : t \in running}

\* The store has one task for every call that is owed; in the valset half the
\* iterator still visits those of the round that were not made yet.
TasksOK ==
    /\ tasks = {TaskOf(p) : p \in owed}
    /\ \A p \in owed : p.height <= height
    /\ due = {TaskOf(p) : p \in round \ Called}
    /\ Waiting \subseteq owed
    /\ \A t \in running : running = {t} /\ Call(t) \in Called
    /\ phase # "valset" => round = {} /\ running = {}

\* In the end blocker a call is owed that belongs to the round, or because of
\* an event in a callback, for this height.
LateOK ==
    /\ InEndBlocker => \A p \in owed : p \in Waiting \/ (late /\ p.height = height)
    /\ phase = "epoch" /\ events # {} => late

\* No call of the round is made twice.
CallsOK ==
    /\ phase # "valset" => results = <<>>
    /\ Called \subseteq round
    /\ IsFiniteSet(Called)
    /\ Cardinality(Called) = Len(results)

\* What was reported, and why something was not.
ReportsOK ==
    /\ results \in Seq({results[i] : i \in 1..Len(results)})
    /\ ReportIsTheDelta
    /\ ReportIsComplete
    /\ SlashReportFaithful
    /\ NoReportOnlyAfterRemoval

ValsetInv ==
    /\ TypeOK
    /\ EventsOK
    /\ DeltaOK
    /\ GoneOK
    /\ TasksOK
    /\ LateOK
    /\ CallsOK
    /\ ReportsOK

-----------------------------------------------------------------------------
(* Keys and events.                                                        *)

\* The words of a slash key: what the decorator and the key builder exchange
\* is exchanged twice.
LEMMA SlashKey ==
    ASSUME NEW v, NEW ih, NEW power, NEW amount, NEW fraction
    PROVE  StakingDecoratorSlash(v, ih, power, amount, fraction)
             = [op |-> "Slashed", val |-> v,
                slash |-> <<power, ih, amount, fraction>>]
BY DEF StakingDecoratorSlash, ScheduleSlashed, BuildSlashKey, SlashWords

\* The key of each kind of event.
LEMMA KeyOfEvent ==
    /\ \A op \in Operations \ {"Slashed"} : \A v :
          /\ Op(op, v).op = op /\ Op(op, v).val = v
          /\ KeyOf(Op(op, v)) = BuildPipedValsetOpKey(op, v)
    /\ \A v, ih, power, amount, fraction :
          LET e == SlashEvent(v, ih, power, amount, fraction)
          IN  /\ e.op = "Slashed" /\ e.val = v
              /\ KeyOf(e) = StakingDecoratorSlash(v, ih, power, amount, fraction)
BY DEF KeyOf, Op, SlashEvent

\* A key has the operation and the validator of its event, and four words if
\* and only if it is a slash.
LEMMA KeyFields ==
    ASSUME NEW e, IsEvent(e)
    PROVE  /\ e.op \in Operations /\ e.val \in Validators
           /\ KeyOf(e).op = e.op /\ KeyOf(e).val = e.val
           /\ (e.op = "Slashed") = (Len(KeyOf(e).slash) = 4)
<1>1. ASSUME NEW op \in Operations \ {"Slashed"}, NEW v \in Validators,
             e = Op(op, v)
      PROVE  /\ e.op \in Operations /\ e.val \in Validators
             /\ KeyOf(e).op = e.op /\ KeyOf(e).val = e.val
             /\ (e.op = "Slashed") = (Len(KeyOf(e).slash) = 4)
  BY <1>1, KeyOfEvent DEF BuildPipedValsetOpKey
<1>2. ASSUME NEW v \in Validators, NEW ih, NEW power, NEW amount, NEW fraction,
             e = SlashEvent(v, ih, power, amount, fraction)
      PROVE  /\ e.op \in Operations /\ e.val \in Validators
             /\ KeyOf(e).op = e.op /\ KeyOf(e).val = e.val
             /\ (e.op = "Slashed") = (Len(KeyOf(e).slash) = 4)
  <2>1. KeyOf(e) = [op |-> "Slashed", val |-> v,
                    slash |-> <<power, ih, amount, fraction>>]
    BY <1>2, KeyOfEvent, SlashKey
  <2>2. e.op = "Slashed" /\ e.val = v
    BY <1>2, KeyOfEvent
  <2> QED BY <2>1, <2>2 DEF Operations
<1> QED BY <1>1, <1>2 DEF IsEvent

\* The memory store tells which validators had an event of a kind.
LEMMA OpValsIsEventVals ==
    ASSUME EventsOK, NEW op
    PROVE  OpVals(op) = ValsOf(events, op)
BY KeyFields DEF EventsOK, OpVals, ValsOf

\* New events and their keys.
LEMMA Noted ==
    ASSUME EventsOK, NEW STATE E, \A e \in E : IsEvent(e),
           events' = events \cup E, piped' = piped \cup {KeyOf(e) : e \in E}
    PROVE  EventsOK'
BY DEF EventsOK, KeyOf, IsEvent, Op, SlashEvent, StakingDecoratorSlash,
       ScheduleSlashed, BuildSlashKey, SlashWords, BuildPipedValsetOpKey

\* The validators of a kind of event after new ones.
LEMMA ValsOfGrow ==
    ASSUME NEW STATE A, NEW STATE B, NEW op
    PROVE  ValsOf(A \cup B, op) = ValsOf(A, op) \cup ValsOf(B, op)
BY DEF ValsOf

\* What the report has, in terms of events.
LEMMA ReportOfEvents ==
    ASSUME EventsOK
    PROVE  LET r == ValsetUpdateReport
           IN  /\ r.Additions = ValsOf(events, "Bonded")
               /\ r.Removals = ValsOf(events, "Unbonded")
               /\ r.Updated = ValsOf(events, "Modified")
               /\ r.Jailed = ValsOf(events, "Jailed")
               /\ r.Unjailed = ValsOf(events, "Unjailed")
               /\ r.Tombstoned = ValsOf(events, "Tombstoned")
BY OpValsIsEventVals DEF ValsetUpdateReport

\* The slashes in it are those that happened: the words of the key are read
\* back as they were meant.
LEMMA SlashesOfEvents ==
    ASSUME EventsOK
    PROVE  {SlashEvent(s.val, s.info.InfractionHeight, s.info.Power,
                       s.info.TotalSlashAmount, s.info.SlashFraction) :
                s \in ValsetUpdateReport.Slashed}
             = {e \in events : e.op = "Slashed"}
<1> DEFINE Back(s) == SlashEvent(s.val, s.info.InfractionHeight, s.info.Power,
                                 s.info.TotalSlashAmount, s.info.SlashFraction)
           Entry(k) == [val |-> k.val, info |-> ReadSlashInfo(k)]
<1>1. ValsetUpdateReport.Slashed = {Entry(k) : k \in {x \in piped : x.op = "Slashed"}}
  BY DEF ValsetUpdateReport
<1>2. ASSUME NEW e \in events, e.op = "Slashed"
      PROVE  Back(Entry(KeyOf(e))) = e
  <2>1. IsEvent(e)
    BY DEF EventsOK
  <2>2. PICK v \in Validators : \E ih, power, amount, fraction :
           e = SlashEvent(v, ih, power, amount, fraction)
    BY <1>2, <2>1, KeyOfEvent DEF IsEvent
  <2>3. PICK ih, power, amount, fraction :
           e = SlashEvent(v, ih, power, amount, fraction)
    BY <2>2
  <2>4. KeyOf(e) = [op |-> "Slashed", val |-> v,
                    slash |-> <<power, ih, amount, fraction>>]
    BY <2>3, KeyOfEvent, SlashKey
  <2>5. ReadSlashInfo(KeyOf(e))
           = [Power |-> power, InfractionHeight |-> ih,
              TotalSlashAmount |-> amount, SlashFraction |-> fraction]
    BY <2>4 DEF ReadSlashInfo
  <2>6. Entry(KeyOf(e)).val = v /\ Entry(KeyOf(e)).info = ReadSlashInfo(KeyOf(e))
    BY <2>4
  <2> QED BY <2>3, <2>5, <2>6
<1>3. \A k \in piped : k.op = "Slashed" =>
         \E e \in events : e.op = "Slashed" /\ k = KeyOf(e)
  BY KeyFields DEF EventsOK
<1>4. \A e \in events : e.op = "Slashed" =>
         KeyOf(e) \in {x \in piped : x.op = "Slashed"}
  BY KeyFields DEF EventsOK
<1> HIDE DEF Back, Entry
<1>5. {Back(s) : s \in ValsetUpdateReport.Slashed}
        = {e \in events : e.op = "Slashed"}
  BY <1>1, <1>2, <1>3, <1>4
<1> QED BY <1>5 DEF Back

-----------------------------------------------------------------------------
(* Calls and tasks.                                                        *)

\* A call and its task determine each other.
LEMMA CallTask ==
    /\ \A p : /\ TaskOf(p).tp = "ValsetUpdate" /\ TaskOf(p).repeat = FALSE
              /\ TaskOf(p).height = p.height /\ TaskOf(p).contract = p.contract
    /\ \A p \in Calls : Call(TaskOf(p)) = p /\ TaskOf(p) \in Tasks(Contracts)
    /\ \A p, q \in Calls : TaskOf(p) = TaskOf(q) => p = q
<1>1. \A p : /\ TaskOf(p).tp = "ValsetUpdate" /\ TaskOf(p).repeat = FALSE
             /\ TaskOf(p).height = p.height /\ TaskOf(p).contract = p.contract
  BY DEF TaskOf
<1>2. \A p \in Calls : Call(TaskOf(p)) = p
  BY <1>1 DEF Calls, Call
<1>3. \A p \in Calls : TaskOf(p) \in Tasks(Contracts)
  BY DEF Calls, TaskOf, Tasks, TaskTypes
<1> QED BY <1>1, <1>2, <1>3

\* The task of a call that is owed, or that the iterator has still to visit.
LEMMA TaskIsCall ==
    ASSUME TypeOK, TasksOK
    PROVE  /\ \A t \in tasks : t = TaskOf(Call(t)) /\ Call(t) \in owed
           /\ \A t \in due : t = TaskOf(Call(t)) /\ Call(t) \in round \ Called
<1>1. owed \subseteq Calls /\ round \subseteq Calls
  BY DEF TypeOK
<1>2. ASSUME NEW t \in tasks PROVE t = TaskOf(Call(t)) /\ Call(t) \in owed
  <2>1. PICK p \in owed : t = TaskOf(p)
    BY DEF TasksOK
  <2> QED BY <1>1, <2>1, CallTask
<1>3. ASSUME NEW t \in due
      PROVE  t = TaskOf(Call(t)) /\ Call(t) \in round \ Called
  <2>1. PICK p \in round \ Called : t = TaskOf(p)
    BY DEF TasksOK
  <2> QED BY <1>1, <2>1, CallTask
<1> QED BY <1>2, <1>3

\* What sendAsync leaves in the store: one task per call owed.
LEMMA SendAsyncTasks ==
    ASSUME TypeOK, TasksOK, NEW STATE keys, sendAsync(keys)
    PROVE  /\ tasks' = {TaskOf(p) : p \in owed'}
           /\ owed' \subseteq Calls
           /\ owed \subseteq owed'
           /\ \A p \in owed' : p \in owed \/ (keys # {} /\ p.height = height)
<1> DEFINE new == {[contract |-> c, height |-> height] : c \in Enabled}
           S == {[tp |-> "ValsetUpdate", height |-> height, contract |-> c,
                  repeat |-> FALSE] : c \in {d \in Enabled :
                     ~HasKey(tasks, "ValsetUpdate", height, d)}}
<1>1. owed \subseteq Calls /\ height \in Nat /\ new \subseteq Calls
  <2>1. owed \subseteq Calls /\ height \in Nat
    BY DEF TypeOK
  <2>2. \A c \in Enabled : [contract |-> c, height |-> height] \in Calls
    BY <2>1 DEF Calls, Enabled
  <2> QED BY <2>1, <2>2
<1>2. \A p \in new : p.height = height
  OBVIOUS
<1>3. ASSUME NEW c \in Contracts, HasKey(tasks, "ValsetUpdate", height, c)
      PROVE  [contract |-> c, height |-> height] \in owed
  <2>1. PICK t \in tasks : t.height = height /\ t.contract = c
    BY <1>3 DEF HasKey
  <2>2. Call(t) = [contract |-> c, height |-> height]
    BY <2>1 DEF Call
  <2> QED BY <2>2, TaskIsCall
<1>4. \A c : TaskOf([contract |-> c, height |-> height])
               = [tp |-> "ValsetUpdate", height |-> height, contract |-> c,
                  repeat |-> FALSE]
  BY DEF TaskOf
<1>5. tasks \cup S = {TaskOf(p) : p \in owed \cup new}
  <2>1. \A t \in S : \E p \in new : t = TaskOf(p)
    BY <1>4
  <2>2. ASSUME NEW p \in new PROVE TaskOf(p) \in tasks \cup S
    <3>1. PICK c \in Enabled : p = [contract |-> c, height |-> height]
      OBVIOUS
    <3>2. CASE HasKey(tasks, "ValsetUpdate", height, c)
      BY <1>3, <3>1, <3>2 DEF TasksOK, Enabled
    <3>3. CASE ~HasKey(tasks, "ValsetUpdate", height, c)
      BY <1>4, <3>1, <3>3
    <3> QED BY <3>2, <3>3
  <2> HIDE DEF new, S
  <2> QED BY <2>1, <2>2 DEF TasksOK
<1>6. Notify(tasks) = tasks \cup S
  BY DEF Notify
<1>7. owed' = IF keys = {} THEN owed ELSE owed \cup new
  BY DEF sendAsync, Owed
<1>8. tasks' = IF keys = {} THEN tasks ELSE tasks \cup S
  BY <1>6 DEF sendAsync
<1> HIDE DEF new, S
<1> QED BY <1>1, <1>2, <1>5, <1>7, <1>8 DEF TasksOK

\* Finishing a task takes that one out of the store, and its call out of the
\* ones owed.
LEMMA FinishTasks ==
    ASSUME TypeOK, TasksOK, NEW t \in tasks, Finish(t)
    PROVE  /\ owed' = owed \ {Call(t)}
           /\ tasks' = {TaskOf(p) : p \in owed'}
           /\ tasks' = tasks \ {t}
<1>1. t = TaskOf(Call(t)) /\ Call(t) \in owed
  BY TaskIsCall
<1>2. owed' = owed \ {Call(t)} /\ tasks' = AfterExec(tasks, t, height, EpochLength)
  BY DEF Finish
<1>3. t.repeat = FALSE
  BY <1>1, CallTask
<1>4. \A u \in tasks :
         u.tp = t.tp /\ u.height = t.height /\ u.contract = t.contract <=> u = t
  <2> TAKE u \in tasks
  <2>1. u = TaskOf(Call(u))
    BY TaskIsCall
  <2>2. u.height = t.height /\ u.contract = t.contract => Call(u) = Call(t)
    BY DEF Call
  <2> QED BY <1>1, <2>1, <2>2
<1>5. tasks' = tasks \ {t}
  BY <1>2, <1>3, <1>4 DEF AfterExec, deleteScheduledTask
<1>6. tasks \ {t} = {TaskOf(p) : p \in owed \ {Call(t)}}
  <2>1. owed \subseteq Calls
    BY DEF TypeOK
  <2>2. \A p \in owed : TaskOf(p) = t <=> p = Call(t)
    BY <1>1, <2>1, CallTask
  <2> QED BY <2>2 DEF TasksOK
<1> QED BY <1>2, <1>5, <1>6

-----------------------------------------------------------------------------
(* Every step keeps the invariant.                                         *)

\* A block boundary with nothing pending.
LEMMA InitValsetInv == Init => ValsetInv
<1> SUFFICES ASSUME Init PROVE ValsetInv
  OBVIOUS
<1>1. val \in [Validators -> ValidatorState]
  <2>1. NoValidator \in ValidatorState
    BY DEF NoValidator, ValidatorState, Statuses
  <2>2. /\ [NoValidator EXCEPT !.status = "unbonded"] \in ValidatorState
        /\ [NoValidator EXCEPT !.status = "bonded"] \in ValidatorState
    BY <2>1 DEF ValidatorState, Statuses
  <2> QED BY <2>1, <2>2 DEF Init
<1>4. results = <<>> /\ Len(results) = 0 /\ Called = {}
  BY DEF Init, Called
<1>2. TypeOK
  <2>1. before \in [bonded : SUBSET Validators, jailed : SUBSET Validators]
    BY DEF Init, Bonded
  <2>2. /\ height \in Nat /\ messages \in Nat /\ late \in BOOLEAN
        /\ phase \in Phases
        /\ maxCap \in [Contracts -> Nat]
    BY ConstantsAssumption DEF Init, Phases
  <2>3. /\ tasks = {} /\ due = {} /\ running = {} /\ piped = {}
        /\ gone = {} /\ owed = {} /\ round = {}
    BY DEF Init
  <2>4. \A i \in 1..Len(results) : FALSE
    BY <1>4
  <2> QED BY <1>1, <2>1, <2>2, <2>3, <2>4 DEF TypeOK
<1>3. EventsOK /\ DeltaOK /\ GoneOK
  BY DEF Init, EventsOK, DeltaOK, ValsOf, GoneOK
<1>5. TasksOK /\ LateOK /\ CallsOK
  BY <1>4, FS_EmptySet DEF Init, TasksOK, LateOK, CallsOK, Waiting, InEndBlocker
<1>6. ReportsOK
  BY <1>4 DEF ReportsOK, ReportIsTheDelta, ReportIsComplete,
              SlashReportFaithful, NoReportOnlyAfterRemoval
<1> QED BY <1>2, <1>3, <1>5, <1>6 DEF ValsetInv

\* As long as the results and the active set stay, and nobody who is gone comes
\* back, so does what the reports were compared with.
LEMMA ReportsStay ==
    ASSUME ValsetInv, UNCHANGED <<results, before>>, gone \subseteq gone',
           Bonded(val') = Bonded(val)
    PROVE  ReportsOK' /\ Called' = Called
<1>1. Bonded(val)' = Bonded(val)
  BY DEF Bonded
<1> QED BY <1>1 DEF ValsetInv, ReportsOK, ReportIsTheDelta, ReportIsComplete,
                    SlashReportFaithful, NoReportOnlyAfterRemoval, Called

\* The keys of the memory store are well formed.
LEMMA KeysOK ==
    ASSUME EventsOK
    PROVE  \A k \in piped : /\ k.op \in Operations /\ k.val \in Validators
                            /\ (k.op = "Slashed") = (Len(k.slash) = 4)
BY KeyFields DEF EventsOK

\* What hooks and decorators do in begin blockers, transactions and callbacks:
\* whatever they note, the memory store, the tasks and the calls owed stay in
\* step, and in the end blocker the event is late.
LEMMA EventStep ==
    ASSUME ValsetInv, NEW STATE E, E # {},
           \A e \in E : /\ IsEvent(e) /\ e.op \notin {"Bonded", "Unbonded"}
                        /\ val'[e.val].status # "absent",
           sendAsync({KeyOf(e) : e \in E}), events' = events \cup E,
           val' \in [Validators -> ValidatorState],
           \A v \in Validators : val'[v].status = val[v].status,
           late' \in BOOLEAN, late \/ InEndBlocker => late',
           messages' \in Nat,
           UNCHANGED <<height, phase, maxCap, due, running, results, gone,
                       round, before>>
    PROVE  ValsetInv'
<1> USE DEF ValsetInv
<1>1. EventsOK'
  BY Noted DEF sendAsync
<1>2. Bonded(val') = Bonded(val) /\ Bonded(val)' = Bonded(val)
  BY DEF Bonded
<1>3. ReportsOK' /\ Called' = Called
  BY <1>2, ReportsStay
<1>4. /\ tasks' = {TaskOf(p) : p \in owed'}
      /\ owed' \subseteq Calls /\ owed \subseteq owed'
      /\ \A p \in owed' : p \in owed \/ p.height = height
  BY SendAsyncTasks
<1>5. TypeOK'
  <2>1. tasks' \subseteq Tasks(Contracts)
    BY <1>4, CallTask
  <2>2. tasks \subseteq tasks'
    BY <1>4 DEF TasksOK
  <2>3. \A k \in piped' : /\ k.op \in Operations /\ k.val \in Validators
                          /\ (k.op = "Slashed") = (Len(k.slash) = 4)
    BY <1>1, KeyFields DEF EventsOK
  <2> QED BY <1>4, <2>1, <2>2, <2>3 DEF TypeOK
<1>6. DeltaOK'
  <2>1. ASSUME NEW op \in {"Bonded", "Unbonded"}
        PROVE  ValsOf(events', op) = ValsOf(events, op)
    <3>1. \A e \in E : e.op # op
      OBVIOUS
    <3>2. {x \in events' : x.op = op} = {x \in events : x.op = op}
      BY <3>1
    <3> QED BY <3>2 DEF ValsOf
  <2> QED BY <1>2, <2>1 DEF DeltaOK
<1>7. GoneOK'
  <2>1. \A e \in events : e.val \in Validators
    BY KeyFields DEF EventsOK
  <2> QED BY <2>1 DEF GoneOK
<1>8. Waiting' = Waiting
  BY <1>3 DEF Waiting, Call
<1>9. TasksOK'
  <2>1. height \in Nat
    BY DEF TypeOK
  <2>2. \A p \in owed' : p.height <= height'
    BY <1>4, <2>1 DEF TasksOK
  <2>3. due' = {TaskOf(p) : p \in round' \ Called'}
    BY <1>3 DEF TasksOK
  <2>4. \A t \in running' : running' = {t} /\ Call(t) \in Called'
    BY <1>3 DEF TasksOK
  <2> QED BY <1>4, <1>8, <2>2, <2>3, <2>4 DEF TasksOK
<1>10. LateOK'
  BY <1>4, <1>8 DEF LateOK, InEndBlocker
<1>11. CallsOK'
  BY <1>3 DEF CallsOK
<1> QED BY <1>1, <1>3, <1>5, <1>6, <1>7, <1>9, <1>10, <1>11

\* A message is counted.
LEMMA MessagesCount ==
    ASSUME TypeOK, Executing PROVE messages' \in Nat
<1>1. messages \in Nat
  BY DEF TypeOK
<1>2. messages' = messages + 1
  BY DEF Executing
<1> QED BY <1>1, <1>2

\* The slash and the jailing of a downtime are noted under the keys the report
\* reads them from.
LEMMA DowntimeValsetInv ==
    ASSUME ValsetInv, NEW v \in Validators, NEW age, NEW power, NEW amount,
           Downtime(v, age, power, amount)
    PROVE  ValsetInv'
<1> DEFINE slash == SlashEvent(v, height - age, power, amount, "downtime")
           E == {Op("Modified", v), Op("Jailed", v), slash}
<1>1. IsEvent(Op("Modified", v)) /\ IsEvent(Op("Jailed", v)) /\ IsEvent(slash)
  BY DEF IsEvent, Operations
<1>2. /\ Op("Modified", v).op = "Modified" /\ Op("Jailed", v).op = "Jailed"
      /\ slash.op = "Slashed" /\ slash.val = v
      /\ \A op : Op(op, v).val = v
  BY DEF Op, SlashEvent
<1>3. {KeyOf(e) : e \in E} = DowntimeKeys(v, height - age, power, amount)
  <2>1. /\ KeyOf(Op("Modified", v)) = BuildPipedValsetOpKey("Modified", v)
        /\ KeyOf(Op("Jailed", v)) = BuildPipedValsetOpKey("Jailed", v)
        /\ KeyOf(slash) = StakingDecoratorSlash(v, height - age, power, amount,
                                                "downtime")
    BY KeyOfEvent DEF Operations
  <2> QED BY <2>1 DEF DowntimeKeys
<1>4. /\ sendAsync({KeyOf(e) : e \in E}) /\ events' = events \cup E
      /\ UNCHANGED <<height, phase, maxCap, due, running, results, gone, late,
                     round, before, messages>>
      /\ phase = "begin" /\ val[v].status \in {"bonded", "unbonding"}
  BY <1>3 DEF Downtime
<1>5. /\ val' \in [Validators -> ValidatorState]
      /\ \A w \in Validators : val'[w].status = val[w].status
  BY DEF Downtime, ValsetInv, TypeOK, ValidatorState
<1>7. late' \in BOOLEAN /\ messages' \in Nat /\ (late \/ InEndBlocker => late')
  BY <1>4 DEF ValsetInv, TypeOK, InEndBlocker
<1>6. E # {} /\ \A e \in E : /\ IsEvent(e) /\ e.op \notin {"Bonded", "Unbonded"}
                            /\ e.val = v
  BY <1>1, <1>2
<1> HIDE DEF E
<1> QED BY <1>4, <1>5, <1>6, <1>7, EventStep

\* The same for a double sign: slash, jailing if there was one, tombstoning.
LEMMA DoubleSignValsetInv ==
    ASSUME ValsetInv, NEW v \in Validators, NEW age, NEW power, NEW amount,
           DoubleSign(v, age, power, amount)
    PROVE  ValsetInv'
<1> DEFINE slash == SlashEvent(v, height - age, power, amount, "doublesign")
           jailed == {v} \ Jailed(val)
           E == {Op("Modified", v), Op("Tombstoned", v), slash} \cup
                {Op("Jailed", w) : w \in jailed}
<1>1. /\ IsEvent(Op("Modified", v)) /\ IsEvent(Op("Tombstoned", v))
      /\ IsEvent(Op("Jailed", v)) /\ IsEvent(slash)
  BY DEF IsEvent, Operations
<1>2. /\ Op("Modified", v).op = "Modified" /\ Op("Jailed", v).op = "Jailed"
      /\ Op("Tombstoned", v).op = "Tombstoned" /\ slash.op = "Slashed"
      /\ slash.val = v /\ \A op : Op(op, v).val = v
  BY DEF Op, SlashEvent
<1>3. {KeyOf(e) : e \in E}
        = {BuildPipedValsetOpKey("Modified", v),
           StakingDecoratorSlash(v, height - age, power, amount, "doublesign"),
           BuildPipedValsetOpKey("Tombstoned", v)} \cup
          {BuildPipedValsetOpKey("Jailed", w) : w \in jailed}
  <2>1. /\ KeyOf(Op("Modified", v)) = BuildPipedValsetOpKey("Modified", v)
        /\ KeyOf(Op("Tombstoned", v)) = BuildPipedValsetOpKey("Tombstoned", v)
        /\ \A w : KeyOf(Op("Jailed", w)) = BuildPipedValsetOpKey("Jailed", w)
        /\ KeyOf(slash) = StakingDecoratorSlash(v, height - age, power, amount,
                                                "doublesign")
    BY KeyOfEvent DEF Operations
  <2> HIDE DEF slash, jailed
  <2> QED BY <2>1
<1>4. /\ sendAsync({KeyOf(e) : e \in E}) /\ events' = events \cup E
      /\ UNCHANGED <<height, phase, maxCap, due, running, results, gone, late,
                     round, before, messages>>
      /\ phase = "begin" /\ val[v].status \in {"bonded", "unbonding"}
  BY <1>3 DEF DoubleSign
<1>5. /\ val' \in [Validators -> ValidatorState]
      /\ \A w \in Validators : val'[w].status = val[w].status
  BY DEF DoubleSign, ValsetInv, TypeOK, ValidatorState
<1>7. late' \in BOOLEAN /\ messages' \in Nat /\ (late \/ InEndBlocker => late')
  BY <1>4 DEF ValsetInv, TypeOK, InEndBlocker
<1>6. E # {} /\ \A e \in E : /\ IsEvent(e) /\ e.op \notin {"Bonded", "Unbonded"}
                            /\ e.val = v
  <2>1. \A w \in jailed : w = v
    OBVIOUS
  <2> HIDE DEF slash, jailed
  <2> QED BY <1>1, <1>2, <2>1
<1> HIDE DEF E
<1> QED BY <1>4, <1>5, <1>6, <1>7, EventStep

\* An unjailing is noted as such.
LEMMA UnjailValsetInv ==
    ASSUME ValsetInv, NEW v \in Validators, Unjail(v)
    PROVE  ValsetInv'
<1> DEFINE E == {Op("Unjailed", v)}
<1>1. IsEvent(Op("Unjailed", v)) /\ Op("Unjailed", v).op = "Unjailed"
      /\ Op("Unjailed", v).val = v
  BY DEF IsEvent, Operations, Op
<1>2. {KeyOf(e) : e \in E} = {BuildPipedValsetOpKey("Unjailed", v)}
  BY KeyOfEvent DEF Operations
<1>3. /\ sendAsync({KeyOf(e) : e \in E}) /\ events' = events \cup E
      /\ UNCHANGED <<height, phase, maxCap, due, running, results, gone, round,
                     before>>
      /\ late' = (late \/ InEndBlocker) /\ messages' = messages + 1
      /\ val[v].status # "absent"
  BY <1>2 DEF Unjail, Executing, Exists
<1>4. /\ val' \in [Validators -> ValidatorState]
      /\ \A w \in Validators : val'[w].status = val[w].status
  BY DEF Unjail, ValsetInv, TypeOK, ValidatorState
<1>6. late' \in BOOLEAN /\ (late \/ InEndBlocker => late')
  BY <1>3, Zenon DEF ValsetInv, TypeOK
<1>7. messages' \in Nat
  BY MessagesCount DEF ValsetInv, Unjail
<1>5. E # {} /\ \A e \in E : /\ IsEvent(e) /\ e.op \notin {"Bonded", "Unbonded"}
                            /\ e.val = v
  BY <1>1
<1> HIDE DEF E
<1> QED BY <1>3, <1>4, <1>5, <1>6, <1>7, EventStep

\* A modification is noted as such.
LEMMA EditValidatorValsetInv ==
    ASSUME ValsetInv, NEW v \in Validators, EditValidator(v)
    PROVE  ValsetInv'
<1> DEFINE E == {Op("Modified", v)}
<1>1. IsEvent(Op("Modified", v)) /\ Op("Modified", v).op = "Modified"
      /\ Op("Modified", v).val = v
  BY DEF IsEvent, Operations, Op
<1>2. {KeyOf(e) : e \in E} = {BuildPipedValsetOpKey("Modified", v)}
  BY KeyOfEvent DEF Operations
<1>3. /\ sendAsync({KeyOf(e) : e \in E}) /\ events' = events \cup E
      /\ UNCHANGED <<height, phase, maxCap, due, running, results, gone, round,
                     before>>
      /\ late' = (late \/ InEndBlocker) /\ messages' = messages + 1
      /\ val[v].status # "absent"
  BY <1>2 DEF EditValidator, Executing, Exists
<1>4. /\ val' \in [Validators -> ValidatorState]
      /\ \A w \in Validators : val'[w].status = val[w].status
  BY DEF EditValidator, ValsetInv, TypeOK, ValidatorState
<1>6. late' \in BOOLEAN /\ (late \/ InEndBlocker => late')
  BY <1>3, Zenon DEF ValsetInv, TypeOK
<1>7. messages' \in Nat
  BY MessagesCount DEF ValsetInv, EditValidator
<1>5. E # {} /\ \A e \in E : /\ IsEvent(e) /\ e.op \notin {"Bonded", "Unbonded"}
                            /\ e.val = v
  BY <1>1
<1> HIDE DEF E
<1> QED BY <1>3, <1>4, <1>5, <1>6, <1>7, EventStep

\* Steps that note no event and leave the active set alone: in callbacks and
\* before them, from one phase to the next before the end blocker, and at the
\* end of the block.
LEMMA QuietStep ==
    ASSUME ValsetInv,
           \/ UNCHANGED <<height, phase>>
           \/ /\ phase # "valset" /\ phase' \in Phases \ {"valset", "epoch"}
              /\ height' \in {height, height + 1},
           val' \in [Validators -> ValidatorState], Bonded(val') = Bonded(val),
           maxCap' \in [Contracts -> Nat], messages' \in Nat,
           gone \subseteq gone', gone' \subseteq Validators,
           \A e \in events : val[e.val].status = "absent"
                                \/ val'[e.val].status # "absent"
                                \/ e.val \in gone',
           UNCHANGED <<tasks, piped, due, running, results, events, late, owed,
                       round, before>>
    PROVE  ValsetInv'
<1> USE DEF ValsetInv
<1>1. ReportsOK' /\ Called' = Called
  BY ReportsStay
<1>2. TypeOK'
  <2>0. height \in Nat
    BY DEF TypeOK
  <2>1. height' \in Nat
    BY <2>0
  <2>3. phase' \in Phases
    BY Zenon DEF TypeOK
  <2>2. late' = late /\ late' \in BOOLEAN
    BY Zenon DEF TypeOK
  <2> QED BY <2>1, <2>2, <2>3 DEF TypeOK
<1>3. EventsOK'
  BY DEF EventsOK, KeyOf
<1>4. DeltaOK'
  BY DEF DeltaOK, Bonded
<1>5. GoneOK'
  BY DEF GoneOK
<1>6. Waiting' = Waiting
  BY <1>1 DEF Waiting, Call
<1>7. TasksOK'
  <2>1. \A p \in owed' : p.height <= height'
    <3>1. height \in Nat /\ \A p \in owed : p.height \in Nat /\ p.height <= height
      BY DEF TypeOK, TasksOK, Calls
    <3> QED BY <3>1
  <2>2. \A t \in running' : running' = {t} /\ Call(t) \in Called'
    BY <1>1 DEF TasksOK
  <2>3. due' = {TaskOf(p) : p \in round' \ Called'}
    BY <1>1 DEF TasksOK
  <2>4. tasks' = {TaskOf(p) : p \in owed'} /\ Waiting' \subseteq owed'
    BY <1>6 DEF TasksOK
  <2>5. phase' # "valset" => round' = {} /\ running' = {}
    BY DEF TasksOK
  <2> QED BY <2>1, <2>2, <2>3, <2>4, <2>5 DEF TasksOK
<1>8. LateOK'
  BY <1>6 DEF LateOK, InEndBlocker
<1>9. CallsOK'
  BY <1>1 DEF CallsOK
<1> QED BY <1>1, <1>2, <1>3, <1>4, <1>5, <1>7, <1>8, <1>9

\* MsgCreateValidator, a self-undelegation that jails, the removal of an
\* unbonded validator, a cap message, the passage of phases and the end of the
\* block are quiet.
LEMMA QuietValsetInv ==
    ASSUME ValsetInv,
           \/ \E v \in Validators :
                 CreateValidator(v) \/ SelfUndelegate(v) \/ LastUndelegate(v)
           \/ \E c \in Contracts, amount \in CapAmounts : SetMaxCapLimit(c, amount)
           \/ NextPhase
           \/ Commit
    PROVE  ValsetInv'
<1> USE DEF ValsetInv, TypeOK
<1>1. /\ NoValidator \in ValidatorState /\ NoValidator.status = "absent"
      /\ [NoValidator EXCEPT !.status = "unbonded"] \in ValidatorState
      /\ [NoValidator EXCEPT !.status = "unbonded"].status = "unbonded"
  BY DEF NoValidator, ValidatorState, Statuses
<1>0. \A e \in events : e.val \in Validators
  BY KeyFields DEF EventsOK
<1>2. ASSUME NEW v \in Validators, CreateValidator(v) PROVE ValsetInv'
  <2>1. /\ val' \in [Validators -> ValidatorState] /\ Bonded(val') = Bonded(val)
        /\ \A w \in Validators : w # v => val'[w] = val[w]
        /\ val'[v].status # "absent"
    BY <1>1, <1>2 DEF CreateValidator, Exists, Bonded
  <2>2. \A e \in events : val[e.val].status = "absent" \/ val'[e.val].status # "absent"
    BY <1>0, <2>1
  <2>3. messages' \in Nat
    BY <1>2, MessagesCount DEF CreateValidator
  <2> QED BY <1>2, <2>1, <2>2, <2>3, QuietStep DEF CreateValidator, history
<1>3. ASSUME NEW v \in Validators, SelfUndelegate(v) PROVE ValsetInv'
  <2>1. /\ val' \in [Validators -> ValidatorState] /\ Bonded(val') = Bonded(val)
        /\ \A w \in Validators : val'[w].status = val[w].status
    BY <1>3 DEF SelfUndelegate, ValidatorState, Bonded
  <2>2. \A e \in events : val[e.val].status = "absent" \/ val'[e.val].status # "absent"
    BY <1>0, <2>1
  <2>3. messages' \in Nat
    BY <1>3, MessagesCount DEF SelfUndelegate
  <2> QED BY <1>3, <2>1, <2>2, <2>3, QuietStep DEF SelfUndelegate, history
<1>4. ASSUME NEW v \in Validators, LastUndelegate(v) PROVE ValsetInv'
  <2>1. /\ val' \in [Validators -> ValidatorState] /\ Bonded(val') = Bonded(val)
        /\ \A w \in Validators : w # v => val'[w] = val[w]
    BY <1>1, <1>4 DEF LastUndelegate, Bonded
  <2>2. \A e \in events : e.val # v \/ e.val \in gone'
    BY <1>4 DEF LastUndelegate, Missed
  <2>3. gone \subseteq gone' /\ gone' \subseteq Validators
    BY <1>4 DEF LastUndelegate, Missed
  <2>4. \A e \in events : \/ val[e.val].status = "absent"
                         \/ val'[e.val].status # "absent" \/ e.val \in gone'
    BY <1>0, <2>1, <2>2
  <2>5. messages' \in Nat
    BY <1>4, MessagesCount DEF LastUndelegate
  <2> QED BY <1>4, <2>1, <2>3, <2>4, <2>5, QuietStep DEF LastUndelegate
<1>5. ASSUME NEW c \in Contracts, NEW amount \in CapAmounts,
             SetMaxCapLimit(c, amount)
      PROVE  ValsetInv'
  <2>1. maxCap' \in [Contracts -> Nat]
    BY <1>5, ConstantsAssumption DEF SetMaxCapLimit
  <2> QED BY <1>5, <2>1, QuietStep DEF SetMaxCapLimit, history
<1>6. CASE NextPhase
  <2>1. /\ phase # "valset" /\ phase' \in Phases \ {"valset", "epoch"}
        /\ height' = height
    BY <1>6 DEF NextPhase, Phases
  <2> QED BY <1>6, <2>1, QuietStep DEF NextPhase, history
<1>7. CASE Commit
  <2>1. /\ val' \in [Validators -> ValidatorState] /\ Bonded(val') = Bonded(val)
        /\ \A w \in Validators : val'[w].status = val[w].status
    BY <1>7 DEF Commit, ValidatorState, Bonded
  <2>2. /\ phase # "valset" /\ phase' \in Phases \ {"valset", "epoch"}
        /\ height' = height + 1
    BY <1>7 DEF Commit, Phases
  <2> QED BY <1>0, <1>7, <2>1, <2>2, QuietStep DEF Commit, history
<1> QED BY <1>2, <1>3, <1>4, <1>5, <1>6, <1>7

\* The end blocker of x/staking notes exactly the difference between the old
\* and the new active set, and the iterator opened after it visits every
\* call that is owed, left by callbacks of the last block or new.
LEMMA StakingEndBlockerValsetInv ==
    ASSUME ValsetInv, NEW active \in SUBSET Validators,
           NEW mature \in SUBSET Validators, NEW removed \in SUBSET Validators,
           StakingEndBlocker(active, mature, removed)
    PROVE  ValsetInv'
<1> USE DEF ValsetInv
<1> DEFINE added == active \ Bonded(val)
           left == Bonded(val) \ active
           status == [v \in Validators |->
                        CASE v \in active -> "bonded"
                          [] v \in removed -> "absent"
                          [] v \in mature -> "unbonded"
                          [] v \in left -> "unbonding"
                          [] OTHER -> val[v].status]
           E == {Op("Bonded", v) : v \in added} \cup {Op("Unbonded", v) : v \in left}
           keys == {BuildPipedValsetOpKey("Bonded", v) : v \in added}
                     \cup {BuildPipedValsetOpKey("Unbonded", v) : v \in left}
<1>1. /\ phase = "staking"
      /\ \A v \in mature : v \notin active
      /\ removed \subseteq mature
      /\ sendAsync(keys)
      /\ val' = [v \in Validators |->
                   IF v \in removed THEN NoValidator
                   ELSE [val[v] EXCEPT !.status = status[v]]]
      /\ events' = (events \cup {Op("Bonded", v) : v \in added})
                      \cup {Op("Unbonded", v) : v \in left}
      /\ phase' = "valset"
      /\ due' = DueTasks(tasks', "ValsetUpdate", height)
      /\ gone' = gone \cup Missed(removed)
      /\ round' = owed' /\ late' = FALSE
      /\ UNCHANGED <<height, maxCap, running, results, before, messages>>
  BY DEF StakingEndBlocker
<1>0. /\ \A v \in active : val[v].status # "absent"
      /\ \A v \in removed : val[v].status = "unbonding"
  BY DEF StakingEndBlocker, Exists
<1>2. added \subseteq Validators /\ left \subseteq Validators
  BY DEF Bonded
<1>3. val' \in [Validators -> ValidatorState] /\ Bonded(val') = active
  <2>1. NoValidator \in ValidatorState /\ NoValidator.status = "absent"
    BY DEF NoValidator, ValidatorState, Statuses
  <2>2. ASSUME NEW v \in Validators
        PROVE  status[v] \in Statuses /\ (status[v] = "bonded" <=> v \in active)
    <3>1. val[v].status \in Statuses
      BY DEF TypeOK, ValidatorState
    <3>2. CASE v \in active
      <4>1. v \notin removed /\ v \notin mature /\ v \notin left
        BY <1>1, <3>2
      <4> HIDE DEF left
      <4>2. status[v] = "bonded"
        BY <3>2, <4>1
      <4> QED BY <3>2, <4>2 DEF Statuses
    <3>3. CASE v \notin active
      <4>1. val[v].status = "bonded" => v \in left
        BY <3>3 DEF Bonded
      <4> HIDE DEF left
      <4> QED BY <3>1, <3>3, <4>1 DEF Statuses
    <3> QED BY <3>2, <3>3
  <2> HIDE DEF status
  <2>3. ASSUME NEW v \in Validators
        PROVE  /\ val'[v] \in ValidatorState
               /\ val'[v].status = "bonded" <=> v \in active
    <3>1. CASE v \in removed
      BY <1>1, <2>1, <3>1
    <3>2. CASE v \notin removed
      <4>1. val'[v] = [val[v] EXCEPT !.status = status[v]]
        BY <1>1, <3>2
      <4>2. val[v] \in ValidatorState
        BY DEF TypeOK
      <4>3. val'[v].status = status[v]
        BY <4>1, <4>2 DEF ValidatorState
      <4> QED BY <2>2, <4>1, <4>2, <4>3 DEF ValidatorState
    <3> QED BY <3>1, <3>2
  <2>4. val' \in [Validators -> ValidatorState]
    BY <1>1, <2>3
  <2> QED BY <2>3, <2>4 DEF Bonded
<1>4. keys = {KeyOf(e) : e \in E}
  <2>1. \A v : /\ KeyOf(Op("Bonded", v)) = BuildPipedValsetOpKey("Bonded", v)
               /\ KeyOf(Op("Unbonded", v)) = BuildPipedValsetOpKey("Unbonded", v)
    BY KeyOfEvent DEF Operations
  <2> HIDE DEF added, left
  <2> QED BY <2>1
<1>5. events' = events \cup E /\ piped' = piped \cup {KeyOf(e) : e \in E}
  BY <1>1, <1>4 DEF sendAsync
<1>6. \A e \in E : IsEvent(e)
  <2>1. \A v \in Validators : IsEvent(Op("Bonded", v)) /\ IsEvent(Op("Unbonded", v))
    BY DEF IsEvent, Operations
  <2> QED BY <1>2, <2>1
<1>7. EventsOK'
  <2> HIDE DEF E
  <2> QED BY <1>5, <1>6, Noted
<1>8. DeltaOK'
  <2>1. \A v : /\ Op("Bonded", v).op = "Bonded" /\ Op("Bonded", v).val = v
               /\ Op("Unbonded", v).op = "Unbonded" /\ Op("Unbonded", v).val = v
    BY DEF Op
  <2>2. ValsOf(E, "Bonded") = added /\ ValsOf(E, "Unbonded") = left
    <3> HIDE DEF added, left
    <3> QED BY <2>1 DEF ValsOf
  <2> HIDE DEF added, left, E
  <2>3. /\ ValsOf(events', "Bonded") = ValsOf(events, "Bonded") \cup added
        /\ ValsOf(events', "Unbonded") = ValsOf(events, "Unbonded") \cup left
    BY <1>5, <2>2, ValsOfGrow
  <2>5. /\ ValsOf(events, "Bonded") = {} /\ ValsOf(events, "Unbonded") = {}
        /\ Bonded(val) = before.bonded
    BY <1>1 DEF DeltaOK
  <2>6. Bonded(val)' = active
    BY <1>3 DEF Bonded
  <2>7. (Bonded(val) \cup added) \ left = active /\ added \cap left = {}
    BY DEF added, left
  <2> QED BY <1>1, <2>3, <2>5, <2>6, <2>7 DEF DeltaOK
<1>9. GoneOK' /\ gone' \subseteq Validators /\ gone \subseteq gone'
  <2>1. \A v \in Validators : v \notin removed /\ val[v].status # "absent"
                               => val'[v].status # "absent"
    <3> TAKE v \in Validators
    <3>1. val[v] \in ValidatorState
      BY DEF TypeOK
    <3>2. v \notin removed => val'[v].status = status[v]
      <4> HIDE DEF status
      <4> QED BY <1>1, <3>1 DEF ValidatorState
    <3>3. v \notin removed /\ val[v].status # "absent" => status[v] # "absent"
      <4> HIDE DEF left
      <4> QED OBVIOUS
    <3> QED BY <3>2, <3>3
  <2>2. ASSUME NEW e \in E
        PROVE  e.val \in Validators \ removed /\ val[e.val].status # "absent"
    <3>1. \A v : Op("Bonded", v).val = v /\ Op("Unbonded", v).val = v
      BY DEF Op
    <3>2. PICK v \in active \cup Bonded(val) : e.val = v
      BY <3>1
    <3>3. val[v].status = "bonded" \/ v \in active
      BY <3>2 DEF Bonded
    <3>4. v \in Validators
      BY <3>2 DEF Bonded
    <3>5. v \notin removed
      BY <1>0, <1>1, <3>3
    <3> QED BY <1>0, <3>2, <3>3, <3>4, <3>5
  <2>3. \A e \in events : e.val \in removed => e.val \in gone'
    BY <1>1 DEF Missed
  <2>4. \A e \in events : e.val \in Validators
    BY KeyFields DEF EventsOK
  <2>5. gone' \subseteq Validators /\ gone \subseteq gone'
    BY <1>1 DEF Missed, TypeOK
  <2> HIDE DEF E, status
  <2> QED BY <1>5, <2>1, <2>2, <2>3, <2>4, <2>5 DEF GoneOK
<1>10. /\ tasks' = {TaskOf(p) : p \in owed'}
       /\ owed' \subseteq Calls
       /\ \A p \in owed' : p \in owed \/ p.height = height
  BY <1>1, SendAsyncTasks
<1> HIDE DEF added, left, status, E, keys
<1>11. results' = <<>> /\ results = <<>> /\ running' = {} /\ Called' = {}
  BY <1>1 DEF CallsOK, TasksOK, Called
<1>12. \A p \in owed' : p.height <= height
  <2>1. height \in Nat
    BY DEF TypeOK
  <2> QED BY <1>10, <2>1 DEF TasksOK
<1>13. due' = tasks'
  <2>1. \A p : TaskOf(p).tp = "ValsetUpdate" /\ TaskOf(p).height = p.height
    BY CallTask
  <2> QED BY <1>1, <1>10, <1>12, <2>1 DEF DueTasks
<1>14. TypeOK'
  <2>1. \A k \in piped' : /\ k.op \in Operations /\ k.val \in Validators
                          /\ (k.op = "Slashed") = (Len(k.slash) = 4)
    BY <1>7, KeyFields DEF EventsOK
  <2>2. tasks' \subseteq Tasks(Contracts)
    BY <1>10, CallTask
  <2>3. Len(results') = 0 /\ \A i \in 1..0 : FALSE
    BY <1>11
  <2> QED BY <1>1, <1>3, <1>9, <1>10, <1>11, <1>13, <2>1, <2>2, <2>3
          DEF TypeOK, Phases
<1>15. TasksOK'
  <2>1. Waiting' = owed'
    BY <1>1, <1>11 DEF Waiting
  <2>2. round' \ Called' = owed'
    BY <1>1, <1>11
  <2>3. due' = {TaskOf(p) : p \in round' \ Called'}
    BY <1>10, <1>13, <2>2
  <2> QED BY <1>1, <1>10, <1>11, <1>12, <2>1, <2>3 DEF TasksOK
<1>16. LateOK'
  <2>1. Waiting' = owed'
    BY <1>1, <1>11 DEF Waiting
  <2> QED BY <1>1, <2>1 DEF LateOK
<1>17. CallsOK'
  BY <1>1, <1>11, FS_EmptySet DEF CallsOK
<1>18. ReportsOK'
  <2>1. Len(results') = 0 /\ \A i \in 1..0 : FALSE
    BY <1>11
  <2> QED BY <1>11, <2>1 DEF ReportsOK, ReportIsTheDelta, ReportIsComplete,
                             SlashReportFaithful, NoReportOnlyAfterRemoval
<1> QED BY <1>7, <1>8, <1>9, <1>14, <1>15, <1>16, <1>17, <1>18

\* A sequence is one over any set that has its elements.
LEMMA SeqWider ==
    ASSUME NEW S, NEW T, NEW s \in Seq(S), S \subseteq T
    PROVE  s \in Seq(T)
OBVIOUS

\* Sending a report keeps the invariant, whatever its outcome: the call is the
\* first of its kind in the round, the report tells what happened, and it is not
\* built only for want of a validator that had an event.
LEMMA ExecTaskValsetInv ==
    ASSUME ValsetInv, NEW t \in due, NEW ok \in BOOLEAN, ExecTask(t, ok)
    PROVE  ValsetInv'
<1> USE DEF ValsetInv
<1> DEFINE outcome == IF ReportFails THEN "no report"
                      ELSE IF ok THEN "delivered" ELSE "sudo failed"
           reports == IF ok THEN {ValsetUpdateReport} ELSE {}
           seen == [events |-> events, val |-> val]
           new == [call |-> Call(t), outcome |-> outcome, reports |-> reports,
                   seen |-> seen]
           n == Len(results)
<1>1. /\ phase = "valset" /\ running = {}
      /\ results' = Append(results, new)
      /\ due' = due \ {t}
      /\ UNCHANGED <<height, phase, val, maxCap, piped, events, gone, late,
                     round, before, messages>>
  BY DEF ExecTask
<1>2. t = TaskOf(Call(t)) /\ Call(t) \in round \ Called /\ Call(t) \in owed
  BY TaskIsCall DEF TasksOK, Waiting
<1>3. t \in tasks
  BY <1>2 DEF TasksOK
<1>4. /\ new.call = Call(t) /\ new.outcome = outcome /\ new.reports = reports
      /\ new.seen = seen /\ seen.events = events /\ seen.val = val
  OBVIOUS
<1> HIDE DEF new, outcome, reports, seen
<1>5. /\ n \in Nat /\ Len(results') = n + 1
      /\ \A i \in 1..n : results'[i] = results[i]
      /\ results'[n + 1] = new
      /\ \A i \in 1..(n + 1) : i \in 1..n \/ i = n + 1
      /\ results' \in Seq({results'[i] : i \in 1..Len(results')})
  <2> DEFINE S == {results[i] : i \in 1..n}
             T == S \cup {new}
  <2>1. results \in Seq(S) /\ n \in Nat
    BY DEF ReportsOK
  <2>2. results \in Seq(T)
    <3> HIDE DEF S
    <3> QED BY <2>1, SeqWider
  <2> HIDE DEF T
  <2>3. new \in T
    BY DEF T
  <2>4. /\ Len(results') = n + 1 /\ results' \in Seq(T)
        /\ \A i \in 1..n : results'[i] = results[i]
        /\ results'[n + 1] = new
    BY <1>1, <2>2, <2>3
  <2>5. \A i \in 1..(n + 1) : i \in 1..n \/ i = n + 1
    BY <2>1
  <2>6. results' \in Seq({results'[i] : i \in 1..Len(results')})
    BY <2>4
  <2> QED BY <2>1, <2>4, <2>5, <2>6
<1> HIDE DEF n
<1>6. Called' = Called \cup {Call(t)}
  <2>1. \A i \in 1..n : i \in 1..(n + 1)
    BY <1>5
  <2>2. n + 1 \in 1..(n + 1)
    BY <1>5
  <2> QED BY <1>4, <1>5, <2>1, <2>2 DEF Called, n
<1>7. round' \ Called' = (round \ Called) \ {Call(t)}
  BY <1>1, <1>6
<1>8. due' = {TaskOf(p) : p \in round' \ Called'}
  <2>1. round \subseteq Calls /\ due = {TaskOf(p) : p \in round \ Called}
    BY DEF TypeOK, TasksOK
  <2>2. \A p \in round \ Called : TaskOf(p) = t <=> p = Call(t)
    BY <1>2, <2>1, CallTask
  <2> QED BY <1>1, <1>7, <2>1, <2>2
<1>9. /\ tasks' = {TaskOf(p) : p \in owed'}
      /\ owed' \subseteq owed /\ tasks' \subseteq tasks
      /\ running' \subseteq {t} /\ running' \subseteq tasks'
      /\ Waiting' \subseteq owed'
      /\ \A p \in owed' : p \in Waiting => p \in Waiting'
  <2>1. Waiting = round \ Called /\ Waiting \subseteq owed
    BY <1>1 DEF Waiting, TasksOK
  <2>2. CASE ok
    <3>1. running' = {t} /\ tasks' = tasks /\ owed' = owed
      BY <2>2 DEF ExecTask
    <3>2. Waiting' = ((round \ Called) \ {Call(t)}) \cup {Call(t)}
      BY <1>7, <3>1 DEF Waiting, Call
    <3> QED BY <1>2, <1>3, <2>1, <3>1, <3>2 DEF TasksOK
  <2>3. CASE ~ok
    <3>1. running' = {} /\ Finish(t)
      BY <1>1, <2>3 DEF ExecTask
    <3>2. /\ tasks' = {TaskOf(p) : p \in owed'} /\ owed' = owed \ {Call(t)}
          /\ tasks' = tasks \ {t}
      BY <1>3, <3>1, FinishTasks
    <3>3. Waiting' = (round \ Called) \ {Call(t)}
      BY <1>7, <3>1 DEF Waiting
    <3> QED BY <2>1, <3>1, <3>2, <3>3
  <2> QED BY <2>2, <2>3
<1>10. TypeOK'
  <2>1. Call(t) \in Calls
    BY <1>2 DEF TypeOK
  <2>2. \A i \in 1..Len(results') :
           /\ results'[i].call \in Calls
           /\ results'[i].outcome \in {"delivered", "sudo failed", "no report"}
    <3>1. \A i \in 1..n :
             /\ results[i].call \in Calls
             /\ results[i].outcome \in {"delivered", "sudo failed", "no report"}
      BY DEF TypeOK, n
    <3>2. outcome \in {"delivered", "sudo failed", "no report"}
      BY DEF outcome
    <3> QED BY <1>4, <1>5, <2>1, <3>1, <3>2
  <2>3. due' \subseteq tasks'
    BY <1>8, <1>9 DEF Waiting
  <2>4. /\ tasks' \subseteq Tasks(Contracts) /\ owed' \subseteq Calls
        /\ running' \subseteq tasks'
    BY <1>9 DEF TypeOK
  <2> QED BY <1>1, <2>2, <2>3, <2>4 DEF TypeOK
<1>11. EventsOK'
  BY <1>1 DEF EventsOK, KeyOf
<1>12. DeltaOK' /\ GoneOK'
  BY <1>1 DEF DeltaOK, GoneOK, Bonded
<1>13. TasksOK'
  <2>1. \A p \in owed' : p.height <= height'
    BY <1>1, <1>9 DEF TasksOK
  <2>2. \A u \in running' : running' = {u} /\ Call(u) \in Called'
    BY <1>6, <1>9
  <2>3. phase' = "valset"
    BY <1>1
  <2> QED BY <1>8, <1>9, <2>1, <2>2, <2>3 DEF TasksOK
<1>14. LateOK'
  BY <1>1, <1>9 DEF LateOK, InEndBlocker
<1>15. CallsOK'
  <2>1. /\ IsFiniteSet(Called \cup {Call(t)})
        /\ Cardinality(Called \cup {Call(t)}) = Cardinality(Called) + 1
    BY <1>2, FS_AddElement DEF CallsOK
  <2> QED BY <1>1, <1>2, <1>5, <1>6, <2>1 DEF CallsOK, n
<1>16. ReportIsTheDelta'
  <2>1. /\ (before.bonded \cup ValsOf(events, "Bonded"))
              \ ValsOf(events, "Unbonded") = Bonded(val)
        /\ ValsOf(events, "Bonded") \cap ValsOf(events, "Unbonded") = {}
    BY <1>1 DEF DeltaOK
  <2>2. \A r \in new.reports :
           /\ r.Additions = ValsOf(events, "Bonded")
           /\ r.Removals = ValsOf(events, "Unbonded")
    BY <1>4, ReportOfEvents DEF reports
  <2>3. Bonded(val)' = Bonded(val)
    BY <1>1 DEF Bonded
  <2> QED BY <1>1, <1>5, <2>1, <2>2, <2>3 DEF ReportsOK, ReportIsTheDelta, n
<1>17. ReportIsComplete'
  <2>1. \A r \in new.reports :
           /\ r.Updated = ValsOf(new.seen.events, "Modified")
           /\ r.Jailed = ValsOf(new.seen.events, "Jailed")
           /\ r.Unjailed = ValsOf(new.seen.events, "Unjailed")
           /\ r.Tombstoned = ValsOf(new.seen.events, "Tombstoned")
    BY <1>4, ReportOfEvents DEF reports
  <2>2. \A i \in 1..n : \A r \in results[i].reports :
           /\ r.Updated = ValsOf(results[i].seen.events, "Modified")
           /\ r.Jailed = ValsOf(results[i].seen.events, "Jailed")
           /\ r.Unjailed = ValsOf(results[i].seen.events, "Unjailed")
           /\ r.Tombstoned = ValsOf(results[i].seen.events, "Tombstoned")
    BY DEF ReportsOK, ReportIsComplete, n
  <2>3. ASSUME NEW i \in 1..(n + 1), NEW r \in results'[i].reports
        PROVE  /\ r.Updated = ValsOf(results'[i].seen.events, "Modified")
               /\ r.Jailed = ValsOf(results'[i].seen.events, "Jailed")
               /\ r.Unjailed = ValsOf(results'[i].seen.events, "Unjailed")
               /\ r.Tombstoned = ValsOf(results'[i].seen.events, "Tombstoned")
    <3>1. CASE i \in 1..n
      BY <1>5, <2>2, <3>1
    <3>2. CASE i = n + 1
      BY <1>5, <2>1, <3>2
    <3> QED BY <1>5, <3>1, <3>2
  <2> QED BY <1>5, <2>3 DEF ReportIsComplete, ValsOf
<1>18. SlashReportFaithful'
  <2>1. \A r \in new.reports :
           {SlashEvent(s.val, s.info.InfractionHeight, s.info.Power,
                       s.info.TotalSlashAmount, s.info.SlashFraction) :
                s \in r.Slashed} = {e \in new.seen.events : e.op = "Slashed"}
    BY <1>4, SlashesOfEvents DEF reports
  <2> QED BY <1>5, <2>1 DEF ReportsOK, SlashReportFaithful, n
<1>19. NoReportOnlyAfterRemoval'
  <2>1. ASSUME outcome = "no report"
        PROVE  \E v \in gone : val[v].status = "absent"
    <3>1. ReportFails
      BY <2>1 DEF outcome
    <3>2. PICK k \in piped : val[k.val].status = "absent"
      BY <3>1 DEF ReportFails, Exists
    <3>3. PICK e \in events : k = KeyOf(e)
      BY DEF EventsOK
    <3>4. k.val = e.val
      BY <3>3, KeyFields DEF EventsOK
    <3> QED BY <3>2, <3>4 DEF GoneOK
  <2>2. new.outcome = "no report" =>
           \E v \in gone : new.seen.val[v].status = "absent"
    BY <1>4, <2>1
  <2> QED BY <1>1, <1>5, <2>2 DEF ReportsOK, NoReportOnlyAfterRemoval, n
<1>20. ReportsOK'
  BY <1>5, <1>16, <1>17, <1>18, <1>19 DEF ReportsOK
<1> QED BY <1>10, <1>11, <1>12, <1>13, <1>14, <1>15, <1>20

\* The end of a callback deletes its task and no other: the ones its own events
\* added for contracts that were served already stay for the next block.
LEMMA CallbackDoneValsetInv ==
    ASSUME ValsetInv, CallbackDone
    PROVE  ValsetInv'
<1> USE DEF ValsetInv
<1>1. PICK t \in running : Finish(t)
  BY DEF CallbackDone
<1>2. /\ running' = {}
      /\ UNCHANGED <<height, phase, val, maxCap, piped, due, results, events,
                     gone, late, round, before, messages>>
  BY DEF CallbackDone
<1>3. t \in tasks /\ Call(t) \in Called
  BY <1>1 DEF TypeOK, TasksOK
<1>4. /\ owed' = owed \ {Call(t)}
      /\ tasks' = {TaskOf(p) : p \in owed'}
      /\ tasks' = tasks \ {t}
  BY <1>1, <1>3, FinishTasks
<1>5. ReportsOK' /\ Called' = Called
  BY <1>2, ReportsStay
<1>6. Waiting' = round \ Called /\ round \ Called \subseteq owed'
  <2>1. round \ Called \subseteq owed
    BY DEF TasksOK, Waiting
  <2>2. Waiting' = round \ Called
    BY <1>2, <1>5 DEF Waiting
  <2> QED BY <1>3, <1>4, <2>1, <2>2
<1>7. due' = {TaskOf(p) : p \in round' \ Called'}
  BY <1>2, <1>5 DEF TasksOK
<1>8. TypeOK'
  <2>1. due' \subseteq tasks'
    BY <1>2, <1>4, <1>5, <1>6, <1>7
  <2> QED BY <1>2, <1>4, <2>1 DEF TypeOK
<1>9. EventsOK'
  BY <1>2 DEF EventsOK, KeyOf
<1>10. DeltaOK' /\ GoneOK'
  BY <1>2 DEF DeltaOK, GoneOK, Bonded
<1>11. TasksOK'
  <2>1. \A p \in owed' : p.height <= height'
    BY <1>2, <1>4 DEF TasksOK
  <2>2. phase' # "valset" => round' = {} /\ running' = {}
    BY <1>2 DEF TasksOK
  <2> QED BY <1>2, <1>4, <1>6, <1>7, <2>1, <2>2 DEF TasksOK
<1>12. LateOK'
  <2>1. phase = "valset"
    BY <1>1 DEF TasksOK
  <2>2. \A p \in owed' : p \in Waiting => p \in Waiting'
    <3>0. \A u \in running : u = t
      BY <1>1 DEF TasksOK
    <3> QED BY <1>4, <1>6, <3>0 DEF Waiting
  <2> QED BY <1>2, <1>4, <2>1, <2>2 DEF LateOK, InEndBlocker
<1>13. CallsOK'
  BY <1>2, <1>5 DEF CallsOK
<1> QED BY <1>5, <1>8, <1>9, <1>10, <1>11, <1>12, <1>13

\* The end of the first half: what is left is due to callbacks.
LEMMA ValsetUpdatesDoneValsetInv ==
    ASSUME ValsetInv, ValsetUpdatesDone
    PROVE  ValsetInv'
<1> USE DEF ValsetInv
<1>1. /\ phase = "valset" /\ due = {} /\ running = {}
      /\ piped' = {} /\ phase' = "epoch"
      /\ results' = <<>> /\ events' = {} /\ gone' = {} /\ round' = {}
      /\ before' = [bonded |-> Bonded(val), jailed |-> Jailed(val)]
      /\ UNCHANGED <<height, val, maxCap, tasks, due, running, late, owed, messages>>
  BY DEF ValsetUpdatesDone, ClearPipedValsetOperations
<1>2. round \ Called = {} /\ Waiting = {}
  BY <1>1 DEF TasksOK, Waiting
<1>3. Called' = {} /\ Waiting' = {}
  BY <1>1 DEF Called, Waiting
<1>4. TypeOK'
  <2>1. before' \in [bonded : SUBSET Validators, jailed : SUBSET Validators]
    BY <1>1 DEF Bonded, Jailed
  <2>2. Len(results') = 0 /\ \A i \in 1..0 : FALSE
    BY <1>1
  <2>3. \A i \in 1..Len(results') : FALSE
    BY <2>2
  <2>4. height' \in Nat /\ phase' \in Phases
    BY <1>1 DEF TypeOK, Phases
  <2>5. late' \in BOOLEAN
    BY <1>1, Zenon DEF TypeOK
  <2> QED BY <1>1, <2>1, <2>3, <2>4, <2>5 DEF TypeOK
<1>5. EventsOK' /\ GoneOK'
  BY <1>1 DEF EventsOK, GoneOK
<1>6. DeltaOK'
  BY <1>1 DEF DeltaOK, ValsOf, Bonded
<1>7. TasksOK'
  <2>1. \A p \in owed' : p.height <= height'
    BY <1>1 DEF TasksOK
  <2>2. due' = {TaskOf(p) : p \in round' \ Called'}
    BY <1>1
  <2> QED BY <1>1, <1>3, <2>1, <2>2 DEF TasksOK
<1>8. LateOK'
  BY <1>1, <1>2 DEF LateOK, InEndBlocker
<1>9. CallsOK'
  BY <1>1, <1>3, FS_EmptySet DEF CallsOK
<1>10. ReportsOK'
  <2>1. Len(results') = 0 /\ \A i \in 1..0 : FALSE
    BY <1>1
  <2>2. results' \in Seq({results'[i] : i \in 1..Len(results')})
    BY <1>1
  <2>3. \A i \in 1..Len(results') : FALSE
    BY <2>1
  <2> QED BY <2>2, <2>3 DEF ReportsOK, ReportIsTheDelta, ReportIsComplete,
                            SlashReportFaithful, NoReportOnlyAfterRemoval
<1> QED BY <1>4, <1>5, <1>6, <1>7, <1>8, <1>9, <1>10

\* Every step of the specification keeps the invariant.
LEMMA NextValsetInv == ValsetInv /\ [Next]_vars => ValsetInv'
<1> SUFFICES ASSUME ValsetInv, [Next]_vars PROVE ValsetInv'
  OBVIOUS
<1>1. CASE BeginBlock
  BY <1>1, DowntimeValsetInv, DoubleSignValsetInv DEF BeginBlock
<1>2. CASE Message
  BY <1>2, UnjailValsetInv, EditValidatorValsetInv, QuietValsetInv DEF Message
<1>3. CASE \E c \in Contracts, amount \in CapAmounts : SetMaxCapLimit(c, amount)
  BY <1>3, QuietValsetInv
<1>4. CASE NextPhase \/ Commit
  BY <1>4, QuietValsetInv
<1>5. CASE \E active, mature, removed \in SUBSET Validators :
             StakingEndBlocker(active, mature, removed)
  BY <1>5, StakingEndBlockerValsetInv
<1>6. CASE \E t \in due, ok \in BOOLEAN : ExecTask(t, ok)
  BY <1>6, ExecTaskValsetInv
<1>7. CASE CallbackDone \/ ValsetUpdatesDone
  BY <1>7, CallbackDoneValsetInv, ValsetUpdatesDoneValsetInv
<1>8. CASE UNCHANGED vars
  <2>1. UNCHANGED <<tasks, piped, due, running, results, events, late, owed,
                    round, before, height, phase, val, maxCap, gone, messages>>
    BY <1>8 DEF vars, state, history
  <2>2. /\ val \in [Validators -> ValidatorState] /\ messages \in Nat
        /\ maxCap \in [Contracts -> Nat] /\ gone \subseteq Validators
    BY DEF ValsetInv, TypeOK
  <2> QED BY <2>1, <2>2, QuietStep DEF Bonded
<1> QED BY <1>1, <1>2, <1>3, <1>4, <1>5, <1>6, <1>7, <1>8 DEF Next

\* The inductive invariant holds in every reachable state.
THEOREM ValsetInductive == Spec => []ValsetInv
BY InitValsetInv, NextValsetInv, PTL DEF Spec

-----------------------------------------------------------------------------
\* Every variable keeps its type.
THEOREM ValsetTypes == Spec => []TypeOK
<1>1. ValsetInv => TypeOK
  BY DEF ValsetInv
<1> QED BY <1>1, ValsetInductive, PTL

\* Every report describes exactly how the active set changed in its block: for
\* any validators, any order of slashes, jailings and modifications, any events
\* in callbacks and any number of failing ones.
THEOREM ReportDelta == Spec => []ReportIsTheDelta
<1>1. ValsetInv => ReportIsTheDelta
  BY DEF ValsetInv, ReportsOK
<1> QED BY <1>1, ValsetInductive, PTL

\* Every report lists every modification, jailing, unjailing and tombstoning
\* hooks and decorators saw between the last clearing and the call, those in
\* callbacks included, and no other.
THEOREM ReportComplete == Spec => []ReportIsComplete
<1>1. ValsetInv => ReportIsComplete
  BY DEF ValsetInv, ReportsOK
<1> QED BY <1>1, ValsetInductive, PTL

\* Every slash of a block arrives with its power, infraction height, amount and
\* fraction each in its own field, although two of them change places twice.
THEOREM SlashesFaithful == Spec => []SlashReportFaithful
<1>1. ValsetInv => SlashReportFaithful
  BY DEF ValsetInv, ReportsOK
<1> QED BY <1>1, ValsetInductive, PTL

\* When the reports are out, exactly the calls have been made that were owed
\* when the end blocker began, each once, whatever the outcome of the others and
\* whatever their callbacks did.
THEOREM OwedCalledOnce == Spec => []EveryOwedContractCalledOnce
<1>1. ValsetInv => EveryOwedContractCalledOnce
  <2> SUFFICES ASSUME ValsetInv, phase = "valset", due = {}, running = {}
               PROVE  Called = round /\ Len(results) = Cardinality(round)
    BY DEF EveryOwedContractCalledOnce, Called
  <2>1. round \ Called = {}
    BY DEF ValsetInv, TasksOK
  <2>2. Called = round
    BY <2>1 DEF ValsetInv, CallsOK
  <2> QED BY <2>2 DEF ValsetInv, CallsOK
<1> QED BY <1>1, ValsetInductive, PTL

\* What a block leaves behind is due to events in its callbacks: in the memory
\* store of the HandleEpoch half only, in the scheduler for one block only.
THEOREM CallbackLeftovers == Spec => []OnlyCallbacksLeaveWork
<1>1. ValsetInv => OnlyCallbacksLeaveWork
  <2> SUFFICES ASSUME ValsetInv, phase = "epoch"
               PROVE  /\ ~late => piped = {} /\ tasks = {}
                      /\ \A k \in piped :
                            \E e \in events : e.op = k.op /\ e.val = k.val
                      /\ \A t \in tasks : t.height = height
    BY DEF OnlyCallbacksLeaveWork
  <2>1. Waiting = {}
    BY DEF ValsetInv, TasksOK, Waiting
  <2>2. \A p \in owed : late /\ p.height = height
    BY <2>1 DEF ValsetInv, LateOK, InEndBlocker
  <2>3. \A t \in tasks : late /\ t.height = height
    BY <2>2, CallTask DEF ValsetInv, TasksOK
  <2>4. \A k \in piped : \E e \in events : e.op = k.op /\ e.val = k.val
    BY KeyFields DEF ValsetInv, EventsOK
  <2>5. events # {} => late
    BY DEF ValsetInv, LateOK
  <2>6. ~late => piped = {} /\ tasks = {}
    BY <2>3, <2>4, <2>5
  <2> QED BY <2>3, <2>4, <2>6
<1> QED BY <1>1, ValsetInductive, PTL

\* A report is not built only if a validator was removed after one of the events
\* it is about, be it an event of the last block's epoch callbacks or a removal
\* by the callback of another contract.
THEOREM NoReportNeedsRemoval == Spec => []NoReportOnlyAfterRemoval
<1>1. ValsetInv => NoReportOnlyAfterRemoval
  BY DEF ValsetInv, ReportsOK
<1> QED BY <1>1, ValsetInductive, PTL
=============================================================================
