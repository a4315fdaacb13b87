# Mesh Security SDK: TLA+ models, checks and proofs

`x/meshsecurity` is the Cosmos SDK module that lets a consumer chain accept
security from other chains. Virtual staking contracts (CosmWasm) get a *max
cap* from governance; within it they delegate tokens that are minted for them
and burned when they undelegate. The module calls the contracts back: once per
epoch to rebalance, and at the end of every block in which the validator set
changed. This directory models the module's own logic; x/staking, x/bank,
x/slashing, x/evidence, x/gov and x/wasm are external and modelled as far as
the module uses them or is driven by them.

Tools: `tlc -config X.cfg M` for the runs below, `tlapm M.tla` for the proof
modules (`*Proofs` and `Arithmetic`). `PROJECT.json` holds the same information in
machine-readable form: runs, the source lines each definition stands for, hazards, findings.

## The system

| Part | State | Operations | Source (`x/meshsecurity/`) |
|---|---|---|---|
| Task scheduler | KV store: (type, height, contract) -> repeat flag | schedule one-shot / repeating, delete, iterate by height, run the due tasks | `keeper/scheduler.go`, `types/keys.go` |
| Max caps | KV store: contract -> amount | `SetVirtualStakingMaxCap` (authority only) | `keeper/msg_server.go`, `keeper/keeper.go` |
| Virtual staking | KV store: contract -> total delegated; x/bank, x/staking | `Delegate`, `Undelegate`, `InstantUndelegate` | `keeper/stake.go`, `keeper/adapter.go` |
| Contract messages | none | handler chain: refusal of staking messages, authorization, bond, unbond | `keeper/handler_plugin.go`, `demo/app/app.go` |
| Valset updates | memory store: set of operation keys of the block | `Schedule*`, `sendAsync`, `ValsetUpdateReport`, `ClearPipedValsetOperations` | `keeper/valset_updates.go`, `keeper/staking_hooks.go` |
| Decorators | none | capture slash, jail, unjail, tombstone | `keeper/adapter.go` |
| End blocker | none | valset reports with slash shares, clear, epoch callbacks, logging of results | `abci.go`, `keeper/wasm.go` |
| Parameters, genesis | KV store: params | init, export (params only) | `keeper/params.go`, `keeper/genesis.go` |
| Queries | none (committed state, or that of a transaction) | three gRPC methods, their gateway and commands; bond status for contracts | `keeper/querier.go`, `keeper/query_plugin.go`, `client/cli/query.go`, `types/query.pb*.go` |
| Protobuf code | none | Marshal, Size, Unmarshal of every message | `types/*.pb.go` |
| Proposal command, events, registrations, rest of the demo chain, test set-ups | none | | not modelled |

How they interact. Governance sets a cap, which writes the cap and adds or
removes HandleEpoch tasks of the contract. x/slashing and x/evidence (begin
blockers), validator and delegator transactions, and the end blocker of
x/staking change the validator set; hooks and decorators turn each change into
a key of the memory store and a one-shot ValsetUpdate task for every contract
with a positive cap. The end blocker of mesh-security runs after all others:
it runs the ValsetUpdate tasks, each building the report from the memory store
and passing it to the contract by `sudo`; clears the memory store; then runs
the HandleEpoch tasks. Every callback is in a cached context with a gas limit,
so that it can fail alone; one that succeeds may have executed messages that
change the validator set in their turn. A contract answers with bond and unbond messages,
which it may plan by asking for its bond status in the same transaction. Clients
read caps and delegated amounts while the node executes the next block. All
stored records and all requests pass through the generated codecs.

What is hard about it: block-structured interleaving (many event sources, cap
changes in between, one report at the end); callbacks that fail one by one while
the scheduler edits the store under an open iterator; a memory store that does
not survive a restart; share prices and truncation between what is asked for,
released, burned and accounted; errors after writes; staking paths that pass
the module by; what a genesis export leaves out; plans made from a bond status
that is stale when used; lengths and varints taken from the input. `PROJECT.json` lists each hazard at its line, with the properties
that guard against it.

What makes each part correct: an enabled contract has exactly one regular
rebalance, never further away than an epoch; nothing is called twice in a block;
caps stay within the limit; reports are exactly the changes since the last
report, for exactly the contracts that were enabled when they happened; a block
leaves to the next only what its callbacks caused; a contract falls behind only
by failing, or by a callback that modifies validators while reports go out;
totals, supply offset, balances and pools agree; virtual tokens are never liquid;
the list of caps accounts for all of them; a contract's plan is not refused; a
decoder never reads past its input and gives back what was encoded.

## Modules

**`SchedulerStore`** has the scheduler's functions as operators on a set of
entries `[tp, height, contract, repeat]`, at most one per key. Contract
addresses are naturals, whose order is the byte order of the keys.

**`EpochScheduler`** (uses it) has caps and HandleEpoch tasks. A block is a
"deliver" phase, in which contracts are deployed and `SetVirtualStakingMaxCap`
messages executed, and an "endblock" phase: `EndBlockerStart` opens the iterator
(`due`), `ExecTask` runs one task with an arbitrary outcome, `Commit` ends the
block. A message that fails changes nothing (governance executes proposals in a
cached context), so only the successful path is an action. `calls` and
`recapped` are history.

**`ValsetUpdates`** (uses `SchedulerStore`) has six phases in the order of the
demo chain's begin and end blockers: "begin" (`Downtime`, `DoubleSign`), "tx",
"gov" (`SetMaxCapLimit`), "staking" (`StakingEndBlocker`: a new active set,
matured and removed validators), and the two halves of the end blocker, "valset"
(`ExecTask` per task, then `ValsetUpdatesDone`, which clears the memory store) and
"epoch" (until `Commit`). Messages (`Unjail`, `EditValidator`, `CreateValidator`,
`SelfUndelegate`, `LastUndelegate`) are executed by transactions in "tx" and by
contracts in their callbacks (`Executing`): between an `ExecTask` that succeeds
and its `CallbackDone`, which deletes the entry of the task, and at any time in
"epoch". So an event can come while reports go out, and is then in the reports
for the contracts behind, or after the clearing, and is then in the reports of the
next block; in both cases `sendAsync` leaves tasks at this height, which the next
block runs beside its own. Each action makes the `sendAsync` calls that the code
makes on its path. A slash key has its two words in the order
`BuildPipedValsetOpKey` writes them, and they are read back in the order
`iteratePipedValsetOperations` reads them. `events` (since the last clearing),
`gone` (validators removed after one), `late` (an event in a callback), `owed` and
`round` (calls owed, and owed when the end blocker began), `results` with what was
to be seen at each call, and `before` are history, which the reports are compared
with. It starts at a block boundary of a running chain with nothing left over:
any active set, any caps.

**`RebalanceClock`** is the abstract specification of the scheduler: a clock per
contract that strikes once per epoch, can be asked for an extra strike in the
current block, strikes at most once per block and a last time when stopped. It
knows neither tasks nor caps nor an iterator. **`EpochSchedulerClock`** maps
`EpochScheduler` to it: the next strike is the height of the repeating task, a
strike is owed while a task of the contract is due.

**`MeshBlock`** (uses `SchedulerStore`) puts both halves of the end blocker into
blocks that follow each other: cap messages and `EditValidator` ("tx"), the
reports ("valset"), `ValsetUpdatesDone` with the clearing, the epoch callbacks
("epoch"), `Commit`. The response handler only logs: it would panic on an error of
rescheduling, which a task rescheduled for a later block does not have. Events are reduced to one
kind, modified metadata, so that it can be said what each contract knows
(`view`). Callbacks fail or succeed, and may modify validators. `twin` is the
memory store of a second node that runs the same blocks and may `Restart` at
any point: it then has the entries of the current block only, which it runs
again (`fresh`). `late` and `missed` are history.

**`SlashShare`** (uses `Dec`) has the loop of `abci.go` that splits a slash over
the contracts: slashes at the begin of the block, changes of shares by
transactions and by the callbacks of contracts served earlier, and the rounding
of the two `sdk.Dec` operations.

**`Queries`** has the books (caps and totals) in three versions: committed block
by block, of the block in execution, of the running transaction. Clients call
through the commands or the gateway, `Serve` answers from a committed version, of
the latest height or one that was asked for (that a handler sees one version only is
the doing of baseapp), connections may fail (`Receive`). Contracts query and bond in transactions that call
other contracts and may be reverted.

**`WireCodec`** is the generated code, written once: varints, tags, lengths,
`skip`, and the loop over the fields, with the error paths in their order and an
explicit "panic" for a slice outside the buffer. A loop is a recursive function from
the iteration to its state (`Loop`), its body an operator (`VarintByte`, `SkipStep`,
`UnmarshalStep`). Messages are nested two deep at most, so that the mutual calls of
the code become one operator per depth (`Unmarshal0`, `Unmarshal1`, `Unmarshal`; the
same for `Marshal` and `Size`). **`MeshMessages`** has a table per
message of `types/*.pb.go` for each direction, from the field cases of its
`Unmarshal` and `MarshalToSizedBuffer`. **`WireDecode`** sends byte strings: known
fields in any order and number, unknown and malformed ones, cut off anywhere, and
defines what they mean without the decoder. Words are narrower than in the code
(`VarintBits`, `WordBits`, `Int32Bits`), with overflow at the same places
relative to the width.

**`VirtualStake`** (uses `Dec`) has the message handlers in the order in which the
application chains them, bond and unbond messages, staking messages of contracts
and other accounts, slashes and status changes of validators. Validators have tokens and shares,
delegations shares, and the conversions round as x/staking and `sdk.Dec` do,
with a small `Precision` instead of 10^18 so that all roundings happen with small
numbers. `offset` adds up all `AddSupplyOffset` calls (a no-op in the vanilla
adapter, the fork's supply offset in `NewKeeperX`). `CallerReverts` says whether
a failed `Delegate` is rolled back by its caller, as wasmd does. Left out:
rewards, commissions, unbonding entries and redelegations of other accounts.

**`VirtualLedger`** is the abstract specification of virtual staking: per contract
an account filled by minting within a cap and emptied by burning, with the supply
and its offset. **`VirtualStakeLedger`** maps `VirtualStake` to it.
**`VirtualStakeGenesis`** adds a restart from an exported genesis, which keeps all
of x/bank and x/staking and nothing of the module but its parameters.

Each of **`EpochSchedulerProofs`**, **`MeshBlockProofs`**, **`ValsetUpdatesProofs`**,
**`VirtualStakeProofs`** (with the ledger and the genesis), **`SlashShareProofs`**,
**`QueriesProofs`** and **`WireProofs`** (about `WireDecode` and the codec) has the
theorems about the module it is named after; **`Arithmetic`** has the lemmas they
share, about sums, quotients and roundings. The `MC*` modules only define small
constant values. Operators named `M_...` are mutated forms of the definition that
follows; a property earns its place by failing under one of them.

## Runs

| Run | Bounds | Shows |
|---|---|---|
| `epoch_scheduler` | 2 contracts, caps 0..2 of total 3, epoch 3, 9 heights, fair | safety of caps and HandleEpoch tasks; an enabled contract is called back; implements `RebalanceClock` with its fairness |
| `epoch_zero_cap` | same | finding 1 |
| `valset_updates` | 2 validators, 2 contracts, caps 0..1, 2 messages, heights 3..5, symmetric validators | all properties of reports and callbacks |
| `valset_report_lost`, `valset_self_jail` | same | findings 2 and 3 |
| `virtual_stake` | 1 contract, 1 validator, 1 other delegator, amounts 0..2, caps 0 and 3, up to 3 tokens slashed, precision 10 | all bookkeeping properties; implements `VirtualLedger` |
| `virtual_stake_two` | 2 contracts, 2 validators, amount 1, caps 0 and 1, 1 token slashed, 1 restart from genesis, symmetric | pools, virtual tokens and the backing of totals across contracts and an export |
| `virtual_stake_direct` | as `virtual_stake`, no reverting caller | finding 4 |
| `mesh_block` | 2 contracts, 1 validator, epoch 2, 4 heights, fair | the halves of the end blocker, blocks, failing contracts and restarting nodes together |
| `slash_share` | 2 contracts, 1 other delegator, shares 0, 0.7 and 3, slashes of 3 and 8 tokens, up to 2 of them, precision 10 | how far a reported share of a slash is from the loss |
| `queries` | 2 contracts, 1 client, caps 0 and 2, amounts 1 and 2, 3 heights, 2 transactions of 3 messages, symmetric contracts | what clients and contracts may conclude from answers |
| `wire_decode` | varint groups of 5 bits, words of 12, integers of 8, 2 entries, strings of 0, 2 and 32 bytes, numbers of one and two bytes and the largest | decoders and encoders of all messages |

What some of the properties say. `ReportIsComplete` and
`EveryOwedContractCalledOnce` count from the last clearing of the memory store: late
events belong to the next block's report, and a task that a callback left is a
call of its own. `OnlyCallbacksLeaveWork`: without an event in a callback a block leaves
nothing in the memory store or the scheduler; the callbacks of the first half leave tasks only, and
no task waits longer than one block. `RestartLosesOnlyLateEvents`: a node
that restarted builds the reports of all others, up to events of HandleEpoch
callbacks; a node that did not restart reports these in the next block.
`StaleOnlyIfMissed` and `ModificationArrives`: a contract with a
cap does not know of a modification only if its report failed, or if a callback
made it while reports went out. `ReportIsLossUpToMoves`: the reported share of a slash errs only in the direction in
which shares moved after the slash, and never exceeds it.
`UnslashedTotalIsBacked`: only slashes
make a total that undelegating can not free.

Why the bounds are enough: a contract's HandleEpoch entries interact only
through the cap limit and the iterator, so two contracts cover all pairs; nine
heights hold a first epoch, a reschedule and a switch off and on again in any
position of the epoch. For a report every pair of validators and of contracts
matters, two whole blocks show what is carried over, and a third is started; of the
messages, two are enough for an event and the removal of its validator, or for one
late event and one of the next block, beside the slashes of the begin blocker.
One virtual delegator and one other on a validator are enough to bring the share
price off one in both directions; slashes down to zero tokens are included, and
with them the exchange rate x/staking refuses. In four heights of `MeshBlock` an
epoch callback at the end of one block meets the reports of the next two. A
question that is answered up to two blocks later, around two transactions of
which each may be reverted, has every relation to them. Two entries are what it
takes to overwrite a field, and each entry may itself be an embedded message. All state spaces are explored in
full. No run turns deadlock checking off.

Fairness. `FairSpec` assumes weak fairness of `EndBlockerStart`, of running a due
task and of `Commit` (in `MeshBlock` also of `ValsetUpdatesDone`): consensus keeps producing blocks, and the end blocker is a
loop over finitely many entries whose callbacks have a gas limit. Nothing is
assumed of messages or of the success of callbacks.

## Findings

1. *A zero cap can start regular rebalances.* `SetVirtualStakingMaxCap` asks
   for a repeating task before it looks at the amount (`msg_server.go:44`). A
   contract without one (first cap zero, or zero set twice) gets one although
   "no need to run regular rebalances with a new limit of 0" (`msg_server.go:51`).
2. *A removed validator takes the report of its block along.* A validator that
   is modified or slashed, and removed before the report is built, makes the report
   fail for all contracts (`valset_updates.go:84`); tasks and events are then
   deleted. `NoReportOnlyAfterRemoval` shows this is the only way to lose one
   before the contract is called; the event may be a late one of the last block.
3. *Jailing by x/staking itself is not captured* (`adapter.go:138` decorates
   the keeper of x/slashing only); the comment at `demo/app/app.go:424` says all
   jail events are.
4. *`Keeper.Delegate` writes before it looks at the error* of
   `Staking.Delegate` (`stake.go:52-64`). wasmd drops the writes of a failed
   message, so contracts can not see it; a caller that goes on after the error can.

Two consequences of the code that the models show and that deserve a decision:

* After a restart from an exported genesis no contract has a cap entry, while its
  virtual delegations are still in x/staking. `VirtualNeverLiquid` speaks of
  contracts with an entry only; one without may send staking messages, and
  undelegating makes its virtual tokens liquid (`genesis.go:15`,
  `handler_plugin.go:152`).
* A validator event that a HandleEpoch callback causes is in the memory store
  between two blocks (`abci.go:67`), where a restarted node does not have it. This
  is why `RestartLosesOnlyLateEvents` has to except late events. Its tasks, and those
  for events in ValsetUpdate callbacks, run in the next block beside that block's own:
  a contract may be called twice in a block, each time with the report of that moment,
  or be called with an empty one.

## Proofs

All theorems hold for every value of the constants that satisfies the modules'
assumptions, in particular for any number of contracts, validators and
delegators, any amounts, any epoch length, any width of a word, any bytes, and any
length of a behaviour. Every invariant that a passing run checks is proved, and so
are the action properties and the two refinements up to fairness.

**Assumptions.** `ParamsAssumption` and `EpochLength > 0` are what
`Params.ValidateBasic` enforces; `Precision > 0`. `WidthAssumption` says that words
are wider than integers, integers than a byte's payload, and that tags up to field
3 are single bytes; 7, 64 and 32 bits satisfy it. The others are types of the
constants: amounts are naturals, the sets that are summed over (contracts,
delegators, validators) are finite, contract addresses are ordered. Where a theorem
needs to know that the caller of `Delegate` reverts (`CallerReverts`, as wasmd
does), it says so: `StaysVirtual` and `GenesisStaysVirtual`; without it
the property is false (finding 4).

**`Arithmetic`.** The models add up with a fold over a set. The induction principle
with an operator parameter can not be instantiated by the provers, so
`NatSetInduction` states it for *sets* of naturals, from the well-foundedness of
the order; with it the sum of a function over a finite set gets its usual laws:
one element more or less, one value changed, a disjoint union, a constant. Then
quotients, and banker's rounding (`Rounded`, which `chopPrecisionAndRound` is): off
by half a unit at most, exact on multiples, and never past a bound that is a whole
number of units; the two roundings of a decimal quotient do not push it over one.

**`EpochSchedulerProofs`.** The invariants of `epoch_scheduler`, its action
property `RebalanceNotPostponed`, and `RefinesClock`. None of the invariants is
inductive alone. That there is one repeating entry in the *next* state depends on
where other entries can be: rescheduling overwrites the key (now + epoch,
contract) and deleting removes (now, contract), which is harmless only because no
entry is overdue or beyond an epoch and the two keys differ. `IndInv` adds to the
types: one entry per key (`StoreOK`), heights between now and an epoch from now,
one-shot entries for now only (`HeightsOK`), at most one repeating entry per
contract and one for each positive cap (`RepeatingOK`), the iterator's rest being
exactly the store's entries for now (`IteratorOK`), no contract both called and
still to be called (`CallsOK`), and an entry for now, or a call, for each changed
cap (`RecappedOK`). Two lemmas say what the two writers of the store do to it
(`CapStore`, `ExecStore`); one lemma per action keeps the invariant. In the
refinement, each of these actions is a step of the clock or a stutter.

**`ValsetUpdatesProofs`.** `ValsetInv`: the memory store is the image of the events
since it was last cleared (`EventsOK`); the active set changes in one phase only, so
that before it the events have none of its changes and after it all of them
(`DeltaOK`); a validator with an event exists unless it is in `gone` (`GoneOK`);
there is one task per owed call, and the iterator has those of the round that are
not yet made (`TasksOK`, `CallsOK`); in the end blocker a call that is not of the
round is owed for an event in a callback, at this height (`LateOK`). What the properties say of reports
is the last part (`ReportsOK`): a report is worked out from the store of its time,
and what was to be seen then is kept with it, so that messages of later callbacks do
not disturb it. `OnlyCallbacksLeaveWork` and `EveryOwedContractCalledOnce` follow
from the parts about tasks.

**`MeshBlockProofs`.** The memory store of a restarted node lies between the events
of the block and the store of the others (`MemoryOK`). A contract that is behind is
still to be called or has missed something (`KnownOK`), where "still to be called"
is a task in the store before the end blocker and an entry of the iterator in it.

**`VirtualStakeProofs`.** `StakeInv`: types (no balance, share or total negative), an
empty module account, delegations that make up a validator's shares
(`SharesMatch`), backed pools and a conserved supply. The types need the sums: that
unbonding does not take more than a validator has follows from its shares being
the sum of the delegations, and from bounds on the two roundings of
`ValidateUnbondAmount` and `Unbond`, which also give `NeverBurnsMoreThanAsked`. The
ledger refinement, the totals and the properties over a restart from a genesis
follow step by step from it. `UnslashedTotalIsBacked` needs more (`BackedInv`): without slashes a share
stays worth one token (`AtPar`), through delegations, undelegations and removals
of others.

**`SlashShareProofs`.** `ShareInv` says that every report was worked out from the
shares of its time and a slash of this block. The rest is arithmetic for any
precision: `TwoRoundings` bounds rounding the ratio and then the product,
`UpperBound` and `LowerBound` carry it from the shares at the report to those at
the slash.

**`QueriesProofs`.** In `QueryInv` all versions of the books are in order (a contract
that never got a cap has nothing, the totals add up to what was minted), a good
reply is what the handler makes of the committed version at its height,
and a known room is the difference of cap and total in the transaction's books.

**`WireProofs`.** All about the generated code, from varints up. A loop is a recursive
function, so the proofs take its run, show what an iteration keeps, and that it ends
before the bound of `Loop`: a varint because a word has so many bits, `skip` and
`Unmarshal` because every iteration advances in a finite input. Each level has two
kinds of lemmas. *Reading*: from any bytes and index come a value of the right type
and a later index within the input, or an error; the checks on negative and
overflowing lengths leave nothing else (`VarintReading`, `BlockReading`,
`SkipReading`, `EntryReading`, `DecodeType`), which is `UnmarshalEnds`. *Stability*:
what has been read does not depend on the bytes behind it (`VarintMore`, `SkipMore`,
`EntryMore`, `StepMore`), so that decoding a longer input is decoding the shorter one
and going on (`DecodeSnoc`), and cutting an input inside its last entry fails
(`DecodeCut`). Statements about messages go from one depth to the next, for any
tables that fit the pattern (`IsReader`, `IsCoded`); `TypeReaders` and `TypesCoded`
show that the tables of all twelve messages do.

`WireInv` is the inductive invariant of `WireDecode`. `DecodeIsLastWrite` alone says
nothing of prefixes, and `TruncationDetected` alone not what is behind them; together
they are inductive: while nothing malformed was sent, the decoder has read `bytes` to
the end as `expected` (`DecodeIs`), and prefixes that it accepts end where an entry ends
(`CutsKnown`). A step needs that an entry is read as it was written: `WriteReads` for
fields with embedded messages in them, `UnknownWritten` for what `skip` takes, groups
too. The round trip has two more parts: sizes are exact (`SizesRight`, which needs
that `sov` counts the bytes `encodeVarint` writes, `SovIsLen`), and a decoder reads
back field after field what its encoder wrote (`RoundReads`), where a field that was
left out must have kept its zero value. Both are proved for every message a decoder
can return, not only for those a behaviour reaches.

The inductive invariants hold on the small instances of the runs too, checked with
TLC (of `EventsOK` without `IsEvent`, which quantifies over everything).

**Only model-checked.** `EnabledIsRebalanced`, `ModificationArrives` and the fairness
half of `ImplementsClock` (liveness is out of the prover's reach), and the four
violated properties of the findings.

## Not modelled, and why

* The proposal command reads flags and hands one message to x/gov; the message, and
  all its checks, are in `EpochScheduler`. Events, registrations, error codes and
  interfaces keep no state.
* The parameters are constants, within what `Params.ValidateBasic` accepts; there
  is no message that changes them. Getters, reflection and descriptors of the
  protobuf code; the in-process gateway and the alternative response handler
  (`abci.go:113`), which nothing uses.
* Of the demo chain: the zero-height export (that of simapp; it touches no
  state of the module), the sample upgrade, ante handler and daemon, lists of SDK
  constructors. The end-to-end set-ups drive contracts that are not in the
  repository: here a callback succeeds or fails, and executes messages that change
  validators.
* Writes that outlive the error of their message: the cap that
  `SetVirtualStakingMaxCap` writes before the scheduler refuses is dropped by x/gov,
  and the message is one guarded step here.
* What a field of 32 bits holds after a varint that is too wide for it: the numbers
  sent fit. That reading one ends and stays within the input is proved for any bytes
  (`UnmarshalEnds`).
* JSON and bech32 conversions: an address is an identity, or no address.

## Plan

Modelling is complete as far as the repository carries it, and every safety
property that a passing run checks is proved. A change of the code is to be followed
in the module of its part and in the line ranges of `PROJECT.json`; a new message of
`types/*.proto` is a table in `MeshMessages` and a line in the proofs of
`TypeReaders` and `TypesCoded`.
