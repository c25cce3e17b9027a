# Verification of HavenClaw

TLA+ models of HavenClaw, checked with TLC and, for the modules named in
"Proofs", proved with TLAPS. Paths are relative to the repository.

## Inventory

HavenClaw is a monorepo: a blockchain VM framework in Go (`src/hypersdk`), the
marketplace contracts in Solidity (`src/contracts`), an agent runtime in
TypeScript (`src/openclaw-agent`), an operator CLI (`src/havenclaw`) and a
dashboard (`src/dashboard`).

### The VM (`src/hypersdk`)

| Component | State | Operations | Interacts with |
|---|---|---|---|
| Accept pipeline, `snow/` | `lastAcceptedBlock`, `acceptedBlocksByID/Height`, `acceptedQueue`, `lastProcessedBlock`; on disk the chain index, the result record and the merkledb | `Accept`, the async accepter, `Shutdown`, `Initialize` | consensus calls it under the engine lock; subscribers are called from the accepter |
| Dynamic state sync, `snow/statesync.go` | `ready`, `verifiedBlocks`, the unresolved-blocks health check | `StartStateSync`, `FinishStateSync`, vacuous `Verify`, `Reject`, `buildBlock` | the sync goroutine against the consensus thread, through `chainLock` and `metaLock` |
| State sync client, `statesync/` | `started`, `must`, the on-disk syncing flag, two syncers | `Accept` of a summary, `UpdateSyncTarget`, `finish` | chain index, merkledb syncer, validity-window syncer, consensus |
| Chain index, `chainindex/` | last accepted height, retained blocks | `UpdateLastAccepted`, `SaveHistorical`, clean-up | pipeline, block fetcher |
| Validity window, `internal/validitywindow` | EMap of accepted transactions, oldest block | `VerifyExpiryReplayProtection`, `Accept`, `AcceptHistorical`, the backward fetch | processor, builder, state sync |
| Executor, `internal/executor` | per-key last tasks, blocked tasks, dependency counters | `Run`, `Wait`, `Stop` | processor, builder |
| Signature workers, `internal/workers` | queue, worker goroutines, job state | `NewJob`, `Go`, `Done`, `Wait`, `Stop` | processor |
| State views, `state/tstate` | pending keys, allocations and writes, operation log | `Insert`, `Remove`, `Rollback`, `Commit` | every action execution |
| Fetcher, `internal/fetcher` | keys to transactions, fetched values, wait groups | `Fetch`, `Get`, `Stop`, `Wait` | processor |
| Mempool, `internal/mempool` | queue, EMap of ids, the stream and its prefetched batch | `Add`, `Remove`, `StartStreaming`, `Stream`, `FinishStreaming` | gossiper, builder |
| Fees, `internal/fees`, `internal/window` | unit prices and rolling windows | `ComputeNext`, `Consume` | processor, builder |
| Sequencer, `x/dsmr`, `x/fdsmr`, `internal/chain/bond.go` | pending and accepted chunks, certificates, bonds | `BuildChunk`, `VerifyRemoteChunk`, `BuildBlock`, `Verify`, `Accept` | validators over p2p |
| Gossip and build timers, `internal/gossiper`, `internal/builder` | `waiting`, last times, the timer | `Queue`, `Force`, `Run` | mempool, engine |
| Publication, `pubsub`, `api/indexer`, `api/ws` | per-connection buffers; indexed blocks | `Publish`, `Notify`, `Accept` | accepted-block subscribers |

### Contracts, agent, front ends

| Component | State | Operations | What is hard |
|---|---|---|---|
| Task marketplace (`OpenClawTaskMarketplace.sol`) | tasks, their status and escrow | create, accept, submit, approve, dispute, resolve, cancel | orders of calls in which escrow is stuck or paid twice |
| Payment protocol (`HavenClawPaymentProtocol.sol`) | payments | create, release, refund, dispute | deadline against dispute |
| Governance, reputation, registry | proposals, votes, scores, agents | propose, vote, queue, execute; score; register | the state function against the stored flag |
| Agent runtime (`openclaw-agent`) | nonces, action queue, lifecycle | nonce allocation, submission, queue loop, start/stop | callbacks interleaved at each `await` |
| Agent reasoning, memory, LLM, A2A; CLI; dashboard | data of external services, user interface | - | not concurrent with the ledger; left out |

### Behaviour that is hard, and what makes each component correct

* **Pipeline.** Three stores are written at different times by two threads, a
  bounded channel and two caches lie between them, and a crash may fall
  anywhere, recovery included. Correct: no block is executed before it is
  persisted, skipped, or executed on a state that is not its parent's; a
  restart can rebuild the frontier; subscribers hear of each block in order.
* **Dynamic state sync.** While the state downloads, blocks are accepted and
  verified vacuously. `FinishStateSync` has to turn them into executed ones
  while the engine still calls `Reject`, which takes no lock. Correct: once
  ready, no valid processing block is without its output, no invalid one has
  one, no block is missing from the accepted stream.
* **State sync client.** The flag on disk must cover every moment at which the
  index and the state disagree, and the node enters normal operation once.
* **Executor, fetcher, workers.** Dependency counters and condition variables;
  correct: conflicting transactions run in block order, everything ends, also
  after an error.
* **State views.** `Rollback` must restore exactly the keys, allocations and
  changes before; `Commit` publishes what the operations did.
* **Validity window.** No transaction is accepted twice within the window,
  also across state sync and restart.
* **Mempool streaming.** A transaction is offered once, and comes back when the
  block did not take it.
* **Sequencer.** A chunk is included once, available when accepted, its bond
  returned.
* **Timers.** A queued wake-up is never lost.
* **Builder and processor.** Tasks of a batch run side by side and commit in the
  order they finish; every node must come to the same root and results.
* **Fees.** A price follows its rolling window, saturates and never falls below
  its minimum.
* **Publication.** Clients register, connections fail and blocks are accepted at
  once: each client gets a block once and in order, and one right answer.
* **Contracts.** Escrow is conserved: paid or refunded exactly once.

The hazards, each at its line, are under `hazards` in `PROJECT.json`, with the
properties that cover it.

## Modules

Every module states its simplifications in its head, and `map` in `PROJECT.json`
gives the lines each definition stands for. A module named `MC...` only chooses an
instance; one named `...Proofs` holds the theorems: `NodeProofs` those of
`AcceptPipeline`, `Mempool` and `Gossiper`, `SyncProofs` of `DynamicStateSync` and
`StateSyncClient`, `ComponentProofs` of `TStateView`, `AuthBatch` and `Publication`,
`AccountingProofs` of `Contracts` and `FortifiedNode`, each other one those of the
module it is named for, with the modules that one is composed of. `FoldLemmas` has
what the proofs need to know about folds.
Definitions whose name says what is wrong with them (`UpdateSyncTargetSilent`,
`ClearPendingKeeps`, `CastVoteAgain`) are mutants, used by no specification:
each run must notice when its code is replaced by one.

### AcceptPipeline, AcceptedLog

A decided block on its way through `Accept` (consensus thread), the bounded
`acceptedQueue`, the async accepter, and the three stores: chain index, result
record, merkledb. One action per write, since a crash can fall between any two:
`AcceptIndex`, `AcceptQueue`, `AcceptPublish` for the engine; `Receive`,
`PutResults`, `CommitState`, `NotifyAccepted`, `SetLastProcessed` for the
accepter; `Recover...` and `Start` for `initLastAccepted` and
`makeConsensusIndex`, themselves interrupted by crashes. The node begins with
empty disks: genesis is committed and then indexed, in two steps. `AcceptedLog`
is the promise to the rest of the node: decisions are final and executed once, in
order. The refinement maps `decided` to the index, `executed` to the state
height; a crash is a stutter.

### DynamicStateSync

The block tree while the state downloads and while it is reprocessed. The
engine's calls `Verify`, `Accept` and `BuildBlock` hold `chainLock` and are one
action each; `FinishStateSync` is split at each point where `Reject`, which
does not take that lock, can come in between (`syncPc`). `verified`,
`unresolved`, `lastAccepted`, `lastProcessed` are the fields of the code;
`verified` stands for a block with its `Output`. `GetBlockByHeight` and its like
are the reads of the engine and of the application.

### StateSyncClient

The life of a node across `Accept` of a summary, the flag on disk, two syncers,
`finish` and `onFinish` step by step, bootstrapping and crashes; `node` is
`failed` when `Initialize` returns an error.

### ValidityWindow, ChainIndex, WindowSyncer

`ValidityWindow` is replay protection: a block is the sequence of the payloads
down to genesis, so that `Children` and `Ancestor` are sequence operations and the
code's walk over parents is a walk over prefixes. `done` is how far the accepter
is, behind consensus. `ChainIndex` is a value with operators, since a write is one
batch. `WindowSyncer` adds state sync: `StartSync`, `UpdateSyncTarget`, and the
two goroutines of the fetch (`client`, `resultChan`). Genesis is older than any
window, as its date of 2023 is (`chain/genesis.go`).

### Executor, Fetcher, ExecuteTxs

`Executor`: `Run` key by key under the lock of the task it finds, then the
subtraction of the dependencies it did not meet; `runTask` in three parts (start,
end, release of one blocked task at a time); `Wait` and `Stop`. `Fetcher`:
`Fetch`, `Get` and the workers, one action for each critical section, each send
and each receive. `ExecuteTxs` composes the two as `Processor.executeTxs` does:
the body of a task begins with `Get`, and each early return stops what the code
stops.

### ParallelWorkers, AuthBatch

The pool: callers, the scheduler, the workers and `Stop`, one action for each
channel operation. `AuthBatch` is the caller: the goroutine that fills batches, and
`Done`, which flushes them before the job ends.

### TStateView, UndoMap

One transaction's view over the changes of its block: `Insert` and `Remove` with
the branches that compare with the parent's value, `Rollback` one operation per
step, `Commit`. `UndoMap` is a map with an undo stack, and the view implements it.

### Mempool, Gossiper

The pool under `mu`, and the stream with the two goroutines that the builder
starts: one prefetches, the other finishes the stream after `BuildBlock`
returned. `Gossiper` adds what wakes them: `Submit`, the block timer and the
gossiper with their `waiting` flags, and the engine's message channel.

### FeeManager, Transaction, Chain

`FeeManager` is the price update on records, in the width `MaxUint`, where the
product of the price change wraps around and sums saturate. `LargestSet` is the
greedy choice of `fees/set.go`. `Transaction` has the declared keys and units, the
fee, the actions and their rollback for the transfers of morpheusvm. `Chain` has
the builder, whose tasks run side by side as far as their keys allow and commit in
any order, the processor, and acceptance; `ExecuteBlock` is what every other node
does with the block.

### Dsmr, FortifiedNode

One sequencer node among others: chunks it builds, has signed and stores, those it
signs for others, blocks it builds, verifies and accepts, with the steps at which
it can fail, panic or stop. `FortifiedNode` adds the bonds on disk and the heap in
memory that gives them back.

### Codec, TypedCodec, Publication

`Codec` gives the canoto encoding once, for the schema of each message; a byte
string is a sequence of symbols. `TypedCodec` has what is not canoto: signatures,
transfers, addresses as text, dimensions, the `TypeParser`. `WireExact` compares
reading with writing over samples of every message, in `MCPublication`. `Publication` is the
websocket server with its connections and the indexer with its cache and store,
notified by the accepter, with crashes and blocks that state sync skips.

### TaskMarketplace, PaymentProtocol, Reputation, Governance, Contracts

A call is an action: its `require`s are the guard, and a revert is no step. Time is
`BlockClock`. `Contracts` puts them on one chain; the three groups share nothing,
so each behaviour uses one of them. The run takes `Contracts` itself.

### How they fit together

Checked compositions: `ExecuteTxs` (executor and fetcher), `AuthBatch` (pool and
batches), `WindowSyncer` (window, index and fetch), `Gossiper` (pool, builder and
timers), `Chain` (fees, transactions, builder and processor), `FortifiedNode`
(sequencer and bonds). `Publication` has the accepter, the websocket server, its
connections and the indexer in one module.

What one module takes from another without a composition:

* `AcceptPipeline` takes one chain and a ready VM; `DynamicStateSync` the tree
  before that, with an accepter of one step; `StateSyncClient` the disk around both.
* `TStateView` takes one view at a time because `ConflictOrder` keeps conflicting
  tasks apart; `Chain` processes a block in its order because of `ConflictOrder` and
  `ExecuteTxsInv`, and takes a view for what `ImplementsMap` says of it.
* `Chain` and `Dsmr` take replay protection as exact, which is `VerifyIsExact`.
* `Mempool` takes the outcome of a task as given; `Chain` has the tasks.

## Runs

| Run | Bounds | What it shows |
|---|---|---|
| `pipeline` | queue 2, cache 4, 6 heights, 2 crashes, 4 restarts, from empty disks | `PipelineInv`: what the stores may disagree on, and that a graceful restart succeeds. `CrashCosts`: a crash costs at most one delivery, and may apply genesis once more. `ImplementsLog`; `AcceptedIsDelivered` |
| `state_sync` | 7 blocks, a valid and an invalid fork | `SyncInv`: no valid processing block is left without its output, the accepted stream has no gap, each block is decided once. `ApplicationView`: reads agree, a healthy node has its preference. `FinishTerminates`, `AcceptedIsProcessed` |
| `view` | 2 keys, 2 values, 4 operations | `ViewInv`: `Rollback` is exact. `ImplementsMap`: the view is an `UndoMap` |
| `execute_txs` | 3 transactions, 2 keys, 2 executor workers and 2 readers; the second may fail, the third be refused, a key be unreadable | `ConflictOrder`; `ExecuteTxsInv`: no key is missing or read twice, and the error returned is one that happened; `Ends` |
| `statesync` | 4 heights, 2 crashes, errors of `onFinish` | `SyncClientInv`: an unmarked disk can be booted. `ReadyIsComplete`: a ready VM has the state, normal operation starts once. `SyncEnds` |
| `workers` | 2 blocks of up to 3 and 1 signatures, batches of 2, 2 workers, every order of bad ones | `NilMeansVerified`; `AuthInv`: no signature is lost on the way, a result is that of its own job; `Returns` |
| `mempool` | 3 items, 2 sponsors, a pool of 2, batches of 2; 2 items with both timers | `MempoolInv`: no item is doubled or forgotten, no place of a sponsor leaks, and the builder's hands are empty outside of a stream. `GossipInv`: nothing seen is kept from gossip. `BuildAsked`: consensus is asked again and again |
| `window` | 2 transactions, 5 times, 5 heights, index of 3, 1 restart | `NoReplay`, `VerifyIsExact` on every branch; `WindowInv`: a node can always complete its window, from what index and fetch keep of it; `SyncEnds` |
| `dsmr` | 2 heights, 2 validators, chunks of up to 2 transactions, 1 restart | `NodeInv`: pending chunks are durable, sizes exact, bonds covered and tracked. `Availability`: what was signed or accepted is served. `BuiltVerifies` |
| `chain` | 4 transactions, 4 accounts, 3 heights, 4 times | `BuiltIsValid`, `SupplyConserved`, `FeesFollowDemand`, `BuildKeepsAll` |
| `publish` | 1 connection, 2 transactions, 3 heights, 1 skip, 1 crash | `StreamExact`, `AnswersRight`, `IndexWindow`; `WireExact`: bytes have one meaning and a meaning one encoding |
| `contracts` | 2 users and the owner; 2 tasks, or 2 payments in 2 tokens, or a proposal with 3 updates | `MarketInv`, `PaymentInv`: what a contract holds is what it owes, and nothing is paid twice. `GovernanceInv`: stakes are backed, votes counted |

### Why the bounds suffice

A queue of two is the smallest in which a block waits behind another while a third
blocks `Accept`, and six heights fill it twice. The second crash falls into the
recovery from the first. The tree has each relation of two blocks that the code
tells apart: ancestors, siblings, a child of an invalid block, a fork above an
accepted block. Four operations give a key its old value back, remove it again and
undo that. Three transactions are a writer, a reader and a writer, or let one
register at the fetcher while another sends and a third waits. Three signatures are
a full batch and a rest; the second job meets the error of the first. Three items
fill the pool, a batch and the next one. An index of three heights below five prunes
what a window still wants, and five times have a window that ends inside a chain,
before it and at its end. Two heights of the sequencer and one restart let a chunk
be signed before, accepted after and served later. Four transactions fill two
batches of the builder and exceed a block; prices fall and rise over three blocks;
the second transaction pays an account that the first does not touch, so that two of
them are in work at a time. `MaxUint` of 40 lets sums saturate in the samples and is
never reached by the product of the price change: `FeesFollowDemand` holds below the
wrap-around, see "Differences". One connection is enough for `Publication`, where
connections share nothing but the lists they register in; it may open before or
after the crash, its queue of one batch is full with the second, and three heights
let a block be indexed, skipped and pushed out of a window of one. Two tasks or
payments are the least that share an escrow.

Symmetry is used in `contracts` only, on the two users, who differ in nothing; it
has no liveness property.

### Deadlock and fairness

All runs but `view` switch deadlock checking off: a chain ends at its last height, a
block when its tasks are done, and the bounds stop crashes, restarts, calls and
builds. What must not stop is stated as a liveness property.

Fairness is weak, and only of what the code's own goroutines do: the accepter,
a call that has begun, recovery, `FinishStateSync`, the goroutine of `executeTxs`
with the workers of the executor and the fetcher, the scheduler and workers of the
pool, the caller of a job, the syncing client, the two goroutines of a fetch and the
peers that answer it, the builder with the goroutines of its stream, the timers'
callbacks. The Go scheduler runs every goroutine that can go on. Nothing is
assumed of consensus, with two exceptions: in `DynamicStateSync` a block that
conflicts with an accepted one is rejected at last, as Snowman does, and in
`Gossiper` the engine takes the message that asks for a block. Crashes, errors,
shutdowns and new blocks need never come. `dsmr`, `chain`, `publish` and
`contracts` have safety properties only.

Liveness excepts what the code gives up: `AcceptedIsDelivered` a crash, `SyncEnds`
of `StateSyncClient` a crash and an error of `onFinish`, `Returns` a pool that all
workers have left (`AllGone`, `SomeGone`), `BuildAsked` a lost wake-up and the
deadlock of the stream (`Deadlocked`). These are differences of their own, below.

## Differences between the code and what it says

The models have the steps that lead to each of these; the properties hold with
them because they say what the code does, or except them by name.

### Virtual machine

| Said | Done | In the model |
|---|---|---|
| blocks are reprocessed after a stop (`snow/chain_index.go:53`) | two blocks ahead of the state, `Initialize` fails (`vm/vm.go:454`) | `RecoverFail` |
| genesis is applied once | a stop between its two writes applies it to the state that has it (`vm/vm.go:528`) | `GenesisOnce` in `CrashCosts` |
| delivery at least once after a restart (`snow/vm.go:136`) | a block between commit and notification is never delivered when the next one is indexed | `MissedBoundedByCrashes` |
| the error is not fatal (`snow/statesync.go:101`) | `FinishStateSync` fails when `Reject` comes between parent and child (`:106`) | `syncPc` of `DynamicStateSync`, excepted by `FinishTerminates` |
| tracked until rejected (`snow/health.go:92`) | a block rejected before `snow/statesync.go:127` subscribes is tracked for ever | `Reject`, by the history `preRejectedLog` |
| every verified block is notified (`snow/vm.go:132`) | not one this node built (`snow/block.go:222`) | `VerifyBuilt` |
| built against the parent state (`snow/vm.go:482`) | the parent may have none (`:506`) | `BuildOnUnverified` |
| state sync goes on after a stop (`snow/chain_index.go:50`) | a node that stops during a sync does not start again (`snow/vm.go:332`) | `BootFails` of `StateSyncClient` |
| "panic to fail fast" (`statesync/client.go:112`) | the error is shadowed (`:129`) | `FinishFails` |
| a fetch that is cancelled ends (`internal/validitywindow/client.go:63`) | its channel is not closed, and who reads it waits for ever; the sync itself ends | `client = "cancelled"` |
| replay protection | blocks verified before `normalOp` have none (`vm/vm.go:679`) | `unchecked` of `ValidityWindow` |
| - | an index whose block at the end of its window is missing cannot accept (`chainindex/chain_index.go:125`) | `TargetFails` |
| `executeTxs` waits for its tasks | the early returns of `chain/processor.go:253-277` leave the executor's idle workers behind | `ExecuteTxs`; `Ends` is about tasks |
| "Remove deletes a key" (`state/tstate/tstate_view.go:254`) | a second removal of a re-created key revives the old value (`:281`) | `RemoveKey` of `TStateView` |
| the state is restored (`tstate_view.go:68`) | `allocates` is not (`:87`) | `Undo` of `TStateView` |
| `Wait` returns when the tasks end (`internal/workers/parallel_workers.go:172`) | not when all workers have left (`:113`) | `AllGone` in `Returns` |
| `Stop` waits for the workers (`:129`) | for more of them than there are (`:143`) | `SomeGone` in `Returns` |
| the stream's lock "should never be needed" (`internal/mempool/mempool.go:49`) | a build waits for it, and the pool is deadlocked (`chain/builder.go:356`) | `Deadlocked` in `BuildAsked` |
| items are restored (`internal/mempool/mempool.go:344`) | not when the pool or the sponsor is full (`:359`) | the fate "dropped" of `Mempool` |
| all transactions are returned (`chain/builder.go:354`) | an append without the lock loses one (`:167`) | `dropped` of `Chain` |
| `Queue` leads to a block or to gossip | a wake-up between the signal and the clearing of `waiting` is lost (`internal/builder/time.go:109`), and so is the requeue of `internal/gossiper/target.go:309` | `asleep`, `Requeue` of `Gossiper` |
| `MaxFee` bounds the fee (`chain/base.go:32`) | nothing compares it | `PreExecute` of `Transaction` |
| "this should never fail" | an account without a record passes `CanDeduct` for a fee of zero and fails `Deduct` | excluded: prices of the instance are positive |
| a price rises with demand | `previousPrice * delta` wraps (`internal/fees/manager.go:227`), and a target of 0 divides by zero | `Wrapped` of `FeeManager`; not reached in `chain` |
| the units that are returned are those of the indices (`fees/set.go`) | the removal stops at the first index that does not fit (`:84-92`), so the sum may count more | `LargestFits` states what holds; only tests call it |
| a pessimistic estimate (`chain/transaction.go:419`) | the bytes of tags and lengths are left out of bandwidth | `EstimateCovers` is about the other dimensions |

### Sequencer, publication, codec

| Said | Done | In the model |
|---|---|---|
| a chunk that is saved is not pending | its pending key stays on disk (`x/dsmr/storage.go:285`) | `SetMin`, `Restart` of `Dsmr` |
| a producer's pending chunks are limited (`x/dsmr/storage.go:241`) | the limit is checked without the lock of the write | `SignatureRequest`, `VerifyRemoteChunk` |
| a chunk that is pending is signed again (`storage.go:230`) | its certificate, which may not be there, is dereferenced | `VerifyRemoteChunk` |
| a chunk is fetched to be accepted | `Accept` then fails, since nothing is parsed | `ReceiveChunk` |
| "Unbond is guaranteed to be called" (`x/fdsmr/node.go:21`) | not after a restart, and a second `Bond` of the same transaction overwrites the first (`internal/chain/bond.go:86`) | `forgotten` in `BondsTracked` |
| listeners are responded to in the end (`api/ws/server.go:102`) | not those that register after the block or with expiry 0 | excepted by `AnswersRight` |
| messages are queued | a batch is dropped when the queue is full (`pubsub/message_buffer.go:80`) | `ClearPending` |
| the indexer keeps a window of blocks | eviction is by one exact height (`api/indexer/indexer.go:127`), and a crash between cache and store loses a block | `IndexWindow` |
| a pointer is kept | a pointer to zeros is read as nil: a block context of height 0 | `ZeroIsNil` of `Codec` |
| a transfer is read whole | trailing bytes are ignored, an address that is too short or long is not refused | `TypedCodec` |

### Contracts

| Said | Done | In the model |
|---|---|---|
| after the deadline the agent may claim (`hpp/HavenClawPaymentProtocol.sol:223`) | the guard at `:219` comes first | `ConditionAccepted` |
| a dispute waits for a decision | a disputed payment is refunded at its deadline, and any party's dispute stops the release | `RefundPayment`, `DisputePayment` |
| locked funds stay | `emergencyWithdraw` takes them (`:363`) | excepted by `PaymentsExact` of `PaymentInv` |
| a quorum of the total power | the total is never assigned (`core/OpenClawGovernance.sol:20`): the quorum is 0 | `TotalVotingPower` |
| power at the start of the vote | is read when voting (`:189`); settings change ended votes | `Power`, `GetProposalState` |
| a task can be settled | an accepted one whose deadline passed cannot (`core/OpenClawTaskMarketplace.sol:112`, `:140`); native coin above the reward stays | `CompleteTask`, `CancelTask` |
| an agent is registered once | `registerAgentWithProof` overwrites, a new registration keeps old capabilities (`core/OpenClawRegistry.sol:53`) | `SetAgent` |
| an agent is initialised once | one whose score fell to 0 is again, and its stake on record is 0 (`core/OpenClawReputation.sol:85`) | `InitializeReputation` |

## Proofs

| Module | Theorems | For every ... |
|---|---|---|
| `NodeProofs` | `PipelineInvariant`, with `TypeCorrect`, `Persisted`, `LeadBounded`, `ParentIsAccepted`, `FrontierOrder`, `GracefulRestarts`, `DeliveredInOrder`; `GenesisAppliedOnce`, `CrashesBounded`; `Refinement` | queue size, cache of at least two more, number of heights, crashes and restarts |
| | `MempoolInvariant`, `NodeHasMempool`, `GossipInvariant` | items, sponsors, limits of the pool and of a batch |
| `SyncProofs` | `SyncInvariant`, with `TypeCorrect`, `OutputsReady`, `VerifiedIsSound`, `UnresolvedIsCovered`, `FrontierIsPopulated`; `HealthyHasPreference`, `ApplicationSees` | tree of blocks with heights and ancestors, set of invalid ones |
| | `SyncClientInvariant`, `ReadyComplete` | minimum of blocks, number of heights and crashes |
| `ComponentProofs` | `ViewInvariant`, with `TypeCorrect`, `RollbackIsExact`, `ChangesAreReal`, `WritesAreExact`; `Refinement` | keys, values and length of the log |
| | `AuthInvariant`, `NilIsVerified` | number of jobs, signatures, workers, batch size, and pattern of bad signatures |
| | `PublicationInvariant`, `BlocksAreStreamed`, `AnswersAreRight`, `IndexServesItsWindow` | connections, transactions and their expiry, size of a queue and of a message, window of the indexer, number of blocks, skipped blocks and crashes |
| `ExecutorProofs` | `ExecutorInvariant`, with `TypeCorrect`, `ConflictsInOrder`, `BlockedIsReleased`, `CountersAreExact`, `VerdictDeterministic`; `BlockInOrder`, `BlockVerdict` | number of tasks, keys, workers of both kinds, and plan |
| `ChainProofs` | `NothingIsLost`, `ValueConserved`, `BlocksAreValid`, `PricesFollowDemand` | transactions, accounts, allocations, prices, targets, limits, times, size of the window and of a batch, width of integers, number of blocks |
| `WindowSyncerProofs` | `ChainWithoutReplays`, `WindowHolds`, `ReplayProtectionExact` | transactions, times, window, forks, restarts and number of syncs |
| `AccountingProofs` | `EscrowHolds`, `VaultHolds`, `StakesAndVotes` | users, amounts, fees, deadlines and number of tasks, payments or proposals |
| | `NodeInvariant`, `ChunksAvailable`, `BuiltBlocksVerify` | chunks, transactions, window, limits, lists to build, fees, number of blocks and restarts |

Each theorem that states a property of a run names it: `BlockInOrder` and
`BlockVerdict` are `ConflictOrder` and `ExecuteTxsInv` of the composition
`ExecuteTxs`, where the tasks are those of the processor (`ConflictsInOrder` is about
the executor alone), `Refinement` is `ImplementsLog` in `NodeProofs` and
`ImplementsMap` in `ComponentProofs`. `NodeHasMempool` says that a behaviour of the
node, with timers and gossip, is one of the mempool by itself: what is proved
about `MempoolSpec` holds in `Gossiper`. `CrashesBounded` says that the
notifications missed and the extra times that genesis is applied are at most the
crashes. `ReplayProtectionExact` is about each block that consensus may propose on
any branch, and is the assumption that `Chain` and `Dsmr` make. `NodeInvariant`,
`ChunksAvailable` and `BuiltBlocksVerify` are `NodeInv`, `Availability` and
`BuiltVerifies` of the sequencer; they are in `AccountingProofs` because its bonds are
added up as the contracts' amounts are. The four of `ChainProofs` are `BuildKeepsAll`,
`SupplyConserved`, `BuiltIsValid` and `FeesFollowDemand`; the last three of
`ComponentProofs` are `StreamExact`, `AnswersRight` and `IndexWindow`.

### Assumptions

The assumptions are the named `ASSUME`s of the modules; TLC evaluates them on the
instances. Most give constants their types (`BoundAssumption`, `FetchAssumption`,
`JobAssumption`, `BatchAssumption`, `ItemAssumption`, `MarketAssumption`,
`ChunkAssumption`, `BlockAssumption`, `BondAssumption`, ...). These say more:

* `TransactionAssumption`: what genesis allocates does not overflow, because
  `InitializeState` adds it up with a check (`genesis/genesis.go:64`).
* `ChainAssumption`: a transaction is never free, that is, some dimension has a
  positive minimum price and every transaction uses it. The default rules have a
  minimum price of 100 in every dimension and a transaction has bytes
  (`genesis/rules.go`). Without it `BlocksAreValid` fails: an account without a record
  passes `CanDeduct` for a fee of zero and fails `Deduct`, see "Differences".

* `PublicationAssumption`: the window of the indexer is not 0, as `NewIndexer` demands
  of it, and the transactions a client may wait for are finitely many.
* `CacheAssumption` is what the default of 128 blocks against a queue of 16 gives.
* `DependencyAssumption` is the code's own ("It is assumed that no single task has
  more than [maxDependencies]").
* `TreeAssumption` says that `Ancestors` is the closure of `Parent`, so that no
  recursion is needed.
* `WindowAssumption`: genesis is older than any window, and a window is finite.
* `ReputationAssumption` is what the setters allow: some percentage is at most 10000.
* `KeepsWindow` is a hypothesis of `WindowHolds`, not an assumption: the index keeps
  all blocks or at least `Window + 2`, in units of the shortest gap between blocks.
  Nothing in the code compares the two settings. The defaults are far from the edge:
  50 000 blocks (`chainindex/chain_index.go:44`) against a window of 60 s with blocks
  100 ms apart (`genesis/rules.go:55`, `:65`), which needs 602. The run takes the
  shortest index that the theorem allows.
  `ReplayProtectionExact` needs it too, since a walk that misses a block refuses what
  it looks at; `ChainWithoutReplays` does not: a node with a shorter index may fail to
  start or refuse a good block, but accepts no transaction twice.

### The inductive invariants

Few of the properties are inductive as they stand.

* `PipelineInv` says what the queue holds (the consecutive blocks between the
  accepter and the engine) and how far each store is for each program point of
  the accepter, and for a process that is down what recovery can find. Recovery
  re-establishes the first part from the second. `CrashCosts` needs the positions
  first, and then which notification each program point still owes.
* `SyncInv` adds that the live processing blocks form a tree on the last
  accepted block and that each block `FinishStateSync` has looked at is verified
  or unresolved; a `Reject` in between removes blocks from above only.
  `ApplicationView` needs in addition that the outputs, the chain by height, the
  stream and the decisions tell of the same blocks.
* `ViewInv` adds `UndoInv`, that each logged operation, undone, gives the pending
  changes before it, and `HistInv`, which ties the log to these. The refinement
  reads the state of `UndoMap` off the log and this history.
* `OrderedInv` of the executor relates the counter of a task to the tasks that
  still owe it a release. While `Run` registers a task, the counter is ahead by the
  over-estimate that `RunAdjust` takes back; `ReleaseInv` covers a task that has
  ended and is half way through its list. `ExecuteTxsInv` adds that a transaction
  waits at the fetcher for keys that are on their way (`RegisterInv`), that an idle
  reader holds none (`PoolInv`), and how the two and the goroutine depend on one
  another (`CallsInv`).
* `SyncClientInv` says, for each program point of a state sync, which of disk,
  target and phase of the engine the next step may rely on.
* `AuthInv` follows each signature: it is in the list of a batch worker, in the
  batch, in a task given to the pool, in a worker's hand, or verified (`BatchInv`,
  `TasksInv`); `CountInv` and `QueueInv` say when the scheduler may believe that a
  job has ended.
* `MempoolInv` has `StreamInv`: the builder has something in hand only between the
  beginning and the end of a stream, in one place. The proof splits it into one
  formula for each of the four hands.
* `WindowInv` has three parts: processing blocks extend the chain and what replay
  protection let through is new on its branch (`ForksInv`), the map has what may
  still be valid (`SeenInv`), and index and fetch together reach back for a window
  (`IndexInv`). The lag of the accepter behind consensus and a target that moves
  during a fetch are what makes each of them more than a restatement of its property.
* The contracts keep sums. What `Total`, the community modules' fold, makes of a sum
  when a member joins, leaves or changes is proved first; then each call moves the same
  amount on both sides, and finds its task, payment or stake in the status that
  forbids a second one (`PaidOnce`, `SettledOnce`).

* `NodeInv` of the sequencer has `ChainInv`, what the network guarantees: a chunk is in
  one block and expires within a window of the block before, because validators sign
  nothing else (`Signable`). With it a certificate that arrives after its chunk was
  accepted is not built in again, although the window forgets (`BuiltVerifies`).
  `AcceptInv` says which keys of the block in hand the disk may have at each step of
  `Accept`, and which of them a restart finds pending. The bonds are sums again:
  `BalanceCovers` is about the transactions that hold one, `BondsTracked` about where
  they are found.

* `BuildKeepsAll` and `SupplyConserved` need the order of the builder's loop and its
  tasks (`KeepInv`): each transaction of a build is in one place, streamed, dispatched,
  executed, restorable, in the block or back in the mempool, and `seen` is what of it the
  loop has read before an append that another goroutine may overwrite.
* `BuiltIsValid` is about two executions of the same transactions, side by side in the
  builder and in order at every other node. `ValidInv` says that the block so far,
  processed in the order of its list, gives the state and the results of the builder
  (`Sequential`); that what was executed and waits to commit would give the same result
  now (`Current`); and that such transactions do not conflict (`Apart`). A commit keeps
  all three because a transaction reads and writes only the keys it declares: the
  lemmas before them follow a transfer, an action, a transaction and a block, and say
  what each depends on and leaves alone.
* `FeesFollowDemand` looks at the last block; `FeeInv` adds that each slot of the
  window is the sum, cut off at `MaxUint`, of the units of the blocks of its age
  (`Recorded`). Rolling moves the ages by the seconds between two blocks. Sums that are
  cut off one by one are the sum cut off at the end, so the order does not matter.

* `PubInv` of the publication takes what was sent to a connection as one stream,
  whatever part of it has arrived, is queued or pending: a message is added only at its
  end (`Before` says which may follow which), and a batch that is dropped goes to `lost`
  as a whole, so each message is in one place. `BlocksInv` and `TxsInv` say what a
  connection is owed at each point of a notification (`BlocksDone`, `TxsDone`): whoever
  still waits has not been answered, and a transaction that expired is in no later
  block. `IndexInv` relates memory, disk and what was missed: a block that is not missed
  is on disk or a stored one has pushed it out, an older one survives only if the one
  that would have pushed it out is missed, and a crash may fall between the two
  writes. A crash ends every connection and so what it was promised (`Crashed`).

What a loop computes (`Total`, `BondList`, `AcceptRange`, `Ahead`, ...) is proved by
unfolding one step of its recursive function and taking a least counterexample, from
the well-foundedness of inclusion on finite sets (`LeastNat`, `SubsetInduction`): the
library's induction theorems take an operator and cannot be instantiated. `FoldLemmas`
does it once for `FoldLeft` and `FoldSet` with any operation: a fold has a sequence of
partial results (`FoldSteps`), what has such a sequence is the fold (`FoldIs`), an
element is appended in one step (`FoldAppend`), and a sum can be split and reordered.
`ChainProofs` and `ComponentProofs` instantiate it for every fold of their models: the
transfers of an action list, the transactions of a block, the slots of a window, the
batches of a queue, the answers to a block, the blocks a restart loads, and so on.

### Model-checked only

* Liveness (`AcceptedIsDelivered`, `FinishTerminates`, `AcceptedIsProcessed`,
  `Ends`, `SyncEnds`, `Returns`, `BuildAsked`): it needs `ENABLED`, beyond the prover.
* `WireExact`: what a codec reads from what it wrote, for every message, is an
  induction over its data, which the prover cannot do.

## Not modelled

Networking, cryptography, storage engines, RPC servers, the CLI, dashboard and load
tools: they transform data or are thin layers over libraries, without state that
several actors share. The Merkle syncer is AvalancheGo's, and so are the proposer
windows and the warp aggregator. The LLM, memory and A2A parts of the agent depend
on external services; the transaction manager and action queue of the agent runtime
are small concurrent programs that come next. `components` in `PROJECT.json` gives
the reason for each part.

## Plan

1. `NonceManager`, `ActionQueue`: a nonce is used once, an action is submitted once,
   over the interleavings at each `await`.
2. `WindowSyncer` within `DynamicStateSync`, so that the blocks that are verified
   without replay protection are those of the tree.
