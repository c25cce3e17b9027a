--------------------------------- MODULE Chain ---------------------------------
(***************************************************************************)
(* Building and processing blocks (chain/builder.go, chain/processor.go).  *)
(* The builder takes batches of transactions from the mempool, runs them   *)
(* on the executor, as far as they do not conflict at the same time, and   *)
(* commits those that the block has room for, in the order in which they   *)
(* finish.  Every node then processes the block in its order, and must     *)
(* come to the same state and results.                                     *)
(*                                                                         *)
(* Simplifications:                                                        *)
(*  - a block is processed one transaction after the other: that the       *)
(*    executor and the fetcher of the processor give the result of this    *)
(*    order is checked on module ExecuteTxs;                               *)
(*  - the root of a state is the state; signatures are valid;              *)
(*  - the replay check is exact, as module ValidityWindow shows;           *)
(*  - the rules are the same at all times.                                 *)
(***************************************************************************)
EXTENDS Transaction

CONSTANTS
    Times,          \* timestamps of blocks
    MinBlockGap, MinEmptyBlockGap,
    StreamBatch,    \* transactions of a batch
    TargetTxsSize,  \* of a batch
    MaxHeight       \* bound: height of blocks

(* The last part: a transaction is never free (genesis/rules.go).            *)
ASSUME ChainAssumption ==
    /\ Times \subseteq Nat
    /\ {MinBlockGap, MinEmptyBlockGap, StreamBatch, TargetTxsSize, MaxHeight} \subseteq Nat
    /\ \E d \in Dims : MinUnitPrice[d] > 0 /\ \A tx \in Txs : Units[tx][d] > 0

VARIABLES
    tip,        \* the state after the last accepted block
    included,   \* transactions of accepted blocks
    history,    \* the accepted blocks: [time, price, units], time in seconds
    burned,     \* fees that accepted blocks charged
    mempool,
    phase,      \* of the builder: "idle", "stream", "dispatch", "oversize", "wait", "built"
    out,        \* the block as it is: [time, fees, bal, txs, results]
    batch,      \* the transactions that were streamed
    next,       \* the one to dispatch
    pending,    \* dispatched and not finished
    running,    \* [tx, r]: executed and not committed
    restorable,
    seen,       \* restorable as the loop read it
    stop, err,
    streamed,   \* history: what this build took from the mempool
    dropped     \* history: what it dropped

chainVars == <<tip, included, history, burned>>
buildVars == <<phase, out, batch, next, pending, running, restorable, seen, stop, err, streamed,
               dropped>>
vars == <<chainVars, mempool, buildVars>>

-----------------------------------------------------------------------------
(* States: [height, time, fees, bal]                                         *)

GenesisState == [height |-> 0, time |-> 0, fees |-> GenesisFees, bal |-> InitializeState]

WriteBlockContext(height, t, m, bal) == [height |-> height, time |-> t, fees |-> m, bal |-> bal]

-----------------------------------------------------------------------------
(* Processor, on blocks [height, time, txs, root]                            *)

ValidContext(parent, blk) ==
    /\ blk.height = parent.height + 1
    /\ blk.time >= parent.time + MinBlockGap
    /\ blk.txs = <<>> => blk.time >= parent.time + MinEmptyBlockGap

(* One transaction: its units are consumed, it is run and committed.         *)
ProcessTx(t, acc, tx) ==
    LET fees == Consume(acc.fees, Units[tx])
        r == Execute(tx, fees, acc.bal)
    IN IF /\ acc.ok /\ Exceeded(acc.fees, Units[tx]) = {}
          /\ PreExecute(tx, fees, acc.bal, t) /\ ~r.error
       THEN [ok |-> TRUE, fees |-> fees, bal |-> r.bal, results |-> Append(acc.results, r.result)]
       ELSE [acc EXCEPT !.ok = FALSE]

ExecuteTxs(m, bal, t, txs) ==
    FoldLeft(LAMBDA acc, tx : ProcessTx(t, acc, tx),
             [ok |-> TRUE, fees |-> m, bal |-> bal, results |-> <<>>], txs)

ReplayFree(txs) == IsInjective(txs) /\ ToSet(txs) \cap included = {}

(* Execute: whether the block is valid, with its state and its results.      *)
ExecuteBlock(parent, blk) ==
    LET r == ExecuteTxs(ComputeNext(parent.fees, blk.time), parent.bal, blk.time, blk.txs)
    IN [ok |-> ValidContext(parent, blk) /\ ReplayFree(blk.txs) /\ blk.root = parent /\ r.ok,
        state |-> WriteBlockContext(blk.height, blk.time, r.fees, r.bal),
        results |-> r.results]

-----------------------------------------------------------------------------
(* Accepting a block                                                         *)

NoBlock == [time |-> 0, fees |-> GenesisFees, bal |-> <<>>, txs |-> <<>>, results |-> <<>>]

(* The mempool without what is in an accepted block or has expired.         *)
Prune(t, txs) == {tx \in mempool \ ToSet(txs) : tx.expiry >= t}

FeesOf(results) == FoldLeft(LAMBDA s, r : s + r.fee, 0, results)

Extend(state, txs, results) ==
    /\ mempool' = Prune(state.time, txs)
    /\ tip' = state
    /\ included' = included \cup ToSet(txs)
    /\ history' = Append(history, [time |-> state.fees.time, price |-> state.fees.price,
                                   units |-> state.fees.last])
    /\ burned' = burned + FeesOf(results)

(* A block of another node is verified and accepted.                         *)
NetBlock(t, txs) ==
    LET blk == [height |-> tip.height + 1, time |-> t, txs |-> txs, root |-> tip]
        r == ExecuteBlock(tip, blk)
    IN /\ phase = "idle" /\ tip.height < MaxHeight
       /\ ValidContext(tip, blk) /\ r.ok
       /\ Extend(r.state, txs, r.results)
       /\ UNCHANGED buildVars

(* The block that was built is accepted ...                                  *)
AcceptBuilt ==
    /\ phase = "built"
    /\ Extend(WriteBlockContext(tip.height + 1, out.time, out.fees, out.bal), out.txs, out.results)
    /\ phase' = "idle" /\ out' = NoBlock /\ streamed' = {} /\ dropped' = {}
    /\ UNCHANGED <<batch, next, pending, running, restorable, seen, stop, err>>

(* ... or rejected, and its transactions are added to the mempool again.     *)
RejectBuilt ==
    /\ phase = "built"
    /\ phase' = "idle" /\ out' = NoBlock /\ streamed' = {} /\ dropped' = {}
    /\ mempool' = mempool \cup ToSet(out.txs)
    /\ UNCHANGED <<chainVars, batch, next, pending, running, restorable, seen, stop, err>>

(* PreExecutor.PreExecute admits a transaction that could run now.           *)
Submit(tx, now) ==
    /\ tx \notin mempool \cup streamed
    /\ tx \notin included
    /\ now >= tip.time /\ PreExecute(tx, ComputeNext(tip.fees, now), tip.bal, now)
    /\ mempool' = mempool \cup {tx}
    /\ UNCHANGED <<chainVars, buildVars>>

-----------------------------------------------------------------------------
(* Builder                                                                   *)

StartBuild(t) ==
    /\ phase = "idle" /\ tip.height < MaxHeight
    /\ t >= tip.time + MinBlockGap
    /\ phase' = "stream"
    /\ out' = [time |-> t, fees |-> ComputeNext(tip.fees, t), bal |-> tip.bal, txs |-> <<>>,
               results |-> <<>>]
    /\ stop' = FALSE /\ err' = "none" /\ restorable' = {} /\ streamed' = {} /\ dropped' = {}
    /\ UNCHANGED <<chainVars, mempool, batch, next, pending, running, seen>>

Batches == {s \in UNION {[1 .. n -> mempool] : n \in 1 .. StreamBatch} : IsInjective(s)}

(* The next batch, while there is time; duplicates are found by IsRepeat.    *)
Stream(s) ==
    /\ phase = "stream" /\ ~stop
    /\ Len(s) < StreamBatch => ToSet(s) = mempool
    /\ batch' = s /\ next' = 1 /\ phase' = "dispatch"
    /\ mempool' = mempool \ ToSet(s) /\ streamed' = streamed \cup ToSet(s)
    /\ UNCHANGED <<chainVars, out, pending, running, restorable, seen, stop, err, dropped>>

(* IsRepeat fails: the batch goes back and the block is what it is.          *)
StreamFails(s) ==
    /\ phase = "stream" /\ ~stop
    /\ Len(s) < StreamBatch => ToSet(s) = mempool
    /\ restorable' = restorable \cup ToSet(s) /\ streamed' = streamed \cup ToSet(s)
    /\ mempool' = mempool \ ToSet(s) /\ stop' = TRUE
    /\ UNCHANGED <<chainVars, phase, out, batch, next, pending, running, seen, err, dropped>>

Dispatched == {batch[i] : i \in 1 .. next - 1}
Rest == {batch[i] : i \in next .. Len(batch)}
SizeWith(i) == FoldLeft(LAMBDA s, tx : s + tx.size, 0, SubSeq(batch, 1, i))

Dispatch ==
    /\ phase = "dispatch" /\ next <= Len(batch)
    /\ SizeWith(next) <= TargetTxsSize
    /\ IF batch[next] \in included
       THEN dropped' = dropped \cup {batch[next]} /\ UNCHANGED pending
       ELSE pending' = pending \cup {batch[next]} /\ UNCHANGED dropped
    /\ next' = next + 1
    /\ UNCHANGED <<chainVars, mempool, phase, out, batch, running, restorable, seen, stop, err,
                   streamed>>

(* The batch is over the size: its rest is appended to what the loop read of *)
(* restorable, without the lock of the tasks that append to it ...           *)
OversizeRead ==
    /\ phase = "dispatch" /\ next <= Len(batch)
    /\ SizeWith(next) > TargetTxsSize
    /\ phase' = "oversize" /\ seen' = restorable
    /\ UNCHANGED <<chainVars, mempool, out, batch, next, pending, running, restorable, stop, err,
                   streamed, dropped>>

(* ... so that what they append meanwhile is lost.                           *)
OversizeWrite ==
    /\ phase = "oversize"
    /\ restorable' = seen \cup Rest
    /\ dropped' = dropped \cup (restorable \ seen)
    /\ phase' = "wait"
    /\ UNCHANGED <<chainVars, mempool, out, batch, next, pending, running, seen, stop, err,
                   streamed>>

DispatchEnds ==
    /\ phase = "dispatch" /\ next > Len(batch)
    /\ phase' = "wait"
    /\ UNCHANGED <<chainVars, mempool, out, batch, next, pending, running, restorable, seen, stop,
                   err, streamed, dropped>>

Index(tx) == CHOOSE i \in DOMAIN batch : batch[i] = tx

(* The executor runs a task when those before it that conflict have finished.*)
Ready(tx) == \A tx2 \in pending : Index(tx2) < Index(tx) => ~Conflict(tx, tx2)

(* A task: its view is checked and run, and dropped when it may not be.      *)
RunTask(tx) ==
    LET r == Execute(tx, out.fees, out.bal)
    IN /\ tx \in pending /\ Ready(tx) /\ err = "none" /\ \A e \in running : e.tx # tx
       /\ IF ~PreExecute(tx, out.fees, out.bal, out.time)
          THEN /\ pending' = pending \ {tx} /\ dropped' = dropped \cup {tx}
               /\ UNCHANGED <<running, restorable, err>>
          ELSE IF r.error
          THEN /\ pending' = pending \ {tx} /\ restorable' = restorable \cup {tx}
               /\ err' = "deduct"
               /\ UNCHANGED <<running, dropped>>
          ELSE /\ running' = running \cup {[tx |-> tx, r |-> r]}
               /\ UNCHANGED <<pending, restorable, dropped, err>>
       /\ UNCHANGED <<chainVars, mempool, phase, out, batch, next, seen, stop, streamed>>

(* The view of the parent was invalidated: the task fails, and is dropped.   *)
ReadFails(tx) ==
    /\ tx \in pending /\ Ready(tx) /\ err = "none" /\ \A e \in running : e.tx # tx
    /\ pending' = pending \ {tx} /\ dropped' = dropped \cup {tx} /\ err' = "read"
    /\ UNCHANGED <<chainVars, mempool, phase, out, batch, next, running, restorable, seen, stop,
                   streamed>>

(* Mutant: the transaction is part of the block when it starts to run.       *)
CommitAlways(e) ==
    [out EXCEPT !.bal = [a \in Accounts |->
                           IF a \in DOMAIN StateKeys[e.tx] THEN e.r.bal[a] ELSE @[a]],
                !.txs = Append(@, e.tx), !.results = Append(@, e.r.result)]

(* The keys of the transaction are written to the block's state.             *)
Commit(e) ==
    [out EXCEPT !.fees = Consume(@, Units[e.tx]),
                !.bal = [a \in Accounts |->
                           IF a \in DOMAIN StateKeys[e.tx] THEN e.r.bal[a] ELSE @[a]],
                !.txs = Append(@, e.tx), !.results = Append(@, e.r.result)]

(* Under the lock of the block: a transaction that finds no room goes back,  *)
(* and ends the block when the dimension is at its target.                   *)
CommitTask(e) ==
    LET full == Exceeded(out.fees, Units[e.tx])
        above == \E d \in full : out.fees.last[d] >= WindowTargetUnits[d]
    IN /\ e \in running
       /\ running' = running \ {e} /\ pending' = pending \ {e.tx}
       /\ IF full = {}
          THEN out' = Commit(e) /\ UNCHANGED <<restorable, stop, err>>
          ELSE /\ restorable' = restorable \cup {e.tx}
               /\ stop' = (stop \/ above)
               /\ err' = IF above /\ err = "none" THEN "full" ELSE err
               /\ UNCHANGED out
       /\ UNCHANGED <<chainVars, mempool, phase, batch, next, seen, streamed, dropped>>

(* Mutant: what did not run is forgotten.                                    *)
EndBatchForgets ==
    /\ phase = "wait" /\ running = {} /\ (err = "none" => pending = {})
    /\ restorable' = restorable
    /\ pending' = {} /\ stop' = (stop \/ err # "none") /\ phase' = "stream"
    /\ UNCHANGED <<chainVars, mempool, out, batch, next, running, seen, err, streamed, dropped>>

(* executor.Wait returns: what did not run after an error goes back.         *)
EndBatch ==
    /\ phase = "wait" /\ running = {} /\ (err = "none" => pending = {})
    /\ restorable' = restorable \cup pending
    /\ pending' = {} /\ stop' = (stop \/ err # "none") /\ phase' = "stream"
    /\ UNCHANGED <<chainVars, mempool, out, batch, next, running, seen, err, streamed, dropped>>

(* An error of a task fails the build; everything goes back.                 *)
BuildFails ==
    /\ phase = "stream" /\ err \in {"deduct", "read"}
    /\ mempool' = mempool \cup restorable \cup ToSet(out.txs)
    /\ phase' = "idle" /\ out' = NoBlock /\ streamed' = {} /\ dropped' = {}
    /\ UNCHANGED <<chainVars, batch, next, pending, running, restorable, seen, stop, err>>

(* The mempool is empty, the block is full or the time is over.              *)
FinishBuild ==
    /\ phase = "stream" /\ err \in {"none", "full"}
    /\ mempool' = mempool \cup restorable
    /\ IF out.txs = <<>> /\ out.time < tip.time + MinEmptyBlockGap
       THEN phase' = "idle" /\ out' = NoBlock /\ streamed' = {} /\ dropped' = {}
       ELSE phase' = "built" /\ UNCHANGED <<out, streamed, dropped>>
    /\ UNCHANGED <<chainVars, batch, next, pending, running, restorable, seen, stop, err>>

-----------------------------------------------------------------------------
Init ==
    /\ tip = GenesisState /\ included = {} /\ history = <<>> /\ burned = 0 /\ mempool = {}
    /\ phase = "idle" /\ out = NoBlock /\ batch = <<>> /\ next = 1 /\ pending = {}
    /\ running = {} /\ restorable = {} /\ seen = {} /\ stop = FALSE /\ err = "none"
    /\ streamed = {} /\ dropped = {}

TaskStep ==
    \/ \E tx \in pending : RunTask(tx) \/ ReadFails(tx)
    \/ \E e \in running : CommitTask(e)

BuildStep ==
    \/ \E s \in Batches : Stream(s) \/ StreamFails(s)
    \/ Dispatch \/ OversizeRead \/ OversizeWrite \/ DispatchEnds
    \/ EndBatch \/ BuildFails \/ FinishBuild

TxLists == {s \in UNION {[1 .. n -> Txs] : n \in 0 .. 2} : IsInjective(s)}

Next ==
    \/ \E t \in Times : StartBuild(t) \/ \E txs \in TxLists : NetBlock(t, txs)
    \/ \E tx \in Txs, now \in Times : Submit(tx, now)
    \/ AcceptBuilt \/ RejectBuilt
    \/ TaskStep \/ BuildStep

Spec == Init /\ [][Next]_vars

-----------------------------------------------------------------------------
(* Properties                                                                *)

(* What a simulation of actions says of them holds when the transaction is   *)
(* executed: one that succeeds after its fee is paid has succeeded without,  *)
(* both calls of the API return the same outputs, and no permission is noted *)
(* that the transaction does not declare.                                    *)
SimulationHolds ==
    \A tx \in Txs :
        LET sim == SimulateActions(tx, tip.bal)
            fees == ComputeNext(tip.fees, tip.time)
        IN /\ Fee(fees, Units[tx]) # NoFee /\ CanSub(StateKeys[tx], tip.bal, tx.sponsor, Fee(fees, Units[tx]))
                => (Execute(tx, fees, tip.bal).result.success => sim.ok)
           /\ ExecuteActions(tx, tip.bal) = sim.outputs
           /\ \A i \in DOMAIN sim.keys : \A a \in DOMAIN sim.keys[i] :
                    HasPermission(StateKeys[tx], a, sim.keys[i][a])

(* "A pessimistic estimate" (transaction.go:419).                            *)
EstimateCovers ==
    \A tx \in Txs : \A d \in Dims \ {"bandwidth"} : Units[tx][d] <= EstimateUnits(tx)[d]

(* Every node that processes a block that was built finds it valid and comes *)
(* to the state and the results of the builder, whatever the order in which  *)
(* its tasks ran (builder.go and processor.go); and a transaction that       *)
(* passed PreExecute can pay its fee ("This should never fail").  So does    *)
(* what the API predicts.                                                    *)
BuiltIsValid ==
    /\ err # "deduct"
    /\ phase = "idle" => SimulationHolds
    /\ phase = "built" =>
          LET r == ExecuteBlock(tip, [height |-> tip.height + 1, time |-> out.time,
                                      txs |-> out.txs, root |-> tip])
          IN /\ r.ok /\ r.results = out.results
             /\ r.state = WriteBlockContext(tip.height + 1, out.time, out.fees, out.bal)

Supply(bal) == Total([a \in Accounts |-> GetBalance(bal, a)], Accounts)

(* Transfers neither create nor destroy what accounts hold; fees are burned. *)
SupplyConserved ==
    burned + Supply(tip.bal) = Allocated

(* The window of a block holds the units of the blocks before it that are    *)
(* less than its size older, each counted once, whatever the gaps between    *)
(* them (fees/manager.go, comment on the layout), and prices move towards    *)
(* the demand it shows, never below their minimum.  Sums and prices stop at  *)
(* the largest integer.  The units that are estimated, and those that are    *)
(* chosen for a limit, keep their bounds: both hold in every state and are   *)
(* evaluated in some.                                                        *)
FeesFollowDemand ==
    /\ history = <<>> /\ phase = "idle" /\ mempool = {} => EstimateCovers /\ LargestFits
    /\ history # <<>> =>
        LET n == Len(history)
            last == history[n]
            recent == {i \in 1 .. n - 1 : last.time - history[i].time < WindowSize}
            Demand(d) == Saturated(Total([i \in recent |-> history[i].units[d]], recent))
            Before(d) == IF n = 1 THEN MinUnitPrice[d] ELSE history[n - 1].price[d]
        IN \A d \in Dims :
              /\ SumWindow(tip.fees.window[d]) = Demand(d)
              /\ Demand(d) > WindowTargetUnits[d]
                    => last.price[d] > Before(d) \/ last.price[d] = MaxUint
              /\ Demand(d) = WindowTargetUnits[d] => last.price[d] = Before(d)
              /\ Demand(d) < WindowTargetUnits[d] => last.price[d] <= Before(d)
              /\ last.price[d] >= MinUnitPrice[d]
              /\ last.units[d] <= MaxBlockUnits[d]

(* What a build took from the mempool is in its block, in the mempool again, *)
(* or was dropped: for a reason, or by the append without the lock; and what *)
(* is in the block is not in the mempool (builder.go, restorable).           *)
BuildKeepsAll ==
    phase = "built" => /\ streamed \subseteq ToSet(out.txs) \cup mempool \cup dropped
                       /\ ToSet(out.txs) \cap (mempool \cup dropped) = {}
=============================================================================
