--------------------------- MODULE AcceptPipeline ---------------------------
(***************************************************************************)
(* How a block decided by consensus becomes executed state, over the three *)
(* stores of a HyperSDK node and across crashes and restarts.              *)
(*                                                                         *)
(*  - the consensus thread runs StatefulBlock.Accept: it writes the chain  *)
(*    index, sends the block to the bounded acceptedQueue and publishes it *)
(*    as lastAcceptedBlock (snow/block.go, snow/vm.go);                    *)
(*  - the async accepter goroutine receives blocks, calls VM.AcceptBlock   *)
(*    (execution results, then the merkledb commit), notifies acceptedSubs *)
(*    and publishes lastProcessedBlock;                                    *)
(*  - Initialize commits the genesis state and then writes the genesis     *)
(*    block, or rebuilds the frontier from what is on disk: vm/vm.go       *)
(*    initLastAccepted, snow/chain_index.go makeConsensusIndex.            *)
(*                                                                         *)
(* Simplifications:                                                        *)
(*  - consensus accepts one chain, so a block is its height; the tree of   *)
(*    processing blocks is the subject of DynamicStateSync;                *)
(*  - the VM is always ready: no dynamic state sync here;                  *)
(*  - acceptedBlocksByID holds consecutive heights (setLastAccepted puts   *)
(*    them in order), so the FIFO is kept as its lowest height, cacheFirst;*)
(*  - a crash stops the process: writes that returned are on disk;         *)
(*  - `delivered', `crashes' and `restarts' are history: no code reads     *)
(*    them.                                                                *)
(***************************************************************************)
EXTENDS Integers, Sequences, FiniteSets

CONSTANTS
    QueueSize,      \* acceptedQueueSize, 16 in snow/vm.go
    CacheSize,      \* VMConfig.AcceptedBlockWindowCache, 128 by default
    MaxHeight,      \* bound: consensus stops after this height
    MaxCrashes,     \* bound on crashes
    MaxRestarts     \* bound on restarts

ASSUME QueueAssumption == QueueSize \in Nat \ {0}
ASSUME CacheAssumption == CacheSize \in Nat /\ CacheSize >= QueueSize + 2
ASSUME BoundAssumption == /\ MaxHeight \in Nat
                          /\ MaxCrashes \in Nat
                          /\ MaxRestarts \in Nat

VARIABLES
    indexHeight,    \* disk: lastAcceptedKey of the chain index
    resultsHeight,  \* disk: height stored with lastResultKey
    stateHeight,    \* disk: HeightKey of the merkledb
    genesis,        \* disk: "none", "state" is committed, block is "indexed"
    allocated,      \* disk: how often the state has the genesis allocations
    vm,             \* phase of the process
    enginePc,       \* where the consensus thread is in Accept
    lastAccepted,   \* height of VM.lastAcceptedBlock
    cacheFirst,     \* lowest height in acceptedBlocksByID
    acceptedQueue,  \* the channel, oldest block first
    accepterPc,     \* where the async accepter is
    processing,     \* the block the accepter works on
    lastProcessed,  \* height of VM.lastProcessedBlock
    delivered,      \* history: heights acceptedSubs were notified of
    crashes,        \* history
    restarts        \* history

disk == <<indexHeight, resultsHeight, stateHeight, genesis, allocated>>
engine == <<enginePc, lastAccepted, cacheFirst>>
accepter == <<accepterPc, processing, lastProcessed>>
history == <<delivered, crashes, restarts>>
vars == <<disk, vm, engine, acceptedQueue, accepter, history>>

Heights == 0 .. MaxHeight
Phases == {"running", "stopping", "down", "genesis", "committing", "starting",
           "failed"}
EnginePcs == {"idle", "queue", "publish"}
AccepterPcs == {"idle", "results", "commit", "notify", "publish"}

Up == vm \in {"running", "stopping"}

-----------------------------------------------------------------------------
(* A node on empty disks.                                                    *)
Init ==
    /\ indexHeight = 0 /\ resultsHeight = 0 /\ stateHeight = 0
    /\ genesis = "none" /\ allocated = 0
    /\ vm = "down"
    /\ enginePc = "idle" /\ lastAccepted = 0 /\ cacheFirst = 0
    /\ acceptedQueue = <<>>
    /\ accepterPc = "idle" /\ processing = 0 /\ lastProcessed = 0
    /\ delivered = {} /\ crashes = 0 /\ restarts = 0

-----------------------------------------------------------------------------
(* The consensus thread: StatefulBlock.Accept.                               *)

(* The index is written first, before the block leaves verifiedBlocks.       *)
AcceptIndex ==
    /\ vm = "running" /\ enginePc = "idle"
    /\ lastAccepted < MaxHeight
    /\ indexHeight' = lastAccepted + 1
    /\ enginePc' = "queue"
    /\ UNCHANGED <<resultsHeight, stateHeight, genesis, allocated, vm, lastAccepted,
                   cacheFirst, acceptedQueue, accepter, history>>

(* queueAccept: a send on a full channel blocks the consensus thread.        *)
AcceptQueue ==
    /\ vm = "running" /\ enginePc = "queue"
    /\ Len(acceptedQueue) < QueueSize
    /\ acceptedQueue' = Append(acceptedQueue, lastAccepted + 1)
    /\ enginePc' = "publish"
    /\ UNCHANGED <<disk, vm, lastAccepted, cacheFirst, accepter, history>>

(* setLastAccepted, after the block was removed from verifiedBlocks.  Put    *)
(* evicts the oldest entry of a full FIFO.                                   *)
AcceptPublish ==
    /\ vm = "running" /\ enginePc = "publish"
    /\ lastAccepted' = lastAccepted + 1
    /\ cacheFirst' = IF lastAccepted + 1 - cacheFirst >= CacheSize
                     THEN cacheFirst + 1 ELSE cacheFirst
    /\ enginePc' = "idle"
    /\ UNCHANGED <<disk, vm, acceptedQueue, accepter, history>>

-----------------------------------------------------------------------------
(* The async accepter: startAsyncAccepter's loop around processAccept.       *)

Receive ==
    /\ Up /\ accepterPc = "idle" /\ acceptedQueue # <<>>
    /\ processing' = Head(acceptedQueue)
    /\ acceptedQueue' = Tail(acceptedQueue)
    /\ accepterPc' = "results"
    /\ UNCHANGED <<disk, vm, engine, lastProcessed, history>>

(* VM.AcceptBlock writes the execution results before the state.             *)
PutResults ==
    /\ Up /\ accepterPc = "results"
    /\ resultsHeight' = processing
    /\ accepterPc' = "commit"
    /\ UNCHANGED <<indexHeight, stateHeight, genesis, allocated, vm, engine,
                   acceptedQueue, processing, lastProcessed, history>>

CommitState ==
    /\ Up /\ accepterPc = "commit"
    /\ stateHeight' = processing
    /\ accepterPc' = "notify"
    /\ UNCHANGED <<indexHeight, resultsHeight, genesis, allocated, vm, engine,
                   acceptedQueue, processing, lastProcessed, history>>

(* Mutant: acceptedSubs are skipped.                                         *)
NotifyAcceptedMissing ==
    /\ Up /\ accepterPc = "notify"
    /\ accepterPc' = "publish"
    /\ UNCHANGED <<disk, vm, engine, acceptedQueue, processing, lastProcessed,
                   history>>

NotifyAccepted ==
    /\ Up /\ accepterPc = "notify"
    /\ delivered' = delivered \cup {processing}
    /\ accepterPc' = "publish"
    /\ UNCHANGED <<disk, vm, engine, acceptedQueue, processing, lastProcessed,
                   crashes, restarts>>

(* Mutant: lastProcessedBlock is left alone.                                 *)
SetLastProcessedMissing ==
    /\ Up /\ accepterPc = "publish"
    /\ accepterPc' = "idle"
    /\ UNCHANGED <<disk, vm, engine, acceptedQueue, processing, lastProcessed,
                   history>>

SetLastProcessed ==
    /\ Up /\ accepterPc = "publish"
    /\ lastProcessed' = processing
    /\ accepterPc' = "idle"
    /\ UNCHANGED <<disk, vm, engine, acceptedQueue, processing, history>>

-----------------------------------------------------------------------------
(* Shutdown and crashes.                                                     *)

(* Shutdown is called under the engine's lock, so never inside Accept: it    *)
(* closes the queue ...                                                      *)
Shutdown ==
    /\ vm = "running" /\ enginePc = "idle"
    /\ vm' = "stopping"
    /\ UNCHANGED <<disk, engine, acceptedQueue, accepter, history>>

(* ... and waits for the accepter to drain it.                               *)
ShutdownDone ==
    /\ vm = "stopping" /\ accepterPc = "idle" /\ acceptedQueue = <<>>
    /\ vm' = "down"
    /\ UNCHANGED <<disk, engine, acceptedQueue, accepter, history>>

Crash ==
    /\ vm \in {"running", "stopping", "genesis", "committing", "starting"}
    /\ crashes < MaxCrashes
    /\ crashes' = crashes + 1
    /\ vm' = "down"
    /\ enginePc' = "idle" /\ accepterPc' = "idle" /\ acceptedQueue' = <<>>
    /\ UNCHANGED <<disk, lastAccepted, cacheFirst, processing, lastProcessed,
                   delivered, restarts>>

-----------------------------------------------------------------------------
(* Initialize: initLastAccepted, then makeConsensusIndex.                    *)

Booting == vm = "down" /\ restarts < MaxRestarts

(* initGenesisAsLastAccepted, while there is no block in the index: the      *)
(* allocations are added to the balances the state database has, and         *)
(* committed ...                                                             *)
GenesisCommit ==
    /\ Booting
    /\ genesis # "indexed"
    /\ genesis' = "state"
    /\ allocated' = allocated + 1
    /\ restarts' = restarts + 1
    /\ vm' = "genesis"
    /\ UNCHANGED <<indexHeight, resultsHeight, stateHeight, engine, acceptedQueue,
                   accepter, delivered, crashes>>

(* ... and then the block is written, whose root is that of this state.      *)
GenesisIndex ==
    /\ vm = "genesis"
    /\ genesis' = "indexed"
    /\ vm' = "starting"
    /\ UNCHANGED <<indexHeight, resultsHeight, stateHeight, allocated, engine,
                   acceptedQueue, accepter, history>>

(* extractLatestOutputBlock, once there is a block.                          *)
Restarting == Booting /\ genesis = "indexed"

(* The index and the state agree: the stored results must be the block's.    *)
RecoverAtTip ==
    /\ Restarting
    /\ indexHeight = stateHeight
    /\ resultsHeight = stateHeight
    /\ restarts' = restarts + 1
    /\ vm' = "starting"
    /\ UNCHANGED <<disk, engine, acceptedQueue, accepter, delivered, crashes>>

(* Mutant: the tip of the index is executed whatever the gap.                *)
RecoverExecuteAnyGap ==
    /\ Restarting
    /\ indexHeight > stateHeight
    /\ resultsHeight' = indexHeight
    /\ restarts' = restarts + 1
    /\ vm' = "committing"
    /\ UNCHANGED <<indexHeight, stateHeight, genesis, allocated, engine,
                   acceptedQueue, accepter, delivered, crashes>>

(* The index is one block ahead: execute it and call VM.AcceptBlock.         *)
RecoverExecute ==
    /\ Restarting
    /\ indexHeight = stateHeight + 1
    /\ resultsHeight' = indexHeight
    /\ restarts' = restarts + 1
    /\ vm' = "committing"
    /\ UNCHANGED <<indexHeight, stateHeight, genesis, allocated, engine,
                   acceptedQueue, accepter, delivered, crashes>>

RecoverCommit ==
    /\ vm = "committing"
    /\ stateHeight' = indexHeight
    /\ vm' = "starting"
    /\ UNCHANGED <<indexHeight, resultsHeight, genesis, allocated, engine,
                   acceptedQueue, accepter, history>>

(* Any other gap: "cannot extract latest output block from invalid state",   *)
(* or results of another height.                                             *)
RecoverFail ==
    /\ Restarting
    /\ \/ indexHeight \notin {stateHeight, stateHeight + 1}
       \/ indexHeight = stateHeight /\ resultsHeight # stateHeight
    /\ restarts' = restarts + 1
    /\ vm' = "failed"
    /\ UNCHANGED <<disk, engine, acceptedQueue, accepter, delivered, crashes>>

(* The output block is already the tip of the index: nothing is left to      *)
(* reprocess, both frontiers start there and the caches hold that block.     *)
MakeConsensusIndex ==
    /\ lastAccepted' = indexHeight
    /\ lastProcessed' = indexHeight
    /\ cacheFirst' = indexHeight

(* Mutant: the tip is not notified on startup.                               *)
StartSilent ==
    /\ vm = "starting"
    /\ MakeConsensusIndex
    /\ vm' = "running"
    /\ UNCHANGED <<disk, enginePc, acceptedQueue, accepterPc, processing,
                   history>>

(* Initialize of the snow VM: the queue and the caches are new, the tip is   *)
(* notified and the accepter starts.                                         *)
Start ==
    /\ vm = "starting"
    /\ MakeConsensusIndex
    /\ delivered' = delivered \cup {indexHeight}
    /\ vm' = "running"
    /\ UNCHANGED <<disk, enginePc, acceptedQueue, accepterPc, processing,
                   crashes, restarts>>

-----------------------------------------------------------------------------
Engine == AcceptIndex \/ AcceptQueue \/ AcceptPublish
Accepter == \/ Receive \/ PutResults \/ CommitState \/ NotifyAccepted
            \/ SetLastProcessed
Recovery == \/ GenesisCommit \/ GenesisIndex
            \/ RecoverAtTip \/ RecoverExecute \/ RecoverCommit \/ RecoverFail
            \/ Start

Next == Engine \/ Accepter \/ Shutdown \/ ShutdownDone \/ Crash \/ Recovery

Spec == Init /\ [][Next]_vars

(* The goroutine and the call that is already running make progress; new     *)
(* decisions of consensus, shutdowns and crashes need not come.              *)
Fairness == /\ WF_vars(AcceptQueue \/ AcceptPublish)
            /\ WF_vars(Accepter)
            /\ WF_vars(ShutdownDone)
            /\ WF_vars(Recovery)

FairSpec == Spec /\ Fairness

-----------------------------------------------------------------------------
(* The stores hold heights and each thread is at one of its program points.  *)
TypeOK ==
    /\ indexHeight \in Heights /\ resultsHeight \in Heights
    /\ stateHeight \in Heights
    /\ genesis \in {"none", "state", "indexed"} /\ allocated \in Nat
    /\ vm \in Phases
    /\ enginePc \in EnginePcs
    /\ lastAccepted \in Heights /\ cacheFirst \in Heights
    /\ acceptedQueue \in Seq(Heights)
    /\ accepterPc \in AccepterPcs
    /\ processing \in Heights /\ lastProcessed \in Heights
    /\ delivered \subseteq Heights
    /\ crashes \in 0 .. MaxCrashes /\ restarts \in 0 .. MaxRestarts

(* Chain.AcceptBlock "is guaranteed to be called after the input block has   *)
(* been persisted to disk": neither the results nor the state run ahead of   *)
(* the index, and the results are never behind the state they belong to.     *)
PersistedFirst ==
    /\ stateHeight <= resultsHeight
    /\ resultsHeight <= stateHeight + 1
    /\ resultsHeight <= indexHeight

(* The index is ahead of the state by at most a full queue, the block the    *)
(* accepter works on and the one whose Accept is blocked on the send.  This  *)
(* is how much work a restart may find undone.                               *)
IndexLeadBounded == indexHeight - stateHeight <= QueueSize + 2

(* processAccept looks its parent up with GetBlock: it must find the cached  *)
(* block with Accepted set, not an input-only copy read back from the index. *)
ParentAccepted ==
    Up /\ accepterPc = "results" => /\ processing - 1 >= cacheFirst
                                    /\ processing - 1 <= lastAccepted
                                    /\ processing - 1 = lastProcessed

(* The two frontiers: what ConsensusIndex.GetLastAccepted returns is ahead   *)
(* of what LastAccepted returns only while an Accept is on its way, because  *)
(* the accepter can finish a block before Accept publishes it.               *)
ProcessedAheadOnlyInAccept ==
    Up /\ lastProcessed > lastAccepted =>
        enginePc = "publish" /\ lastProcessed = lastAccepted + 1

(* Without a crash every block up to lastProcessedBlock was delivered to     *)
(* acceptedSubs, restarts included; every crash can cost one delivery.       *)
MissedBoundedByCrashes ==
    vm = "running" => Cardinality((0 .. lastProcessed) \ delivered) <= crashes

(* A node that was always shut down gracefully starts again.                 *)
GracefulRestart == crashes = 0 => vm # "failed"

(* The detailed pipeline implements the abstract log: the index holds what   *)
(* was decided, the merkledb what was executed.  Through every crash and     *)
(* restart no block is skipped, executed on top of its own state, executed   *)
(* before it is persisted, or delivered while the state is elsewhere.        *)
Log == INSTANCE AcceptedLog
         WITH decided <- indexHeight, executed <- stateHeight

ImplementsLog == Log!Spec

(* acceptedSubs see blocks in height order: a block delivered for the first  *)
(* time is higher than every block delivered before.                         *)
DeliveryInOrder ==
    [][\A h \in delivered' \ delivered : \A g \in delivered : g < h]_delivered

(* As long as the node does not crash, every block written to the index is   *)
(* eventually executed and delivered, also when the node is shut down and    *)
(* restarted in between.                                                     *)
AcceptedIsDelivered ==
    \A h \in Heights : indexHeight >= h ~> (h \in delivered \/ crashes > 0)

(* Each crash can add the genesis allocations once more: the supply, and the *)
(* id of the genesis block, are only right when none came between the two    *)
(* writes.                                                                   *)
GenesisOnce == genesis = "indexed" => allocated \in 1 .. crashes + 1

(* What crashes can cost, and nothing else does.                             *)
CrashCosts == MissedBoundedByCrashes /\ GenesisOnce

-----------------------------------------------------------------------------
(* The inductive invariant behind the safety properties.                     *)

(* The last block the accepter has received.                                 *)
Received == IF accepterPc = "idle" THEN lastProcessed ELSE processing

(* The accepter is one block past lastProcessed, and the stores show exactly *)
(* how far it has got with it.                                               *)
AccepterInv ==
    /\ accepterPc # "idle" => processing = lastProcessed + 1
    /\ resultsHeight = IF accepterPc \in {"commit", "notify", "publish"}
                       THEN processing ELSE lastProcessed
    /\ stateHeight = IF accepterPc \in {"notify", "publish"}
                     THEN processing ELSE lastProcessed

(* The queue holds the consecutive blocks between the accepter and the       *)
(* consensus thread, and nothing is lost between the two.                    *)
QueueInv ==
    /\ Len(acceptedQueue) <= QueueSize
    /\ \A i \in 1 .. Len(acceptedQueue) : acceptedQueue[i] = Received + i
    /\ Received + Len(acceptedQueue) =
          IF enginePc = "publish" THEN lastAccepted + 1 ELSE lastAccepted

EngineInv ==
    /\ indexHeight = IF enginePc = "idle" THEN lastAccepted
                                          ELSE lastAccepted + 1
    /\ cacheFirst <= lastProcessed
    /\ lastAccepted - cacheFirst < CacheSize
    /\ vm = "stopping" => enginePc = "idle"

(* What a process that is not running leaves behind.                         *)
DiskInv ==
    /\ stateHeight <= resultsHeight
    /\ resultsHeight <= stateHeight + 1
    /\ resultsHeight <= indexHeight
    /\ indexHeight <= stateHeight + QueueSize + 2
    /\ vm = "committing" => /\ indexHeight = stateHeight + 1
                            /\ resultsHeight = indexHeight
    /\ vm = "starting" => indexHeight = stateHeight /\ resultsHeight = indexHeight
    /\ crashes = 0 => /\ vm \in {"down", "genesis", "starting"}
                      /\ indexHeight = stateHeight /\ resultsHeight = indexHeight
    /\ enginePc = "idle" /\ accepterPc = "idle" /\ acceptedQueue = <<>>

(* No block without genesis; the last commit of the allocations is accounted *)
(* for by the process that is to write the block, every other one by a crash.*)
GenesisInv ==
    /\ genesis # "indexed" => /\ vm \in {"down", "genesis"}
                              /\ indexHeight = 0 /\ delivered = {}
    /\ genesis = "none" => vm = "down" /\ allocated = 0
    /\ genesis = "state" /\ vm = "down" => allocated \in 1 .. crashes
    /\ genesis = "state" => allocated \in 1 .. crashes + 1
    /\ vm = "genesis" => genesis = "state"

(* Where the threads and the stores are, relative to each other.             *)
PositionInv ==
    /\ TypeOK /\ GenesisInv /\ GenesisOnce
    /\ Up => AccepterInv /\ QueueInv /\ EngineInv
    /\ ~Up => DiskInv
    /\ \A h \in delivered : h <= stateHeight

(* The blocks up to n that acceptedSubs were never notified of.              *)
Missed(n) == (0 .. n) \ delivered

(* A process that runs is about to deliver the block after lastProcessed; one*)
(* that starts is about to deliver the tip; from any other stop the tip may  *)
(* be one more block that is missed.                                         *)
DeliveryInv ==
    /\ Up => /\ Cardinality(Missed(lastProcessed)) <= crashes
             /\ accepterPc = "publish" => processing \in delivered
    /\ vm = "starting" => Cardinality(Missed(stateHeight - 1)) <= crashes
    /\ vm \in {"down", "committing"} /\ genesis = "indexed" =>
           Cardinality(Missed(stateHeight)) <= crashes

PipelineInv == PositionInv /\ DeliveryInv
=============================================================================
