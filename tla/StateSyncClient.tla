-------------------------- MODULE StateSyncClient --------------------------
(***************************************************************************)
(* State sync from start to end (statesync/client.go, vm/statesync.go): a  *)
(* node accepts a summary, marks on disk that it is syncing, downloads the *)
(* state while consensus goes on, executes a block on it, and enters       *)
(* normal operation.  The node may crash at every step and boots from what *)
(* it left on disk.                                                        *)
(*                                                                         *)
(* Simplifications:                                                        *)
(*  - a block is its height: forks are those of DynamicStateSync;          *)
(*  - the two syncers are what the client sees of them: the Merkle syncer  *)
(*    writes ranges in any order, so the height key changes at any time,   *)
(*    and the window syncer ends at any time;                              *)
(*  - once ready, a block is accepted when the one before it is processed: *)
(*    the queue between them is that of AcceptPipeline;                    *)
(*  - a panic and a fatal error end the process: they are like a crash;    *)
(*  - `failed' is a process that did not get through Initialize.           *)
(*  - the genesis block is no summary: the state before it does not exist.  *)
(***************************************************************************)
EXTENDS Integers

CONSTANTS
    MinBlocks,      \* a summary that is fewer blocks ahead is skipped
    MaxHeight,      \* bound: height of the network
    MaxCrashes      \* bound: crashes of the node

ASSUME BoundAssumption == MinBlocks \in Nat /\ MaxHeight \in Nat /\ MaxCrashes \in Nat

VARIABLES
    index,          \* chain index: the last accepted height
    height,         \* the height key of the state database
    whole,          \* the database holds the state of that height
    results,        \* height of the last execution results
    syncing,        \* GetDiskIsSyncing
    node,           \* "down", "up" or "failed"
    must,           \* Client.mustStateSync
    started,        \* Client.started
    vmReady,          \* snow VM.ready
    enginePhase,         \* phase of the consensus engine
    windowDone,     \* the window syncer is done
    target,         \* the target of the Merkle syncer
    pc,             \* where the state sync is
    normalOps,      \* how often startNormalOp ran
    finishErr,      \* history: onFinish returned an error
    crashes

disk == <<index, height, whole, results, syncing>>
client == <<must, started, windowDone, target, pc, finishErr>>
vm == <<node, vmReady, enginePhase, normalOps>>
clientVars == <<disk, client, vm, crashes>>

Heights == 0 .. MaxHeight

(* A genesis database, before the first start.                               *)
ClientInit ==
    /\ index = 0 /\ height = 0 /\ whole = TRUE /\ results = 0 /\ syncing = FALSE
    /\ node = "down" /\ must = FALSE /\ started = FALSE /\ vmReady = FALSE
    /\ enginePhase = "stateSync" /\ windowDone = FALSE /\ target = 0
    /\ pc = "none" /\ normalOps = 0 /\ finishErr = FALSE /\ crashes = 0

-----------------------------------------------------------------------------
(* VM.Initialize                                                             *)

(* initLastAccepted finds a block for the state, or executes the next one.   *)
Bootable == \/ index = 0
            \/ index = height /\ results = height
            \/ index = height + 1 /\ whole

(* Without state sync the node starts from the block of its state ...        *)
Boot ==
    /\ node = "down" /\ ~syncing /\ Bootable
    /\ must' = FALSE
    /\ height' = index /\ results' = index
    /\ vmReady' = TRUE /\ node' = "up"
    /\ UNCHANGED <<index, whole, syncing, started, enginePhase, windowDone, target, pc,
                   normalOps, finishErr, crashes>>

(* ... otherwise Initialize fails: either initLastAccepted finds an index    *)
(* that does not fit the state, or, after a state sync that did not end,     *)
(* notifyAccepted updates the target of syncers that are not started.        *)
BootFails ==
    /\ node = "down" /\ (syncing \/ ~Bootable)
    /\ node' = "failed" /\ must' = syncing
    /\ UNCHANGED <<disk, started, windowDone, target, pc, finishErr, vmReady, enginePhase,
                   normalOps, crashes>>

(* The process ends and loses its memory.                                    *)
Crash ==
    /\ node = "up" /\ crashes < MaxCrashes
    /\ crashes' = crashes + 1
    /\ node' = "down" /\ must' = FALSE /\ started' = FALSE /\ vmReady' = FALSE
    /\ enginePhase' = "stateSync" /\ windowDone' = FALSE /\ target' = 0
    /\ pc' = "none" /\ normalOps' = 0 /\ finishErr' = FALSE
    /\ UNCHANGED disk

-----------------------------------------------------------------------------
(* The engine's thread                                                       *)

(* Client.Accept of a summary: state sync is skipped ...                     *)
Skip(t) ==
    /\ node = "up" /\ enginePhase = "stateSync"
    /\ ~must /\ index + MinBlocks > t
    /\ enginePhase' = "bootstrap"
    /\ UNCHANGED <<disk, client, node, vmReady, normalOps, crashes>>

(* Mutant: the chain index moves before the disk says that it is syncing.    *)
AcceptUnmarked(t) ==
    /\ node = "up" /\ enginePhase = "stateSync"
    /\ must \/ index + MinBlocks <= t
    /\ target' = t /\ index' = t /\ started' = TRUE
    /\ enginePhase' = "starting" /\ pc' = "marked"
    /\ UNCHANGED <<height, whole, results, syncing, must, windowDone, finishErr,
                   node, vmReady, normalOps, crashes>>

(* ... or starts with a mark on disk.                                        *)
AcceptSummary(t) ==
    /\ node = "up" /\ enginePhase = "stateSync"
    /\ must \/ index + MinBlocks <= t
    /\ syncing' = TRUE /\ target' = t /\ started' = TRUE
    /\ enginePhase' = "starting" /\ pc' = "marked"
    /\ UNCHANGED <<index, height, whole, results, must, windowDone, finishErr,
                   node, vmReady, normalOps, crashes>>

(* No peer has a summary: the engine bootstraps.                             *)
NoSummary ==
    /\ node = "up" /\ enginePhase = "stateSync"
    /\ enginePhase' = "bootstrap"
    /\ UNCHANGED <<disk, client, node, vmReady, normalOps, crashes>>

(* onStart: snow.VM.StartStateSync.                                          *)
StartStateSync ==
    /\ node = "up" /\ pc = "marked"
    /\ index' = target /\ vmReady' = FALSE
    /\ pc' = "indexed"
    /\ UNCHANGED <<height, whole, results, syncing, must, started, windowDone, target,
                   finishErr, node, enginePhase, normalOps, crashes>>

(* The syncers start; the window may be complete already.                    *)
StartSyncers ==
    /\ node = "up" /\ pc = "indexed"
    /\ windowDone' \in BOOLEAN
    /\ pc' = "download" /\ enginePhase' = "bootstrap"
    /\ UNCHANGED <<disk, must, started, target, finishErr, node, vmReady, normalOps,
                   crashes>>

(* A block is accepted before the state is ready: it is the new target of    *)
(* the syncers, unless the Merkle syncer is closed.                          *)
AcceptBlockSyncing ==
    /\ node = "up" /\ enginePhase \in {"bootstrap", "normalOp"} /\ ~vmReady
    /\ pc # "reprocess"                       \* chainLock
    /\ index < MaxHeight
    /\ index' = index + 1
    /\ windowDone' \in {windowDone, TRUE}
    /\ target' = IF pc = "download" THEN index + 1 ELSE target
    /\ UNCHANGED <<height, whole, results, syncing, must, started, pc, finishErr, vm,
                   crashes>>

(* Afterwards the accepter executes it.                                      *)
AcceptBlock ==
    /\ node = "up" /\ enginePhase \in {"bootstrap", "normalOp"} /\ vmReady
    /\ index < MaxHeight /\ index = height
    /\ index' = index + 1
    /\ UNCHANGED <<height, whole, results, syncing, client, vm, crashes>>

Process ==
    /\ node = "up" /\ vmReady /\ height < index
    /\ results' = height + 1
    /\ height' = height + 1
    /\ UNCHANGED <<index, whole, syncing, client, vm, crashes>>

(* SetState(NormalOp): after a state sync, its end starts normal operation.  *)
SetNormalOp ==
    /\ node = "up" /\ enginePhase = "bootstrap"
    /\ enginePhase' = "normalOp"
    /\ normalOps' = IF started THEN normalOps ELSE normalOps + 1
    /\ UNCHANGED <<disk, client, node, vmReady, crashes>>

-----------------------------------------------------------------------------
(* The syncers                                                               *)

(* The Merkle syncer writes a range, which may be the one of the height key. *)
MerkleRange ==
    /\ node = "up" /\ pc = "download"
    /\ \E h \in {height, target - 1} : height' = h
    /\ whole' = FALSE
    /\ UNCHANGED <<index, results, syncing, client, vm, crashes>>

(* It has the state before the block that is its target.                     *)
MerkleDone ==
    /\ node = "up" /\ pc = "download"
    /\ height' = target - 1 /\ whole' = TRUE
    /\ pc' = "window"
    /\ UNCHANGED <<index, results, syncing, must, started, windowDone, target,
                   finishErr, vm, crashes>>

WindowDone ==
    /\ node = "up" /\ pc \in {"download", "window"} /\ ~windowDone
    /\ windowDone' = TRUE
    /\ UNCHANGED <<disk, must, started, target, pc, finishErr, vm, crashes>>

-----------------------------------------------------------------------------
(* Client.finish and onFinish                                                *)

Step(from, to) == node = "up" /\ pc = from /\ pc' = to

(* Both syncers are done: the block after the state is executed on it; its   *)
(* results are stored ...                                                    *)
PutResults ==
    /\ Step("window", "results") /\ windowDone
    /\ results' = height + 1
    /\ UNCHANGED <<index, height, whole, syncing, must, started, windowDone, target,
                   finishErr, vm, crashes>>

(* ... and its view is committed.                                            *)
CommitTarget ==
    /\ Step("results", "reprocess")
    /\ height' = height + 1
    /\ UNCHANGED <<index, whole, results, syncing, must, started, windowDone, target,
                   finishErr, vm, crashes>>

(* FinishStateSync executes what consensus accepted in the meantime.         *)
Reprocess ==
    /\ node = "up" /\ pc = "reprocess" /\ height < index
    /\ height' = height + 1 /\ results' = height + 1
    /\ UNCHANGED <<index, whole, syncing, client, vm, crashes>>

(* Mutant: the node is ready with the state of the target.                   *)
FinishBehind ==
    /\ Step("reprocess", "normal")
    /\ vmReady' = TRUE
    /\ UNCHANGED <<disk, must, started, windowDone, target, finishErr, node, enginePhase,
                   normalOps, crashes>>

FinishSync ==
    /\ Step("reprocess", "normal") /\ height = index
    /\ vmReady' = TRUE
    /\ UNCHANGED <<disk, must, started, windowDone, target, finishErr, node, enginePhase,
                   normalOps, crashes>>

(* Mutant: the mark is removed before normal operation has started.          *)
StartNormalOpNever ==
    /\ Step("normal", "unmark")
    /\ UNCHANGED <<disk, must, started, windowDone, target, finishErr, node, vmReady,
                   enginePhase, normalOps, crashes>>

(* The engine is told, and normal operation starts.                          *)
StartNormalOp ==
    /\ Step("normal", "unmark")
    /\ normalOps' = normalOps + 1
    /\ UNCHANGED <<disk, must, started, windowDone, target, finishErr, node, vmReady,
                   enginePhase, crashes>>

Unmark ==
    /\ Step("unmark", "done")
    /\ syncing' = FALSE
    /\ UNCHANGED <<index, height, whole, results, must, started, windowDone, target,
                   finishErr, vm, crashes>>

(* A step of onFinish returns an error.  It is assigned to a variable that   *)
(* shadows the one the deferred function looks at: nothing happens.          *)
FinishFails ==
    /\ node = "up" /\ pc \in {"window", "results", "reprocess", "normal", "unmark"}
    /\ pc = "window" => windowDone
    /\ pc' = "done" /\ finishErr' = TRUE
    /\ UNCHANGED <<disk, must, started, windowDone, target, vm, crashes>>

-----------------------------------------------------------------------------
SyncStep ==
    \/ StartStateSync \/ StartSyncers
    \/ MerkleDone \/ WindowDone
    \/ PutResults \/ CommitTarget \/ Reprocess \/ FinishSync
    \/ StartNormalOp \/ Unmark

ClientNext ==
    \/ Boot \/ BootFails \/ Crash
    \/ \E t \in Heights \ {0} : Skip(t) \/ AcceptSummary(t)
    \/ NoSummary \/ AcceptBlockSyncing \/ AcceptBlock \/ Process \/ SetNormalOp
    \/ MerkleRange \/ SyncStep \/ FinishFails

ClientSpec == ClientInit /\ [][ClientNext]_clientVars

(* The goroutines of the state sync keep going, and peers answer the syncers. *)
FairClientSpec == ClientSpec /\ WF_clientVars(SyncStep)

-----------------------------------------------------------------------------
(* Properties                                                                *)

(* The variables have their types.                                           *)
ClientTypeOK ==
    /\ index \in Heights /\ height \in Heights /\ results \in Heights
    /\ target \in Heights /\ crashes \in 0 .. MaxCrashes /\ normalOps \in 0 .. 2
    /\ {whole, syncing, must, started, vmReady, windowDone, finishErr} \subseteq BOOLEAN
    /\ node \in {"down", "up", "failed"}
    /\ enginePhase \in {"stateSync", "starting", "bootstrap", "normalOp"}
    /\ pc \in {"none", "marked", "indexed", "download", "window", "results",
               "reprocess", "normal", "unmark", "done"}

(* Whenever the process ends, a disk that is not marked as syncing holds a   *)
(* state that fits its chain index: startDynamicStateSync marks the disk     *)
(* before onStart moves the index, and finish unmarks it last.               *)
UnmarkedIsBootable == ~syncing => whole /\ Bootable

(* What each place of a state sync stands for: which of disk, target and     *)
(* phase of the engine the next step may rely on.                            *)
Complete == whole /\ results = height /\ index \in {height, height + 1}

PhaseInv ==
    /\ node # "up" => pc = "none" /\ enginePhase = "stateSync" /\ normalOps = 0 /\ ~vmReady
    /\ started <=> pc # "none"
    /\ pc \notin {"none", "done"} => syncing
    /\ node = "up" /\ pc = "none" => ~syncing
    /\ node = "up" /\ pc \in {"none", "marked", "normal", "unmark"} => vmReady
    /\ node = "up" /\ vmReady => Complete
    /\ node = "up" /\ ~vmReady => syncing
    /\ pc \in {"indexed", "download", "window", "results", "reprocess"} => ~vmReady

EngineInv ==
    /\ IF pc \in {"marked", "indexed"} THEN enginePhase = "starting"
       ELSE enginePhase # "starting" /\ (enginePhase = "stateSync" => pc = "none")
    /\ node = "up" /\ enginePhase \in {"stateSync", "starting"} /\ vmReady => index = height
    /\ pc = "none" => normalOps = IF enginePhase = "normalOp" THEN 1 ELSE 0
    /\ pc = "unmark" => normalOps = 1
    /\ pc \notin {"none", "unmark", "done"} => normalOps = 0
    /\ normalOps <= 1 /\ (normalOps = 1 => vmReady)

TargetInv ==
    /\ pc = "marked" => target # 0
    /\ pc \notin {"none", "marked"} => target \in 1 .. index
    /\ pc \in {"indexed", "download"} => index = target
    /\ pc \in {"window", "results"} => whole /\ height = target - 1
    /\ pc = "results" => results = height + 1
    /\ pc = "reprocess" => whole /\ results = height /\ height <= index

SyncClientInv ==
    /\ ClientTypeOK
    /\ UnmarkedIsBootable
    /\ PhaseInv
    /\ EngineInv
    /\ TargetInv

(* A VM that is ready has the whole state, with its results, of the last     *)
(* accepted block or of the one before it: blocks that consensus accepted    *)
(* while the syncers ended are executed before FinishStateSync sets ready.   *)
(* Builder and gossiper start once, and only on a ready VM: the engine does  *)
(* not start them during a state sync, which does so at its end.             *)
ReadyIsComplete ==
    /\ node = "up" /\ vmReady =>
          whole /\ results = height /\ index \in {height, height + 1}
    /\ normalOps <= 1 /\ (normalOps = 1 => vmReady)

(* A state sync that starts ends in normal operation without a mark, unless  *)
(* the node crashes or a step of onFinish fails.                             *)
SyncEnds ==
    started ~> \/ normalOps = 1 /\ ~syncing
               \/ node # "up" \/ finishErr
=============================================================================
