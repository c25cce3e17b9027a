-------------------------- MODULE DynamicStateSync --------------------------
(***************************************************************************)
(* The block tree of the snow VM from StartStateSync to normal operation:  *)
(* blocks are verified and accepted vacuously while state is fetched, then *)
(* FinishStateSync, on the state sync goroutine, reprocesses the accepted  *)
(* chain, verifies every processing block and marks the VM ready, while    *)
(* the consensus engine goes on (snow/block.go, snow/statesync.go).        *)
(*                                                                         *)
(* Two threads.  The engine calls one VM method at a time.  Verify, Accept *)
(* and BuildBlock hold chainLock from start to end, as FinishStateSync     *)
(* does, so each is one action here and waits while FinishStateSync runs.  *)
(* Reject takes only verifiedL: it runs in the middle of FinishStateSync.  *)
(*                                                                         *)
(* Simplifications:                                                        *)
(*  - the tree is a constant, Root is the first sync target; Invalid are   *)
(*    the blocks Chain.VerifyBlock rejects; P-Chain contexts agree;        *)
(*  - the accept queue and the accepter are in AcceptPipeline: here the    *)
(*    accepter takes one step per block and the caches evict nothing;      *)
(*  - SetPreference is folded into BuildBlock, which starts from any block *)
(*    the engine may prefer;                                               *)
(*  - crashes are in AcceptPipeline and StateSyncClient.                   *)
(* acceptedLog, preRejectedLog and rejectedLog are history: what the       *)
(* subscribers were told.                                                  *)
(***************************************************************************)
EXTENDS Naturals, FiniteSets, Sequences

CONSTANTS
    Blocks,     \* every block the engine can hear of, Root included
    Root,       \* the block StartStateSync is called with
    Parent,     \* [Blocks -> Blocks], Parent[Root] = Root
    Height,     \* [Blocks -> Nat]
    Ancestors,  \* [Blocks -> SUBSET Blocks], each block and all below it
    Invalid,    \* blocks whose execution fails
    None        \* no block

ASSUME TreeAssumption ==
    /\ Root \in Blocks
    /\ Parent \in [Blocks -> Blocks] /\ Parent[Root] = Root
    /\ Height \in [Blocks -> Nat]
    /\ \A b \in Blocks \ {Root} : Height[b] = Height[Parent[b]] + 1
    /\ Ancestors \in [Blocks -> SUBSET Blocks] /\ Ancestors[Root] = {Root}
    /\ \A b \in Blocks \ {Root} : Ancestors[b] = {b} \cup Ancestors[Parent[b]]
    /\ Invalid \subseteq Blocks \ {Root}
    /\ None \notin Blocks

(* Blocks that execute, on parents that execute.                             *)
Sound == {b \in Blocks : Ancestors[b] \cap Invalid = {}}

VARIABLES
    ready,          \* VM.ready
    indexed,        \* blocks in inputChainIndex, which stay cached here
    lastAccepted,   \* VM.lastAcceptedBlock
    lastProcessed,  \* VM.lastProcessedBlock, None for nil
    verifiedBlocks, \* keys of VM.verifiedBlocks
    verified,       \* blocks whose StatefulBlock has verified set
    accepted,       \* blocks whose StatefulBlock has accepted set
    acceptedQueue,  \* VM.acceptedQueue
    toReject,       \* engine: conflicts of the block it accepted last
    rejecting,      \* the block whose Reject is between its two steps
    syncPc,         \* where the state sync goroutine is
    syncTarget,     \* the block the synced state belongs to
    snapshot,       \* processingBlocks still to verify
    unresolved,     \* invalidBlkIDs, then the set of the health check
    panicked,       \* BuildBlock dereferenced a nil parent
    acceptedLog,    \* history: what acceptedSubs were told, in order
    rejectedLog,    \* history: what rejectedSubs were told
    preRejectedLog  \* history: what preRejectedSubs were told

engine == <<toReject, rejecting>>
sync == <<syncPc, syncTarget, snapshot>>
history == <<acceptedLog, rejectedLog, preRejectedLog>>
vars == <<ready, indexed, lastAccepted, lastProcessed, verifiedBlocks, verified,
          accepted, acceptedQueue, engine, sync, unresolved, panicked, history>>

SyncPcs == {"syncing", "synced", "snapshot", "verifying", "done", "failed"}

(* GetBlock: verifiedBlocks, then the accepted cache, then the index.  A     *)
(* block has an Output only when its StatefulBlock was verified.             *)
Found(b) == b \in verifiedBlocks \cup indexed
HasOutput(b) == Found(b) /\ b \in verified

(* FinishStateSync holds chainLock until the VM is ready or it has failed.   *)
ChainLockFree == syncPc \notin {"snapshot", "verifying"}

(* The engine has no call under way, and no conflict left to reject.         *)
EngineIdle == toReject = {} /\ rejecting = None /\ ~panicked

-----------------------------------------------------------------------------
(* StartStateSync has just returned.                                         *)
Init ==
    /\ ready = FALSE
    /\ indexed = {Root}
    /\ lastAccepted = Root
    /\ lastProcessed = None
    /\ verifiedBlocks = {} /\ verified = {} /\ accepted = {}
    /\ acceptedQueue = <<>>
    /\ toReject = {} /\ rejecting = None
    /\ syncPc = "syncing" /\ syncTarget = None /\ snapshot = {}
    /\ unresolved = {}
    /\ panicked = FALSE
    /\ acceptedLog = <<>>
    /\ rejectedLog = {} /\ preRejectedLog = {}

-----------------------------------------------------------------------------
(* The consensus engine.                                                     *)

(* What the engine may issue: a block it has not decided, whose parent is    *)
(* the last accepted block or is processing.                                 *)
Issuable(b) ==
    /\ EngineIdle
    /\ b \notin verifiedBlocks \cup indexed
    /\ Parent[b] \in verifiedBlocks \cup {lastAccepted}

(* verifyWithContext, case !ready.                                           *)
VerifyVacuously(b) ==
    /\ ChainLockFree /\ Issuable(b)
    /\ ~ready
    /\ verifiedBlocks' = verifiedBlocks \cup {b}
    /\ UNCHANGED <<ready, indexed, lastAccepted, lastProcessed, verified,
                   accepted, acceptedQueue, engine, sync, unresolved, panicked,
                   history>>

(* verifyWithContext, default case.  An unverified parent or a block that    *)
(* does not execute returns an error and changes nothing.                    *)
VerifyExecute(b) ==
    /\ ChainLockFree /\ Issuable(b)
    /\ ready /\ b \notin verified
    /\ HasOutput(Parent[b])
    /\ b \notin Invalid
    /\ verified' = verified \cup {b}
    /\ verifiedBlocks' = verifiedBlocks \cup {b}
    /\ UNCHANGED <<ready, indexed, lastAccepted, lastProcessed, accepted,
                   acceptedQueue, engine, sync, unresolved, panicked,
                   acceptedLog, rejectedLog, preRejectedLog>>

(* verifyWithContext, case b.verified: the block was built here.             *)
VerifyBuilt(b) ==
    /\ ChainLockFree /\ Issuable(b)
    /\ ready /\ b \in verified
    /\ verifiedBlocks' = verifiedBlocks \cup {b}
    /\ UNCHANGED <<ready, indexed, lastAccepted, lastProcessed, verified,
                   accepted, acceptedQueue, engine, sync, unresolved, panicked,
                   history>>

(* A built block waits for its Verify in parsedBlocks.  When the LRU has     *)
(* dropped it, ParseBlock makes a new StatefulBlock that is not verified.    *)
ParseBlock(b) ==
    /\ EngineIdle
    /\ ~Found(b) /\ b \in verified
    /\ verified' = verified \ {b}
    /\ UNCHANGED <<ready, indexed, lastAccepted, lastProcessed, verifiedBlocks,
                   accepted, acceptedQueue, engine, sync, unresolved, panicked,
                   history>>

(* What the engine may prefer.  The builder notifies the engine only once    *)
(* startNormalOp has run, after FinishStateSync.                             *)
Preferable(p) ==
    /\ ChainLockFree /\ EngineIdle
    /\ ready
    /\ p \in verifiedBlocks \cup {lastAccepted}

(* buildBlock: the block is verified by building it.                         *)
BuildBlock(b) ==
    /\ Preferable(Parent[b]) /\ HasOutput(Parent[b])
    /\ b # Root /\ b \notin Invalid \cup verified
    /\ verified' = verified \cup {b}
    /\ UNCHANGED <<ready, indexed, lastAccepted, lastProcessed, verifiedBlocks,
                   accepted, acceptedQueue, engine, sync, unresolved, panicked,
                   history>>

(* buildBlock passes the preferred block's Output without asking whether it  *)
(* was verified; Chain.BuildBlock dereferences it.                           *)
BuildOnUnverified(p) ==
    /\ Preferable(p) /\ ~HasOutput(p)
    /\ panicked' = TRUE
    /\ UNCHANGED <<ready, indexed, lastAccepted, lastProcessed, verifiedBlocks,
                   verified, accepted, acceptedQueue, engine, sync, unresolved,
                   history>>

(* Accept.  Consensus accepts a child of the last accepted block, and only   *)
(* one a correct majority found valid.  The engine then rejects the          *)
(* siblings and their descendants.                                           *)
Decidable(b) ==
    /\ ChainLockFree /\ EngineIdle
    /\ b \in verifiedBlocks /\ Parent[b] = lastAccepted /\ b \in Sound

(* Mutant: the block is not queued for the accepter.                         *)
AcceptNotQueued(b) ==
    /\ Decidable(b)
    /\ ready => b \in verified
    /\ indexed' = indexed \cup {b}
    /\ verifiedBlocks' = verifiedBlocks \ {b}
    /\ lastAccepted' = b
    /\ toReject' = {c \in verifiedBlocks : b \notin Ancestors[c]}
    /\ UNCHANGED <<ready, lastProcessed, verified, accepted, acceptedQueue,
                   rejecting, sync, unresolved, panicked, history>>

Accept(b) ==
    /\ Decidable(b)
    /\ ready => b \in verified
    /\ indexed' = indexed \cup {b}
    /\ acceptedQueue' = IF ready THEN Append(acceptedQueue, b) ELSE acceptedQueue
    /\ verifiedBlocks' = verifiedBlocks \ {b}
    /\ lastAccepted' = b
    /\ toReject' = {c \in verifiedBlocks : b \notin Ancestors[c]}
    /\ UNCHANGED <<ready, lastProcessed, verified, accepted, rejecting, sync,
                   unresolved, panicked, history>>

(* Reject, parents first: the block leaves verifiedBlocks under verifiedL,   *)
(* without chainLock ...                                                     *)
RejectRemove(b) ==
    /\ b \in toReject /\ Parent[b] \notin toReject
    /\ rejecting = None
    /\ verifiedBlocks' = verifiedBlocks \ {b}
    /\ toReject' = toReject \ {b}
    /\ rejecting' = b
    /\ UNCHANGED <<ready, indexed, lastAccepted, lastProcessed, verified,
                   accepted, acceptedQueue, sync, unresolved, panicked, history>>

(* ... and its subscribers are told.  The subscription that resolves it is   *)
(* there once FinishStateSync has added it.                                  *)
RejectNotify ==
    /\ rejecting # None
    /\ IF rejecting \in verified
       THEN /\ rejectedLog' = rejectedLog \cup {rejecting}
            /\ UNCHANGED <<unresolved, preRejectedLog>>
       ELSE /\ preRejectedLog' = preRejectedLog \cup {rejecting}
            /\ unresolved' = IF syncPc = "done" THEN unresolved \ {rejecting}
                                                ELSE unresolved
            /\ UNCHANGED rejectedLog
    /\ rejecting' = None
    /\ UNCHANGED <<ready, indexed, lastAccepted, lastProcessed, verifiedBlocks,
                   verified, accepted, acceptedQueue, toReject, sync, panicked,
                   acceptedLog>>

-----------------------------------------------------------------------------
(* The async accepter: processAccept.                                        *)
ProcessAccept ==
    /\ acceptedQueue # <<>> /\ ~panicked
    /\ accepted' = accepted \cup {Head(acceptedQueue)}
    /\ acceptedLog' = Append(acceptedLog, Head(acceptedQueue))
    /\ lastProcessed' = Head(acceptedQueue)
    /\ acceptedQueue' = Tail(acceptedQueue)
    /\ UNCHANGED <<ready, indexed, lastAccepted, verifiedBlocks, verified,
                   engine, sync, unresolved, panicked, rejectedLog, preRejectedLog>>

-----------------------------------------------------------------------------
(* The state sync goroutine.                                                 *)

(* The syncers are done.  Every block accepted since StartStateSync became   *)
(* the target; the merkledb holds the state of one of them, which onFinish   *)
(* has executed and committed.                                               *)
SyncDone(T) ==
    /\ syncPc = "syncing"
    /\ T \in indexed
    /\ syncTarget' = T
    /\ syncPc' = "synced"
    /\ UNCHANGED <<ready, indexed, lastAccepted, lastProcessed, verifiedBlocks,
                   verified, accepted, acceptedQueue, engine, snapshot,
                   unresolved, panicked, history>>

(* Mutant: reprocessing starts with the target itself.                       *)
ReprocessedTarget ==
    [i \in 1 .. Height[lastAccepted] - Height[syncTarget] + 1 |->
        CHOOSE b \in indexed : Height[b] = Height[syncTarget] + i - 1]

(* reprocessFromOutputToInput: the accepted blocks after the target, in      *)
(* order, are verified, accepted and notified.                               *)
Reprocessed ==
    [i \in 1 .. Height[lastAccepted] - Height[syncTarget] |->
        CHOOSE b \in indexed : Height[b] = Height[syncTarget] + i]

(* FinishStateSync up to setLastProcessed: the last accepted block is the    *)
(* only StatefulBlock that gets its Output and Accepted.                     *)
FinishStateSync ==
    /\ syncPc = "synced" /\ ~ready
    /\ verified' = verified \cup {lastAccepted}
    /\ accepted' = accepted \cup {lastAccepted}
    /\ lastProcessed' = lastAccepted
    /\ acceptedLog' = acceptedLog \o Reprocessed
    /\ syncPc' = "snapshot"
    /\ UNCHANGED <<ready, indexed, lastAccepted, verifiedBlocks, acceptedQueue,
                   engine, syncTarget, snapshot, unresolved, panicked,
                   rejectedLog, preRejectedLog>>

(* verifyProcessingBlocks copies verifiedBlocks under verifiedL ...          *)
TakeSnapshot ==
    /\ syncPc = "snapshot"
    /\ snapshot' = verifiedBlocks
    /\ syncPc' = "verifying"
    /\ UNCHANGED <<ready, indexed, lastAccepted, lastProcessed, verifiedBlocks,
                   verified, accepted, acceptedQueue, engine, syncTarget,
                   unresolved, panicked, history>>

(* Mutant: the heap is not ordered by height.                                *)
AnyProcessing(b) == b \in snapshot

(* ... and takes the blocks in the order of their heights.                   *)
Lowest(b) == b \in snapshot /\ \A c \in snapshot : Height[b] <= Height[c]

VerifyProcessing(b) ==
    /\ syncPc = "verifying" /\ Lowest(b)
    /\ Found(Parent[b])
    /\ snapshot' = snapshot \ {b}
    /\ IF HasOutput(Parent[b]) /\ b \notin Invalid
       THEN verified' = verified \cup {b} /\ UNCHANGED unresolved
       ELSE unresolved' = unresolved \cup {b} /\ UNCHANGED verified
    /\ UNCHANGED <<ready, indexed, lastAccepted, lastProcessed, verifiedBlocks,
                   accepted, acceptedQueue, engine, syncPc, syncTarget, panicked,
                   acceptedLog, rejectedLog, preRejectedLog>>

(* Mutant: the goroutine waits for a parent that is gone.                    *)
ParentNotFoundWaits(b) == FALSE

(* "failed to fetch parent block": FinishStateSync returns the error.        *)
ParentNotFound(b) ==
    /\ syncPc = "verifying" /\ Lowest(b)
    /\ ~Found(Parent[b])
    /\ syncPc' = "failed"
    /\ UNCHANGED <<ready, indexed, lastAccepted, lastProcessed, verifiedBlocks,
                   verified, accepted, acceptedQueue, engine, syncTarget,
                   snapshot, unresolved, panicked, history>>

(* The subscription and the health check are added, the VM is ready.         *)
MarkReady ==
    /\ syncPc = "verifying" /\ snapshot = {}
    /\ ready' = TRUE
    /\ syncPc' = "done"
    /\ UNCHANGED <<indexed, lastAccepted, lastProcessed, verifiedBlocks,
                   verified, accepted, acceptedQueue, engine, syncTarget,
                   snapshot, unresolved, panicked, history>>

-----------------------------------------------------------------------------
(* What the engine and the application read.                                 *)

GetBlockIDAtHeight(h) ==
    IF h = Height[lastAccepted] THEN lastAccepted
    ELSE CHOOSE b \in indexed : Height[b] = h

(* The block, and whether it comes with its Output.                          *)
GetBlockByHeight(h) ==
    LET b == GetBlockIDAtHeight(h) IN [id |-> b, output |-> HasOutput(b)]

(* ConsensusIndex.  None: an error is returned.                              *)
GetPreferredBlock(preference) == IF HasOutput(preference) THEN preference ELSE None

GetLastAccepted == IF lastProcessed \in accepted THEN lastProcessed ELSE None

(* The readiness check, and the check of blocks that are not resolved.       *)
Healthy == ready /\ unresolved = {}

-----------------------------------------------------------------------------
Reject == RejectNotify \/ \E b \in Blocks : RejectRemove(b)

Engine == \/ \E b \in Blocks : \/ VerifyVacuously(b) \/ VerifyExecute(b)
                               \/ VerifyBuilt(b) \/ BuildBlock(b)
                               \/ BuildOnUnverified(b) \/ Accept(b)
                               \/ ParseBlock(b)
          \/ Reject

Finish == \/ FinishStateSync \/ TakeSnapshot \/ MarkReady
          \/ \E b \in Blocks : VerifyProcessing(b) \/ ParentNotFound(b)

Next == Engine \/ ProcessAccept \/ (\E T \in Blocks : SyncDone(T)) \/ Finish

Spec == Init /\ [][Next]_vars

(* Goroutines that can run do; a Reject the engine owes comes.  Nothing      *)
(* forces consensus to decide or the network to finish the sync.             *)
Fairness == WF_vars(Finish) /\ WF_vars(ProcessAccept) /\ WF_vars(Reject)

FairSpec == Spec /\ Fairness

-----------------------------------------------------------------------------
TypeOK ==
    /\ ready \in BOOLEAN
    /\ indexed \subseteq Blocks
    /\ lastAccepted \in Blocks /\ lastProcessed \in Blocks \cup {None}
    /\ verifiedBlocks \subseteq Blocks /\ verified \subseteq Blocks
    /\ accepted \subseteq Blocks
    /\ acceptedQueue \in Seq(Blocks)
    /\ toReject \subseteq Blocks /\ rejecting \in Blocks \cup {None}
    /\ syncPc \in SyncPcs /\ syncTarget \in Blocks \cup {None}
    /\ syncTarget = None <=> syncPc = "syncing"
    /\ snapshot \subseteq Blocks /\ unresolved \subseteq Blocks
    /\ panicked \in BOOLEAN
    /\ acceptedLog \in Seq(Blocks)
    /\ rejectedLog \subseteq Blocks
    /\ preRejectedLog \subseteq Blocks

(* Once the VM is ready every processing block that executes has its Output, *)
(* so Accept never meets errParentFailedVerification for a block consensus   *)
(* may accept.  Only blocks already waiting for their Reject are left out.   *)
ReadyHasOutputs ==
    ready => (verifiedBlocks \ toReject) \cap Sound \subseteq verified

(* StatefulBlock's first guarantee, "Verify is always called against a       *)
(* verified parent", and what it is for: no block that fails, or that        *)
(* extends one that fails, ever counts as verified.                          *)
OnlySoundVerified == verified \subseteq Sound

(* The health check covers every block of the processing tree that is not    *)
(* verified: the node is unhealthy as long as one is there.                  *)
UnresolvedCovered == ready => verifiedBlocks \ verified \subseteq unresolved

(* The consensus index of a ready VM has a last accepted block to show: the  *)
(* processed block has its Accepted, the accepted one its Output.            *)
FrontierPopulated ==
    ready => /\ lastProcessed \in accepted
             /\ HasOutput(lastAccepted)

(* acceptedSubs got exactly the chain from above the synced state to the     *)
(* processed block: nothing missing, repeated or out of order where          *)
(* reprocessing hands over to the accepter.                                  *)
AcceptedStreamExact ==
    ready => /\ Len(acceptedLog) = Height[lastProcessed] - Height[syncTarget]
             /\ \A i \in DOMAIN acceptedLog :
                   Parent[acceptedLog[i]] = IF i = 1 THEN syncTarget
                                            ELSE acceptedLog[i - 1]

(* A block is reported rejected to one kind of subscriber only, and no block *)
(* that was accepted is reported rejected.                                   *)
DecidedOnce ==
    /\ rejectedLog \cap preRejectedLog = {}
    /\ (rejectedLog \cup preRejectedLog) \cap indexed = {}

(* GetPreferredBlock has no Output to return for a preference that was       *)
(* verified vacuously and is invalid.  On a healthy node there is no such    *)
(* block, whatever the engine prefers.                                       *)
HealthyPreference ==
    Healthy => \A p \in verifiedBlocks \cup {lastAccepted} :
                  GetPreferredBlock(p) # None

(* The accepted chain can be read by height while it is synced and           *)
(* reprocessed, and the block the application takes for the last accepted    *)
(* one is on it.                                                             *)
ReadsConsistent ==
    /\ \A h \in Height[Root] .. Height[lastAccepted] :
          LET b == GetBlockByHeight(h).id
          IN  Height[b] = h /\ b \in Ancestors[lastAccepted]
    /\ ready => GetBlockByHeight(Height[lastAccepted]).output
    /\ ready => GetLastAccepted \in Ancestors[lastAccepted]

(* What the application sees of the transition, through its subscriptions    *)
(* and the consensus index.                                                  *)
ApplicationView ==
    AcceptedStreamExact /\ DecidedOnce /\ ReadsConsistent /\ HealthyPreference

(* FinishStateSync terminates: the VM becomes ready or reports an error.     *)
FinishTerminates == syncPc = "synced" ~> (syncPc = "failed" \/ ready)

(* Every block accepted by a ready VM is processed.                          *)
AcceptedIsProcessed ==
    \A b \in Blocks :
        ready /\ lastAccepted = b ~>
            panicked \/ (ready /\ Height[lastProcessed] >= Height[b])

-----------------------------------------------------------------------------
(* The inductive invariant behind the safety properties.                     *)

(* Accepted blocks execute, and there is one at every height from Root up.   *)
IndexInv ==
    /\ Root \in indexed /\ lastAccepted \in indexed
    /\ indexed \subseteq Sound
    /\ \A b \in indexed : Height[b] \in Height[Root] .. Height[lastAccepted]
    /\ \A h \in Height[Root] .. Height[lastAccepted] :
          \E b \in indexed : Height[b] = h

(* The processing blocks the engine still considers.                         *)
Live == verifiedBlocks \ toReject

(* They form a tree on the last accepted block.                              *)
TreeInv ==
    /\ verifiedBlocks \cap indexed = {}
    /\ toReject \subseteq verifiedBlocks
    /\ rejecting \notin verifiedBlocks
    /\ \A b \in Live : Parent[b] \in Live \cup {lastAccepted}

(* The processing blocks FinishStateSync, or a later Verify, has judged.     *)
Judged == IF syncPc = "verifying" THEN verifiedBlocks \ snapshot
          ELSE IF syncPc = "done" THEN verifiedBlocks ELSE {}

(* A judged block is verified or unresolved, and verified if it executes and *)
(* may still be accepted.                                                    *)
JudgedInv ==
    /\ verified \subseteq Sound
    /\ Judged \ verified \subseteq unresolved
    /\ (Judged \cap Live) \cap Sound \subseteq verified

(* FinishStateSync has come to setLastProcessed.                             *)
Reached == syncPc \in {"snapshot", "verifying", "done"}

(* Who has an Output, and who is judged.                                     *)
OutputInv ==
    /\ TypeOK /\ IndexInv /\ TreeInv /\ JudgedInv
    /\ syncTarget # None => syncTarget \in indexed
    /\ ready <=> syncPc = "done"
    /\ Reached => lastAccepted \in verified /\ lastProcessed \in accepted

(* The accepted blocks are one chain.                                        *)
ChainInv ==
    /\ \A b, c \in indexed : Height[b] = Height[c] => b = c
    /\ \A b \in indexed \ {Root} : Parent[b] \in indexed
    /\ indexed \subseteq Ancestors[lastAccepted]

(* s holds the accepted blocks that follow height h, in order.               *)
Follows(s, h) == \A i \in DOMAIN s : /\ s[i] \in indexed
                                     /\ Height[s[i]] = h + i

(* The processed block is where the log ends and the queue begins.           *)
StreamInv ==
    /\ ~ready => acceptedQueue = <<>>
    /\ syncPc \in {"syncing", "synced"} => acceptedLog = <<>>
    /\ Reached => /\ lastProcessed \in indexed
                  /\ Height[syncTarget] + Len(acceptedLog) = Height[lastProcessed]
                  /\ Follows(acceptedLog, Height[syncTarget])
                  /\ Height[lastProcessed] + Len(acceptedQueue) = Height[lastAccepted]
                  /\ Follows(acceptedQueue, Height[lastProcessed])

(* Blocks the subscribers were told are rejected.                            *)
Gone == rejectedLog \cup preRejectedLog

(* A rejected block is off the accepted chain for good: what is live extends *)
(* the last accepted block, what is rejected, or to be, does not.            *)
DecisionInv ==
    /\ rejectedLog \cap preRejectedLog = {}
    /\ Gone \cap (verifiedBlocks \cup indexed) = {}
    /\ rejecting \notin Gone \cup indexed
    /\ \A b \in Live : lastAccepted \in Ancestors[b]
    /\ \A b \in (toReject \cup Gone \cup {rejecting}) \cap Blocks :
          lastAccepted \notin Ancestors[b]

SyncInv == OutputInv /\ ChainInv /\ StreamInv /\ DecisionInv

=============================================================================
