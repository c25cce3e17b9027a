------------------------------- MODULE Gossiper -------------------------------
(***************************************************************************)
(* What keeps a node going in normal operation: the transactions that come *)
(* into the mempool (VM.Submit), the timer that asks consensus for a block *)
(* (internal/builder/time.go) and the gossiper that sends transactions to  *)
(* the next proposers (internal/gossiper/target.go).  Both are woken by    *)
(* Queue, which checkActivity calls after a Submit and after a build.      *)
(*                                                                         *)
(* Queue takes the flag waiting by CompareAndSwap, and whoever has it -    *)
(* the caller, or the timer - is the only one to signal and to clear it:   *)
(* the place of that one is all there is to say of Queue.  A signal is a   *)
(* send that is dropped when nobody receives it, and waiting is cleared    *)
(* after the signal: a Queue in between is lost.                           *)
(*                                                                         *)
(* Simplifications:                                                        *)
(*  - the clock is read as any time, so a Queue may be due or early;       *)
(*  - the channel of the engine has room for one message;                  *)
(*  - a transaction has size one, and a message of gossip one transaction; *)
(*  - the Done of both at shutdown is left out.                            *)
(***************************************************************************)
EXTENDS Mempool, FiniteSetsExt

CONSTANTS
    GossipMinLife,
    GossipMaxSize,
    TimedItems      \* bound: items of a node whose builder has a timer

ASSUME GossipAssumption ==
    GossipMinLife \in Nat /\ GossipMaxSize \in Nat \ {0} /\ TimedItems \subseteq Items

VARIABLES
    manual,         \* options builder and gossiper: Force has to be called
    due,            \* checkActivity is to run
    buildQueue,     \* where the holder of waiting is: builder ...
    gossipQueue,    \* ... and gossiper
    toEngine,       \* PendingTxs is in the channel
    gossipLoop,     \* where the goroutine of the gossiper is
    cache,          \* seen by the gossiper
    outbox,         \* txs of Force, before sendTxs
    handed,         \* history: sent, received, or given up with an error
    asleep          \* history: a Queue of the builder failed or was lost

queues == <<manual, due, buildQueue, toEngine, asleep>>
gossip == <<gossipQueue, gossipLoop, cache, outbox, handed>>
nodeVars == <<mempoolVars, queues, gossip>>

(* startNormalOp starts the builder and the gossiper, then calls             *)
(* checkActivity.                                                            *)
NodeInit ==
    /\ MempoolInit
    /\ manual \in BOOLEAN /\ due = ~manual /\ buildQueue = "free" /\ toEngine = FALSE /\ asleep = FALSE
    /\ gossipQueue = "free" /\ gossipLoop = "wait"
    /\ cache = {} /\ outbox = {} /\ handed = {}

-----------------------------------------------------------------------------
(* Queue                                                                     *)

(* The signal is to come, now or from the timer.                             *)
QueueGossip == gossipQueue' = IF gossipQueue = "free" THEN "set" ELSE gossipQueue

(* The preferred block says when; without it nothing is queued.              *)
QueueBuild ==
    \/ /\ buildQueue = "free" /\ buildQueue' = "set"
       /\ asleep' = FALSE
    \/ /\ buildQueue = "free" /\ UNCHANGED buildQueue
       /\ asleep' = TRUE
    \/ /\ buildQueue # "free" /\ UNCHANGED buildQueue
       /\ asleep' = (asleep \/ buildQueue = "clear")

checkActivity ==
    /\ due /\ due' = FALSE
    /\ QueueGossip /\ QueueBuild
    /\ UNCHANGED <<mempoolVars, manual, toEngine, gossipLoop, cache, outbox, handed>>

-----------------------------------------------------------------------------
(* The builder                                                               *)

(* Force drops the message if the channel is full.                           *)
ForceBuild ==
    /\ buildQueue = "set" /\ buildQueue' = "clear"
    /\ toEngine' = TRUE
    /\ UNCHANGED <<mempoolVars, manual, due, asleep, gossip>>

ClearBuild ==
    /\ buildQueue = "clear" /\ buildQueue' = "free"
    /\ UNCHANGED <<mempoolVars, manual, due, toEngine, asleep, gossip>>

(* Consensus takes the message and calls BuildBlock ...                      *)
EngineBuilds ==
    /\ toEngine /\ toEngine' = FALSE
    /\ StartBuild
    /\ UNCHANGED <<manual, due, buildQueue, asleep, gossip>>

(* ... or it is not the turn of this node, or the preferred block is not     *)
(* there: then nobody calls Queue.                                           *)
EngineDeclines ==
    /\ toEngine /\ toEngine' = FALSE /\ buildPc = "idle"
    /\ asleep' = TRUE
    /\ UNCHANGED <<mempoolVars, manual, due, buildQueue, gossip>>

(* Mutant: BuildBlock does not call checkActivity.                           *)
BuildBlockSilent ==
    /\ BuildFails \/ \E built \in BOOLEAN : EndBuild(built)
    /\ UNCHANGED <<queues, gossip>>

(* BuildBlock calls checkActivity whether it has built a block or not.       *)
BuildBlock ==
    /\ BuildFails \/ \E built \in BOOLEAN : EndBuild(built)
    /\ due' = ~manual
    /\ UNCHANGED <<manual, buildQueue, toEngine, asleep, gossip>>

BuildStep ==
    \/ StartStreaming \/ Stream \/ StreamEmpty \/ StartPrepare \/ RepeatFails
    \/ \E inc, res, kept \in SUBSET ToSet(batch) :
           ExecuteBatch(inc, res, kept) \/ TaskFails(inc, res, kept)

-----------------------------------------------------------------------------
(* The gossiper                                                              *)

(* q has no buffer: only a loop that waits receives.                         *)
notify ==
    /\ gossipQueue = "set" /\ gossipQueue' = "clear"
    /\ gossipLoop' = IF gossipLoop = "wait" THEN "check" ELSE gossipLoop
    /\ UNCHANGED <<mempoolVars, queues, cache, outbox, handed>>

ClearGossip ==
    /\ gossipQueue = "clear" /\ gossipQueue' = "free"
    /\ gossipLoop' = IF gossipLoop = "requeue" THEN "wait" ELSE gossipLoop
    /\ UNCHANGED <<mempoolVars, queues, cache, outbox, handed>>

(* This node is to propose soon: the loop calls Queue itself, which may      *)
(* signal now, to a loop that does not wait, or later ...                    *)
Requeue ==
    /\ gossipLoop = "check"
    /\ QueueGossip
    /\ gossipLoop' \in IF gossipQueue = "free" THEN {"requeue", "wait"} ELSE {"wait"}
    /\ UNCHANGED <<mempoolVars, queues, cache, outbox, handed>>

(* ... and otherwise looks at the first n of the mempool at time now.        *)
Alive(i, now) == Expiry[i] >= now + GossipMinLife

Fresh(s, now) == SelectSeq(s, LAMBDA i : Alive(i, now) /\ i \notin cache)

(* The transaction that no longer fits ends it.                              *)
Reaches(n, now) ==
    \A k \in 1 .. n - 1 :
        Alive(pool.queue[k], now) =>
            Len(Fresh(FirstItems(k - 1), now)) < GossipMaxSize

(* Mutant: a transaction is seen before its size is looked at.               *)
ForceMarksMore(n, now) ==
    LET seen == FirstItems(n)
        fresh == Fresh(seen, now)
    IN /\ gossipLoop = "check" /\ Reaches(n, now)
       /\ Top(n, {i \in ToSet(seen) : Expiry[i] < now})
       /\ outbox' = ToSet(SubSeq(fresh, 1, Min({GossipMaxSize, Len(fresh)})))
       /\ cache' = cache \cup ToSet(fresh)
       /\ gossipLoop' = IF outbox' = {} THEN "wait" ELSE "send"
       /\ UNCHANGED <<queues, gossipQueue, handed>>

ForceGossip(n, now) ==
    LET seen == FirstItems(n)
        fresh == Fresh(seen, now)
    IN /\ gossipLoop = "check" /\ Reaches(n, now)
       /\ Top(n, {i \in ToSet(seen) : Expiry[i] < now})
       /\ outbox' = ToSet(SubSeq(fresh, 1, Min({GossipMaxSize, Len(fresh)})))
       /\ cache' = cache \cup outbox'
       /\ gossipLoop' = IF outbox' = {} THEN "wait" ELSE "send"
       /\ UNCHANGED <<queues, gossipQueue, handed>>

(* Target names the proposers without this node, or fails; either way the    *)
(* transactions stay in the cache and are not sent again.                    *)
sendTxs ==
    /\ gossipLoop = "send" /\ gossipLoop' = "wait"
    /\ handed' = handed \cup outbox /\ outbox' = {}
    /\ UNCHANGED <<mempoolVars, queues, gossipQueue, cache>>

(* Submit adds what is not in the mempool and passes PreExecute, then calls  *)
(* checkActivity; the Queue of a manual builder or gossiper does nothing.    *)
Submit(i) ==
    /\ MuFree
    /\ AddItem(i) \/ UNCHANGED mempoolVars
    /\ due' = ~manual
    /\ UNCHANGED <<manual, buildQueue, toEngine, asleep, gossipQueue, gossipLoop, outbox>>

(* What is received is marked as seen, then submitted.                       *)
HandleAppGossip(i) ==
    /\ ~manual /\ Submit(i)
    /\ cache' = cache \cup {i} /\ handed' = handed \cup {i}

(* Force of the manual builder, and of the manual gossiper, which looks at   *)
(* the first n of the mempool and sends all that is not expired.             *)
ForceManual ==
    /\ manual /\ UNCHANGED <<manual, due, buildQueue, asleep, gossip>>
    /\ \/ toEngine' = TRUE /\ UNCHANGED mempoolVars
       \/ /\ UNCHANGED toEngine
          /\ \E n \in 1 .. Len(pool.queue), now \in 0 .. MaxTime :
                 Top(n, {i \in ToSet(FirstItems(n)) : Expiry[i] < now})

-----------------------------------------------------------------------------
Known == IF manual THEN Items ELSE TimedItems

BuildThread == (BuildStep /\ UNCHANGED <<queues, gossip>>) \/ BuildBlock

Restoring == (PrepareStream \/ FinishStreaming) /\ UNCHANGED <<queues, gossip>>

(* A verified block takes its transactions out, a rejected one puts them     *)
(* back, an accepted one expires others.                                     *)
Blocks ==
    /\ \/ \E i \in Known : RemoveItem(i) \/ AddItem(i)
       \/ \E t \in 1 .. MaxTime : SetMinTimestamp(t)
    /\ UNCHANGED <<queues, gossip>>

NodeNext ==
    \/ ForceManual
    \/ checkActivity \/ ForceBuild \/ ClearBuild
    \/ EngineBuilds \/ EngineDeclines \/ BuildThread \/ Restoring \/ Blocks
    \/ notify \/ ClearGossip \/ Requeue \/ sendTxs
    \/ \E n \in 1 .. Len(pool.queue), now \in 0 .. MaxTime : ForceGossip(n, now)
    \/ \E i \in Known :
           HandleAppGossip(i) \/ (Submit(i) /\ UNCHANGED <<cache, handed>>)

(* The goroutines that run go on; messages, blocks and submissions need not  *)
(* come, and consensus need not take a message.                              *)
NodeFairness ==
    /\ WF_nodeVars(checkActivity)
    /\ WF_nodeVars(ForceBuild) /\ WF_nodeVars(ClearBuild)
    /\ WF_nodeVars(BuildThread) /\ WF_nodeVars(PrepareStream /\ UNCHANGED <<queues, gossip>>)
    /\ WF_nodeVars(FinishStreaming /\ UNCHANGED <<queues, gossip>>)

NodeSpec == NodeInit /\ [][NodeNext]_nodeVars /\ NodeFairness

-----------------------------------------------------------------------------
(* Properties                                                                *)

(* mempool.go:49 says of streamLock that it "should never be needed".  It is *)
(* when the next build starts before the goroutine of the last one has given *)
(* back what it had: the build waits for it with mu, which FinishStreaming   *)
(* needs, and neither the builder nor any Submit goes on.                    *)
Deadlocked == buildPc = "starting" /\ streamLock /\ finish

(* What the gossiper has seen it has sent, or is sending, or was sent: no    *)
(* transaction that did not fit into a message is kept from the next one.    *)
GossipInv ==
    /\ cache = handed \cup outbox
    /\ (outbox # {}) = (gossipLoop = "send")
    /\ gossipLoop = "requeue" => gossipQueue \in {"set", "clear"}

(* The loop of builds: as long as no Queue is lost between the message and   *)
(* the end of the one before, the preferred block is there and consensus     *)
(* calls BuildBlock when it is asked, it is asked again and again, with or   *)
(* without new transactions - unless the mempool is deadlocked.              *)
BuildAsked == []<>(manual \/ toEngine \/ asleep \/ Deadlocked)
=============================================================================
