----------------------------- MODULE WindowSyncer -----------------------------
(***************************************************************************)
(* A node that enters state sync has the target, but not the blocks before *)
(* it that its validity window needs.  The syncer (syncer.go) populates    *)
(* the window with what is on disk and has a client (client.go) fetch the  *)
(* missing blocks from peers (handler.go), newest first, while blocks that *)
(* consensus accepts become new targets.                                   *)
(*                                                                         *)
(* Simplifications: the state syncer ends at any time; a node that ends    *)
(* during the state sync does not come back (StateSyncClient has that); a  *)
(* peer that fails, times out or answers with other blocks changes nothing *)
(* but the time of the next request.                                       *)
(***************************************************************************)
EXTENDS ValidityWindow

VARIABLES
    first,          \* height of the first target
    oldest,         \* Syncer.oldestBlock: its height
    minTimestamp,
    client,         \* goroutine of FetchBlocks: "none", "run", "closed", "cancelled"
    lastBlock,      \* BlockFetcherClient.lastBlock: its height
    resultChan,     \* the heights of the blocks in it
    syncDone        \* doneChan is closed

fetchVars == <<client, lastBlock, resultChan>>
syncVars == <<first, oldest, minTimestamp, fetchVars, syncDone>>

SyncInit ==
    /\ Init
    /\ first = 0 /\ oldest = 0 /\ minTimestamp = 0
    /\ client = "none" /\ lastBlock = 0 /\ resultChan = <<>>
    /\ syncDone = FALSE

-----------------------------------------------------------------------------
(* The engine's thread                                                       *)

(* The node accepts a summary: StartStateSync moves the index to the target, *)
(* and Syncer.Start populates the window and, unless that completes it,      *)
(* starts a fetch from the oldest block it found.                            *)
StartSync(target) ==
    /\ phase = "bootstrap" /\ done = Height(chain) /\ first = 0
    /\ CanUpdate(index, Height(target))
    /\ index' = UpdateLastAccepted(index, Height(target))
    /\ chain' = target /\ phase' = "syncing" /\ first' = Height(target)
    /\ minTimestamp' = OldestAllowed(Timestamp(target))
    /\ win' = Populate(win, index', target)
    /\ oldest' = PopulateLow(index', target)
    /\ syncDone' = Complete(index', target)
    /\ client' = IF syncDone' THEN "none" ELSE "run"
    /\ lastBlock' = oldest'
    /\ UNCHANGED <<processing, unchecked, done, restarts, resultChan>>

(* Mutant: the fetch is cancelled, and nobody waiting is told.               *)
UpdateSyncTargetSilent(b) ==
    /\ phase = "syncing"
    /\ Decide(b)
    /\ win' = WindowAccept(win, b)
    /\ IF Timestamp(b) - Timestamp(Ancestor(b, oldest)) > Window
       THEN /\ client' = IF client = "run" THEN "cancelled" ELSE client
            /\ UNCHANGED minTimestamp
       ELSE /\ minTimestamp' = OldestAllowed(Timestamp(b))
            /\ UNCHANGED client
    /\ UNCHANGED <<done, phase, restarts, first, oldest, lastBlock, resultChan, syncDone>>

(* UpdateSyncTarget: a window from the oldest block of the start to the new  *)
(* target is complete, and cancels the fetch.                                *)
UpdateSyncTarget(b) ==
    /\ phase = "syncing"
    /\ Decide(b)
    /\ win' = WindowAccept(win, b)
    /\ IF Timestamp(b) - Timestamp(Ancestor(b, oldest)) > Window
       THEN /\ syncDone' = TRUE
            /\ client' = IF client = "run" THEN "cancelled" ELSE client
            /\ UNCHANGED minTimestamp
       ELSE /\ minTimestamp' = OldestAllowed(Timestamp(b))
            /\ UNCHANGED <<syncDone, client>>
    /\ UNCHANGED <<done, phase, restarts, first, oldest, lastBlock, resultChan>>

(* The index cannot store the target.                                        *)
TargetFails(b) ==
    /\ \/ phase = "bootstrap" /\ done = Height(chain) /\ first = 0
       \/ phase = "syncing"
    /\ ~CanUpdate(index, Height(b))
    /\ phase' = "failed"
    /\ UNCHANGED <<chain, processing, unchecked, done, index, win, restarts, syncVars>>

-----------------------------------------------------------------------------
(* The goroutine of FetchBlocks                                              *)

(* The last block is older than the window: the channel is closed.           *)
FetchClosed ==
    /\ client = "run" /\ Timestamp(Ancestor(chain, lastBlock)) < minTimestamp
    /\ client' = "closed"
    /\ UNCHANGED <<vars, first, oldest, minTimestamp, lastBlock, resultChan, syncDone>>

(* A peer has the parent of the last block.                                  *)
FetchBlock ==
    /\ client = "run" /\ Timestamp(Ancestor(chain, lastBlock)) >= minTimestamp
    /\ lastBlock > 0 /\ resultChan = <<>>
    /\ lastBlock' = lastBlock - 1 /\ resultChan' = <<lastBlock - 1>>
    /\ UNCHANGED <<vars, first, oldest, minTimestamp, client, syncDone>>

-----------------------------------------------------------------------------
(* The goroutine of Syncer.Start                                             *)

TakeBlock ==
    /\ resultChan # <<>>
    /\ index' = SaveHistorical(index, Head(resultChan))
    /\ win' = AcceptHistorical(win, Ancestor(chain, Head(resultChan)))
    /\ resultChan' = <<>>
    /\ UNCHANGED <<chain, processing, unchecked, done, phase, restarts, first, oldest,
                   minTimestamp, client, lastBlock, syncDone>>

SignalDone ==
    /\ client = "closed" /\ resultChan = <<>> /\ ~syncDone
    /\ syncDone' = TRUE
    /\ UNCHANGED <<vars, first, oldest, minTimestamp, fetchVars>>

-----------------------------------------------------------------------------
(* The syncers are done: the block after the synced state and the blocks     *)
(* accepted since are executed and accepted.                                 *)
FinishSync(t) ==
    /\ phase = "syncing" /\ syncDone /\ t \in first .. Height(chain)
    /\ phase' = "ready" /\ done' = Height(chain)
    /\ win' = AcceptRange(win, chain, t, Height(chain))
    /\ UNCHANGED <<chain, processing, unchecked, index, restarts, syncVars>>

(* What the network may have accepted n heights above block b.               *)
Ahead(b) ==
    LET level[n \in Nat] == IF n = 0 THEN {b} ELSE UNION {NetChildren(c) : c \in level[n - 1]}
    IN UNION {level[n] : n \in 1 .. MaxHeight}

SyncStep ==
    \/ FetchClosed \/ FetchBlock \/ TakeBlock \/ SignalDone
    \/ \E t \in first .. Height(chain) : FinishSync(t)

Next ==
    \/ NodeNext /\ UNCHANGED syncVars
    \/ \E b \in Ahead(chain) : StartSync(b) \/ TargetFails(b)
    \/ \E b \in NetChildren(chain) : UpdateSyncTarget(b) \/ TargetFails(b)
    \/ SyncStep

Spec == SyncInit /\ [][Next]_<<vars, syncVars>>

FairSpec == Spec /\ WF_<<vars, syncVars>>(SyncStep)

-----------------------------------------------------------------------------
(* Properties                                                                *)

WindowTypeOK ==
    /\ done \in 0 .. Height(chain) /\ restarts \in 0 .. MaxRestarts
    /\ win \in [seen : SUBSET Txs, height : 0 .. Height(chain)]
    /\ index \in [last : {Height(chain)}, stored : SUBSET (0 .. Height(chain))]
    /\ unchecked \subseteq processing
    /\ phase \in {"bootstrap", "syncing", "ready", "normal", "failed", "down"}
    /\ {first, oldest, lastBlock} \subseteq 0 .. Height(chain)
    /\ minTimestamp \in Nat /\ syncDone \in BOOLEAN
    /\ client \in {"none", "run", "closed", "cancelled"}
    /\ resultChan \in {<<>>} \cup {<<h>> : h \in 0 .. Height(chain)}

(* The timestamps of a block and its ancestors increase, and their           *)
(* transactions were valid then.                                             *)
Timely(b) ==
    /\ b \in Seq(Payloads) /\ Height(b) <= MaxHeight
    /\ \A g, h \in DOMAIN b : g < h => b[g].ts + (h - g) <= b[h].ts
    /\ \A h \in DOMAIN b : \A x \in ToSet(b[h].txs) : VerifyTimestamp(x, b[h].ts)

Fresh(b) == IsInjective(Containers(b)) /\ ToSet(Containers(b)) \cap TxsOn(Front(b)) = {}

(* What is processing extends the accepted chain without gaps, none on a     *)
(* dead fork, and what replay protection let through has new transactions.   *)
ForksInv ==
    /\ Timely(chain) /\ NoneTwice(chain)
    /\ \A b \in processing :
          /\ Timely(b) /\ IsStrictPrefix(chain, b)
          /\ \A h \in Height(chain) + 1 .. Height(b) : Ancestor(b, h) \in processing
    /\ \A b \in processing \ unchecked : Fresh(b)
    /\ phase \in {"bootstrap", "syncing", "down"} => processing = {}

(* The map holds transactions of the chain; in normal operation all of those *)
(* up to the last block it accepted, or processed, that may still be valid.  *)
SeenInv ==
    /\ win.seen \subseteq TxsOn(chain)
    /\ phase = "normal" =>
          \A h \in DOMAIN chain : (h <= done \/ h <= win.height) =>
              {x \in ToSet(chain[h].txs) : Expiry[x] >= Timestamp(chain)} \subseteq win.seen

(* The index has the blocks from height l on.                                *)
Kept(ix, l) == l .. ix.last \subseteq ix.stored

(* It has those from l on that it has not pruned, or the fetch brings them.  *)
Coming(ix, l, coming) ==
    {h \in l .. ix.last : BlockWindow = 0 \/ h > ix.last - BlockWindow}
        \subseteq ix.stored \cup coming

(* A window of block b that begins at height l is a complete one.            *)
Reaches(b, l) == l = 0 \/ Timestamp(Ancestor(b, l)) < OldestAllowed(Timestamp(b))

(* Outside of state sync a complete window is in the index; a state sync     *)
(* that is done has put one there, or its target has one from where the      *)
(* fetch began.                                                              *)
IndexInv ==
    /\ 0 \in index.stored
    /\ phase \notin {"syncing", "failed"} =>
          \E l \in 0 .. Height(chain) : Kept(index, l) /\ Reaches(chain, l)
    /\ phase = "syncing" =>
          /\ Coming(index, oldest, {}) /\ Coming(index, lastBlock, ToSet(resultChan))
          /\ minTimestamp <= OldestAllowed(Timestamp(chain))
          /\ \/ client # "closed" \/ lastBlock = 0
             \/ Timestamp(Ancestor(chain, lastBlock)) < minTimestamp
          /\ \/ ~syncDone \/ Reaches(chain, oldest)
             \/ client = "closed" /\ resultChan = <<>>

(* The index keeps as many blocks as a window can have, which have different *)
(* timestamps, and two more.  The code leaves this to the configuration.     *)
KeepsWindow == BlockWindow = 0 \/ BlockWindow >= Window + 2

(* A node that is not in state sync can enter normal operation, now or after *)
(* a restart: what the index has pruned, and what the syncer left out when a *)
(* new target cancelled it, is not needed for a complete window.             *)
WindowInv ==
    /\ WindowTypeOK /\ ForksInv /\ SeenInv /\ IndexInv
    /\ phase \notin {"syncing", "failed"} => Complete(index, chain)

(* No transaction is twice on the accepted chain, although the accepter lags *)
(* behind consensus, the map forgets, and windows are rebuilt from pruned    *)
(* indexes and from the blocks of peers.                                     *)
NoReplay == NoneTwice(chain)

(* In normal operation replay protection is exact on every branch: it        *)
(* refuses a block exactly when a transaction is twice in it or is in an     *)
(* ancestor, and tells the builder which valid transactions an ancestor has. *)
VerifyIsExact ==
    phase = "normal" =>
        \A p \in Parents :
            /\ \A b \in Children(p) :
                   VerifyExpiryReplayProtection(b) <=>
                       /\ IsInjective(Containers(b))
                       /\ ToSet(Containers(b)) \cap TxsOn(p) = {}
            /\ \A t \in {u \in Times : u > Timestamp(p)} :
                   LET valid == {x \in Txs : VerifyTimestamp(x, t)}
                   IN IsRepeat(p, t, valid) = valid \cap TxsOn(p)

(* A state sync of the window ends: what peers answer completes it, or a new *)
(* target does, and a fetch that is cancelled leaves nobody waiting.         *)
SyncEnds == (phase = "syncing") ~> (phase # "syncing")
===============================================================================
