----------------------------- MODULE Publication -----------------------------
(***************************************************************************)
(* What the outside world learns of accepted blocks: the websocket server  *)
(* (api/ws/server.go) streams blocks to its block listeners and answers    *)
(* each client that waits for a transaction, over the connections and      *)
(* message buffers of pubsub; the indexer (api/indexer/indexer.go) keeps   *)
(* the last blocks in memory and on disk.  Both are notified of a block by *)
(* the accepter, one after the other, while clients register, connections  *)
(* fail and the node crashes.                                              *)
(*                                                                         *)
(* Simplifications:                                                        *)
(*  - the timestamp of a block is its height;                              *)
(*  - one call of Publish is one step: connections do not depend on each   *)
(*    other, and an entry of listeners is removed at the next call when    *)
(*    its connection closes in the middle of one;                          *)
(*  - a message that is written has arrived; the client reads them all;    *)
(*  - Submit, which follows AddTxListener, changes nothing here: a         *)
(*    transaction may be accepted whoever has submitted it;                *)
(*  - a client registers a transaction once.                               *)
(*  - clients may connect after a restart as soon as the tip of the chain   *)
(*    has been handed to the indexer: the code serves them a little later.  *)
(***************************************************************************)
EXTENDS Integers, Sequences, SequencesExt, FiniteSets, FiniteSetsExt

CONSTANTS
    Conns,
    Txs,
    Expiry,         \* tx -> its timestamp
    MaxPending,     \* MaxPendingMessages: capacity of MessageBuffer.Queue
    MaxSize,        \* MaxWriteMessageSize
    BlockWindow,    \* of the indexer
    MaxHeight,      \* bound on the chain
    MaxSkips,       \* bound on blocks accepted during state sync
    MaxCrashes      \* bound

ASSUME PublicationAssumption ==
    /\ {MaxPending, MaxSize, MaxHeight, MaxSkips, MaxCrashes} \subseteq Nat
    /\ BlockWindow \in Nat \ {0}
    /\ Txs \subseteq Nat \ {0} /\ IsFiniteSet(Txs) /\ Expiry \in [Txs -> Nat]

VARIABLES
    chain,          \* the transactions of the blocks at heights 1, 2, ..
    notify,         \* where the notification of the last block is
    conn,           \* connection -> its state and that of its buffer
    blockListeners,
    txListeners,    \* tx -> connections
    expiringTxs,    \* an emap of transactions
    cache,          \* heights in blockHeightToBlock
    txCache,        \* <<tx, height>> for the transactions in txCache
    lastHeight,     \* 0: none
    db,             \* disk: heights of the stored blocks
    missed,         \* history: heights the indexer has not stored
    crashes         \* history

listeners == <<blockListeners, txListeners, expiringTxs>>
index == <<cache, txCache, lastHeight, db>>
vars == <<chain, notify, conn, listeners, index, missed, crashes>>

Height == Len(chain)
AcceptedTxs == UNION ToSet(chain)
HeightOf(tx) == CHOOSE h \in DOMAIN chain : tx \in chain[h]

(* The block that accepts S next: not expired, no replay.                    *)
Valid(S) == \A tx \in S : Expiry[tx] > Height /\ tx \notin AcceptedTxs

-----------------------------------------------------------------------------
(* Messages and buffers                                                      *)

BlockMsg(h) == [mode |-> "block", tx |-> 0, height |-> h]
TxMsg(tx, h) == [mode |-> "tx", tx |-> tx, height |-> h]    \* 0: no result, expired

SizeOf(msg) == IF msg.mode = "tx" THEN 1 ELSE 1 + Cardinality(chain[msg.height])
PendingSize(c) == FoldLeft(LAMBDA n, msg : n + SizeOf(msg), 0, c.pending)

NewConn == [phase |-> "none", writer |-> TRUE, pending |-> <<>>, queue |-> <<>>,
            got |-> <<>>, lost |-> {}, blocksFrom |-> -1, txFrom |-> [tx \in Txs |-> -1]]

(* Mutant: the messages stay in the buffer.                                  *)
ClearPendingKeeps(c) ==
    IF Len(c.queue) < MaxPending THEN [c EXCEPT !.queue = Append(@, c.pending)]
    ELSE [c EXCEPT !.pending = <<>>, !.lost = @ \cup ToSet(c.pending)]

(* The batch is dropped when the queue is full.                              *)
ClearPending(c) ==
    IF Len(c.queue) < MaxPending
    THEN [c EXCEPT !.pending = <<>>, !.queue = Append(@, c.pending)]
    ELSE [c EXCEPT !.pending = <<>>, !.lost = @ \cup ToSet(c.pending)]

Flushed(c, msg) == IF PendingSize(c) + SizeOf(msg) > MaxSize THEN ClearPending(c) ELSE c

Send(c, msg) ==
    IF SizeOf(msg) > MaxSize THEN [c EXCEPT !.lost = @ \cup {msg}]
    ELSE [Flushed(c, msg) EXCEPT !.pending = Append(@, msg)]

(* Connections that are no longer in s.conns are skipped.                    *)
Publish(all, msg, to) ==
    [c \in Conns |-> IF c \in to /\ all[c].phase = "open" THEN Send(all[c], msg) ELSE all[c]]

-----------------------------------------------------------------------------
Init ==
    /\ chain = <<>> /\ notify = "idle"
    /\ conn = [c \in Conns |-> NewConn]
    /\ blockListeners = {} /\ txListeners = [tx \in Txs |-> {}] /\ expiringTxs = {}
    /\ cache = {} /\ txCache = {} /\ lastHeight = 0 /\ db = {}
    /\ missed = {} /\ crashes = 0

-----------------------------------------------------------------------------
(* The accepter notifies the indexer, then the websocket server.             *)

(* insertBlockIntoCache of block h, whose transactions are S.                *)
(* Mutant: nothing is evicted.                                               *)
InsertAll(ix, h, S) ==
    [heights |-> ix.heights \cup {h}, txs |-> ix.txs \cup (S \X {h})]

Insert(ix, h, S) ==
    LET evicted == IF h - BlockWindow \in ix.heights THEN {h - BlockWindow} ELSE {}
    IN [heights |-> (ix.heights \ evicted) \cup {h},
        txs |-> {t \in ix.txs : t[1] \notin S \cup UNION {chain[e] : e \in evicted}}
                \cup (S \X {h})]

IndexBlock(h, S) ==
    LET ix == Insert([heights |-> cache, txs |-> txCache], h, S)
    IN cache' = ix.heights /\ txCache' = ix.txs /\ lastHeight' = h

NotifyIndexer(S) ==
    /\ notify = "idle" /\ Height < MaxHeight /\ Valid(S)
    /\ chain' = Append(chain, S)
    /\ IndexBlock(Height + 1, S)
    /\ missed' = missed \cup {Height + 1}
    /\ notify' = "store"
    /\ UNCHANGED <<conn, listeners, db, crashes>>

(* A block accepted while the state is synced is not executed here and       *)
(* nobody is notified of it.                                                 *)
SkipBlock(S) ==
    /\ notify = "idle" /\ Height < MaxHeight /\ Valid(S) /\ Cardinality(missed) < MaxSkips
    /\ chain' = Append(chain, S)
    /\ missed' = missed \cup {Height + 1}
    /\ UNCHANGED <<notify, conn, listeners, index, crashes>>

StoreBlock ==
    /\ notify = "store"
    /\ db' = (db \cup {Height}) \ {Height - BlockWindow}
    /\ missed' = missed \ {Height}
    /\ notify' = "blocks"
    /\ UNCHANGED <<chain, conn, listeners, cache, txCache, lastHeight, crashes>>

(* WebSocketServer.AcceptBlock: the block listeners ...                      *)
PublishBlock ==
    /\ notify = "blocks"
    /\ conn' = Publish(conn, BlockMsg(Height), blockListeners)
    /\ blockListeners' = {c \in blockListeners : conn[c].phase = "open"}
    /\ notify' = "txs"
    /\ UNCHANGED <<chain, txListeners, expiringTxs, index, missed, crashes>>

(* ... then, under txL, those who wait for its transactions, and those whose *)
(* transactions have expired at its timestamp.                               *)
Answers(S, h) == [i \in DOMAIN SetToSeq(S) |-> TxMsg(SetToSeq(S)[i], h)]

Answer(all, msgs) ==
    FoldLeft(LAMBDA cs, msg : Publish(cs, msg, txListeners[msg.tx]), all, msgs)

Expired == {tx \in expiringTxs : Expiry[tx] < Height}

(* Mutant: the listeners of a transaction stay when it is accepted.          *)
PublishTxsKeeps ==
    /\ notify = "txs"
    /\ conn' = Answer(conn, Answers(chain[Height], Height) \o Answers(Expired, 0))
    /\ txListeners' = [tx \in Txs |-> IF tx \in Expired THEN {} ELSE txListeners[tx]]
    /\ expiringTxs' = expiringTxs \ Expired
    /\ notify' = "idle"
    /\ UNCHANGED <<chain, blockListeners, index, missed, crashes>>

PublishTxs ==
    /\ notify = "txs"
    /\ conn' = Answer(conn, Answers(chain[Height], Height)
                            \o Answers(Expired \ chain[Height], 0))
    /\ txListeners' = [tx \in Txs |-> IF tx \in chain[Height] \cup Expired THEN {}
                                      ELSE txListeners[tx]]
    /\ expiringTxs' = expiringTxs \ Expired
    /\ notify' = "idle"
    /\ UNCHANGED <<chain, blockListeners, index, missed, crashes>>

-----------------------------------------------------------------------------
(* Connections.  The read and the write pump end alike: each removes the     *)
(* connection, closes the buffer and closes the socket, whoever is first.    *)

Connect(c) ==
    /\ conn[c].phase = "none" /\ notify \notin {"down", "tip"}
    /\ conn' = [conn EXCEPT ![c].phase = "open"]
    /\ UNCHANGED <<chain, notify, listeners, index, missed, crashes>>

(* The read pump calls MessageCallback, also when the write pump has failed. *)
Reads(c) == \/ conn[c].phase = "open"
            \/ ~conn[c].writer /\ conn[c].phase \in {"removed", "deactivated"}

RegisterBlocks(c) ==
    /\ Reads(c) /\ conn[c].blocksFrom = -1
    /\ blockListeners' = blockListeners \cup {c}
    /\ conn' = [conn EXCEPT ![c].blocksFrom =
                    IF notify \in {"txs", "idle"} THEN Height ELSE Height - 1]
    /\ UNCHANGED <<chain, notify, txListeners, expiringTxs, index, missed, crashes>>

(* AddTxListener.  An emap ignores what expires at 0.                        *)
RegisterTx(c, tx) ==
    /\ Reads(c) /\ conn[c].txFrom[tx] = -1
    /\ txListeners' = [txListeners EXCEPT ![tx] = @ \cup {c}]
    /\ expiringTxs' = IF Expiry[tx] = 0 THEN expiringTxs ELSE expiringTxs \cup {tx}
    /\ conn' = [conn EXCEPT ![c].txFrom[tx] = IF notify = "idle" THEN Height ELSE Height - 1]
    /\ UNCHANGED <<chain, notify, blockListeners, index, missed, crashes>>

(* pendingTimer                                                              *)
Timeout(c) ==
    /\ conn[c].phase \in {"open", "removed"} /\ conn[c].pending # <<>>
    /\ conn' = [conn EXCEPT ![c] = ClearPending(@)]
    /\ UNCHANGED <<chain, notify, listeners, index, missed, crashes>>

Write(c) ==
    /\ conn[c].phase \notin {"none", "closed"} /\ conn[c].writer /\ conn[c].queue # <<>>
    /\ conn' = [conn EXCEPT ![c].queue = Tail(@), ![c].got = @ \o Head(conn[c].queue)]
    /\ UNCHANGED <<chain, notify, listeners, index, missed, crashes>>

(* A write or a ping fails; or the queue is closed and empty.                *)
WriterEnds(c) ==
    /\ conn[c].phase # "none" /\ conn[c].writer
    /\ conn' = [conn EXCEPT ![c].writer = FALSE,
                            ![c].phase = IF @ = "open" THEN "removed" ELSE @,
                            ![c].queue = IF @ = <<>> THEN @ ELSE Tail(@)]
    /\ UNCHANGED <<chain, notify, listeners, index, missed, crashes>>

(* The client is gone, or sends what cannot be read.                         *)
ReaderEnds(c) ==
    /\ conn[c].phase = "open"
    /\ conn' = [conn EXCEPT ![c].phase = "removed"]
    /\ UNCHANGED <<chain, notify, listeners, index, missed, crashes>>

(* MessageBuffer.Close flushes what is left.                                 *)
Deactivate(c) ==
    /\ conn[c].phase = "removed"
    /\ conn' = [conn EXCEPT ![c] = [ClearPending(@) EXCEPT !.phase = "deactivated"]]
    /\ UNCHANGED <<chain, notify, listeners, index, missed, crashes>>

CloseSocket(c) ==
    /\ conn[c].phase = "deactivated"
    /\ conn' = [conn EXCEPT ![c].phase = "closed"]
    /\ UNCHANGED <<chain, notify, listeners, index, missed, crashes>>

-----------------------------------------------------------------------------
(* Crashes.                                                                  *)

Crash ==
    /\ notify # "down" /\ crashes < MaxCrashes
    /\ crashes' = crashes + 1
    /\ notify' = "down"
    /\ conn' = [c \in Conns |-> NewConn]
    /\ blockListeners' = {} /\ txListeners' = [tx \in Txs |-> {}] /\ expiringTxs' = {}
    /\ cache' = {} /\ txCache' = {} /\ lastHeight' = 0
    /\ UNCHANGED <<chain, db, missed>>

(* initBlocks: the stored blocks are inserted in the order of their heights, *)
(* then those below the window are deleted ...                               *)
Loaded ==
    FoldLeft(LAMBDA ix, h : IF h \in db THEN Insert(ix, h, chain[h]) ELSE ix,
             [heights |-> {}, txs |-> {}], [h \in 1 .. Height |-> h])

LastStored == IF db = {} THEN 0 ELSE Max(db)

Restart ==
    /\ notify = "down"
    /\ cache' = Loaded.heights /\ txCache' = Loaded.txs /\ lastHeight' = LastStored
    /\ db' = {h \in db : h >= LastStored - BlockWindow}
    /\ notify' = IF Height = 0 THEN "idle" ELSE "tip"
    /\ UNCHANGED <<chain, conn, listeners, missed, crashes>>

(* ... and the tip of the chain is notified: the last block, or one more     *)
(* that had been accepted and not executed.                                  *)
NotifyTip ==
    /\ notify = "tip"
    /\ IndexBlock(Height, chain[Height])
    /\ missed' = missed \cup {Height}
    /\ notify' = "store"
    /\ UNCHANGED <<chain, conn, listeners, db, crashes>>

NotifyNewTip(S) ==
    /\ notify = "tip" /\ Height < MaxHeight /\ Valid(S)
    /\ chain' = Append(chain, S)
    /\ IndexBlock(Height + 1, S)
    /\ missed' = missed \cup {Height + 1}
    /\ notify' = "store"
    /\ UNCHANGED <<conn, listeners, db, crashes>>

-----------------------------------------------------------------------------
(* What the indexer answers: a height stands for its block, 0 for "not       *)
(* found".  A request for a block has an ID (a height here), or a number, or *)
(* neither.                                                                  *)

NotFound == 0
NotGiven == -1

GetBlockByHeight(h) == IF h \in cache THEN h ELSE NotFound

(* blockIDToHeight has the heights of the cache.                             *)
GetBlockByID(id) == IF id \in cache THEN GetBlockByHeight(id) ELSE NotFound

GetLatestBlock == IF lastHeight = 0 THEN NotFound ELSE GetBlockByHeight(lastHeight)

ServeBlock(id, number) == IF id # NotGiven THEN GetBlockByID(id)
                          ELSE IF number # NotGiven THEN GetBlockByHeight(number)
                          ELSE GetLatestBlock

(* The block of a transaction: the one noted for it, if that is there still. *)
GetTransaction(tx) ==
    LET noted == {t \in txCache : t[1] = tx /\ t[2] \in cache}
    IN IF noted = {} THEN NotFound ELSE (CHOOSE t \in noted : TRUE)[2]

-----------------------------------------------------------------------------
Accepter == \/ \E S \in SUBSET Txs : NotifyIndexer(S) \/ SkipBlock(S) \/ NotifyNewTip(S)
            \/ NotifyTip \/ StoreBlock \/ PublishBlock \/ PublishTxs

Next ==
    \/ Accepter
    \/ \E c \in Conns : \/ Connect(c) \/ RegisterBlocks(c)
                        \/ \E tx \in Txs : RegisterTx(c, tx)
                        \/ Timeout(c) \/ Write(c) \/ WriterEnds(c) \/ ReaderEnds(c)
                        \/ Deactivate(c) \/ CloseSocket(c)
    \/ Crash \/ Restart

Spec == Init /\ [][Next]_vars
-----------------------------------------------------------------------------
(* Properties                                                                *)

(* Everything that was sent to c, in the order of its arrival.               *)
Flat(queue) == FoldLeft(LAMBDA msgs, batch : msgs \o batch, <<>>, queue)

Sent(c) == conn[c].got \o Flat(conn[c].queue) \o conn[c].pending

Healthy(c) == conn[c].phase = "open" /\ conn[c].writer

BlocksDone == IF notify \in {"idle", "txs"} THEN Height ELSE Height - 1
TxsDone == IF notify = "idle" THEN Height ELSE Height - 1

(* A block listener receives the accepted blocks in their order, each once   *)
(* and from the time it registers; while its connection lives it misses only *)
(* blocks whose batch was dropped because its queue was full, blocks larger  *)
(* than a message, and blocks nobody is notified of.  (server.go AcceptBlock,*)
(* message_buffer.go)                                                        *)
StreamExact ==
    \A c \in Conns :
        LET sent == Sent(c)
            blocks == {i \in DOMAIN sent : sent[i].mode = "block"}
            heights == {sent[i].height : i \in blocks}
            lost == {msg.height : msg \in {l \in conn[c].lost : l.mode = "block"}}
        IN /\ \A i, j \in blocks : i < j => sent[i].height < sent[j].height
           /\ \A h \in heights : h > conn[c].blocksFrom /\ h \notin lost
           /\ Healthy(c) /\ conn[c].blocksFrom # -1 =>
                conn[c].blocksFrom + 1 .. BlocksDone \subseteq heights \cup lost \cup missed

(* A client that waits for a transaction is told of a result only when that  *)
(* block has accepted it, and that it has expired only when no later block   *)
(* can: unless the transaction had been accepted before the client asked.  It*)
(* gets one answer, and while its connection lives it still waits for it or  *)
(* has lost it with a batch.  Whoever waits is in expiringTxs, and is so     *)
(* answered in the end, except when the transaction expires at 0.  (server.go*)
(* AddTxListener, AcceptBlock, setMinTx)                                     *)
AnswersRight ==
    \A c \in Conns :
        LET sent == Sent(c)
            answers(tx) == {i \in DOMAIN sent : sent[i].tx = tx}
            lost == {msg.tx : msg \in {l \in conn[c].lost : l.mode = "tx"}}
        IN \A tx \in Txs :
            /\ \A i \in answers(tx) :
                LET h == sent[i].height IN
                IF h # 0 THEN h \in DOMAIN chain /\ tx \in chain[h]
                ELSE /\ tx \in AcceptedTxs => HeightOf(tx) <= conn[c].txFrom[tx]
                                              \/ HeightOf(tx) \in missed
                     /\ Expiry[tx] < Height
            /\ \A i, j \in answers(tx) : i = j
            /\ Healthy(c) /\ conn[c].txFrom[tx] # -1 =>
                answers(tx) # {} \/ tx \in lost \/ c \in txListeners[tx]
            /\ txListeners[tx] # {} => tx \in expiringTxs \/ Expiry[tx] = 0

(* Between two notifications the indexer serves the blocks of its window and *)
(* their transactions, as before a restart, but for those it missed: skipped *)
(* by state sync or lost by a crash before they were stored.  It keeps an    *)
(* older block only if the one that would have evicted it was missed, and    *)
(* finds the last block and a transaction in the block that accepted it.     *)
(* (indexer.go insertBlockIntoCache, storeBlock, initBlocks)                 *)
IndexWindow ==
    LET recent == {h \in 1 .. lastHeight : h > lastHeight - BlockWindow} IN
    notify \notin {"down", "tip", "store"} =>
        /\ recent \ missed \subseteq cache
        /\ \A h \in cache \ recent : h + BlockWindow \in missed
        /\ db \cap recent = cache \cap recent
        /\ \A tx \in Txs : GetTransaction(tx) =
                IF tx \in UNION {chain[h] : h \in cache} THEN HeightOf(tx) ELSE NotFound
        /\ \A t \in txCache : t[1] \in chain[t[2]] /\ t[2] \in cache
        /\ ServeBlock(NotGiven, NotGiven) = lastHeight
        /\ \A h \in DOMAIN chain : ServeBlock(h, NotGiven) = ServeBlock(NotGiven, h)
==============================================================================
