------------------------------- MODULE Mempool -------------------------------
(***************************************************************************)
(* The mempool (internal/mempool) and the block builder that streams from  *)
(* it (chain/builder.go): a build takes batches off the pool, the next     *)
(* batch is prefetched by a goroutine while one is executed, and what is   *)
(* not used is given back by another goroutine after BuildBlock returned.  *)
(*                                                                         *)
(* Simplifications:                                                        *)
(*  - the expiry heap is the set of the items of the queue: both change    *)
(*    in the same critical sections;                                       *)
(*  - Add and Remove take one item, since they treat each on its own;      *)
(*  - sizes in bytes are left out;                                         *)
(*  - a batch is executed in one step, with any outcome for each item.     *)
(***************************************************************************)
EXTENDS Integers, Sequences, SequencesExt, FiniteSets

CONSTANTS
    Items,
    Sponsor,        \* item -> its sponsor
    Expiry,         \* item -> its expiry
    MaxSize,
    MaxSponsorSize,
    StreamBatch,
    PrefetchAt,     \* streamPrefetchThreshold
    MaxTime         \* bound: timestamps of accepted blocks

ASSUME SizeAssumption ==
    {MaxSize, MaxSponsorSize, StreamBatch, PrefetchAt, MaxTime} \subseteq Nat
ASSUME ItemAssumption == DOMAIN Sponsor = Items /\ Expiry \in [Items -> Nat]

VARIABLES
    pool,           \* queue and owned
    streaming,      \* streamedItems is not nil
    streamed,       \* streamedItems
    next,           \* nextStream
    nextFetched,
    streamLock,
    buildPc,        \* where BuildBlock is; at "starting" it holds mu
    batch,          \* items in execution
    restorable,
    block,          \* blockTransactions
    prep,           \* PrepareStream is to run, and holds prepareStreamLock
    finish,         \* goroutine that is to call FinishStreaming
    fate            \* history: what has become of each item

stream == <<streaming, streamed, next, nextFetched, streamLock>>
build == <<buildPc, batch, restorable, block, prep, finish>>
mempoolVars == <<pool, stream, build, fate>>

(* "in": Add has put it into the pool; "gone": for a reason the code states; *)
(* "dropped": found no place when restored; "lost": the builder lost it.     *)
Fates == {"none", "in", "gone", "dropped", "lost"}
Becomes(S, what) == fate' = [i \in Items |-> IF i \in S THEN what ELSE fate[i]]

Sponsors == {Sponsor[i] : i \in Items}

-----------------------------------------------------------------------------
(* The pool                                                                  *)

Has(p, i) == i \in ToSet(p.queue)

Fits(p, i) == p.owned[Sponsor[i]] # MaxSponsorSize /\ Len(p.queue) # MaxSize

AddOne(p, i, front) ==
    IF Has(p, i) \/ ~Fits(p, i) THEN p
    ELSE [queue |-> IF front THEN Cons(i, p.queue) ELSE Append(p.queue, i),
          owned |-> [p.owned EXCEPT ![Sponsor[i]] = @ + 1]]

(* Items are put back in front of the queue, one after the other.            *)
Restore(p, s) ==
    LET restored[n \in 0 .. Len(s)] ==
            IF n = 0 THEN p ELSE AddOne(restored[n - 1], s[n], TRUE)
    IN restored[Len(s)]

(* The items of s that are in S, in their order.                             *)
Among(s, S) ==
    LET chosen[n \in 0 .. Len(s)] ==
            IF n = 0 THEN <<>>
            ELSE IF s[n] \in S THEN Append(chosen[n - 1], s[n]) ELSE chosen[n - 1]
    IN chosen[Len(s)]

OfSponsor(x, S) == {i \in S : Sponsor[i] = x}

Minus(m, n) == IF m <= n THEN 0 ELSE m - n

(* The items of S leave the queue, and their sponsors get the places back.   *)
TakeOut(p, S) ==
    [queue |-> Among(p.queue, ToSet(p.queue) \ S),
     owned |-> [x \in Sponsors |-> Minus(p.owned[x], Cardinality(OfSponsor(x, S)))]]

FirstItems(n) == SubSeq(pool.queue, 1, IF n < Len(pool.queue) THEN n ELSE Len(pool.queue))

MempoolInit ==
    /\ pool = [queue |-> <<>>, owned |-> [s \in Sponsors |-> 0]]
    /\ streaming = FALSE /\ streamed = {} /\ next = <<>> /\ nextFetched = FALSE
    /\ streamLock = FALSE
    /\ buildPc = "idle" /\ batch = <<>> /\ restorable = <<>> /\ block = <<>>
    /\ prep = FALSE /\ finish = FALSE
    /\ fate = [i \in Items |-> "none"]

(* StartStreaming waits for streamLock while it holds mu.                    *)
MuFree == buildPc # "starting"

-----------------------------------------------------------------------------
(* Calls of the network, of the gossiper and of the subscriptions            *)

(* A transaction comes from the network, or from a rejected block.           *)
AddItem(i) ==
    /\ MuFree /\ ~(streaming /\ i \in streamed)
    /\ pool' = AddOne(pool, i, FALSE)
    /\ Becomes({i} \cap ToSet(pool'.queue), "in")
    /\ UNCHANGED <<stream, build>>

(* The item is in a verified block.                                          *)
RemoveItem(i) ==
    /\ MuFree /\ Has(pool, i)
    /\ pool' = TakeOut(pool, {i})
    /\ Becomes({i}, "gone")
    /\ UNCHANGED <<stream, build>>

(* A block is accepted.                                                      *)
SetMinTimestamp(t) ==
    LET expired == {i \in ToSet(pool.queue) : Expiry[i] < t}
    IN /\ MuFree
       /\ pool' = TakeOut(pool, expired)
       /\ Becomes(expired, "gone")
       /\ UNCHANGED <<stream, build>>

(* The gossiper looks at the first n items and drops some of them.           *)
Top(n, drop) ==
    LET seen == FirstItems(n)
    IN /\ MuFree
       /\ pool' = Restore(TakeOut(pool, ToSet(seen)), Among(seen, ToSet(seen) \ drop))
       /\ Becomes(drop, "gone")
       /\ UNCHANGED <<stream, build>>

-----------------------------------------------------------------------------
(* The builder                                                               *)

StartBuild ==
    /\ buildPc = "idle" /\ buildPc' = "starting"
    /\ UNCHANGED <<pool, stream, batch, restorable, block, prep, finish, fate>>

StartStreaming ==
    /\ buildPc = "starting" /\ ~streamLock
    /\ streamLock' = TRUE /\ streaming' = TRUE /\ streamed' = {}
    /\ buildPc' = "stream" /\ restorable' = <<>> /\ block' = <<>>
    /\ UNCHANGED <<pool, next, nextFetched, batch, prep, finish, fate>>

(* The prefetched batch, or the next items of the pool ...                   *)
Stream ==
    LET txs == IF nextFetched THEN next ELSE FirstItems(StreamBatch)
    IN /\ buildPc = "stream" /\ ~prep /\ txs # <<>>
       /\ batch' = txs
       /\ IF nextFetched
          THEN next' = <<>> /\ nextFetched' = FALSE /\ UNCHANGED <<pool, streamed>>
          ELSE /\ pool' = TakeOut(pool, ToSet(txs)) /\ streamed' = streamed \cup ToSet(txs)
               /\ UNCHANGED <<next, nextFetched>>
       /\ buildPc' = "batch"
       /\ UNCHANGED <<streaming, streamLock, restorable, block, prep, finish, fate>>

(* ... until there are none.                                                 *)
StreamEmpty ==
    /\ buildPc = "stream" /\ ~prep
    /\ IF nextFetched THEN next = <<>> ELSE pool.queue = <<>>
    /\ next' = <<>> /\ nextFetched' = FALSE
    /\ buildPc' = "ending"
    /\ UNCHANGED <<pool, streaming, streamed, streamLock, batch, restorable, block,
                   prep, finish, fate>>

(* Part way through a batch, the next one is prefetched by a goroutine.      *)
StartPrepare ==
    /\ buildPc = "batch" /\ Len(batch) > PrefetchAt
    /\ buildPc' = "prefetching" /\ prep' = TRUE
    /\ UNCHANGED <<pool, stream, batch, restorable, block, finish, fate>>

PrepareStream ==
    /\ prep /\ MuFree
    /\ next' = FirstItems(StreamBatch) /\ nextFetched' = TRUE
    /\ pool' = TakeOut(pool, ToSet(next')) /\ streamed' = streamed \cup ToSet(next')
    /\ prep' = FALSE
    /\ UNCHANGED <<streaming, streamLock, buildPc, batch, restorable, block, finish, fate>>

(* Every item of the batch is included in the block, to be restored, or      *)
(* dropped; of what is to be restored, kept gets into restorable.            *)
Executes(included, restored, kept) ==
    /\ included \cap restored = {} /\ kept \subseteq restored
    /\ block' = block \o Among(batch, included)
    /\ restorable' = restorable \o Among(batch, kept)
    /\ fate' = [i \in Items |->
                  CASE i \in restored \ kept -> "lost"
                    [] i \in ToSet(batch) \ (included \cup restored) -> "gone"
                    [] OTHER -> fate[i]]
    /\ batch' = <<>>
    /\ UNCHANGED <<pool, stream, prep>>

(* The loop restores the rest of a batch that is over the size without       *)
(* restorableLock, while a task restores its own item: one append may undo   *)
(* the other.                                                                *)
Kept(restored, kept) ==
    \/ kept = restored
    \/ \E n \in 2 .. Len(batch) :
           LET rest == ToSet(SubSeq(batch, n, Len(batch)))
           IN /\ rest \subseteq restored /\ rest # restored /\ kept # {}
              /\ buildPc = "prefetching" => n > PrefetchAt + 1

Executing == buildPc \in {"batch", "prefetching"}

(* The build goes on, or ends because time is up or the block is full.       *)
ExecuteBatch(included, restored, kept) ==
    /\ Executing /\ Kept(restored, kept)
    /\ Executes(included, restored, kept)
    /\ buildPc' \in {"stream", "ending"}
    /\ UNCHANGED finish

(* IsRepeat fails before the batch is executed.                              *)
RepeatFails ==
    /\ buildPc = "batch"
    /\ Executes({}, ToSet(batch), ToSet(batch))
    /\ buildPc' = "ending"
    /\ UNCHANGED finish

(* A task fails with an unexpected error: BuildBlock returns it, and has a   *)
(* goroutine restore the transactions of the block, too.                     *)
TaskFails(included, restored, kept) ==
    /\ Executing /\ Kept(restored, kept)
    /\ Executes(included, restored, kept)
    /\ buildPc' = "failing"
    /\ UNCHANGED finish

BuildFails ==
    /\ buildPc = "failing"
    /\ restorable' = block \o restorable /\ block' = <<>>
    /\ finish' = TRUE /\ buildPc' = "idle"
    /\ UNCHANGED <<pool, stream, batch, prep, fate>>

(* BuildBlock starts the goroutine that gives back what is restorable, then  *)
(* returns the block, or an error of a later check: then the transactions of *)
(* the block are not given back.                                             *)
EndBuild(built) ==
    /\ buildPc = "ending"
    /\ finish' = TRUE /\ buildPc' = "idle" /\ block' = <<>>
    /\ Becomes(ToSet(block), IF built THEN "gone" ELSE "lost")
    /\ UNCHANGED <<pool, stream, batch, restorable, prep>>

FinishWith(extra) ==
    LET back == restorable \o extra
    IN /\ finish /\ MuFree
       /\ pool' = Restore(pool, back)
       /\ streaming' = FALSE /\ streamed' = {} /\ streamLock' = FALSE
       /\ next' = <<>> /\ nextFetched' = FALSE
       /\ Becomes({i \in ToSet(back) : ~Has(pool', i)}, "dropped")
       /\ finish' = FALSE /\ restorable' = <<>>
       /\ UNCHANGED <<buildPc, batch, block, prep>>

(* Mutant: the prefetched batch is not restored.                             *)
FinishWithoutNext == ~prep /\ FinishWith(<<>>)

(* The goroutine takes prepareStreamLock, then FinishStreaming puts back     *)
(* what is restorable and what was prefetched.                               *)
FinishStreaming == ~prep /\ FinishWith(next)

-----------------------------------------------------------------------------
Builder ==
    \/ StartStreaming \/ Stream \/ StreamEmpty \/ StartPrepare \/ PrepareStream
    \/ \E inc, res, kept \in SUBSET ToSet(batch) :
           ExecuteBatch(inc, res, kept) \/ TaskFails(inc, res, kept)
    \/ RepeatFails \/ BuildFails \/ FinishStreaming
    \/ \E built \in BOOLEAN : EndBuild(built)

MempoolNext ==
    \/ \E i \in Items : AddItem(i) \/ RemoveItem(i)
    \/ \E t \in 1 .. MaxTime : SetMinTimestamp(t)
    \/ \E n \in 1 .. Len(pool.queue) : \E drop \in SUBSET ToSet(FirstItems(n)) :
           Top(n, drop)
    \/ StartBuild \/ Builder

MempoolSpec == MempoolInit /\ [][MempoolNext]_mempoolVars

-----------------------------------------------------------------------------
(* Properties                                                                *)

(* The items the builder has in hand.                                        *)
InStream == batch \o restorable \o block \o next

(* The variables have their types, and the limits are kept.                  *)
MempoolTypeOK ==
    /\ pool \in [queue : Seq(Items), owned : [Sponsors -> 0 .. MaxSponsorSize]]
    /\ Len(pool.queue) <= MaxSize
    /\ {streaming, nextFetched, streamLock, prep, finish} \subseteq BOOLEAN
    /\ streamed \subseteq Items /\ {batch, restorable, block, next} \subseteq Seq(Items)
    /\ buildPc \in {"idle", "starting", "stream", "batch", "prefetching", "ending",
                    "failing"}
    /\ fate \in [Items -> Fates]

(* What a sponsor owns is the number of its items in the queue, whatever was *)
(* streamed, expired or restored: no place of a sponsor leaks.               *)
OwnedIsExact ==
    \A s \in Sponsors :
        pool.owned[s] = Cardinality(OfSponsor(s, ToSet(pool.queue)))

(* No item is twice in the pool, in the stream, or in both: gossip cannot    *)
(* bring an item back that the builder has in hand, and the batch that is    *)
(* prefetched has none of the batch in execution.                            *)
NeverTwice == IsInjective(pool.queue \o InStream)

(* The pool and the builder together have exactly the items that entered and *)
(* have no other fate: one that was neither removed, expired, dropped nor    *)
(* built is never forgotten, and one that was does not come back by itself.  *)
NothingForgotten ==
    \A i \in Items : (fate[i] = "in") <=> i \in ToSet(pool.queue \o InStream)

(* The builder has something in hand only between StartStreaming and         *)
(* FinishStreaming, in the place where it is: Stream finds no batch in       *)
(* execution, a prefetch none that waits.  What is streamed is in nobody's   *)
(* queue, so Top puts back all that it took.                                 *)
StreamInv ==
    /\ streaming = streamLock
    /\ ~streaming => /\ buildPc \in {"idle", "starting"} /\ ~prep /\ ~nextFetched
                     /\ restorable = <<>> /\ streamed = {}
    /\ finish = (streaming /\ buildPc \in {"idle", "starting"})
    /\ ~nextFetched => next = <<>>
    /\ prep => ~nextFetched
    /\ buildPc = "batch" => ~prep /\ ~nextFetched
    /\ buildPc \notin {"batch", "prefetching"} => batch = <<>>
    /\ buildPc \in {"idle", "starting"} => block = <<>>
    /\ ToSet(InStream) \subseteq streamed
    /\ ToSet(pool.queue) \cap streamed = {}

MempoolInv == MempoolTypeOK /\ OwnedIsExact /\ NeverTwice /\ NothingForgotten /\ StreamInv
=============================================================================
