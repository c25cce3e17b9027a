---------------------------- MODULE ValidityWindow ----------------------------
(***************************************************************************)
(* Replay protection (internal/validitywindow, internal/emap): a node      *)
(* remembers the transactions of accepted blocks until they expire, and    *)
(* looks for the others in the blocks between its window and the block it  *)
(* verifies.  Blocks are verified on any branch while the accepter, on its *)
(* own goroutine, feeds the window the blocks that consensus accepted.     *)
(*                                                                         *)
(* Simplifications:                                                        *)
(*  - a block is the sequence of the payloads from genesis to itself, so   *)
(*    that its parent is its Front and its height its length;              *)
(*  - the buckets of the expiry map are the set of the transactions in     *)
(*    them: a transaction has one expiry;                                  *)
(*  - the cache of accepted blocks holds nothing that the index has not.   *)
(***************************************************************************)
EXTENDS ChainIndex, FiniteSets, Sequences, SequencesExt

CONSTANTS
    Txs,
    Expiry,         \* transaction -> its expiry
    Window,         \* validity window of the rules
    Times,          \* timestamps of blocks; genesis is older than any window
    MaxHeight,      \* bound: height of blocks
    MaxProcessing,  \* bound: blocks in processing
    MaxRestarts     \* bound

ASSUME WindowAssumption ==
    /\ Window \in Nat /\ Times \subseteq Nat /\ \A t \in Times : t > Window
    /\ Expiry \in [Txs -> Nat]
    /\ {MaxHeight, MaxProcessing, MaxRestarts} \subseteq Nat

VARIABLES
    chain,          \* the last block that consensus accepted
    processing,     \* verified blocks
    unchecked,      \* those among them verified without replay protection
    done,           \* height the accepter has got to
    index,          \* the chain index
    win,            \* TimeValidityWindow: seen, lastAcceptedBlockHeight
    phase,          \* of the node
    restarts

vars == <<chain, processing, unchecked, done, index, win, phase, restarts>>

Genesis == <<>>
Height(b) == Len(b)
Timestamp(b) == IF b = Genesis THEN 0 ELSE Last(b).ts
Containers(b) == IF b = Genesis THEN <<>> ELSE Last(b).txs
Ancestor(b, h) == SubSeq(b, 1, h)

-----------------------------------------------------------------------------
(* The expiry map                                                            *)

SetMin(seen, t) == {x \in seen : Expiry[x] >= t}

Add(seen, txs) == seen \cup {x \in ToSet(txs) : Expiry[x] # 0}

-----------------------------------------------------------------------------
(* TimeValidityWindow                                                        *)

(* Mutant: only blocks of the same time are looked at.                       *)
OldestAllowedNow(t) == t

OldestAllowed(t) == IF t > Window THEN t - Window ELSE 0

WindowAccept(w, b) ==
    [seen |-> Add(SetMin(w.seen, Timestamp(b)), Containers(b)), height |-> Height(b)]

AcceptHistorical(w, b) == [w EXCEPT !.seen = Add(@, Containers(b))]

AcceptRange(w, b, from, to) ==
    LET after[n \in Nat] ==
            IF n = 0 THEN w ELSE WindowAccept(after[n - 1], Ancestor(b, from + n - 1))
    IN after[to - from + 1]

(* VM.GetExecutionBlock finds a block in processing, or in the index.        *)
Available(b) ==
    \/ b \in processing
    \/ IsPrefix(b, chain) /\ HasBlock(index, Height(b))

(* The height at which populate stops when it starts from block b, which is  *)
(* accepted: at genesis, below the window, or before a missing block.        *)
PopulateLow(ix, b) ==
    LET Ends(h) == \/ h = 0
                   \/ h < Height(b) /\ Timestamp(Ancestor(b, h)) < OldestAllowed(Timestamp(b))
                   \/ ~HasBlock(ix, h - 1)
    IN Max({h \in 0 .. Height(b) : Ends(h)})

Populate(w, ix, b) == AcceptRange(w, b, PopulateLow(ix, b), Height(b))

Complete(ix, b) ==
    LET low == PopulateLow(ix, b)
    IN \/ low = 0
       \/ low < Height(b) /\ Timestamp(Ancestor(b, low)) < OldestAllowed(Timestamp(b))

(* isRepeat walks down from block b to the accepted part of the window, to   *)
(* the first block older than it, or to one that it cannot get.              *)
WalkEnd(w, b, oldest) ==
    LET Ends(h) == \/ Timestamp(Ancestor(b, h)) < oldest
                   \/ h <= w.height \/ h = 0
                   \/ ~Available(Ancestor(b, h - 1))
    IN Max({h \in 0 .. Height(b) : Ends(h)})

RepeatFails(w, b, oldest) ==
    LET h == WalkEnd(w, b, oldest)
    IN Timestamp(Ancestor(b, h)) >= oldest /\ h > w.height /\ h # 0

(* Mutant: the walk leaves out the block it starts from.                     *)
RepeatsSkipParent(w, b, oldest) ==
    LET h == WalkEnd(w, b, oldest)
        walked == UNION {ToSet(Containers(Ancestor(b, g))) : g \in h + 1 .. Height(b) - 1}
    IN IF Timestamp(Ancestor(b, h)) < oldest THEN walked ELSE walked \cup w.seen

Repeats(w, b, oldest) ==
    LET h == WalkEnd(w, b, oldest)
        walked == UNION {ToSet(Containers(Ancestor(b, g))) : g \in h + 1 .. Height(b)}
    IN IF Timestamp(Ancestor(b, h)) < oldest THEN walked ELSE walked \cup w.seen

(* IsRepeat, for the builder and for transactions that are submitted: which  *)
(* of txs are in block b or its ancestors.                                   *)
IsRepeat(b, now, txs) == txs \cap Repeats(win, b, OldestAllowed(now))

VerifyExpiryReplayProtection(b) ==
    \/ Height(b) <= win.height
    \/ /\ IsInjective(Containers(b))
       /\ Available(Front(b))
       /\ ~RepeatFails(win, Front(b), OldestAllowed(Timestamp(b)))
       /\ IsRepeat(Front(b), Timestamp(b), ToSet(Containers(b))) = {}

(* The other conditions on a block that are about time: it is younger than   *)
(* its parent, and every transaction is valid at its time.                   *)
VerifyTimestamp(x, t) == Expiry[x] >= t /\ Expiry[x] <= t + Window

TimelyBlock(b) ==
    /\ Timestamp(b) > Timestamp(Front(b))
    /\ \A x \in ToSet(Containers(b)) : VerifyTimestamp(x, Timestamp(b))

-----------------------------------------------------------------------------
(* Blocks of the network                                                     *)

(* The transactions of a block and its ancestors, and that none is there     *)
(* twice.                                                                    *)
TxsOn(b) == UNION {ToSet(b[h].txs) : h \in DOMAIN b}

NoneTwice(b) ==
    \A g, h \in DOMAIN b : \A i \in DOMAIN b[g].txs, j \in DOMAIN b[h].txs :
        b[g].txs[i] = b[h].txs[j] => g = h /\ i = j

Payloads == [ts : Times, txs : {<<>>} \cup {<<x>> : x \in Txs} \cup (Txs \X Txs)]

Children(b) ==
    IF Height(b) >= MaxHeight THEN {}
    ELSE {c \in {Append(b, p) : p \in Payloads} : TimelyBlock(c)}

(* What the rest of the network accepts.                                     *)
NetChildren(b) == {c \in Children(b) : NoneTwice(c)}

Init ==
    /\ chain = Genesis /\ processing = {} /\ unchecked = {} /\ done = 0
    /\ index = EmptyIndex /\ win = [seen |-> {}, height |-> 0]
    /\ phase = "bootstrap" /\ restarts = 0

-----------------------------------------------------------------------------
(* The engine's thread                                                       *)

Parents == processing \cup {chain}

(* VerifyBlock: replay protection comes with normal operation; without it,   *)
(* on a VM that is ready, the rest of the network is right about the block.  *)
VerifyBlock(b) ==
    /\ phase \in {"ready", "normal"} /\ Cardinality(processing) < MaxProcessing
    /\ b \notin processing
    /\ IF phase = "normal" THEN VerifyExpiryReplayProtection(b) /\ UNCHANGED unchecked
       ELSE unchecked' = unchecked \cup {b}
    /\ processing' = processing \cup {b}
    /\ UNCHANGED <<chain, done, index, win, phase, restarts>>

(* Consensus decides on a block; its siblings and their descendants go.      *)
Decide(b) ==
    /\ CanUpdate(index, Height(b))
    /\ index' = UpdateLastAccepted(index, Height(b))
    /\ chain' = b
    /\ processing' = {c \in processing : IsStrictPrefix(b, c)}
    /\ unchecked' = unchecked \cap processing'

AcceptBlock(b) ==
    /\ phase \in {"ready", "normal"} /\ b \in processing /\ Front(b) = chain
    /\ b \in unchecked => b \in NetChildren(chain)
    /\ Decide(b)
    /\ UNCHANGED <<done, win, phase, restarts>>

(* Bootstrapping fetches blocks that the network has accepted.               *)
BootstrapBlock(b) ==
    /\ phase = "bootstrap" /\ b \in NetChildren(chain)
    /\ Decide(b)
    /\ UNCHANGED <<done, win, phase, restarts>>

(* The index cannot store a block: Accept fails, which ends the node.        *)
AcceptFails(b) ==
    /\ \/ phase \in {"ready", "normal"} /\ b \in processing /\ Front(b) = chain
       \/ phase = "bootstrap" /\ b \in NetChildren(chain)
    /\ ~CanUpdate(index, Height(b))
    /\ phase' = "failed"
    /\ UNCHANGED <<chain, processing, unchecked, done, index, win, restarts>>

(* startNormalOp: without a complete window the node does not enter it.      *)
StartNormalOp ==
    /\ phase \in {"bootstrap", "ready"}
    /\ win' = Populate(win, index, chain)
    /\ phase' = IF Complete(index, chain) THEN "normal" ELSE "failed"
    /\ UNCHANGED <<chain, processing, unchecked, done, index, restarts>>

(* The accepter's goroutine: Accepter.AcceptBlock.                           *)
Process ==
    /\ phase \in {"bootstrap", "ready", "normal"} /\ done < Height(chain)
    /\ done' = done + 1
    /\ win' = WindowAccept(win, Ancestor(chain, done + 1))
    /\ UNCHANGED <<chain, processing, unchecked, index, phase, restarts>>

(* The node ends ...                                                         *)
Stop ==
    /\ phase \in {"bootstrap", "ready", "normal"} /\ restarts < MaxRestarts
    /\ restarts' = restarts + 1
    /\ phase' = "down" /\ processing' = {} /\ unchecked' = {}
    /\ win' = [seen |-> {}, height |-> 0]
    /\ index' = CleanupOnStartup(index)
    /\ UNCHANGED <<chain, done>>

(* ... and starts again: the window is populated from the block of the state *)
(* on disk, and the blocks after it are processed again.                     *)
Start ==
    /\ phase = "down"
    /\ phase' = "bootstrap"
    /\ win' = AcceptRange(Populate(win, index, Ancestor(chain, done)), chain, done + 1,
                          Height(chain))
    /\ done' = Height(chain)
    /\ UNCHANGED <<chain, processing, unchecked, index, restarts>>

-----------------------------------------------------------------------------
NodeNext ==
    \/ \E p \in Parents : \E b \in Children(p) : VerifyBlock(b)
    \/ \E b \in processing : AcceptBlock(b)
    \/ \E b \in NetChildren(chain) : BootstrapBlock(b)
    \/ \E b \in NetChildren(chain) \cup processing : AcceptFails(b)
    \/ StartNormalOp \/ Process \/ Stop \/ Start
===============================================================================
