------------------------------ MODULE ChainIndex ------------------------------
(***************************************************************************)
(* The index of accepted blocks on disk (chainindex): the height of the    *)
(* last accepted block, and the blocks of the last BlockWindow heights.    *)
(* The three entries of a block (height to block, height to ID and ID to   *)
(* height) are written and deleted in one batch, so that an index is the   *)
(* last accepted height with the set of heights that are stored; on an     *)
(* accepted chain the height tells the block.  Compaction is left out.     *)
(***************************************************************************)
EXTENDS Integers

CONSTANT BlockWindow    \* AcceptedBlockWindow; 0 keeps every block

ASSUME BlockWindowAssumption == BlockWindow \in Nat

EmptyIndex == [last |-> 0, stored |-> {0}]

HasBlock(ix, h) == h \in ix.stored

WriteBlock(ix, h) == [ix EXCEPT !.stored = @ \cup {h}]

SaveHistorical(ix, h) == WriteBlock(ix, h)

(* The block that falls out of the window, never genesis: where the window   *)
(* is longer than the chain the height wraps around, and is not below h.     *)
Expires(h) == BlockWindow # 0 /\ h > BlockWindow

(* The height of the expired block is looked up before the batch is written: *)
(* when it is missing, nothing is.                                           *)
CanUpdate(ix, h) == Expires(h) => HasBlock(ix, h - BlockWindow)

(* Mutant: the window is one block short.                                    *)
UpdateLastAcceptedShort(ix, h) ==
    [last |-> h,
     stored |-> (ix.stored \cup {h}) \ (IF Expires(h) THEN 1 .. h - BlockWindow + 1 ELSE {})]

UpdateLastAccepted(ix, h) ==
    [last |-> h,
     stored |-> (ix.stored \cup {h}) \ (IF Expires(h) THEN {h - BlockWindow} ELSE {})]

(* On startup everything below the window goes, except genesis.              *)
CleanupOnStartup(ix) ==
    IF ~Expires(ix.last) THEN ix
    ELSE [ix EXCEPT !.stored = {h \in @ : h = 0 \/ h >= ix.last - BlockWindow}]
===============================================================================
