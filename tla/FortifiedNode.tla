----------------------------- MODULE FortifiedNode -----------------------------
(***************************************************************************)
(* The sequencer with bonds (x/fdsmr, internal/chain/bond.go): a node puts *)
(* a transaction in a chunk only when its sponsor's bond covers the fee of *)
(* what is outstanding, and gives the bond back when the transaction       *)
(* expires or is accepted.  The bonds are on disk; the heap of the         *)
(* transactions that hold one is in memory.                                *)
(*                                                                         *)
(* There is one sponsor, and BuildChunk and Accept do not run their bond   *)
(* steps at the same time: neither takes a lock.                           *)
(***************************************************************************)
EXTENDS Dsmr

CONSTANTS
    TxExpiry,   \* transaction -> its expiry
    TxLists,    \* lists of transactions that BuildChunk is called with
    Fees,       \* fees a transaction may be charged
    MaxBalance  \* of the sponsor

VARIABLES
    balance,    \* disk: pending bond balance
    fee,        \* disk: transaction -> fee of its bond, 0 when it has none
    heap,       \* Node.pending
    forgotten   \* history: transactions whose bond outlived the process

ASSUME BondAssumption ==
    /\ TxExpiry \in [Txs -> Nat] /\ TxLists \subseteq Seq(Txs)
    /\ Fees \subseteq Nat /\ MaxBalance \in Nat

bonds == <<balance, fee>>
fvars == <<dsmrVars, bonds, heap, forgotten>>

-----------------------------------------------------------------------------
(* Bonder, on states [balance, fee]                                          *)

CanBond(b, f) == b.balance + f <= MaxBalance

Bond(b, x, f) == [balance |-> b.balance + f, fee |-> [b.fee EXCEPT ![x] = f]]

(* The fees of a set of transactions.                                        *)
Owed(fees, xs) == FoldSet(LAMBDA x, s : s + fees[x], 0, xs)

(* Unbond of each of a set of transactions, of those without a bond too.     *)
UnbondAll(b, xs) ==
    [balance |-> b.balance - Owed(b.fee, xs),
     fee |-> [x \in Txs |-> IF x \in xs THEN 0 ELSE b.fee[x]]]

Bonds == [balance |-> balance, fee |-> fee]

SetBonds(b) == balance' = b.balance /\ fee' = b.fee

-----------------------------------------------------------------------------
(* The expiry heap, as a set: adding what is there changes nothing           *)

HeapAdd(h, xs) == h \cup xs

Expired(h, t) == {x \in h : TxExpiry[x] < t}   \* what SetMin removes

-----------------------------------------------------------------------------
(* Node                                                                      *)

(* The loop of BuildChunk over txs: bonds, and the transactions bonded.      *)
BondNext(s, x, f) ==
    IF CanBond(s.b, f) THEN [b |-> Bond(s.b, x, f), txs |-> s.txs \cup {x}] ELSE s

BondList(txs, f) ==
    LET bonded[n \in 0 .. Len(txs)] ==
            IF n = 0 THEN [b |-> Bonds, txs |-> {}] ELSE BondNext(bonded[n - 1], txs[n], f)
    IN bonded[Len(txs)]

FBuildChunk(txs, f) ==
    LET r == BondList(txs, f)
    IN /\ SetBonds(r.b)
       /\ heap' = HeapAdd(heap, r.txs)
       /\ BuildChunk([producer |-> Self, expiry |-> ChunkExpiry, txs |-> r.txs])
       /\ UNCHANGED forgotten

(* Mutant: what expired is dropped from the heap and keeps its bond.         *)
ReleaseAccepted ==
    LET accepted == UNION {c.txs : c \in Certs(blk)}
        left == heap \ Expired(heap, Timestamp(blk))
    IN /\ SetBonds(UnbondAll(Bonds, accepted \cap left))
       /\ heap' = left

(* After DSMR.Accept: what expired leaves the heap and gives its bond back,  *)
(* what was accepted gives it back and stays in the heap until it expires.   *)
ReleaseBonds ==
    LET expired == Expired(heap, Timestamp(blk))
        accepted == UNION {c.txs : c \in Certs(blk)}
    IN /\ SetBonds(UnbondAll(Bonds, expired \cup (accepted \cap heap)))
       /\ heap' = heap \ expired

FAccept ==
    /\ up /\ accept = "saved"
    /\ ReleaseBonds
    /\ accept' = "released"
    /\ UNCHANGED <<network, disk, blk, storage, min, requests, building, fetching, up, history,
                   forgotten>>

(* The heap goes with the process.                                           *)
LoseHeap ==
    IF up' THEN UNCHANGED <<heap, forgotten>>
    ELSE heap' = {} /\ forgotten' = forgotten \cup {x \in Txs : fee[x] # 0}

-----------------------------------------------------------------------------
DsmrNext ==
    \/ \E t \in Times : BuildBlock(t) \/ \E cs \in SUBSET certified : NetBlock(t, cs)
    \/ Aggregate \/ AddLocalChunk \/ AggregateFails
    \/ \E c \in RemoteChunks \ certified : NetCertify(c)
    \/ \E c \in RemoteChunks \ requests : SignatureRequest(c)
    \/ \E c \in requests : VerifyRemoteChunk(c)
    \/ \E c \in (certified \cap pending) \ certs : SetChunkCert(c)
    \/ \E c \in Chunks : RequestChunk(c)
    \/ ReceiveChunk \/ AcceptBlock \/ SaveAccepted \/ Crash \/ Restart

FInit ==
    /\ DsmrInit
    /\ balance = 0 /\ fee = [x \in Txs |-> 0] /\ heap = {} /\ forgotten = {}

FNext ==
    \/ DsmrNext /\ LoseHeap /\ UNCHANGED bonds
    \/ \E txs \in TxLists, f \in Fees : FBuildChunk(txs, f)
    \/ FAccept

FSpec == FInit /\ [][FNext]_fvars

-----------------------------------------------------------------------------
(* Properties                                                                *)

(* The balance covers the bonds that are still to be given back, so that     *)
(* Unbond never wraps around (bond.go, pendingBalance -= fee), and never     *)
(* exceeds the sponsor's maximum.                                            *)
BalanceCovers ==
    /\ Owed(fee, Txs) <= balance
    /\ balance <= MaxBalance

(* A transaction that holds a bond is in the heap, so that the bond is given *)
(* back when it expires, unless the process ended since (fdsmr/node.go,      *)
(* Bonder: "If this returns true, Unbond is guaranteed to be called").       *)
BondsTracked == \A x \in Txs : fee[x] # 0 => x \in heap \cup forgotten

BondsTypeOK ==
    balance \in Nat /\ fee \in [Txs -> Nat] /\ heap \subseteq Txs /\ forgotten \subseteq Txs

NodeInv == DsmrInv /\ BondsTypeOK /\ BalanceCovers /\ BondsTracked
===============================================================================
