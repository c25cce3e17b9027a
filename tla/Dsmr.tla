--------------------------------- MODULE Dsmr ---------------------------------
(***************************************************************************)
(* One node of the decentralised sequencer (x/dsmr).  Producers pack       *)
(* transactions into chunks; validators that store a chunk sign it, and a  *)
(* quorum of signatures is its certificate; blocks are lists of            *)
(* certificates.  The node builds chunks, stores and signs those of        *)
(* others, and accepts the blocks that the network agrees on, keeping the  *)
(* chunks they refer to.  It may stop at any step and start again.         *)
(*                                                                         *)
(* Simplifications:                                                        *)
(*  - every chunk has size one and every signature is valid;               *)
(*  - blocks are accepted on one branch, so that a block is identified by  *)
(*    its height;                                                          *)
(*  - the validity window, an interface here, is the one of module         *)
(*    ValidityWindow for a parent that is the last accepted block;         *)
(*  - the minimum on disk is left out: it is loaded and never used.        *)
(***************************************************************************)
EXTENDS Integers, FiniteSets, Sequences, FiniteSetsExt

CONSTANTS
    Self,           \* this node
    Validators,     \* the nodes whose chunks are valid
    RemoteChunks,   \* chunks of others: [producer, expiry, txs]
    Txs,
    ChunkExpiry,    \* the expiry of the chunks this node builds
    Limit,          \* MaxAccumulatedProducerChunkWeight
    Window,         \* validity window of the rules
    Times,          \* timestamps of blocks
    MaxHeight,      \* bound: height of blocks
    MaxRestarts     \* bound: times the node stops by itself

ASSUME ChunkAssumption ==
    /\ IsFiniteSet(Txs) /\ IsFiniteSet(RemoteChunks)
    /\ RemoteChunks \subseteq [producer : {c.producer : c \in RemoteChunks},
                               expiry : Nat, txs : SUBSET Txs]
    /\ ChunkExpiry \in Nat
ASSUME BlockAssumption ==
    Times \subseteq Nat /\ {Limit, Window, MaxHeight, MaxRestarts} \subseteq Nat

LocalChunks == [producer : {Self}, expiry : {ChunkExpiry}, txs : (SUBSET Txs) \ {{}}]
Chunks == LocalChunks \cup RemoteChunks
Producers == {c.producer : c \in Chunks}

NoChunk == [producer |-> "none"]

VARIABLES
    chain,      \* the network: blocks it accepted, [ts, certs]
    certified,  \* the network: chunks with a certificate
    saved,      \* disk: height of the last accepted block
    pendingDB,  \* disk: chunks under pendingByte
    acceptedDB, \* disk: chunks under acceptedByte
    blk,        \* LastAccepted, its height
    pending,    \* pendingChunkMap: its chunks ...
    certs,      \* ... and those among them with a certificate
    emap,       \* chunkEMap
    sizes,      \* pendingChunksSizes
    min,        \* ChunkVerifier.min
    requests,   \* signature requests that passed CheckRateLimit
    building,   \* the chunk that BuildChunk collects signatures for
    accept,     \* Accept: "idle", "fetch", "saved" or "released"
    fetching,   \* the chunk it waits for
    up,
    signed,     \* history: chunks of others that the node signed
    restarts

network == <<chain, certified>>
disk == <<saved, pendingDB, acceptedDB>>
storage == <<pending, certs, emap, sizes>>
history == <<signed, restarts>>
dsmrVars == <<network, disk, blk, storage, min, requests, building, accept, fetching, up, history>>

Timestamp(h) == IF h = 0 THEN 0 ELSE chain[h].ts
Certs(h) == IF h = 0 THEN {} ELSE chain[h].certs
AcceptedTo(h) == UNION {Certs(g) : g \in 0 .. h}

-----------------------------------------------------------------------------
(* The validity window, for a block at time t on the last accepted block     *)

Repeats(t) ==
    IF Timestamp(blk) < t - Window THEN {}
    ELSE {c \in AcceptedTo(blk) : c.expiry >= Timestamp(blk)}

-----------------------------------------------------------------------------
(* ChunkStorage                                                              *)

(* A chunk is valid when it expires in the window that starts at min.        *)
VerifyChunk(c) ==
    /\ c.expiry >= min /\ c.expiry <= min + Window
    /\ c.producer \in Validators

CheckRateLimit(c) == sizes[c.producer] + 1 <= Limit

GetChunkBytes(c) == c \in pending \cup acceptedDB

(* GetChunkHandler, for other nodes.                                         *)
Serves(c) == up /\ GetChunkBytes(c)

(* Mutant: a chunk without certificate is not written.                       *)
PutInMemory(c, withCert) ==
    /\ pendingDB' = IF withCert THEN pendingDB \cup {c} ELSE pendingDB
    /\ emap' = emap \cup {c}
    /\ pending' = pending \cup {c}
    /\ certs' = IF withCert THEN certs \cup {c} ELSE certs
    /\ sizes' = IF c \in pending THEN sizes ELSE [sizes EXCEPT ![c.producer] = @ + 1]

PutVerifiedChunk(c, withCert) ==
    /\ pendingDB' = pendingDB \cup {c}
    /\ emap' = emap \cup {c}
    /\ pending' = pending \cup {c}
    /\ certs' = IF withCert THEN certs \cup {c} ELSE certs
    /\ sizes' = IF c \in pending THEN sizes ELSE [sizes EXCEPT ![c.producer] = @ + 1]

(* discardPendingChunk of each chunk of a set.                               *)
Discard(cs) ==
    /\ pending' = pending \ cs
    /\ certs' = certs \ cs
    /\ sizes' = [p \in Producers |->
                   sizes[p] - Cardinality({c \in cs \cap pending : c.producer = p})]

(* SetMin, all of save pending: a chunk that is saved leaves the map, its    *)
(* pending key stays; the keys of the others that expire go.                 *)
SetMin(t, save) ==
    LET expired == {c \in emap : c.expiry < t}
    IN /\ acceptedDB' = acceptedDB \cup save
       /\ Discard(save \cup expired)
       /\ emap' = emap \ expired
       /\ pendingDB' = pendingDB \ (expired \cap (pending \ save))
       /\ min' = t

GatherChunkCerts == certs

VerifyCertificate(c) == c \in certified

-----------------------------------------------------------------------------
(* Blocks                                                                    *)

(* Mutant: certificates of accepted chunks are built in again.               *)
AvailableCertsRepeat(t) == {c \in GatherChunkCerts : c.expiry >= t}

(* What BuildBlock puts in a block at time t; nothing, when it fails.        *)
AvailableCerts(t) ==
    IF t <= Timestamp(blk) THEN {}
    ELSE {c \in GatherChunkCerts : c.expiry >= t} \ Repeats(t)

VerifyBlock(t, cs) ==
    /\ t > Timestamp(blk)
    /\ cs # {}
    /\ cs \cap Repeats(t) = {}
    /\ \A c \in cs : VerifyCertificate(c)

(* The network accepts what its nodes build, one of which may be this one.   *)
AppendBlock(t, cs) ==
    /\ Len(chain) < MaxHeight /\ t > Timestamp(Len(chain))
    /\ cs # {} /\ cs \cap AcceptedTo(Len(chain)) = {} /\ \A c \in cs : c.expiry >= t
    /\ chain' = Append(chain, [ts |-> t, certs |-> cs])

NetBlock(t, cs) ==
    /\ cs \subseteq certified /\ AppendBlock(t, cs)
    /\ UNCHANGED <<certified, disk, blk, storage, min, requests, building, accept, fetching,
                   up, history>>

BuildBlock(t) ==
    /\ up /\ blk = Len(chain) /\ AppendBlock(t, AvailableCerts(t))
    /\ UNCHANGED <<certified, disk, blk, storage, min, requests, building, accept, fetching,
                   up, history>>

-----------------------------------------------------------------------------
(* What the end of the process does to its memory.                           *)
LoseMemory ==
    /\ up' = FALSE
    /\ blk' = saved /\ min' = 0
    /\ requests' = {} /\ building' = NoChunk /\ accept' = "idle" /\ fetching' = NoChunk
    /\ pending' = {} /\ certs' = {} /\ emap' = {} /\ sizes' = [p \in Producers |-> 0]

(* A panic or an error of Accept ends it, and so may anything else.          *)
Die ==
    /\ LoseMemory
    /\ UNCHANGED <<saved, acceptedDB, network, history>>

Crash ==
    /\ up /\ restarts < MaxRestarts /\ restarts' = restarts + 1
    /\ LoseMemory
    /\ UNCHANGED <<disk, network, signed>>

(* NewChunkStorage: what has a pending key is pending, without certificate.  *)
Restart ==
    /\ ~up /\ up' = TRUE
    /\ pending' = pendingDB /\ emap' = pendingDB
    /\ sizes' = [p \in Producers |-> Cardinality({c \in pendingDB : c.producer = p})]
    /\ UNCHANGED <<network, disk, blk, certs, min, requests, building, accept, fetching,
                   history>>

-----------------------------------------------------------------------------
(* Chunks of this node                                                       *)

(* DSMR.BuildChunk up to the collection of signatures.                       *)
CanBuildChunk(c) ==
    /\ c.txs # {}
    /\ c \notin Repeats(Timestamp(blk))
    /\ CheckRateLimit(c)

BuildChunk(c) ==
    /\ up /\ building = NoChunk
    /\ building' = IF CanBuildChunk(c) THEN c ELSE NoChunk
    /\ UNCHANGED <<network, disk, blk, storage, min, requests, accept, fetching, up, history>>

(* A validator that has accepted block h signs what expires in the window.   *)
Signable(c) ==
    \E h \in 0 .. Len(chain) : c.expiry >= Timestamp(h) /\ c.expiry <= Timestamp(h) + Window

(* Enough validators sign, and the certificate goes out ...                  *)
Aggregate ==
    /\ up /\ building # NoChunk /\ building \notin certified /\ Signable(building)
    /\ certified' = certified \cup {building}
    /\ UNCHANGED <<chain, disk, blk, storage, min, requests, building, accept, fetching, up,
                   history>>

(* ... before the chunk is stored.                                           *)
AddLocalChunk ==
    /\ up /\ building # NoChunk /\ building \in certified
    /\ PutVerifiedChunk(building, TRUE)
    /\ building' = NoChunk
    /\ UNCHANGED <<network, saved, acceptedDB, blk, min, requests, accept, fetching, up, history>>

AggregateFails ==
    /\ up /\ building # NoChunk
    /\ building' = NoChunk
    /\ UNCHANGED <<network, disk, blk, storage, min, requests, accept, fetching, up, history>>

-----------------------------------------------------------------------------
(* Chunks of others                                                          *)

(* A chunk gets a certificate whether or not this node signs it.             *)
NetCertify(c) ==
    /\ Signable(c)
    /\ certified' = certified \cup {c}
    /\ UNCHANGED <<chain, disk, blk, storage, min, requests, building, accept, fetching, up,
                   history>>

(* ChunkSignatureRequestVerifier.Verify: the rate limit is checked without   *)
(* the lock under which the chunk is then stored.                            *)
SignatureRequest(c) ==
    /\ up /\ VerifyChunk(c) /\ CheckRateLimit(c)
    /\ requests' = requests \cup {c}
    /\ UNCHANGED <<network, disk, blk, storage, min, building, accept, fetching, up, history>>

(* VerifyRemoteChunk.  A chunk that is pending is answered with the          *)
(* signature of its certificate, which may not be there.                     *)
VerifyRemoteChunk(c) ==
    /\ up /\ c \in requests
    /\ \/ c \in pending /\ c \notin certs /\ Die /\ UNCHANGED pendingDB
       \/ /\ c \in pending => c \in certs
          /\ IF c \notin pending /\ VerifyChunk(c) THEN PutVerifiedChunk(c, FALSE)
             ELSE UNCHANGED <<pendingDB, storage>>
          /\ signed' = IF c \in pending \/ VerifyChunk(c) THEN signed \cup {c} ELSE signed
          /\ requests' = requests \ {c}
          /\ UNCHANGED <<network, saved, acceptedDB, blk, min, building, accept, fetching, up,
                         restarts>>

(* SetChunkCert, on gossip.                                                  *)
SetChunkCert(c) ==
    /\ up /\ c \in pending /\ VerifyCertificate(c)
    /\ certs' = certs \cup {c}
    /\ UNCHANGED <<network, disk, blk, pending, emap, sizes, min, requests, building, accept,
                   fetching, up, history>>

-----------------------------------------------------------------------------
(* Accept                                                                    *)

(* A chunk of the block is missing: it is requested ...                      *)
RequestChunk(c) ==
    /\ up /\ accept = "idle" /\ blk < Len(chain) /\ saved = blk
    /\ c \in Certs(blk + 1) /\ ~GetChunkBytes(c)
    /\ accept' = "fetch" /\ fetching' = c
    /\ UNCHANGED <<network, disk, blk, storage, min, requests, building, up, history>>

(* ... and stored, if it is valid.  The bytes that Accept then parses are    *)
(* those that it did not find, which fails.  An invalid one is requested     *)
(* again, and one that is pending meanwhile is a panic or fails as well.     *)
ReceiveChunk ==
    /\ up /\ accept = "fetch"
    /\ fetching \in pending \/ VerifyChunk(fetching)
    /\ pendingDB' = pendingDB \cup {fetching}
    /\ Die

(* All chunks are there: window, storage and LastAccepted are brought up.    *)
AcceptBlock ==
    /\ up /\ accept = "idle" /\ blk < Len(chain) /\ saved = blk
    /\ Certs(blk + 1) \subseteq pending
    /\ SetMin(Timestamp(blk + 1), Certs(blk + 1))
    /\ blk' = blk + 1 /\ accept' = "saved"
    /\ UNCHANGED <<network, saved, requests, building, fetching, up, history>>

(* The caller records the block as accepted.                                 *)
SaveAccepted ==
    /\ up /\ accept = "released"
    /\ saved' = blk /\ accept' = "idle"
    /\ UNCHANGED <<network, pendingDB, acceptedDB, blk, storage, min, requests, building,
                   fetching, up, history>>

-----------------------------------------------------------------------------
DsmrInit ==
    /\ chain = <<>> /\ certified = {}
    /\ saved = 0 /\ pendingDB = {} /\ acceptedDB = {}
    /\ blk = 0 /\ pending = {} /\ certs = {} /\ emap = {} /\ sizes = [p \in Producers |-> 0]
    /\ min = 0 /\ requests = {} /\ building = NoChunk
    /\ accept = "idle" /\ fetching = NoChunk /\ up = TRUE
    /\ signed = {} /\ restarts = 0

-----------------------------------------------------------------------------
(* Properties                                                                *)

TypeOK ==
    /\ chain \in Seq([ts : Times, certs : SUBSET Chunks]) /\ certified \subseteq Chunks
    /\ saved \in 0 .. blk /\ blk \in 0 .. Len(chain) /\ min \in Nat
    /\ {pendingDB, acceptedDB, pending, emap} \subseteq SUBSET Chunks /\ certs \subseteq pending
    /\ sizes \in [Producers -> Nat]
    /\ requests \subseteq RemoteChunks /\ building \in LocalChunks \cup {NoChunk}
    /\ accept \in {"idle", "fetch", "saved", "released"} /\ (accept = "fetch") = (fetching # NoChunk)
    /\ fetching \in Chunks \cup {NoChunk}
    /\ up \in BOOLEAN /\ signed \subseteq RemoteChunks /\ restarts \in Nat

(* The size that the rate limit compares is the one of the pending chunks,   *)
(* however they came and went (storage.go, putVerifiedChunk and discard).    *)
SizesExact ==
    \A p \in Producers : sizes[p] = Cardinality({c \in pending : c.producer = p})

(* What is pending has its key on disk and its entry in the expiry map; a    *)
(* key that outlives it belongs to an accepted chunk (storage.go, SetMin).   *)
PendingIsDurable ==
    up => /\ pending \subseteq pendingDB \cap emap
          /\ pendingDB \ pending \subseteq acceptedDB

(* What the node may rely on of the network: a chunk is in one block, was    *)
(* certified before, and expires within a window of the block before.        *)
ChainInv ==
    /\ \A g \in 0 .. Len(chain), h \in 1 .. Len(chain) : g < h => Timestamp(g) < Timestamp(h)
    /\ \A h \in 1 .. Len(chain) : \A c \in Certs(h) :
          c \in certified /\ c.expiry <= Timestamp(h - 1) + Window
    /\ \A g, h \in 1 .. Len(chain) : g # h => Certs(g) \cap Certs(h) = {}
    /\ \A c \in certified : c.expiry <= Timestamp(Len(chain)) + Window

(* How far Accept is: the block that it works on is the only one of whose    *)
(* chunks the disk may have more, or still has the pending keys.             *)
AcceptInv ==
    /\ blk = saved + (IF accept \in {"saved", "released"} THEN 1 ELSE 0)
    /\ ~up => accept = "idle" /\ pending = {}
    /\ certs \subseteq certified
    /\ \A h \in 1 .. blk : Certs(h) \subseteq acceptedDB
    /\ acceptedDB \subseteq UNION {Certs(h) : h \in {g \in 1 .. Len(chain) : g <= saved + 1}}
    /\ saved < Len(chain) =>
          /\ acceptedDB \cap Certs(saved + 1) \subseteq pendingDB
          /\ up /\ blk = saved => acceptedDB \cap Certs(saved + 1) \subseteq pending

(* What a chunk that it signed needs: its key, until the network is past it. *)
SignedKept ==
    \A c \in signed : c.expiry >= Timestamp(Len(chain)) => c \in pendingDB \cup acceptedDB

DsmrInv == TypeOK /\ SizesExact /\ PendingIsDurable /\ ChainInv /\ AcceptInv /\ SignedKept

(* The node serves the chunks of every block it recorded as accepted, and    *)
(* when it is up also those of the block it is accepting; and a chunk that   *)
(* it signed it keeps until the network accepts or drops it, also when it    *)
(* stops between any two steps (storage.go, comment on ChunkStorage).  A     *)
(* block that was accepted, and not recorded before a stop, can be accepted  *)
(* again: its chunks are pending after the restart.                          *)
Availability ==
    /\ AcceptedTo(saved) \subseteq acceptedDB
    /\ \A h \in 1 .. saved + 1 : up /\ h <= blk => \A c \in Certs(h) : Serves(c)
    /\ SignedKept
    /\ up /\ saved = blk /\ accept = "idle" /\ blk < Len(chain) =>
          \A c \in Certs(blk + 1) : c \in acceptedDB => c \in pending

(* What BuildBlock puts in a block passes Verify, although a certificate may *)
(* arrive after its chunk was accepted (node.go, BuildBlock and Verify).     *)
BuiltVerifies ==
    up => \A t \in Times :
              LET cs == AvailableCerts(t)
              IN t > Timestamp(blk) /\ cs # {} => VerifyBlock(t, cs) /\ cs \cap AcceptedTo(blk) = {}
===============================================================================
