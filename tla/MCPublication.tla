---------------------------- MODULE MCPublication ----------------------------
(* Two transactions that expire at the heights 1 and 2; and what the indexer *)
(* writes of a block, in the encoding of Codec.                              *)
EXTENDS Publication, Codec, TLC

MCExpiry == 1 :> 1 @@ 2 :> 2

(* What is written to disk for block h.                                      *)
Executed(h) ==
    LET txs == [i \in DOMAIN SetToSeq(chain[h]) |->
                    <<NewTransaction(<<0, Zeros(IDLen), SetToSeq(chain[h])[i]>>, <<>>,
                                     <<Raw(CHOOSE t \in AuthTypes : TRUE)>>)>>]
        result == <<<<1, <<>>, <<>>, Zeros(Dims), 1>>>>
    IN <<<<NewStatelessBlock(<<Zeros(IDLen), h, h, <<>>, txs, Zeros(IDLen)>>)>>,
         <<<<[i \in DOMAIN txs |-> result], [Zeros(Dims) EXCEPT ![1] = Raw(h)],
             Zeros(Dims)>>>>>>

(* Bytes that are read have one meaning and a meaning has one sequence of    *)
(* bytes, on samples of every message; and what the indexer has stored of a  *)
(* block is what it reads when the node starts.  (the canoto.go files,    *)
(* transaction.go UnmarshalCanotoFrom, indexer.go initBlocks)                *)
WireExact ==
    /\ CodecExact
    /\ \A h \in db : UnmarshalExecutedBlock(MarshalExecutedBlock(Executed(h))) = {Executed(h)}
=============================================================================
