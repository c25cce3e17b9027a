-------------------------------- MODULE Codec --------------------------------
(***************************************************************************)
(* What is written to the wire and to disk: the canoto encoding of blocks, *)
(* transactions, results and the messages of the websocket and of the      *)
(* block fetcher.  The generated *.canoto.go files differ in their fields  *)
(* only, so a message is a schema and the encoding is defined once.        *)
(* Transaction and StatelessBlock override what is generated.              *)
(*                                                                         *)
(* Bytes are a sequence of symbols: an entry is a tag (f, w) with a number *)
(* (n) or a body (b, bytes again); Raw(n) is a byte that means nothing to  *)
(* canoto.  So tags, lengths and numbers are always well formed: canoto    *)
(* itself refuses padded or truncated ones.                                *)
(*                                                                         *)
(* A message is the tuple of its fields.  A pointer is <<>> for nil, or    *)
(* <<value>>.  Unmarshal gives the set of the values read: empty when it   *)
(* returns an error.                                                       *)
(***************************************************************************)
EXTENDS Naturals, Sequences, SequencesExt

CONSTANTS
    IDLen,          \* bytes of an ID, 32
    Dims,           \* fee dimensions, 5
    ActionTypes,    \* type IDs the action parser knows
    AuthTypes,      \* type IDs the auth parser knows
    MaxEntries      \* bound: entries of a sequence of bytes that is read

Symbol(f, w, n, b) == [f |-> f, w |-> w, n |-> n, b |-> b]
Number(f, w, n) == Symbol(f, w, n, <<>>)
Body(f, b) == Symbol(f, "len", 0, b)
Raw(n) == Symbol(0, "raw", n, <<>>)

Field(kind, rep, of) == [kind |-> kind, rep |-> rep, of |-> of]
Bool == Field("bool", FALSE, <<>>)
Uint == Field("uint", FALSE, <<>>)
Fint == Field("fint", FALSE, <<>>)
Bytes == Field("bytes", FALSE, <<>>)
ManyBytes == Field("bytes", TRUE, <<>>)
ID == Field("id", FALSE, <<>>)
Dimensions == Field("dimensions", FALSE, <<>>)
Value(of) == Field("value", FALSE, of)
Pointer(of) == Field("pointer", FALSE, of)
Pointers(of) == Field("pointer", TRUE, of)

Message(fields) == [fields |-> fields, override |-> "none"]

-----------------------------------------------------------------------------
(* The messages, by their fields in the order of their numbers.              *)

ResultSchema == Message(<<Bool, Bytes, ManyBytes, Dimensions, Fint>>)
ExecutionResultsSchema == Message(<<Pointers(ResultSchema), Dimensions, Dimensions>>)

BaseSchema == Message(<<Uint, ID, Fint>>)
SerializeTxSchema == Message(<<Value(BaseSchema), ManyBytes, Bytes>>)
TransactionSchema == [SerializeTxSchema EXCEPT !.override = "transaction"]
BatchedTransactionsSchema ==
    [Message(<<Pointers(TransactionSchema)>>) EXCEPT !.override = "noNil"]

ContextSchema == Message(<<Uint>>)
BlockSchema == Message(<<ID, Fint, Fint, Pointer(ContextSchema),
                         Pointers(TransactionSchema), ID>>)
StatelessBlockSchema == [BlockSchema EXCEPT !.override = "block"]
ExecutedBlockSchema ==
    Message(<<Pointer(StatelessBlockSchema), Pointer(ExecutionResultsSchema)>>)

BatchMessageSchema == Message(<<ManyBytes>>)
TxMessageSchema == Message(<<ID, Bytes>>)
BlockFetchRequestSchema == Message(<<Fint, Fint>>)
BlockFetchResponseSchema == Message(<<ManyBytes>>)

-----------------------------------------------------------------------------
(* Reading                                                                   *)

WireType(s) == CASE s.kind \in {"bool", "uint"} -> "varint"
                 [] s.kind = "fint" -> "i64"
                 [] OTHER -> "len"

IsRaw(b, length) == Len(b) = length /\ \A i \in DOMAIN b : b[i].w = "raw"
IsZero(b) == \A i \in DOMAIN b : b[i].n = 0

(* TypeParser.Unmarshal: the first byte is a type ID that is registered.     *)
Parses(b, types) == b # <<>> /\ b[1].w = "raw" /\ b[1].n \in types

RECURSIVE Accepts(_, _), Read(_, _), Marshal(_, _)

(* Mutant: a zero that is written out is read.                               *)
ReadsFieldZero(s, e) ==
    /\ e.w = WireType(s)
    /\ CASE s.kind = "bool" -> e.n \in {0, 1}
         [] s.kind \in {"uint", "fint"} -> TRUE
         [] s.kind = "bytes" -> TRUE
         [] s.kind = "id" -> IsRaw(e.b, IDLen)
         [] s.kind = "dimensions" -> IsRaw(e.b, Dims)
         [] OTHER -> e.b # <<>> => Accepts(s.of, e.b)

ReadsField(s, e) ==
    /\ e.w = WireType(s)
    /\ CASE s.kind = "bool" -> e.n = 1
         [] s.kind \in {"uint", "fint"} -> e.n # 0
         [] s.kind = "bytes" -> s.rep \/ e.b # <<>>
         [] s.kind = "id" -> IsRaw(e.b, IDLen) /\ ~IsZero(e.b)
         [] s.kind = "dimensions" -> IsRaw(e.b, Dims) /\ ~IsZero(e.b)
         [] OTHER -> IF e.b = <<>> THEN s.rep ELSE Accepts(s.of, e.b)

(* minField: numbers ascend; the entries of a repeated field follow each     *)
(* other and are read at once.                                               *)
InOrder(s, w) ==
    \A i \in 1 .. Len(w) - 1 :
        \/ w[i].f < w[i + 1].f
        \/ w[i].f = w[i + 1].f /\ s.fields[w[i].f].rep

Entries(w, f) == SelectSeq(w, LAMBDA e : e.f = f)

(* What Transaction, StatelessBlock and BatchedTransactionSerializer check   *)
(* of what was read.                                                         *)
Overridden(s, w) ==
    CASE s.override = "transaction" ->
            /\ \A i \in DOMAIN Entries(w, 2) : Parses(Entries(w, 2)[i].b, ActionTypes)
            /\ Entries(w, 3) # <<>> /\ Parses(Entries(w, 3)[1].b, AuthTypes)
      [] s.override = "block" -> \A i \in DOMAIN Entries(w, 5) : Entries(w, 5)[i].b # <<>>
      [] s.override = "noNil" -> \A i \in DOMAIN w : w[i].b # <<>>
      [] OTHER -> TRUE

Accepts(s, w) ==
    /\ \A i \in DOMAIN w : w[i].f \in DOMAIN s.fields /\ ReadsField(s.fields[w[i].f], w[i])
    /\ InOrder(s, w)
    /\ Overridden(s, w)

(* The bytes that are signed end where the auth, the last field, begins.     *)
(* Mutant: they are all the bytes.                                           *)
UnsignedBytesWhole(w) == w

UnsignedBytes(w) == IF Entries(w, 3) = <<>> THEN w ELSE Front(w)

ReadField(s, e) == CASE s.kind \in {"bool", "uint", "fint"} -> e.n
                     [] s.kind \in {"bytes", "id", "dimensions"} -> e.b
                     [] s.kind = "value" -> Read(s.of, e.b)
                     [] OTHER -> IF e.b = <<>> THEN <<>> ELSE <<Read(s.of, e.b)>>

Zeros(n) == [i \in 1 .. n |-> Raw(0)]

Zero(s) == CASE s.kind \in {"bool", "uint", "fint"} -> 0
             [] s.kind = "id" -> Zeros(IDLen)
             [] s.kind = "dimensions" -> Zeros(Dims)
             [] s.kind = "value" -> Read(s.of, <<>>)
             [] OTHER -> <<>>

Fields(s, w) ==
    [f \in DOMAIN s.fields |->
        LET es == Entries(w, f) IN
        IF s.fields[f].rep THEN [i \in DOMAIN es |-> ReadField(s.fields[f], es[i])]
        ELSE IF es = <<>> THEN Zero(s.fields[f])
        ELSE ReadField(s.fields[f], es[1])]

(* A transaction and a block keep the bytes they are read from.              *)
Read(s, w) == CASE s.override = "transaction" ->
                        [fields |-> Fields(s, w), bytes |-> w, unsigned |-> UnsignedBytes(w)]
                [] s.override = "block" -> [fields |-> Fields(s, w), bytes |-> w]
                [] OTHER -> Fields(s, w)

Unmarshal(s, w) == IF Accepts(s, w) THEN {Read(s, w)} ELSE {}

-----------------------------------------------------------------------------
(* Writing                                                                   *)

MarshalPointer(s, p) == IF p = <<>> THEN <<>> ELSE Marshal(s.of, p[1])

(* A message whose size is 0 is not written unless it is repeated.           *)
NotEmpty(f, b) == IF b = <<>> THEN <<>> ELSE <<Body(f, b)>>

MarshalField(s, f, v) ==
    CASE s.rep -> [i \in DOMAIN v |-> Body(f, IF s.kind = "bytes" THEN v[i]
                                              ELSE MarshalPointer(s, v[i]))]
      [] s.kind \in {"bool", "uint", "fint"} ->
            IF v = 0 THEN <<>> ELSE <<Number(f, WireType(s), v)>>
      [] s.kind = "bytes" -> NotEmpty(f, v)
      [] s.kind \in {"id", "dimensions"} -> IF IsZero(v) THEN <<>> ELSE <<Body(f, v)>>
      [] s.kind = "value" -> NotEmpty(f, Marshal(s.of, v))
      [] OTHER -> NotEmpty(f, MarshalPointer(s, v))

MarshalFields(s, v) == FlattenSeq([f \in DOMAIN s.fields |-> MarshalField(s.fields[f], f, v[f])])

(* The bytes of a transaction are kept, those of a block are written anew    *)
(* from its fields when an executed block is.                                *)
Marshal(s, v) == CASE s.override = "transaction" -> v.bytes
                   [] s.override = "block" -> MarshalFields(s, v.fields)
                   [] OTHER -> MarshalFields(s, v)

-----------------------------------------------------------------------------
(* The functions the rest of the program calls.                              *)

MarshalResult(r) == Marshal(ResultSchema, r)
UnmarshalResult(w) == Unmarshal(ResultSchema, w)
MarshalExecutionResults(r) == Marshal(ExecutionResultsSchema, r)
ParseExecutionResults(w) == Unmarshal(ExecutionResultsSchema, w)
MarshalBase(b) == Marshal(BaseSchema, b)
UnmarshalBase(w) == Unmarshal(BaseSchema, w)
MarshalSerializeTx(t) == Marshal(SerializeTxSchema, t)
UnmarshalSerializeTx(w) == Unmarshal(SerializeTxSchema, w)
MarshalTx(t) == Marshal(TransactionSchema, t)
UnmarshalTx(w) == Unmarshal(TransactionSchema, w)
MarshalTxs(txs) == Marshal(BatchedTransactionsSchema, txs)
UnmarshalTxs(w) == Unmarshal(BatchedTransactionsSchema, w)
MarshalBlock(b) == Marshal(BlockSchema, b)
UnmarshalBlock(w) == Unmarshal(StatelessBlockSchema, w)
MarshalExecutedBlock(b) == Marshal(ExecutedBlockSchema, b)
UnmarshalExecutedBlock(w) == Unmarshal(ExecutedBlockSchema, w)
CreateBatchMessage(msgs) == Marshal(BatchMessageSchema, <<msgs>>)
ParseBatchMessage(w) == Unmarshal(BatchMessageSchema, w)
MarshalBlockFetchRequest(r) == Marshal(BlockFetchRequestSchema, r)
UnmarshalBlockFetchRequest(w) == Unmarshal(BlockFetchRequestSchema, w)
MarshalBlockFetchResponse(r) == Marshal(BlockFetchResponseSchema, r)
UnmarshalBlockFetchResponse(w) == Unmarshal(BlockFetchResponseSchema, w)
MarshalTxMessage(t) == Marshal(TxMessageSchema, t)
UnmarshalTxMessage(w) == Unmarshal(TxMessageSchema, w)

(* The answer of the websocket on a transaction: no result when it expired.  *)
PackTxMessage(id, result) == MarshalTxMessage(<<id, MarshalPointer(Pointer(ResultSchema), result)>>)

UnpackTxMessage(w) ==
    {<<t[1], <<>>>> : t \in {u \in UnmarshalTxMessage(w) : u[2] = <<>>}}
        \cup UNION {{<<t[1], <<r>>>> : r \in UnmarshalResult(t[2])} :
                    t \in {u \in UnmarshalTxMessage(w) : u[2] # <<>>}}

(* NewTxData, NewTransaction and Sign: the signature covers what is written  *)
(* of a transaction without an auth.                                         *)
NewTxData(base, actions) == MarshalSerializeTx(<<base, actions, <<>>>>)

NewTransaction(base, actions, auth) ==
    LET fields == <<base, actions, auth>> IN
    [fields |-> fields, bytes |-> MarshalSerializeTx(fields),
     unsigned |-> NewTxData(base, actions)]

(* NewStatelessBlock                                                         *)
NewStatelessBlock(fields) == [fields |-> fields, bytes |-> MarshalBlock(fields)]

-----------------------------------------------------------------------------
(* The values and the bytes on which the codec is checked: for each message  *)
(* some values of each field, and every short sequence of entries of its     *)
(* fields, of fields it does not have, of the wrong wire type, with zeros    *)
(* written out, out of order and repeated.                                   *)

(* What is not written by canoto: bytes of three values, addresses of two    *)
(* bytes, the longest signature and transfer of four and six.                *)
Typed == INSTANCE TypedCodec WITH
    MaxByte <- 2, IntLen <- 1, AddressLen <- 2, FeeDimensions <- Dims,
    KeyLen <- [id \in 0 .. 2 |-> IF id = 1 THEN 2 ELSE 1], SigLen <- [id \in 0 .. 2 |-> 1],
    BLSPoints <- {<<1>>, <<2>>}, TransferID <- 0, MaxMemoSize <- 1, MaxSample <- 7

IDs == {Zeros(IDLen), [Zeros(IDLen) EXCEPT ![IDLen] = Raw(1)]}
SomeDims == {Zeros(Dims), [Zeros(Dims) EXCEPT ![1] = Raw(1)]}
ByteStrings == {<<>>, <<Raw(1)>>, <<Raw(2), Raw(0)>>}
TypedBytes == {<<Raw(t)>> : t \in AuthTypes \cap ActionTypes}
UpTo2(S) == {<<>>} \cup {<<a>> : a \in S} \cup {<<a, b>> : a \in S, b \in S}

Results == {0, 1} \X ByteStrings \X {<<>>, <<<<>>>>, <<<<Raw(1)>>, <<>>>>} \X SomeDims \X {0, 1}
SomeResults == {<<1, <<>>, <<<<>>>>, Zeros(Dims), 0>>, <<0, <<Raw(1)>>, <<>>, Zeros(Dims), 1>>}
ExecutionResults == UpTo2({<<r>> : r \in SomeResults} \cup {<<>>}) \X SomeDims \X SomeDims
Bases == {0, 1} \X IDs \X {0, 1}
Transactions == {NewTransaction(b, as, a) :
    b \in {<<1, CHOOSE i \in IDs : i # Zeros(IDLen), 0>>, <<0, Zeros(IDLen), 1>>,
           <<0, Zeros(IDLen), 0>>},
    as \in UpTo2(TypedBytes), a \in TypedBytes}
SerializeTxs == {t.fields : t \in Transactions} \cup {[t.fields EXCEPT ![3] = <<>>] : t \in Transactions}
SomeTxs == {CHOOSE t \in Transactions : t.fields[2] = <<>>, CHOOSE t \in Transactions : Len(t.fields[2]) = 2}
Contexts == {<<>>, <<<<1>>>>}
BlockFields == IDs \X {0, 1} \X {0, 1} \X Contexts \X UpTo2({<<t>> : t \in SomeTxs}) \X IDs
Blocks == {NewStatelessBlock(b) : b \in BlockFields}
SomeBlocks == {b \in Blocks : b.fields[3] = 1 /\ b.fields[2] = 1 /\ b.fields[6] # Zeros(IDLen)}
ExecutedBlocks == {<<<<b>>, <<r>>>> : b \in SomeBlocks,
                   r \in {e \in ExecutionResults : e[2] # Zeros(Dims) /\ e[3] # Zeros(Dims)}}

(* What field f of a schema may hold in bytes that are received.             *)
Bodies(s) == CASE s.kind = "bytes" -> ByteStrings
               [] s.kind = "id" -> IDs \cup {<<Raw(1)>>}
               [] s.kind = "dimensions" -> SomeDims \cup {<<Raw(1)>>}
               [] s.of = BaseSchema -> {<<>>, <<Number(1, "varint", 1)>>, <<Number(1, "varint", 0)>>}
               [] s.of = ContextSchema -> {<<>>, <<Number(1, "varint", 1)>>, <<Number(1, "varint", 0)>>}
               [] s.of = TransactionSchema ->
                    {<<>>, <<Body(3, <<Raw(9)>>)>>, <<Body(1, <<>>)>>} \cup {t.bytes : t \in SomeTxs}
               [] s.of = ResultSchema -> {<<>>, <<Number(1, "varint", 0)>>, <<Number(1, "varint", 1)>>}
               [] s.of = StatelessBlockSchema ->
                    {<<>>, <<Number(2, "i64", 1)>>, <<Body(5, <<>>)>>}
               [] OTHER -> {<<>>, <<Body(2, Zeros(Dims))>>, <<Body(1, <<>>)>>}

EntriesOf(s) ==
    LET types(f) == WireType(s.fields[f]) IN
    UNION {IF types(f) = "len" THEN {Body(f, b) : b \in Bodies(s.fields[f])}
                                    \cup {Number(f, "varint", 1)}
           ELSE {Number(f, types(f), n) : n \in {0, 1}} \cup {Body(f, <<Raw(1)>>)} :
           f \in DOMAIN s.fields}
    \cup {Number(Len(s.fields) + 1, "varint", 1), Raw(1)}

Wires(s) == UNION {[1 .. n -> EntriesOf(s)] : n \in 0 .. MaxEntries}

(* No two sequences of bytes are read as the same value, so that the ID of a *)
(* block or of a transaction, a hash of its bytes, names what it says; and   *)
(* what is written is read back.                                             *)
Exact(s, values, Parse(_), Write(_)) ==
    /\ \A w \in Wires(s) : \A v \in Parse(w) : Write(v) = w
    /\ \A v \in values : Parse(Write(v)) = {v}

(* ... but for a pointer to a message of zeros, which is read as nil: the    *)
(* context of a block of P-chain height 0, and a result without any content, *)
(* which the client of the websocket takes for an expired transaction.       *)
ZeroIsNil ==
    /\ \A b \in SomeBlocks :
        LET zero == NewStatelessBlock([b.fields EXCEPT ![4] = <<<<0>>>>])
            none == NewStatelessBlock([b.fields EXCEPT ![4] = <<>>])
        IN UnmarshalBlock(zero.bytes) = {none}
    /\ \A id \in IDs, r \in Results :
        UnpackTxMessage(PackTxMessage(id, <<r>>)) =
            {<<id, IF MarshalResult(r) = <<>> THEN <<>> ELSE <<r>>>>}

(* What the verifier of a received transaction takes for the signed bytes is *)
(* what its sender signed, and all of the transaction but its auth.          *)
SignsAll ==
    /\ \A t \in Transactions : \A r \in UnmarshalTx(t.bytes) :
            r.unsigned = NewTxData(t.fields[1], t.fields[2])
    /\ \A w \in Wires(TransactionSchema) : \A r \in UnmarshalTx(w) :
            w = r.unsigned \o <<Body(3, r.fields[3])>>

(* No block that is read holds a nil transaction, nor does gossip.           *)
NoNilTx ==
    /\ \A w \in Wires(StatelessBlockSchema) : \A b \in UnmarshalBlock(w) :
            <<>> \notin ToSet(b.fields[5])
    /\ \A w \in Wires(BatchedTransactionsSchema) : \A b \in UnmarshalTxs(w) :
            <<>> \notin ToSet(b[1])

CodecExact ==
    /\ Exact(ResultSchema, Results, UnmarshalResult, MarshalResult)
    /\ Exact(ExecutionResultsSchema, ExecutionResults,
             ParseExecutionResults, MarshalExecutionResults)
    /\ Exact(BaseSchema, Bases, UnmarshalBase, MarshalBase)
    /\ Exact(SerializeTxSchema, SerializeTxs, UnmarshalSerializeTx, MarshalSerializeTx)
    /\ Exact(TransactionSchema, Transactions, UnmarshalTx, MarshalTx)
    /\ Exact(BatchedTransactionsSchema, {<<txs>> : txs \in UpTo2({<<t>> : t \in SomeTxs})},
             UnmarshalTxs, MarshalTxs)
    /\ Exact(StatelessBlockSchema, Blocks,
             UnmarshalBlock, LAMBDA b : MarshalBlock(b.fields))
    /\ Exact(ExecutedBlockSchema, ExecutedBlocks, UnmarshalExecutedBlock, MarshalExecutedBlock)
    /\ Exact(BatchMessageSchema, {<<b>> : b \in UpTo2(ByteStrings)},
             ParseBatchMessage, LAMBDA m : CreateBatchMessage(m[1]))
    /\ Exact(TxMessageSchema, IDs \X ByteStrings, UnmarshalTxMessage, MarshalTxMessage)
    /\ Exact(BlockFetchRequestSchema, {0, 1} \X {0, 1},
             UnmarshalBlockFetchRequest, MarshalBlockFetchRequest)
    /\ Exact(BlockFetchResponseSchema, {<<b>> : b \in UpTo2(ByteStrings)},
             UnmarshalBlockFetchResponse, MarshalBlockFetchResponse)
    /\ ZeroIsNil
    /\ SignsAll
    /\ NoNilTx
    /\ Typed!TypedExact
=============================================================================
