------------------------------ MODULE TypedCodec ------------------------------
(***************************************************************************)
(* The values that are not written by canoto: signatures (auth), transfers *)
(* and their results (examples/morpheusvm/actions), addresses as text      *)
(* (codec/address.go), hexadecimal (codec/hex.go) and the dimensions of    *)
(* fees (fees/dimension.go).  A typed value begins with the byte of its    *)
(* type, which selects its decoder in a TypeParser.                        *)
(*                                                                         *)
(* A byte is a number of Byte, with fewer values than 256; an integer is   *)
(* IntLen bytes; keys, signatures, addresses and memos are shorter too.    *)
(* What reads gives the set of the values read, empty for an error.        *)
(***************************************************************************)
EXTENDS Naturals, FiniteSets, SequencesExt

CONSTANTS
    MaxByte,        \* MaxUint8
    IntLen,         \* bytes of a uint64
    AddressLen,
    KeyLen, SigLen, \* scheme -> bytes of a public key and of a signature
    BLSPoints,      \* the bytes that are points of the curve
    TransferID,
    MaxMemoSize,
    FeeDimensions,
    MaxSample       \* bound: length of the samples

Byte == 0 .. MaxByte
ByteStrings(n) == [1 .. n -> Byte]
UpTo(n) == UNION {ByteStrings(k) : k \in 0 .. n}
Slice(b, from, n) == SubSeq(b, from, from + n - 1)

(* Big endian.                                                               *)
ReadInt(b) == FoldLeft(LAMBDA s, x : s * (MaxByte + 1) + x, 0, b)
WriteInt(n) == CHOOSE b \in ByteStrings(IntLen) : ReadInt(b) = n
Ints == {ReadInt(b) : b \in ByteStrings(IntLen)}

-----------------------------------------------------------------------------
(* Signatures                                                                *)

ED25519ID == 0
SECP256R1ID == 1
BLSID == 2

AuthSize(id) == 1 + KeyLen[id] + SigLen[id]

AuthBytes(auth) == <<auth.id>> \o auth.signer \o auth.signature

UnmarshalSigned(id, b) ==
    IF Len(b) = AuthSize(id) /\ b[1] = id
    THEN {[id |-> id, signer |-> Slice(b, 2, KeyLen[id]),
           signature |-> Slice(b, 2 + KeyLen[id], SigLen[id])]}
    ELSE {}

UnmarshalED25519(b) == UnmarshalSigned(ED25519ID, b)

UnmarshalSECP256R1(b) == UnmarshalSigned(SECP256R1ID, b)

(* A key or a signature that is no point of the curve is refused.            *)
UnmarshalBLS(b) ==
    {a \in UnmarshalSigned(BLSID, b) : a.signer \in BLSPoints /\ a.signature \in BLSPoints}

-----------------------------------------------------------------------------
(* TypeParser: the types in the order in which they were registered          *)

Register(types, id) ==
    IF Len(types) = MaxByte + 1 \/ id \in ToSet(types) THEN {} ELSE {Append(types, id)}

(* What is registered when an error does not end the program.                *)
RegisterAll(ids) ==
    FoldLeft(LAMBDA types, id : IF Register(types, id) = {} THEN types
                                ELSE CHOOSE t \in Register(types, id) : TRUE, <<>>, ids)

DecodeAuth(id, b) == CASE id = ED25519ID -> UnmarshalED25519(b)
                       [] id = SECP256R1ID -> UnmarshalSECP256R1(b)
                       [] OTHER -> UnmarshalBLS(b)

ParseAuth(types, b) ==
    IF b = <<>> \/ b[1] \notin ToSet(types) THEN {} ELSE DecodeAuth(b[1], b)

-----------------------------------------------------------------------------
(* Transfers.  The linear codec ignores what follows the last field.         *)

TransferBytes(t) == <<TransferID>> \o t.to \o WriteInt(t.value) \o <<Len(t.memo)>> \o t.memo

UnmarshalTransfer(b) ==
    LET memo == 2 + AddressLen + IntLen     \* where the length of the memo is
    IN IF Len(b) < memo \/ b[1] # TransferID THEN {}
       ELSE IF Len(b) < memo + b[memo] \/ b[memo] > MaxMemoSize THEN {}
       ELSE {[to |-> Slice(b, 2, AddressLen), value |-> ReadInt(Slice(b, 2 + AddressLen, IntLen)),
              memo |-> Slice(b, memo + 1, b[memo])]}

TransferResultBytes(r) == <<TransferID>> \o WriteInt(r.sender) \o WriteInt(r.receiver)

(* The type was checked by the parser.                                       *)
UnmarshalTransferResult(b) ==
    IF Len(b) < 1 + 2 * IntLen THEN {}
    ELSE {[sender |-> ReadInt(Slice(b, 2, IntLen)), receiver |-> ReadInt(Slice(b, 2 + IntLen, IntLen))]}

-----------------------------------------------------------------------------
(* Text: [prefix, digits], with or without "0x"; a pair of digits is a byte  *)

LoadHex(text, size) == IF size \in {-1, Len(text.digits)} THEN {text.digits} ELSE {}

Checksum(b) == FoldLeft(LAMBDA s, x : (2 * s + x + 1) % (MaxByte + 1), 0, b)

EncodeWithChecksum(b) == [prefix |-> TRUE, digits |-> Append(b, Checksum(b))]

FromChecksum(text) ==
    IF text.digits = <<>> \/ Checksum(Front(text.digits)) # Last(text.digits) THEN {}
    ELSE {Front(text.digits)}

(* UnmarshalText on the address old: what is copied is the shorter of both.  *)
ReadAddress(old, text) ==
    {[i \in 1 .. AddressLen |-> IF i <= Len(b) THEN b[i] ELSE old[i]] : b \in FromChecksum(text)}

ToAddress(b) == IF Len(b) = AddressLen THEN {b} ELSE {}

-----------------------------------------------------------------------------
(* Dimensions                                                                *)

DimensionsBytes(d) == FlattenSeq([i \in 1 .. FeeDimensions |-> WriteInt(d[i])])

UnpackDimensions(b) ==
    IF Len(b) # FeeDimensions * IntLen THEN {}
    ELSE {[i \in 1 .. FeeDimensions |-> ReadInt(Slice(b, 1 + (i - 1) * IntLen, IntLen))]}

-----------------------------------------------------------------------------
(* Properties                                                                *)

Auths == UNION {[id : {id}, signer : ByteStrings(KeyLen[id]), signature : ByteStrings(SigLen[id])] :
                id \in {ED25519ID, SECP256R1ID}}
         \cup [id : {BLSID}, signer : BLSPoints, signature : BLSPoints]
Addresses == ByteStrings(AddressLen)
Transfers == [to : Addresses, value : Ints, memo : UpTo(MaxMemoSize)]
Texts == [prefix : BOOLEAN, digits : UpTo(AddressLen + 2)]

(* A type is registered once, and its first decoder stays.                   *)
TypesOnce ==
    \A ids \in UpTo(3) : IsInjective(RegisterAll(ids)) /\ ToSet(RegisterAll(ids)) = ToSet(ids)

(* "For a given type T, Unmarshal(Bytes(T)) == T" (codec/type_parser.go:80), *)
(* and the bytes of a signature are the only ones that are read as it, by    *)
(* the decoder of its scheme alone.                                          *)
AuthExact ==
    LET types == RegisterAll(<<ED25519ID, SECP256R1ID, BLSID>>) IN
    /\ \A a \in Auths : ParseAuth(types, AuthBytes(a)) = {a}
    /\ \A b \in UpTo(MaxSample) : \A a \in ParseAuth(types, b) : AuthBytes(a) = b

(* A transfer and a result are read back; bytes that are read as a transfer  *)
(* begin with its own, and may go on: the actions of a transaction keep the  *)
(* bytes that were signed.                                                   *)
TransferExact ==
    /\ \A t \in Transfers : UnmarshalTransfer(TransferBytes(t)) = {t}
    /\ \A b \in UpTo(MaxSample) : \A t \in UnmarshalTransfer(b) : IsPrefix(TransferBytes(t), b)
    /\ \A r \in [sender : Ints, receiver : Ints] :
            UnmarshalTransferResult(TransferResultBytes(r)) = {r}

(* An address is read back whatever the variable held, and text is read as   *)
(* an address only with its checksum; a text that is too short leaves the    *)
(* end of the variable and one that is too long is cut ("copies the minimum",*)
(* codec/address.go:51), which ToAddress refuses.                            *)
TextExact ==
    /\ \A a, old \in Addresses : ReadAddress(old, EncodeWithChecksum(a)) = {a}
    /\ \A text \in Texts, old \in Addresses : \A a \in ReadAddress(old, text) :
            LET b == Front(text.digits) IN
            /\ Last(text.digits) = Checksum(b)
            /\ ToAddress(b) = {} \/ ToAddress(b) = {a}
            /\ IsPrefix(b, a) \/ IsPrefix(a, b)
    /\ \A text \in Texts, n \in 0 .. AddressLen : \A b \in LoadHex(text, n) : Len(b) = n

DimensionsExact ==
    /\ \A d \in [1 .. FeeDimensions -> Ints] : UnpackDimensions(DimensionsBytes(d)) = {d}
    /\ \A b \in UpTo(MaxSample) : \A d \in UnpackDimensions(b) : DimensionsBytes(d) = b

TypedExact == TypesOnce /\ AuthExact /\ TransferExact /\ TextExact /\ DimensionsExact
===============================================================================
