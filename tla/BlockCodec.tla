---------------------------- MODULE BlockCodec ----------------------------
(***************************************************************************)
(* The binary form of a block template (blocktemplate/): writing, reading, *)
(* and what monerod writes (external).  A blob is a sequence of bytes.     *)
(*                                                                         *)
(* A reader is what is left of the blob.  Reading from it gives a record   *)
(* with the value and the new reader, or Failed for an error; the          *)
(* functions of the code stop at the first error, so a reading that        *)
(* continues a failed one has failed.                                      *)
(***************************************************************************)
EXTENDS Integers, SequencesExt

CONSTANTS
    Base,           \* values of the seven bits of a varint byte (128)
    U32Len,         \* bytes of a uint32 (4)
    W64,            \* values of a uint64 (2^64)
    HashLen         \* CRYPTOHASHSIZE (32)

ASSUME CodecAssumption ==
    /\ Base \in Nat \ {0, 1} /\ U32Len \in Nat \ {0} /\ HashLen \in Nat \ {0}
    /\ W64 \in Nat \ {0}

W8 == 2 * Base
PowerOfW8(k) == LET power[i \in 0 .. k] == IF i = 0 THEN 1 ELSE W8 * power[i - 1] IN power[k]
W32 == PowerOfW8(U32Len)
PubKeyLen == HashLen + 1

-----------------------------------------------------------------------------
(* Writing *)

(* Seven bits a byte, the lowest first, with the eighth set in all but the *)
(* last.                                                                   *)
PackVarInt[n \in Nat] ==
    IF n < Base THEN <<n>> ELSE <<(n % Base) + Base>> \o PackVarInt[n \div Base]

(* packU32: little endian *)
packU32(n) == [i \in 1 .. U32Len |-> (n \div PowerOfW8(i - 1)) % W8]

PackHeader(b) ==
    PackVarInt[b.major] \o PackVarInt[b.minor] \o PackVarInt[b.timestamp]
        \o b.prevId \o packU32(b.nonce)

PackTxOut(out) == PackVarInt[out.amount] \o out.pubKey \o out.viewTag

(* The whole block, given its miner transaction's inputs in binary form *)
PackWith(b, vin) ==
    PackHeader(b)
        \o PackVarInt[b.version] \o PackVarInt[b.unlockTime]
        \o PackVarInt[Len(b.vin)] \o vin
        \o PackVarInt[Len(b.vout)] \o FlattenSeq([i \in DOMAIN b.vout |-> PackTxOut(b.vout[i])])
        \o PackVarInt[Len(b.extra)] \o b.extra
        \o PackVarInt[b.rctSigType]
        \o PackVarInt[Len(b.txHashes)] \o FlattenSeq(b.txHashes)

PackBlock(b) == PackWith(b, FlattenSeq([i \in DOMAIN b.vin |-> PackVarInt[b.vin[i]]]))

PackHashingBlob(b) == PackHeader(b) \o b.treeRootHash \o PackVarInt[b.txHashSize]

(* What monerod writes: an input of a miner transaction is a height, with  *)
(* a tag that only the other kinds of transactions make necessary.  (The   *)
(* tag of an output is the first byte of pubKey.)                          *)
TxInTag == W8 - 1
Wire(b) == PackWith(b, FlattenSeq([i \in DOMAIN b.vin |-> <<TxInTag>> \o PackVarInt[b.vin[i]]]))

-----------------------------------------------------------------------------
(* Reading *)

Got(val, rest) == [ok |-> TRUE, val |-> val, rest |-> rest]
Failed == [ok |-> FALSE, val |-> 0, rest |-> <<>>]

(* bytes.Buffer.Read fills as much of the array as there is, and is an     *)
(* error only if there is nothing at all.                                  *)
Read(buf, n) ==
    IF n > 0 /\ buf = <<>> THEN Failed
    ELSE Got([i \in 1 .. n |-> IF i =< Len(buf) THEN buf[i] ELSE 0],
             SubSeq(buf, n + 1, Len(buf)))

(* The number with these digits, the lowest first *)
Value(digits, base) ==
    LET value[i \in 0 .. Len(digits)] ==
            IF i = 0 THEN 0 ELSE digits[Len(digits) + 1 - i] + base * value[i - 1]
    IN  value[Len(digits)]

UnpackU32(buf) ==
    LET r == Read(buf, U32Len) IN
    IF r.ok THEN Got(Value(r.val, W8), r.rest) ELSE Failed

(* UnPackVarInt, converted to an integer type with w values *)
VarIntEnds_Inclusive(buf) == {i \in DOMAIN buf : buf[i] =< Base}
VarIntEnds(buf) == {i \in DOMAIN buf : buf[i] < Base}
VarIntValue(groups) == Value([i \in DOMAIN groups |-> groups[i] % Base], Base) % W64
UnPackVarInt(buf, w) ==
    LET ends == VarIntEnds(buf)
        len == Min(ends)
    IN  IF ends = {} THEN Failed
        ELSE Got(VarIntValue(SubSeq(buf, 1, len)) % w, SubSeq(buf, len + 1, Len(buf)))

(* A struct with the field f of reading r, a slice with the next item      *)
With(struct, f, r) ==
    IF struct.ok /\ r.ok
    THEN Got([g \in DOMAIN struct.val \cup {f} |-> IF g = f THEN r.val ELSE struct.val[g]], r.rest)
    ELSE Failed
Item(slice, r) ==
    IF slice.ok /\ r.ok THEN Got(Append(slice.val, r.val), r.rest) ELSE Failed

(* ... where Unpack reads them *)
Field(struct, f, Unpack(_)) == With(struct, f, Unpack(struct.rest))
VarInt(struct, f, w) == With(struct, f, UnPackVarInt(struct.rest, w))
Bytes(struct, f, n) == With(struct, f, Read(struct.rest, n))

(* As many items as the count that was read says *)
Items(n, Unpack(_)) ==
    LET slice[k \in 0 .. n.val] ==
            IF k > 0 THEN Item(slice[k - 1], Unpack(slice[k - 1].rest))
            ELSE IF n.ok THEN Got(<<>>, n.rest) ELSE Failed
    IN  slice[n.val]

UnpackVersions(buf) == VarInt(VarInt(Got(<<>>, buf), "major", W8), "minor", W8)
UnpackHeader(buf) ==
    Field(Bytes(VarInt(UnpackVersions(buf), "timestamp", W64), "prevId", HashLen),
          "nonce", UnpackU32)

(* TxInGen knows no tag. *)
UnpackTxIn(buf) == UnPackVarInt(buf, W32)
UnpackTxOut(buf) ==
    Bytes(Bytes(VarInt(Got(<<>>, buf), "amount", W64), "pubKey", PubKeyLen), "viewTag", 1)
UnpackTxHash(buf) == Read(buf, HashLen)

UnpackVin(buf) == Items(UnPackVarInt(buf, W64), UnpackTxIn)
UnpackVout(buf) == Items(UnPackVarInt(buf, W64), UnpackTxOut)
UnpackTxHashes(buf) == Items(UnPackVarInt(buf, W64), UnpackTxHash)
ReadCounted(n) == IF n.ok THEN Read(n.rest, n.val) ELSE Failed
UnpackExtra(buf) == ReadCounted(UnPackVarInt(buf, W64))

UnpackPrefix(header) ==
    Field(Field(VarInt(VarInt(header, "version", W64), "unlockTime", W64),
                "vin", UnpackVin), "vout", UnpackVout)
UnpackMinerTx(header) ==
    VarInt(Field(UnpackPrefix(header), "extra", UnpackExtra), "rctSigType", W8)

UnpackBlock(buf) == Field(UnpackMinerTx(UnpackHeader(buf)), "txHashes", UnpackTxHashes)

UnpackHashingBlob(buf) ==
    VarInt(Bytes(UnpackHeader(buf), "treeRootHash", HashLen), "txHashSize", W64)
=============================================================================
