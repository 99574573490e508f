----------------------------- MODULE Templates -----------------------------
(***************************************************************************)
(* How the bytes of a block template become jobs and blocks: what          *)
(* fetchBlockTemplate stores of an answer (stratum/blocks.go), the blob a  *)
(* job is (nextBlob), and the block processShare puts together from a      *)
(* miner's nonce, hashes and submits (stratum/miner.go).  The module       *)
(* Stratum has the interleavings of these operations, Writer what happens  *)
(* after them; here each is one step and the bytes are what they are.      *)
(***************************************************************************)
EXTENDS BlockCodec, Targets, Faults

CONSTANTS
    Prevs, Timestamps, Heights, Amounts,    \* of the blocks monerod builds
    TimestampLen,   \* bytes of such a timestamp as a varint (5)
    TxCounts,       \* how many transactions they have
    MinerNonces,    \* nonces miners find
    Hash(_),        \* the hash of what ConvertBlob makes of a block (external)
    BlockDifficulty,\* difficulty of the templates
    InstanceId,     \* endpoint.instanceId
    Difficulty,     \* endpoint.difficulty
    MaxJobs         \* bound: jobs handed out

ASSUME TemplatesAssumption ==
    /\ \A p \in Prevs : p \in [1 .. HashLen -> 0 .. W8 - 1]
    /\ \A t \in Timestamps : t \in 0 .. W64 - 1 /\ Len(PackVarInt[t]) = TimestampLen
    /\ \A h \in Heights : h \in Nat \ {0} /\ Base * (h + 1) =< W32
    /\ \A a \in Amounts : a \in 1 .. (W64 \div 2) - 1
    /\ MinerNonces \subseteq 0 .. W32 - 1
    /\ InstanceId \in [1 .. U32Len -> 0 .. W8 - 1]
    /\ BlockDifficulty \in Difficulties /\ Difficulty \in Difficulties
    /\ TxCounts \subseteq 0 .. W64 - 2 /\ MaxJobs \in Nat /\ TimestampLen \in Nat
    /\ W32 =< W64 /\ W8 =< W64 /\ 2 * U32Len + 1 < W64

VARIABLES
    offer,          \* the block monerod builds now, and its reward (external)
    template,       \* s.blockTemplate
    jobs,           \* the jobs miners have, in the order of their extraNonce
    share           \* the last share that reached processShare

vars == <<offer, template, jobs, share, faults>>

None == [prevHash |-> <<>>]
NoShare == [buffer |-> <<>>]

-----------------------------------------------------------------------------
(* monerod.  The blocks it builds have version numbers below Base, a       *)
(* timestamp that takes two bytes (five, in seconds since 1970) and one    *)
(* output.  Their extra field ends with the bytes the pool asked for.      *)

Reserved == 2 * U32Len
TxPubKey == <<1>>
Zeros(n) == [i \in 1 .. n |-> 0]

Block(prev, timestamp, height, amount, txs) ==
    [major |-> 1, minor |-> 1, timestamp |-> timestamp, prevId |-> prev, nonce |-> 0,
     version |-> 2, unlockTime |-> height + 1, vin |-> <<height>>,
     vout |-> <<[amount |-> amount, pubKey |-> [i \in 1 .. PubKeyLen |-> TxInTag],
                 viewTag |-> <<Base>>]>>,
     extra |-> TxPubKey \o Zeros(Reserved), rctSigType |-> 0,
     txHashes |-> [i \in 1 .. txs |-> [j \in 1 .. HashLen |-> i]]]

(* The answer of get_block_template but for its blob, which is Wire of the *)
(* block                                                                   *)
Offers ==
    {[block |-> Block(prev, timestamp, height, amount, txs), expectedReward |-> amount + more] :
        prev \in Prevs, timestamp \in Timestamps, height \in Heights, amount \in Amounts,
        txs \in TxCounts, more \in {-1, 0, 1}}

Height(b) == b.vin[1]

(* Counted from 0, as in the code *)
ReservedOffset(b) ==
    Len(Wire([b EXCEPT !.txHashes = <<>>])) - Len(PackVarInt[b.rctSigType] \o PackVarInt[0])
        - Reserved

(* A block that others found, or one in place of it *)
NewTip(prev, height) ==
    /\ prev # offer.block.prevId
    /\ offer' = [offer EXCEPT !.block = [@ EXCEPT !.prevId = prev, !.vin = <<height>>]]
    /\ UNCHANGED <<template, jobs, share, faults>>

-----------------------------------------------------------------------------
(* fetchBlockTemplate *)

Int64(n) == IF n < W64 \div 2 THEN n ELSE n - W64

IsNews == template.prevHash # offer.block.prevId

(* What is in the buffer: hex.DecodeString returns the bytes before the    *)
(* first digit it cannot read, and its error is ignored.                   *)
Decoded(buffer) ==
    \/ buffer = Wire(offer.block) /\ UNCHANGED faults
    \/ buffer \in Prefixes(Wire(offer.block)) /\ buffer # Wire(offer.block) /\ Fault("hex")

BlockReward(b) == Int64(b.vout[1].amount)

Accepts_Unchecked(r) == r.ok /\ Len(r.val.vout) >= 1
Accepts(r) ==
    /\ r.ok
    /\ Len(r.val.vout) >= 1
    /\ offer.expectedReward >= BlockReward(r.val)

(* The field "from" is history: what monerod offered. *)
Stored(buffer, b) ==
    [buffer |-> buffer, height |-> Height(offer.block), prevHash |-> offer.block.prevId,
     reservedOffset |-> ReservedOffset(offer.block), blockReward |-> BlockReward(b),
     txTotalFee |-> offer.expectedReward - BlockReward(b), from |-> offer]

Fetch ==
    /\ IsNews
    /\ \E buffer \in Prefixes(Wire(offer.block)) :
          LET r == UnpackBlock(buffer) IN
          /\ Decoded(buffer)
          /\ template' = IF Accepts(r) THEN Stored(buffer, r.val) ELSE template
    /\ UNCHANGED <<offer, jobs, share>>

-----------------------------------------------------------------------------
(* Jobs and shares *)

(* copy(dst[at:], src) *)
Copy(dst, at, src) ==
    [i \in DOMAIN dst |-> IF i - at \in DOMAIN src THEN src[i - at] ELSE dst[i]]

BigEndian(n) == Reverse(packU32(n))

(* nextBlob and processShare: 4 bytes extraNonce, 4 bytes instanceId *)
WithReserved(t, extraNonce) ==
    Copy(Copy(t.buffer, t.reservedOffset, BigEndian(extraNonce)),
         t.reservedOffset + U32Len, InstanceId)

(* processShare: shareBuff[39:], the place of the nonce so long as both    *)
(* versions have one byte and the timestamp has five                       *)
NonceOffset_OffByOne == 1 + 1 + TimestampLen + HashLen - 1
NonceOffset == 1 + 1 + TimestampLen + HashLen
ShareBuff_NoInstanceId(t, extraNonce, nonce) ==
    Copy(Copy(t.buffer, t.reservedOffset, BigEndian(extraNonce)), NonceOffset, packU32(nonce))
ShareBuff(t, extraNonce, nonce) == Copy(WithReserved(t, extraNonce), NonceOffset, packU32(nonce))

(* ConvertBlob (external): the header, the root of a tree of hashes, here  *)
(* what it is the root of, and the number of its leaves.  The code makes   *)
(* room for 76 bytes, in which the number has one, and gets zeros for what *)
(* monerod cannot parse.                                                   *)
Whole(buffer, r) == r.ok /\ PackBlock(r.val) = buffer

HashingBlobOf(buffer, headerLen, txs) ==
    [header |-> SubSeq(buffer, 1, headerLen),
     root |-> SubSeq(buffer, headerLen + 1, Len(buffer)), leaves |-> PackVarInt[txs + 1]]
HashingBlob(buffer, b) == HashingBlobOf(buffer, Len(PackHeader(b)), Len(b.txHashes))

NoBlob == [header |-> Zeros(NonceOffset + U32Len), root |-> <<>>, leaves |-> <<0>>]

Converted_NoLeaves(buffer, r) ==
    IF Whole(buffer, r) THEN [HashingBlob(buffer, r.val) EXCEPT !.leaves = <<0>>] ELSE NoBlob
Converted(buffer, r) ==
    IF Whole(buffer, r) THEN [HashingBlob(buffer, r.val) EXCEPT !.leaves = SubSeq(@, 1, 1)]
    ELSE NoBlob
ConvertBlob(buffer) == Converted(buffer, UnpackBlock(buffer))

(* getJob with the current template.  The field "of" is history. *)
NextJob ==
    LET extraNonce == (Len(jobs) + 1) % W32 IN
    [extraNonce |-> extraNonce, height |-> template.height, target |-> TargetOf(Difficulty),
     blob |-> ConvertBlob(WithReserved(template, extraNonce)), of |-> template]

GetJob ==
    /\ template # None
    /\ Len(jobs) < MaxJobs
    /\ jobs' = Append(jobs, NextJob)
    /\ UNCHANGED <<offer, template, share, faults>>

(* A miner (external) puts its nonce at the end of the header and hashes.  *)
Mined(job, nonce) ==
    [job.blob EXCEPT !.header = SubSeq(@, 1, Len(@) - U32Len) \o packU32(nonce)]

(* handleSubmitRPC and processShare, for a share that is not stale: the    *)
(* hash of what the current template gives must be the miner's, and good   *)
(* enough.  Hashes are equal only if what is hashed is.                    *)
ShareOf(job, nonce, buffer, blob, hash) ==
    LET ok == blob = Mined(job, nonce) IN
    [buffer |-> buffer, blob |-> blob, hash |-> hash, ok |-> ok,
     verdict |-> IF ok THEN Verdict(hash, BlockDifficulty, Difficulty) ELSE "bad",
     job |-> job, nonce |-> nonce, by |-> template]

Submit(job, nonce) ==
    /\ template # None /\ template.height = job.height
    /\ \E buffer \in {ShareBuff(template, job.extraNonce, nonce)} :
          \E blob \in {ConvertBlob(buffer)} :
              share' = ShareOf(job, nonce, buffer, blob, Hash(blob))
    /\ UNCHANGED <<offer, template, jobs, faults>>

-----------------------------------------------------------------------------

Init ==
    /\ offer \in Offers
    /\ template = None
    /\ jobs = <<>>
    /\ share = NoShare
    /\ FaultsInit

Next ==
    \/ \E prev \in Prevs, height \in Heights : NewTip(prev, height)
    \/ Fetch
    \/ GetJob
    \/ \E i \in DOMAIN jobs, nonce \in MinerNonces : Submit(jobs[i], nonce)

Spec == Init /\ [][Next]_vars

-----------------------------------------------------------------------------
(* The reading r of a blob is whole and writes the same blob again. *)
ReadBack(r, blob, Pack(_)) == r.ok /\ r.rest = <<>> /\ Pack(r.val) = blob

Hashing(b) ==
    [major |-> b.major, minor |-> b.minor, timestamp |-> b.timestamp, prevId |-> b.prevId,
     nonce |-> b.nonce, treeRootHash |-> b.prevId, txHashSize |-> Len(b.txHashes) + 1]

(* Every block monerod can offer is read to its end, and writing it again  *)
(* gives the same bytes, although TxInGen takes the tag of the input for   *)
(* the lowest bits of the height.  The same holds of hashing blobs.  (What *)
(* the tests of the package print for one blob each.)                      *)
Repacks ==
    /\ \E blob \in {Wire(offer.block)} : ReadBack(UnpackBlock(blob), blob, PackBlock)
    /\ \E blob \in {PackHashingBlob(Hashing(offer.block))} :
          ReadBack(UnpackHashingBlob(blob), blob, PackHashingBlob)

(* Whatever was stored, from a whole answer or from one cut short, has the *)
(* reward of monerod's block, and the fees are the rest of what monerod    *)
(* expects: a blob cut before the end of the outputs is never stored.      *)
RewardRead ==
    template # None =>
        /\ template.blockReward = template.from.block.vout[1].amount
        /\ template.txTotalFee = template.from.expectedReward - template.blockReward
        /\ template.txTotalFee >= 0

Uncut(t) == t.buffer = Wire(t.from.block)

(* The block that is submitted is the one monerod offered, with the nonce  *)
(* of the miner and the extra nonce of its job in their places: writing    *)
(* into the template at fixed offsets changes nothing else.                *)
SubmitsOfferedBlock ==
    share # NoShare /\ Uncut(share.by) =>
        share.buffer = Wire([share.by.from.block EXCEPT
            !.nonce = share.nonce,
            !.extra = TxPubKey \o BigEndian(share.job.extraNonce) \o InstanceId])

(* A share found with a job of the current template is never refused as a  *)
(* bad hash.  (After a change to another template of the same height it    *)
(* is, as only heights are compared.)                                      *)
HonestShareAccepted ==
    share # NoShare /\ share.job.of = share.by /\ Uncut(share.by) => share.ok

(* What the pool hashes is what monerod hashes to check the block, so long *)
(* as the number of leaves, one more than the transactions, takes one      *)
(* byte.                                                                   *)
HashOfBlock ==
    share # NoShare /\ Uncut(share.by)
        /\ Len(share.by.from.block.txHashes) + 1 < Base =>
            share.blob = HashingBlob(share.buffer, share.by.from.block)

(* A miner whose hash is below the target of its job, and not zero, is     *)
(* never told that its share has a low difficulty: the target is what the  *)
(* pool tests, cut to four bytes.                                          *)
TargetSufficient ==
    share # NoShare /\ share.ok =>
        (share.hash # 0 /\ MeetsTarget(share.hash, share.job.target)
            => share.verdict \in {"block", "share"})

(* The pool submits exactly the honest shares that monerod takes for       *)
(* blocks.                                                                 *)
SubmitsMonerodsBlocks ==
    share # NoShare /\ share.ok =>
        (share.verdict = "block"
            <=> share.hash # 0 /\ MonerodAccepts(share.hash, BlockDifficulty))
=============================================================================
