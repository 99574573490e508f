------------------------------ MODULE Storage ------------------------------
(***************************************************************************)
(* The Redis data of the pool and the transactions that change it          *)
(* (storage/redis.go).  One operator per MULTI/EXEC block or per single    *)
(* command outside one: Redis applies each of them atomically.             *)
(*                                                                         *)
(* Statistics that only the web front end reads (hashrate series, finders, *)
(* lastShare, stats) are left out.                                         *)
(***************************************************************************)
EXTENDS Daemon, Rewards, Faults

CONSTANTS
    Shares,         \* proofs of work that are shares but not blocks
    ShareDiff,      \* difficulty of the port: what one share is worth
    PowWindow,      \* heights that checkPoWExist keeps (3 in the code)
    Word,           \* 2^64: heights are uint64 in checkPoWExist
    NoHash,         \* the empty string
    ZeroHash        \* "0x0"

ASSUME StorageAssumption ==
    /\ Shares \cap Blocks = {}
    /\ ShareDiff \in Nat \ {0}
    /\ PowWindow \in Nat
    /\ Word \in Nat \ {0}
    /\ NoHash \notin AnyBlock /\ ZeroHash \notin AnyBlock /\ NoHash # ZeroHash

VARIABLES
    pow,                \* zset pow: score of a proof of work, 0 if absent
    roundCurrent,       \* hash shares:roundCurrent
    rounds,             \* hashes shares:round<height>:<nonce>
    candidates,         \* zset blocks:candidates
    immature,           \* zset blocks:immature
    matured,            \* zset blocks:matured
    creditsImmature,    \* hashes credits:immature:<height>:<hash>
    credits,            \* hashes credits:<height>:<hash>
    minerImmature,      \* field immature of the hashes miners:<login>
    minerBalance,       \* field balance of the hashes miners:<login>
    finances,           \* hash finances
    work,               \* history: total difficulty of the shares credited
    claimedAt           \* history: height at which a proof of work was last new

blockVars  == <<candidates, immature, matured>>
shareVars  == <<pow, roundCurrent, rounds, work, claimedAt>>
moneyVars  == <<creditsImmature, credits, minerImmature, minerBalance, finances>>
storageVars == <<blockVars, shareVars, moneyVars>>

PoWs == Shares \cup Blocks
Hashes == AnyBlock \cup {NoHash, ZeroHash}
RoundKeys == Heights \X Nonces
CreditKeys == Heights \X Hashes

NoShares == [l \in Logins |-> 0]
NoCredits == [a \in Accounts |-> 0]

(* What Redis stores of a block, in any of the three sets.  The member of  *)
(* the set is a string made of these fields; id stands for the part that   *)
(* identifies the block (nonce, extra nonces and timestamp).               *)
BlockData == [id : Blocks, height : Heights, total : Nat \ {0},
              hash : Hashes, orphan : BOOLEAN, reward : Nat]

Candidate(b, h, total) ==
    [id |-> b, height |-> h, total |-> total,
     hash |-> NoHash, orphan |-> FALSE, reward |-> 0]

(* formatRound *)
FormatRound_NoNonce(h, b) == <<h, CHOOSE n \in Nonces : TRUE>>
FormatRound(h, b) == <<h, NonceOf[b]>>
RoundKey(block) == FormatRound(block.height, block.id)

(* BlockData.key(), with serializeHash *)
Key_RawHash(block) == block
Key(block) == [block EXCEPT !.hash = IF @ = NoHash THEN ZeroHash ELSE @]

StorageInit ==
    /\ pow = [p \in PoWs |-> 0]
    /\ roundCurrent = NoShares
    /\ rounds = [k \in RoundKeys |-> NoShares]
    /\ candidates = {} /\ immature = {} /\ matured = {}
    /\ creditsImmature = [k \in CreditKeys |-> NoCredits]
    /\ credits = [k \in CreditKeys |-> NoCredits]
    /\ minerImmature = NoCredits
    /\ minerBalance = NoCredits
    /\ finances = [immature |-> 0, balance |-> 0, totalMined |-> 0]
    /\ work = 0
    /\ claimedAt = [p \in PoWs |-> 0]

ShareTypeOK ==
    /\ pow \in [PoWs -> Heights \cup {0}]
    /\ claimedAt \in [PoWs -> Heights \cup {0}]
    /\ work \in Nat
    /\ roundCurrent \in [Logins -> Nat]
    /\ rounds \in [RoundKeys -> [Logins -> Nat]]

BlockTypeOK ==
    /\ candidates \subseteq BlockData
    /\ immature \subseteq {b \in BlockData : b.hash # NoHash}
    /\ matured \subseteq {b \in BlockData : b.hash # NoHash}

MoneyTypeOK ==
    /\ creditsImmature \in [CreditKeys -> [Accounts -> Nat]]
    /\ credits \in [CreditKeys -> [Accounts -> Nat]]
    /\ minerImmature \in [Accounts -> Int]
    /\ minerBalance \in [Accounts -> Int]
    /\ finances \in [immature : Int, balance : Int, totalMined : Int]

StorageTypeOK == ShareTypeOK /\ BlockTypeOK /\ MoneyTypeOK

(* A command or transaction tx sent to Redis: done if it succeeds, failed  *)
(* if the caller sees an error, whether tx was applied or not.             *)
Send(tx, done, failed) ==
    \/ tx /\ done /\ UNCHANGED faults
    \/ Fault("refused") /\ UNCHANGED storageVars /\ failed
    \/ Fault("noreply") /\ tx /\ failed

-----------------------------------------------------------------------------
(* Shares and candidates *)

(* The lower end of the window checkPoWExist keeps, in uint64 arithmetic. *)
PruneBelow_OffByOne(h) == (h - PowWindow + 1) % Word
PruneBelow(h) == (h - PowWindow) % Word

(* checkPoWExist, first command: ZREMRANGEBYSCORE pow -inf (height-3 *)
PrunePow(h) ==
    /\ pow' = [p \in PoWs |-> IF pow[p] < PruneBelow(h) THEN 0 ELSE pow[p]]
    /\ UNCHANGED <<roundCurrent, rounds, work, claimedAt, blockVars, moneyVars>>

(* checkPoWExist, second command: ZADD pow, which moves the score of a     *)
(* member that exists.  The proof of work is new if it was absent.         *)
PowExists(p) == pow[p] # 0

AddPow(p, h) ==
    /\ pow' = [pow EXCEPT ![p] = h]
    /\ claimedAt' = IF PowExists(p) THEN claimedAt ELSE [claimedAt EXCEPT ![p] = h]
    /\ UNCHANGED <<roundCurrent, rounds, work, blockVars, moneyVars>>

(* writeShare: HINCRBY shares:roundCurrent *)
WithShare(l) == [roundCurrent EXCEPT ![l] = @ + ShareDiff]

(* The transaction of WriteShare *)
WriteShareTx(l) ==
    /\ roundCurrent' = WithShare(l)
    /\ work' = work + ShareDiff
    /\ UNCHANGED <<pow, claimedAt, rounds, blockVars, moneyVars>>

(* The transaction of WriteBlock: the share that is the block, then RENAME *)
(* of roundCurrent to the round of the block.                              *)
AfterRename_Copy(l) == WithShare(l)
AfterRename(l) == NoShares

WriteBlockTx(l, b, h) ==
    /\ rounds' = [rounds EXCEPT ![FormatRound(h, b)] = WithShare(l)]
    /\ roundCurrent' = AfterRename(l)
    /\ work' = work + ShareDiff
    /\ UNCHANGED <<pow, claimedAt, blockVars, moneyVars>>

(* The last command of WriteBlock, outside the transaction: ZADD           *)
(* blocks:candidates with the total counted from the answer of EXEC.       *)
AddCandidate(b, h, total) ==
    /\ candidates' = candidates \cup {Candidate(b, h, total)}
    /\ UNCHANGED <<immature, matured, shareVars, moneyVars>>

-----------------------------------------------------------------------------
(* Blocks.  An item pairs the stored member that was read (candidateKey or *)
(* immatureKey) with the block data as the unlocker left it.               *)

Item == [key : BlockData, data : BlockData]

(* Height and RoundHeight are both the score of the member that was read,  *)
(* so the RENAME in writeImmatureBlock never happens.                      *)
WriteImmatureBlocks_ByHeight(items) ==
    /\ candidates' = {c \in candidates : \A i \in items : c.height # i.key.height}
    /\ immature' = immature \cup {Key(i.data) : i \in items}
WriteImmatureBlocks_NoRem(items) ==
    /\ candidates' = candidates
    /\ immature' = immature \cup {Key(i.data) : i \in items}
WriteImmatureBlocks(items) ==
    /\ candidates' = candidates \ {i.key : i \in items}
    /\ immature' = immature \cup {Key(i.data) : i \in items}

WriteMaturedBlocks_NoRem(item) ==
    /\ rounds' = [rounds EXCEPT ![RoundKey(item.data)] = NoShares]
    /\ immature' = immature
    /\ matured' = matured \cup {Key(item.data)}
WriteMaturedBlocks(item) ==
    /\ rounds' = [rounds EXCEPT ![RoundKey(item.data)] = NoShares]
    /\ immature' = immature \ {item.key}
    /\ matured' = matured \cup {Key(item.data)}

Plus(f, g) == [a \in DOMAIN f |-> f[a] + g[a]]
Minus(f, g) == [a \in DOMAIN f |-> f[a] - g[a]]

(* HSETNX of every field.  An amount of 0 is an absent field here. *)
SetNX(log, amounts) == [a \in Accounts |-> IF log[a] = 0 THEN amounts[a] ELSE log[a]]

CreditKey(block) == <<block.height, block.hash>>

WritePendingOrphans(items) ==
    /\ WriteImmatureBlocks(items)
    /\ UNCHANGED <<matured, shareVars, moneyVars>>

WriteImmatureBlock(item, amounts) ==
    /\ WriteImmatureBlocks({item})
    /\ minerImmature' = Plus(minerImmature, amounts)
    /\ creditsImmature' = [creditsImmature EXCEPT ![CreditKey(item.data)] = SetNX(@, amounts)]
    /\ finances' = [finances EXCEPT !.immature = @ + SumFunction(amounts)]
    /\ UNCHANGED <<matured, shareVars, credits, minerBalance>>

(* Decrement the immature balances by the log: what HGETALL of the credit  *)
(* key returned, the entry itself or nothing if the command failed.        *)
Decremented_Not(log) == minerImmature
Decremented(log) == Minus(minerImmature, log)

WriteMaturedBlock(item, amounts, log) ==
    /\ WriteMaturedBlocks(item)
    /\ minerImmature' = Decremented(log)
    /\ minerBalance' = Plus(minerBalance, amounts)
    /\ credits' = [credits EXCEPT ![CreditKey(item.data)] = SetNX(@, amounts)]
    /\ creditsImmature' = [creditsImmature EXCEPT ![CreditKey(item.data)] = NoCredits]
    /\ finances' = [immature |-> finances.immature - SumFunction(log),
                    balance |-> finances.balance + SumFunction(amounts),
                    totalMined |-> finances.totalMined + item.data.reward]
    /\ UNCHANGED <<candidates, pow, roundCurrent, work, claimedAt>>

(* WriteOrphan, with the same argument log. *)
WriteOrphan(item, log) ==
    /\ WriteMaturedBlocks(item)
    /\ minerImmature' = Decremented(log)
    /\ creditsImmature' = [creditsImmature EXCEPT ![CreditKey(item.data)] = NoCredits]
    /\ finances' = [finances EXCEPT !.immature = @ - SumFunction(log)]
    /\ UNCHANGED <<candidates, pow, roundCurrent, work, claimedAt, credits, minerBalance>>
=============================================================================
