------------------------------ MODULE Unlocker ------------------------------
(***************************************************************************)
(* The block unlocker (payouts/unlocker.go): one goroutine that moves      *)
(* candidates to the immature set (unlockPendingBlocks) and immature       *)
(* blocks to the matured set (unlockAndCreditMiners), in turn, for ever.   *)
(* Every call to monerod or Redis is a step.                               *)
(***************************************************************************)
EXTENDS Storage

CONSTANTS
    Depth,          \* confirmations before a block is final
    ImmatureDepth   \* confirmations before a candidate is looked at

ASSUME UnlockerAssumption ==
    /\ Depth \in Nat /\ ImmatureDepth \in Nat
    /\ 1 =< ImmatureDepth /\ ImmatureDepth =< Depth

VARIABLES
    proc,           \* "up", or why the process died
    stage,          \* which of the two passes is running
    upc,            \* the next call of the pass
    maxHeight,      \* blocks up to this height are looked at
    todo,           \* candidates whose header has not been read
    maturedBlocks,  \* UnlockResult.maturedBlocks not yet written
    orphanedBlocks, \* UnlockResult.orphanedBlocks not yet written
    rewards,        \* roundRewards of the block to be written
    halt,           \* last pass failed
    counter         \* "halt recover counter"

passVars == <<stage, upc, maxHeight, todo, maturedBlocks, orphanedBlocks, rewards>>
unlockerVars == <<proc, passVars, halt, counter>>

UnlockerInit ==
    /\ proc = "up"
    /\ stage = "pending"
    /\ upc = "begin"
    /\ maxHeight = 0
    /\ todo = {} /\ maturedBlocks = {} /\ orphanedBlocks = {}
    /\ rewards = NoCredits
    /\ halt = FALSE
    /\ counter = 0

UnlockerTypeOK ==
    /\ proc \in {"up", "killed", "nilResult", "nilTx"}
    /\ stage \in {"pending", "credit"}
    /\ upc \in {"begin", "count", "fetch", "check", "orphans", "reward", "write"}
    /\ maxHeight \in Int
    /\ todo \subseteq Item
    /\ maturedBlocks \subseteq Item
    /\ orphanedBlocks \subseteq Item
    /\ rewards \in [Accounts -> Nat]
    /\ halt \in BOOLEAN
    /\ counter \in Nat

Other(st) == IF st = "pending" THEN "credit" ELSE "pending"

(* An empty pass of the given kind is next. *)
StartPass(st) ==
    /\ stage' = st
    /\ upc' = "begin"
    /\ maxHeight' = 0
    /\ todo' = {} /\ maturedBlocks' = {} /\ orphanedBlocks' = {}
    /\ rewards' = NoCredits

(* The pass returns and the other one is next. *)
EndPass == StartPass(Other(stage))

(* halt = true; return *)
Fail == halt' = TRUE /\ EndPass

(* A nil pointer is dereferenced in a goroutine that does not recover. *)
Panic(cause) == proc' = cause /\ UNCHANGED <<passVars, halt, counter>>

(* The lists are in the order of the sets they were read from. *)
First(items) == CHOOSE i \in items : \A j \in items : i.key.height =< j.key.height

-----------------------------------------------------------------------------
(* The check of halt at the head of both passes.  counter is never 1 or 2: *)
(* only this test increments it, and it is never reached while it is 0.    *)
Suspended == halt /\ counter % 3 # 0

BeginPass_NoRecover ==
    /\ upc = "begin"
    /\ IF halt THEN EndPass
               ELSE upc' = "count" /\ UNCHANGED <<stage, maxHeight, todo, maturedBlocks,
                                                 orphanedBlocks, rewards>>
    /\ UNCHANGED <<proc, halt, counter, storageVars, faults>>
BeginPass ==
    /\ upc = "begin"
    /\ IF Suspended
       THEN counter' = counter + 1 /\ EndPass /\ UNCHANGED halt
       ELSE /\ halt' = FALSE /\ upc' = "count"
            /\ UNCHANGED <<counter, stage, maxHeight, todo, maturedBlocks, orphanedBlocks,
                           rewards>>
    /\ UNCHANGED <<proc, storageVars, faults>>

DepthOf(st) == IF st = "pending" THEN ImmatureDepth ELSE Depth

(* GetBlockCount, and the height it allows *)
UpToHeight_OffByOne(st) == BlockCount - DepthOf(st) + 1
UpToHeight(st) == BlockCount - DepthOf(st)

GetBlockCount ==
    /\ upc = "count"
    /\ \/ /\ maxHeight' = UpToHeight(stage)
          /\ upc' = "fetch"
          /\ UNCHANGED <<stage, todo, maturedBlocks, orphanedBlocks, rewards, halt, faults>>
       \/ Fault("rpc") /\ Fail
    /\ UNCHANGED <<proc, counter, storageVars>>

(* GetCandidates or GetImmatureBlocks: ZRANGEBYSCORE 0 maxHeight *)
(* convertBlockResults does not restore Reward, which handleBlock sets. *)
Convert_KeepsReward(block) == [key |-> block, data |-> block]
Convert(block) == [key |-> block, data |-> [block EXCEPT !.reward = 0]]
Source(st) == IF st = "pending" THEN candidates ELSE immature

FetchBlocks ==
    LET found == {b \in Source(stage) : b.height =< maxHeight} IN
    /\ upc = "fetch"
    /\ \/ /\ IF found = {} THEN EndPass
             ELSE /\ todo' = {Convert(b) : b \in found}
                  /\ upc' = "check"
                  /\ UNCHANGED <<stage, maxHeight, maturedBlocks, orphanedBlocks, rewards>>
          /\ UNCHANGED <<halt, faults>>
       \/ Fault("refused") /\ Fail
    /\ UNCHANGED <<proc, counter, storageVars>>

-----------------------------------------------------------------------------
(* unlockCandidates, one header at a time *)

Reward == IF KeepTxFees THEN CoinBase ELSE CoinBase + TxFee
ExtraReward == IF KeepTxFees THEN TxFee ELSE 0

(* handleBlock *)
HandleBlock(block) ==
    [block EXCEPT !.orphan = FALSE, !.hash = HeaderHash(block.height), !.reward = Reward]

NonceMatches(block) == NonceOf[block.id] = HeaderNonce(block.height)
RewardMatches(block) == CoinBase + TxFee = HeaderReward(block.height)

Checked(item) ==
    /\ upc = "check"
    /\ item = First(todo)
    /\ todo' = todo \ {item}
    /\ upc' = IF todo = {item} THEN "orphans" ELSE "check"

(* The block is on the chain. *)
CheckMatched(item) ==
    /\ Checked(item)
    /\ NonceMatches(item.data) /\ RewardMatches(item.data)
    /\ maturedBlocks' = maturedBlocks \cup {[item EXCEPT !.data = HandleBlock(@)]}
    /\ UNCHANGED <<proc, stage, maxHeight, orphanedBlocks, rewards, halt, counter,
                   storageVars, faults>>

(* Another block has its place. *)
CheckOrphaned(item) ==
    /\ Checked(item)
    /\ ~NonceMatches(item.data)
    /\ orphanedBlocks' = orphanedBlocks \cup {[item EXCEPT !.data.orphan = TRUE]}
    /\ UNCHANGED <<proc, stage, maxHeight, maturedBlocks, rewards, halt, counter,
                   storageVars, faults>>

(* The reward differs: unlockCandidates returns neither a result nor an    *)
(* error (err is nil at that point), and its caller reads result.blocks.   *)
CheckMismatch(item) ==
    /\ upc = "check"
    /\ item = First(todo)
    /\ NonceMatches(item.data) /\ ~RewardMatches(item.data)
    /\ Panic("nilResult")
    /\ UNCHANGED <<storageVars, faults>>

(* GetBlockHeaderByHeight fails: the results so far are dropped. *)
CheckFails ==
    /\ upc = "check"
    /\ Fault("rpc")
    /\ Fail
    /\ UNCHANGED <<proc, counter, storageVars>>

-----------------------------------------------------------------------------
(* WritePendingOrphans: one transaction, and no command if there are none. *)
PendingOrphans ==
    LET done == /\ orphanedBlocks' = {} /\ upc' = "reward"
                /\ UNCHANGED <<stage, maxHeight, todo, maturedBlocks, rewards, halt>>
    IN
    /\ upc = "orphans" /\ stage = "pending"
    /\ IF orphanedBlocks = {}
       THEN done /\ UNCHANGED <<storageVars, faults>>
       ELSE Send(WritePendingOrphans(orphanedBlocks), done, Fail)
    /\ UNCHANGED <<proc, counter>>

(* WATCH, HGETALL of the immature credits and EXEC.  A failed WATCH leaves *)
(* no transaction, on which HGETALL is called before the error is looked   *)
(* at; a failed HGETALL is taken for an empty log.                         *)
Settle(tx(_), item, done) ==
    \/ /\ \/ Send(tx(creditsImmature[CreditKey(item.data)]), done, Fail)
          \/ Fault("read") /\ tx(NoCredits) /\ done
       /\ UNCHANGED <<proc, counter>>
    \/ Fault("watch") /\ Panic("nilTx") /\ UNCHANGED storageVars

(* WriteOrphan for the next orphaned block *)
CreditOrphan(item) ==
    LET tx(log) == WriteOrphan(item, log)
        done == /\ orphanedBlocks' = orphanedBlocks \ {item}
                /\ UNCHANGED <<stage, upc, maxHeight, todo, maturedBlocks, rewards, halt>>
    IN
    /\ upc = "orphans" /\ stage = "credit" /\ orphanedBlocks # {}
    /\ item = First(orphanedBlocks)
    /\ Settle(tx, item, done)

CreditOrphansDone ==
    /\ upc = "orphans" /\ stage = "credit" /\ orphanedBlocks = {}
    /\ upc' = "reward"
    /\ UNCHANGED <<proc, stage, maxHeight, todo, maturedBlocks, orphanedBlocks, rewards,
                   halt, counter, storageVars, faults>>

(* calculateRewards, with GetRoundShares, for the next matured block *)
RewardBlock(item) ==
    /\ upc = "reward" /\ maturedBlocks # {}
    /\ item = First(maturedBlocks)
    /\ \/ /\ rewards' = CalculateRewards(rounds[RoundKey(item.data)], item.data.total,
                                         item.data.reward, ExtraReward)
          /\ upc' = "write"
          /\ UNCHANGED <<stage, maxHeight, todo, maturedBlocks, orphanedBlocks, halt, faults>>
       \/ Fault("refused") /\ Fail
    /\ UNCHANGED <<proc, counter, storageVars>>

Written(item) ==
    /\ maturedBlocks' = maturedBlocks \ {item}
    /\ upc' = "reward"
    /\ rewards' = NoCredits
    /\ UNCHANGED <<stage, maxHeight, todo, orphanedBlocks, halt>>

(* WriteImmatureBlock *)
WritePending(item) ==
    /\ upc = "write" /\ stage = "pending" /\ item = First(maturedBlocks)
    /\ Send(WriteImmatureBlock(item, rewards), Written(item), Fail)
    /\ UNCHANGED <<proc, counter>>

(* WriteMaturedBlock *)
WriteCredit(item) ==
    LET tx(log) == WriteMaturedBlock(item, rewards, log) IN
    /\ upc = "write" /\ stage = "credit" /\ item = First(maturedBlocks)
    /\ Settle(tx, item, Written(item))

BlocksDone ==
    /\ upc = "reward" /\ maturedBlocks = {}
    /\ EndPass
    /\ UNCHANGED <<proc, halt, counter, storageVars, faults>>

UnlockerNext ==
    \/ BeginPass \/ GetBlockCount \/ FetchBlocks \/ CheckFails
    \/ \E item \in todo :
          CheckMatched(item) \/ CheckOrphaned(item) \/ CheckMismatch(item)
    \/ PendingOrphans \/ CreditOrphansDone \/ BlocksDone
    \/ \E item \in orphanedBlocks : CreditOrphan(item)
    \/ \E item \in maturedBlocks :
          RewardBlock(item) \/ WritePending(item) \/ WriteCredit(item)
=============================================================================
