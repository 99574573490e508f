----------------------------- MODULE PoolProofs -----------------------------
(***************************************************************************)
(* Theorems about Pool, for every value of its constants: its types, the   *)
(* two safety properties of a block's life (it is in one set at a time,    *)
(* and it is credited if and only if it stays on the chain), and what the  *)
(* sessions and Redis remember of a submission.                            *)
(***************************************************************************)
EXTENDS Pool, SumTheorems

-----------------------------------------------------------------------------
(* Lemmas about the operators *)

LEMMA AccountsFinite == IsFiniteSet(Accounts)
<1>1. IsFiniteSet(Logins)
  BY RewardsAssumption
<1>2. IsFiniteSet(FeeAccounts)
  BY FS_EmptySet, FS_Singleton DEF FeeAccounts
<1>3. QED
  BY <1>1, <1>2, FS_Union DEF Accounts

LEMMA ProductNat == ASSUME NEW a \in Nat, NEW b \in Nat PROVE a * b \in Nat
OBVIOUS

LEMMA RoundRatNat ==
    ASSUME NEW a \in Nat, NEW b \in Nat \ {0}
    PROVE  RoundRat(a, b) \in Nat
BY DEF RoundRat

(* What calculateRewards returns for a round of natural shares and a       *)
(* positive total is a natural amount per account.                         *)
LEMMA CalculateRewardsType ==
    ASSUME NEW shares \in [Logins -> Nat], NEW total \in Nat \ {0},
           NEW reward \in Nat, NEW extra \in Nat
    PROVE  CalculateRewards(shares, total, reward, extra) \in [Accounts -> Nat]
<1>1. /\ FeeDen \in Nat \ {0} /\ FeeNum \in Nat /\ FeeDen - FeeNum \in Nat
  BY RewardsAssumption
<1>2. MinersProfit(reward) \in Nat /\ PoolProfit(reward) \in Nat /\ extra * FeeDen \in Nat
  BY <1>1, ProductNat DEF MinersProfit, PoolProfit
<1>3. ASSUME NEW l \in Logins
      PROVE  RewardForShares(shares[l], total, MinersProfit(reward)) \in Nat
  <2>1. MinersProfit(reward) * shares[l] \in Nat
    BY <1>2, ProductNat
  <2>2. FeeDen * total \in Nat \ {0}
    BY <1>1
  <2>3. QED
    BY <2>1, <2>2, RoundRatNat DEF RewardForShares
<1>4. RoundRat(PoolProfit(reward) + extra * FeeDen, FeeDen) \in Nat
  <2>1. PoolProfit(reward) + extra * FeeDen \in Nat
    BY <1>2
  <2>2. QED
    BY <1>1, <2>1, RoundRatNat
<1>5. QED
  BY <1>3, <1>4 DEF CalculateRewards

USE DEF Heights, AnyBlock

-----------------------------------------------------------------------------
(* Every transaction keeps the types of the Redis data. *)

LEMMA WithShareType ==
    ASSUME ShareTypeOK, NEW l \in Logins
    PROVE  /\ WithShare(l) \in [Logins -> Nat]
           /\ SumFunction(WithShare(l)) \in Nat \ {0}
<1>1. WithShare(l) \in [Logins -> Nat] /\ WithShare(l)[l] > 0
  BY StorageAssumption DEF ShareTypeOK, WithShare
<1>2. SumFunction(WithShare(l)) \in Nat /\ WithShare(l)[l] =< SumFunction(WithShare(l))
  BY <1>1, RewardsAssumption, SumFunctionNat, SumFunctionBound
<1>3. QED
  BY <1>1, <1>2

LEMMA FormatRoundType ==
    ASSUME NEW h \in Heights, NEW b \in Blocks
    PROVE  FormatRound(h, b) \in RoundKeys
BY DaemonAssumption DEF FormatRound, RoundKeys

LEMMA ShareTxTypes ==
    ASSUME StorageTypeOK, NEW l \in Logins, NEW h \in Heights
    PROVE  /\ PrunePow(h) => StorageTypeOK'
           /\ \A p \in PoWs : AddPow(p, h) => StorageTypeOK'
           /\ WriteShareTx(l) => StorageTypeOK'
           /\ \A b \in Blocks : WriteBlockTx(l, b, h) => StorageTypeOK'
           /\ \A b \in Blocks, total \in Nat \ {0} : AddCandidate(b, h, total) => StorageTypeOK'
<1> USE DEF StorageTypeOK, blockVars, shareVars, moneyVars
<1>1. PrunePow(h) => StorageTypeOK'
  BY DEF PrunePow, ShareTypeOK, BlockTypeOK, MoneyTypeOK
<1>2. ASSUME NEW p \in PoWs, AddPow(p, h)
      PROVE  StorageTypeOK'
  BY <1>2 DEF AddPow, ShareTypeOK, BlockTypeOK, MoneyTypeOK
<1>3. WriteShareTx(l) => StorageTypeOK'
  BY WithShareType, StorageAssumption DEF WriteShareTx, ShareTypeOK, BlockTypeOK, MoneyTypeOK
<1>4. ASSUME NEW b \in Blocks, WriteBlockTx(l, b, h)
      PROVE  StorageTypeOK'
  <2>1. FormatRound(h, b) \in RoundKeys
    BY FormatRoundType
  <2>2. QED
    BY <1>4, <2>1, WithShareType, StorageAssumption
       DEF WriteBlockTx, AfterRename, NoShares, ShareTypeOK, BlockTypeOK, MoneyTypeOK
<1>5. ASSUME NEW b \in Blocks, NEW total \in Nat \ {0}, AddCandidate(b, h, total)
      PROVE  StorageTypeOK'
  <2>1. Candidate(b, h, total) \in BlockData
    BY DEF Candidate, BlockData, Hashes
  <2>2. QED
    BY <1>5, <2>1 DEF AddCandidate, ShareTypeOK, BlockTypeOK, MoneyTypeOK
<1>6. QED
  BY <1>1, <1>2, <1>3, <1>4, <1>5

LEMMA KeyType ==
    ASSUME NEW d \in BlockData
    PROVE  /\ Key(d) \in BlockData
           /\ Key(d).hash # NoHash
           /\ Key(d).id = d.id /\ Key(d).height = d.height /\ Key(d).orphan = d.orphan
BY StorageAssumption DEF Key, BlockData, Hashes

LEMMA BlockTxTypes ==
    ASSUME StorageTypeOK, NEW item \in Item,
           NEW amounts \in [Accounts -> Nat], NEW log \in [Accounts -> Nat]
    PROVE  /\ WriteImmatureBlock(item, amounts) => StorageTypeOK'
           /\ WriteMaturedBlock(item, amounts, log) => StorageTypeOK'
           /\ WriteOrphan(item, log) => StorageTypeOK'
           /\ \A items \in SUBSET Item : WritePendingOrphans(items) => StorageTypeOK'
<1> USE DEF StorageTypeOK, blockVars, shareVars, moneyVars
<1>1. SumFunction(amounts) \in Nat /\ SumFunction(log) \in Nat
  BY AccountsFinite, SumFunctionNat
<1>2. /\ item.data \in BlockData /\ Key(item.data) \in BlockData
      /\ Key(item.data).hash # NoHash /\ item.data.reward \in Nat
      /\ CreditKey(item.data) \in CreditKeys
      /\ RoundKey(item.data) \in RoundKeys
  BY KeyType, FormatRoundType DEF Item, BlockData, CreditKey, CreditKeys, RoundKey
<1>3. ASSUME NEW items \in SUBSET Item, WriteImmatureBlocks(items), UNCHANGED matured
      PROVE  BlockTypeOK'
  <2>1. \A i \in items : Key(i.data) \in BlockData /\ Key(i.data).hash # NoHash
    BY KeyType DEF Item
  <2>2. QED
    BY <1>3, <2>1 DEF WriteImmatureBlocks, BlockTypeOK
<1>4. WriteImmatureBlock(item, amounts) => StorageTypeOK'
  <2>1. SUFFICES ASSUME WriteImmatureBlock(item, amounts) PROVE StorageTypeOK'
    OBVIOUS
  <2>2. BlockTypeOK'
    BY <1>3, <2>1 DEF WriteImmatureBlock
  <2>3. MoneyTypeOK'
    BY <1>1, <1>2, <2>1 DEF WriteImmatureBlock, MoneyTypeOK, Plus, SetNX
  <2>4. QED
    BY <2>1, <2>2, <2>3 DEF WriteImmatureBlock, ShareTypeOK
<1>5. ASSUME NEW items \in SUBSET Item, WritePendingOrphans(items)
      PROVE  StorageTypeOK'
  BY <1>3, <1>5 DEF WritePendingOrphans, ShareTypeOK, MoneyTypeOK
<1>6. ASSUME WriteMaturedBlocks(item), UNCHANGED <<candidates, pow, roundCurrent, work, claimedAt>>
      PROVE  BlockTypeOK' /\ ShareTypeOK'
  BY <1>2, <1>6 DEF WriteMaturedBlocks, BlockTypeOK, ShareTypeOK, NoShares
<1>7. WriteMaturedBlock(item, amounts, log) => StorageTypeOK'
  <2>1. SUFFICES ASSUME WriteMaturedBlock(item, amounts, log) PROVE StorageTypeOK'
    OBVIOUS
  <2>2. BlockTypeOK' /\ ShareTypeOK'
    BY <1>6, <2>1 DEF WriteMaturedBlock
  <2>3. MoneyTypeOK'
    BY <1>1, <1>2, <2>1
       DEF WriteMaturedBlock, MoneyTypeOK, Plus, Minus, Decremented, SetNX, NoCredits
  <2>4. QED
    BY <2>2, <2>3
<1>8. WriteOrphan(item, log) => StorageTypeOK'
  <2>1. SUFFICES ASSUME WriteOrphan(item, log) PROVE StorageTypeOK'
    OBVIOUS
  <2>2. BlockTypeOK' /\ ShareTypeOK'
    BY <1>6, <2>1 DEF WriteOrphan
  <2>3. MoneyTypeOK'
    BY <1>1, <1>2, <2>1 DEF WriteOrphan, MoneyTypeOK, Minus, Decremented, NoCredits
  <2>4. QED
    BY <2>2, <2>3
<1>9. QED
  BY <1>4, <1>5, <1>7, <1>8

-----------------------------------------------------------------------------
(* Type correctness *)

LEMMA FaultType ==
    ASSUME faults \in 0 .. MaxFaults, UNCHANGED faults \/ \E kind \in FaultKinds : Fault(kind)
    PROVE  faults' \in 0 .. MaxFaults
BY FaultsAssumption DEF Fault

LEMMA InitType == Init => TypeOK
<1> SUFFICES ASSUME Init PROVE TypeOK
  OBVIOUS
<1> USE DEF Init
<1>1. DaemonTypeOK
  BY DaemonAssumption DEF DaemonInit, DaemonTypeOK
<1>2. StorageTypeOK
  BY DEF StorageInit, StorageTypeOK, ShareTypeOK, BlockTypeOK, MoneyTypeOK, NoShares, NoCredits
<1>3. WriterTypeOK
  BY DEF WriterInit, WriterTypeOK
<1>4. UnlockerTypeOK
  <2>1. halt \in BOOLEAN
    BY Zenon DEF UnlockerInit
  <2>2. QED
    BY <2>1 DEF UnlockerInit, UnlockerTypeOK, NoCredits
<1>5. QED
  BY <1>1, <1>2, <1>3, <1>4, FaultsAssumption DEF FaultsInit, TypeOK

LEMMA AcceptBlockType ==
    ASSUME DaemonTypeOK, NEW b \in Blocks, NEW h, AcceptBlock(b, h)
    PROVE  DaemonTypeOK' /\ h \in Heights
BY DEF AcceptBlock, DaemonTypeOK

LEMMA NewBlocksType ==
    ASSUME DaemonTypeOK, NEW k \in 0 .. MaxReorg, NewBlocks(k)
    PROVE  DaemonTypeOK'
BY DaemonAssumption DEF NewBlocks, DaemonTypeOK

(* Send leaves typed data typed if its transaction does. *)
LEMMA SessionStepType ==
    ASSUME TypeOK, SessionStep
    PROVE  TypeOK'
<1> USE DEF TypeOK
<1>0. PICK s \in Sessions :
        \/ \E p \in Shares, l \in Logins, h \in {tip, tip + 1} : SubmitShare(s, p, l, h)
        \/ \E b \in Blocks, l \in Logins, h \in {tip, tip + 1} : SubmitBlock(s, b, l, h)
        \/ WriterStep(s)
  BY DEF SessionStep, WriterNext
<1>1. UnlockerTypeOK'
  BY DEF SessionStep, UnlockerTypeOK, unlockerVars, passVars
<1>2. CASE \E p \in Shares, l \in Logins, h \in {tip, tip + 1} : SubmitShare(s, p, l, h)
  <2>1. PICK p \in Shares, l \in Logins, h \in {tip, tip + 1} : SubmitShare(s, p, l, h)
    BY <1>2
  <2>2. Submit(p, l, h) \in Submission
    BY <2>1 DEF SubmitShare, Submit, Submission, PoWs
  <2>3. WriterTypeOK'
    BY <2>1, <2>2 DEF SubmitShare, WriterTypeOK
  <2>4. QED
    BY <1>1, <2>1, <2>3 DEF SubmitShare, DaemonTypeOK, daemonVars, StorageTypeOK, storageVars,
       ShareTypeOK, shareVars, BlockTypeOK, blockVars, MoneyTypeOK, moneyVars
<1>3. CASE \E b \in Blocks, l \in Logins, h \in {tip, tip + 1} : SubmitBlock(s, b, l, h)
  <2>1. PICK b \in Blocks, l \in Logins, h \in {tip, tip + 1} : SubmitBlock(s, b, l, h)
    BY <1>3
  <2>2. DaemonTypeOK' /\ h \in Heights
    BY <2>1, AcceptBlockType DEF SubmitBlock
  <2>3. Submit(b, l, h) \in Submission
    BY <2>2 DEF Submit, Submission, PoWs
  <2>4. WriterTypeOK'
    BY <2>1, <2>3 DEF SubmitBlock, WriterTypeOK
  <2>5. faults' \in 0 .. MaxFaults
    BY <2>1, FaultType DEF SubmitBlock, Fault
  <2>6. QED
    BY <1>1, <2>1, <2>2, <2>4, <2>5 DEF SubmitBlock, StorageTypeOK, storageVars,
       ShareTypeOK, shareVars, BlockTypeOK, blockVars, MoneyTypeOK, moneyVars
<1>4. CASE WriterStep(s)
  <2>0. /\ writers[s] \in {Idle} \cup Submission
        /\ DaemonTypeOK'
        /\ UNCHANGED storageVars => StorageTypeOK'
    BY <1>4 DEF WriterTypeOK, WriterStep, Prune, CheckPoWExist, ExecShare, ExecBlock,
       InsertCandidate, DaemonTypeOK, daemonVars, StorageTypeOK, storageVars,
       ShareTypeOK, shareVars, BlockTypeOK, blockVars, MoneyTypeOK, moneyVars
  <2>1. CASE Prune(s)
    <3>1. /\ writers[s] \in Submission
          /\ writers[s].login \in Logins /\ writers[s].height \in Heights
      BY <2>0, <2>1 DEF Prune, Idle, Submission
    <3>2. WriterTypeOK'
      BY <2>1, <3>1 DEF Prune, Goto, WriterTypeOK, Submission
    <3>3. StorageTypeOK'
      BY <2>0, <2>1, <3>1, ShareTxTypes DEF Prune
    <3>4. faults' \in 0 .. MaxFaults
      <4>1. UNCHANGED faults \/ \E kind \in FaultKinds : Fault(kind)
        BY <2>1 DEF Prune, Fault
      <4>2. QED
        BY <4>1, FaultType
    <3>5. QED
      BY <1>1, <2>0, <3>2, <3>3, <3>4
  <2>2. CASE CheckPoWExist(s)
    <3>1. /\ writers[s] \in Submission /\ writers[s].pow \in PoWs
          /\ writers[s].login \in Logins /\ writers[s].height \in Heights
      BY <2>0, <2>2 DEF CheckPoWExist, Idle, Submission, PoWs
    <3>2. Goto(s, "exec") \/ Finish(s)
      BY <2>2 DEF CheckPoWExist, Send
    <3>3. WriterTypeOK'
      BY <2>2, <3>1, <3>2 DEF CheckPoWExist, Goto, Finish, WriterTypeOK, Submission
    <3>4. StorageTypeOK'
      BY <2>0, <2>2, <3>1, ShareTxTypes DEF CheckPoWExist, Send
    <3>5. faults' \in 0 .. MaxFaults
      <4>1. UNCHANGED faults \/ \E kind \in FaultKinds : Fault(kind)
        BY <2>2 DEF CheckPoWExist, Send, Fault
      <4>2. QED
        BY <4>1, FaultType
    <3>6. QED
      BY <1>1, <2>0, <3>3, <3>4, <3>5
  <2>3. CASE ExecShare(s)
    <3>1. writers[s].login \in Logins
      BY <2>0, <2>3 DEF ExecShare, Idle, Submission
    <3>2. WriterTypeOK'
      BY <2>3 DEF ExecShare, Send, Finish, WriterTypeOK
    <3>3. StorageTypeOK'
      BY <2>0, <2>3, <3>1, ShareTxTypes, DaemonAssumption DEF ExecShare, Send
    <3>4. faults' \in 0 .. MaxFaults
      <4>1. UNCHANGED faults \/ \E kind \in FaultKinds : Fault(kind)
        BY <2>3 DEF ExecShare, Send, Fault
      <4>2. QED
        BY <4>1, FaultType
    <3>5. QED
      BY <1>1, <2>0, <3>2, <3>3, <3>4
  <2>4. CASE ExecBlock(s)
    <3>1. /\ writers[s] \in Submission
          /\ writers[s].login \in Logins /\ writers[s].height \in Heights
      BY <2>0, <2>4 DEF ExecBlock, Idle, Submission
    <3>2. SumFunction(WithShare(writers[s].login)) \in Nat \ {0}
      BY <3>1, WithShareType DEF StorageTypeOK
    <3>3. WriterTypeOK'
      <4>1. \/ Finish(s)
            \/ writers' = [writers EXCEPT ![s].pc = "candidate",
                               ![s].total = SumFunction(WithShare(writers[s].login))]
        BY <2>4 DEF ExecBlock, Send
      <4>2. QED
        BY <2>4, <3>1, <3>2, <4>1 DEF ExecBlock, Finish, WriterTypeOK, Submission
    <3>4. StorageTypeOK'
      BY <2>0, <2>4, <3>1, ShareTxTypes DEF ExecBlock, Send
    <3>5. faults' \in 0 .. MaxFaults
      <4>1. UNCHANGED faults \/ \E kind \in FaultKinds : Fault(kind)
        BY <2>4 DEF ExecBlock, Send, Fault
      <4>2. QED
        BY <4>1, FaultType
    <3>6. QED
      BY <1>1, <2>0, <3>3, <3>4, <3>5
  <2>5. CASE InsertCandidate(s)
    <3>1. /\ writers[s].pow \in Blocks /\ writers[s].login \in Logins
          /\ writers[s].height \in Heights /\ writers[s].total \in Nat \ {0}
      BY <2>0, <2>5 DEF InsertCandidate, Idle, Submission
    <3>2. WriterTypeOK'
      BY <2>5 DEF InsertCandidate, Send, Finish, WriterTypeOK
    <3>3. StorageTypeOK'
      BY <2>0, <2>5, <3>1, ShareTxTypes DEF InsertCandidate, Send
    <3>4. faults' \in 0 .. MaxFaults
      <4>1. UNCHANGED faults \/ \E kind \in FaultKinds : Fault(kind)
        BY <2>5 DEF InsertCandidate, Send, Fault
      <4>2. QED
        BY <4>1, FaultType
    <3>5. QED
      BY <1>1, <2>0, <3>2, <3>3, <3>4
  <2>6. QED
    BY <1>4, <2>1, <2>2, <2>3, <2>4, <2>5 DEF WriterStep
<1>5. QED
  BY <1>0, <1>2, <1>3, <1>4

LEMMA StartPassType ==
    ASSUME UnlockerTypeOK, NEW st \in {"pending", "credit"}, StartPass(st),
           proc' \in {"up", "killed", "nilResult", "nilTx"}, halt' \in BOOLEAN, counter' \in Nat
    PROVE  UnlockerTypeOK'
BY DEF StartPass, UnlockerTypeOK, NoCredits

LEMMA FailType ==
    ASSUME UnlockerTypeOK, Fail, UNCHANGED <<proc, counter>>
    PROVE  UnlockerTypeOK'
<1>1. halt' \in BOOLEAN
  BY Zenon DEF Fail
<1>2. Other(stage) \in {"pending", "credit"} /\ StartPass(Other(stage))
  BY DEF Fail, EndPass, Other
<1>3. proc' \in {"up", "killed", "nilResult", "nilTx"} /\ counter' \in Nat
  BY DEF UnlockerTypeOK
<1>4. QED
  BY <1>1, <1>2, <1>3, StartPassType

LEMMA EndPassType ==
    ASSUME UnlockerTypeOK, EndPass, UNCHANGED <<proc, halt>>, counter' \in Nat
    PROVE  UnlockerTypeOK'
<1>1. Other(stage) \in {"pending", "credit"} /\ StartPass(Other(stage))
  BY DEF EndPass, Other
<1>2. proc' \in {"up", "killed", "nilResult", "nilTx"} /\ halt' \in BOOLEAN
  BY DEF UnlockerTypeOK
<1>3. QED
  BY <1>1, <1>2, StartPassType

LEMMA PanicType ==
    ASSUME UnlockerTypeOK, NEW cause \in {"nilResult", "nilTx"}, Panic(cause)
    PROVE  UnlockerTypeOK'
BY DEF Panic, UnlockerTypeOK, passVars

LEMMA HandleBlockType ==
    ASSUME DaemonTypeOK, NEW d \in BlockData
    PROVE  /\ HandleBlock(d) \in BlockData
           /\ HandleBlock(d).id = d.id /\ HandleBlock(d).height = d.height
           /\ HandleBlock(d).orphan = FALSE
<1>1. Reward \in Nat
  BY DaemonAssumption DEF Reward
<1>2. d.height \in Heights /\ HeaderHash(d.height) \in Hashes
  BY DEF HeaderHash, BlockData, Hashes, DaemonTypeOK
<1>3. HandleBlock(d) \in BlockData
  BY <1>1, <1>2 DEF HandleBlock, BlockData
<1>4. /\ HandleBlock(d).id = d.id /\ HandleBlock(d).height = d.height
      /\ HandleBlock(d).orphan = FALSE
  BY DEF HandleBlock, BlockData
<1>5. QED
  BY <1>3, <1>4

(* Reading, checking and rewarding leave Redis alone. *)
LEMMA StorageUnchangedType ==
    ASSUME StorageTypeOK, UNCHANGED storageVars
    PROVE  StorageTypeOK'
BY DEF StorageTypeOK, storageVars, ShareTypeOK, shareVars, BlockTypeOK, blockVars,
       MoneyTypeOK, moneyVars

LEMMA UnlockerStepType ==
    ASSUME TypeOK, UnlockerStep
    PROVE  TypeOK'
<1> USE DEF TypeOK
<1>1. DaemonTypeOK' /\ WriterTypeOK'
  BY DEF UnlockerStep, DaemonTypeOK, daemonVars, WriterTypeOK
<1>2. SUFFICES UnlockerTypeOK' /\ StorageTypeOK' /\ faults' \in 0 .. MaxFaults
  BY <1>1
<1>3. CASE BeginPass
  <2>1. StorageTypeOK' /\ faults' \in 0 .. MaxFaults
    BY <1>3, StorageUnchangedType DEF BeginPass
  <2>2. CASE Suspended
    <3>1. counter' = counter + 1 /\ EndPass /\ UNCHANGED <<proc, halt>>
      BY <1>3, <2>2 DEF BeginPass
    <3>2. counter' \in Nat
      BY <3>1 DEF UnlockerTypeOK
    <3>3. QED
      BY <2>1, <3>1, <3>2, EndPassType
  <2>3. CASE ~Suspended
    <3>1. /\ halt' = FALSE /\ upc' = "count"
          /\ UNCHANGED <<proc, counter, stage, maxHeight, todo, maturedBlocks, orphanedBlocks,
                         rewards>>
      BY <1>3, <2>3 DEF BeginPass
    <3>2. halt' \in BOOLEAN
      BY <3>1, Zenon
    <3>3. QED
      BY <2>1, <3>1, <3>2 DEF UnlockerTypeOK
  <2>4. QED
    BY <2>2, <2>3
<1>4. CASE GetBlockCount
  <2>1. StorageTypeOK'
    BY <1>4, StorageUnchangedType DEF GetBlockCount
  <2>2. UNCHANGED faults \/ \E kind \in FaultKinds : Fault(kind)
    BY <1>4 DEF GetBlockCount, Fault
  <2>3. UpToHeight(stage) \in Int
    BY UnlockerAssumption DEF UpToHeight, BlockCount, DepthOf, DaemonTypeOK
  <2>4. UnlockerTypeOK'
    BY <1>4, <2>3, FailType DEF GetBlockCount, UnlockerTypeOK
  <2>5. QED
    BY <2>1, <2>2, <2>4, FaultType
<1>5. CASE FetchBlocks
  <2> DEFINE found == {b \in Source(stage) : b.height =< maxHeight}
  <2>1. StorageTypeOK'
    BY <1>5, StorageUnchangedType DEF FetchBlocks
  <2>2. UNCHANGED faults \/ \E kind \in FaultKinds : Fault(kind)
    BY <1>5 DEF FetchBlocks, Fault
  <2>3. {Convert(b) : b \in found} \subseteq Item
    BY DEF Source, Convert, Item, BlockData, StorageTypeOK, BlockTypeOK
  <2>4. \/ Fail /\ UNCHANGED <<proc, counter>>
        \/ EndPass /\ UNCHANGED <<proc, halt, counter>>
        \/ /\ todo' = {Convert(b) : b \in found} /\ upc' = "check"
           /\ UNCHANGED <<proc, halt, counter, stage, maxHeight, maturedBlocks, orphanedBlocks,
                          rewards>>
    BY <1>5 DEF FetchBlocks
  <2>5. UnlockerTypeOK'
    <3>1. CASE Fail /\ UNCHANGED <<proc, counter>>
      BY <3>1, FailType
    <3>2. CASE EndPass /\ UNCHANGED <<proc, halt, counter>>
      <4>1. counter' \in Nat
        BY <3>2 DEF UnlockerTypeOK
      <4>2. QED
        BY <3>2, <4>1, EndPassType
    <3>3. CASE /\ todo' = {Convert(b) : b \in found} /\ upc' = "check"
               /\ UNCHANGED <<proc, halt, counter, stage, maxHeight, maturedBlocks,
                              orphanedBlocks, rewards>>
      BY <2>3, <3>3 DEF UnlockerTypeOK
    <3>4. QED
      BY <2>4, <3>1, <3>2, <3>3
  <2>6. QED
    BY <2>1, <2>2, <2>5, FaultType
<1>6. CASE CheckFails
  <2>1. StorageTypeOK' /\ UnlockerTypeOK'
    BY <1>6, StorageUnchangedType, FailType DEF CheckFails
  <2>2. \E kind \in FaultKinds : Fault(kind)
    BY <1>6 DEF CheckFails, Fault
  <2>3. QED
    BY <2>1, <2>2, FaultType
<1>7. ASSUME NEW item \in todo, CheckMatched(item)
      PROVE  UnlockerTypeOK' /\ StorageTypeOK' /\ faults' \in 0 .. MaxFaults
  <2>1. StorageTypeOK' /\ faults' \in 0 .. MaxFaults
    BY <1>7, StorageUnchangedType DEF CheckMatched
  <2>2. item \in Item /\ item.data \in BlockData
    BY DEF UnlockerTypeOK, Item
  <2>3. [item EXCEPT !.data = HandleBlock(@)] \in Item
    BY <2>2, HandleBlockType DEF Item
  <2>4. QED
    BY <1>7, <2>1, <2>3 DEF CheckMatched, Checked, UnlockerTypeOK
<1>8. ASSUME NEW item \in todo, CheckOrphaned(item)
      PROVE  UnlockerTypeOK' /\ StorageTypeOK' /\ faults' \in 0 .. MaxFaults
  <2>1. StorageTypeOK' /\ faults' \in 0 .. MaxFaults
    BY <1>8, StorageUnchangedType DEF CheckOrphaned
  <2>2. item \in Item /\ item.data \in BlockData
    BY DEF UnlockerTypeOK, Item
  <2>3. [item EXCEPT !.data.orphan = TRUE] \in Item
    BY <2>2 DEF Item, BlockData
  <2>4. QED
    BY <1>8, <2>1, <2>3 DEF CheckOrphaned, Checked, UnlockerTypeOK
<1>9. ASSUME NEW item \in todo, CheckMismatch(item)
      PROVE  UnlockerTypeOK' /\ StorageTypeOK' /\ faults' \in 0 .. MaxFaults
  BY <1>9, StorageUnchangedType, PanicType DEF CheckMismatch
<1>10. CASE PendingOrphans
  <2>1. UNCHANGED faults \/ \E kind \in FaultKinds : Fault(kind)
    BY <1>10 DEF PendingOrphans, Send, Fault
  <2>2. StorageTypeOK'
    <3>1. UNCHANGED storageVars \/ WritePendingOrphans(orphanedBlocks)
      BY <1>10 DEF PendingOrphans, Send
    <3>2. orphanedBlocks \in SUBSET Item
      BY DEF UnlockerTypeOK
    <3>3. CASE orphanedBlocks = {}
      BY <1>10, <3>3, StorageUnchangedType DEF PendingOrphans
    <3>4. ASSUME NEW item \in orphanedBlocks
          PROVE  StorageTypeOK'
      <4>1. NoCredits \in [Accounts -> Nat]
        BY DEF NoCredits
      <4>2. QED
        BY <3>1, <3>2, <3>4, <4>1, StorageUnchangedType, BlockTxTypes
    <3>5. QED
      BY <3>3, <3>4
  <2>3. UnlockerTypeOK'
    <3>1. \/ Fail
          \/ /\ orphanedBlocks' = {} /\ upc' = "reward"
             /\ UNCHANGED <<stage, maxHeight, todo, maturedBlocks, rewards, halt>>
      BY <1>10 DEF PendingOrphans, Send
    <3>2. UNCHANGED <<proc, counter>>
      BY <1>10 DEF PendingOrphans
    <3>3. QED
      BY <3>1, <3>2, FailType DEF UnlockerTypeOK
  <2>4. QED
    BY <2>1, <2>2, <2>3, FaultType
<1>11. CASE CreditOrphansDone
  BY <1>11, StorageUnchangedType DEF CreditOrphansDone, UnlockerTypeOK
<1>12. CASE BlocksDone
  <2>1. counter' \in Nat /\ EndPass /\ UNCHANGED <<proc, halt, storageVars, faults>>
    BY <1>12 DEF BlocksDone, UnlockerTypeOK
  <2>2. QED
    BY <2>1, StorageUnchangedType, EndPassType
<1>13. ASSUME NEW item \in orphanedBlocks, CreditOrphan(item)
       PROVE  UnlockerTypeOK' /\ StorageTypeOK' /\ faults' \in 0 .. MaxFaults
  <2>1. UNCHANGED faults \/ \E kind \in FaultKinds : Fault(kind)
    BY <1>13 DEF CreditOrphan, Settle, Send, Fault
  <2>2. /\ item \in Item /\ NoCredits \in [Accounts -> Nat]
        /\ creditsImmature[CreditKey(item.data)] \in [Accounts -> Nat]
    BY DEF UnlockerTypeOK, Item, BlockData, CreditKey, CreditKeys, NoCredits, StorageTypeOK,
       MoneyTypeOK
  <2>3. \/ UNCHANGED storageVars
        \/ WriteOrphan(item, creditsImmature[CreditKey(item.data)])
        \/ WriteOrphan(item, NoCredits)
    BY <1>13 DEF CreditOrphan, Settle, Send
  <2>4. StorageTypeOK'
    BY <2>2, <2>3, StorageUnchangedType, BlockTxTypes
  <2>5. \/ Fail /\ UNCHANGED <<proc, counter>>
        \/ Panic("nilTx")
        \/ /\ orphanedBlocks' = orphanedBlocks \ {item}
           /\ UNCHANGED <<stage, upc, maxHeight, todo, maturedBlocks, rewards, halt, proc, counter>>
    BY <1>13 DEF CreditOrphan, Settle, Send
  <2>6. UnlockerTypeOK'
    BY <2>5, FailType, PanicType DEF UnlockerTypeOK
  <2>7. QED
    BY <2>1, <2>4, <2>6, FaultType
<1>14. ASSUME NEW item \in maturedBlocks, RewardBlock(item)
       PROVE  UnlockerTypeOK' /\ StorageTypeOK' /\ faults' \in 0 .. MaxFaults
  <2>1. UNCHANGED faults \/ \E kind \in FaultKinds : Fault(kind)
    BY <1>14 DEF RewardBlock, Fault
  <2>2. StorageTypeOK'
    BY <1>14, StorageUnchangedType DEF RewardBlock
  <2>3. /\ item.data.total \in Nat \ {0} /\ item.data.reward \in Nat
        /\ RoundKey(item.data) \in RoundKeys
    BY FormatRoundType DEF UnlockerTypeOK, Item, BlockData, RoundKey
  <2>4. ExtraReward \in Nat /\ rounds[RoundKey(item.data)] \in [Logins -> Nat]
    BY <2>3, DaemonAssumption DEF ExtraReward, StorageTypeOK, ShareTypeOK
  <2>5. CalculateRewards(rounds[RoundKey(item.data)], item.data.total, item.data.reward,
                         ExtraReward) \in [Accounts -> Nat]
    BY <2>3, <2>4, CalculateRewardsType
  <2>6. UnlockerTypeOK'
    BY <1>14, <2>5, FailType DEF RewardBlock, UnlockerTypeOK
  <2>7. QED
    BY <2>1, <2>2, <2>6, FaultType
<1>15. ASSUME NEW item \in maturedBlocks, WritePending(item) \/ WriteCredit(item)
       PROVE  UnlockerTypeOK' /\ StorageTypeOK' /\ faults' \in 0 .. MaxFaults
  <2>1. UNCHANGED faults \/ \E kind \in FaultKinds : Fault(kind)
    BY <1>15 DEF WritePending, WriteCredit, Settle, Send, Fault
  <2>2. /\ item \in Item /\ NoCredits \in [Accounts -> Nat] /\ rewards \in [Accounts -> Nat]
        /\ creditsImmature[CreditKey(item.data)] \in [Accounts -> Nat]
    BY DEF UnlockerTypeOK, Item, BlockData, CreditKey, CreditKeys, NoCredits, StorageTypeOK,
       MoneyTypeOK
  <2>3. \/ UNCHANGED storageVars
        \/ WriteImmatureBlock(item, rewards)
        \/ WriteMaturedBlock(item, rewards, creditsImmature[CreditKey(item.data)])
        \/ WriteMaturedBlock(item, rewards, NoCredits)
    BY <1>15 DEF WritePending, WriteCredit, Settle, Send
  <2>4. StorageTypeOK'
    BY <2>2, <2>3, StorageUnchangedType, BlockTxTypes
  <2>5. \/ Fail /\ UNCHANGED <<proc, counter>>
        \/ Panic("nilTx")
        \/ Written(item) /\ UNCHANGED <<proc, counter>>
    BY <1>15 DEF WritePending, WriteCredit, Settle, Send
  <2>6. UnlockerTypeOK'
    BY <2>2, <2>5, FailType, PanicType DEF UnlockerTypeOK, Written
  <2>7. QED
    BY <2>1, <2>4, <2>6, FaultType
<1>16. QED
  BY <1>3, <1>4, <1>5, <1>6, <1>7, <1>8, <1>9, <1>10, <1>11, <1>12, <1>13, <1>14, <1>15
     DEF UnlockerStep, UnlockerNext

(* Type correctness: every variable, the Redis data included, keeps its    *)
(* type through every step of every session, of the unlocker and of the    *)
(* chain, failures and restarts included.                                  *)
THEOREM TypeInvariant == Spec => []TypeOK
<1>1. Init => TypeOK
  BY InitType
<1>2. TypeOK /\ [Next]_vars => TypeOK'
  <2> SUFFICES ASSUME TypeOK, [Next]_vars PROVE TypeOK'
    OBVIOUS
  <2>1. CASE SessionStep
    BY <2>1, SessionStepType
  <2>2. CASE UnlockerStep
    BY <2>2, UnlockerStepType
  <2>3. CASE ChainStep
    <3>1. DaemonTypeOK'
      BY <2>3, NewBlocksType DEF ChainStep, TypeOK
    <3>2. StorageTypeOK'
      BY <2>3, StorageUnchangedType DEF ChainStep, TypeOK
    <3>3. QED
      BY <2>3, <3>1, <3>2 DEF ChainStep, TypeOK, WriterTypeOK, UnlockerTypeOK, unlockerVars,
         passVars
  <2>4. CASE Crash
    <3>1. StorageTypeOK'
      BY <2>4, StorageUnchangedType DEF Crash, TypeOK
    <3>2. faults' \in 0 .. MaxFaults
      BY <2>4, FaultType DEF Crash, TypeOK, Fault
    <3>3. QED
      BY <2>4, <3>1, <3>2 DEF Crash, TypeOK, WriterTypeOK, UnlockerTypeOK, passVars,
         DaemonTypeOK, daemonVars
  <2>5. CASE Restart
    <3>1. StorageTypeOK'
      BY <2>5, StorageUnchangedType DEF Restart, TypeOK
    <3>2. halt' \in BOOLEAN
      BY <2>5, Zenon DEF Restart
    <3>3. proc' \in {"up", "killed", "nilResult", "nilTx"} /\ counter' \in Nat
      BY <2>5 DEF Restart
    <3>4. UnlockerTypeOK'
      BY <2>5, <3>2, <3>3, StartPassType DEF Restart, TypeOK
    <3>5. QED
      BY <2>5, <3>1, <3>4 DEF Restart, TypeOK, WriterTypeOK, DaemonTypeOK, daemonVars
  <2>6. CASE UNCHANGED vars
    <3>1. StorageTypeOK'
      BY <2>6, StorageUnchangedType DEF vars, TypeOK
    <3>2. QED
      BY <2>6, <3>1 DEF vars, TypeOK, WriterTypeOK, UnlockerTypeOK, unlockerVars, passVars,
         DaemonTypeOK, daemonVars
  <2>7. QED
    BY <2>1, <2>2, <2>3, <2>4, <2>5, <2>6 DEF Next
<1>3. QED
  BY <1>1, <1>2, PTL DEF Spec

-----------------------------------------------------------------------------
(* One stage, and finality *)

Lists == todo \cup maturedBlocks \cup orphanedBlocks

(* A block that is stored was accepted by monerod at its height. *)
StoredInv == \A x \in Stored : minedAt[x.id] = x.height

(* A block that a session is writing was accepted, is not stored yet, and  *)
(* no other session is writing it.                                         *)
WriterInv ==
    \A s \in Sessions : writers[s] # Idle /\ writers[s].pow \in Blocks =>
        /\ minedAt[writers[s].pow] = writers[s].height
        /\ \A x \in Stored : x.id # writers[s].pow
        /\ \A r \in Sessions : r # s /\ writers[r] # Idle => writers[r].pow # writers[s].pow

(* What the unlocker holds in memory it read from the set of its pass, and *)
(* every member it read is in one list only.                               *)
ListInv ==
    /\ upc \in {"begin", "count", "fetch"} => Lists = {}
    /\ \A i \in Lists : /\ i.key \in Source(stage)
                        /\ i.data.id = i.key.id /\ i.data.height = i.key.height
    /\ \A i, j \in Lists : i.key = j.key => i = j
    /\ todo \cap (maturedBlocks \cup orphanedBlocks) = {}
    /\ maturedBlocks \cap orphanedBlocks = {}

StageInv == BlockInOneStage /\ StoredInv /\ WriterInv /\ ListInv

(* Everything the credit pass looks at is deeper than any reorganisation,  *)
(* so what it has read of the chain stays true.                            *)
PassFinal ==
    stage = "credit" =>
        /\ upc = "fetch" => maxHeight + Depth =< tip + 1
        /\ \A i \in Lists : i.key.height + Depth =< tip + 1
        /\ \A i \in maturedBlocks : ~i.data.orphan /\ chain[i.key.height] = i.key.id
        /\ \A i \in orphanedBlocks : i.data.orphan /\ chain[i.key.height] # i.key.id

SetFinal ==
    /\ \A m \in matured : m.height + Depth =< tip + 1
    /\ FinalOnChain

FinalInv == SetFinal /\ PassFinal

-----------------------------------------------------------------------------
(* What the transactions do to the three sets *)

(* Moving candidates to the immature set keeps every block in one stage.   *)
LEMMA MoveToImmature ==
    ASSUME TypeOK, StageInv, stage = "pending", NEW items \in SUBSET Lists,
           WriteImmatureBlocks(items), UNCHANGED <<matured, minedAt, writers>>
    PROVE  /\ BlockInOneStage' /\ StoredInv' /\ WriterInv'
           /\ \A i \in Lists \ items : i.key \in candidates'
<1>1. ASSUME NEW i \in items
      PROVE  /\ i.key \in candidates /\ i.key.id = i.data.id /\ i.key.height = i.data.height
             /\ Key(i.data).id = i.key.id /\ Key(i.data).height = i.key.height
  <2>1. i \in Lists /\ i.data \in BlockData
    BY DEF Lists, TypeOK, UnlockerTypeOK, Item
  <2>2. QED
    BY <2>1, KeyType DEF StageInv, ListInv, Source
<1>2. /\ candidates' = candidates \ {i.key : i \in items}
      /\ immature' = immature \cup {Key(i.data) : i \in items}
      /\ matured' = matured
  BY DEF WriteImmatureBlocks
<1>3. ASSUME NEW x \in Stored'
      PROVE  \/ x \in Stored /\ x \notin {i.key : i \in items}
             \/ \E i \in items : x = Key(i.data) /\ x \in immature' /\ x.id = i.key.id
  <2>1. ASSUME NEW i \in items
        PROVE  i.key \notin immature /\ i.key \notin matured
    BY <1>1 DEF StageInv, BlockInOneStage
  <2>2. QED
    BY <1>1, <1>2, <2>1 DEF Stored
<1>4. \A x \in Stored' : \E y \in Stored : y.id = x.id /\ y.height = x.height
  BY <1>1, <1>3 DEF Stored
<1>5. ASSUME NEW i \in items, NEW x \in Stored, x.id = i.key.id
      PROVE  x = i.key
  BY <1>1, <1>5 DEF StageInv, BlockInOneStage, Stored
<1>6. ASSUME NEW i \in items, NEW j \in items, i.key.id = j.key.id
      PROVE  i = j
  <2>1. i.key = j.key
    BY <1>1, <1>5, <1>6 DEF Stored
  <2>2. QED
    BY <2>1 DEF StageInv, ListInv
<1>7. \A x, y \in Stored' : x.id = y.id => x = y
  <2> SUFFICES ASSUME NEW x \in Stored', NEW y \in Stored', x.id = y.id PROVE x = y
    OBVIOUS
  <2>1. CASE x \in Stored /\ y \in Stored /\ x \notin {i.key : i \in items}
    BY <2>1 DEF StageInv, BlockInOneStage
  <2>2. CASE /\ x \in Stored /\ x \notin {i.key : i \in items}
             /\ \E i \in items : y = Key(i.data) /\ y.id = i.key.id
    BY <1>5, <2>2
  <2>3. CASE /\ y \in Stored /\ y \notin {i.key : i \in items}
             /\ \E i \in items : x = Key(i.data) /\ x.id = i.key.id
    BY <1>5, <2>3
  <2>4. CASE /\ \E i \in items : x = Key(i.data) /\ x.id = i.key.id
             /\ \E i \in items : y = Key(i.data) /\ y.id = i.key.id
    BY <1>6, <2>4
  <2>5. QED
    BY <1>3, <2>1, <2>2, <2>3, <2>4
<1>8. /\ candidates' \cap immature' = {}
      /\ candidates' \cap matured' = {}
      /\ immature' \cap matured' = {}
  <2>1. ASSUME NEW i \in items
        PROVE  Key(i.data) \notin matured /\ Key(i.data) \notin candidates'
    <3>1. ASSUME Key(i.data) \in Stored
          PROVE  Key(i.data) = i.key
      BY <1>1, <1>5, <3>1
    <3>2. QED
      BY <1>1, <1>2, <3>1 DEF StageInv, BlockInOneStage, Stored
  <2>2. QED
    BY <1>2, <2>1 DEF StageInv, BlockInOneStage
<1>9. StoredInv' /\ WriterInv'
  BY <1>4 DEF StageInv, StoredInv, WriterInv
<1>10. \A i \in Lists \ items : i.key \in candidates'
  BY <1>2 DEF StageInv, ListInv, Source
<1>11. QED
  BY <1>7, <1>8, <1>9, <1>10 DEF BlockInOneStage

(* Moving an immature block to the matured set does so too. *)
LEMMA MoveToMatured ==
    ASSUME TypeOK, StageInv, stage = "credit", NEW item \in Lists,
           WriteMaturedBlocks(item), UNCHANGED <<candidates, minedAt, writers>>
    PROVE  /\ BlockInOneStage' /\ StoredInv' /\ WriterInv'
           /\ \A i \in Lists \ {item} : i.key \in immature'
<1> DEFINE new == Key(item.data)
<1>1. /\ item.key \in immature /\ new.id = item.key.id /\ new.height = item.key.height
  <2>1. item.data \in BlockData
    BY DEF Lists, TypeOK, UnlockerTypeOK, Item
  <2>2. QED
    BY <2>1, KeyType DEF StageInv, ListInv, Source
<1>2. /\ immature' = immature \ {item.key}
      /\ matured' = matured \cup {new}
      /\ candidates' = candidates
  BY DEF WriteMaturedBlocks
<1> HIDE DEF new
<1>3. ASSUME NEW x \in Stored, x.id = item.key.id
      PROVE  x = item.key
  BY <1>1, <1>3 DEF StageInv, BlockInOneStage, Stored
<1>4. item.key \notin candidates /\ item.key \notin matured
  BY <1>1 DEF StageInv, BlockInOneStage
<1>5. ASSUME NEW x \in Stored'
      PROVE  x = new \/ (x \in Stored /\ x # item.key)
  BY <1>2, <1>4 DEF Stored
<1>6. \A x, y \in Stored' : x.id = y.id => x = y
  BY <1>1, <1>3, <1>5 DEF StageInv, BlockInOneStage
<1>7. new \notin candidates /\ new \notin immature'
  BY <1>1, <1>2, <1>3, <1>4 DEF Stored
<1>8. BlockInOneStage'
  BY <1>2, <1>6, <1>7 DEF StageInv, BlockInOneStage
<1>9. \A x \in Stored' : \E y \in Stored : y.id = x.id /\ y.height = x.height
  BY <1>1, <1>5 DEF Stored
<1>10. StoredInv' /\ WriterInv'
  BY <1>9 DEF StageInv, StoredInv, WriterInv
<1>11. \A i \in Lists \ {item} : i.key \in immature'
  BY <1>2 DEF StageInv, ListInv, Source
<1>12. QED
  BY <1>8, <1>10, <1>11

(* Nothing about the stages changes while the sets, the sessions and the   *)
(* accepted blocks do not.                                                 *)
LEMMA StagesUnchanged ==
    ASSUME StageInv, UNCHANGED <<candidates, immature, matured, minedAt, writers>>
    PROVE  BlockInOneStage' /\ StoredInv' /\ WriterInv'
BY DEF StageInv, BlockInOneStage, StoredInv, WriterInv, Stored

(* An empty pass holds nothing. *)
LEMMA EmptyLists ==
    ASSUME NEW st, StartPass(st)
    PROVE  ListInv'
BY DEF StartPass, ListInv, Lists

(* Dropping the items that were handed on keeps the rest in order. *)
LEMMA ShorterLists ==
    ASSUME StageInv, NEW items \in SUBSET Lists, stage' = stage,
           upc' \notin {"begin", "count", "fetch"},
           todo' \subseteq todo, maturedBlocks' \subseteq maturedBlocks,
           orphanedBlocks' \subseteq orphanedBlocks, Lists' \subseteq Lists \ items,
           \A i \in Lists \ items : i.key \in Source(stage)'
    PROVE  ListInv'
BY DEF StageInv, ListInv, Lists

(* Reading a header moves an item to another list under the same key.      *)
LEMMA MovedItem ==
    ASSUME StageInv, NEW item \in todo, NEW new,
           new.key = item.key, new.data.id = item.data.id,
           new.data.height = item.data.height,
           stage' = stage, upc' \notin {"begin", "count", "fetch"},
           todo' = todo \ {item},
           \/ /\ maturedBlocks' = maturedBlocks \cup {new}
              /\ orphanedBlocks' = orphanedBlocks
           \/ /\ orphanedBlocks' = orphanedBlocks \cup {new}
              /\ maturedBlocks' = maturedBlocks,
           UNCHANGED <<candidates, immature>>
    PROVE  ListInv'
<1>1. Source(stage)' = Source(stage)
  BY DEF Source
<1>2. \A i \in Lists' : i = new \/ i \in Lists \ {item}
  BY DEF Lists, StageInv, ListInv
<1>3. \A i \in Lists \ {item} : i.key # item.key /\ i # new
  BY DEF Lists, StageInv, ListInv
<1>4. \A i \in Lists' : /\ i.key \in Source(stage)'
                        /\ i.data.id = i.key.id /\ i.data.height = i.key.height
  BY <1>1, <1>2 DEF Lists, StageInv, ListInv
<1>5. \A i, j \in Lists' : i.key = j.key => i = j
  BY <1>2, <1>3 DEF StageInv, ListInv
<1>6. /\ todo' \cap (maturedBlocks' \cup orphanedBlocks') = {}
      /\ maturedBlocks' \cap orphanedBlocks' = {}
  BY <1>3 DEF Lists, StageInv, ListInv
<1>7. QED
  BY <1>4, <1>5, <1>6 DEF ListInv

-----------------------------------------------------------------------------
(* One stage per block: the steps *)

LEMMA InitStage == Init => StageInv
BY DEF Init, StorageInit, WriterInit, UnlockerInit, StageInv, BlockInOneStage, StoredInv,
   WriterInv, ListInv, Lists, Stored

(* A step of the unlocker moves blocks from one set to the next. *)
LEMMA UnlockerStage ==
    ASSUME TypeOK, StageInv, UnlockerStep
    PROVE  StageInv'
<1>1. UNCHANGED <<writers, minedAt>>
  BY DEF UnlockerStep, daemonVars
<1>2. ASSUME UNCHANGED storageVars
      PROVE  BlockInOneStage' /\ StoredInv' /\ WriterInv' /\ UNCHANGED <<candidates, immature>>
  BY <1>1, <1>2, StagesUnchanged DEF storageVars, blockVars
<1>3. ASSUME Fail \/ EndPass
      PROVE  ListInv'
  BY <1>3, EmptyLists DEF Fail, EndPass
<1>4. CASE BeginPass
  <2>1. BlockInOneStage' /\ StoredInv' /\ WriterInv'
    BY <1>2, <1>4 DEF BeginPass
  <2>2. ListInv'
    BY <1>3, <1>4 DEF BeginPass, StageInv, ListInv, Lists
  <2>3. QED
    BY <2>1, <2>2 DEF StageInv
<1>5. CASE GetBlockCount
  <2>1. BlockInOneStage' /\ StoredInv' /\ WriterInv'
    BY <1>2, <1>5 DEF GetBlockCount
  <2>2. ListInv'
    BY <1>3, <1>5 DEF GetBlockCount, StageInv, ListInv, Lists
  <2>3. QED
    BY <2>1, <2>2 DEF StageInv
<1>6. CASE FetchBlocks
  <2> DEFINE found == {b \in Source(stage) : b.height =< maxHeight}
  <2>1. /\ BlockInOneStage' /\ StoredInv' /\ WriterInv'
        /\ UNCHANGED <<candidates, immature>>
    BY <1>2, <1>6 DEF FetchBlocks
  <2>2. \/ Fail \/ EndPass
        \/ /\ todo' = {Convert(b) : b \in found} /\ upc' = "check"
           /\ UNCHANGED <<stage, maturedBlocks, orphanedBlocks>>
    BY <1>6 DEF FetchBlocks
  <2>3. ASSUME todo' = {Convert(b) : b \in found}, upc' = "check",
               UNCHANGED <<stage, maturedBlocks, orphanedBlocks>>
        PROVE  ListInv'
    <3>1. maturedBlocks' = {} /\ orphanedBlocks' = {}
      BY <1>6, <2>3 DEF FetchBlocks, StageInv, ListInv, Lists
    <3>2. Source(stage)' = Source(stage)
      BY <2>1, <2>3 DEF Source
    <3>3. \A b \in found : /\ Convert(b).key = b
                           /\ Convert(b).data.id = b.id /\ Convert(b).data.height = b.height
      <4>1. \A b \in found : b \in BlockData
        BY DEF Source, TypeOK, StorageTypeOK, BlockTypeOK
      <4>2. QED
        BY <4>1 DEF Convert, BlockData
    <3>4. Lists' = {Convert(b) : b \in found} /\ found \subseteq Source(stage)
      BY <2>3, <3>1 DEF Lists
    <3> HIDE DEF found
    <3>5. \A i \in Lists' : \E b \in found : i = Convert(b)
      BY <3>4
    <3>6. \A i \in Lists' : /\ i.key \in Source(stage)'
                            /\ i.data.id = i.key.id /\ i.data.height = i.key.height
      BY <3>2, <3>3, <3>4, <3>5
    <3>7. \A i, j \in Lists' : i.key = j.key => i = j
      BY <3>3, <3>5
    <3>8. QED
      BY <2>3, <3>1, <3>6, <3>7 DEF ListInv
  <2>4. ListInv'
    BY <1>3, <2>2, <2>3
  <2>5. QED
    BY <2>1, <2>4 DEF StageInv
<1>7. CASE CheckFails
  BY <1>2, <1>3, <1>7 DEF CheckFails, StageInv
<1>8. ASSUME NEW item \in todo, CheckMatched(item)
      PROVE  StageInv'
  <2> DEFINE new == [item EXCEPT !.data = HandleBlock(@)]
  <2>1. item \in Item /\ item.data \in BlockData
    BY DEF TypeOK, UnlockerTypeOK, Item
  <2>2. /\ new.key = item.key
        /\ new.data.id = item.data.id /\ new.data.height = item.data.height
    BY <2>1 DEF Item, BlockData, HandleBlock
  <2>3. /\ stage' = stage /\ upc' \notin {"begin", "count", "fetch"}
        /\ todo' = todo \ {item}
        /\ maturedBlocks' = maturedBlocks \cup {new} /\ orphanedBlocks' = orphanedBlocks
    BY <1>8 DEF CheckMatched, Checked
  <2>4. /\ BlockInOneStage' /\ StoredInv' /\ WriterInv'
        /\ UNCHANGED <<candidates, immature>>
    BY <1>2, <1>8 DEF CheckMatched
  <2> HIDE DEF new
  <2>5. ListInv'
    BY <2>2, <2>3, <2>4, MovedItem
  <2>6. QED
    BY <2>4, <2>5 DEF StageInv
<1>9. ASSUME NEW item \in todo, CheckOrphaned(item)
      PROVE  StageInv'
  <2> DEFINE new == [item EXCEPT !.data.orphan = TRUE]
  <2>1. item \in Item /\ item.data \in BlockData
    BY DEF TypeOK, UnlockerTypeOK, Item
  <2>2. /\ new.key = item.key
        /\ new.data.id = item.data.id /\ new.data.height = item.data.height
    BY <2>1 DEF Item, BlockData
  <2>3. /\ stage' = stage /\ upc' \notin {"begin", "count", "fetch"}
        /\ todo' = todo \ {item}
        /\ orphanedBlocks' = orphanedBlocks \cup {new} /\ maturedBlocks' = maturedBlocks
    BY <1>9 DEF CheckOrphaned, Checked
  <2>4. /\ BlockInOneStage' /\ StoredInv' /\ WriterInv'
        /\ UNCHANGED <<candidates, immature>>
    BY <1>2, <1>9 DEF CheckOrphaned
  <2> HIDE DEF new
  <2>5. ListInv'
    BY <2>2, <2>3, <2>4, MovedItem
  <2>6. QED
    BY <2>4, <2>5 DEF StageInv
<1>10. ASSUME UNCHANGED <<storageVars, todo, maturedBlocks, orphanedBlocks, stage>>,
              upc' = upc \/ upc' \notin {"begin", "count", "fetch"}
       PROVE  StageInv'
  BY <1>2, <1>10 DEF StageInv, ListInv, Lists, Source
<1>11. ASSUME NEW item \in todo, CheckMismatch(item)
       PROVE  StageInv'
  BY <1>10, <1>11 DEF CheckMismatch, Panic, passVars
<1>12. CASE PendingOrphans
  <2>1. stage = "pending" /\ orphanedBlocks \in SUBSET Lists
    BY <1>12 DEF PendingOrphans, Lists
  <2>2. \/ Fail
        \/ /\ orphanedBlocks' = {} /\ upc' = "reward"
           /\ UNCHANGED <<stage, todo, maturedBlocks>>
    BY <1>12 DEF PendingOrphans, Send
  <2>3. CASE UNCHANGED storageVars
    <3>1. \A i \in Lists : i.key \in Source(stage)
      BY DEF StageInv, ListInv
    <3>2. ListInv'
      BY <1>2, <1>3, <2>1, <2>2, <2>3, <3>1 DEF StageInv, ListInv, Lists, Source
    <3>3. QED
      BY <1>2, <2>3, <3>2 DEF StageInv
  <2>4. CASE WritePendingOrphans(orphanedBlocks)
    <3>1. /\ BlockInOneStage' /\ StoredInv' /\ WriterInv'
          /\ \A i \in Lists \ orphanedBlocks : i.key \in candidates'
      BY <1>1, <2>1, <2>4, MoveToImmature DEF WritePendingOrphans
    <3>2. CASE Fail
      BY <1>3, <3>1, <3>2 DEF StageInv
    <3>3. CASE /\ orphanedBlocks' = {} /\ upc' = "reward"
               /\ UNCHANGED <<stage, todo, maturedBlocks>>
      <4>1. Lists' \subseteq Lists \ orphanedBlocks
        BY <3>3 DEF Lists, StageInv, ListInv
      <4>2. \A i \in Lists \ orphanedBlocks : i.key \in Source(stage)'
        BY <2>1, <3>1, <3>3 DEF Source
      <4>3. ListInv'
        BY <2>1, <3>3, <4>1, <4>2, ShorterLists
      <4>4. QED
        BY <3>1, <4>3 DEF StageInv
    <3>4. QED
      BY <2>2, <3>2, <3>3
  <2>5. QED
    BY <1>12, <2>3, <2>4 DEF PendingOrphans, Send
<1>13. CASE CreditOrphansDone
  BY <1>10, <1>13 DEF CreditOrphansDone
<1>14. CASE BlocksDone
  BY <1>2, <1>3, <1>14 DEF BlocksDone, StageInv
<1>15. ASSUME NEW item \in orphanedBlocks, CreditOrphan(item)
       PROVE  StageInv'
  <2>1. stage = "credit" /\ upc = "orphans" /\ item \in Lists
    BY <1>15 DEF CreditOrphan, Lists
  <2>2. \/ /\ UNCHANGED storageVars
           /\ Fail \/ Panic("nilTx")
        \/ /\ WriteMaturedBlocks(item) /\ UNCHANGED candidates
           /\ \/ Fail
              \/ /\ orphanedBlocks' = orphanedBlocks \ {item}
                 /\ UNCHANGED <<stage, upc, todo, maturedBlocks>>
    BY <1>15 DEF CreditOrphan, Settle, Send, WriteOrphan
  <2>3. CASE UNCHANGED storageVars /\ (Fail \/ Panic("nilTx"))
    BY <1>2, <1>3, <1>10, <2>3 DEF StageInv, Panic, passVars
  <2>4. CASE /\ WriteMaturedBlocks(item) /\ UNCHANGED candidates
             /\ \/ Fail
                \/ /\ orphanedBlocks' = orphanedBlocks \ {item}
                   /\ UNCHANGED <<stage, upc, todo, maturedBlocks>>
    <3>1. /\ BlockInOneStage' /\ StoredInv' /\ WriterInv'
          /\ \A i \in Lists \ {item} : i.key \in immature'
      BY <1>1, <2>1, <2>4, MoveToMatured
    <3>2. CASE Fail
      BY <1>3, <3>1, <3>2 DEF StageInv
    <3>3. CASE /\ orphanedBlocks' = orphanedBlocks \ {item}
               /\ UNCHANGED <<stage, upc, todo, maturedBlocks>>
      <4>1. Lists' \subseteq Lists \ {item}
        BY <3>3 DEF Lists, StageInv, ListInv
      <4>2. \A i \in Lists \ {item} : i.key \in Source(stage)'
        BY <2>1, <3>1, <3>3 DEF Source
      <4>3. ListInv'
        BY <2>1, <3>3, <4>1, <4>2, ShorterLists
      <4>4. QED
        BY <3>1, <4>3 DEF StageInv
    <3>4. QED
      BY <2>4, <3>2, <3>3
  <2>5. QED
    BY <2>2, <2>3, <2>4
<1>16. ASSUME NEW item \in maturedBlocks, RewardBlock(item)
       PROVE  StageInv'
  BY <1>2, <1>3, <1>10, <1>16 DEF RewardBlock, StageInv
<1>17. ASSUME NEW item \in maturedBlocks, Written(item), NEW src,
              \A i \in Lists \ {item} : i.key \in src, src = Source(stage)'
       PROVE  ListInv'
  <2>1. Lists' \subseteq Lists \ {item}
    BY <1>17 DEF Written, Lists, StageInv, ListInv
  <2>2. {item} \in SUBSET Lists
    BY DEF Lists
  <2>3. QED
    BY <1>17, <2>1, <2>2, ShorterLists DEF Written
<1>18. ASSUME NEW item \in maturedBlocks, WritePending(item)
       PROVE  StageInv'
  <2>1. stage = "pending" /\ {item} \in SUBSET Lists
    BY <1>18 DEF WritePending, Lists
  <2>2. \/ UNCHANGED storageVars /\ Fail
        \/ /\ WriteImmatureBlocks({item}) /\ UNCHANGED matured
           /\ Fail \/ Written(item)
    BY <1>18 DEF WritePending, Send, WriteImmatureBlock
  <2>3. CASE UNCHANGED storageVars /\ Fail
    BY <1>2, <1>3, <2>3 DEF StageInv
  <2>4. CASE /\ WriteImmatureBlocks({item}) /\ UNCHANGED matured
             /\ Fail \/ Written(item)
    <3>1. /\ BlockInOneStage' /\ StoredInv' /\ WriterInv'
          /\ \A i \in Lists \ {item} : i.key \in candidates'
      BY <1>1, <2>1, <2>4, MoveToImmature
    <3>2. ASSUME Written(item) PROVE candidates' = Source(stage)'
      BY <2>1, <3>2 DEF Source, Written
    <3>3. QED
      BY <1>3, <1>17, <2>4, <3>1, <3>2 DEF StageInv
  <2>5. QED
    BY <2>2, <2>3, <2>4
<1>19. ASSUME NEW item \in maturedBlocks, WriteCredit(item)
       PROVE  StageInv'
  <2>1. stage = "credit" /\ item \in Lists
    BY <1>19 DEF WriteCredit, Lists
  <2>2. \/ UNCHANGED storageVars /\ (Fail \/ Panic("nilTx"))
        \/ /\ WriteMaturedBlocks(item) /\ UNCHANGED candidates
           /\ Fail \/ Written(item)
    BY <1>19 DEF WriteCredit, Settle, Send, WriteMaturedBlock
  <2>3. CASE UNCHANGED storageVars /\ (Fail \/ Panic("nilTx"))
    BY <1>2, <1>3, <1>10, <2>3 DEF StageInv, Panic, passVars
  <2>4. CASE /\ WriteMaturedBlocks(item) /\ UNCHANGED candidates
             /\ Fail \/ Written(item)
    <3>1. /\ BlockInOneStage' /\ StoredInv' /\ WriterInv'
          /\ \A i \in Lists \ {item} : i.key \in immature'
      BY <1>1, <2>1, <2>4, MoveToMatured
    <3>2. ASSUME Written(item) PROVE immature' = Source(stage)'
      BY <2>1, <3>2 DEF Source, Written
    <3>3. QED
      BY <1>3, <1>17, <2>4, <3>1, <3>2 DEF StageInv
  <2>5. QED
    BY <2>2, <2>3, <2>4
<1>20. QED
  BY <1>4, <1>5, <1>6, <1>7, <1>8, <1>9, <1>11, <1>12, <1>13, <1>14, <1>15, <1>16, <1>18, <1>19
     DEF UnlockerStep, UnlockerNext

(* A session adds a block only once monerod has accepted it, and only it   *)
(* adds that block.                                                        *)
LEMMA SessionStage ==
    ASSUME TypeOK, StageInv, SessionStep
    PROVE  StageInv'
<1>1. UNCHANGED <<stage, upc, todo, maturedBlocks, orphanedBlocks>>
  BY DEF SessionStep, unlockerVars, passVars
<1>2. ASSUME candidates \subseteq candidates', UNCHANGED immature
      PROVE  ListInv'
  BY <1>1, <1>2 DEF StageInv, ListInv, Lists, Source
<1>3. ASSUME UNCHANGED <<blockVars, minedAt>>, NEW s \in Sessions, WriterTypeOK,
             NEW w, writers' = [writers EXCEPT ![s] = w],
             \/ w = Idle
             \/ /\ writers[s] # Idle
                /\ w.pow = writers[s].pow /\ w.height = writers[s].height
      PROVE  StageInv'
  <2>1. BlockInOneStage' /\ StoredInv' /\ Stored' = Stored
    BY <1>3 DEF StageInv, BlockInOneStage, StoredInv, Stored, blockVars
  <2>2. \A r \in Sessions : writers'[r] # Idle =>
            /\ writers[r] # Idle
            /\ writers'[r].pow = writers[r].pow /\ writers'[r].height = writers[r].height
    BY <1>3 DEF WriterTypeOK
  <2>3. WriterInv'
    BY <1>3, <2>1, <2>2 DEF StageInv, WriterInv
  <2>4. ListInv'
    BY <1>2, <1>3 DEF blockVars
  <2>5. QED
    BY <2>1, <2>3, <2>4 DEF StageInv
<1>4. WriterTypeOK
  BY DEF TypeOK
<1>5. ASSUME NEW s \in Sessions, NEW p \in Shares, NEW l \in Logins, NEW h,
             SubmitShare(s, p, l, h)
      PROVE  StageInv'
  <2>1. /\ UNCHANGED <<candidates, immature, matured, minedAt>>
        /\ writers' = [writers EXCEPT ![s] = Submit(p, l, h)]
    BY <1>5 DEF SubmitShare, storageVars, blockVars, daemonVars
  <2>2. BlockInOneStage' /\ StoredInv' /\ Stored' = Stored
    BY <2>1 DEF StageInv, BlockInOneStage, StoredInv, Stored
  <2>3. \A r \in Sessions : writers'[r] = IF r = s THEN Submit(p, l, h) ELSE writers[r]
    BY <1>4, <2>1 DEF WriterTypeOK
  <2>4. Submit(p, l, h).pow = p /\ p \notin Blocks
    BY StorageAssumption DEF Submit
  <2>5. WriterInv'
    BY <2>1, <2>2, <2>3, <2>4 DEF StageInv, WriterInv
  <2>6. QED
    BY <1>2, <2>1, <2>2, <2>5 DEF StageInv
<1>6. ASSUME NEW s \in Sessions, NEW b \in Blocks, NEW l \in Logins, NEW h,
             SubmitBlock(s, b, l, h)
      PROVE  StageInv'
  <2>1. /\ UNCHANGED <<candidates, immature, matured>>
        /\ minedAt[b] = 0 /\ h \in Heights /\ minedAt' = [minedAt EXCEPT ![b] = h]
        /\ writers' = [writers EXCEPT ![s] = Submit(b, l, h)] \/ UNCHANGED writers
    BY <1>6 DEF SubmitBlock, AcceptBlock, storageVars, blockVars
  <2>2. 0 \notin Heights
    BY DaemonAssumption DEF Heights
  <2>3. \A x \in Stored : x.height \in Heights /\ x.id \in Blocks
    BY DEF Stored, TypeOK, StorageTypeOK, BlockTypeOK, BlockData
  <2>4. \A x \in Stored : x.id # b
    BY <2>1, <2>2, <2>3 DEF StageInv, StoredInv
  <2>5. minedAt' \in [Blocks -> Heights \cup {0}] /\ minedAt \in [Blocks -> Heights \cup {0}]
    BY <2>1 DEF TypeOK, DaemonTypeOK
  <2>6. BlockInOneStage' /\ StoredInv' /\ Stored' = Stored
    BY <2>1, <2>3, <2>4, <2>5 DEF StageInv, BlockInOneStage, StoredInv, Stored
  <2>7. \A r \in Sessions : writers[r] # Idle =>
            writers[r].height \in Heights /\ writers[r].pow # b
    <3>1. \A r \in Sessions : writers[r] # Idle => writers[r].height \in Heights
      BY <1>4 DEF WriterTypeOK, Submission
    <3>2. QED
      BY <2>1, <2>2, <3>1 DEF StageInv, WriterInv
  <2>8. \A r \in Sessions : writers[r] # Idle /\ writers[r].pow \in Blocks =>
            minedAt'[writers[r].pow] = writers[r].height
    BY <2>1, <2>5, <2>7 DEF StageInv, WriterInv
  <2>9. Submit(b, l, h).pow = b /\ Submit(b, l, h).height = h /\ minedAt'[b] = h
    BY <2>1, <2>5 DEF Submit
  <2>10. WriterInv'
    <3>1. CASE UNCHANGED writers
      BY <2>6, <2>8, <3>1 DEF StageInv, WriterInv
    <3>2. CASE writers' = [writers EXCEPT ![s] = Submit(b, l, h)]
      <4>1. \A r \in Sessions : writers'[r] = IF r = s THEN Submit(b, l, h) ELSE writers[r]
        BY <1>4, <3>2 DEF WriterTypeOK
      <4> SUFFICES ASSUME NEW r \in Sessions, writers'[r] # Idle, writers'[r].pow \in Blocks
                   PROVE  /\ minedAt'[writers'[r].pow] = writers'[r].height
                          /\ \A x \in Stored' : x.id # writers'[r].pow
                          /\ \A q \in Sessions : q # r /\ writers'[q] # Idle =>
                                writers'[q].pow # writers'[r].pow
        BY DEF WriterInv
      <4>2. minedAt'[writers'[r].pow] = writers'[r].height
        BY <2>8, <2>9, <4>1
      <4>3. \A x \in Stored' : x.id # writers'[r].pow
        BY <2>4, <2>6, <2>9, <4>1 DEF StageInv, WriterInv
      <4>4. \A q \in Sessions : q # r /\ writers'[q] # Idle => writers'[q].pow # writers'[r].pow
        BY <2>7, <2>9, <4>1 DEF StageInv, WriterInv
      <4>5. QED
        BY <4>2, <4>3, <4>4
    <3>3. QED
      BY <2>1, <3>1, <3>2
  <2>11. ListInv'
    BY <1>2, <2>1
  <2>12. QED
    BY <2>6, <2>10, <2>11 DEF StageInv
<1>7. ASSUME NEW s \in Sessions, writers[s] # Idle, NEW pc, NEW total
      PROVE  /\ [writers[s] EXCEPT !.pc = pc].pow = writers[s].pow
             /\ [writers[s] EXCEPT !.pc = pc].height = writers[s].height
             /\ [writers[s] EXCEPT !.pc = pc, !.total = total].pow = writers[s].pow
             /\ [writers[s] EXCEPT !.pc = pc, !.total = total].height = writers[s].height
  BY <1>4, <1>7 DEF WriterTypeOK, Submission
<1>8. ASSUME NEW s \in Sessions, writers[s].pc \in {"prune", "zadd", "exec", "candidate"}
      PROVE  writers[s] # Idle
  BY <1>8 DEF Idle
<1>9. ASSUME NEW s \in Sessions, Prune(s)
      PROVE  StageInv'
  <2> DEFINE w == [writers[s] EXCEPT !.pc = "zadd"]
  <2>1. /\ UNCHANGED <<blockVars, minedAt>> /\ writers[s] # Idle
        /\ writers' = [writers EXCEPT ![s] = w]
    BY <1>8, <1>9 DEF Prune, PrunePow, Goto, storageVars, daemonVars
  <2>2. w.pow = writers[s].pow /\ w.height = writers[s].height
    BY <1>7, <2>1
  <2> HIDE DEF w
  <2>3. QED
    BY <1>3, <1>4, <2>1, <2>2
<1>10. ASSUME NEW s \in Sessions, CheckPoWExist(s)
       PROVE  StageInv'
  <2> DEFINE w == [writers[s] EXCEPT !.pc = "exec"]
  <2>1. /\ UNCHANGED <<blockVars, minedAt>> /\ writers[s] # Idle
        /\ \/ writers' = [writers EXCEPT ![s] = Idle]
           \/ writers' = [writers EXCEPT ![s] = w]
    BY <1>8, <1>10 DEF CheckPoWExist, Send, AddPow, Goto, Finish, storageVars, daemonVars
  <2>2. w.pow = writers[s].pow /\ w.height = writers[s].height
    BY <1>7, <2>1
  <2> HIDE DEF w
  <2>3. QED
    BY <1>3, <1>4, <2>1, <2>2
<1>11. ASSUME NEW s \in Sessions, ExecShare(s)
       PROVE  StageInv'
  <2>1. /\ UNCHANGED <<blockVars, minedAt>>
        /\ writers' = [writers EXCEPT ![s] = Idle]
    BY <1>11 DEF ExecShare, Send, WriteShareTx, Finish, storageVars, daemonVars
  <2>2. QED
    BY <1>3, <1>4, <2>1
<1>12. ASSUME NEW s \in Sessions, ExecBlock(s)
       PROVE  StageInv'
  <2> DEFINE total == SumFunction(WithShare(writers[s].login))
             w == [writers[s] EXCEPT !.pc = "candidate", !.total = total]
  <2>1. /\ UNCHANGED <<blockVars, minedAt>> /\ writers[s] # Idle
        /\ \/ writers' = [writers EXCEPT ![s] = Idle]
           \/ writers' = [writers EXCEPT ![s] = w]
    BY <1>8, <1>12 DEF ExecBlock, Send, WriteBlockTx, Finish, storageVars, daemonVars
  <2> HIDE DEF total
  <2>2. w.pow = writers[s].pow /\ w.height = writers[s].height
    BY <1>7, <2>1
  <2> HIDE DEF w
  <2>3. QED
    BY <1>3, <1>4, <2>1, <2>2
<1>13. ASSUME NEW s \in Sessions, InsertCandidate(s)
       PROVE  StageInv'
  <2> DEFINE w == writers[s]
             new == Candidate(w.pow, w.height, w.total)
  <2>1. /\ UNCHANGED minedAt /\ w # Idle /\ w.pc = "candidate"
        /\ writers' = [writers EXCEPT ![s] = Idle]
        /\ \/ UNCHANGED blockVars
           \/ candidates' = candidates \cup {new} /\ UNCHANGED <<immature, matured>>
    BY <1>8, <1>13 DEF InsertCandidate, Send, AddCandidate, Finish, storageVars, daemonVars
  <2>2. CASE UNCHANGED blockVars
    BY <1>3, <1>4, <2>1, <2>2
  <2>3. CASE candidates' = candidates \cup {new} /\ UNCHANGED <<immature, matured>>
    <3>1. w.pow \in Blocks
      BY <1>4, <2>1 DEF WriterTypeOK, Submission, Idle
    <3>2. new.id = w.pow /\ new.height = w.height
      BY DEF Candidate
    <3>3. /\ minedAt[w.pow] = w.height
          /\ \A x \in Stored : x.id # w.pow
          /\ \A r \in Sessions : r # s /\ writers[r] # Idle => writers[r].pow # w.pow
      BY <2>1, <3>1 DEF StageInv, WriterInv
    <3>4. \A r \in Sessions : writers'[r] = IF r = s THEN Idle ELSE writers[r]
      BY <1>4, <2>1 DEF WriterTypeOK
    <3> HIDE DEF new
    <3>5. Stored' = Stored \cup {new} /\ new \notin Stored
      BY <2>3, <3>2, <3>3 DEF Stored
    <3>6. BlockInOneStage'
      BY <2>3, <3>2, <3>3, <3>5 DEF StageInv, BlockInOneStage, Stored
    <3>7. StoredInv'
      BY <2>1, <3>2, <3>3, <3>5 DEF StageInv, StoredInv
    <3>8. WriterInv'
      BY <2>1, <3>2, <3>3, <3>4, <3>5 DEF StageInv, WriterInv
    <3>9. ListInv'
      BY <1>2, <2>3
    <3>10. QED
      BY <3>6, <3>7, <3>8, <3>9 DEF StageInv
  <2>4. QED
    BY <2>1, <2>2, <2>3
<1>14. QED
  BY <1>5, <1>6, <1>9, <1>10, <1>11, <1>12, <1>13 DEF SessionStep, WriterNext, WriterStep

LEMMA NextStage ==
    ASSUME TypeOK, StageInv, [Next]_vars
    PROVE  StageInv'
<1>1. ASSUME UNCHANGED <<storageVars, minedAt, writers, passVars>>
      PROVE  StageInv'
  BY <1>1, StagesUnchanged DEF StageInv, storageVars, blockVars, passVars, ListInv, Lists, Source
<1>2. CASE ChainStep
  BY <1>1, <1>2 DEF ChainStep, NewBlocks, unlockerVars
<1>3. CASE Crash
  BY <1>1, <1>3 DEF Crash, daemonVars
<1>4. CASE Restart
  <2>1. /\ UNCHANGED <<candidates, immature, matured, minedAt>>
        /\ \A s \in Sessions : writers'[s] = Idle
    BY <1>4 DEF Restart, storageVars, blockVars, daemonVars
  <2>2. BlockInOneStage' /\ StoredInv' /\ WriterInv'
    BY <2>1 DEF StageInv, BlockInOneStage, StoredInv, Stored, WriterInv
  <2>3. QED
    BY <1>4, <2>2, EmptyLists DEF Restart, StageInv
<1>5. CASE UNCHANGED vars
  BY <1>1, <1>5 DEF vars, daemonVars, unlockerVars
<1>6. QED
  BY <1>2, <1>3, <1>4, <1>5, SessionStage, UnlockerStage DEF Next

(* A block the pool found is in at most one of the candidate, immature and *)
(* matured sets, once, after any number of failed, repeated or interrupted *)
(* passes of the unlocker and whatever the sessions do meanwhile.          *)
THEOREM OneStage == Spec => []BlockInOneStage
<1>1. Init => StageInv
  BY InitStage
<1>2. TypeOK /\ StageInv /\ [Next]_vars => StageInv'
  BY NextStage
<1>3. StageInv => BlockInOneStage
  BY DEF StageInv
<1>4. QED
  BY <1>1, <1>2, <1>3, TypeInvariant, PTL DEF Spec

-----------------------------------------------------------------------------
(* Finality: the steps.  Both hypotheses are needed: a reorganisation as   *)
(* deep as Depth undoes what was credited, and the unlocker recognises a   *)
(* block by its nonce alone.                                               *)

ReorgsShallow == MaxReorg < Depth
NoncesDistinct == \A b, c \in AnyBlock : NonceOf[b] = NonceOf[c] => b = c

(* The chain never changes Depth blocks below its tip. *)
LEMMA DeepChainStable ==
    ASSUME ReorgsShallow, TypeOK, SessionStep \/ ChainStep
    PROVE  /\ tip' >= tip /\ tip' \in Heights
           /\ \A h \in Heights : h + Depth =< tip + 1 => chain'[h] = chain[h]
<1> USE DaemonAssumption, UnlockerAssumption DEF Heights
<1>1. tip \in Heights /\ chain \in [Heights -> AnyBlock]
  BY DEF TypeOK, DaemonTypeOK
<1>2. ASSUME UNCHANGED daemonVars
      PROVE  /\ tip' >= tip /\ tip' \in Heights
             /\ \A h \in Heights : h + Depth =< tip + 1 => chain'[h] = chain[h]
  BY <1>1, <1>2 DEF daemonVars
<1>3. ASSUME NEW b, NEW h, AcceptBlock(b, h)
      PROVE  /\ tip' >= tip /\ tip' \in Heights
             /\ \A g \in Heights : g + Depth =< tip + 1 => chain'[g] = chain[g]
  BY <1>1, <1>3 DEF AcceptBlock
<1>4. ASSUME NEW k \in 0 .. MaxReorg, NewBlocks(k)
      PROVE  /\ tip' >= tip /\ tip' \in Heights
             /\ \A h \in Heights : h + Depth =< tip + 1 => chain'[h] = chain[h]
  <2>1. PICK branch \in [tip - k + 1 .. tip + 1 -> AnyBlock] :
            chain' = [h \in Heights |-> IF h \in DOMAIN branch THEN branch[h] ELSE chain[h]]
    BY <1>4 DEF NewBlocks
  <2>2. DOMAIN branch = tip - k + 1 .. tip + 1
    OBVIOUS
  <2>3. \A h \in Heights : h + Depth =< tip + 1 => h \notin tip - k + 1 .. tip + 1
    BY <1>1 DEF ReorgsShallow
  <2>4. tip' >= tip /\ tip' \in Heights
    BY <1>1, <1>4 DEF NewBlocks
  <2>5. QED
    BY <2>1, <2>2, <2>3, <2>4
<1>5. CASE ChainStep
  BY <1>4, <1>5 DEF ChainStep
<1>6. CASE SessionStep
  <2>1. \/ UNCHANGED daemonVars
        \/ \E b \in Blocks, h \in {tip, tip + 1} : AcceptBlock(b, h)
    BY <1>6 DEF SessionStep, WriterNext, WriterStep, SubmitShare, SubmitBlock, Prune,
       CheckPoWExist, ExecShare, ExecBlock, InsertCandidate
  <2>2. QED
    BY <1>2, <1>3, <2>1
<1>7. QED
  BY <1>5, <1>6

(* What was decided about deep blocks stays decided. *)
LEMMA OutsideFinal ==
    ASSUME ReorgsShallow, TypeOK, StageInv, FinalInv, SessionStep \/ ChainStep
    PROVE  FinalInv'
<1>1. /\ tip' >= tip /\ tip' \in Heights
      /\ \A h \in Heights : h + Depth =< tip + 1 => chain'[h] = chain[h]
  BY DeepChainStable
<1>2. UNCHANGED <<matured, stage, upc, maxHeight, todo, maturedBlocks, orphanedBlocks>>
  <2>1. CASE ChainStep
    BY <2>1 DEF ChainStep, storageVars, blockVars, unlockerVars, passVars
  <2>2. CASE SessionStep
    <3>1. UNCHANGED unlockerVars
      BY <2>2 DEF SessionStep
    <3>2. UNCHANGED matured
      BY <2>2 DEF SessionStep, WriterNext, WriterStep, SubmitShare, SubmitBlock, Prune,
         CheckPoWExist, ExecShare, ExecBlock, InsertCandidate, Send, PrunePow, AddPow,
         WriteShareTx, WriteBlockTx, AddCandidate, storageVars, blockVars
    <3>3. QED
      BY <3>1, <3>2 DEF unlockerVars, passVars
  <2>3. QED
    BY <2>1, <2>2
<1>3. /\ \A m \in matured : m.height \in Heights
      /\ \A i \in Lists : i.key.height \in Heights
      /\ maxHeight \in Int /\ tip \in Heights
  BY DEF TypeOK, StorageTypeOK, BlockTypeOK, BlockData, UnlockerTypeOK, Item, Lists, DaemonTypeOK
<1>4. /\ \A h \in Heights : h + Depth =< tip + 1 => h + Depth =< tip' + 1
      /\ maxHeight + Depth =< tip + 1 => maxHeight + Depth =< tip' + 1
  <2>1. /\ Depth \in Int /\ FirstHeight \in Int /\ MaxHeight \in Int
        /\ tip \in Int /\ tip' \in Int /\ maxHeight \in Int
    BY <1>1, <1>3, DaemonAssumption, UnlockerAssumption DEF Heights
  <2>2. tip' >= tip
    BY <1>1
  <2>3. ASSUME NEW h \in Int, NEW d \in Int, NEW t \in Int, NEW u \in Int, u >= t,
               h + d =< t + 1
        PROVE  h + d =< u + 1
    BY <2>3
  <2>4. Heights \subseteq Int
    BY <2>1 DEF Heights
  <2>5. QED
    BY <2>1, <2>2, <2>3, <2>4
<1>5. SetFinal'
  BY <1>1, <1>2, <1>3, <1>4 DEF FinalInv, SetFinal, FinalOnChain
<1>6. PassFinal'
  <2> SUFFICES ASSUME stage = "credit" PROVE PassFinal'
    BY <1>2 DEF PassFinal
  <2>1. Lists' = Lists
    BY <1>2 DEF Lists
  <2>2. /\ upc = "fetch" => maxHeight + Depth =< tip + 1
        /\ \A i \in Lists : i.key.height + Depth =< tip + 1
        /\ \A i \in maturedBlocks : ~i.data.orphan /\ chain[i.key.height] = i.key.id
        /\ \A i \in orphanedBlocks : i.data.orphan /\ chain[i.key.height] # i.key.id
    BY DEF FinalInv, PassFinal
  <2>3. \A i \in Lists : /\ i.key.height + Depth =< tip' + 1
                         /\ chain'[i.key.height] = chain[i.key.height]
    BY <1>1, <1>3, <1>4, <2>2
  <2>4. maturedBlocks \subseteq Lists /\ orphanedBlocks \subseteq Lists
    BY DEF Lists
  <2>5. QED
    BY <1>2, <1>4, <2>1, <2>2, <2>3, <2>4 DEF PassFinal
<1>7. QED
  BY <1>5, <1>6 DEF FinalInv

(* The unlocker decides what the chain says, and only about deep blocks.   *)
LEMMA UnlockerFinal ==
    ASSUME NoncesDistinct, TypeOK, StageInv, FinalInv, UnlockerStep
    PROVE  FinalInv'
<1>1. UNCHANGED <<tip, chain>>
  BY DEF UnlockerStep, daemonVars
<1>2. ASSUME UNCHANGED storageVars
      PROVE  SetFinal'
  BY <1>1, <1>2 DEF storageVars, blockVars, FinalInv, SetFinal, FinalOnChain
<1>3. ASSUME NEW st, StartPass(st)
      PROVE  PassFinal'
  BY <1>3 DEF StartPass, PassFinal, Lists
<1>4. ASSUME Fail \/ EndPass
      PROVE  PassFinal'
  BY <1>3, <1>4 DEF Fail, EndPass
<1>5. ASSUME stage' = stage, upc' # "fetch", todo' \subseteq todo,
             maturedBlocks' \subseteq maturedBlocks, orphanedBlocks' \subseteq orphanedBlocks
      PROVE  PassFinal'
  BY <1>1, <1>5 DEF FinalInv, PassFinal, Lists
<1>6. \A i \in Lists : i \in Item /\ i.key \in BlockData /\ i.data \in BlockData
  BY DEF Lists, TypeOK, UnlockerTypeOK, Item
<1>7. \A i \in Lists : i.data.id = i.key.id /\ i.data.height = i.key.height
  BY DEF StageInv, ListInv
<1>8. ASSUME NEW item \in Lists
      PROVE  NonceMatches(item.data) <=> chain[item.key.height] = item.key.id
  <2>1. /\ item.key.id \in AnyBlock /\ chain[item.key.height] \in AnyBlock
    BY <1>6 DEF BlockData, AnyBlock, TypeOK, DaemonTypeOK
  <2>2. QED
    BY <1>7, <2>1 DEF NonceMatches, HeaderNonce, NoncesDistinct
<1>9. CASE BeginPass
  BY <1>2, <1>4, <1>5, <1>9 DEF BeginPass, FinalInv
<1>10. CASE GetBlockCount
  <2>1. CASE Fail
    BY <1>2, <1>4, <1>10, <2>1 DEF GetBlockCount, FinalInv
  <2>2. CASE /\ maxHeight' = UpToHeight(stage) /\ upc' = "fetch"
             /\ UNCHANGED <<stage, todo, maturedBlocks, orphanedBlocks>>
    <3>1. stage = "credit" => maxHeight' + Depth =< tip + 1
      BY <2>2, UnlockerAssumption, DaemonAssumption DEF UpToHeight, BlockCount, DepthOf, TypeOK,
         DaemonTypeOK, Heights
    <3>2. PassFinal'
      BY <1>1, <2>2, <3>1 DEF FinalInv, PassFinal, Lists
    <3>3. QED
      BY <1>2, <1>10, <3>2 DEF GetBlockCount, FinalInv
  <2>3. QED
    BY <1>10, <2>1, <2>2 DEF GetBlockCount
<1>11. CASE FetchBlocks
  <2> DEFINE found == {b \in Source(stage) : b.height =< maxHeight}
  <2>1. CASE Fail \/ EndPass
    BY <1>2, <1>4, <1>11, <2>1 DEF FetchBlocks, FinalInv
  <2>2. CASE /\ todo' = {Convert(b) : b \in found} /\ upc' = "check"
             /\ UNCHANGED <<stage, maturedBlocks, orphanedBlocks>>
    <3>1. maturedBlocks' = {} /\ orphanedBlocks' = {}
      BY <1>11, <2>2 DEF FetchBlocks, StageInv, ListInv, Lists
    <3>2. ASSUME stage = "credit", NEW b \in found
          PROVE  Convert(b).key.height + Depth =< tip + 1
      <4>1. b.height =< maxHeight /\ maxHeight + Depth =< tip + 1
        BY <1>11, <3>2 DEF FetchBlocks, FinalInv, PassFinal
      <4>2. b \in BlockData
        BY <3>2 DEF Source, TypeOK, StorageTypeOK, BlockTypeOK
      <4>3. b.height \in Int /\ maxHeight \in Int /\ Depth \in Int /\ tip \in Int
        BY <4>2, DaemonAssumption, UnlockerAssumption DEF BlockData, Heights, TypeOK,
           UnlockerTypeOK, DaemonTypeOK
      <4>4. Convert(b).key = b
        BY DEF Convert
      <4>5. QED
        BY <4>1, <4>3, <4>4
    <3> HIDE DEF found
    <3>3. PassFinal'
      BY <1>1, <2>2, <3>1, <3>2 DEF PassFinal, Lists
    <3>4. QED
      BY <1>2, <1>11, <3>3 DEF FetchBlocks, FinalInv
  <2>3. QED
    BY <1>11, <2>1, <2>2 DEF FetchBlocks
<1>12. CASE CheckFails
  BY <1>2, <1>4, <1>12 DEF CheckFails, FinalInv
<1>13. ASSUME NEW item \in todo, CheckMatched(item)
       PROVE  FinalInv'
  <2> DEFINE new == [item EXCEPT !.data = HandleBlock(@)]
  <2>1. item \in Lists
    BY DEF Lists
  <2>2. new.key = item.key /\ ~new.data.orphan
    BY <1>6, <2>1 DEF Item, BlockData, HandleBlock
  <2>3. chain[item.key.height] = item.key.id
    BY <1>8, <1>13, <2>1 DEF CheckMatched
  <2>4. /\ stage' = stage /\ upc' # "fetch" /\ todo' \subseteq todo
        /\ maturedBlocks' = maturedBlocks \cup {new} /\ orphanedBlocks' = orphanedBlocks
    BY <1>13 DEF CheckMatched, Checked
  <2> HIDE DEF new
  <2>5. PassFinal'
    BY <1>1, <2>1, <2>2, <2>3, <2>4 DEF FinalInv, PassFinal, Lists
  <2>6. QED
    BY <1>2, <1>13, <2>5 DEF CheckMatched, FinalInv
<1>14. ASSUME NEW item \in todo, CheckOrphaned(item)
       PROVE  FinalInv'
  <2> DEFINE new == [item EXCEPT !.data.orphan = TRUE]
  <2>1. item \in Lists
    BY DEF Lists
  <2>2. new.key = item.key /\ new.data.orphan
    BY <1>6, <2>1 DEF Item, BlockData
  <2>3. chain[item.key.height] # item.key.id
    BY <1>8, <1>14, <2>1 DEF CheckOrphaned
  <2>4. /\ stage' = stage /\ upc' # "fetch" /\ todo' \subseteq todo
        /\ orphanedBlocks' = orphanedBlocks \cup {new} /\ maturedBlocks' = maturedBlocks
    BY <1>14 DEF CheckOrphaned, Checked
  <2> HIDE DEF new
  <2>5. PassFinal'
    BY <1>1, <2>1, <2>2, <2>3, <2>4 DEF FinalInv, PassFinal, Lists
  <2>6. QED
    BY <1>2, <1>14, <2>5 DEF CheckOrphaned, FinalInv
<1>15. ASSUME NEW item \in todo, CheckMismatch(item)
       PROVE  FinalInv'
  BY <1>2, <1>5, <1>15 DEF CheckMismatch, Panic, passVars, FinalInv
<1>16. CASE PendingOrphans
  <2>1. UNCHANGED matured
    BY <1>16 DEF PendingOrphans, Send, WritePendingOrphans, storageVars, blockVars
  <2>2. SetFinal'
    BY <1>1, <2>1 DEF FinalInv, SetFinal, FinalOnChain
  <2>3. \/ Fail
        \/ /\ orphanedBlocks' = {} /\ upc' = "reward"
           /\ UNCHANGED <<stage, todo, maturedBlocks>>
    BY <1>16 DEF PendingOrphans, Send
  <2>4. QED
    BY <1>4, <1>5, <2>2, <2>3 DEF FinalInv
<1>17. CASE CreditOrphansDone
  BY <1>2, <1>5, <1>17 DEF CreditOrphansDone, FinalInv
<1>18. CASE BlocksDone
  BY <1>2, <1>4, <1>18 DEF BlocksDone, FinalInv
<1>19. ASSUME NEW item \in Lists, WriteMaturedBlocks(item),
              item.key.height + Depth =< tip + 1,
              item.data.orphan <=> chain[item.key.height] # item.key.id
       PROVE  SetFinal'
  <2> DEFINE new == Key(item.data)
  <2>1. new.id = item.key.id /\ new.height = item.key.height /\ new.orphan = item.data.orphan
    BY <1>6, <1>7, <1>19 DEF Key, BlockData
  <2>2. matured' = matured \cup {new}
    BY <1>19 DEF WriteMaturedBlocks
  <2> HIDE DEF new
  <2>3. QED
    BY <1>1, <1>19, <2>1, <2>2 DEF FinalInv, SetFinal, FinalOnChain
<1>20. ASSUME NEW item \in orphanedBlocks, CreditOrphan(item)
       PROVE  FinalInv'
  <2>1. /\ stage = "credit" /\ upc = "orphans" /\ item \in Lists
        /\ item.key.height + Depth =< tip + 1
        /\ item.data.orphan /\ chain[item.key.height] # item.key.id
    BY <1>20 DEF CreditOrphan, Lists, FinalInv, PassFinal
  <2>2. SetFinal'
    <3>1. UNCHANGED storageVars \/ WriteMaturedBlocks(item)
      BY <1>20 DEF CreditOrphan, Settle, Send, WriteOrphan
    <3>2. QED
      BY <1>2, <1>19, <2>1, <3>1
  <2>3. \/ Fail \/ Panic("nilTx")
        \/ /\ orphanedBlocks' = orphanedBlocks \ {item}
           /\ UNCHANGED <<stage, upc, todo, maturedBlocks>>
    BY <1>20 DEF CreditOrphan, Settle, Send
  <2>4. PassFinal'
    BY <1>4, <1>5, <2>1, <2>3 DEF Panic, passVars
  <2>5. QED
    BY <2>2, <2>4 DEF FinalInv
<1>21. ASSUME NEW item \in maturedBlocks, RewardBlock(item)
       PROVE  FinalInv'
  BY <1>2, <1>4, <1>5, <1>21 DEF RewardBlock, FinalInv
<1>22. ASSUME NEW item \in maturedBlocks, WritePending(item)
       PROVE  FinalInv'
  <2>1. UNCHANGED matured
    BY <1>22 DEF WritePending, Send, WriteImmatureBlock, storageVars, blockVars
  <2>2. SetFinal'
    BY <1>1, <2>1 DEF FinalInv, SetFinal, FinalOnChain
  <2>3. Fail \/ Written(item)
    BY <1>22 DEF WritePending, Send
  <2>4. PassFinal'
    BY <1>4, <1>5, <2>3 DEF Written
  <2>5. QED
    BY <2>2, <2>4 DEF FinalInv
<1>23. ASSUME NEW item \in maturedBlocks, WriteCredit(item)
       PROVE  FinalInv'
  <2>1. /\ stage = "credit" /\ upc = "write" /\ item \in Lists
        /\ item.key.height + Depth =< tip + 1
        /\ ~item.data.orphan /\ chain[item.key.height] = item.key.id
    BY <1>23 DEF WriteCredit, Lists, FinalInv, PassFinal
  <2>2. SetFinal'
    <3>1. UNCHANGED storageVars \/ WriteMaturedBlocks(item)
      BY <1>23 DEF WriteCredit, Settle, Send, WriteMaturedBlock
    <3>2. QED
      BY <1>2, <1>19, <2>1, <3>1
  <2>3. Fail \/ Panic("nilTx") \/ Written(item)
    BY <1>23 DEF WriteCredit, Settle, Send
  <2>4. PassFinal'
    BY <1>4, <1>5, <2>1, <2>3 DEF Panic, passVars, Written
  <2>5. QED
    BY <2>2, <2>4 DEF FinalInv
<1>24. QED
  BY <1>9, <1>10, <1>11, <1>12, <1>13, <1>14, <1>15, <1>16, <1>17, <1>18, <1>20, <1>21, <1>22,
     <1>23 DEF UnlockerStep, UnlockerNext

(* Where no reorganisation reaches Depth blocks back and no two blocks     *)
(* share a nonce, a matured block is credited if and only if it is on the  *)
(* chain, then and at any later time.                                      *)
THEOREM Finality ==
    ASSUME ReorgsShallow, NoncesDistinct
    PROVE  Spec => []FinalOnChain
<1>1. Init => FinalInv
  BY DEF Init, StorageInit, UnlockerInit, FinalInv, SetFinal, PassFinal, FinalOnChain
<1>2. TypeOK /\ StageInv /\ FinalInv /\ [Next]_vars => FinalInv'
  <2> SUFFICES ASSUME TypeOK, StageInv, FinalInv, [Next]_vars
               PROVE  FinalInv'
    OBVIOUS
  <2>1. ASSUME UNCHANGED <<daemonVars, storageVars, passVars>>
        PROVE  FinalInv'
    BY <2>1 DEF daemonVars, storageVars, blockVars, passVars, FinalInv, SetFinal, PassFinal,
       FinalOnChain, Lists
  <2>2. CASE Crash
    BY <2>1, <2>2 DEF Crash
  <2>3. CASE Restart
    BY <2>3 DEF Restart, StartPass, daemonVars, storageVars, blockVars, FinalInv, SetFinal,
       PassFinal, FinalOnChain, Lists
  <2>4. CASE UNCHANGED vars
    BY <2>1, <2>4 DEF vars, unlockerVars
  <2>5. QED
    BY <2>2, <2>3, <2>4, OutsideFinal, UnlockerFinal DEF Next
<1>3. FinalInv => FinalOnChain
  BY DEF FinalInv, SetFinal
<1>4. Spec => []StageInv
  <2>1. TypeOK /\ StageInv /\ [Next]_vars => StageInv'
    BY NextStage
  <2>2. QED
    BY <2>1, InitStage, TypeInvariant, PTL DEF Spec
<1>5. QED
  BY <1>1, <1>2, <1>3, <1>4, TypeInvariant, PTL DEF Spec

-----------------------------------------------------------------------------
(* What the unlocker does to Redis *)

(* HGETALL of the immature credits does not fail inside a WATCHed          *)
(* transaction that is then committed.                                     *)
ReadsSucceed == "read" \notin FaultKinds

(* A step of the unlocker applies one transaction to Redis, or none.  The  *)
(* log it settles is the entry of its block, unless HGETALL failed.        *)
Settled(item, log) ==
    /\ log \in [Accounts -> Nat]
    /\ ReadsSucceed => log = creditsImmature[CreditKey(item.data)]

LEMMA UnlockerStores ==
    ASSUME TypeOK, UnlockerStep
    PROVE  \/ UNCHANGED storageVars
           \/ stage = "pending" /\ WritePendingOrphans(orphanedBlocks)
           \/ \E item \in maturedBlocks :
                 /\ upc = "write" /\ item = First(maturedBlocks)
                 /\ \/ stage = "pending" /\ WriteImmatureBlock(item, rewards)
                    \/ /\ stage = "credit"
                       /\ \E log : Settled(item, log) /\ WriteMaturedBlock(item, rewards, log)
           \/ \E item \in orphanedBlocks :
                 /\ stage = "credit"
                 /\ \E log : Settled(item, log) /\ WriteOrphan(item, log)
<1>1. ASSUME NEW item \in maturedBlocks \cup orphanedBlocks
      PROVE  /\ Settled(item, creditsImmature[CreditKey(item.data)])
             /\ "read" \in FaultKinds => Settled(item, NoCredits)
  <2>1. item.data \in BlockData
    BY DEF TypeOK, UnlockerTypeOK, Item
  <2>2. creditsImmature[CreditKey(item.data)] \in [Accounts -> Nat]
    BY <2>1 DEF TypeOK, StorageTypeOK, MoneyTypeOK, CreditKey, CreditKeys, BlockData
  <2>3. NoCredits \in [Accounts -> Nat]
    BY DEF NoCredits
  <2>4. QED
    BY <2>2, <2>3 DEF Settled, ReadsSucceed
<1>2. ASSUME NEW item \in orphanedBlocks, CreditOrphan(item), ~UNCHANGED storageVars
      PROVE  /\ stage = "credit"
             /\ \E log : Settled(item, log) /\ WriteOrphan(item, log)
  <2>1. /\ stage = "credit"
        /\ \/ WriteOrphan(item, creditsImmature[CreditKey(item.data)])
           \/ "read" \in FaultKinds /\ WriteOrphan(item, NoCredits)
    BY <1>2 DEF CreditOrphan, Settle, Send, Fault
  <2>2. QED
    BY <1>1, <2>1
<1>3. ASSUME NEW item \in maturedBlocks, WriteCredit(item), ~UNCHANGED storageVars
      PROVE  /\ stage = "credit" /\ upc = "write" /\ item = First(maturedBlocks)
             /\ \E log : Settled(item, log) /\ WriteMaturedBlock(item, rewards, log)
  <2>1. /\ stage = "credit" /\ upc = "write" /\ item = First(maturedBlocks)
        /\ \/ WriteMaturedBlock(item, rewards, creditsImmature[CreditKey(item.data)])
           \/ "read" \in FaultKinds /\ WriteMaturedBlock(item, rewards, NoCredits)
    BY <1>3 DEF WriteCredit, Settle, Send, Fault
  <2>2. QED
    BY <1>1, <2>1
<1>4. ASSUME NEW item \in maturedBlocks, WritePending(item), ~UNCHANGED storageVars
      PROVE  /\ stage = "pending" /\ upc = "write" /\ item = First(maturedBlocks)
             /\ WriteImmatureBlock(item, rewards)
  BY <1>4 DEF WritePending, Send
<1>5. ASSUME PendingOrphans, ~UNCHANGED storageVars
      PROVE  stage = "pending" /\ WritePendingOrphans(orphanedBlocks)
  BY <1>5 DEF PendingOrphans, Send
<1>6. \/ UNCHANGED storageVars
      \/ PendingOrphans
      \/ \E item \in orphanedBlocks : CreditOrphan(item)
      \/ \E item \in maturedBlocks : WritePending(item) \/ WriteCredit(item)
  BY DEF UnlockerStep, UnlockerNext, BeginPass, GetBlockCount, FetchBlocks, CheckFails,
     CheckMatched, CheckOrphaned, CheckMismatch, CreditOrphansDone, BlocksDone, RewardBlock
<1>7. QED
  BY <1>2, <1>3, <1>4, <1>5, <1>6

-----------------------------------------------------------------------------
(* What the sessions and Redis remember *)

(* No submission is for a height that checkPoWExist would wrap below zero: *)
(* the chain is older than the window.                                     *)
HeightsAboveWindow == PowWindow =< FirstHeight

(* A submission may be one template behind: handleSubmitRPC accepts it.    *)
LagAllowed == 1 =< MaxLag

(* How far a submission may lag behind, and a score behind its claim. *)
LagInv ==
    \A s \in Sessions : writers[s] # Idle =>
        writers[s].height =< tip + 1 /\ tip + 1 =< writers[s].height + MaxLag

ClaimInv ==
    \A p \in PoWs :
        /\ claimedAt[p] =< tip + 1
        /\ pow[p] # 0 => claimedAt[p] # 0 /\ claimedAt[p] =< pow[p] + MaxLag

PowInv == LagInv /\ ClaimInv /\ PowRemembered

LEMMA RemainderBound ==
    ASSUME NEW x \in Nat, NEW w \in Nat \ {0}
    PROVE  x % w =< x
<1>1. x % w \in 0 .. w - 1 /\ x = w * (x \div w) + (x % w) /\ x \div w \in Int
  OBVIOUS
<1>2. CASE x \div w >= 0
  <2>1. w * (x \div w) >= 0
    BY <1>1, <1>2
  <2>2. QED
    BY <1>1, <2>1
<1>3. CASE x \div w < 0
  <2>1. w * (x \div w) =< -w
    BY <1>1, <1>3
  <2>2. QED
    BY <1>1, <2>1
<1>4. QED
  BY <1>1, <1>2, <1>3

(* Everything that leaves the window is at least PowWindow heights old. *)
LEMMA WindowKept ==
    ASSUME HeightsAboveWindow, NEW h \in Heights
    PROVE  PruneBelow(h) \in Int /\ PruneBelow(h) =< h - PowWindow
<1>1. h - PowWindow \in Nat
  BY DaemonAssumption, StorageAssumption DEF Heights, HeightsAboveWindow
<1>2. QED
  BY <1>1, RemainderBound, StorageAssumption DEF PruneBelow

(* Commands that leave pow alone, or touch no session but one that stops. *)
LEMMA PowQuiet ==
    ASSUME TypeOK, TypeOK', PowInv, UNCHANGED <<pow, claimedAt>>, tip =< tip',
           \A s \in Sessions : writers'[s] # Idle =>
              writers'[s].height =< tip' + 1 /\ tip' + 1 =< writers'[s].height + MaxLag
    PROVE  PowInv'
<1>1. /\ tip \in Int /\ tip' \in Int /\ MaxLag \in Nat /\ PowWindow \in Nat
      /\ \A p \in PoWs : claimedAt[p] \in Int /\ pow[p] \in Int
  BY WriterAssumption, StorageAssumption, DaemonAssumption
     DEF TypeOK, DaemonTypeOK, StorageTypeOK, ShareTypeOK, Heights
<1>2. LagInv'
  BY DEF LagInv
<1>3. ClaimInv'
  BY <1>1 DEF PowInv, ClaimInv
<1>4. PowRemembered'
  BY <1>1 DEF PowInv, PowRemembered, PowExists
<1>5. QED
  BY <1>2, <1>3, <1>4 DEF PowInv

LEMMA PruneKeeps ==
    ASSUME HeightsAboveWindow, TypeOK, PowInv, UNCHANGED tip,
           NEW s \in Sessions, writers[s] # Idle, PrunePow(writers[s].height)
    PROVE  ClaimInv' /\ PowRemembered'
<1> DEFINE h == writers[s].height
<1>1. h \in Heights /\ h =< tip + 1
  BY DEF TypeOK, WriterTypeOK, Submission, PowInv, LagInv
<1>2. /\ tip \in Int /\ MaxLag \in Nat /\ PowWindow \in Nat /\ h \in Int
      /\ pow \in [PoWs -> Int] /\ claimedAt \in [PoWs -> Int]
  BY <1>1, WriterAssumption, StorageAssumption, DaemonAssumption
     DEF TypeOK, DaemonTypeOK, StorageTypeOK, ShareTypeOK, Heights
<1>3. PruneBelow(h) \in Int /\ PruneBelow(h) =< h - PowWindow
  BY <1>1, WindowKept
<1>4. /\ pow' = [p \in PoWs |-> IF pow[p] < PruneBelow(h) THEN 0 ELSE pow[p]]
      /\ claimedAt' = claimedAt
  BY DEF PrunePow
<1> HIDE DEF h
<1>5. ClaimInv'
  BY <1>2, <1>4 DEF PowInv, ClaimInv
<1>6. ASSUME NEW p \in PoWs, claimedAt[p] # 0, tip + 1 =< claimedAt[p] + PowWindow - MaxLag
      PROVE  pow'[p] # 0
  <2>1. pow[p] # 0
    BY <1>6 DEF PowInv, PowRemembered, PowExists
  <2>2. claimedAt[p] =< pow[p] + MaxLag
    BY <2>1 DEF PowInv, ClaimInv
  <2>3. ~(pow[p] < PruneBelow(h))
    BY <1>1, <1>2, <1>3, <1>6, <2>2
  <2>4. QED
    BY <1>4, <2>1, <2>3
<1>7. PowRemembered'
  BY <1>4, <1>6 DEF PowRemembered, PowExists
<1>8. QED
  BY <1>5, <1>7

LEMMA AddKeeps ==
    ASSUME TypeOK, PowInv, UNCHANGED tip, NEW s \in Sessions, writers[s] # Idle,
           AddPow(writers[s].pow, writers[s].height)
    PROVE  ClaimInv' /\ PowRemembered'
<1> DEFINE h == writers[s].height
           q == writers[s].pow
<1>1. h \in Heights /\ h =< tip + 1 /\ tip + 1 =< h + MaxLag /\ q \in PoWs
  BY DEF TypeOK, WriterTypeOK, Submission, PowInv, LagInv, PoWs
<1>2. /\ tip \in Int /\ MaxLag \in Nat /\ PowWindow \in Nat /\ h \in Int /\ h # 0
      /\ pow \in [PoWs -> Int] /\ claimedAt \in [PoWs -> Int]
  BY <1>1, WriterAssumption, StorageAssumption, DaemonAssumption
     DEF TypeOK, DaemonTypeOK, StorageTypeOK, ShareTypeOK, Heights
<1>3. /\ pow' = [pow EXCEPT ![q] = h]
      /\ claimedAt' = IF pow[q] # 0 THEN claimedAt ELSE [claimedAt EXCEPT ![q] = h]
  BY DEF AddPow, PowExists
<1> HIDE DEF h, q
<1>4. ClaimInv'
  BY <1>1, <1>2, <1>3 DEF PowInv, ClaimInv
<1>5. PowRemembered'
  BY <1>1, <1>2, <1>3 DEF PowInv, PowRemembered, PowExists
<1>6. QED
  BY <1>4, <1>5

(* Every session is where it was, has gone on, has stopped or has begun a  *)
(* submission for the template of the moment.                              *)
LEMMA SessionLag ==
    ASSUME LagAllowed, TypeOK, PowInv, SessionStep
    PROVE  LagInv' /\ tip \in Int /\ tip' \in Int /\ tip =< tip'
<1>1. /\ writers \in [Sessions -> {Idle} \cup Submission]
      /\ tip \in Int /\ MaxLag \in Nat
      /\ \A s \in Sessions : writers[s] # Idle => writers[s].height \in Int
  BY WriterAssumption, DaemonAssumption
     DEF TypeOK, DaemonTypeOK, WriterTypeOK, Submission, Heights
<1>2. ASSUME NEW s \in Sessions, UNCHANGED tip, NEW w,
             writers' = [writers EXCEPT ![s] = w] \/ UNCHANGED writers,
             \/ w = Idle
             \/ w.height =< tip + 1 /\ tip + 1 =< w.height + MaxLag
      PROVE  LagInv'
  BY <1>1, <1>2 DEF PowInv, LagInv
<1>3. ASSUME NEW s \in Sessions, UNCHANGED tip, NEW pc, writers[s] # Idle,
             \/ Goto(s, pc) \/ Finish(s)
             \/ \E t : writers' = [writers EXCEPT ![s].pc = pc, ![s].total = t]
      PROVE  LagInv'
  <2>1. /\ writers[s].height =< tip + 1 /\ tip + 1 =< writers[s].height + MaxLag
        /\ writers[s] \in Submission
    BY <1>1, <1>3 DEF PowInv, LagInv
  <2>2. CASE Goto(s, pc)
    <3> DEFINE w == [writers[s] EXCEPT !.pc = pc]
    <3>1. w.height = writers[s].height /\ writers' = [writers EXCEPT ![s] = w]
      BY <2>1, <2>2 DEF Goto, Submission
    <3> HIDE DEF w
    <3>2. QED
      BY <1>2, <1>3, <2>1, <3>1
  <2>3. CASE Finish(s)
    BY <1>2, <1>3, <2>3 DEF Finish
  <2>4. ASSUME NEW t, writers' = [writers EXCEPT ![s].pc = pc, ![s].total = t]
        PROVE  LagInv'
    <3> DEFINE w == [writers[s] EXCEPT !.pc = pc, !.total = t]
    <3>1. w.height = writers[s].height /\ writers' = [writers EXCEPT ![s] = w]
      BY <1>1, <2>1, <2>4 DEF Submission
    <3> HIDE DEF w
    <3>2. QED
      BY <1>2, <1>3, <2>1, <3>1
  <2>5. QED
    BY <1>3, <2>2, <2>3, <2>4
<1>4. ASSUME NEW s \in Sessions, NEW p \in Shares, NEW l \in Logins, NEW h \in {tip, tip + 1},
             SubmitShare(s, p, l, h)
      PROVE  LagInv' /\ UNCHANGED tip
  <2>1. Submit(p, l, h).height =< tip + 1 /\ tip + 1 =< Submit(p, l, h).height + MaxLag
    BY <1>1 DEF Submit, LagAllowed
  <2>2. UNCHANGED tip /\ writers' = [writers EXCEPT ![s] = Submit(p, l, h)]
    BY <1>4 DEF SubmitShare, daemonVars
  <2>3. LagInv'
    BY <1>2, <2>1, <2>2
  <2>4. QED
    BY <2>2, <2>3
<1>5. ASSUME NEW s \in Sessions, NEW b \in Blocks, NEW l \in Logins, NEW h \in {tip, tip + 1},
             SubmitBlock(s, b, l, h)
      PROVE  LagInv' /\ tip' \in Int /\ tip =< tip'
  <2>1. /\ tip' = h /\ Timely
        /\ writers' = [writers EXCEPT ![s] = Submit(b, l, h)] \/ UNCHANGED writers
    BY <1>5 DEF SubmitBlock, AcceptBlock
  <2>2. Submit(b, l, h).height = h
    BY DEF Submit
  <2>3. \A r \in Sessions : writers[r] # Idle =>
          writers[r].height =< tip' + 1 /\ tip' + 1 =< writers[r].height + MaxLag
    BY <1>1, <2>1 DEF Timely, PowInv, LagInv
  <2>4. QED
    BY <1>1, <2>1, <2>2, <2>3 DEF LagInv, LagAllowed
<1>6. ASSUME NEW s \in Sessions, WriterStep(s)
      PROVE  LagInv' /\ UNCHANGED tip
  <2>1. UNCHANGED tip /\ writers[s] # Idle
    BY <1>6 DEF WriterStep, Prune, CheckPoWExist, ExecShare, ExecBlock, InsertCandidate,
       daemonVars, Idle
  <2>2. \/ Goto(s, "zadd") \/ Goto(s, "exec") \/ Finish(s)
        \/ \E t : writers' = [writers EXCEPT ![s].pc = "candidate", ![s].total = t]
    BY <1>6 DEF WriterStep, Prune, CheckPoWExist, ExecShare, ExecBlock, InsertCandidate, Send
  <2>3. QED
    BY <1>3, <2>1, <2>2
<1>7. QED
  BY <1>1, <1>4, <1>5, <1>6 DEF SessionStep, WriterNext

LEMMA SessionPow ==
    ASSUME HeightsAboveWindow, LagAllowed, TypeOK, TypeOK', PowInv, SessionStep
    PROVE  PowInv'
<1>1. LagInv' /\ tip =< tip'
  BY SessionLag
<1>2. CASE UNCHANGED <<pow, claimedAt>>
  BY <1>1, <1>2, PowQuiet DEF LagInv
<1>3. ASSUME NEW s \in Sessions, Prune(s), ~UNCHANGED <<pow, claimedAt>>
      PROVE  ClaimInv' /\ PowRemembered'
  BY <1>3, PruneKeeps DEF Prune, Idle, storageVars, shareVars, daemonVars
<1>4. ASSUME NEW s \in Sessions, CheckPoWExist(s), ~UNCHANGED <<pow, claimedAt>>
      PROVE  ClaimInv' /\ PowRemembered'
  BY <1>4, AddKeeps DEF CheckPoWExist, Send, Idle, storageVars, shareVars, daemonVars
<1>5. \/ UNCHANGED <<pow, claimedAt>>
      \/ \E s \in Sessions : Prune(s) \/ CheckPoWExist(s)
  BY DEF SessionStep, WriterNext, WriterStep, SubmitShare, SubmitBlock, ExecShare, ExecBlock,
     InsertCandidate, Send, WriteShareTx, WriteBlockTx, AddCandidate, storageVars, shareVars
<1>6. QED
  BY <1>1, <1>2, <1>3, <1>4, <1>5 DEF PowInv

(* The unlocker never touches the proofs of work. *)
LEMMA UnlockerKeepsPow == UnlockerStep => UNCHANGED <<pow, claimedAt>>
BY DEF UnlockerStep, UnlockerNext, BeginPass, GetBlockCount, FetchBlocks, CheckFails,
   CheckMatched, CheckOrphaned, CheckMismatch, CreditOrphansDone, BlocksDone, RewardBlock,
   PendingOrphans, CreditOrphan, WritePending, WriteCredit, Settle, Send, WritePendingOrphans,
   WriteImmatureBlock, WriteMaturedBlock, WriteOrphan, storageVars, shareVars

LEMMA NextPow ==
    ASSUME HeightsAboveWindow, LagAllowed, TypeOK, TypeOK', PowInv, [Next]_vars
    PROVE  PowInv'
<1>1. tip \in Int /\ tip' \in Int /\ MaxLag \in Nat
      /\ \A s \in Sessions : writers[s] # Idle => writers[s].height \in Int
  BY WriterAssumption, DaemonAssumption
     DEF TypeOK, DaemonTypeOK, WriterTypeOK, Submission, Heights
<1>2. CASE SessionStep
  BY <1>2, SessionPow
<1>3. CASE UnlockerStep \/ Crash \/ UNCHANGED vars
  <2>1. UNCHANGED <<pow, claimedAt, tip, writers>>
    BY <1>3, UnlockerKeepsPow DEF Crash, vars, UnlockerStep, storageVars, shareVars, daemonVars
  <2>2. QED
    BY <1>1, <2>1, PowQuiet DEF PowInv, LagInv
<1>4. CASE ChainStep
  <2>1. /\ UNCHANGED <<pow, claimedAt, writers>> /\ tip' = tip + 1 /\ Timely
    BY <1>4 DEF ChainStep, NewBlocks, storageVars, shareVars
  <2>2. QED
    BY <1>1, <2>1, PowQuiet DEF PowInv, LagInv, Timely
<1>5. CASE Restart
  <2>1. UNCHANGED <<pow, claimedAt, tip>> /\ \A s \in Sessions : writers'[s] = Idle
    BY <1>5 DEF Restart, storageVars, shareVars, daemonVars
  <2>2. QED
    BY <1>1, <2>1, PowQuiet
<1>6. QED
  BY <1>2, <1>3, <1>4, <1>5 DEF Next

(* A proof of work that was new is known for as long as a duplicate of it  *)
(* can pass the height check of handleSubmitRPC, whoever prunes meanwhile  *)
(* and whatever fails: checkPoWExist keeps PowWindow heights, and a late   *)
(* duplicate moves a score back by no more than a submission lags.         *)
THEOREM PowsRemembered ==
    ASSUME HeightsAboveWindow, LagAllowed
    PROVE  Spec => []PowRemembered
<1>1. Init => PowInv
  <2> SUFFICES ASSUME Init PROVE PowInv
    OBVIOUS
  <2>1. (\A s \in Sessions : writers[s] = Idle) /\ tip = FirstHeight
    BY DEF Init, WriterInit, DaemonInit
  <2>2. \A p \in PoWs : pow[p] = 0 /\ claimedAt[p] = 0
    BY DEF Init, StorageInit
  <2>3. QED
    BY <2>1, <2>2, DaemonAssumption DEF PowInv, LagInv, ClaimInv, PowRemembered
<1>2. TypeOK /\ TypeOK' /\ PowInv /\ [Next]_vars => PowInv'
  BY NextPow
<1>3. PowInv => PowRemembered
  BY DEF PowInv
<1>4. QED
  BY <1>1, <1>2, <1>3, TypeInvariant, PTL DEF Spec

-----------------------------------------------------------------------------
(* A foreign block that bears the nonce of a block of the pool pays what   *)
(* the unlocker expects, so that unlockCandidates never panics.            *)
RewardsAgree ==
    \A b \in Blocks : NonceOf[b] = NonceOf[Foreign] => ForeignReward = CoinBase + TxFee

(* While nothing has failed the process is up, and a block's submission    *)
(* was the first to claim its proof of work.                               *)
ClaimedByOwner ==
    faults = 0 =>
        \A b \in Blocks : pow[b] # 0 =>
            /\ minedAt[b] # 0
            /\ \A s \in Sessions : writers[s] # Idle /\ writers[s].pow = b =>
                  writers[s].pc \notin {"prune", "zadd"}

TrackInv ==
    /\ AcceptedBlockTracked
    /\ faults = 0 => proc = "up"
    /\ ClaimedByOwner

LEMMA FaultsGrow ==
    ASSUME TypeOK, [Next]_vars
    PROVE  faults' = faults \/ faults' # 0
<1>1. ASSUME NEW kind, Fault(kind)
      PROVE  faults' # 0
  BY <1>1 DEF Fault, TypeOK
<1>2. CASE SessionStep
  BY <1>1, <1>2 DEF SessionStep, WriterNext, WriterStep, SubmitShare, SubmitBlock, Prune,
     CheckPoWExist, ExecShare, ExecBlock, InsertCandidate, Send
<1>3. CASE UnlockerStep
  <2>1. ASSUME NEW item \in todo,
               CheckMatched(item) \/ CheckOrphaned(item) \/ CheckMismatch(item)
        PROVE  faults' = faults
    BY <2>1 DEF CheckMatched, CheckOrphaned, CheckMismatch
  <2>2. ASSUME NEW item \in orphanedBlocks, CreditOrphan(item)
        PROVE  faults' = faults \/ faults' # 0
    BY <1>1, <2>2 DEF CreditOrphan, Settle, Send
  <2>3. ASSUME NEW item \in maturedBlocks,
               RewardBlock(item) \/ WritePending(item) \/ WriteCredit(item)
        PROVE  faults' = faults \/ faults' # 0
    BY <1>1, <2>3 DEF RewardBlock, WritePending, WriteCredit, Settle, Send
  <2>4. CASE \/ BeginPass \/ GetBlockCount \/ FetchBlocks \/ CheckFails
             \/ PendingOrphans \/ CreditOrphansDone \/ BlocksDone
    BY <1>1, <2>4 DEF BeginPass, GetBlockCount, FetchBlocks, CheckFails, PendingOrphans,
       CreditOrphansDone, BlocksDone, Send
  <2>5. QED
    BY <1>3, <2>1, <2>2, <2>3, <2>4 DEF UnlockerStep, UnlockerNext
<1>4. CASE ChainStep \/ Crash \/ Restart \/ UNCHANGED vars
  BY <1>1, <1>4 DEF ChainStep, Crash, Restart, vars
<1>5. QED
  BY <1>2, <1>3, <1>4 DEF Next

(* Without failures the process never dies. *)
LEMMA StaysUp ==
    ASSUME RewardsAgree, TypeOK, proc = "up", [Next]_vars, UNCHANGED faults
    PROVE  proc' = "up"
<1>1. ASSUME NEW kind PROVE ~Fault(kind)
  BY DEF Fault, TypeOK
<1>2. CASE UnlockerStep
  <2>1. ASSUME NEW item \in todo PROVE ~CheckMismatch(item)
    <3>1. item.data \in BlockData
      BY DEF TypeOK, UnlockerTypeOK, Item
    <3>2. item.data.id \in Blocks /\ item.data.height \in Heights
      BY <3>1 DEF BlockData
    <3>3. QED
      BY <3>2 DEF RewardsAgree, CheckMismatch, NonceMatches, RewardMatches, HeaderNonce,
         HeaderReward
  <2>2. ASSUME NEW item \in todo, CheckMatched(item) \/ CheckOrphaned(item)
        PROVE  proc' = proc
    BY <2>2 DEF CheckMatched, CheckOrphaned
  <2>3. ASSUME NEW item \in orphanedBlocks, CreditOrphan(item)
        PROVE  proc' = proc
    BY <1>1, <2>3 DEF CreditOrphan, Settle
  <2>4. ASSUME NEW item \in maturedBlocks,
               RewardBlock(item) \/ WritePending(item) \/ WriteCredit(item)
        PROVE  proc' = proc
    BY <1>1, <2>4 DEF RewardBlock, WritePending, WriteCredit, Settle
  <2>5. CASE \/ BeginPass \/ GetBlockCount \/ FetchBlocks \/ CheckFails
             \/ PendingOrphans \/ CreditOrphansDone \/ BlocksDone
    BY <2>5 DEF BeginPass, GetBlockCount, FetchBlocks, CheckFails, PendingOrphans,
       CreditOrphansDone, BlocksDone
  <2>6. QED
    BY <1>2, <2>1, <2>2, <2>3, <2>4, <2>5 DEF UnlockerStep, UnlockerNext
<1>3. CASE SessionStep \/ ChainStep \/ Crash \/ Restart \/ UNCHANGED vars
  BY <1>1, <1>3 DEF SessionStep, ChainStep, Crash, Restart, vars, unlockerVars
<1>4. QED
  BY <1>2, <1>3 DEF Next

(* A block that is stored stays stored, in whatever set. *)
LEMMA StoredStays ==
    ASSUME TypeOK, StageInv, [Next]_vars, NEW x \in Stored
    PROVE  \E y \in Stored' : y.id = x.id
<1>1. ASSUME NEW i \in Lists
      PROVE  i.key.id = i.data.id /\ Key(i.data).id = i.data.id
  <2>1. i.data \in BlockData
    BY DEF Lists, TypeOK, UnlockerTypeOK, Item
  <2>2. QED
    BY <2>1, KeyType DEF StageInv, ListInv
<1>2. ASSUME NEW items \in SUBSET Lists, WriteImmatureBlocks(items), UNCHANGED matured
      PROVE  \E y \in Stored' : y.id = x.id
  <2>1. ASSUME NEW i \in items, i.key = x
        PROVE  \E y \in immature' : y.id = x.id
    BY <1>1, <1>2, <2>1 DEF WriteImmatureBlocks
  <2>2. QED
    BY <1>2, <2>1 DEF WriteImmatureBlocks, Stored
<1>3. ASSUME NEW item \in Lists, WriteMaturedBlocks(item), UNCHANGED candidates
      PROVE  \E y \in Stored' : y.id = x.id
  <2>1. Key(item.data) \in matured' /\ (item.key = x => Key(item.data).id = x.id)
    BY <1>1, <1>3 DEF WriteMaturedBlocks
  <2>2. x = item.key \/ x \in Stored'
    BY <1>3 DEF WriteMaturedBlocks, Stored
  <2>3. QED
    BY <2>1, <2>2 DEF Stored
<1>4. CASE UnlockerStep
  <2>1. CASE UNCHANGED storageVars
    BY <2>1 DEF storageVars, blockVars, Stored
  <2>2. CASE WritePendingOrphans(orphanedBlocks)
    BY <1>2, <2>2 DEF WritePendingOrphans, Lists
  <2>3. ASSUME NEW item \in maturedBlocks, WriteImmatureBlock(item, rewards)
        PROVE  \E y \in Stored' : y.id = x.id
    <3>1. {item} \in SUBSET Lists
      BY DEF Lists
    <3>2. QED
      BY <1>2, <2>3, <3>1 DEF WriteImmatureBlock
  <2>4. ASSUME NEW item \in Lists, NEW log,
               WriteMaturedBlock(item, rewards, log) \/ WriteOrphan(item, log)
        PROVE  \E y \in Stored' : y.id = x.id
    BY <1>3, <2>4 DEF WriteMaturedBlock, WriteOrphan
  <2>5. QED
    BY <1>4, <2>1, <2>2, <2>3, <2>4, UnlockerStores DEF Lists
<1>5. CASE SessionStep
  <2>1. candidates \subseteq candidates' /\ UNCHANGED <<immature, matured>>
    BY <1>5 DEF SessionStep, WriterNext, WriterStep, SubmitShare, SubmitBlock, Prune,
       CheckPoWExist, ExecShare, ExecBlock, InsertCandidate, Send, PrunePow, AddPow,
       WriteShareTx, WriteBlockTx, AddCandidate, storageVars, blockVars
  <2>2. QED
    BY <2>1 DEF Stored
<1>6. CASE ChainStep \/ Crash \/ Restart \/ UNCHANGED vars
  BY <1>6 DEF ChainStep, Crash, Restart, vars, storageVars, blockVars, Stored
<1>7. QED
  BY <1>4, <1>5, <1>6 DEF Next

(* A session keeps its block, unless it has stored it or something failed. *)
LEMMA SessionTracks ==
    ASSUME TypeOK, StageInv, TrackInv, SessionStep, faults = 0, UNCHANGED faults
    PROVE  AcceptedBlockTracked' /\ ClaimedByOwner'
<1>1. /\ writers \in [Sessions -> {Idle} \cup Submission]
      /\ minedAt \in [Blocks -> Heights \cup {0}] /\ pow \in [PoWs -> Heights \cup {0}]
      /\ Blocks \subseteq PoWs /\ 0 \notin Heights
      /\ \A kind : ~Fault(kind)
  BY DaemonAssumption DEF TypeOK, DaemonTypeOK, WriterTypeOK, StorageTypeOK, ShareTypeOK,
     Fault, PoWs, Heights
<1>2. /\ \A b \in Blocks : minedAt[b] # 0 =>
            \/ \E x \in Stored : x.id = b
            \/ \E s \in Sessions : writers[s] # Idle /\ writers[s].pow = b
      /\ \A b \in Blocks : pow[b] # 0 =>
            /\ minedAt[b] # 0
            /\ \A s \in Sessions : writers[s] # Idle /\ writers[s].pow = b =>
                  writers[s].pc \notin {"prune", "zadd"}
      /\ \A s, r \in Sessions : writers[s] # Idle /\ writers[r] # Idle /\ r # s
            /\ writers[s].pow \in Blocks => writers[r].pow # writers[s].pow
      /\ \A s \in Sessions : writers[s] # Idle /\ writers[s].pow \in Blocks =>
            minedAt[writers[s].pow] # 0
  <2>1. \A s \in Sessions : writers[s] # Idle => writers[s].height \in Heights
    BY <1>1 DEF Submission
  <2>2. QED
    BY <1>1, <2>1 DEF TrackInv, AcceptedBlockTracked, ClaimedByOwner, StageInv, WriterInv
<1>3. \A x \in Stored : \E y \in Stored' : y.id = x.id
  BY StoredStays DEF Next
<1>4. ASSUME NEW s \in Sessions, NEW p \in Shares, NEW l \in Logins, NEW h,
             SubmitShare(s, p, l, h)
      PROVE  AcceptedBlockTracked' /\ ClaimedByOwner'
  <2>1. /\ UNCHANGED <<pow, minedAt>> /\ writers[s] = Idle
        /\ writers' = [writers EXCEPT ![s] = Submit(p, l, h)]
    BY <1>4 DEF SubmitShare, storageVars, shareVars, daemonVars
  <2>2. Submit(p, l, h).pow \notin Blocks
    BY StorageAssumption DEF Submit
  <2>3. QED
    BY <1>1, <1>2, <1>3, <2>1, <2>2 DEF AcceptedBlockTracked, ClaimedByOwner
<1>5. ASSUME NEW s \in Sessions, NEW b \in Blocks, NEW l \in Logins, NEW h,
             SubmitBlock(s, b, l, h)
      PROVE  AcceptedBlockTracked' /\ ClaimedByOwner'
  <2>1. /\ UNCHANGED pow /\ writers[s] = Idle /\ minedAt[b] = 0
        /\ minedAt' = [minedAt EXCEPT ![b] = h] /\ h \in Heights
        /\ writers' = [writers EXCEPT ![s] = Submit(b, l, h)]
    BY <1>1, <1>5 DEF SubmitBlock, AcceptBlock, storageVars, shareVars
  <2>2. Submit(b, l, h).pow = b /\ Submit(b, l, h) # Idle
    BY DEF Submit, Idle
  <2>3. pow[b] = 0
    BY <1>2, <2>1
  <2>4. AcceptedBlockTracked'
    BY <1>1, <1>2, <1>3, <2>1, <2>2 DEF AcceptedBlockTracked
  <2>5. ClaimedByOwner'
    BY <1>1, <1>2, <2>1, <2>2, <2>3 DEF ClaimedByOwner
  <2>6. QED
    BY <2>4, <2>5
<1>6. ASSUME NEW s \in Sessions, UNCHANGED minedAt,
             \/ writers[s].pow \notin Blocks
             \/ \E y \in Stored' : y.id = writers[s].pow,
             writers[s] # Idle, Finish(s)
      PROVE  AcceptedBlockTracked'
  BY <1>1, <1>2, <1>3, <1>6 DEF AcceptedBlockTracked, Finish
<1>7. ASSUME NEW s \in Sessions, UNCHANGED minedAt, NEW w,
             writers[s] # Idle, w # Idle, w.pow = writers[s].pow,
             writers' = [writers EXCEPT ![s] = w]
      PROVE  AcceptedBlockTracked'
  BY <1>1, <1>2, <1>3, <1>7 DEF AcceptedBlockTracked
<1>8. ASSUME NEW s \in Sessions, NEW pc \in {"zadd", "exec"}, writers[s] # Idle
      PROVE  LET w == [writers[s] EXCEPT !.pc = pc]
             IN w # Idle /\ w.pow = writers[s].pow /\ w.pc = pc
  BY <1>1 DEF Submission, Idle
<1>9. ASSUME NEW s \in Sessions, Prune(s)
      PROVE  AcceptedBlockTracked' /\ ClaimedByOwner'
  <2> DEFINE w == [writers[s] EXCEPT !.pc = "zadd"]
  <2>1. /\ writers[s] # Idle /\ writers[s].pc = "prune"
        /\ writers' = [writers EXCEPT ![s] = w] /\ UNCHANGED minedAt
        /\ PrunePow(writers[s].height)
    BY <1>1, <1>9 DEF Prune, Goto, Idle, daemonVars
  <2>2. w # Idle /\ w.pow = writers[s].pow
    BY <1>8, <2>1
  <2>3. \A p \in PoWs : pow'[p] # 0 => pow[p] # 0
    BY <1>1, <2>1 DEF PrunePow
  <2> HIDE DEF w
  <2>4. AcceptedBlockTracked'
    BY <1>7, <2>1, <2>2
  <2>5. ClaimedByOwner'
    BY <1>1, <1>2, <2>1, <2>2, <2>3 DEF ClaimedByOwner
  <2>6. QED
    BY <2>4, <2>5
<1>10. ASSUME NEW s \in Sessions, CheckPoWExist(s)
       PROVE  AcceptedBlockTracked' /\ ClaimedByOwner'
  <2> DEFINE w == [writers[s] EXCEPT !.pc = "exec"]
  <2>1. /\ writers[s] # Idle /\ writers[s].pc = "zadd" /\ UNCHANGED minedAt
        /\ AddPow(writers[s].pow, writers[s].height)
        /\ IF PowExists(writers[s].pow) THEN Finish(s) ELSE writers' = [writers EXCEPT ![s] = w]
    BY <1>1, <1>10 DEF CheckPoWExist, Goto, Send, Idle, daemonVars
  <2>2. w # Idle /\ w.pow = writers[s].pow /\ w.pc = "exec"
    BY <1>8, <2>1
  <2>3. writers[s].pow \in Blocks => pow[writers[s].pow] = 0 /\ minedAt[writers[s].pow] # 0
    BY <1>2, <2>1
  <2>4. pow' = [pow EXCEPT ![writers[s].pow] = writers[s].height]
    BY <2>1 DEF AddPow
  <2> HIDE DEF w
  <2>5. AcceptedBlockTracked'
    BY <1>6, <1>7, <2>1, <2>2, <2>3 DEF PowExists
  <2>6. ASSUME NEW b \in Blocks, pow'[b] # 0
        PROVE  /\ minedAt'[b] # 0
               /\ \A r \in Sessions : writers'[r] # Idle /\ writers'[r].pow = b =>
                     writers'[r].pc \notin {"prune", "zadd"}
    <3>1. CASE b = writers[s].pow
      BY <1>1, <1>2, <2>1, <2>2, <2>3, <3>1 DEF PowExists
    <3>2. CASE b # writers[s].pow
      <4>1. pow[b] # 0
        BY <1>1, <2>4, <2>6, <3>2
      <4>2. QED
        BY <1>1, <1>2, <2>1, <2>2, <3>2, <4>1 DEF Finish
    <3>3. QED
      BY <3>1, <3>2
  <2>7. QED
    BY <2>5, <2>6 DEF ClaimedByOwner
<1>11. ASSUME NEW s \in Sessions, UNCHANGED <<minedAt, pow>>, writers[s] # Idle,
              writers[s].pc \notin {"prune", "zadd"}, NEW w,
              \/ w = Idle
              \/ w.pow = writers[s].pow /\ w.pc \notin {"prune", "zadd"},
              writers' = [writers EXCEPT ![s] = w]
       PROVE  ClaimedByOwner'
  BY <1>1, <1>2, <1>11 DEF ClaimedByOwner
<1>12. ASSUME NEW s \in Sessions, ExecShare(s)
       PROVE  AcceptedBlockTracked' /\ ClaimedByOwner'
  <2>1. /\ writers[s] # Idle /\ writers[s].pc = "exec" /\ UNCHANGED <<minedAt, pow>>
        /\ Finish(s) /\ writers[s].pow \notin Blocks
    BY <1>1, <1>12, StorageAssumption DEF ExecShare, Send, Idle, WriteShareTx, daemonVars
  <2>2. QED
    BY <1>6, <1>11, <2>1 DEF Finish
<1>13. ASSUME NEW s \in Sessions, ExecBlock(s)
       PROVE  AcceptedBlockTracked' /\ ClaimedByOwner'
  <2> DEFINE t == SumFunction(WithShare(writers[s].login))
             w == [writers[s] EXCEPT !.pc = "candidate", !.total = t]
  <2>1. /\ writers[s] # Idle /\ writers[s].pc = "exec" /\ UNCHANGED <<minedAt, pow>>
        /\ writers' = [writers EXCEPT ![s].pc = "candidate", ![s].total = t]
    BY <1>1, <1>13 DEF ExecBlock, Send, Idle, WriteBlockTx, daemonVars
  <2> HIDE DEF t
  <2>2. writers' = [writers EXCEPT ![s] = w]
    BY <1>1, <2>1
  <2>3. w # Idle /\ w.pow = writers[s].pow /\ w.pc = "candidate"
    BY <1>1, <2>1 DEF Submission, Idle
  <2> HIDE DEF w
  <2>4. QED
    BY <1>7, <1>11, <2>1, <2>2, <2>3
<1>14. ASSUME NEW s \in Sessions, InsertCandidate(s)
       PROVE  AcceptedBlockTracked' /\ ClaimedByOwner'
  <2>1. /\ writers[s] # Idle /\ writers[s].pc = "candidate" /\ UNCHANGED <<minedAt, pow>>
        /\ Finish(s)
        /\ candidates' = candidates \cup
              {Candidate(writers[s].pow, writers[s].height, writers[s].total)}
    BY <1>1, <1>14 DEF InsertCandidate, Send, Idle, AddCandidate, shareVars, daemonVars
  <2> DEFINE c == Candidate(writers[s].pow, writers[s].height, writers[s].total)
  <2>2. c.id = writers[s].pow /\ c \in candidates'
    BY <2>1 DEF Candidate
  <2> HIDE DEF c
  <2>3. QED
    BY <1>6, <1>11, <2>1, <2>2 DEF Finish, Stored
<1>15. QED
  BY <1>4, <1>5, <1>9, <1>10, <1>12, <1>13, <1>14 DEF SessionStep, WriterNext, WriterStep

LEMMA NextTracks ==
    ASSUME RewardsAgree, TypeOK, StageInv, TrackInv, [Next]_vars
    PROVE  TrackInv'
<1>1. CASE faults' # 0
  BY <1>1 DEF TrackInv, AcceptedBlockTracked, ClaimedByOwner
<1>2. CASE faults' = 0
  <2>1. faults = 0 /\ UNCHANGED faults
    BY <1>2, FaultsGrow
  <2>2. proc = "up" /\ proc' = "up"
    BY <2>1, StaysUp DEF TrackInv
  <2>3. CASE SessionStep
    BY <2>1, <2>2, <2>3, SessionTracks DEF TrackInv
  <2>4. CASE ~SessionStep
    <3>1. UNCHANGED <<writers, minedAt, pow>>
      BY <2>2, <2>4, UnlockerKeepsPow DEF Next, UnlockerStep, ChainStep, NewBlocks, Crash,
         Restart, vars, daemonVars, storageVars, shareVars
    <3>2. \A x \in Stored : \E y \in Stored' : y.id = x.id
      BY StoredStays
    <3>3. AcceptedBlockTracked'
      BY <2>1, <3>1, <3>2 DEF TrackInv, AcceptedBlockTracked
    <3>4. ClaimedByOwner'
      BY <2>1, <3>1 DEF TrackInv, ClaimedByOwner
    <3>5. QED
      BY <2>2, <3>3, <3>4 DEF TrackInv
  <2>5. QED
    BY <2>3, <2>4
<1>3. QED
  BY <1>1, <1>2

(* While nothing fails, no block that monerod accepted from the pool is    *)
(* forgotten: its session cannot find its own proof of work taken, and no  *)
(* pass of the unlocker drops it.                                          *)
THEOREM AcceptedBlocksTracked ==
    ASSUME RewardsAgree
    PROVE  Spec => []AcceptedBlockTracked
<1>1. Init => TrackInv
  <2> SUFFICES ASSUME Init PROVE TrackInv
    OBVIOUS
  <2>1. proc = "up" /\ (\A b \in Blocks : minedAt[b] = 0 /\ pow[b] = 0)
    BY DEF Init, UnlockerInit, DaemonInit, StorageInit, PoWs
  <2>2. QED
    BY <2>1 DEF TrackInv, AcceptedBlockTracked, ClaimedByOwner
<1>2. TypeOK /\ StageInv /\ TrackInv /\ [Next]_vars => TrackInv'
  BY NextTracks
<1>3. TypeOK /\ StageInv /\ [Next]_vars => StageInv'
  BY NextStage
<1>4. TrackInv => AcceptedBlockTracked
  BY DEF TrackInv
<1>5. QED
  BY <1>1, <1>2, <1>3, <1>4, InitStage, TypeInvariant, PTL DEF Spec
=============================================================================
