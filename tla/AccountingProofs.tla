-------------------------- MODULE AccountingProofs --------------------------
(***************************************************************************)
(* What the pool's books say, for every value of the constants: the shares *)
(* of every round, the immature balances, the balances and finances, what  *)
(* is paid for a block, and that Pool implements Ledger.                   *)
(***************************************************************************)
EXTENDS PoolLedger, PoolProofs

(* No two blocks of the pool have the round of one height and nonce.       *)
RoundsApart == \A b, c \in Blocks : NonceOf[b] = NonceOf[c] => b = c

(* A header with the nonce of a pool block and the reward the unlocker     *)
(* expects is the header of that block.                                    *)
HeadersTell ==
    \A b \in Blocks, c \in AnyBlock :
        NonceOf[b] = NonceOf[c] /\ (c = Foreign => ForeignReward = CoinBase + TxFee) => b = c

(* No miner logs in with the fee address as chargeFee writes it, in lower  *)
(* case: its account gets one rounded amount per block, not two.           *)
FeeAddressApart == FeeAccounts \cap Logins = {}

-----------------------------------------------------------------------------
(* What the unlocker holds of a block is what it read, but for the fields  *)
(* convertBlockResults and handleBlock set.                                *)
ItemInv ==
    /\ \A i \in todo : i.data = [i.key EXCEPT !.reward = 0]
    /\ \A i \in maturedBlocks :
          /\ i.data.total = i.key.total /\ ~i.data.orphan /\ i.data.reward = Reward
          /\ HeadersTell => i.data.hash = i.data.id
    /\ \A i \in orphanedBlocks :
          /\ i.data.total = i.key.total /\ i.data.orphan /\ i.data.reward = 0
          /\ i.data.hash = i.key.hash

(* The round of a block that is stored, or about to be, is all there, and  *)
(* a round that is not empty belongs to one block whose WriteBlock has run.*)
RoundOf(b) == FormatRound(minedAt[b], b)
RoundInv ==
    /\ RoundIntact
    /\ IsFiniteSet(matured)
    /\ \A s \in Sessions : writers[s].pc = "candidate" =>
          SumFunction(rounds[FormatRound(writers[s].height, writers[s].pow)]) = writers[s].total
    /\ \A k \in RoundKeys : rounds[k] # NoShares =>
          \E b \in Blocks :
             /\ k = RoundOf(b)
             /\ \A s \in Sessions : writers[s] # Idle /\ writers[s].pow = b =>
                   writers[s].pc = "candidate"

(* A candidate has no hash; an immature block has its own or none. *)
HashInv ==
    /\ \A x \in candidates : x.hash = NoHash
    /\ \A x \in immature : x.hash \in {ZeroHash, x.id}
    /\ \A m \in matured : ~m.orphan => m.hash = m.id

(* A log entry belongs to the block that is stored under its key. *)
LogInv ==
    /\ \A k \in CreditKeys : creditsImmature[k] # NoCredits =>
          \E x \in immature : x.hash = x.id /\ CreditKey(x) = k
    /\ \A k \in CreditKeys : credits[k] # NoCredits =>
          \E m \in matured : m.hash = m.id /\ CreditKey(m) = k

(* What calculateRewards makes of the round of a stored block *)
RewardsOf(x) == CalculateRewards(rounds[RoundKey(x)], x.total, Reward, ExtraReward)

-----------------------------------------------------------------------------
(* What a step does to the stored data *)

(* A step of a session touches neither money nor the two later sets. *)
LEMMA SessionStores ==
    ASSUME TypeOK, SessionStep
    PROVE  /\ UNCHANGED <<immature, matured, moneyVars, unlockerVars>>
           /\ \A x \in candidates' : x \in candidates \/ x.hash = NoHash
           /\ candidates \subseteq candidates'
<1>1. UNCHANGED unlockerVars
  BY DEF SessionStep
<1>2. /\ UNCHANGED <<immature, matured, moneyVars>>
      /\ \/ UNCHANGED candidates
         \/ \E b, h, total : candidates' = candidates \cup {Candidate(b, h, total)}
  BY DEF SessionStep, WriterNext, WriterStep, SubmitShare, SubmitBlock, Prune, CheckPoWExist,
     ExecShare, ExecBlock, InsertCandidate, Send, PrunePow, AddPow, WriteShareTx,
     WriteBlockTx, AddCandidate, storageVars, blockVars
<1>3. ASSUME NEW b, NEW h, NEW total
      PROVE  Candidate(b, h, total).hash = NoHash
  BY DEF Candidate
<1>4. QED
  BY <1>1, <1>2, <1>3

-----------------------------------------------------------------------------
(* What the unlocker holds *)

LEMMA NextItems ==
    ASSUME TypeOK, StageInv, ItemInv, [Next]_vars
    PROVE  ItemInv'
<1>1. ASSUME todo' \subseteq todo, maturedBlocks' \subseteq maturedBlocks,
             orphanedBlocks' \subseteq orphanedBlocks
      PROVE  ItemInv'
  BY <1>1 DEF ItemInv, Reward
<1>2. ASSUME NEW st, StartPass(st)
      PROVE  ItemInv'
  BY <1>2 DEF StartPass, ItemInv
<1>3. ASSUME Fail \/ EndPass
      PROVE  ItemInv'
  BY <1>2, <1>3 DEF Fail, EndPass
<1>4. CASE SessionStep \/ ChainStep \/ Crash \/ UNCHANGED vars
  BY <1>1, <1>4 DEF SessionStep, ChainStep, Crash, vars, unlockerVars, passVars
<1>5. CASE Restart
  BY <1>2, <1>5 DEF Restart
<1>6. CASE FetchBlocks
  <2>1. \/ Fail \/ EndPass
        \/ /\ todo' = {Convert(b) : b \in {b \in Source(stage) : b.height =< maxHeight}}
           /\ UNCHANGED <<maturedBlocks, orphanedBlocks>>
    BY <1>6 DEF FetchBlocks
  <2>2. \A b : Convert(b).data = [Convert(b).key EXCEPT !.reward = 0]
    BY DEF Convert
  <2>3. QED
    BY <1>3, <2>1, <2>2 DEF ItemInv, Reward
<1>7. ASSUME NEW item \in todo
      PROVE  /\ item \in Item /\ item.key \in BlockData /\ item.data \in BlockData
             /\ item.data = [item.key EXCEPT !.reward = 0]
  BY DEF TypeOK, UnlockerTypeOK, Item, ItemInv
<1>8. ASSUME NEW item \in todo, CheckMatched(item)
      PROVE  ItemInv'
  <2> DEFINE new == [item EXCEPT !.data = HandleBlock(@)]
  <2>1. /\ todo' \subseteq todo /\ maturedBlocks' = maturedBlocks \cup {new}
        /\ orphanedBlocks' = orphanedBlocks
        /\ NonceMatches(item.data) /\ RewardMatches(item.data)
    BY <1>8 DEF CheckMatched, Checked
  <2>2. /\ new.data.total = new.key.total /\ ~new.data.orphan /\ new.data.reward = Reward
        /\ new.data.id = item.data.id /\ new.data.hash = chain[item.data.height]
    BY <1>7 DEF Item, BlockData, HandleBlock, HeaderHash
  <2>3. HeadersTell => chain[item.data.height] = item.data.id
    <3>1. item.data.height \in Heights /\ item.data.id \in Blocks
      BY <1>7 DEF BlockData
    <3>2. chain[item.data.height] \in AnyBlock
      BY <3>1 DEF TypeOK, DaemonTypeOK
    <3>3. QED
      BY <2>1, <3>1, <3>2 DEF HeadersTell, NonceMatches, RewardMatches, HeaderNonce, HeaderReward
  <2> HIDE DEF new
  <2>4. QED
    BY <2>1, <2>2, <2>3 DEF ItemInv, Reward
<1>9. ASSUME NEW item \in todo, CheckOrphaned(item)
      PROVE  ItemInv'
  <2> DEFINE new == [item EXCEPT !.data.orphan = TRUE]
  <2>1. /\ todo' \subseteq todo /\ orphanedBlocks' = orphanedBlocks \cup {new}
        /\ maturedBlocks' = maturedBlocks
    BY <1>9 DEF CheckOrphaned, Checked
  <2>2. /\ new.data.total = new.key.total /\ new.data.orphan /\ new.data.reward = 0
        /\ new.data.hash = new.key.hash
    BY <1>7 DEF Item, BlockData
  <2> HIDE DEF new
  <2>3. QED
    BY <2>1, <2>2 DEF ItemInv, Reward
<1>10. CASE UnlockerStep
  <2>1. ASSUME NEW item \in orphanedBlocks, CreditOrphan(item)
        PROVE  ItemInv'
    BY <1>1, <1>3, <2>1 DEF CreditOrphan, Settle, Send, Panic, passVars
  <2>2. ASSUME NEW item \in maturedBlocks, RewardBlock(item) \/ WritePending(item) \/ WriteCredit(item)
        PROVE  ItemInv'
    BY <1>1, <1>3, <2>2 DEF RewardBlock, WritePending, WriteCredit, Written, Settle, Send, Panic,
       passVars
  <2>3. ASSUME NEW item \in todo, CheckMismatch(item)
        PROVE  ItemInv'
    BY <1>1, <2>3 DEF CheckMismatch, Panic, passVars
  <2>4. CASE BeginPass \/ GetBlockCount \/ CheckFails \/ CreditOrphansDone \/ BlocksDone
    BY <1>1, <1>3, <2>4 DEF BeginPass, GetBlockCount, CheckFails, CreditOrphansDone, BlocksDone
  <2>5. CASE PendingOrphans
    BY <1>1, <1>3, <2>5 DEF PendingOrphans, Send
  <2>6. QED
    BY <1>6, <1>8, <1>9, <1>10, <2>1, <2>2, <2>3, <2>4, <2>5 DEF UnlockerStep, UnlockerNext
<1>11. QED
  BY <1>4, <1>5, <1>10 DEF Next

-----------------------------------------------------------------------------
(* Rounds *)

LEMMA KeyFields ==
    ASSUME NEW d \in BlockData
    PROVE  /\ Key(d).id = d.id /\ Key(d).height = d.height /\ Key(d).total = d.total
           /\ Key(d).orphan = d.orphan /\ Key(d).reward = d.reward
           /\ Key(d).hash = IF d.hash = NoHash THEN ZeroHash ELSE d.hash
           /\ RoundKey(Key(d)) = RoundKey(d)
BY DEF Key, BlockData, RoundKey, FormatRound

LEMMA RoundKeysFinite == IsFiniteSet(RoundKeys)
<1>1. IsFiniteSet(Heights)
  BY DaemonAssumption, FS_Interval DEF Heights
<1>2. IsFiniteSet(Nonces)
  BY DaemonAssumption
<1>3. QED
  BY <1>1, <1>2, FS_Product DEF RoundKeys

LEMMA EmptyRound == SumFunction(NoShares) = 0 /\ NoShares \in [Logins -> Nat]
<1>1. NoShares \in [Logins -> Nat] /\ \A l \in Logins : NoShares[l] = 0
  BY DEF NoShares
<1>2. QED
  BY <1>1, RewardsAssumption, SumFunctionZero

(* The items of a list and the blocks they stand for *)
LEMMA ItemFields ==
    ASSUME TypeOK, StageInv, ItemInv, NEW i \in Lists
    PROVE  /\ i.key \in BlockData /\ i.data \in BlockData /\ i.key \in Source(stage)
           /\ i.data.id = i.key.id /\ i.data.height = i.key.height
           /\ i.data.total = i.key.total
           /\ RoundKey(i.data) = RoundKey(i.key) /\ RoundKey(i.key) \in RoundKeys
<1>1. i.key \in BlockData /\ i.data \in BlockData
  BY DEF Lists, TypeOK, UnlockerTypeOK, Item
<1>2. /\ i.key \in Source(stage) /\ i.data.id = i.key.id /\ i.data.height = i.key.height
  BY DEF StageInv, ListInv
<1>3. i.data.total = i.key.total
  BY <1>1 DEF Lists, ItemInv, BlockData
<1>4. RoundKey(i.data) = RoundKey(i.key) /\ RoundKey(i.key) \in RoundKeys
  BY <1>1, <1>2, FormatRoundType DEF RoundKey, FormatRound, BlockData
<1>5. QED
  BY <1>1, <1>2, <1>3, <1>4

(* Two blocks of the pool never share a round. *)
LEMMA RoundsDiffer ==
    ASSUME RoundsApart, NEW b \in Blocks, NEW c \in Blocks, b # c, NEW g, NEW h
    PROVE  FormatRound(g, b) # FormatRound(h, c)
BY DEF RoundsApart, FormatRound

(* Handing candidates on keeps the rounds. *)
LEMMA ImmatureRounds ==
    ASSUME TypeOK, StageInv, ItemInv, RoundInv, stage = "pending",
           NEW items \in SUBSET Lists, WriteImmatureBlocks(items),
           UNCHANGED <<rounds, matured, minedAt, writers>>
    PROVE  RoundInv'
<1>1. \A x \in candidates' \cup immature' : \E y \in candidates \cup immature :
        RoundKey(x) = RoundKey(y) /\ x.total = y.total
  <2>1. ASSUME NEW i \in items
        PROVE  /\ i.key \in candidates
               /\ RoundKey(Key(i.data)) = RoundKey(i.key) /\ Key(i.data).total = i.key.total
    BY ItemFields, KeyFields DEF Source
  <2>2. QED
    BY <2>1 DEF WriteImmatureBlocks
<1>2. RoundIntact'
  BY <1>1 DEF RoundInv, RoundIntact
<1>3. QED
  BY <1>2 DEF RoundInv, RoundOf

(* Settling a block deletes its round and no other. *)
LEMMA MaturedRounds ==
    ASSUME RoundsApart, TypeOK, StageInv, ItemInv, RoundInv, stage = "credit",
           NEW item \in Lists, WriteMaturedBlocks(item),
           UNCHANGED <<candidates, minedAt, writers>>
    PROVE  RoundInv'
<1> DEFINE k == RoundKey(item.key)
<1>1. /\ k \in RoundKeys /\ item.key \in immature /\ item.key.id \in Blocks
      /\ k = FormatRound(item.key.height, item.key.id) /\ item.key \in Stored
  BY ItemFields DEF Source, BlockData, RoundKey, Stored
<1>2. /\ rounds' = [rounds EXCEPT ![k] = NoShares]
      /\ immature' = immature \ {item.key}
      /\ matured' = matured \cup {Key(item.data)}
  BY ItemFields DEF WriteMaturedBlocks
<1>3. rounds \in [RoundKeys -> [Logins -> Nat]]
  BY DEF TypeOK, StorageTypeOK, ShareTypeOK
<1> HIDE DEF k
<1>4. ASSUME NEW b \in Blocks, b # item.key.id, NEW h \in Heights
      PROVE  rounds'[FormatRound(h, b)] = rounds[FormatRound(h, b)]
  <2>1. FormatRound(h, b) # k /\ FormatRound(h, b) \in RoundKeys
    BY <1>1, <1>4, RoundsDiffer, FormatRoundType
  <2>2. QED
    BY <1>2, <1>3, <2>1
<1>5. RoundIntact'
  <2> SUFFICES ASSUME NEW x \in candidates \cup (immature \ {item.key})
               PROVE  SumFunction(rounds'[RoundKey(x)]) = x.total /\ x.total > 0
    BY <1>2 DEF RoundIntact
  <2>1. x.id \in Blocks /\ x.height \in Heights
    BY DEF TypeOK, StorageTypeOK, BlockTypeOK, BlockData
  <2>2. x.id # item.key.id
    BY <1>1 DEF StageInv, BlockInOneStage, Stored
  <2>3. rounds'[RoundKey(x)] = rounds[RoundKey(x)]
    BY <1>4, <2>1, <2>2 DEF RoundKey
  <2>4. QED
    BY <2>3 DEF RoundInv, RoundIntact
<1>6. ASSUME NEW s \in Sessions, writers[s].pc = "candidate"
      PROVE  SumFunction(rounds'[FormatRound(writers[s].height, writers[s].pow)])
                = writers[s].total
  <2>1. /\ writers[s] # Idle /\ writers[s].pow \in Blocks /\ writers[s].height \in Heights
    BY <1>6 DEF TypeOK, WriterTypeOK, Submission, Idle
  <2>2. writers[s].pow # item.key.id
    BY <1>1, <2>1 DEF StageInv, WriterInv
  <2>3. QED
    BY <1>4, <1>6, <2>1, <2>2 DEF RoundInv
<1>7. ASSUME NEW j \in RoundKeys, rounds'[j] # NoShares
      PROVE  rounds[j] # NoShares
  BY <1>2, <1>3, <1>7
<1>8. IsFiniteSet(matured')
  BY <1>2, FS_AddElement DEF RoundInv
<1>9. QED
  BY <1>5, <1>6, <1>7, <1>8 DEF RoundInv, RoundOf

LEMMA UnlockerRounds ==
    ASSUME RoundsApart, TypeOK, StageInv, ItemInv, RoundInv, UnlockerStep
    PROVE  RoundInv'
<1>1. UNCHANGED <<writers, minedAt>>
  BY DEF UnlockerStep, daemonVars
<1>2. CASE UNCHANGED storageVars
  BY <1>1, <1>2 DEF RoundInv, RoundIntact, RoundOf, storageVars, blockVars, shareVars
<1>3. CASE stage = "pending" /\ WritePendingOrphans(orphanedBlocks)
  <2>1. orphanedBlocks \in SUBSET Lists
    BY DEF Lists
  <2>2. QED
    BY <1>1, <1>3, <2>1, ImmatureRounds DEF WritePendingOrphans, shareVars
<1>4. ASSUME NEW item \in maturedBlocks, stage = "pending", WriteImmatureBlock(item, rewards)
      PROVE  RoundInv'
  <2>1. {item} \in SUBSET Lists
    BY DEF Lists
  <2>2. QED
    BY <1>1, <1>4, <2>1, ImmatureRounds DEF WriteImmatureBlock, shareVars
<1>5. ASSUME NEW item \in maturedBlocks \cup orphanedBlocks, stage = "credit", NEW log,
             WriteMaturedBlock(item, rewards, log) \/ WriteOrphan(item, log)
      PROVE  RoundInv'
  <2>1. item \in Lists
    BY DEF Lists
  <2>2. QED
    BY <1>1, <1>5, <2>1, MaturedRounds DEF WriteMaturedBlock, WriteOrphan
<1>6. QED
  BY <1>2, <1>3, <1>4, <1>5, UnlockerStores

(* Every command of a session, and what it does to the sessions            *)
LEMMA SessionCommands ==
    ASSUME TypeOK, StageInv, SessionStep
    PROVE  \/ /\ UNCHANGED <<rounds, roundCurrent, work, blockVars>>
              /\ \A b \in Blocks : minedAt[b] # 0 => minedAt'[b] = minedAt[b]
              /\ \A s \in Sessions : writers'[s] # Idle =>
                    \/ writers'[s].pow \notin Blocks /\ writers'[s].pc # "candidate"
                    \/ minedAt[writers'[s].pow] = 0 /\ writers'[s].pc # "candidate"
                    \/ /\ writers[s] # Idle /\ writers'[s].pow = writers[s].pow
                       /\ writers'[s].height = writers[s].height
                       /\ writers'[s].total = writers[s].total
                       /\ writers'[s].pc = "candidate" <=> writers[s].pc = "candidate"
           \/ /\ \E s \in Sessions, l \in Logins :
                    writers' = [writers EXCEPT ![s] = Idle] /\ WriteShareTx(l)
              /\ UNCHANGED minedAt
           \/ /\ \E s \in Sessions :
                    /\ writers[s].pc = "exec" /\ writers[s].pow \in Blocks
                    /\ WriteBlockTx(writers[s].login, writers[s].pow, writers[s].height)
                    /\ \/ writers' = [writers EXCEPT ![s] = Idle]
                       \/ writers' = [writers EXCEPT ![s].pc = "candidate",
                                ![s].total = SumFunction(WithShare(writers[s].login))]
              /\ UNCHANGED minedAt
           \/ /\ \E s \in Sessions :
                    /\ writers[s].pc = "candidate"
                    /\ AddCandidate(writers[s].pow, writers[s].height, writers[s].total)
                    /\ writers' = [writers EXCEPT ![s] = Idle]
              /\ UNCHANGED minedAt
<1> DEFINE Quiet ==
             /\ UNCHANGED <<rounds, roundCurrent, work, blockVars>>
             /\ \A b \in Blocks : minedAt[b] # 0 => minedAt'[b] = minedAt[b]
             /\ \A s \in Sessions : writers'[s] # Idle =>
                   \/ writers'[s].pow \notin Blocks /\ writers'[s].pc # "candidate"
                   \/ minedAt[writers'[s].pow] = 0 /\ writers'[s].pc # "candidate"
                   \/ /\ writers[s] # Idle /\ writers'[s].pow = writers[s].pow
                      /\ writers'[s].height = writers[s].height
                      /\ writers'[s].total = writers[s].total
                      /\ writers'[s].pc = "candidate" <=> writers[s].pc = "candidate"
<1>1. /\ writers \in [Sessions -> {Idle} \cup Submission]
      /\ minedAt \in [Blocks -> Heights \cup {0}]
  BY DEF TypeOK, WriterTypeOK, DaemonTypeOK
<1>2. ASSUME NEW s \in Sessions, UNCHANGED <<rounds, roundCurrent, work, blockVars, minedAt>>,
             writers' = [writers EXCEPT ![s] = Idle]
      PROVE  Quiet
  BY <1>1, <1>2
<1>3. ASSUME NEW s \in Sessions, NEW p \in Shares, NEW l \in Logins, NEW h,
             SubmitShare(s, p, l, h)
      PROVE  Quiet
  <2>1. /\ UNCHANGED <<rounds, roundCurrent, work, blockVars, minedAt>>
        /\ writers' = [writers EXCEPT ![s] = Submit(p, l, h)]
    BY <1>3 DEF SubmitShare, storageVars, shareVars, daemonVars
  <2>2. Submit(p, l, h).pow \notin Blocks /\ Submit(p, l, h).pc # "candidate"
    BY StorageAssumption DEF Submit
  <2>3. QED
    BY <1>1, <2>1, <2>2
<1>4. ASSUME NEW s \in Sessions, NEW b \in Blocks, NEW l \in Logins, NEW h,
             SubmitBlock(s, b, l, h)
      PROVE  Quiet
  <2>1. /\ UNCHANGED <<rounds, roundCurrent, work, blockVars>>
        /\ minedAt[b] = 0 /\ minedAt' = [minedAt EXCEPT ![b] = h]
        /\ writers' = [writers EXCEPT ![s] = Submit(b, l, h)] \/ UNCHANGED writers
    BY <1>4 DEF SubmitBlock, AcceptBlock, storageVars, shareVars
  <2>2. Submit(b, l, h).pow = b /\ Submit(b, l, h).pc # "candidate"
    BY DEF Submit
  <2>3. QED
    BY <1>1, <2>1, <2>2
<1>5. ASSUME NEW s \in Sessions, writers[s].pc \in {"prune", "zadd"},
             NEW pc \in {"zadd", "exec"}, Goto(s, pc),
             UNCHANGED <<rounds, roundCurrent, work, blockVars, minedAt>>
      PROVE  Quiet
  <2> DEFINE w == [writers[s] EXCEPT !.pc = pc]
  <2>1. writers[s] # Idle /\ writers' = [writers EXCEPT ![s] = w]
    BY <1>5 DEF Idle, Goto
  <2>2. /\ w.pow = writers[s].pow /\ w.height = writers[s].height
        /\ w.total = writers[s].total /\ w.pc # "candidate"
    BY <1>1, <2>1 DEF Submission
  <2> HIDE DEF w
  <2>3. QED
    BY <1>1, <1>5, <2>1, <2>2
<1>6. ASSUME NEW s \in Sessions, Prune(s)
      PROVE  Quiet
  BY <1>5, <1>6 DEF Prune, PrunePow, storageVars, shareVars, daemonVars
<1>7. ASSUME NEW s \in Sessions, CheckPoWExist(s)
      PROVE  Quiet
  BY <1>2, <1>5, <1>7 DEF CheckPoWExist, Send, AddPow, Finish, storageVars, shareVars, daemonVars
<1>8. ASSUME NEW s \in Sessions, ExecShare(s)
      PROVE  /\ UNCHANGED minedAt
             /\ \/ Quiet
                \/ \E l \in Logins : writers' = [writers EXCEPT ![s] = Idle] /\ WriteShareTx(l)
  <2>1. writers[s].login \in Logins
    BY <1>1, <1>8 DEF ExecShare, Submission, Idle
  <2>2. QED
    BY <1>2, <1>8, <2>1 DEF ExecShare, Send, Finish, storageVars, shareVars, daemonVars
<1>9. ASSUME NEW s \in Sessions, ExecBlock(s)
      PROVE  /\ UNCHANGED minedAt
             /\ \/ Quiet
                \/ /\ writers[s].pc = "exec" /\ writers[s].pow \in Blocks
                   /\ WriteBlockTx(writers[s].login, writers[s].pow, writers[s].height)
                   /\ \/ writers' = [writers EXCEPT ![s] = Idle]
                      \/ writers' = [writers EXCEPT ![s].pc = "candidate",
                               ![s].total = SumFunction(WithShare(writers[s].login))]
  BY <1>2, <1>9 DEF ExecBlock, Send, Finish, storageVars, shareVars, daemonVars
<1>10. ASSUME NEW s \in Sessions, InsertCandidate(s)
       PROVE  /\ UNCHANGED minedAt
              /\ \/ Quiet
                 \/ /\ writers[s].pc = "candidate"
                    /\ AddCandidate(writers[s].pow, writers[s].height, writers[s].total)
                    /\ writers' = [writers EXCEPT ![s] = Idle]
  BY <1>2, <1>10 DEF InsertCandidate, Send, Finish, storageVars, shareVars, daemonVars
<1> HIDE DEF Quiet
<1>11. \/ Quiet
       \/ /\ \E s \in Sessions, l \in Logins :
                writers' = [writers EXCEPT ![s] = Idle] /\ WriteShareTx(l)
          /\ UNCHANGED minedAt
       \/ /\ \E s \in Sessions :
                /\ writers[s].pc = "exec" /\ writers[s].pow \in Blocks
                /\ WriteBlockTx(writers[s].login, writers[s].pow, writers[s].height)
                /\ \/ writers' = [writers EXCEPT ![s] = Idle]
                   \/ writers' = [writers EXCEPT ![s].pc = "candidate",
                            ![s].total = SumFunction(WithShare(writers[s].login))]
          /\ UNCHANGED minedAt
       \/ /\ \E s \in Sessions :
                /\ writers[s].pc = "candidate"
                /\ AddCandidate(writers[s].pow, writers[s].height, writers[s].total)
                /\ writers' = [writers EXCEPT ![s] = Idle]
          /\ UNCHANGED minedAt
  BY <1>3, <1>4, <1>6, <1>7, <1>8, <1>9, <1>10 DEF SessionStep, WriterNext, WriterStep
<1>12. QED
  BY <1>11 DEF Quiet

(* A round that is written belongs to a block that was accepted. *)
LEMMA RoundOwner ==
    ASSUME TypeOK, NEW k \in RoundKeys, NEW b \in Blocks, k = RoundOf(b)
    PROVE  minedAt[b] # 0 /\ minedAt[b] \in Heights
<1>1. minedAt[b] \in Heights
  BY DEF RoundOf, FormatRound, RoundKeys
<1>2. 0 \notin Heights
  BY DaemonAssumption DEF Heights
<1>3. QED
  BY <1>1, <1>2

(* WriteBlock finds the round of its block empty. *)
LEMMA FreshRound ==
    ASSUME RoundsApart, TypeOK, StageInv, RoundInv, NEW s \in Sessions,
           writers[s].pc = "exec", writers[s].pow \in Blocks
    PROVE  /\ writers[s] # Idle
           /\ writers[s].login \in Logins /\ writers[s].height \in Heights
           /\ minedAt[writers[s].pow] = writers[s].height
           /\ RoundOf(writers[s].pow) = FormatRound(writers[s].height, writers[s].pow)
           /\ RoundOf(writers[s].pow) \in RoundKeys
           /\ rounds[RoundOf(writers[s].pow)] = NoShares
<1> DEFINE w == writers[s]
<1>1. w # Idle /\ w \in Submission
  BY DEF Idle, TypeOK, WriterTypeOK
<1>2. w.login \in Logins /\ w.height \in Heights
  BY <1>1 DEF Submission
<1>3. minedAt[w.pow] = w.height
  BY <1>1 DEF StageInv, WriterInv
<1>4. RoundOf(w.pow) = FormatRound(w.height, w.pow) /\ RoundOf(w.pow) \in RoundKeys
  BY <1>2, <1>3, FormatRoundType DEF RoundOf
<1>5. ASSUME rounds[RoundOf(w.pow)] # NoShares
      PROVE  FALSE
  <2>1. PICK b \in Blocks :
          /\ RoundOf(w.pow) = RoundOf(b)
          /\ \A r \in Sessions : writers[r] # Idle /\ writers[r].pow = b =>
                writers[r].pc = "candidate"
    BY <1>4, <1>5 DEF RoundInv
  <2>2. b = w.pow
    BY <2>1, RoundsDiffer DEF RoundOf
  <2>3. QED
    BY <1>1, <2>1, <2>2
<1>6. QED
  BY <1>1, <1>2, <1>3, <1>4, <1>5

LEMMA SessionRounds ==
    ASSUME RoundsApart, TypeOK, StageInv, RoundInv, SessionStep
    PROVE  RoundInv'
<1>1. /\ writers \in [Sessions -> {Idle} \cup Submission]
      /\ rounds \in [RoundKeys -> [Logins -> Nat]]
      /\ \A s \in Sessions : writers[s] # Idle => writers[s].height \in Heights
      /\ \A s \in Sessions : writers[s].pc = "candidate" =>
            /\ writers[s] # Idle /\ writers[s].pow \in Blocks
            /\ writers[s].total \in Nat \ {0}
  BY DEF TypeOK, WriterTypeOK, StorageTypeOK, ShareTypeOK, Submission, Idle
<1>2. matured' = matured /\ immature' = immature
  BY SessionStores
<1>3. CASE /\ UNCHANGED <<rounds, roundCurrent, work, blockVars>>
           /\ \A b \in Blocks : minedAt[b] # 0 => minedAt'[b] = minedAt[b]
           /\ \A s \in Sessions : writers'[s] # Idle =>
                 \/ writers'[s].pow \notin Blocks /\ writers'[s].pc # "candidate"
                 \/ minedAt[writers'[s].pow] = 0 /\ writers'[s].pc # "candidate"
                 \/ /\ writers[s] # Idle /\ writers'[s].pow = writers[s].pow
                    /\ writers'[s].height = writers[s].height
                    /\ writers'[s].total = writers[s].total
                    /\ writers'[s].pc = "candidate" <=> writers[s].pc = "candidate"
  <2>1. RoundIntact'
    BY <1>3 DEF RoundInv, RoundIntact, blockVars
  <2>2. ASSUME NEW s \in Sessions, writers'[s].pc = "candidate"
        PROVE  SumFunction(rounds'[FormatRound(writers'[s].height, writers'[s].pow)])
                  = writers'[s].total
    <3>1. writers'[s] # Idle
      BY <2>2 DEF Idle
    <3>2. QED
      BY <1>3, <2>2, <3>1 DEF RoundInv
  <2>3. ASSUME NEW k \in RoundKeys, rounds'[k] # NoShares
        PROVE  \E b \in Blocks :
                  /\ k = RoundOf(b)'
                  /\ \A s \in Sessions : writers'[s] # Idle /\ writers'[s].pow = b =>
                        writers'[s].pc = "candidate"
    <3>1. PICK b \in Blocks :
            /\ k = RoundOf(b)
            /\ \A s \in Sessions : writers[s] # Idle /\ writers[s].pow = b =>
                  writers[s].pc = "candidate"
      BY <1>3, <2>3 DEF RoundInv
    <3>2. minedAt[b] # 0
      BY <3>1, RoundOwner
    <3>3. k = RoundOf(b)'
      BY <1>3, <3>1, <3>2 DEF RoundOf
    <3>4. QED
      BY <1>3, <3>1, <3>2, <3>3
  <2>4. QED
    BY <1>2, <2>1, <2>2, <2>3 DEF RoundInv
<1>4. ASSUME NEW s \in Sessions, NEW l \in Logins, writers' = [writers EXCEPT ![s] = Idle],
             WriteShareTx(l), UNCHANGED minedAt
      PROVE  RoundInv'
  <2>1. \A r \in Sessions : writers'[r] = IF r = s THEN Idle ELSE writers[r]
    BY <1>1, <1>4
  <2>2. rounds' = rounds /\ candidates' = candidates
    BY <1>4 DEF WriteShareTx, blockVars
  <2>3. Idle.pc # "candidate"
    BY DEF Idle
  <2>4. QED
    BY <1>2, <1>4, <2>1, <2>2, <2>3 DEF RoundInv, RoundIntact, RoundOf
<1>5. ASSUME NEW s \in Sessions, writers[s].pc = "exec", writers[s].pow \in Blocks,
             WriteBlockTx(writers[s].login, writers[s].pow, writers[s].height),
             \/ writers' = [writers EXCEPT ![s] = Idle]
             \/ writers' = [writers EXCEPT ![s].pc = "candidate",
                       ![s].total = SumFunction(WithShare(writers[s].login))],
             UNCHANGED minedAt
      PROVE  RoundInv'
  <2> DEFINE b == writers[s].pow
             total == SumFunction(WithShare(writers[s].login))
             k == FormatRound(writers[s].height, b)
  <2>1. /\ writers[s] # Idle /\ writers[s].height \in Heights /\ k \in RoundKeys /\ k = RoundOf(b)
    BY <1>5, FreshRound
  <2>2. /\ rounds' = [rounds EXCEPT ![k] = WithShare(writers[s].login)]
        /\ candidates' = candidates
    BY <1>5 DEF WriteBlockTx, blockVars
  <2>3. ASSUME NEW c \in Blocks, c # b, NEW h \in Heights
        PROVE  rounds'[FormatRound(h, c)] = rounds[FormatRound(h, c)]
    <3>1. FormatRound(h, c) # k
      BY <1>5, <2>3, RoundsDiffer
    <3> HIDE DEF k
    <3>2. QED
      BY <1>1, <2>2, <3>1, <2>3, FormatRoundType
  <2>4. \A r \in Sessions :
          \/ r = s /\ writers'[r] = Idle
          \/ /\ r = s /\ writers'[r].pc = "candidate" /\ writers'[r].total = total
             /\ writers'[r].pow = b /\ writers'[r].height = writers[s].height
          \/ r # s /\ writers'[r] = writers[r]
    <3> DEFINE w == [writers[s] EXCEPT !.pc = "candidate", !.total = total]
    <3>1. writers[s] \in Submission
      BY <1>1, <2>1
    <3> HIDE DEF total
    <3>2. /\ w.pc = "candidate" /\ w.total = total /\ w.pow = b
          /\ w.height = writers[s].height
      BY <3>1 DEF Submission
    <3>3. writers' = [writers EXCEPT ![s] = Idle] \/ writers' = [writers EXCEPT ![s] = w]
      BY <1>5 DEF total
    <3> HIDE DEF w, b
    <3>4. QED
      BY <1>1, <3>2, <3>3
  <2>5. RoundIntact'
    <3> SUFFICES ASSUME NEW x \in candidates \cup immature
                 PROVE  SumFunction(rounds'[RoundKey(x)]) = x.total /\ x.total > 0
      BY <1>2, <2>2 DEF RoundIntact
    <3>1. x.id \in Blocks /\ x.height \in Heights
      BY DEF TypeOK, StorageTypeOK, BlockTypeOK, BlockData
    <3>2. x.id # b
      BY <1>5, <2>1 DEF StageInv, WriterInv, Stored
    <3>3. rounds'[RoundKey(x)] = rounds[RoundKey(x)]
      BY <2>3, <3>1, <3>2 DEF RoundKey
    <3>4. QED
      BY <3>3 DEF RoundInv, RoundIntact
  <2>6. ASSUME NEW r \in Sessions, writers'[r].pc = "candidate"
        PROVE  SumFunction(rounds'[FormatRound(writers'[r].height, writers'[r].pow)])
                  = writers'[r].total
    <3>1. CASE r = s
      <4>1. writers'[r].total = total /\ FormatRound(writers'[r].height, writers'[r].pow) = k
        BY <2>4, <2>6, <3>1 DEF Idle
      <4> HIDE DEF k
      <4>2. QED
        BY <1>1, <2>1, <2>2, <4>1
    <3>2. CASE r # s
      <4>1. writers'[r] = writers[r] /\ writers[r].pc = "candidate"
        BY <2>4, <2>6, <3>2
      <4>2. writers[r] # Idle /\ writers[r].pow \in Blocks /\ writers[r].height \in Heights
        BY <1>1, <4>1
      <4>3. writers[r].pow # b
        BY <1>5, <2>1, <3>2, <4>2 DEF StageInv, WriterInv
      <4>4. QED
        BY <2>3, <4>1, <4>2, <4>3 DEF RoundInv
    <3>3. QED
      BY <3>1, <3>2
  <2>7. ASSUME NEW j \in RoundKeys, rounds'[j] # NoShares
        PROVE  \E c \in Blocks :
                  /\ j = RoundOf(c)
                  /\ \A r \in Sessions : writers'[r] # Idle /\ writers'[r].pow = c =>
                        writers'[r].pc = "candidate"
    <3>1. CASE j = k
      <4>1. \A r \in Sessions : writers'[r] # Idle /\ writers'[r].pow = b =>
              writers'[r].pc = "candidate"
        BY <1>5, <2>1, <2>4 DEF StageInv, WriterInv
      <4>2. QED
        BY <1>5, <2>1, <3>1, <4>1
    <3>2. CASE j # k
      <4>1. rounds[j] # NoShares
        <5> HIDE DEF k
        <5>1. QED
          BY <1>1, <2>2, <2>7, <3>2
      <4>2. PICK c \in Blocks :
              /\ j = RoundOf(c)
              /\ \A r \in Sessions : writers[r] # Idle /\ writers[r].pow = c =>
                    writers[r].pc = "candidate"
        BY <4>1 DEF RoundInv
      <4>3. c # b
        BY <2>1, <3>2, <4>2
      <4>4. QED
        BY <2>4, <4>2, <4>3
    <3>3. QED
      BY <3>1, <3>2
  <2>8. QED
    BY <1>2, <1>5, <2>5, <2>6, <2>7 DEF RoundInv, RoundOf
<1>6. ASSUME NEW s \in Sessions, writers[s].pc = "candidate",
             AddCandidate(writers[s].pow, writers[s].height, writers[s].total),
             writers' = [writers EXCEPT ![s] = Idle], UNCHANGED minedAt
      PROVE  RoundInv'
  <2> DEFINE new == Candidate(writers[s].pow, writers[s].height, writers[s].total)
  <2>1. \A r \in Sessions : writers'[r] = IF r = s THEN Idle ELSE writers[r]
    BY <1>1, <1>6
  <2>2. rounds' = rounds /\ candidates' = candidates \cup {new}
    BY <1>6 DEF AddCandidate, shareVars
  <2>3. /\ RoundKey(new) = FormatRound(writers[s].height, writers[s].pow)
        /\ new.total = writers[s].total /\ new.total > 0
    <3>1. new.id = writers[s].pow /\ new.height = writers[s].height /\ new.total = writers[s].total
      BY DEF Candidate
    <3>2. QED
      BY <1>1, <1>6, <3>1 DEF RoundKey
  <2> HIDE DEF new
  <2>4. RoundIntact'
    BY <1>2, <1>6, <2>2, <2>3 DEF RoundInv, RoundIntact
  <2>5. Idle.pc # "candidate"
    BY DEF Idle
  <2>6. QED
    BY <1>2, <1>6, <2>1, <2>2, <2>4, <2>5 DEF RoundInv, RoundOf
<1>7. QED
  BY <1>3, <1>4, <1>5, <1>6, SessionCommands

LEMMA NextRounds ==
    ASSUME RoundsApart, TypeOK, StageInv, ItemInv, RoundInv, [Next]_vars
    PROVE  RoundInv'
<1>1. ASSUME UNCHANGED <<storageVars, minedAt, writers>>
      PROVE  RoundInv'
  BY <1>1 DEF RoundInv, RoundIntact, RoundOf, storageVars, blockVars, shareVars
<1>2. CASE ChainStep
  BY <1>1, <1>2 DEF ChainStep, NewBlocks
<1>3. CASE Crash
  BY <1>1, <1>3 DEF Crash, daemonVars
<1>4. CASE UNCHANGED vars
  BY <1>1, <1>4 DEF vars, daemonVars
<1>5. CASE Restart
  <2>1. /\ UNCHANGED <<candidates, immature, matured, rounds, minedAt>>
        /\ \A s \in Sessions : writers'[s] = Idle
    BY <1>5 DEF Restart, storageVars, blockVars, shareVars, daemonVars
  <2>2. Idle.pc # "candidate"
    BY DEF Idle
  <2>3. QED
    BY <2>1, <2>2 DEF RoundInv, RoundIntact, RoundOf
<1>6. QED
  BY <1>2, <1>3, <1>4, <1>5, SessionRounds, UnlockerRounds DEF Next

LEMMA InitBooks == Init => ItemInv /\ RoundInv
<1> SUFFICES ASSUME Init PROVE ItemInv /\ RoundInv
  OBVIOUS
<1>1. ItemInv
  BY DEF Init, UnlockerInit, ItemInv
<1>2. RoundInv
  <2>1. \A s \in Sessions : writers[s].pc # "candidate"
    BY DEF Init, WriterInit, Idle
  <2>2. /\ candidates \cup immature = {} /\ matured = {}
        /\ \A k \in RoundKeys : rounds[k] = NoShares
    BY DEF Init, StorageInit
  <2>3. IsFiniteSet(matured)
    BY <2>2, FS_EmptySet
  <2>4. QED
    BY <2>1, <2>2, <2>3 DEF RoundInv, RoundIntact
<1>3. QED
  BY <1>1, <1>2

LEMMA StageInvariant == Spec => []StageInv
<1>1. TypeOK /\ StageInv /\ [Next]_vars => StageInv'
  BY NextStage
<1>2. QED
  BY <1>1, InitStage, TypeInvariant, PTL DEF Spec

LEMMA ItemInvariant == Spec => []ItemInv
<1>1. TypeOK /\ StageInv /\ ItemInv /\ [Next]_vars => ItemInv'
  BY NextItems
<1>2. Init => ItemInv
  BY InitBooks
<1>3. QED
  BY <1>1, <1>2, StageInvariant, TypeInvariant, PTL DEF Spec

LEMMA RoundInvariant ==
    ASSUME RoundsApart
    PROVE  Spec => []RoundInv
<1>1. TypeOK /\ StageInv /\ ItemInv /\ RoundInv /\ [Next]_vars => RoundInv'
  BY NextRounds
<1>2. Init => RoundInv
  BY InitBooks
<1>3. QED
  BY <1>1, <1>2, StageInvariant, ItemInvariant, TypeInvariant, PTL DEF Spec

(* The round of every block the unlocker has still to pay sums to the      *)
(* total that WriteBlock put into the candidate, whatever the sessions     *)
(* write meanwhile, as long as no two blocks of the pool have one nonce.   *)
THEOREM RoundsStayIntact ==
    ASSUME RoundsApart
    PROVE  Spec => []RoundIntact
<1>1. RoundInv => RoundIntact
  BY DEF RoundInv
<1>2. QED
  BY <1>1, RoundInvariant, PTL

-----------------------------------------------------------------------------
(* Shares *)

InRounds == [k \in RoundKeys |-> SumFunction(rounds[k])]
InMatured == [m \in matured |-> m.total]

LEMMA ShareSums ==
    ASSUME TypeOK, RoundInv
    PROVE  /\ roundCurrent \in [Logins -> Nat] /\ SumFunction(roundCurrent) \in Nat
           /\ rounds \in [RoundKeys -> [Logins -> Nat]]
           /\ InRounds \in [RoundKeys -> Nat] /\ SumFunction(InRounds) \in Nat
           /\ InMatured \in [matured -> Nat] /\ SumFunction(InMatured) \in Nat
           /\ work \in Nat
<1>1. /\ roundCurrent \in [Logins -> Nat] /\ work \in Nat
      /\ rounds \in [RoundKeys -> [Logins -> Nat]]
  BY DEF TypeOK, StorageTypeOK, ShareTypeOK
<1>2. \A k \in RoundKeys : SumFunction(rounds[k]) \in Nat
  BY <1>1, RewardsAssumption, SumFunctionNat
<1>3. InRounds \in [RoundKeys -> Nat]
  BY <1>2 DEF InRounds
<1>4. InMatured \in [matured -> Nat]
  BY DEF InMatured, TypeOK, StorageTypeOK, BlockTypeOK, BlockData
<1>5. IsFiniteSet(matured)
  BY DEF RoundInv
<1>6. QED
  BY <1>1, <1>3, <1>4, <1>5, RewardsAssumption, RoundKeysFinite, SumFunctionNat

(* What one more share adds *)
LEMMA OneShare ==
    ASSUME TypeOK, NEW l \in Logins
    PROVE  /\ WithShare(l) \in [Logins -> Nat]
           /\ SumFunction(WithShare(l)) = SumFunction(roundCurrent) + ShareDiff
<1>1. /\ roundCurrent \in [Logins -> Nat] /\ WithShare(l) \in [Logins -> Nat]
      /\ \A m \in Logins \ {l} : WithShare(l)[m] = roundCurrent[m]
      /\ WithShare(l)[l] = roundCurrent[l] + ShareDiff
  BY StorageAssumption DEF TypeOK, StorageTypeOK, ShareTypeOK, WithShare
<1>2. SumFunction(WithShare(l)) = SumFunction(roundCurrent) - roundCurrent[l] + WithShare(l)[l]
  BY <1>1, RewardsAssumption, SumFunctionUpdate
<1>3. SumFunction(roundCurrent) \in Nat /\ roundCurrent[l] \in Nat /\ ShareDiff \in Nat
  BY <1>1, RewardsAssumption, StorageAssumption, SumFunctionNat
<1>4. QED
  BY <1>1, <1>2, <1>3

(* Another content of one round *)
LEMMA OneRound ==
    ASSUME TypeOK, RoundInv, NEW k \in RoundKeys, NEW r \in [Logins -> Nat],
           rounds' = [rounds EXCEPT ![k] = r]
    PROVE  SumFunction(InRounds') = SumFunction(InRounds) - SumFunction(rounds[k]) + SumFunction(r)
<1>1. /\ rounds \in [RoundKeys -> [Logins -> Nat]] /\ InRounds \in [RoundKeys -> Nat]
  BY ShareSums
<1>2. SumFunction(r) \in Nat
  BY RewardsAssumption, SumFunctionNat
<1>3. \A j \in RoundKeys : InRounds'[j] = IF j = k THEN SumFunction(r) ELSE InRounds[j]
  BY <1>1 DEF InRounds
<1>4. InRounds' \in [RoundKeys -> Nat]
  <2>1. \A j \in RoundKeys : SumFunction(rounds'[j]) \in Nat
    BY <1>1, RewardsAssumption, SumFunctionNat
  <2>2. QED
    BY <2>1 DEF InRounds
<1>5. \A j \in RoundKeys \ {k} : InRounds'[j] = InRounds[j]
  BY <1>3
<1>6. SumFunction(InRounds') = SumFunction(InRounds) - InRounds[k] + InRounds'[k]
  BY <1>1, <1>4, <1>5, RoundKeysFinite, SumFunctionUpdate
<1>7. InRounds[k] = SumFunction(rounds[k]) /\ InRounds'[k] = SumFunction(r)
  BY <1>3 DEF InRounds
<1>8. QED
  BY <1>6, <1>7

LEMMA SessionShares ==
    ASSUME RoundsApart, TypeOK, StageInv, RoundInv, SharesConserved, SessionStep
    PROVE  SharesConserved'
<1> USE DEF InRounds, InMatured
<1>1. work = SumFunction(roundCurrent) + SumFunction(InRounds) + SumFunction(InMatured)
  BY DEF SharesConserved
<1>2. matured' = matured
  BY SessionStores
<1>3. ASSUME UNCHANGED <<rounds, roundCurrent, work>>
      PROVE  SharesConserved'
  BY <1>2, <1>3 DEF SharesConserved
<1>4. ASSUME NEW l \in Logins, WriteShareTx(l)
      PROVE  SharesConserved'
  <2>1. /\ rounds' = rounds /\ roundCurrent' = WithShare(l) /\ work' = work + ShareDiff
    BY <1>4 DEF WriteShareTx
  <2>2. InRounds' = InRounds /\ InMatured' = InMatured
    BY <1>2, <2>1
  <2> HIDE DEF InRounds, InMatured
  <2>3. work' = SumFunction(roundCurrent') + SumFunction(InRounds') + SumFunction(InMatured')
    BY <1>1, <2>1, <2>2, OneShare, ShareSums, StorageAssumption
  <2>4. QED
    BY <2>3 DEF SharesConserved, InRounds, InMatured
<1>5. ASSUME NEW s \in Sessions, writers[s].pc = "exec", writers[s].pow \in Blocks,
             WriteBlockTx(writers[s].login, writers[s].pow, writers[s].height)
      PROVE  SharesConserved'
  <2> DEFINE l == writers[s].login
             k == FormatRound(writers[s].height, writers[s].pow)
  <2>1. l \in Logins /\ k \in RoundKeys /\ rounds[k] = NoShares
    BY <1>5, FreshRound
  <2>2. /\ rounds' = [rounds EXCEPT ![k] = WithShare(l)] /\ roundCurrent' = NoShares
        /\ work' = work + ShareDiff
    BY <1>5 DEF WriteBlockTx, AfterRename
  <2>3. InMatured' = InMatured
    BY <1>2
  <2> HIDE DEF InRounds, InMatured, l, k
  <2>4. SumFunction(InRounds') = SumFunction(InRounds) - 0 + SumFunction(WithShare(l))
    BY <2>1, <2>2, OneRound, OneShare, EmptyRound
  <2>5. work' = SumFunction(roundCurrent') + SumFunction(InRounds') + SumFunction(InMatured')
    BY <1>1, <2>1, <2>2, <2>3, <2>4, OneShare, EmptyRound, ShareSums, StorageAssumption
  <2>6. QED
    BY <2>5 DEF SharesConserved, InRounds, InMatured
<1>6. ASSUME NEW b, NEW h, NEW total, AddCandidate(b, h, total)
      PROVE  SharesConserved'
  BY <1>3, <1>6 DEF AddCandidate, shareVars
<1>7. QED
  BY <1>3, <1>4, <1>5, <1>6, SessionCommands

LEMMA UnlockerShares ==
    ASSUME RoundsApart, TypeOK, StageInv, ItemInv, RoundInv, SharesConserved, UnlockerStep
    PROVE  SharesConserved'
<1> USE DEF InRounds, InMatured
<1>1. work = SumFunction(roundCurrent) + SumFunction(InRounds) + SumFunction(InMatured)
  BY DEF SharesConserved
<1>2. ASSUME UNCHANGED <<rounds, roundCurrent, work, matured>>
      PROVE  SharesConserved'
  BY <1>2 DEF SharesConserved
<1>3. ASSUME NEW item \in Lists, stage = "credit", WriteMaturedBlocks(item),
             UNCHANGED <<roundCurrent, work>>
      PROVE  SharesConserved'
  <2> DEFINE k == RoundKey(item.key)
             new == Key(item.data)
  <2>1. /\ k \in RoundKeys /\ item.key \in immature
        /\ rounds' = [rounds EXCEPT ![k] = NoShares] /\ matured' = matured \cup {new}
    BY <1>3, ItemFields DEF WriteMaturedBlocks, Source
  <2>2. new.total = item.key.total /\ new.id = item.key.id /\ new.total \in Nat
    BY ItemFields, KeyFields DEF BlockData
  <2>3. SumFunction(rounds[k]) = item.key.total
    BY <2>1 DEF RoundInv, RoundIntact
  <2>4. new \notin matured
    BY <2>1, <2>2 DEF StageInv, BlockInOneStage, Stored
  <2> HIDE DEF k, new
  <2>5. SumFunction(InMatured') = SumFunction(InMatured) + new.total
    <3>1. /\ InMatured \in [matured -> Nat] /\ IsFiniteSet(matured)
      BY ShareSums DEF RoundInv
    <3>2. InMatured' = [m \in matured \cup {new} |-> m.total]
      BY <2>1
    <3>3. \A m \in matured \cup {new} : m.total \in Nat
      BY <2>2 DEF TypeOK, StorageTypeOK, BlockTypeOK, BlockData
    <3>4. InMatured' \in [matured \cup {new} -> Nat] /\ \A m \in matured : InMatured'[m] = InMatured[m]
      BY <3>2, <3>3
    <3>5. InMatured'[new] = new.total
      BY <3>2
    <3> HIDE DEF InMatured
    <3>6. QED
      BY <2>4, <3>1, <3>4, <3>5, SumFunctionExtend
  <2> HIDE DEF InRounds, InMatured
  <2>6. SumFunction(InRounds') = SumFunction(InRounds) - new.total + 0
    BY <2>1, <2>2, <2>3, OneRound, EmptyRound
  <2>7. work' = SumFunction(roundCurrent') + SumFunction(InRounds') + SumFunction(InMatured')
    BY <1>1, <1>3, <2>2, <2>5, <2>6, ShareSums
  <2>8. QED
    BY <2>7 DEF SharesConserved, InRounds, InMatured
<1>4. ASSUME NEW item \in maturedBlocks \cup orphanedBlocks, stage = "credit", NEW log,
             WriteMaturedBlock(item, rewards, log) \/ WriteOrphan(item, log)
      PROVE  SharesConserved'
  <2>1. item \in Lists
    BY DEF Lists
  <2>2. QED
    BY <1>3, <1>4, <2>1 DEF WriteMaturedBlock, WriteOrphan
<1>5. ASSUME \/ UNCHANGED storageVars
             \/ WritePendingOrphans(orphanedBlocks)
             \/ \E item \in maturedBlocks : WriteImmatureBlock(item, rewards)
      PROVE  SharesConserved'
  BY <1>2, <1>5 DEF WritePendingOrphans, WriteImmatureBlock, storageVars, shareVars, blockVars
<1>6. QED
  BY <1>4, <1>5, UnlockerStores

(* No share is lost or counted twice between the current round, the rounds *)
(* of the blocks and the totals of the matured blocks, after any failures, *)
(* as long as no two blocks of the pool have one nonce.                    *)
THEOREM SharesStayConserved ==
    ASSUME RoundsApart
    PROVE  Spec => []SharesConserved
<1>1. Init => SharesConserved
  <2> SUFFICES ASSUME Init PROVE SharesConserved
    OBVIOUS
  <2>1. work = 0 /\ roundCurrent = NoShares /\ matured = {} /\ \A k \in RoundKeys : rounds[k] = NoShares
    BY DEF Init, StorageInit
  <2>2. SumFunction(InRounds) = 0
    <3>1. InRounds \in [RoundKeys -> Nat] /\ \A k \in RoundKeys : InRounds[k] = 0
      BY <2>1, EmptyRound DEF InRounds
    <3>2. QED
      BY <3>1, RoundKeysFinite, SumFunctionZero
  <2>3. SumFunction(InMatured) = 0
    <3>1. InMatured \in [matured -> Nat] /\ \A m \in matured : InMatured[m] = 0
      BY <2>1 DEF InMatured
    <3>2. IsFiniteSet(matured)
      BY <2>1, FS_EmptySet
    <3>3. QED
      BY <3>1, <3>2, SumFunctionZero
  <2>4. QED
    BY <2>1, <2>2, <2>3, EmptyRound DEF SharesConserved, InRounds, InMatured
<1>2. TypeOK /\ StageInv /\ ItemInv /\ RoundInv /\ SharesConserved /\ [Next]_vars => SharesConserved'
  <2> SUFFICES ASSUME TypeOK, StageInv, ItemInv, RoundInv, SharesConserved, [Next]_vars
               PROVE  SharesConserved'
    OBVIOUS
  <2>1. ASSUME UNCHANGED storageVars
        PROVE  SharesConserved'
    BY <2>1 DEF SharesConserved, storageVars, shareVars, blockVars
  <2>2. CASE ChainStep \/ Crash \/ Restart \/ UNCHANGED vars
    BY <2>1, <2>2 DEF ChainStep, Crash, Restart, vars
  <2>3. QED
    BY <2>2, SessionShares, UnlockerShares DEF Next
<1>3. QED
  BY <1>1, <1>2, StageInvariant, ItemInvariant, RoundInvariant, TypeInvariant, PTL DEF Spec

-----------------------------------------------------------------------------
(* Money: sums of logs *)

(* What a log of credits holds for an account *)
Column(log, a) == SumFunction([k \in CreditKeys |-> log[k][a]])

(* The balances are what a log of credits holds, and total is the sum of   *)
(* all of them.                                                            *)
Books(balances, log, total) ==
    /\ \A a \in Accounts : balances[a] = Column(log, a)
    /\ total = SumFunction(balances)

LEMMA CreditKeysFinite == IsFiniteSet(CreditKeys)
<1>1. IsFiniteSet(Heights)
  BY DaemonAssumption, FS_Interval DEF Heights
<1>2. IsFiniteSet(Blocks)
  BY DaemonAssumption
<1>3. IsFiniteSet(AnyBlock)
  BY <1>2, FS_AddElement DEF AnyBlock
<1>4. IsFiniteSet({NoHash, ZeroHash})
  <2>1. IsFiniteSet({NoHash}) /\ {NoHash, ZeroHash} = {NoHash} \cup {ZeroHash}
    BY FS_Singleton
  <2>2. QED
    BY <2>1, FS_AddElement, Zenon
<1>5. IsFiniteSet(Hashes)
  BY <1>3, <1>4, FS_Union DEF Hashes
<1>6. QED
  BY <1>1, <1>5, FS_Product DEF CreditKeys

LEMMA NothingCredited == NoCredits \in [Accounts -> Nat] /\ SumFunction(NoCredits) = 0
<1>1. NoCredits \in [Accounts -> Nat] /\ \A a \in Accounts : NoCredits[a] = 0
  BY DEF NoCredits
<1>2. QED
  BY <1>1, AccountsFinite, SumFunctionZero

LEMMA KeySums ==
    ASSUME NEW f \in [CreditKeys -> Nat], NEW g \in [CreditKeys -> Nat], NEW k \in CreditKeys,
           \A j \in CreditKeys \ {k} : g[j] = f[j]
    PROVE  /\ SumFunction(g) = SumFunction(f) - f[k] + g[k]
           /\ SumFunction(f) \in Nat /\ SumFunction(g) \in Nat
BY CreditKeysFinite, SumFunctionUpdate, SumFunctionNat

LEMMA ColumnNat ==
    ASSUME NEW log \in [CreditKeys -> [Accounts -> Nat]], NEW a \in Accounts
    PROVE  Column(log, a) \in Nat
<1> DEFINE f == [j \in CreditKeys |-> log[j][a]]
<1>1. f \in [CreditKeys -> Nat]
  OBVIOUS
<1> HIDE DEF f
<1>2. SumFunction(f) \in Nat
  BY <1>1, CreditKeysFinite, SumFunctionNat
<1>3. QED
  BY <1>2 DEF f, Column

(* One entry of a log is replaced. *)
LEMMA ColumnUpdate ==
    ASSUME NEW log \in [CreditKeys -> [Accounts -> Nat]], NEW k \in CreditKeys,
           NEW r \in [Accounts -> Nat], NEW a \in Accounts,
           NEW new, new = [log EXCEPT ![k] = r]
    PROVE  /\ Column(new, a) = Column(log, a) - log[k][a] + r[a]
           /\ Column(log, a) \in Nat /\ Column(new, a) \in Nat
<1> DEFINE f == [j \in CreditKeys |-> log[j][a]]
           g == [j \in CreditKeys |-> new[j][a]]
<1>1. f \in [CreditKeys -> Nat] /\ g \in [CreditKeys -> Nat]
  OBVIOUS
<1>2. /\ \A j \in CreditKeys \ {k} : g[j] = f[j]
      /\ f[k] = log[k][a] /\ g[k] = r[a]
  OBVIOUS
<1> HIDE DEF f, g
<1>3. /\ SumFunction(g) = SumFunction(f) - f[k] + g[k]
      /\ SumFunction(f) \in Nat /\ SumFunction(g) \in Nat
  BY <1>1, <1>2, KeySums
<1>4. Column(log, a) = SumFunction(f) /\ Column(new, a) = SumFunction(g)
  BY DEF Column, f, g
<1>5. QED
  BY <1>2, <1>3, <1>4

LEMMA BooksNat ==
    ASSUME NEW log \in [CreditKeys -> [Accounts -> Nat]], NEW balances \in [Accounts -> Int],
           NEW total, Books(balances, log, total)
    PROVE  balances \in [Accounts -> Nat]
BY ColumnNat DEF Books

(* A new entry is added to the balances and to their total. *)
LEMMA Deposit ==
    ASSUME NEW log \in [CreditKeys -> [Accounts -> Nat]], NEW balances \in [Accounts -> Int],
           NEW total, Books(balances, log, total),
           NEW k \in CreditKeys, log[k] = NoCredits, NEW r \in [Accounts -> Nat]
    PROVE  Books(Plus(balances, r), [log EXCEPT ![k] = r], total + SumFunction(r))
<1> DEFINE new == [log EXCEPT ![k] = r]
<1>1. balances \in [Accounts -> Nat]
  BY BooksNat
<1>2. /\ Plus(balances, r) \in [Accounts -> Nat]
      /\ \A a \in Accounts : Plus(balances, r)[a] = balances[a] + r[a]
  BY <1>1 DEF Plus
<1>3. SumFunction(Plus(balances, r)) = total + SumFunction(r)
  BY <1>1, <1>2, AccountsFinite, SumFunctionPlus DEF Books
<1>4. ASSUME NEW a \in Accounts
      PROVE  Plus(balances, r)[a] = Column(new, a)
  <2>1. log[k][a] = 0
    BY DEF NoCredits
  <2>2. balances[a] = Column(log, a)
    BY DEF Books
  <2> HIDE DEF new
  <2>3. /\ Column(new, a) = Column(log, a) - log[k][a] + r[a]
        /\ Column(log, a) \in Nat
    BY ColumnUpdate DEF new
  <2>4. QED
    BY <1>2, <2>1, <2>2, <2>3
<1>5. QED
  BY <1>3, <1>4 DEF Books

(* An entry is taken back from the balances and from their total. *)
LEMMA Withdraw ==
    ASSUME NEW log \in [CreditKeys -> [Accounts -> Nat]], NEW balances \in [Accounts -> Int],
           NEW total, Books(balances, log, total), NEW k \in CreditKeys
    PROVE  Books(Minus(balances, log[k]), [log EXCEPT ![k] = NoCredits],
                 total - SumFunction(log[k]))
<1> DEFINE rest == Minus(balances, log[k])
           new == [log EXCEPT ![k] = NoCredits]
<1>1. balances \in [Accounts -> Nat]
  BY BooksNat
<1>2. DOMAIN rest = Accounts /\ \A a \in Accounts : rest[a] = balances[a] - log[k][a]
  BY <1>1 DEF Minus
<1>3. ASSUME NEW a \in Accounts
      PROVE  rest[a] = Column(new, a) /\ rest[a] \in Nat
  <2>1. NoCredits[a] = 0 /\ NoCredits \in [Accounts -> Nat]
    BY DEF NoCredits
  <2> HIDE DEF new, rest
  <2>2. /\ Column(new, a) = Column(log, a) - log[k][a] + NoCredits[a]
        /\ Column(log, a) \in Nat /\ Column(new, a) \in Nat
    BY <2>1, ColumnUpdate DEF new
  <2>3. balances[a] = Column(log, a) /\ log[k][a] \in Nat
    BY DEF Books
  <2>4. QED
    BY <1>2, <2>1, <2>2, <2>3
<1>4. rest \in [Accounts -> Nat]
  BY <1>2, <1>3 DEF Minus
<1>5. SumFunction(balances) = SumFunction(rest) + SumFunction(log[k])
  <2> HIDE DEF rest
  <2>1. \A a \in Accounts : balances[a] = rest[a] + log[k][a]
    BY <1>1, <1>2
  <2>2. log[k] \in [Accounts -> Nat]
    OBVIOUS
  <2>3. QED
    BY <1>1, <1>4, <2>1, <2>2, AccountsFinite, SumFunctionPlus
<1>6. SumFunction(rest) = total - SumFunction(log[k])
  <2>1. SumFunction(rest) \in Nat /\ SumFunction(log[k]) \in Nat
    BY <1>4, AccountsFinite, SumFunctionNat
  <2>2. QED
    BY <1>5, <2>1 DEF Books
<1>7. QED
  BY <1>3, <1>6 DEF Books

-----------------------------------------------------------------------------
(* The keys of the books *)

KeyInv == HashInv /\ LogInv
MoneyInv == ImmatureMatchesLog /\ BalanceMatchesCredits

(* The key under which a block is credited that is on the chain *)
OwnKey(item) == <<item.key.height, item.key.id>>

Mined == [m \in matured |-> m.reward]

LEMMA MoneyBooks ==
    /\ ImmatureMatchesLog <=> Books(minerImmature, creditsImmature, finances.immature)
    /\ BalanceMatchesCredits <=>
          Books(minerBalance, credits, finances.balance) /\ finances.totalMined = SumFunction(Mined)
BY DEF ImmatureMatchesLog, BalanceMatchesCredits, Books, Column, Mined

LEMMA MoneyTypes ==
    ASSUME TypeOK
    PROVE  /\ creditsImmature \in [CreditKeys -> [Accounts -> Nat]]
           /\ credits \in [CreditKeys -> [Accounts -> Nat]]
           /\ minerImmature \in [Accounts -> Int] /\ minerBalance \in [Accounts -> Int]
           /\ finances \in [immature : Int, balance : Int, totalMined : Int]
           /\ rewards \in [Accounts -> Nat]
BY DEF TypeOK, StorageTypeOK, MoneyTypeOK, UnlockerTypeOK

(* A block that was found on the chain is credited under its own hash. *)
LEMMA MaturedItem ==
    ASSUME HeadersTell, TypeOK, StageInv, ItemInv, NEW item \in maturedBlocks
    PROVE  /\ item \in Lists
           /\ CreditKey(item.data) = OwnKey(item) /\ OwnKey(item) \in CreditKeys
           /\ CreditKey(Key(item.data)) = OwnKey(item)
           /\ Key(item.data).hash = item.key.id /\ Key(item.data).id = item.key.id
           /\ Key(item.data).height = item.key.height /\ ~Key(item.data).orphan
           /\ Key(item.data).reward = item.data.reward
<1>1. item \in Lists /\ item.data.hash = item.data.id /\ ~item.data.orphan
  BY DEF Lists, ItemInv
<1>2. /\ item.data \in BlockData /\ item.data.id = item.key.id
      /\ item.data.height = item.key.height /\ item.key.id \in Blocks
      /\ item.key.height \in Heights
  BY <1>1, ItemFields DEF BlockData
<1>3. item.key.id # NoHash /\ item.key.id \in Hashes
  BY <1>2, StorageAssumption DEF Hashes, AnyBlock
<1>4. QED
  BY <1>1, <1>2, <1>3, KeyFields DEF CreditKey, CreditKeys, OwnKey

(* A block that was not is looked up under the hash it is stored with. *)
LEMMA OrphanedItem ==
    ASSUME TypeOK, StageInv, ItemInv, NEW item \in orphanedBlocks
    PROVE  /\ item \in Lists
           /\ CreditKey(item.data) = CreditKey(item.key) /\ CreditKey(item.data) \in CreditKeys
           /\ item.data.hash = item.key.hash
           /\ Key(item.data).orphan /\ Key(item.data).reward = 0
           /\ Key(item.data).id = item.key.id /\ Key(item.data).height = item.key.height
<1>1. /\ item \in Lists /\ item.data.hash = item.key.hash /\ item.data.orphan
      /\ item.data.reward = 0
  BY DEF Lists, ItemInv
<1>2. /\ item.data \in BlockData /\ item.data.height = item.key.height
      /\ item.data.id = item.key.id
  BY <1>1, ItemFields
<1>3. item.data.height \in Heights /\ item.data.hash \in Hashes
  BY <1>2 DEF BlockData
<1>4. QED
  BY <1>1, <1>2, <1>3, KeyFields DEF CreditKey, CreditKeys

(* At most one immature block is credited under a key. *)
LEMMA OneCredited ==
    ASSUME StageInv, NEW x \in Stored, NEW y \in Stored, CreditKey(x) = CreditKey(y),
           x.hash = x.id, y.hash = y.id
    PROVE  x = y
BY DEF CreditKey, StageInv, BlockInOneStage

(* The first log has nothing yet under the key of a candidate. *)
LEMMA NotPromised ==
    ASSUME TypeOK, StageInv, LogInv, NEW c \in candidates, <<c.height, c.id>> \in CreditKeys
    PROVE  creditsImmature[<<c.height, c.id>>] = NoCredits
<1> SUFFICES ASSUME creditsImmature[<<c.height, c.id>>] # NoCredits PROVE FALSE
  OBVIOUS
<1>1. PICK x \in immature : x.hash = x.id /\ CreditKey(x) = <<c.height, c.id>>
  BY DEF LogInv
<1>2. x.id = c.id
  BY <1>1 DEF CreditKey
<1>3. QED
  BY <1>2 DEF StageInv, BlockInOneStage, Stored

(* ... and the final one nothing under the key of an immature block.       *)
LEMMA NotPaid ==
    ASSUME TypeOK, StageInv, LogInv, NEW c \in immature, <<c.height, c.id>> \in CreditKeys
    PROVE  credits[<<c.height, c.id>>] = NoCredits
<1> SUFFICES ASSUME credits[<<c.height, c.id>>] # NoCredits PROVE FALSE
  OBVIOUS
<1>1. PICK m \in matured : m.hash = m.id /\ CreditKey(m) = <<c.height, c.id>>
  BY DEF LogInv
<1>2. m.id = c.id
  BY <1>1 DEF CreditKey
<1>3. QED
  BY <1>2 DEF StageInv, BlockInOneStage, Stored

LEMMA FirstEntry ==
    ASSUME NEW amounts \in [Accounts -> Nat]
    PROVE  SetNX(NoCredits, amounts) = amounts
BY DEF SetNX, NoCredits

(* What the four transactions of the unlocker do to the books *)

(* WriteImmatureBlock, for a block that is on the chain *)
LEMMA PromiseEntry ==
    ASSUME HeadersTell, TypeOK, StageInv, ItemInv, KeyInv, stage = "pending",
           NEW item \in maturedBlocks, WriteImmatureBlock(item, rewards)
    PROVE  /\ item.key \in candidates /\ creditsImmature[OwnKey(item)] = NoCredits
           /\ candidates' = candidates \ {item.key}
           /\ immature' = immature \cup {Key(item.data)}
           /\ creditsImmature' = [creditsImmature EXCEPT ![OwnKey(item)] = rewards]
           /\ minerImmature' = Plus(minerImmature, rewards)
           /\ finances'.immature = finances.immature + SumFunction(rewards)
           /\ finances'.balance = finances.balance /\ finances'.totalMined = finances.totalMined
           /\ UNCHANGED <<matured, credits, minerBalance, rounds>>
<1>1. /\ CreditKey(item.data) = OwnKey(item) /\ OwnKey(item) \in CreditKeys
      /\ item.key \in candidates
  BY MaturedItem, ItemFields DEF Source
<1>2. creditsImmature[OwnKey(item)] = NoCredits
  BY <1>1, NotPromised DEF KeyInv, OwnKey
<1>3. creditsImmature' = [creditsImmature EXCEPT
                             ![OwnKey(item)] = SetNX(creditsImmature[OwnKey(item)], rewards)]
  BY <1>1, MoneyTypes DEF WriteImmatureBlock
<1>4. creditsImmature' = [creditsImmature EXCEPT ![OwnKey(item)] = rewards]
  BY <1>2, <1>3, MoneyTypes, FirstEntry
<1>5. QED
  BY <1>1, <1>2, <1>4, MoneyTypes DEF WriteImmatureBlock, WriteImmatureBlocks, shareVars

(* WritePendingOrphans: blocks that are not on the chain now *)
LEMMA DoubtEntry ==
    ASSUME TypeOK, StageInv, ItemInv, KeyInv, stage = "pending",
           WritePendingOrphans(orphanedBlocks)
    PROVE  /\ candidates' = candidates \ {i.key : i \in orphanedBlocks}
           /\ immature' = immature \cup {Key(i.data) : i \in orphanedBlocks}
           /\ \A i \in orphanedBlocks :
                 i \in Lists /\ i.key \in candidates /\ Key(i.data).hash = ZeroHash
           /\ UNCHANGED <<matured, moneyVars, rounds>>
<1>1. ASSUME NEW i \in orphanedBlocks
      PROVE  i \in Lists /\ i.key \in candidates /\ Key(i.data).hash = ZeroHash
  <2>1. /\ i \in Lists /\ i.data.hash = i.key.hash /\ i.data \in BlockData
        /\ i.key \in candidates
    BY OrphanedItem, ItemFields DEF Source
  <2>2. QED
    BY <2>1, KeyFields DEF KeyInv, HashInv
<1>2. QED
  BY <1>1 DEF WritePendingOrphans, WriteImmatureBlocks, shareVars

(* WriteMaturedBlock *)
LEMMA PayEntry ==
    ASSUME HeadersTell, TypeOK, StageInv, ItemInv, KeyInv, stage = "credit",
           NEW item \in maturedBlocks, NEW log, WriteMaturedBlock(item, rewards, log)
    PROVE  /\ item.key \in immature /\ credits[OwnKey(item)] = NoCredits
           /\ immature' = immature \ {item.key}
           /\ matured' = matured \cup {Key(item.data)}
           /\ minerImmature' = Minus(minerImmature, log)
           /\ minerBalance' = Plus(minerBalance, rewards)
           /\ credits' = [credits EXCEPT ![OwnKey(item)] = rewards]
           /\ creditsImmature' = [creditsImmature EXCEPT ![OwnKey(item)] = NoCredits]
           /\ finances'.immature = finances.immature - SumFunction(log)
           /\ finances'.balance = finances.balance + SumFunction(rewards)
           /\ finances'.totalMined = finances.totalMined + item.data.reward
           /\ UNCHANGED candidates
<1>1. /\ CreditKey(item.data) = OwnKey(item) /\ OwnKey(item) \in CreditKeys
      /\ item.key \in immature
  BY MaturedItem, ItemFields DEF Source
<1>2. credits[OwnKey(item)] = NoCredits
  BY <1>1, NotPaid DEF KeyInv, OwnKey
<1>3. credits' = [credits EXCEPT ![OwnKey(item)] = SetNX(credits[OwnKey(item)], rewards)]
  BY <1>1, MoneyTypes DEF WriteMaturedBlock
<1>4. credits' = [credits EXCEPT ![OwnKey(item)] = rewards]
  BY <1>2, <1>3, MoneyTypes, FirstEntry
<1>5. QED
  BY <1>1, <1>2, <1>4, MoneyTypes DEF WriteMaturedBlock, WriteMaturedBlocks, Decremented

(* WriteOrphan *)
LEMMA CancelEntry ==
    ASSUME TypeOK, StageInv, ItemInv, stage = "credit", NEW item \in orphanedBlocks,
           NEW log, WriteOrphan(item, log)
    PROVE  /\ item.key \in immature /\ CreditKey(item.key) \in CreditKeys
           /\ immature' = immature \ {item.key}
           /\ matured' = matured \cup {Key(item.data)}
           /\ minerImmature' = Minus(minerImmature, log)
           /\ creditsImmature' = [creditsImmature EXCEPT ![CreditKey(item.key)] = NoCredits]
           /\ finances'.immature = finances.immature - SumFunction(log)
           /\ finances'.balance = finances.balance /\ finances'.totalMined = finances.totalMined
           /\ UNCHANGED <<candidates, credits, minerBalance>>
<1>1. /\ CreditKey(item.data) = CreditKey(item.key) /\ CreditKey(item.data) \in CreditKeys
      /\ item.key \in immature
  BY OrphanedItem, ItemFields DEF Source
<1>2. QED
  BY <1>1, MoneyTypes DEF WriteOrphan, WriteMaturedBlocks, Decremented

-----------------------------------------------------------------------------
(* The keys of the logs *)

LEMMA PromiseKeys ==
    ASSUME HeadersTell, TypeOK, StageInv, ItemInv, KeyInv, stage = "pending",
           NEW item \in maturedBlocks, WriteImmatureBlock(item, rewards)
    PROVE  KeyInv'
<1> DEFINE k == OwnKey(item)
           new == Key(item.data)
<1>1. new.hash = new.id /\ new.id = item.key.id /\ CreditKey(new) = k
  BY MaturedItem
<1>2. /\ candidates' \subseteq candidates /\ immature' = immature \cup {new}
      /\ creditsImmature' = [creditsImmature EXCEPT ![k] = rewards]
      /\ UNCHANGED <<matured, credits>>
  BY PromiseEntry
<1> HIDE DEF k, new
<1>3. HashInv'
  BY <1>1, <1>2 DEF KeyInv, HashInv
<1>4. ASSUME NEW j \in CreditKeys, creditsImmature'[j] # NoCredits
      PROVE  \E x \in immature' : x.hash = x.id /\ CreditKey(x) = j
  <2>1. CASE j = k
    BY <1>1, <1>2, <2>1
  <2>2. CASE j # k
    <3>1. creditsImmature[j] # NoCredits
      BY <1>2, <1>4, <2>2, MoneyTypes
    <3>2. QED
      BY <1>2, <3>1 DEF KeyInv, LogInv
  <2>3. QED
    BY <2>1, <2>2
<1>5. QED
  BY <1>2, <1>3, <1>4 DEF KeyInv, LogInv

LEMMA DoubtKeys ==
    ASSUME TypeOK, StageInv, ItemInv, KeyInv, stage = "pending",
           WritePendingOrphans(orphanedBlocks)
    PROVE  KeyInv'
<1>1. /\ candidates' \subseteq candidates /\ immature \subseteq immature'
      /\ \A x \in immature' : x \in immature \/ x.hash = ZeroHash
      /\ UNCHANGED <<matured, moneyVars>>
  BY DoubtEntry
<1>2. QED
  BY <1>1 DEF KeyInv, HashInv, LogInv, moneyVars

(* A settled block takes its log entry with it. *)
LEMMA TakeBackKeys ==
    ASSUME TypeOK, KeyInv, NEW b \in immature, NEW k \in CreditKeys,
           CreditKey(b) = k \/ k = <<b.height, b.id>>, immature' = immature \ {b},
           creditsImmature' = [creditsImmature EXCEPT ![k] = NoCredits],
           NEW j \in CreditKeys, creditsImmature'[j] # NoCredits
    PROVE  \E x \in immature' : x.hash = x.id /\ CreditKey(x) = j
<1>1. j # k /\ creditsImmature[j] # NoCredits
  BY MoneyTypes
<1>2. PICK x \in immature : x.hash = x.id /\ CreditKey(x) = j
  BY <1>1 DEF KeyInv, LogInv
<1>3. x # b
  BY <1>1, <1>2 DEF CreditKey
<1>4. QED
  BY <1>2, <1>3

LEMMA PayKeys ==
    ASSUME HeadersTell, TypeOK, StageInv, ItemInv, KeyInv, stage = "credit",
           NEW item \in maturedBlocks, NEW log, WriteMaturedBlock(item, rewards, log)
    PROVE  KeyInv'
<1> DEFINE k == OwnKey(item)
           new == Key(item.data)
<1>1. /\ new.hash = new.id /\ CreditKey(new) = k
      /\ k \in CreditKeys /\ k = <<item.key.height, item.key.id>>
  BY MaturedItem DEF OwnKey
<1>2. /\ item.key \in immature /\ immature' = immature \ {item.key}
      /\ matured' = matured \cup {new}
      /\ credits' = [credits EXCEPT ![k] = rewards]
      /\ creditsImmature' = [creditsImmature EXCEPT ![k] = NoCredits]
      /\ UNCHANGED candidates
  BY PayEntry
<1> HIDE DEF k, new
<1>3. HashInv'
  BY <1>1, <1>2 DEF KeyInv, HashInv
<1>4. ASSUME NEW j \in CreditKeys, credits'[j] # NoCredits
      PROVE  \E m \in matured' : m.hash = m.id /\ CreditKey(m) = j
  <2>1. CASE j = k
    BY <1>1, <1>2, <2>1
  <2>2. CASE j # k
    <3>1. credits[j] # NoCredits
      BY <1>2, <1>4, <2>2, MoneyTypes
    <3>2. QED
      BY <1>2, <3>1 DEF KeyInv, LogInv
  <2>3. QED
    BY <2>1, <2>2
<1>5. ASSUME NEW j \in CreditKeys, creditsImmature'[j] # NoCredits
      PROVE  \E x \in immature' : x.hash = x.id /\ CreditKey(x) = j
  BY <1>1, <1>2, <1>5, TakeBackKeys
<1>6. QED
  BY <1>3, <1>4, <1>5 DEF KeyInv, LogInv

LEMMA CancelKeys ==
    ASSUME TypeOK, StageInv, ItemInv, KeyInv, stage = "credit", NEW item \in orphanedBlocks,
           NEW log, WriteOrphan(item, log)
    PROVE  KeyInv'
<1>1. /\ item.key \in immature /\ CreditKey(item.key) \in CreditKeys
      /\ immature' = immature \ {item.key}
      /\ matured' = matured \cup {Key(item.data)}
      /\ creditsImmature' = [creditsImmature EXCEPT ![CreditKey(item.key)] = NoCredits]
      /\ UNCHANGED <<candidates, credits>>
  BY CancelEntry
<1>2. Key(item.data).orphan
  BY OrphanedItem
<1>3. HashInv'
  BY <1>1, <1>2 DEF KeyInv, HashInv
<1>4. ASSUME NEW j \in CreditKeys, creditsImmature'[j] # NoCredits
      PROVE  \E x \in immature' : x.hash = x.id /\ CreditKey(x) = j
  BY <1>1, <1>4, TakeBackKeys
<1>5. QED
  BY <1>1, <1>3, <1>4 DEF KeyInv, LogInv

LEMMA NextKeys ==
    ASSUME HeadersTell, TypeOK, StageInv, ItemInv, KeyInv, [Next]_vars
    PROVE  KeyInv'
<1>1. ASSUME UNCHANGED storageVars
      PROVE  KeyInv'
  BY <1>1 DEF KeyInv, HashInv, LogInv, storageVars, blockVars, moneyVars
<1>2. CASE ChainStep \/ Crash \/ Restart \/ UNCHANGED vars
  BY <1>1, <1>2 DEF ChainStep, Crash, Restart, vars
<1>3. CASE SessionStep
  <2>1. /\ UNCHANGED <<immature, matured, moneyVars>>
        /\ \A x \in candidates' : x \in candidates \/ x.hash = NoHash
    BY <1>3, SessionStores
  <2>2. QED
    BY <2>1 DEF KeyInv, HashInv, LogInv, moneyVars
<1>4. CASE UnlockerStep
  BY <1>1, <1>4, PromiseKeys, DoubtKeys, PayKeys, CancelKeys, UnlockerStores
<1>5. QED
  BY <1>2, <1>3, <1>4 DEF Next

LEMMA KeyInvariant ==
    ASSUME HeadersTell
    PROVE  Spec => []KeyInv
<1>1. Init => KeyInv
  BY DEF Init, StorageInit, KeyInv, HashInv, LogInv
<1>2. TypeOK /\ StageInv /\ ItemInv /\ KeyInv /\ [Next]_vars => KeyInv'
  BY NextKeys
<1>3. QED
  BY <1>1, <1>2, StageInvariant, ItemInvariant, TypeInvariant, PTL DEF Spec

-----------------------------------------------------------------------------
(* Money: the steps *)

LEMMA PromiseMoney ==
    ASSUME HeadersTell, TypeOK, StageInv, ItemInv, KeyInv, MoneyInv, stage = "pending",
           NEW item \in maturedBlocks, WriteImmatureBlock(item, rewards)
    PROVE  MoneyInv'
<1> DEFINE k == OwnKey(item)
<1>1. /\ creditsImmature[k] = NoCredits
      /\ creditsImmature' = [creditsImmature EXCEPT ![k] = rewards]
      /\ minerImmature' = Plus(minerImmature, rewards)
      /\ finances'.immature = finances.immature + SumFunction(rewards)
      /\ finances'.balance = finances.balance /\ finances'.totalMined = finances.totalMined
      /\ UNCHANGED <<matured, credits, minerBalance>>
  BY PromiseEntry
<1>2. k \in CreditKeys
  BY MaturedItem
<1> HIDE DEF k
<1>3. ImmatureMatchesLog'
  <2>1. Books(minerImmature, creditsImmature, finances.immature)
    BY MoneyBooks DEF MoneyInv
  <2>2. Books(Plus(minerImmature, rewards), [creditsImmature EXCEPT ![k] = rewards],
              finances.immature + SumFunction(rewards))
    BY <1>1, <1>2, <2>1, MoneyTypes, Deposit
  <2>3. QED
    BY <1>1, <2>2 DEF ImmatureMatchesLog, Books, Column
<1>4. BalanceMatchesCredits'
  BY <1>1 DEF MoneyInv, BalanceMatchesCredits
<1>5. QED
  BY <1>3, <1>4 DEF MoneyInv

(* What WriteMaturedBlock and WriteOrphan both do: the log entry of the    *)
(* block is taken back.                                                    *)
LEMMA TakeBackMoney ==
    ASSUME TypeOK, MoneyInv, NEW k \in CreditKeys,
           minerImmature' = Minus(minerImmature, creditsImmature[k]),
           creditsImmature' = [creditsImmature EXCEPT ![k] = NoCredits],
           finances'.immature = finances.immature - SumFunction(creditsImmature[k])
    PROVE  ImmatureMatchesLog'
<1>1. Books(minerImmature, creditsImmature, finances.immature)
  BY MoneyBooks DEF MoneyInv
<1>2. Books(Minus(minerImmature, creditsImmature[k]),
            [creditsImmature EXCEPT ![k] = NoCredits],
            finances.immature - SumFunction(creditsImmature[k]))
  BY <1>1, MoneyTypes, Withdraw
<1>3. QED
  BY <1>2 DEF ImmatureMatchesLog, Books, Column

(* What a settled block adds to the rewards of the matured blocks *)
LEMMA MinedSum ==
    ASSUME TypeOK, StageInv, ItemInv, IsFiniteSet(matured), NEW item \in Lists,
           stage = "credit", matured' = matured \cup {Key(item.data)}
    PROVE  SumFunction(Mined') = SumFunction(Mined) + item.data.reward
<1> DEFINE new == Key(item.data)
<1>1. /\ new.id = item.key.id /\ item.key \in immature
      /\ new.reward = item.data.reward /\ new.reward \in Nat
  BY ItemFields, KeyFields DEF Source, BlockData
<1> HIDE DEF new
<1>2. new \notin matured
  BY <1>1 DEF StageInv, BlockInOneStage, Stored
<1>3. \A m \in matured : m.reward \in Nat
  BY DEF TypeOK, StorageTypeOK, BlockTypeOK, BlockData
<1>4. Mined \in [matured -> Nat] /\ Mined' \in [matured \cup {new} -> Nat]
  BY <1>1, <1>3 DEF Mined, new
<1>5. \A m \in matured : Mined'[m] = Mined[m]
  BY DEF Mined
<1>6. Mined'[new] = new.reward
  BY DEF Mined, new
<1>7. QED
  BY <1>1, <1>2, <1>4, <1>5, <1>6, SumFunctionExtend

LEMMA PayMoney ==
    ASSUME HeadersTell, TypeOK, StageInv, ItemInv, KeyInv, MoneyInv, IsFiniteSet(matured),
           stage = "credit", NEW item \in maturedBlocks,
           WriteMaturedBlock(item, rewards, creditsImmature[CreditKey(item.data)])
    PROVE  MoneyInv'
<1> DEFINE k == OwnKey(item)
<1>1. CreditKey(item.data) = k /\ k \in CreditKeys /\ item \in Lists
  BY MaturedItem
<1>2. /\ credits[k] = NoCredits /\ matured' = matured \cup {Key(item.data)}
      /\ minerImmature' = Minus(minerImmature, creditsImmature[k])
      /\ minerBalance' = Plus(minerBalance, rewards)
      /\ credits' = [credits EXCEPT ![k] = rewards]
      /\ creditsImmature' = [creditsImmature EXCEPT ![k] = NoCredits]
      /\ finances'.immature = finances.immature - SumFunction(creditsImmature[k])
      /\ finances'.balance = finances.balance + SumFunction(rewards)
      /\ finances'.totalMined = finances.totalMined + item.data.reward
  BY <1>1, PayEntry
<1>3. SumFunction(Mined') = SumFunction(Mined) + item.data.reward
  BY <1>1, <1>2, MinedSum
<1> HIDE DEF k
<1>4. ImmatureMatchesLog'
  BY <1>1, <1>2, TakeBackMoney
<1>5. BalanceMatchesCredits'
  <2>1. Books(minerBalance, credits, finances.balance) /\ finances.totalMined = SumFunction(Mined)
    BY MoneyBooks DEF MoneyInv
  <2>2. Books(Plus(minerBalance, rewards), [credits EXCEPT ![k] = rewards],
              finances.balance + SumFunction(rewards))
    BY <1>1, <1>2, <2>1, MoneyTypes, Deposit
  <2>3. finances'.totalMined = SumFunction(Mined')
    BY <1>2, <1>3, <2>1
  <2>4. QED
    BY <1>2, <2>2, <2>3 DEF BalanceMatchesCredits, Books, Column, Mined
<1>6. QED
  BY <1>4, <1>5 DEF MoneyInv

LEMMA CancelMoney ==
    ASSUME TypeOK, StageInv, ItemInv, MoneyInv, IsFiniteSet(matured), stage = "credit",
           NEW item \in orphanedBlocks,
           WriteOrphan(item, creditsImmature[CreditKey(item.data)])
    PROVE  MoneyInv'
<1> DEFINE k == CreditKey(item.key)
<1>1. CreditKey(item.data) = k /\ item \in Lists /\ item.data.reward = 0
  BY OrphanedItem DEF ItemInv
<1>2. /\ k \in CreditKeys /\ matured' = matured \cup {Key(item.data)}
      /\ minerImmature' = Minus(minerImmature, creditsImmature[k])
      /\ creditsImmature' = [creditsImmature EXCEPT ![k] = NoCredits]
      /\ finances'.immature = finances.immature - SumFunction(creditsImmature[k])
      /\ finances'.balance = finances.balance /\ finances'.totalMined = finances.totalMined
      /\ UNCHANGED <<credits, minerBalance>>
  BY <1>1, CancelEntry
<1>3. SumFunction(Mined') = SumFunction(Mined) + 0
  BY <1>1, <1>2, MinedSum
<1> HIDE DEF k
<1>4. ImmatureMatchesLog'
  BY <1>2, TakeBackMoney
<1>5. BalanceMatchesCredits'
  <2>1. Books(minerBalance, credits, finances.balance) /\ finances.totalMined = SumFunction(Mined)
    BY MoneyBooks DEF MoneyInv
  <2>2. finances.totalMined \in Int
    BY MoneyTypes
  <2>3. SumFunction(Mined') = finances'.totalMined
    BY <1>2, <1>3, <2>1, <2>2
  <2>4. QED
    BY <1>2, <2>1, <2>3 DEF BalanceMatchesCredits, Books, Column, Mined
<1>6. QED
  BY <1>4, <1>5 DEF MoneyInv

(* Where headers tell the pool's blocks, the rounds are apart as well. *)
LEMMA TellApart == HeadersTell => RoundsApart
BY DaemonAssumption DEF HeadersTell, RoundsApart, AnyBlock

LEMMA NextMoney ==
    ASSUME HeadersTell, ReadsSucceed, TypeOK, StageInv, ItemInv, RoundInv, KeyInv, MoneyInv,
           [Next]_vars
    PROVE  MoneyInv'
<1>1. ASSUME UNCHANGED <<matured, moneyVars>>
      PROVE  MoneyInv'
  BY <1>1 DEF MoneyInv, ImmatureMatchesLog, BalanceMatchesCredits, moneyVars
<1>2. CASE ChainStep \/ Crash \/ Restart \/ UNCHANGED vars
  BY <1>1, <1>2 DEF ChainStep, Crash, Restart, vars, storageVars, blockVars
<1>3. CASE SessionStep
  BY <1>1, <1>3, SessionStores
<1>4. CASE UnlockerStep
  <2>1. IsFiniteSet(matured)
    BY DEF RoundInv
  <2>2. CASE UNCHANGED storageVars
    BY <1>1, <2>2 DEF storageVars, blockVars
  <2>3. CASE stage = "pending" /\ WritePendingOrphans(orphanedBlocks)
    BY <1>1, <2>3 DEF WritePendingOrphans
  <2>4. ASSUME NEW item \in maturedBlocks, stage = "credit", NEW log,
               Settled(item, log), WriteMaturedBlock(item, rewards, log)
        PROVE  MoneyInv'
    BY <2>1, <2>4, PayMoney DEF Settled
  <2>5. ASSUME NEW item \in orphanedBlocks, stage = "credit", NEW log,
               Settled(item, log), WriteOrphan(item, log)
        PROVE  MoneyInv'
    BY <2>1, <2>5, CancelMoney DEF Settled
  <2>6. QED
    BY <1>4, <2>2, <2>3, <2>4, <2>5, PromiseMoney, UnlockerStores
<1>5. QED
  BY <1>2, <1>3, <1>4 DEF Next

LEMMA InitMoney == Init => MoneyInv
<1> SUFFICES ASSUME Init PROVE MoneyInv
  OBVIOUS
<1>1. /\ candidates = {} /\ immature = {} /\ matured = {}
      /\ creditsImmature = [k \in CreditKeys |-> NoCredits]
      /\ credits = [k \in CreditKeys |-> NoCredits]
      /\ minerImmature = NoCredits /\ minerBalance = NoCredits
      /\ finances.immature = 0 /\ finances.balance = 0 /\ finances.totalMined = 0
  BY DEF Init, StorageInit
<1>2. ASSUME NEW a \in Accounts
      PROVE  Column([k \in CreditKeys |-> NoCredits], a) = 0
  <2> DEFINE f == [k \in CreditKeys |-> [j \in CreditKeys |-> NoCredits][k][a]]
  <2>1. f \in [CreditKeys -> Nat] /\ \A k \in CreditKeys : f[k] = 0
    BY DEF NoCredits
  <2> HIDE DEF f
  <2>2. SumFunction(f) = 0
    BY <2>1, CreditKeysFinite, SumFunctionZero
  <2>3. QED
    BY <2>2 DEF f, Column
<1>3. Books(NoCredits, [k \in CreditKeys |-> NoCredits], 0)
  <2>1. \A a \in Accounts : NoCredits[a] = 0
    BY DEF NoCredits
  <2>2. QED
    BY <1>2, <2>1, NothingCredited DEF Books
<1>4. SumFunction(Mined) = 0
  <2>1. Mined \in [matured -> Nat] /\ \A m \in matured : Mined[m] = 0
    BY <1>1 DEF Mined
  <2>2. IsFiniteSet(matured)
    BY <1>1, FS_EmptySet
  <2>3. QED
    BY <2>1, <2>2, SumFunctionZero
<1>5. QED
  BY <1>1, <1>3, <1>4, MoneyBooks DEF MoneyInv

LEMMA MoneyInvariant ==
    ASSUME HeadersTell, ReadsSucceed
    PROVE  Spec => []MoneyInv
<1>1. TypeOK /\ StageInv /\ ItemInv /\ RoundInv /\ KeyInv /\ MoneyInv /\ [Next]_vars
         => MoneyInv'
  BY NextMoney
<1>2. Spec => []RoundInv /\ []KeyInv
  BY TellApart, RoundInvariant, KeyInvariant
<1>3. QED
  BY <1>1, <1>2, InitMoney, StageInvariant, ItemInvariant, TypeInvariant, PTL DEF Spec

(* The immature balance of every account is what the log of immature       *)
(* credits holds for it, and finances.immature is the sum of them all,     *)
(* where headers tell the pool's blocks and the HGETALL of a transaction   *)
(* that is committed does not fail.  Without the second hypothesis the     *)
(* run "read" shows a counterexample.                                      *)
THEOREM ImmaturesMatch ==
    ASSUME HeadersTell, ReadsSucceed
    PROVE  Spec => []ImmatureMatchesLog
<1>1. MoneyInv => ImmatureMatchesLog
  BY DEF MoneyInv
<1>2. QED
  BY <1>1, MoneyInvariant, PTL

(* Every account's balance is what the final credit log holds for it, and  *)
(* the finances agree with the balances and with the matured blocks.       *)
THEOREM BalancesMatch ==
    ASSUME HeadersTell, ReadsSucceed
    PROVE  Spec => []BalanceMatchesCredits
<1>1. MoneyInv => BalanceMatchesCredits
  BY DEF MoneyInv
<1>2. QED
  BY <1>1, MoneyInvariant, PTL

-----------------------------------------------------------------------------
(* What calculateRewards splits *)

(* Rounding, as big.Rat.FloatString(0) does it *)
LEMMA DivisionBounds ==
    ASSUME NEW x \in Nat, NEW y \in Nat \ {0}
    PROVE  /\ x \div y \in Nat
           /\ y * (x \div y) =< x
           /\ x < y * (x \div y) + y
OBVIOUS

LEMMA RoundRatBounds ==
    ASSUME NEW a \in Nat, NEW b \in Nat \ {0}
    PROVE  /\ RoundRat(a, b) \in Nat
           /\ b * (2 * RoundRat(a, b)) =< 2 * a + b
           /\ 2 * a =< b * (2 * RoundRat(a, b)) + b
<1>1. 2 * a + b \in Nat /\ 2 * b \in Nat \ {0}
  OBVIOUS
<1> DEFINE q == (2 * a + b) \div (2 * b)
<1>2. /\ q \in Nat /\ (2 * b) * q =< 2 * a + b
      /\ 2 * a + b < (2 * b) * q + 2 * b
  BY <1>1, DivisionBounds
<1> HIDE DEF q
<1>3. (2 * b) * q = b * (2 * q)
  BY <1>2
<1>4. q = RoundRat(a, b)
  BY DEF q, RoundRat
<1>5. b * (2 * q) \in Nat
  BY <1>2
<1>6. QED
  BY <1>2, <1>3, <1>4, <1>5

LEMMA Cancel ==
    ASSUME NEW c \in Nat \ {0}, NEW x \in Int, NEW y \in Int, c * x =< c * y
    PROVE  x =< y
OBVIOUS

(* Amounts that are each rounded to half a unit: what their sum may miss   *)
LEMMA RoundedSum ==
    ASSUME NEW S, IsFiniteSet(S), NEW c \in Nat \ {0}, NEW paid \in [S -> Nat],
           NEW X \in [S -> Nat],
           \A a \in S : /\ paid[a] # 0 => c * (2 * paid[a]) =< X[a] + c
                        /\ X[a] =< c * (2 * paid[a]) + c
    PROVE  /\ c * (2 * SumFunction(paid))
                 =< SumFunction(X) + c * Cardinality({a \in S : paid[a] # 0})
           /\ SumFunction(X) =< c * (2 * SumFunction(paid)) + c * Cardinality(S)
           /\ SumFunction(paid) \in Nat /\ SumFunction(X) \in Nat
           /\ Cardinality({a \in S : paid[a] # 0}) \in Nat /\ Cardinality(S) \in Nat
<1> DEFINE payees == {a \in S : paid[a] # 0}
           paid2 == [a \in S |-> 2 * paid[a]]
           P == [a \in S |-> c * paid2[a]]
           one == [a \in S |-> IF a \in payees THEN 1 ELSE 0]
           J == [a \in S |-> c * one[a]]
           all == [a \in S |-> IF a \in S THEN 1 ELSE 0]
           K == [a \in S |-> c * all[a]]
           XJ == [a \in S |-> X[a] + J[a]]
           PK == [a \in S |-> P[a] + K[a]]
<1>1. paid2 \in [S -> Nat] /\ P \in [S -> Nat]
  BY ProductNat
<1>2. one \in [S -> Nat] /\ J \in [S -> Nat] /\ all \in [S -> Nat] /\ K \in [S -> Nat]
  BY ProductNat
<1>3. XJ \in [S -> Nat] /\ PK \in [S -> Nat]
  <2> HIDE DEF paid2, P, one, J, all, K, payees
  <2>1. QED
    BY <1>1, <1>2
<1>4. \A a \in S : P[a] =< XJ[a] /\ X[a] =< PK[a]
  <2> SUFFICES ASSUME NEW a \in S PROVE P[a] =< XJ[a] /\ X[a] =< PK[a]
    OBVIOUS
  <2>1. P[a] = c * (2 * paid[a]) /\ K[a] = c
    OBVIOUS
  <2>2. CASE paid[a] = 0
    <3>1. P[a] = 0 /\ J[a] = 0
      BY <2>2
    <3>2. QED
      BY <2>1, <3>1
  <2>3. CASE paid[a] # 0
    <3>1. J[a] = c
      BY <2>3
    <3>2. QED
      BY <2>1, <2>3, <3>1
  <2>4. QED
    BY <2>2, <2>3
<1>5. SumFunction(paid2) = 2 * SumFunction(paid)
  <2>1. \A a \in S : paid2[a] = 2 * paid[a]
    OBVIOUS
  <2> HIDE DEF payees, paid2, P, one, J, all, K, XJ, PK
  <2>2. QED
    BY <1>1, <2>1, SumFunctionScale
<1>6. SumFunction(P) = c * SumFunction(paid2)
  <2>1. \A a \in S : P[a] = c * paid2[a]
    OBVIOUS
  <2> HIDE DEF payees, paid2, P, one, J, all, K, XJ, PK
  <2>2. QED
    BY <1>1, <2>1, SumFunctionScale
<1>7. SumFunction(J) = c * Cardinality(payees)
  <2>1. \A a \in S : J[a] = c * one[a]
    OBVIOUS
  <2>0. \A a \in S : one[a] = IF a \in payees THEN 1 ELSE 0
    OBVIOUS
  <2>2. payees \in SUBSET S
    OBVIOUS
  <2> HIDE DEF payees, paid2, P, one, J, all, K, XJ, PK
  <2>3. SumFunction(one) = Cardinality(payees)
    BY <1>2, <2>0, <2>2, SumFunctionCount
  <2>4. QED
    BY <1>2, <2>1, <2>3, SumFunctionScale
<1>8. SumFunction(K) = c * Cardinality(S)
  <2>1. \A a \in S : K[a] = c * all[a]
    OBVIOUS
  <2>0. \A a \in S : all[a] = IF a \in S THEN 1 ELSE 0
    OBVIOUS
  <2> HIDE DEF payees, paid2, P, one, J, all, K, XJ, PK
  <2>2. SumFunction(all) = Cardinality(S)
    BY <1>2, <2>0, SumFunctionCount
  <2>3. QED
    BY <1>2, <2>1, <2>2, SumFunctionScale
<1>9. SumFunction(XJ) = SumFunction(X) + SumFunction(J)
  <2>1. \A a \in S : XJ[a] = X[a] + J[a]
    OBVIOUS
  <2> HIDE DEF payees, paid2, P, one, J, all, K, XJ, PK
  <2>2. QED
    BY <1>2, <1>3, <2>1, SumFunctionPlus
<1>10. SumFunction(PK) = SumFunction(P) + SumFunction(K)
  <2>1. \A a \in S : PK[a] = P[a] + K[a]
    OBVIOUS
  <2> HIDE DEF payees, paid2, P, one, J, all, K, XJ, PK
  <2>2. PK \in [S -> Nat] /\ P \in [S -> Nat] /\ K \in [S -> Nat]
    BY <1>1, <1>2, <1>3
  <2>3. QED
    BY <2>1, <2>2, SumFunctionPlus
<1>11. Cardinality(payees) \in Nat /\ Cardinality(S) \in Nat
  <2>1. IsFiniteSet(payees)
    BY FS_Subset
  <2>2. QED
    BY <2>1, FS_CardinalityType
<1>12. SumFunction(paid) \in Nat /\ SumFunction(X) \in Nat
  BY SumFunctionNat
<1> HIDE DEF payees, paid2, P, one, J, all, K, XJ, PK
<1>13. SumFunction(P) =< SumFunction(XJ) /\ SumFunction(X) =< SumFunction(PK)
  BY <1>1, <1>3, <1>4, SumFunctionMonotone
<1>14. /\ c * (2 * SumFunction(paid)) =< SumFunction(X) + c * Cardinality(payees)
       /\ SumFunction(X) =< c * (2 * SumFunction(paid)) + c * Cardinality(S)
  BY <1>5, <1>6, <1>7, <1>8, <1>9, <1>10, <1>13
<1>15. QED
  BY <1>11, <1>12, <1>14 DEF payees

(* What there is to be split is what the block earns. *)
LEMMA WholeReward ==
    /\ FeeDen \in Nat \ {0} /\ Reward \in Nat /\ ExtraReward \in Nat
    /\ MinersProfit(Reward) \in Nat /\ PoolProfit(Reward) + ExtraReward * FeeDen \in Nat
    /\ MinersProfit(Reward) + (PoolProfit(Reward) + ExtraReward * FeeDen)
          = FeeDen * (CoinBase + TxFee)
<1>1. /\ FeeDen \in Nat \ {0} /\ FeeNum \in Nat /\ FeeDen - FeeNum \in Nat
  BY RewardsAssumption
<1>2. Reward \in Nat /\ ExtraReward \in Nat /\ Reward + ExtraReward = CoinBase + TxFee
  BY DaemonAssumption DEF Reward, ExtraReward
<1>3. /\ MinersProfit(Reward) = Reward * (FeeDen - FeeNum)
      /\ PoolProfit(Reward) = Reward * FeeNum
  BY DEF MinersProfit, PoolProfit
<1>4. Reward * (FeeDen - FeeNum) + Reward * FeeNum = FeeDen * Reward
  BY <1>1, <1>2
<1>5. FeeDen * Reward + ExtraReward * FeeDen = FeeDen * (Reward + ExtraReward)
  BY <1>1, <1>2
<1>6. /\ Reward * (FeeDen - FeeNum) \in Nat /\ Reward * FeeNum \in Nat
      /\ ExtraReward * FeeDen \in Nat
  BY <1>1, <1>2, ProductNat
<1>7. QED
  BY <1>1, <1>2, <1>3, <1>4, <1>5, <1>6

(* Twice the exact amount of an account, times FeeDen * total *)
Exact(shares, total) ==
    [a \in Accounts |->
        IF a \in FeeAccounts THEN total * (2 * (PoolProfit(Reward) + ExtraReward * FeeDen))
                             ELSE (2 * MinersProfit(Reward)) * shares[a]]

LEMMA LoginShare ==
    ASSUME FeeAddressApart, NEW shares \in [Logins -> Nat], NEW total \in Nat \ {0},
           NEW a \in Logins
    PROVE  LET paid == CalculateRewards(shares, total, Reward, ExtraReward)[a]
               exact == Exact(shares, total)[a]
               c == FeeDen * total
           IN /\ paid \in Nat /\ exact \in Nat /\ c \in Nat \ {0}
              /\ paid # 0 => c * (2 * paid) =< exact + c
              /\ exact =< c * (2 * paid) + c
<1> DEFINE P == MinersProfit(Reward)
           c == FeeDen * total
           paid == CalculateRewards(shares, total, Reward, ExtraReward)[a]
           exact == Exact(shares, total)[a]
<1>1. P \in Nat /\ FeeDen \in Nat \ {0} /\ shares[a] \in Nat
  BY WholeReward
<1>2. c \in Nat \ {0} /\ P * shares[a] \in Nat
  BY <1>1, ProductNat
<1>3. paid = IF shares[a] = 0 THEN 0 ELSE RoundRat(P * shares[a], c)
  <2>1. a \in Accounts /\ a \notin FeeAccounts
    BY DEF FeeAddressApart, Accounts
  <2>2. paid = RewardForShares(shares[a], total, P) + 0
    BY <2>1 DEF CalculateRewards
  <2>3. RewardForShares(shares[a], total, P) \in Nat
    BY <1>1, <1>2, RoundRatNat DEF RewardForShares
  <2>4. QED
    BY <2>2, <2>3 DEF RewardForShares
<1>4. exact = (2 * P) * shares[a]
  BY DEF FeeAddressApart, Accounts, Exact
<1> HIDE DEF P, c, paid, exact
<1>5. (2 * P) * shares[a] = 2 * (P * shares[a])
  BY <1>1
<1>6. CASE shares[a] = 0
  <2>1. paid = 0 /\ exact = 0
    BY <1>1, <1>3, <1>4, <1>6
  <2>2. c * (2 * paid) = 0
    BY <1>2, <2>1
  <2>3. QED
    BY <1>2, <2>1, <2>2 DEF P, c, paid, exact
<1>7. CASE shares[a] # 0
  <2>1. paid = RoundRat(P * shares[a], c)
    BY <1>3, <1>7
  <2>2. /\ paid \in Nat /\ c * (2 * paid) =< 2 * (P * shares[a]) + c
        /\ 2 * (P * shares[a]) =< c * (2 * paid) + c
    BY <1>2, <2>1, RoundRatBounds
  <2>3. exact \in Nat
    BY <1>2, <1>4, <1>5
  <2>4. QED
    BY <1>2, <1>4, <1>5, <2>2, <2>3 DEF P, c, paid, exact
<1>8. QED
  BY <1>6, <1>7

LEMMA FeeShare ==
    ASSUME FeeAddressApart, NEW shares \in [Logins -> Nat], NEW total \in Nat \ {0},
           NEW a \in FeeAccounts
    PROVE  LET paid == CalculateRewards(shares, total, Reward, ExtraReward)[a]
               exact == Exact(shares, total)[a]
               c == FeeDen * total
           IN /\ paid \in Nat /\ exact \in Nat /\ c \in Nat \ {0}
              /\ paid # 0 => c * (2 * paid) =< exact + c
              /\ exact =< c * (2 * paid) + c
<1> DEFINE Q == PoolProfit(Reward) + ExtraReward * FeeDen
           c == FeeDen * total
           paid == CalculateRewards(shares, total, Reward, ExtraReward)[a]
           exact == Exact(shares, total)[a]
<1>1. Q \in Nat /\ FeeDen \in Nat \ {0}
  BY WholeReward
<1>2. c \in Nat \ {0}
  BY <1>1, ProductNat
<1>3. RoundRat(Q, FeeDen) \in Nat
  BY <1>1, RoundRatNat
<1>4. paid = RoundRat(Q, FeeDen)
  <2>1. a \in Accounts /\ a \notin Logins
    BY DEF FeeAddressApart, Accounts
  <2>2. paid = 0 + RoundRat(Q, FeeDen)
    BY <2>1 DEF CalculateRewards
  <2>3. QED
    BY <1>3, <2>2
<1>5. exact = total * (2 * Q)
  BY DEF Accounts, Exact
<1>6. FeeDen * (2 * paid) =< 2 * Q + FeeDen /\ 2 * Q =< FeeDen * (2 * paid) + FeeDen
  BY <1>1, <1>4, RoundRatBounds
<1> HIDE DEF Q, paid, exact
<1>7. total * (FeeDen * (2 * paid)) = c * (2 * paid)
  BY <1>1, <1>3, <1>4
<1>8. /\ FeeDen * (2 * paid) \in Nat /\ 2 * Q \in Nat
      /\ total * (2 * Q) \in Nat /\ c * (2 * paid) \in Nat
  BY <1>1, <1>2, <1>3, <1>4, ProductNat
<1>9. ASSUME NEW x \in Nat, NEW y \in Nat, x =< y + FeeDen
      PROVE  total * x =< total * y + c
  <2>1. total * x =< total * (y + FeeDen)
    BY <1>1, <1>9
  <2>2. total * (y + FeeDen) = total * y + c
    BY <1>1
  <2>3. QED
    BY <2>1, <2>2
<1>10. c * (2 * paid) =< exact + c /\ exact =< c * (2 * paid) + c
  BY <1>5, <1>6, <1>7, <1>8, <1>9
<1>11. QED
  BY <1>2, <1>3, <1>4, <1>5, <1>8, <1>10 DEF Q, c, paid, exact

LEMMA ExactSum ==
    ASSUME FeeAddressApart, NEW total \in Nat \ {0}, NEW shares \in [Logins -> Nat],
           SumFunction(shares) = total
    PROVE  /\ Exact(shares, total) \in [Accounts -> Nat]
           /\ FeeAccounts # {} => SumFunction(Exact(shares, total))
                                     = (FeeDen * total) * (2 * (CoinBase + TxFee))
           /\ SumFunction(Exact(shares, total)) =< (FeeDen * total) * (2 * (CoinBase + TxFee))
<1> DEFINE P == MinersProfit(Reward)
           Q == PoolProfit(Reward) + ExtraReward * FeeDen
           E == CoinBase + TxFee
           X == Exact(shares, total)
           miners == [a \in Logins |-> (2 * P) * shares[a]]
<1>1. P \in Nat /\ Q \in Nat /\ FeeDen \in Nat \ {0} /\ P + Q = FeeDen * E /\ E \in Nat
  BY WholeReward, DaemonAssumption
<1>2. \A a \in Accounts : X[a] \in Nat
  BY LoginShare, FeeShare DEF Accounts
<1>3. X \in [Accounts -> Nat]
  BY <1>2 DEF Exact
<1>4. \A a \in Logins : X[a] = (2 * P) * shares[a] /\ miners[a] = X[a]
  BY DEF FeeAddressApart, Accounts, Exact
<1>5. \A a \in FeeAccounts : X[a] = total * (2 * Q)
  BY DEF Accounts, Exact
<1>6. miners \in [Logins -> Nat]
  BY <1>2, <1>4 DEF Accounts
<1>7. SumFunction(miners) = (2 * P) * total
  <2>1. \A a \in Logins : miners[a] = (2 * P) * shares[a]
    OBVIOUS
  <2>2. 2 * P \in Nat
    BY <1>1
  <2> HIDE DEF miners, P
  <2>3. QED
    BY <1>6, <2>1, <2>2, RewardsAssumption, SumFunctionScale
<1> HIDE DEF P, Q, E, X, miners
<1>8. (2 * P) * total + total * (2 * Q) = (FeeDen * total) * (2 * E)
  <2>1. (2 * P) * total + total * (2 * Q) = (2 * total) * (P + Q)
    BY <1>1
  <2>2. (2 * total) * (FeeDen * E) = (FeeDen * total) * (2 * E)
    BY <1>1
  <2>3. QED
    BY <1>1, <2>1, <2>2
<1>9. (2 * P) * total \in Nat /\ total * (2 * Q) \in Nat
  BY <1>1, ProductNat
<1>10. CASE PoolFeeAddress = NoAddress
  <2>1. FeeAccounts = {} /\ Accounts = Logins
    BY <1>10 DEF FeeAccounts, Accounts
  <2>2. X = miners
    BY <1>3, <1>4, <1>6, <2>1
  <2>3. SumFunction(X) =< (FeeDen * total) * (2 * E)
    BY <1>7, <1>8, <1>9, <2>2
  <2>4. QED
    BY <1>3, <2>1, <2>3 DEF X, E
<1>11. CASE PoolFeeAddress # NoAddress
  <2>1. PICK f : FeeAccounts = {f}
    BY <1>11 DEF FeeAccounts
  <2>2. f \notin Logins /\ Accounts = Logins \cup {f} /\ X[f] = total * (2 * Q)
    BY <1>5, <2>1 DEF FeeAddressApart, Accounts
  <2>3. X \in [Logins \cup {f} -> Nat]
    BY <1>3, <2>2
  <2>4. SumFunction(X) = SumFunction(miners) + X[f]
    <3>1. IsFiniteSet(Logins) /\ f \notin Logins
      BY <2>2, RewardsAssumption
    <3>2. \A a \in Logins : X[a] = miners[a]
      BY <1>4
    <3>3. QED
      BY <1>6, <2>3, <3>1, <3>2, SumFunctionExtend
  <2>5. SumFunction(X) = (FeeDen * total) * (2 * E)
    BY <1>7, <1>8, <2>2, <2>4
  <2>6. (FeeDen * total) * (2 * E) \in Nat
    BY <1>8, <1>9
  <2>7. QED
    BY <1>3, <2>5, <2>6 DEF X, E
<1>12. QED
  BY <1>10, <1>11

(* What PaidWithinRounding says of the amounts credited for a block *)
WithinRounding(paid) ==
    LET miss == SumFunction(paid) - (CoinBase + TxFee)
    IN /\ 2 * miss =< Cardinality(Payees(paid))
       /\ FeeAccounts # {} => -2 * miss =< Cardinality(Accounts)

(* calculateRewards, for a round that is all there, splits what the block  *)
(* earned up to the rounding of every amount.                              *)
THEOREM RewardsFair ==
    ASSUME FeeAddressApart, NEW total \in Nat \ {0}, NEW shares \in [Logins -> Nat],
           SumFunction(shares) = total
    PROVE  WithinRounding(CalculateRewards(shares, total, Reward, ExtraReward))
<1> DEFINE paid == CalculateRewards(shares, total, Reward, ExtraReward)
           X == Exact(shares, total)
           c == FeeDen * total
           E == CoinBase + TxFee
<1>1. c \in Nat \ {0} /\ E \in Nat
  BY WholeReward, DaemonAssumption, ProductNat
<1>2. paid \in [Accounts -> Nat]
  BY WholeReward, CalculateRewardsType
<1>3. /\ X \in [Accounts -> Nat] /\ SumFunction(X) =< c * (2 * E)
      /\ FeeAccounts # {} => SumFunction(X) = c * (2 * E)
  BY ExactSum
<1>4. \A a \in Accounts : /\ paid[a] # 0 => c * (2 * paid[a]) =< X[a] + c
                          /\ X[a] =< c * (2 * paid[a]) + c
  BY LoginShare, FeeShare DEF Accounts
<1>5. Payees(paid) = {a \in Accounts : paid[a] # 0}
  BY DEF Payees
<1> HIDE DEF paid, X, c, E
<1> DEFINE sum == SumFunction(paid)
           n == Cardinality(Payees(paid))
           m == Cardinality(Accounts)
<1> HIDE DEF sum, n, m
<1>6. /\ c * (2 * sum) =< SumFunction(X) + c * n
      /\ SumFunction(X) =< c * (2 * sum) + c * m
      /\ sum \in Nat /\ SumFunction(X) \in Nat /\ n \in Nat /\ m \in Nat
  <2>1. /\ c * (2 * SumFunction(paid))
              =< SumFunction(X) + c * Cardinality({a \in Accounts : paid[a] # 0})
        /\ SumFunction(X) =< c * (2 * SumFunction(paid)) + c * Cardinality(Accounts)
        /\ SumFunction(paid) \in Nat /\ SumFunction(X) \in Nat
        /\ Cardinality({a \in Accounts : paid[a] # 0}) \in Nat /\ Cardinality(Accounts) \in Nat
    <3>1. X \in [Accounts -> Nat]
      BY <1>3
    <3>2. IsFiniteSet(Accounts)
      BY AccountsFinite
    <3>3. c \in Nat \ {0}
      BY <1>1
    <3>4. QED
      BY <1>2, <1>4, <3>1, <3>2, <3>3, RoundedSum
  <2>2. QED
    BY <1>5, <2>1, Zenon DEF sum, n, m
<1>7. 2 * sum =< 2 * E + n
  <2>1. /\ c * (2 * E) + c * n = c * (2 * E + n)
        /\ c * (2 * sum) \in Nat /\ c * (2 * E) \in Nat /\ c * n \in Nat
    BY <1>1, <1>6, ProductNat
  <2>2. c * (2 * sum) =< c * (2 * E + n)
    BY <1>3, <1>6, <2>1
  <2>3. QED
    BY <1>1, <1>6, <2>2, Cancel
<1>8. ASSUME FeeAccounts # {}
      PROVE  2 * E =< 2 * sum + m
  <2>1. /\ c * (2 * sum) + c * m = c * (2 * sum + m)
    BY <1>1, <1>6
  <2>2. c * (2 * E) =< c * (2 * sum + m)
    BY <1>3, <1>6, <1>8, <2>1
  <2>3. QED
    BY <1>1, <1>6, <2>2, Cancel
<1>9. /\ 2 * (sum - E) =< n
      /\ FeeAccounts # {} => -2 * (sum - E) =< m
  BY <1>1, <1>6, <1>7, <1>8
<1>10. QED
  BY <1>9 DEF WithinRounding, sum, n, m, E, paid

-----------------------------------------------------------------------------
(* Rewards: the steps *)

(* The round of a block stays as it is while the block is not matured.     *)
LEMMA RoundKept ==
    ASSUME RoundsApart, TypeOK, StageInv, ItemInv, [Next]_vars,
           NEW x \in candidates \cup immature, NEW y \in candidates' \cup immature',
           y.id = x.id, y.height = x.height
    PROVE  rounds'[RoundKey(x)] = rounds[RoundKey(x)]
<1>1. /\ x.id \in Blocks /\ x.height \in Heights /\ x \in Stored
      /\ RoundKey(x) = FormatRound(x.height, x.id) /\ RoundKey(x) \in RoundKeys
  <2>1. x.id \in Blocks /\ x.height \in Heights
    BY DEF TypeOK, StorageTypeOK, BlockTypeOK, BlockData
  <2>2. QED
    BY <2>1, FormatRoundType DEF Stored, RoundKey
<1>2. rounds \in [RoundKeys -> [Logins -> Nat]]
  BY DEF TypeOK, StorageTypeOK, ShareTypeOK
<1>3. ASSUME NEW b \in Blocks, b # x.id, NEW h \in Heights, NEW r,
             rounds' = [rounds EXCEPT ![FormatRound(h, b)] = r]
      PROVE  rounds'[RoundKey(x)] = rounds[RoundKey(x)]
  <2>1. FormatRound(h, b) # RoundKey(x)
    BY <1>1, <1>3, RoundsDiffer
  <2>2. QED
    BY <1>1, <1>2, <1>3, <2>1
<1>4. CASE SessionStep
  <2>1. ASSUME NEW s \in Sessions, writers[s].pc = "exec", writers[s].pow \in Blocks,
               WriteBlockTx(writers[s].login, writers[s].pow, writers[s].height)
        PROVE  rounds'[RoundKey(x)] = rounds[RoundKey(x)]
    <3>1. writers[s] # Idle /\ writers[s].height \in Heights
      BY <2>1 DEF TypeOK, WriterTypeOK, Submission, Idle
    <3>2. writers[s].pow # x.id
      BY <1>1, <2>1, <3>1 DEF StageInv, WriterInv
    <3>3. QED
      BY <1>3, <2>1, <3>1, <3>2 DEF WriteBlockTx
  <2>2. QED
    BY <1>4, <2>1, SessionCommands DEF WriteShareTx, AddCandidate, shareVars
<1>5. CASE UnlockerStep
  <2>1. ASSUME NEW item \in Lists, stage = "credit", WriteMaturedBlocks(item),
               UNCHANGED candidates
        PROVE  rounds'[RoundKey(x)] = rounds[RoundKey(x)]
    <3>1. /\ item.key \in immature /\ item.key.id \in Blocks /\ item.key.height \in Heights
          /\ RoundKey(item.data) = FormatRound(item.key.height, item.key.id)
      BY <2>1, ItemFields DEF Source, BlockData, RoundKey
    <3>2. x.id # item.key.id
      <4>1. y \in candidates \cup (immature \ {item.key})
        BY <2>1 DEF WriteMaturedBlocks
      <4>2. QED
        BY <3>1, <4>1 DEF StageInv, BlockInOneStage, Stored
    <3>3. QED
      BY <1>3, <2>1, <3>1, <3>2 DEF WriteMaturedBlocks
  <2>2. \A item \in maturedBlocks \cup orphanedBlocks : item \in Lists
    BY DEF Lists
  <2>3. QED
    BY <1>5, <2>1, <2>2, UnlockerStores DEF storageVars, shareVars, WritePendingOrphans,
       WriteImmatureBlock, WriteMaturedBlock, WriteOrphan
<1>6. CASE ChainStep \/ Crash \/ Restart \/ UNCHANGED vars
  BY <1>6 DEF ChainStep, Crash, Restart, vars, storageVars, shareVars
<1>7. QED
  BY <1>4, <1>5, <1>6 DEF Next

(* The steps after which the pass is about to write a block *)
LEMMA AboutToWrite ==
    ASSUME TypeOK, [Next]_vars, upc' = "write"
    PROVE  \/ upc = "write" /\ UNCHANGED <<stage, maturedBlocks, rewards>>
           \/ /\ \E item \in maturedBlocks :
                    /\ item = First(maturedBlocks)
                    /\ rewards' = CalculateRewards(rounds[RoundKey(item.data)], item.data.total,
                                                   item.data.reward, ExtraReward)
              /\ UNCHANGED <<stage, maturedBlocks, storageVars>>
<1> USE DEF passVars, unlockerVars
<1>1. ASSUME EndPass \/ Fail \/ \E st : StartPass(st)
      PROVE  FALSE
  BY <1>1 DEF EndPass, Fail, StartPass
<1>2. CASE UnlockerStep
  <2>1. CASE BeginPass \/ GetBlockCount \/ FetchBlocks \/ CheckFails \/ CreditOrphansDone
             \/ BlocksDone
    BY <1>1, <2>1 DEF BeginPass, GetBlockCount, FetchBlocks, CheckFails, CreditOrphansDone,
       BlocksDone
  <2>2. ASSUME NEW item \in todo,
               CheckMatched(item) \/ CheckOrphaned(item) \/ CheckMismatch(item)
        PROVE  upc = "write" /\ UNCHANGED <<stage, maturedBlocks, rewards>>
    BY <2>2 DEF CheckMatched, CheckOrphaned, CheckMismatch, Checked, Panic
  <2>3. CASE PendingOrphans
    BY <1>1, <2>3 DEF PendingOrphans, Send
  <2>4. ASSUME NEW item \in orphanedBlocks, CreditOrphan(item)
        PROVE  FALSE
    BY <1>1, <2>4 DEF CreditOrphan, Settle, Send, Panic
  <2>5. ASSUME NEW item \in maturedBlocks, RewardBlock(item)
        PROVE  /\ item = First(maturedBlocks)
               /\ rewards' = CalculateRewards(rounds[RoundKey(item.data)], item.data.total,
                                              item.data.reward, ExtraReward)
               /\ UNCHANGED <<stage, maturedBlocks, storageVars>>
    BY <1>1, <2>5 DEF RewardBlock
  <2>6. ASSUME NEW item \in maturedBlocks, WritePending(item) \/ WriteCredit(item)
        PROVE  upc = "write" /\ UNCHANGED <<stage, maturedBlocks, rewards>>
    BY <1>1, <2>6 DEF WritePending, WriteCredit, Written, Settle, Send, Panic
  <2>7. QED
    BY <1>2, <2>1, <2>2, <2>3, <2>4, <2>5, <2>6 DEF UnlockerStep, UnlockerNext
<1>3. CASE SessionStep \/ ChainStep \/ Crash \/ UNCHANGED vars
  BY <1>3 DEF SessionStep, ChainStep, Crash, vars
<1>4. CASE Restart
  BY <1>1, <1>4 DEF Restart
<1>5. QED
  BY <1>2, <1>3, <1>4 DEF Next

(* What the unlocker is about to write was worked out from the round.      *)
HeldRewards ==
    upc = "write" =>
        \E i \in maturedBlocks : i = First(maturedBlocks) /\ rewards = RewardsOf(i.key)

LEMMA NextHeld ==
    ASSUME RoundsApart, TypeOK, StageInv, StageInv', ItemInv, HeldRewards, [Next]_vars
    PROVE  HeldRewards'
<1> SUFFICES ASSUME upc' = "write", UNCHANGED maturedBlocks,
                    NEW i \in maturedBlocks, i = First(maturedBlocks)
             PROVE  rewards' = RewardsOf(i.key)'
  <2>1. upc' = "write" => /\ UNCHANGED maturedBlocks
                          /\ \E i \in maturedBlocks : i = First(maturedBlocks)
    BY AboutToWrite DEF HeldRewards
  <2>2. UNCHANGED maturedBlocks => First(maturedBlocks)' = First(maturedBlocks)
    BY DEF First
  <2>3. QED
    BY <2>1, <2>2 DEF HeldRewards
<1>1. CASE upc = "write" /\ UNCHANGED <<stage, maturedBlocks, rewards>>
  <2>1. rewards = RewardsOf(i.key)
    BY <1>1 DEF HeldRewards
  <2>2. i.key \in candidates \cup immature /\ i.key \in candidates' \cup immature'
    <3>1. i.key \in Source(stage)
      BY DEF StageInv, ListInv, Lists
    <3>2. i.key \in Source(stage)'
      BY <1>1 DEF StageInv, ListInv, Lists
    <3>3. QED
      BY <3>1, <3>2 DEF Source
  <2>3. rounds'[RoundKey(i.key)] = rounds[RoundKey(i.key)]
    BY <2>2, RoundKept
  <2>4. RewardsOf(i.key)' = RewardsOf(i.key)
    BY <2>3 DEF RewardsOf
  <2>5. QED
    BY <1>1, <2>1, <2>4
<1>2. CASE /\ rewards' = CalculateRewards(rounds[RoundKey(i.data)], i.data.total,
                                          i.data.reward, ExtraReward)
           /\ UNCHANGED storageVars
  <2>1. i \in Lists /\ i.data.reward = Reward
    BY DEF Lists, ItemInv
  <2>2. rewards' = RewardsOf(i.key)
    BY <1>2, <2>1, ItemFields DEF RewardsOf
  <2>3. RewardsOf(i.key)' = RewardsOf(i.key)
    BY <1>2 DEF RewardsOf, storageVars, shareVars
  <2>4. QED
    BY <2>2, <2>3
<1>3. QED
  BY <1>1, <1>2, AboutToWrite

(* What is promised for an immature block is what its round earns.         *)
Promises ==
    \A x \in immature : creditsImmature[CreditKey(x)] # NoCredits =>
        creditsImmature[CreditKey(x)] = RewardsOf(x)

(* A block whose entry is not touched *)
LEMMA PromiseKept ==
    ASSUME RoundsApart, TypeOK, StageInv, ItemInv, Promises, [Next]_vars,
           NEW x \in immature, x \in immature',
           \/ creditsImmature'[CreditKey(x)] = creditsImmature[CreditKey(x)]
           \/ creditsImmature'[CreditKey(x)] = NoCredits
    PROVE  creditsImmature'[CreditKey(x)] # NoCredits =>
               creditsImmature'[CreditKey(x)] = RewardsOf(x)'
<1>1. rounds'[RoundKey(x)] = rounds[RoundKey(x)]
  BY RoundKept
<1>2. RewardsOf(x)' = RewardsOf(x)
  BY <1>1 DEF RewardsOf
<1>3. QED
  BY <1>2 DEF Promises

LEMMA ImmatureKey ==
    ASSUME TypeOK, NEW x \in immature
    PROVE  CreditKey(x) \in CreditKeys
BY DEF TypeOK, StorageTypeOK, BlockTypeOK, BlockData, CreditKey, CreditKeys

LEMMA NextPromises ==
    ASSUME HeadersTell, TypeOK, StageInv, ItemInv, KeyInv, HeldRewards, Promises, [Next]_vars
    PROVE  Promises'
<1>1. RoundsApart
  BY TellApart
<1>2. CASE UNCHANGED <<immature, creditsImmature>>
  BY <1>1, <1>2, PromiseKept DEF Promises
<1>3. ASSUME NEW item \in maturedBlocks, upc = "write", item = First(maturedBlocks),
             stage = "pending", WriteImmatureBlock(item, rewards)
      PROVE  Promises'
  <2> DEFINE new == Key(item.data)
  <2>1. /\ item.key \in candidates /\ creditsImmature[OwnKey(item)] = NoCredits
        /\ immature' = immature \cup {new}
        /\ creditsImmature' = [creditsImmature EXCEPT ![OwnKey(item)] = rewards]
        /\ UNCHANGED rounds
    BY <1>3, PromiseEntry
  <2>2. /\ OwnKey(item) \in CreditKeys /\ CreditKey(new) = OwnKey(item)
    BY MaturedItem
  <2>3. rewards = RewardsOf(item.key)
    BY <1>3 DEF HeldRewards
  <2>4. RoundKey(new) = RoundKey(item.key) /\ new.total = item.key.total
    BY ItemFields, KeyFields DEF Lists
  <2> HIDE DEF new
  <2>5. \A x \in {new} : creditsImmature'[CreditKey(x)] = RewardsOf(x)'
    BY <2>1, <2>2, <2>3, <2>4, MoneyTypes DEF RewardsOf
  <2>6. ASSUME NEW x \in immature
        PROVE  creditsImmature'[CreditKey(x)] = creditsImmature[CreditKey(x)]
    <3>1. CreditKey(x) # OwnKey(item)
      <4>1. x.id # item.key.id /\ item.key.id \in Blocks
        BY <2>1 DEF StageInv, BlockInOneStage, Stored, TypeOK, StorageTypeOK, BlockTypeOK,
           BlockData
      <4>2. x.hash \in {ZeroHash, x.id} /\ ZeroHash \notin Blocks
        BY StorageAssumption DEF KeyInv, HashInv, AnyBlock
      <4>3. QED
        BY <4>1, <4>2 DEF CreditKey, OwnKey
    <3>2. QED
      BY <2>1, <2>2, <3>1, ImmatureKey, MoneyTypes
  <2>7. QED
    BY <1>1, <2>1, <2>5, <2>6, PromiseKept DEF Promises
<1>4. CASE stage = "pending" /\ WritePendingOrphans(orphanedBlocks)
  <2>1. /\ immature' = immature \cup {Key(i.data) : i \in orphanedBlocks}
        /\ \A i \in orphanedBlocks : Key(i.data).hash = ZeroHash
        /\ UNCHANGED moneyVars
    BY <1>4, DoubtEntry
  <2>2. ASSUME NEW i \in orphanedBlocks
        PROVE  creditsImmature[CreditKey(Key(i.data))] = NoCredits
    <3>1. CreditKey(Key(i.data)) \in CreditKeys /\ Key(i.data).hash = ZeroHash
      <4>1. i \in Lists
        BY DEF Lists
      <4>2. Key(i.data) \in BlockData
        BY <4>1, ItemFields, KeyType
      <4>3. QED
        BY <2>1, <4>2 DEF CreditKey, CreditKeys, BlockData
    <3>2. \A x \in immature : x.hash = x.id => CreditKey(x) # CreditKey(Key(i.data))
      <4>1. \A x \in immature : x.id \in Blocks
        BY DEF TypeOK, StorageTypeOK, BlockTypeOK, BlockData
      <4>2. ZeroHash \notin Blocks
        BY StorageAssumption DEF AnyBlock
      <4>3. QED
        BY <3>1, <4>1, <4>2 DEF CreditKey
    <3>3. QED
      BY <3>1, <3>2 DEF KeyInv, LogInv
  <2>3. QED
    BY <1>1, <2>1, <2>2, PromiseKept DEF Promises, moneyVars
<1>5. ASSUME NEW item \in maturedBlocks, stage = "credit", NEW log,
             WriteMaturedBlock(item, rewards, log)
      PROVE  Promises'
  <2>1. /\ immature' \subseteq immature
        /\ creditsImmature' = [creditsImmature EXCEPT ![OwnKey(item)] = NoCredits]
    BY <1>5, PayEntry
  <2>2. OwnKey(item) \in CreditKeys
    BY MaturedItem
  <2>3. QED
    BY <1>1, <2>1, <2>2, ImmatureKey, MoneyTypes, PromiseKept DEF Promises
<1>6. ASSUME NEW item \in orphanedBlocks, stage = "credit", NEW log, WriteOrphan(item, log)
      PROVE  Promises'
  <2>1. /\ immature' \subseteq immature /\ CreditKey(item.key) \in CreditKeys
        /\ creditsImmature' = [creditsImmature EXCEPT ![CreditKey(item.key)] = NoCredits]
    BY <1>6, CancelEntry
  <2>2. QED
    BY <1>1, <2>1, ImmatureKey, MoneyTypes, PromiseKept DEF Promises
<1>7. CASE UnlockerStep
  BY <1>2, <1>3, <1>4, <1>5, <1>6, <1>7, UnlockerStores DEF storageVars, blockVars, moneyVars
<1>8. CASE SessionStep \/ ChainStep \/ Crash \/ Restart \/ UNCHANGED vars
  BY <1>2, <1>8, SessionStores DEF ChainStep, Crash, Restart, vars, storageVars, blockVars,
     moneyVars
<1>9. QED
  BY <1>7, <1>8 DEF Next

RewardInv == HeldRewards /\ Promises

LEMMA RewardInvariant ==
    ASSUME HeadersTell
    PROVE  Spec => []RewardInv
<1>1. Init => RewardInv
  BY DEF Init, StorageInit, UnlockerInit, RewardInv, HeldRewards, Promises
<1>2. /\ TypeOK /\ StageInv /\ StageInv' /\ ItemInv /\ KeyInv /\ RewardInv /\ [Next]_vars
      => RewardInv'
  BY TellApart, NextHeld, NextPromises DEF RewardInv
<1>3. QED
  BY <1>1, <1>2, KeyInvariant, StageInvariant, ItemInvariant, TypeInvariant, PTL DEF Spec

(* The round a reward was worked out from is all there. *)
LEMMA FairAmounts ==
    ASSUME FeeAddressApart, TypeOK, RoundInv, NEW x \in candidates \cup immature
    PROVE  WithinRounding(RewardsOf(x))
<1>1. rounds[RoundKey(x)] \in [Logins -> Nat]
  <2>1. x.id \in Blocks /\ x.height \in Heights
    BY DEF TypeOK, StorageTypeOK, BlockTypeOK, BlockData
  <2>2. RoundKey(x) \in RoundKeys
    BY <2>1, FormatRoundType DEF RoundKey
  <2>3. QED
    BY <2>2 DEF TypeOK, StorageTypeOK, ShareTypeOK
<1>2. SumFunction(rounds[RoundKey(x)]) = x.total /\ x.total \in Nat \ {0}
  BY DEF RoundInv, RoundIntact, TypeOK, StorageTypeOK, BlockTypeOK, BlockData
<1>3. QED
  BY <1>1, <1>2, RewardsFair DEF RewardsOf

LEMMA NextPaid ==
    ASSUME HeadersTell, FeeAddressApart, TypeOK, StageInv, ItemInv, RoundInv, KeyInv,
           HeldRewards, PaidWithinRounding, [Next]_vars
    PROVE  PaidWithinRounding'
<1>1. PaidWithinRounding <=> \A m \in matured : ~m.orphan => WithinRounding(credits[CreditKey(m)])
  BY DEF PaidWithinRounding, WithinRounding
<1>2. ASSUME \A m \in matured' : ~m.orphan =>
                 \/ WithinRounding(credits'[CreditKey(m)])
                 \/ m \in matured /\ credits'[CreditKey(m)] = credits[CreditKey(m)]
      PROVE  PaidWithinRounding'
  <2>1. \A m \in matured' : ~m.orphan => WithinRounding(credits'[CreditKey(m)])
    BY <1>1, <1>2
  <2>2. QED
    BY <2>1 DEF PaidWithinRounding, WithinRounding
<1>3. CASE UNCHANGED <<matured, credits>>
  BY <1>2, <1>3
<1>4. ASSUME NEW item \in maturedBlocks, upc = "write", item = First(maturedBlocks),
             stage = "credit", NEW log, WriteMaturedBlock(item, rewards, log)
      PROVE  PaidWithinRounding'
  <2> DEFINE new == Key(item.data)
  <2>1. /\ item.key \in immature
        /\ matured' = matured \cup {new}
        /\ credits' = [credits EXCEPT ![OwnKey(item)] = rewards]
    BY <1>4, PayEntry
  <2>2. OwnKey(item) \in CreditKeys /\ CreditKey(new) = OwnKey(item)
    BY MaturedItem
  <2>3. WithinRounding(rewards)
    BY <1>4, <2>1, FairAmounts DEF HeldRewards
  <2> HIDE DEF new
  <2>4. WithinRounding(credits'[CreditKey(new)])
    BY <2>1, <2>2, <2>3, MoneyTypes
  <2>5. ASSUME NEW m \in matured, ~m.orphan
        PROVE  credits'[CreditKey(m)] = credits[CreditKey(m)]
    <3>1. m.hash = m.id /\ m.id # item.key.id
      BY <2>1, <2>5 DEF KeyInv, HashInv, StageInv, BlockInOneStage, Stored
    <3>2. CreditKey(m) # OwnKey(item)
      BY <3>1 DEF CreditKey, OwnKey
    <3>3. CreditKey(m) \in CreditKeys
      BY DEF TypeOK, StorageTypeOK, BlockTypeOK, BlockData, CreditKey, CreditKeys
    <3>4. QED
      BY <2>1, <2>2, <3>2, <3>3, MoneyTypes
  <2>6. QED
    BY <1>2, <2>1, <2>4, <2>5
<1>5. ASSUME NEW item \in orphanedBlocks, stage = "credit", NEW log, WriteOrphan(item, log)
      PROVE  PaidWithinRounding'
  <2>1. matured' = matured \cup {Key(item.data)} /\ UNCHANGED credits
    BY <1>5, CancelEntry
  <2>2. Key(item.data).orphan
    BY OrphanedItem
  <2>3. QED
    BY <1>2, <2>1, <2>2
<1>6. CASE UnlockerStep
  BY <1>3, <1>4, <1>5, <1>6, UnlockerStores DEF storageVars, blockVars, moneyVars,
     WritePendingOrphans, WriteImmatureBlock
<1>7. CASE SessionStep \/ ChainStep \/ Crash \/ Restart \/ UNCHANGED vars
  BY <1>3, <1>7, SessionStores DEF ChainStep, Crash, Restart, vars, storageVars, blockVars,
     moneyVars
<1>8. QED
  BY <1>6, <1>7 DEF Next

(* Whatever fails, what is credited for a matured block is what the block  *)
(* earned up to half a unit per amount: the unlocker works the rewards out *)
(* from the block's own round, which is all there when it reads it, and no *)
(* other block has its credit key.  The fee address must not be the login  *)
(* of a miner too, whose account would be rounded twice.                   *)
THEOREM PaidFairly ==
    ASSUME HeadersTell, FeeAddressApart
    PROVE  Spec => []PaidWithinRounding
<1>1. Init => PaidWithinRounding
  BY DEF Init, StorageInit, PaidWithinRounding
<1>2. /\ TypeOK /\ StageInv /\ ItemInv /\ RoundInv /\ KeyInv /\ RewardInv
      /\ PaidWithinRounding /\ [Next]_vars
      => PaidWithinRounding'
  BY NextPaid DEF RewardInv
<1>3. Spec => []RoundInv /\ []KeyInv /\ []RewardInv
  BY TellApart, RoundInvariant, KeyInvariant, RewardInvariant
<1>4. QED
  BY <1>1, <1>2, <1>3, StageInvariant, ItemInvariant, TypeInvariant, PTL DEF Spec
=============================================================================
