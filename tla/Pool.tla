-------------------------------- MODULE Pool --------------------------------
(***************************************************************************)
(* The pool's accounting: the sessions' write path and the block unlocker  *)
(* over one Redis, beside a monerod whose chain grows and reorganises.     *)
(* Both run in one process (main.go), which may die and be started again:  *)
(* what is in Redis stays, what is in memory is lost.                      *)
(***************************************************************************)
EXTENDS Writer, Unlocker

vars == <<daemonVars, storageVars, writers, unlockerVars, faults>>

Init ==
    /\ DaemonInit /\ StorageInit /\ WriterInit /\ UnlockerInit /\ FaultsInit

SessionStep == proc = "up" /\ WriterNext /\ UNCHANGED unlockerVars

UnlockerStep == proc = "up" /\ UnlockerNext /\ UNCHANGED <<daemonVars, writers>>

ChainStep ==
    /\ \E k \in 0 .. MaxReorg : NewBlocks(k)
    /\ Timely
    /\ UNCHANGED <<storageVars, writers, unlockerVars, faults>>

Crash ==
    /\ proc = "up"
    /\ Fault("crash")
    /\ proc' = "killed"
    /\ UNCHANGED <<daemonVars, storageVars, writers, passVars, halt, counter>>

(* The process starts with empty sessions and a new BlockUnlocker. *)
Restart ==
    /\ proc # "up"
    /\ proc' = "up"
    /\ writers' = [s \in Sessions |-> Idle]
    /\ StartPass("pending") /\ halt' = FALSE /\ counter' = 0
    /\ UNCHANGED <<daemonVars, storageVars, faults>>

Next == SessionStep \/ UnlockerStep \/ ChainStep \/ Crash \/ Restart

Spec == Init /\ [][Next]_vars

-----------------------------------------------------------------------------
(* Fairness.  A goroutine that can run does run: every session finishes    *)
(* the submission it has begun, and the unlocker's timer fires for ever    *)
(* (Start resets it after every pass).  The network keeps mining.  Nothing *)
(* is assumed of miners, failures or restarts.                             *)
Fairness ==
    /\ \A s \in Sessions :
          WF_vars(proc = "up" /\ WriterStep(s) /\ UNCHANGED unlockerVars)
    /\ WF_vars(UnlockerStep)
    /\ WF_vars(ChainStep)

FairSpec == Spec /\ Fairness

-----------------------------------------------------------------------------
(* Types.  A stored immature or matured block never has an empty hash      *)
(* (serializeHash), and a candidate always a positive total, by which the  *)
(* unlocker divides.                                                       *)
TypeOK ==
    /\ DaemonTypeOK
    /\ StorageTypeOK
    /\ WriterTypeOK
    /\ UnlockerTypeOK
    /\ faults \in 0 .. MaxFaults

-----------------------------------------------------------------------------
(* Safety *)

Stored == candidates \cup immature \cup matured

(* A block found by the pool is in at most one of the candidate, immature  *)
(* and matured sets, once: WriteBlock, WritePendingOrphans,                *)
(* WriteImmatureBlock, WriteOrphan and WriteMaturedBlock hand it on, and   *)
(* no failed, repeated or interrupted pass makes a second copy of it.      *)
BlockInOneStage ==
    /\ \A x, y \in Stored : x.id = y.id => x = y
    /\ candidates \cap immature = {}
    /\ candidates \cap matured = {}
    /\ immature \cap matured = {}

(* A matured block is credited if and only if it is on the chain for good: *)
(* unlockAndCreditMiners reads a header only once it is deeper than any    *)
(* reorganisation, and what it decided still holds at any later time.      *)
FinalOnChain ==
    \A m \in matured : m.orphan <=> chain[m.height] # m.id

(* The shares of every round the unlocker has still to pay are all there:  *)
(* the round's hash sums to the total that WriteBlock put into the         *)
(* candidate, whatever other sessions write in between.                    *)
RoundIntact ==
    \A b \in candidates \cup immature :
        SumFunction(rounds[RoundKey(b)]) = b.total /\ b.total > 0

(* No share is lost or counted twice on its way from the current round     *)
(* through the rounds of blocks to the totals of matured blocks.           *)
SharesConserved ==
    work = SumFunction(roundCurrent)
           + SumFunction([k \in RoundKeys |-> SumFunction(rounds[k])])
           + SumFunction([m \in matured |-> m.total])

(* The immature balance of every account is what the log of immature       *)
(* credits holds for it, and finances.immature is the sum of all of them:  *)
(* "Must decrement immatures using existing log entry".                    *)
ImmatureMatchesLog ==
    /\ \A a \in Accounts :
          minerImmature[a] = SumFunction([k \in CreditKeys |-> creditsImmature[k][a]])
    /\ finances.immature = SumFunction(minerImmature)

(* Every account's balance is what the final credit log holds for it, and  *)
(* the finances agree with the balances and with the matured blocks.       *)
BalanceMatchesCredits ==
    /\ \A a \in Accounts :
          minerBalance[a] = SumFunction([k \in CreditKeys |-> credits[k][a]])
    /\ finances.balance = SumFunction(minerBalance)
    /\ finances.totalMined = SumFunction([m \in matured |-> m.reward])

(* Rounding every amount by itself, the pool pays out for a block at most  *)
(* half a unit per credited account more than the block earned, and, if    *)
(* the fee has an address, at most as much less.                           *)
Payees(paid) == {a \in Accounts : paid[a] # 0}
PaidWithinRounding ==
    \A m \in matured : ~m.orphan =>
        LET paid == credits[CreditKey(m)]
            earned == CoinBase + TxFee
            miss == SumFunction(paid) - earned
        IN /\ 2 * miss =< Cardinality(Payees(paid))
           /\ FeeAccounts # {} => -2 * miss =< Cardinality(Accounts)

(* Without failures no block that monerod accepted from the pool is        *)
(* forgotten: it is stored, or its session is still writing it.            *)
AcceptedBlockTracked ==
    faults = 0 =>
        \A b \in Blocks : minedAt[b] # 0 =>
            \/ \E x \in Stored : x.id = b
            \/ \E s \in Sessions : writers[s] # Idle /\ writers[s].pow = b

(* A proof of work stays known while a duplicate could still pass the      *)
(* height check of handleSubmitRPC: checkPoWExist prunes by the height of  *)
(* whoever writes, and a late duplicate moves the score back by up to      *)
(* MaxLag heights.                                                         *)
PowRemembered ==
    \A p \in PoWs :
        claimedAt[p] # 0 /\ tip + 1 =< claimedAt[p] + PowWindow - MaxLag => PowExists(p)

(* A failed reward check suspends the unlocker ("Unlocking suspended due   *)
(* to last critical error"); it does not take the process down.            *)
MismatchSuspends == proc # "nilResult"

-----------------------------------------------------------------------------
(* Liveness *)

(* Every candidate deep enough to become final is matured in the end,      *)
(* whatever errors monerod and Redis return on the way: a pass that fails  *)
(* sets halt, and the next one clears it and tries again.                  *)
EventuallySettled ==
    \A b \in Blocks :
        (\E c \in candidates : c.id = b /\ c.height + Depth =< MaxHeight + 1)
            ~> (\E m \in matured : m.id = b)
=============================================================================
