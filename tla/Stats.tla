------------------------------- MODULE Stats -------------------------------
(***************************************************************************)
(* What the pool counts in memory for its front end: the shares of every   *)
(* Miner by the second, and the blocks, with the shares each of them took, *)
(* by the millisecond (stratum/miner.go, api.go, mmap.go).  The sessions   *)
(* write them; StatsIndex reads and prunes them.                           *)
(*                                                                         *)
(* The sessions here are connections of one worker, which share its Miner; *)
(* other workers have their own.  All shares have difficulty 1.  The clock *)
(* moves between steps: where a goroutine goes on with a time that it read *)
(* a step ago, the time is part of its state.                              *)
(***************************************************************************)
EXTENDS Integers, Sequences, FiniteSets, Functions

CONSTANTS
    Sessions,
    Second,             \* milliseconds in a second (1000)
    Day,                \* seconds a Miner remembers shares (86400)
    EstimationWindow,   \* s.estimationWindow, in seconds
    LuckWindow,         \* s.luckWindow, in milliseconds
    LuckLargeWindow,    \* s.luckLargeWindow, in milliseconds
    MaxNow,             \* bound: how far the clock goes
    MaxShares           \* bound: shares sent

ASSUME StatsAssumption ==
    /\ Second \in Nat \ {0} /\ Day \in Nat /\ EstimationWindow \in Nat
    /\ LuckWindow \in Nat /\ LuckLargeWindow \in Nat
    /\ MaxNow \in Nat /\ MaxShares \in Nat
    /\ IsFiniteSet(Sessions)

VARIABLES
    now,                \* util.MakeTimestamp()
    miner,              \* s.miners: which Miner the worker's id has, 0 if none
    shares,             \* the shares of the Miners made so far, by second
    iter,               \* does the goroutine of Iter hold the lock of the shard?
    roundShares,        \* s.roundShares
    blockStats,         \* s.blockStats: from milliseconds to shares
    session,            \* the handlers of the sessions
    reader,             \* where StatsIndex is
    sent,               \* how many shares were sent
    counted,            \* history: valid shares by second
    found,              \* history: when blocks were found
    attributed,         \* history: shares that counted for them
    overwritten         \* history: has a login replaced a Miner in the map?

history == <<counted, found, attributed, overwritten>>
vars == <<now, miner, shares, iter, roundShares, blockStats, session, reader, sent, history>>

Sec(ms) == ms \div Second
Times == 0 .. MaxNow
Seconds == 0 .. Sec(MaxNow)

Reading == [pc |-> "read", obj |-> 0, ms |-> 0, round |-> 0]

TypeOK ==
    /\ now \in Times
    /\ shares \in Seq([Seconds -> Nat]) /\ miner \in 0 .. Len(shares)
    /\ iter \in BOOLEAN
    /\ roundShares \in Nat
    /\ DOMAIN blockStats \subseteq Times /\ \A ms \in DOMAIN blockStats : blockStats[ms] \in Nat
    /\ session \in [Sessions -> [pc : {"login", "set", "read", "swap", "stat", "write", "add",
                                       "store"},
                                 obj : 0 .. Len(shares), ms : Times, round : Nat]]
    /\ \A s \in Sessions : session[s].pc \notin {"login", "set", "read"} => session[s].obj # 0
    /\ reader \in {"rest", "estimate", "day", "luck", "blocks"}
    /\ sent \in 0 .. MaxShares

Init ==
    /\ now = 0
    /\ miner = 0 /\ shares = <<>> /\ iter = FALSE
    /\ roundShares = 0 /\ blockStats = <<>>
    /\ session = [s \in Sessions |-> [Reading EXCEPT !.pc = "login"]]
    /\ reader = "rest"
    /\ sent = 0
    /\ counted = [k \in Seconds |-> 0] /\ found = {} /\ attributed = 0 /\ overwritten = FALSE

Tick ==
    /\ now < MaxNow
    /\ now' = now + 1
    /\ UNCHANGED <<miner, shares, iter, roundShares, blockStats, session, reader, sent, history>>

-----------------------------------------------------------------------------
(* Sessions *)

SessionAt(s, pc) == session[s].pc = pc
SessionGoto(s, pc) == session' = [session EXCEPT ![s].pc = pc]
SessionReads(s) == session' = [session EXCEPT ![s] = Reading]

(* handleLoginRPC: s.miners.Get, then registerMiner if there was none *)
LoginGet(s) ==
    /\ SessionAt(s, "login")
    /\ IF miner = 0 THEN SessionGoto(s, "set") ELSE SessionReads(s)
    /\ UNCHANGED <<now, miner, shares, iter, roundShares, blockStats, reader, sent, history>>

Registered_Not(obj) == miner
Registered(obj) == obj

LoginSet(s) ==
    /\ SessionAt(s, "set") /\ ~iter
    /\ shares' = Append(shares, [k \in Seconds |-> 0])
    /\ miner' = Registered(Len(shares'))
    /\ overwritten' = (overwritten \/ miner # 0)
    /\ SessionReads(s)
    /\ UNCHANGED <<now, iter, roundShares, blockStats, reader, sent, counted, found, attributed>>

(* handleSubmitRPC: s.miners.Get, and what processShare finds out: a share *)
(* (a block that monerod rejects counts as one), or a block that monerod   *)
(* has accepted.  A share that is refused counts as invalid only.          *)
Submit(s, pc) ==
    /\ SessionAt(s, "read") /\ sent < MaxShares
    /\ sent' = sent + 1
    /\ session' = [session EXCEPT ![s] = [@ EXCEPT !.pc = pc, !.obj = miner]]
    /\ UNCHANGED <<now, miner, shares, iter, roundShares, blockStats, reader, history>>

(* processShare: the time, SwapInt64, and later s.blockStats *)
SwapRound_Load == UNCHANGED roundShares
SwapRound == roundShares' = 0

Swap(s) ==
    /\ SessionAt(s, "swap")
    /\ SwapRound
    /\ session' = [session EXCEPT ![s] = [@ EXCEPT !.pc = "stat", !.ms = now, !.round = roundShares]]
    /\ UNCHANGED <<now, miner, shares, iter, blockStats, reader, sent, history>>

StoreBlock(s) ==
    LET c == session[s] IN
    /\ SessionAt(s, "stat")
    /\ blockStats' = [k \in DOMAIN blockStats \cup {c.ms} |->
                          IF k = c.ms THEN c.round ELSE blockStats[k]]
    /\ found' = found \cup {c.ms} /\ attributed' = attributed + c.round
    /\ SessionGoto(s, "write")
    /\ UNCHANGED <<now, miner, shares, iter, roundShares, reader, sent, counted, overwritten>>

(* WriteBlock: the share of a known proof of work does not count. *)
Written(s) ==
    /\ SessionAt(s, "write")
    /\ SessionGoto(s, "add") \/ SessionReads(s)
    /\ UNCHANGED <<now, miner, shares, iter, roundShares, blockStats, reader, sent, history>>

(* processShare: AddInt64, then storeShare *)
AddRound(s) ==
    /\ SessionAt(s, "add")
    /\ roundShares' = roundShares + 1
    /\ SessionGoto(s, "store")
    /\ UNCHANGED <<now, miner, shares, iter, blockStats, reader, sent, history>>

StoreShare(s) ==
    /\ SessionAt(s, "store")
    /\ shares' = [shares EXCEPT ![session[s].obj][Sec(now)] = @ + 1]
    /\ counted' = [counted EXCEPT ![Sec(now)] = @ + 1]
    /\ SessionReads(s)
    /\ UNCHANGED <<now, miner, iter, roundShares, blockStats, reader, sent, found, attributed,
                   overwritten>>

SessionStep(s) ==
    LoginGet(s) \/ Swap(s) \/ StoreBlock(s) \/ Written(s) \/ AddRound(s) \/ StoreShare(s)

-----------------------------------------------------------------------------
(* StatsIndex *)

ReaderGoes(from, to) == reader = from /\ reader' = to

(* collectMinersStats: Iter sends the Miners of a shard one by one and     *)
(* holds its lock meanwhile.                                               *)
BeginIter ==
    /\ ReaderGoes("rest", IF miner # 0 THEN "estimate" ELSE "luck")
    /\ iter' = (iter \/ miner # 0)
    /\ UNCHANGED <<now, miner, shares, roundShares, blockStats, session, sent, history>>

(* hashrate sums up a window of its own, and prunes what is older than a   *)
(* day.                                                                    *)
Pruned_Window(obj, window) ==
    [k \in DOMAIN obj |-> IF k < Sec(now) - window THEN 0 ELSE obj[k]]
Pruned(obj, window) ==
    [k \in DOMAIN obj |-> IF k < Sec(now) - Day THEN 0 ELSE obj[k]]

Estimate ==
    /\ ReaderGoes("estimate", "day")
    /\ shares' = [shares EXCEPT ![miner] = Pruned(@, EstimationWindow)]
    /\ UNCHANGED <<now, miner, iter, roundShares, blockStats, session, sent, history>>

(* The last Miner: the goroutine of Iter unlocks and closes its channel. *)
IterEnds_KeepsLock == UNCHANGED iter
IterEnds == iter' = FALSE

HashrateOfDay ==
    /\ ReaderGoes("day", "luck")
    /\ shares' = [shares EXCEPT ![miner] = Pruned(@, Day)]
    /\ IterEnds
    /\ UNCHANGED <<now, miner, roundShares, blockStats, session, sent, history>>

(* getLuckStats, then getBlocksStats *)
Shown_Luck == {ms \in DOMAIN blockStats : ms >= now - LuckWindow}
Shown == {ms \in DOMAIN blockStats : ms >= now - LuckLargeWindow}

ReadBlocks ==
    /\ ReaderGoes("luck", "blocks") \/ ReaderGoes("blocks", "rest")
    /\ blockStats' = [ms \in Shown |-> blockStats[ms]]
    /\ UNCHANGED <<now, miner, shares, iter, roundShares, session, sent, history>>

ReaderStep == Estimate \/ HashrateOfDay \/ ReadBlocks

-----------------------------------------------------------------------------

Next ==
    \/ Tick
    \/ \E s \in Sessions :
          SessionStep(s) \/ LoginSet(s) \/ Submit(s, "add") \/ Submit(s, "swap")
    \/ BeginIter \/ ReaderStep

Spec == Init /\ [][Next]_vars

(* Fairness.  Goroutines that can run do, and a waiting writer of an       *)
(* RWMutex gets it before later readers.  Nothing is assumed of miners and *)
(* of whoever opens the page.                                              *)
Fairness ==
    /\ \A s \in Sessions : WF_vars(SessionStep(s)) /\ SF_vars(LoginSet(s))
    /\ WF_vars(ReaderStep)

FairSpec == Spec /\ Fairness

-----------------------------------------------------------------------------
(* Every valid share of the last day is in its second of the Miner that    *)
(* StatsIndex sees, although every reading of any hashrate prunes.  Unless *)
(* two first logins of the worker overlapped: then the second one's Miner  *)
(* replaces the first one's and its shares, as handleLoginRPC looks into   *)
(* the map and changes it in two steps.                                    *)
SharesKept ==
    ~overwritten /\ miner # 0 =>
        \A k \in Seconds : k >= Sec(now) - Day => shares[miner][k] = counted[k]

(* Every block of the larger luck window is shown, whichever of            *)
(* getLuckStats and getBlocksStats prunes, and however late processShare   *)
(* stores it under the time it read.                                       *)
BlocksKept == \A ms \in found : ms >= now - LuckLargeWindow => ms \in DOMAIN blockStats

(* Every valid share counts for the luck of one block, the current one or  *)
(* an earlier one, however SwapInt64 and AddInt64 of the sessions mix.     *)
RoundsAddUp ==
    LET InFlight(pc) == {s \in Sessions : SessionAt(s, pc)} IN
    roundShares + attributed + SumFunction([s \in InFlight("stat") |-> session[s].round])
        = SumFunction(counted) + Cardinality(InFlight("store"))

(* A login that registers its Miner gets the lock of the map: StatsIndex   *)
(* receives all that Iter sends while it holds the lock.                   *)
LoginEnds == \A s \in Sessions : SessionAt(s, "set") ~> ~SessionAt(s, "set")
=============================================================================
