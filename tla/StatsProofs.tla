---------------------------- MODULE StatsProofs ----------------------------
(***************************************************************************)
(* For any number of sessions, any windows and any clock: types, and that  *)
(* no share of the last day, no block of the luck window and no share of a *)
(* round is lost from what the front end shows.                            *)
(***************************************************************************)
EXTENDS Stats, SumTheorems

-----------------------------------------------------------------------------
(* Types *)

(* The times at which blocks were found and the histories of counts *)
HistoryInv ==
    /\ counted \in [Seconds -> Nat]
    /\ found \subseteq Times
    /\ attributed \in Nat

(* What StatsIndex prunes by the second is of a Miner in the map, and so   *)
(* is what the sessions past their login count.                            *)
ReaderInv ==
    /\ reader \in {"estimate", "day"} => miner # 0
    /\ \A s \in Sessions : session[s].pc \notin {"login", "set"} => miner # 0

TypeInv == TypeOK /\ HistoryInv /\ ReaderInv

-----------------------------------------------------------------------------
(* The clock *)

LEMMA SecondOf ==
    ASSUME NEW a \in Nat, NEW m \in Nat \ {0}
    PROVE  a \div m \in Nat /\ (a \div m) * m =< a /\ a < (a \div m + 1) * m
OBVIOUS

LEMMA SecondsPass ==
    ASSUME NEW a \in Nat, NEW b \in Nat, a =< b
    PROVE  Sec(a) \in Nat /\ Sec(b) \in Nat /\ Sec(a) =< Sec(b)
<1> DEFINE p == a \div Second
           q == b \div Second
<1>1. Second \in Nat \ {0}
  BY StatsAssumption
<1>2. p \in Nat /\ p * Second =< a
  BY <1>1, SecondOf
<1>3. q \in Nat /\ b < (q + 1) * Second
  BY <1>1, SecondOf
<1>4. Sec(a) = p /\ Sec(b) = q
  BY DEF Sec
<1> HIDE DEF p, q
<1>5. p * Second < (q + 1) * Second
  BY <1>1, <1>2, <1>3
<1>6. ASSUME q + 1 =< p PROVE FALSE
  <2>1. (q + 1) * Second =< p * Second
    BY <1>1, <1>2, <1>3, <1>6
  <2>2. (q + 1) * Second \in Int /\ p * Second \in Int
    BY <1>1, <1>2, <1>3
  <2>3. QED
    BY <1>5, <2>1, <2>2
<1>7. QED
  BY <1>2, <1>3, <1>4, <1>6

LEMMA TimesHaveSeconds ==
    ASSUME NEW t \in Times
    PROVE  Sec(t) \in Seconds
<1>1. t \in Nat /\ MaxNow \in Nat /\ t =< MaxNow
  BY StatsAssumption DEF Times
<1>2. QED
  BY <1>1, SecondsPass DEF Seconds

-----------------------------------------------------------------------------
(* Types *)

(* The handler of a session *)
Handler == [pc : {"login", "set", "read", "swap", "stat", "write", "add", "store"},
            obj : 0 .. Len(shares), ms : Times, round : Nat]

LEMMA TimesNotEmpty == 0 \in Times /\ 0 \in Nat
BY StatsAssumption DEF Times

LEMMA InitTypeInv == Init => TypeInv
<1> SUFFICES ASSUME Init PROVE TypeInv
  OBVIOUS
<1>1. 0 \in Times /\ 0 \in 0 .. MaxShares
  BY StatsAssumption DEF Times
<1>2. shares = <<>> /\ Len(shares) = 0 /\ shares \in Seq([Seconds -> Nat])
  BY DEF Init
<1>3. \A s \in Sessions : session[s] = [Reading EXCEPT !.pc = "login"] /\ session[s].pc = "login"
  BY DEF Init, Reading
<1>4. [Reading EXCEPT !.pc = "login"] \in Handler
  BY <1>2, TimesNotEmpty DEF Reading, Handler
<1>5. session \in [Sessions -> Handler]
  BY <1>3, <1>4 DEF Init
<1>6. blockStats = <<>> /\ DOMAIN blockStats = {}
  BY DEF Init
<1>7. TypeOK
  <2>1. /\ now = 0 /\ miner = 0 /\ iter = FALSE /\ roundShares = 0 /\ reader = "rest" /\ sent = 0
    BY DEF Init
  <2>2. miner \in 0 .. Len(shares)
    BY <1>2, <2>1
  <2>3. DOMAIN blockStats \subseteq Times /\ \A ms \in DOMAIN blockStats : blockStats[ms] \in Nat
    BY <1>6
  <2>4. now \in Times /\ iter \in BOOLEAN /\ roundShares \in Nat /\ sent \in 0 .. MaxShares
        /\ reader \in {"rest", "estimate", "day", "luck", "blocks"}
    BY <1>1, <2>1
  <2>5. QED
    BY <1>2, <1>3, <1>5, <2>2, <2>3, <2>4 DEF TypeOK, Handler
<1>8. HistoryInv /\ ReaderInv
  BY <1>3 DEF Init, HistoryInv, ReaderInv
<1>9. QED
  BY <1>7, <1>8 DEF TypeInv

LEMMA ReadingType ==
    ASSUME TypeInv
    PROVE  /\ Reading \in Handler
           /\ Reading.pc = "read"
<1>1. 0 \in 0 .. Len(shares)
  BY DEF TypeInv, TypeOK
<1>2. QED
  BY <1>1, TimesNotEmpty DEF Reading, Handler

(* The handler of one session moves on. *)
LEMMA SessionType ==
    ASSUME TypeInv, NEW s \in Sessions, NEW c,
           c.pc \notin {"login", "set", "read"} => c.obj # 0,
           c.pc \notin {"login", "set"} => miner # 0,
           c \in Handler,
           session' = [session EXCEPT ![s] = c]
    PROVE  /\ session' \in [Sessions -> Handler]
           /\ \A r \in Sessions :
                 session'[r].pc \notin {"login", "set", "read"} => session'[r].obj # 0
           /\ \A r \in Sessions : session'[r].pc \notin {"login", "set"} => miner # 0
BY DEF TypeInv, TypeOK, ReaderInv, Handler

LEMMA NextTypeInv == TypeInv /\ [Next]_vars => TypeInv'
<1> SUFFICES ASSUME TypeInv, [Next]_vars PROVE TypeInv'
  OBVIOUS
<1> USE DEF TypeInv, history, Handler
<1>1. CASE Tick
  <2>1. now' \in Times
    BY <1>1, StatsAssumption DEF Tick, Times, TypeOK
  <2>2. QED
    BY <1>1, <2>1 DEF Tick, TypeOK, HistoryInv, ReaderInv
<1>2. ASSUME NEW s \in Sessions, LoginGet(s) PROVE TypeInv'
  <2> DEFINE c == [session[s] EXCEPT !.pc = "set"]
  <2>1. \/ session' = [session EXCEPT ![s] = c]
        \/ session' = [session EXCEPT ![s] = Reading] /\ miner # 0
    BY <1>2 DEF LoginGet, SessionGoto, SessionReads
  <2>2. c \in Handler
        /\ c.pc = "set"
    BY DEF TypeOK
  <2>3. Reading \in Handler
        /\ Reading.pc = "read"
    BY ReadingType
  <2> HIDE DEF c
  <2>4. QED
    BY <1>2, <2>1, <2>2, <2>3, SessionType DEF LoginGet, TypeOK, HistoryInv, ReaderInv
<1>3. ASSUME NEW s \in Sessions, LoginSet(s) PROVE TypeInv'
  <2> DEFINE zero == [k \in Seconds |-> 0]
  <2>1. shares' = Append(shares, zero) /\ zero \in [Seconds -> Nat]
    BY <1>3 DEF LoginSet
  <2> HIDE DEF zero
  <2>2. /\ Len(shares) \in Nat /\ Len(shares') = Len(shares) + 1
        /\ shares' \in Seq([Seconds -> Nat])
    BY <2>1 DEF TypeOK
  <2>3. miner' = Len(shares')
    BY <1>3 DEF LoginSet, Registered
  <2>4. session' = [session EXCEPT ![s] = Reading]
    BY <1>3 DEF LoginSet, SessionReads
  <2>5. \A i \in 0 .. Len(shares) : i \in 0 .. Len(shares')
    BY <2>2
  <2>6. \A r \in Sessions :
           /\ session'[r] \in Handler'
           /\ session'[r].pc \notin {"login", "set", "read"} => session'[r].obj # 0
    BY <2>2, <2>4, <2>5, TimesNotEmpty DEF TypeOK, Reading
  <2>7. session' \in [Sessions -> Handler']
    BY <2>4, <2>6 DEF TypeOK
  <2>8. /\ UNCHANGED <<now, iter, roundShares, blockStats, reader, sent, counted, found, attributed>>
        /\ miner' # 0 /\ miner' \in 0 .. Len(shares')
    BY <1>3, <2>2, <2>3 DEF LoginSet
  <2>9. TypeOK'
    BY <2>2, <2>6, <2>7, <2>8 DEF TypeOK
  <2>10. QED
    BY <2>8, <2>9 DEF HistoryInv, ReaderInv
<1>4. ASSUME NEW s \in Sessions, NEW pc \in {"add", "swap"}, Submit(s, pc)
      PROVE  TypeInv'
  <2> DEFINE c == [session[s] EXCEPT !.pc = pc, !.obj = miner]
  <2>1. session' = [session EXCEPT ![s] = c] /\ sent' \in 0 .. MaxShares
    BY <1>4, StatsAssumption DEF Submit, TypeOK
  <2>2. c \in Handler
        /\ c.obj # 0 /\ miner # 0
    BY <1>4 DEF TypeOK, ReaderInv, Submit, SessionAt
  <2> HIDE DEF c
  <2>3. QED
    BY <1>4, <2>1, <2>2, SessionType DEF Submit, TypeOK, HistoryInv, ReaderInv
<1>5. ASSUME NEW s \in Sessions, Swap(s) PROVE TypeInv'
  <2> DEFINE c == [session[s] EXCEPT !.pc = "stat", !.ms = now, !.round = roundShares]
  <2>1. session' = [session EXCEPT ![s] = c] /\ roundShares' = 0
    BY <1>5 DEF Swap, SwapRound
  <2>2. c \in Handler
        /\ c.obj # 0 /\ miner # 0
    BY <1>5 DEF TypeOK, ReaderInv, Swap, SessionAt
  <2> HIDE DEF c
  <2>3. QED
    BY <1>5, <2>1, <2>2, SessionType DEF Swap, TypeOK, HistoryInv, ReaderInv
<1>6. ASSUME NEW s \in Sessions, StoreBlock(s) PROVE TypeInv'
  <2> DEFINE c == [session[s] EXCEPT !.pc = "write"]
  <2>1. session' = [session EXCEPT ![s] = c]
    BY <1>6 DEF StoreBlock, SessionGoto
  <2>2. c \in Handler
        /\ c.obj # 0 /\ miner # 0
    BY <1>6 DEF TypeOK, ReaderInv, StoreBlock, SessionAt
  <2> HIDE DEF c
  <2>3. session[s].ms \in Times /\ session[s].round \in Nat
    BY DEF TypeOK
  <2>4. /\ DOMAIN blockStats' \subseteq Times
        /\ \A ms \in DOMAIN blockStats' : blockStats'[ms] \in Nat
    BY <1>6, <2>3 DEF StoreBlock, TypeOK
  <2>5. found' \subseteq Times /\ attributed' \in Nat
    BY <1>6, <2>3 DEF StoreBlock, HistoryInv
  <2>6. QED
    BY <1>6, <2>1, <2>2, <2>4, <2>5, SessionType DEF StoreBlock, TypeOK, HistoryInv, ReaderInv
<1>7. ASSUME NEW s \in Sessions, Written(s) PROVE TypeInv'
  <2> DEFINE c == [session[s] EXCEPT !.pc = "add"]
  <2>1. session' = [session EXCEPT ![s] = c] \/ session' = [session EXCEPT ![s] = Reading]
    BY <1>7 DEF Written, SessionGoto, SessionReads
  <2>2. c \in Handler
        /\ c.obj # 0 /\ miner # 0
    BY <1>7 DEF TypeOK, ReaderInv, Written, SessionAt
  <2>3. Reading \in Handler
        /\ Reading.pc = "read"
    BY ReadingType
  <2> HIDE DEF c
  <2>4. QED
    BY <1>7, <2>1, <2>2, <2>3, SessionType DEF Written, TypeOK, HistoryInv, ReaderInv
<1>8. ASSUME NEW s \in Sessions, AddRound(s) PROVE TypeInv'
  <2> DEFINE c == [session[s] EXCEPT !.pc = "store"]
  <2>1. session' = [session EXCEPT ![s] = c] /\ roundShares' \in Nat
    BY <1>8 DEF AddRound, SessionGoto, TypeOK
  <2>2. c \in Handler
        /\ c.obj # 0 /\ miner # 0
    BY <1>8 DEF TypeOK, ReaderInv, AddRound, SessionAt
  <2> HIDE DEF c
  <2>3. QED
    BY <1>8, <2>1, <2>2, SessionType DEF AddRound, TypeOK, HistoryInv, ReaderInv
<1>9. ASSUME NEW s \in Sessions, StoreShare(s) PROVE TypeInv'
  <2> DEFINE obj == session[s].obj
             line == [shares[obj] EXCEPT ![Sec(now)] = @ + 1]
  <2>1. Sec(now) \in Seconds
    BY TimesHaveSeconds DEF TypeOK
  <2>2. obj \in 1 .. Len(shares)
    <3>1. obj \in 0 .. Len(shares) /\ obj # 0 /\ Len(shares) \in Nat
      BY <1>9 DEF StoreShare, SessionAt, TypeOK
    <3> HIDE DEF obj
    <3>2. QED
      BY <3>1
  <2>3. line \in [Seconds -> Nat] /\ shares' = [shares EXCEPT ![obj] = line]
    BY <1>9, <2>1, <2>2 DEF StoreShare, TypeOK
  <2>4. session' = [session EXCEPT ![s] = Reading]
    BY <1>9 DEF StoreShare, SessionReads
  <2> HIDE DEF line, obj
  <2>5. shares' \in Seq([Seconds -> Nat]) /\ Len(shares') = Len(shares)
    BY <2>2, <2>3 DEF TypeOK
  <2>6. Reading \in Handler
        /\ Reading.pc = "read" /\ miner # 0
    BY <1>9, ReadingType DEF StoreShare, SessionAt, ReaderInv
  <2>7. counted' \in [Seconds -> Nat]
    BY <1>9, <2>1 DEF StoreShare, HistoryInv
  <2>8. QED
    BY <1>9, <2>4, <2>5, <2>6, <2>7, SessionType DEF StoreShare, TypeOK, HistoryInv, ReaderInv
<1>10. CASE BeginIter
  BY <1>10 DEF BeginIter, ReaderGoes, TypeOK, HistoryInv, ReaderInv
<1>11. ASSUME NEW window, UNCHANGED <<now, miner, roundShares, blockStats, session, sent, history>>,
              iter' \in BOOLEAN, reader \in {"estimate", "day"},
              reader' \in {"day", "luck"},
              shares' = [shares EXCEPT ![miner] = Pruned(@, window)]
       PROVE  TypeInv'
  <2>1. miner \in 1 .. Len(shares)
    BY <1>11 DEF ReaderInv, TypeOK
  <2>2. Pruned(shares[miner], window) \in [Seconds -> Nat]
    BY <2>1 DEF Pruned, TypeOK
  <2>3. shares' \in Seq([Seconds -> Nat]) /\ Len(shares') = Len(shares)
    BY <1>11, <2>1, <2>2 DEF TypeOK
  <2>4. QED
    BY <1>11, <2>1, <2>3 DEF TypeOK, HistoryInv, ReaderInv
<1>12. CASE Estimate
  BY <1>11, <1>12 DEF Estimate, ReaderGoes, TypeOK
<1>13. CASE HashrateOfDay
  BY <1>11, <1>13 DEF HashrateOfDay, ReaderGoes, IterEnds
<1>14. CASE ReadBlocks
  <2>1. /\ DOMAIN blockStats' \subseteq Times
        /\ \A ms \in DOMAIN blockStats' : blockStats'[ms] \in Nat
    BY <1>14 DEF ReadBlocks, Shown, TypeOK
  <2>2. QED
    BY <1>14, <2>1 DEF ReadBlocks, ReaderGoes, TypeOK, HistoryInv, ReaderInv
<1>15. CASE UNCHANGED vars
  BY <1>15 DEF vars, TypeOK, HistoryInv, ReaderInv
<1>16. QED
  BY <1>1, <1>2, <1>3, <1>4, <1>5, <1>6, <1>7, <1>8, <1>9, <1>10, <1>12, <1>13, <1>14, <1>15
     DEF Next, SessionStep, ReaderStep

(* Whatever the sessions and the page do, the variables keep their types.  *)
THEOREM StatsTypes == Spec => []TypeOK
BY InitTypeInv, NextTypeInv, PTL DEF Spec, TypeInv

-----------------------------------------------------------------------------
(* Shares of the last day *)

(* The one Miner is the one in the map, and nothing was counted before it. *)
MinerInv ==
    /\ miner = 0 => shares = <<>> /\ \A k \in Seconds : counted[k] = 0
    /\ ~overwritten => Len(shares) =< 1
    /\ SharesKept

LEMMA PruningKeeps ==
    ASSUME NEW window, TypeInv, MinerInv, reader \in {"estimate", "day"},
           shares' = [shares EXCEPT ![miner] = Pruned(@, window)],
           UNCHANGED <<now, miner, counted, overwritten>>
    PROVE  MinerInv'
<1>1. miner \in 1 .. Len(shares)
  BY DEF TypeInv, ReaderInv, TypeOK
<1>2. shares[miner] \in [Seconds -> Nat] /\ Sec(now) \in Nat /\ Day \in Nat
  BY <1>1, StatsAssumption, TimesHaveSeconds DEF TypeInv, TypeOK, Seconds
<1>3. \A k \in Seconds : k >= Sec(now) - Day => shares'[miner][k] = shares[miner][k]
  <2> SUFFICES ASSUME NEW k \in Seconds, k >= Sec(now) - Day
               PROVE  shares'[miner][k] = shares[miner][k]
    OBVIOUS
  <2>1. shares'[miner] = Pruned(shares[miner], window)
    BY <1>1 DEF TypeInv, TypeOK
  <2>2. k \in Int /\ ~(k < Sec(now) - Day)
    BY <1>2 DEF Seconds
  <2>3. QED
    BY <1>2, <2>1, <2>2 DEF Pruned
<1>4. Len(shares') = Len(shares)
  BY <1>1 DEF TypeInv, TypeOK
<1>5. SharesKept'
  BY <1>3 DEF MinerInv, SharesKept, Sec
<1>6. QED
  BY <1>1, <1>4, <1>5 DEF MinerInv

LEMMA NextMinerInv == TypeInv /\ TypeInv' /\ MinerInv /\ [Next]_vars => MinerInv'
<1> SUFFICES ASSUME TypeInv, TypeInv', MinerInv, [Next]_vars PROVE MinerInv'
  OBVIOUS
<1> USE DEF history
<1>1. CASE Tick
  <2>1. now \in Nat /\ now' \in Nat /\ now =< now'
    BY <1>1, StatsAssumption DEF Tick, TypeInv, TypeOK, Times
  <2>2. Sec(now) =< Sec(now)' /\ Sec(now) \in Nat /\ Sec(now)' \in Nat
    BY <2>1, SecondsPass DEF Sec
  <2>3. \A k \in Seconds : k >= Sec(now)' - Day => k >= Sec(now) - Day
    BY <2>2, StatsAssumption DEF Seconds
  <2>4. QED
    BY <1>1, <2>3 DEF Tick, MinerInv, SharesKept
<1>2. ASSUME NEW s \in Sessions, LoginSet(s) PROVE MinerInv'
  <2> DEFINE zero == [k \in Seconds |-> 0]
  <2>1. /\ shares' = Append(shares, zero) /\ miner' = Len(shares')
        /\ overwritten' = (overwritten \/ miner # 0)
        /\ counted' = counted /\ now' = now
    BY <1>2 DEF LoginSet, Registered
  <2>2. \A k \in Seconds : zero[k] = 0
    OBVIOUS
  <2>3. zero \in [Seconds -> Nat]
    OBVIOUS
  <2> HIDE DEF zero
  <2>4. shares \in Seq([Seconds -> Nat]) /\ Len(shares) \in Nat /\ Len(shares') = Len(shares) + 1
        /\ shares'[Len(shares) + 1] = zero
    BY <2>1, <2>3 DEF TypeInv, TypeOK
  <2>5. CASE miner = 0
    <3>1. Len(shares') = 1 /\ shares'[1] = zero /\ miner' = 1
      BY <2>1, <2>4, <2>5 DEF MinerInv
    <3>2. \A k \in Seconds : counted[k] = 0
      BY <2>5 DEF MinerInv
    <3>3. QED
      BY <2>1, <2>2, <3>1, <3>2 DEF MinerInv, SharesKept
  <2>6. CASE miner # 0
    <3>1. overwritten'
      BY <2>1, <2>6, Zenon
    <3>2. miner' # 0
      BY <2>1, <2>4
    <3>3. QED
      BY <3>1, <3>2 DEF MinerInv, SharesKept
  <2>7. QED
    BY <2>5, <2>6
<1>3. ASSUME NEW s \in Sessions, StoreShare(s) PROVE MinerInv'
  <2> DEFINE obj == session[s].obj
  <2>1. /\ shares' = [shares EXCEPT ![obj][Sec(now)] = @ + 1]
        /\ counted' = [counted EXCEPT ![Sec(now)] = @ + 1]
        /\ UNCHANGED <<now, miner, overwritten>>
    BY <1>3 DEF StoreShare
  <2>2. obj \in 0 .. Len(shares) /\ obj # 0 /\ miner # 0 /\ Len(shares) \in Nat
        /\ miner \in 0 .. Len(shares)
    <3>1. session[s].pc = "store"
      BY <1>3 DEF StoreShare, SessionAt
    <3>2. obj \in 0 .. Len(shares) /\ obj # 0
      BY <3>1 DEF TypeInv, TypeOK
    <3>3. miner # 0
      BY <3>1 DEF TypeInv, ReaderInv
    <3>4. Len(shares) \in Nat /\ miner \in 0 .. Len(shares)
      BY DEF TypeInv, TypeOK
    <3>5. QED
      BY <3>2, <3>3, <3>4
  <2> HIDE DEF obj
  <2>3. obj \in 1 .. Len(shares) /\ miner \in 1 .. Len(shares)
    BY <2>2
  <2>4. shares \in Seq([Seconds -> Nat]) /\ counted \in [Seconds -> Nat]
        /\ shares[miner] \in [Seconds -> Nat] /\ Len(shares') = Len(shares)
    <3>1. shares \in Seq([Seconds -> Nat]) /\ counted \in [Seconds -> Nat]
      BY DEF TypeInv, TypeOK, HistoryInv
    <3>2. shares[miner] \in [Seconds -> Nat]
      BY <2>3, <3>1
    <3>3. Len(shares') = Len(shares)
      BY <2>1, <2>3, <3>1
    <3>4. QED
      BY <3>1, <3>2, <3>3
  <2>5. ~overwritten => obj = miner
    BY <2>3, <2>4 DEF MinerInv
  <2>6. SharesKept'
    <3> SUFFICES ASSUME ~overwritten, NEW k \in Seconds, k >= Sec(now) - Day
                 PROVE  shares'[miner][k] = counted'[k]
      BY <2>1 DEF SharesKept, Sec
    <3>1. shares[miner][k] = counted[k]
      BY <2>2 DEF MinerInv, SharesKept
    <3>2. shares'[miner] = [shares[miner] EXCEPT ![Sec(now)] = @ + 1]
      BY <2>1, <2>3, <2>4, <2>5
    <3>3. QED
      BY <2>1, <2>4, <3>1, <3>2
  <2>7. QED
    BY <2>1, <2>2, <2>4, <2>6 DEF MinerInv
<1>4. CASE Estimate
  BY <1>4, PruningKeeps DEF Estimate, ReaderGoes
<1>5. CASE HashrateOfDay
  BY <1>5, PruningKeeps DEF HashrateOfDay, ReaderGoes
<1>6. ASSUME UNCHANGED <<now, miner, shares, counted, overwritten>> PROVE MinerInv'
  BY <1>6 DEF MinerInv, SharesKept, Sec
<1>7. ASSUME NEW s \in Sessions,
             \/ LoginGet(s) \/ Swap(s) \/ StoreBlock(s) \/ Written(s) \/ AddRound(s)
             \/ Submit(s, "add") \/ Submit(s, "swap")
      PROVE  MinerInv'
  BY <1>6, <1>7 DEF LoginGet, Swap, StoreBlock, Written, AddRound, Submit
<1>8. CASE BeginIter \/ ReadBlocks \/ UNCHANGED vars
  BY <1>6, <1>8 DEF BeginIter, ReadBlocks, vars
<1>9. QED
  BY <1>1, <1>2, <1>3, <1>4, <1>5, <1>7, <1>8 DEF Next, SessionStep, ReaderStep

(* However often the page prunes a Miner by whichever window, the shares   *)
(* of the last day are all there, if no login has replaced the Miner in    *)
(* the map meanwhile.                                                      *)
THEOREM NoShareForgotten == Spec => []SharesKept
<1>1. Init => MinerInv
  BY DEF Init, MinerInv, SharesKept
<1>2. QED
  BY <1>1, InitTypeInv, NextTypeInv, NextMinerInv, PTL DEF Spec, MinerInv

-----------------------------------------------------------------------------
(* Blocks of the luck window *)

LEMMA NextBlocks == TypeInv /\ TypeInv' /\ BlocksKept /\ [Next]_vars => BlocksKept'
<1> SUFFICES ASSUME TypeInv, TypeInv', BlocksKept, [Next]_vars PROVE BlocksKept'
  OBVIOUS
<1> USE DEF history
<1>1. CASE Tick
  <2>1. now \in Int /\ now' = now + 1 /\ LuckLargeWindow \in Int
    BY <1>1, StatsAssumption DEF Tick, TypeInv, TypeOK, Times
  <2>2. \A ms \in found : ms >= now' - LuckLargeWindow => ms >= now - LuckLargeWindow
    BY <2>1 DEF TypeInv, HistoryInv, Times
  <2>3. QED
    BY <1>1, <2>2 DEF Tick, BlocksKept
<1>2. ASSUME NEW s \in Sessions, StoreBlock(s) PROVE BlocksKept'
  <2>1. /\ DOMAIN blockStats' = DOMAIN blockStats \cup {session[s].ms}
        /\ found' = found \cup {session[s].ms} /\ now' = now
    BY <1>2 DEF StoreBlock
  <2>2. QED
    BY <2>1 DEF BlocksKept
<1>3. CASE ReadBlocks
  <2>1. DOMAIN blockStats' = Shown /\ found' = found /\ now' = now
    BY <1>3 DEF ReadBlocks
  <2>2. QED
    BY <2>1 DEF BlocksKept, Shown
<1>4. ASSUME UNCHANGED <<now, blockStats, found>> PROVE BlocksKept'
  BY <1>4 DEF BlocksKept
<1>5. ASSUME NEW s \in Sessions,
             \/ LoginGet(s) \/ LoginSet(s) \/ Swap(s) \/ Written(s) \/ AddRound(s)
             \/ StoreShare(s) \/ Submit(s, "add") \/ Submit(s, "swap")
      PROVE  BlocksKept'
  BY <1>4, <1>5 DEF LoginGet, LoginSet, Swap, Written, AddRound, StoreShare, Submit
<1>6. CASE BeginIter \/ Estimate \/ HashrateOfDay \/ UNCHANGED vars
  BY <1>4, <1>6 DEF BeginIter, Estimate, HashrateOfDay, vars
<1>7. QED
  BY <1>1, <1>2, <1>3, <1>5, <1>6 DEF Next, SessionStep, ReaderStep

(* Pruning by the smaller or the larger window in any order, and blocks    *)
(* stored under a time read earlier, the page shows every block that is    *)
(* not older than the larger luck window.                                  *)
THEOREM NoBlockForgotten == Spec => []BlocksKept
<1>1. Init => BlocksKept
  BY DEF Init, BlocksKept
<1>2. QED
  BY <1>1, InitTypeInv, NextTypeInv, NextBlocks, PTL DEF Spec

-----------------------------------------------------------------------------
(* Shares of the rounds *)

(* Handlers that hold the shares of a round they swapped out, and those    *)
(* whose share is in a round but not yet in its Miner                      *)
Swapped == {s \in Sessions : session[s].pc = "stat"}
Taken == [s \in Swapped |-> session[s].round]
Adding == {s \in Sessions : session[s].pc = "store"}

LEMMA RoundsSum ==
    RoundsAddUp <=>
        roundShares + attributed + SumFunction(Taken) = SumFunction(counted) + Cardinality(Adding)
BY DEF RoundsAddUp, Taken, Swapped, Adding, SessionAt

LEMMA RoundsSumNext ==
    RoundsAddUp' <=>
        roundShares' + attributed' + SumFunction(Taken') = SumFunction(counted') + Cardinality(Adding')
<1>1. (RoundsAddUp <=>
         roundShares + attributed + SumFunction(Taken) = SumFunction(counted) + Cardinality(Adding))'
  BY RoundsSum, PTL
<1>2. QED
  BY <1>1

LEMMA RoundTypes ==
    ASSUME TypeInv
    PROVE  /\ IsFiniteSet(Swapped) /\ Taken \in [Swapped -> Nat]
           /\ SumFunction(Taken) \in Nat
           /\ IsFiniteSet(Adding) /\ Cardinality(Adding) \in Nat
           /\ IsFiniteSet(Seconds) /\ SumFunction(counted) \in Nat
           /\ roundShares \in Nat /\ attributed \in Nat
<1>1. IsFiniteSet(Swapped) /\ IsFiniteSet(Adding)
  BY StatsAssumption, FS_Subset DEF Swapped, Adding
<1>2. Taken \in [Swapped -> Nat]
  BY DEF Taken, Swapped, TypeInv, TypeOK
<1>3. IsFiniteSet(Seconds)
  <2>1. 0 \in Int /\ Sec(MaxNow) \in Int
    BY StatsAssumption, SecondsPass
  <2>2. QED
    BY <2>1, FS_Interval DEF Seconds
<1>4. counted \in [Seconds -> Nat] /\ roundShares \in Nat /\ attributed \in Nat
  BY DEF TypeInv, HistoryInv, TypeOK
<1>5. QED
  BY <1>1, <1>2, <1>3, <1>4, SumFunctionNat, FS_CardinalityType

(* Nobody takes or stores the shares of a round, or counts one. *)
LEMMA RoundQuiet ==
    ASSUME RoundsAddUp, UNCHANGED <<roundShares, attributed, counted>>,
           \A s \in Sessions : /\ session'[s].pc = "stat" <=> session[s].pc = "stat"
                               /\ session'[s].pc = "store" <=> session[s].pc = "store"
                               /\ session[s].pc = "stat" => session'[s].round = session[s].round
    PROVE  RoundsAddUp'
<1>1. Swapped' = Swapped /\ Adding' = Adding
  BY DEF Swapped, Adding
<1>2. Taken' = Taken
  BY <1>1 DEF Taken, Swapped
<1>3. QED
  BY <1>1, <1>2, RoundsSum, RoundsSumNext

LEMMA SwapRounds ==
    ASSUME TypeInv, TypeInv', RoundsAddUp, NEW s \in Sessions, Swap(s)
    PROVE  RoundsAddUp'
<1>1. /\ session[s].pc = "swap" /\ roundShares' = 0
      /\ session' = [session EXCEPT ![s] = [@ EXCEPT !.pc = "stat", !.ms = now,
                                                     !.round = roundShares]]
      /\ UNCHANGED <<counted, attributed>>
  BY DEF Swap, SessionAt, SwapRound, history
<1>2. session'[s].pc = "stat" /\ session'[s].round = roundShares
      /\ \A r \in Sessions : r # s => session'[r] = session[r]
  BY <1>1 DEF TypeInv, TypeOK
<1>3. s \notin Swapped /\ Swapped' = Swapped \cup {s} /\ Adding' = Adding
  BY <1>1, <1>2 DEF Swapped, Adding
<1>4. /\ Taken' \in [Swapped \cup {s} -> Nat] /\ Taken'[s] = roundShares
      /\ \A r \in Swapped : Taken'[r] = Taken[r]
  <2>1. (Taken \in [Swapped -> Nat])'
    BY RoundTypes, PTL
  <2>2. QED
    BY <1>2, <1>3, <2>1 DEF Taken, Swapped
<1>5. SumFunction(Taken') = SumFunction(Taken) + roundShares
  <2>1. PICK t : t = Taken'
    OBVIOUS
  <2>2. SumFunction(t) = SumFunction(Taken) + t[s]
    <3>1. IsFiniteSet(Swapped) /\ Taken \in [Swapped -> Nat] /\ s \notin Swapped
      BY <1>3, RoundTypes
    <3>2. t \in [Swapped \cup {s} -> Nat] /\ \A r \in Swapped : t[r] = Taken[r]
      BY <1>4, <2>1
    <3>3. QED
      BY <3>1, <3>2, SumFunctionExtend
  <2>3. QED
    BY <1>4, <2>1, <2>2
<1>6. QED
  BY <1>1, <1>3, <1>5, RoundTypes, RoundsSum, RoundsSumNext

LEMMA StoreRounds ==
    ASSUME TypeInv, TypeInv', RoundsAddUp, NEW s \in Sessions, StoreBlock(s)
    PROVE  RoundsAddUp'
<1>1. /\ session[s].pc = "stat" /\ session' = [session EXCEPT ![s].pc = "write"]
      /\ attributed' = attributed + session[s].round
      /\ UNCHANGED <<counted, roundShares>>
  BY DEF StoreBlock, SessionAt, SessionGoto
<1>2. session'[s].pc = "write"
      /\ \A r \in Sessions : r # s => session'[r] = session[r]
  BY <1>1 DEF TypeInv, TypeOK
<1>3. s \notin Swapped' /\ Swapped = Swapped' \cup {s} /\ Adding' = Adding
  BY <1>1, <1>2 DEF Swapped, Adding
<1>4. IsFiniteSet(Swapped)' /\ (Taken \in [Swapped -> Nat])' /\ (SumFunction(Taken) \in Nat)'
  BY RoundTypes, PTL
<1>5. Taken[s] = session[s].round /\ \A r \in Swapped' : Taken[r] = Taken'[r]
  BY <1>2, <1>3 DEF Taken, Swapped
<1>6. SumFunction(Taken) = SumFunction(Taken') + session[s].round
  <2>1. PICK t, d : t = Taken' /\ d = Swapped'
    OBVIOUS
  <2>2. SumFunction(Taken) = SumFunction(t) + Taken[s]
    BY <1>3, <1>4, <1>5, <2>1, RoundTypes, SumFunctionExtend
  <2>3. QED
    BY <1>5, <2>1, <2>2
<1>7. session[s].round \in Nat
  BY DEF TypeInv, TypeOK
<1>8. QED
  BY <1>1, <1>3, <1>4, <1>6, <1>7, RoundTypes, RoundsSum, RoundsSumNext

LEMMA AddRounds ==
    ASSUME TypeInv, RoundsAddUp, NEW s \in Sessions, AddRound(s)
    PROVE  RoundsAddUp'
<1>1. /\ session[s].pc = "add" /\ session' = [session EXCEPT ![s].pc = "store"]
      /\ roundShares' = roundShares + 1
      /\ UNCHANGED <<counted, attributed>>
  BY DEF AddRound, SessionAt, SessionGoto, history
<1>2. session'[s].pc = "store"
      /\ \A r \in Sessions : r # s => session'[r] = session[r]
  BY <1>1 DEF TypeInv, TypeOK
<1>3. s \notin Adding /\ Adding' = Adding \cup {s} /\ Swapped' = Swapped
  BY <1>1, <1>2 DEF Swapped, Adding
<1>4. Taken' = Taken
  BY <1>1, <1>2, <1>3 DEF Taken, Swapped
<1>5. Cardinality(Adding') = Cardinality(Adding) + 1
  BY <1>3, RoundTypes, FS_AddElement
<1>6. QED
  BY <1>1, <1>4, <1>5, RoundTypes, RoundsSum, RoundsSumNext

LEMMA ShareRounds ==
    ASSUME TypeInv, TypeInv', RoundsAddUp, NEW s \in Sessions, StoreShare(s)
    PROVE  RoundsAddUp'
<1>1. /\ session[s].pc = "store" /\ session' = [session EXCEPT ![s] = Reading]
      /\ counted' = [counted EXCEPT ![Sec(now)] = @ + 1]
      /\ UNCHANGED <<roundShares, attributed>>
  BY DEF StoreShare, SessionAt, SessionReads
<1>2. session'[s].pc = "read"
      /\ \A r \in Sessions : r # s => session'[r] = session[r]
  BY <1>1, ReadingType DEF TypeInv, TypeOK
<1>3. s \in Adding /\ Adding' = Adding \ {s} /\ Swapped' = Swapped
  BY <1>1, <1>2 DEF Swapped, Adding
<1>4. Taken' = Taken
  BY <1>1, <1>2, <1>3 DEF Taken, Swapped
<1>5. Cardinality(Adding') = Cardinality(Adding) - 1
  BY <1>3, RoundTypes, FS_RemoveElement
<1>6. SumFunction(counted') = SumFunction(counted) + 1
  <2>1. Sec(now) \in Seconds
    BY TimesHaveSeconds DEF TypeInv, TypeOK
  <2>2. PICK c : c = counted'
    OBVIOUS
  <2>3. /\ counted \in [Seconds -> Nat] /\ c \in [Seconds -> Nat]
        /\ c[Sec(now)] = counted[Sec(now)] + 1
        /\ \A k \in Seconds \ {Sec(now)} : c[k] = counted[k]
    BY <1>1, <2>1, <2>2 DEF TypeInv, HistoryInv
  <2>4. SumFunction(c) = SumFunction(counted) - counted[Sec(now)] + c[Sec(now)]
    BY <2>1, <2>3, RoundTypes, SumFunctionUpdate
  <2>5. QED
    BY <2>1, <2>2, <2>3, <2>4, RoundTypes
<1>7. QED
  BY <1>1, <1>4, <1>5, <1>6, RoundTypes, RoundsSum, RoundsSumNext

LEMMA NextRounds == TypeInv /\ TypeInv' /\ RoundsAddUp /\ [Next]_vars => RoundsAddUp'
<1> SUFFICES ASSUME TypeInv, TypeInv', RoundsAddUp, [Next]_vars PROVE RoundsAddUp'
  OBVIOUS
<1> USE DEF history
<1>1. ASSUME UNCHANGED <<roundShares, attributed, counted, session>> PROVE RoundsAddUp'
  BY <1>1, RoundQuiet
<1>2. CASE Tick \/ BeginIter \/ ReaderStep \/ UNCHANGED vars
  BY <1>1, <1>2 DEF Tick, BeginIter, ReaderStep, Estimate, HashrateOfDay, ReadBlocks, vars
<1>3. ASSUME NEW s \in Sessions, NEW c, UNCHANGED <<roundShares, attributed, counted>>,
             session' = [session EXCEPT ![s] = c],
             session[s].pc \notin {"stat", "store"}, c.pc \notin {"stat", "store"}
      PROVE  RoundsAddUp'
  BY <1>3, RoundQuiet DEF TypeInv, TypeOK
<1>4. ASSUME NEW s \in Sessions, NEW pc \in {"set", "add", "swap"},
             UNCHANGED <<roundShares, attributed, counted>>,
             session[s].pc \notin {"stat", "store"},
             \/ session' = [session EXCEPT ![s] = Reading]
             \/ session' = [session EXCEPT ![s] = [session[s] EXCEPT !.pc = pc]]
             \/ session' = [session EXCEPT ![s] = [session[s] EXCEPT !.pc = pc, !.obj = miner]]
      PROVE  RoundsAddUp'
  <2>1. Reading.pc = "read" /\ [session[s] EXCEPT !.pc = pc].pc = pc
        /\ [session[s] EXCEPT !.pc = pc, !.obj = miner].pc = pc
    BY ReadingType DEF TypeInv, TypeOK
  <2>2. QED
    BY <1>3, <1>4, <2>1
<1>5. ASSUME NEW s \in Sessions, LoginGet(s) \/ LoginSet(s) PROVE RoundsAddUp'
  BY <1>4, <1>5 DEF LoginGet, LoginSet, SessionAt, SessionGoto, SessionReads
<1>6. ASSUME NEW s \in Sessions, Written(s) PROVE RoundsAddUp'
  BY <1>4, <1>6 DEF Written, SessionAt, SessionGoto, SessionReads
<1>7. ASSUME NEW s \in Sessions, NEW pc \in {"add", "swap"}, Submit(s, pc) PROVE RoundsAddUp'
  BY <1>4, <1>7 DEF Submit, SessionAt
<1>8. QED
  BY <1>2, <1>5, <1>6, <1>7, SwapRounds, StoreRounds, AddRounds, ShareRounds
     DEF Next, SessionStep

(* However SwapInt64 and AddInt64 of the sessions mix, every share that    *)
(* was counted is in the current round, was attributed to one block, or is *)
(* in the hands of one handler that will.                                  *)
THEOREM NoRoundShareLost == Spec => []RoundsAddUp
<1>1. Init => RoundsAddUp
  <2> SUFFICES ASSUME Init PROVE RoundsAddUp
    OBVIOUS
  <2>1. TypeInv
    BY InitTypeInv
  <2>2. \A s \in Sessions : session[s].pc = "login"
    BY DEF Init, Reading
  <2>3. Swapped = {} /\ Adding = {}
    BY <2>2 DEF Swapped, Adding
  <2>4. SumFunction(Taken) = 0
    BY <2>1, <2>3, RoundTypes, SumFunctionZero
  <2>5. SumFunction(counted) = 0
    BY <2>1, RoundTypes, SumFunctionZero DEF Init, TypeInv, HistoryInv
  <2>6. Cardinality(Adding) = 0 /\ roundShares = 0 /\ attributed = 0
    BY <2>3, FS_EmptySet DEF Init
  <2>7. QED
    BY <2>4, <2>5, <2>6, RoundsSum
<1>2. QED
  BY <1>1, InitTypeInv, NextTypeInv, NextRounds, PTL DEF Spec
=============================================================================
