-------------------------- MODULE UpstreamsProofs --------------------------
(***************************************************************************)
(* For any number of daemons and any thresholds: types, and that the       *)
(* process never exits while a daemon answers its checks.                  *)
(***************************************************************************)
EXTENDS Upstreams, SequenceTheorems, TLAPS

(* The last states of a sequence to which one was appended *)
LEMMA RecentOfAppend ==
    ASSUME NEW s \in Seq(BOOLEAN), Len(s) =< Window, NEW b \in BOOLEAN
    PROVE  LET r == Recent(Append(s, b)) IN
           /\ r \in Seq(BOOLEAN)
           /\ Len(r) \in 1 .. Window
           /\ r[Len(r)] = b
<1> DEFINE a == Append(s, b)
           m == Len(a) - Window + 1
<1>1. a \in Seq(BOOLEAN) /\ Len(a) = Len(s) + 1 /\ a[Len(a)] = b /\ Len(s) \in Nat
    BY AppendProperties, LenProperties
<1> HIDE DEF a
<1>2. CASE Len(a) > Window
    <2>1. m \in Nat \ {0} /\ m =< Len(a)
        BY <1>1, <1>2, UpstreamsAssumption
    <2>2. Recent(a) = SubSeq(a, m, Len(a))
        BY <1>2 DEF Recent
    <2>3. /\ SubSeq(a, m, Len(a)) \in Seq(BOOLEAN)
          /\ Len(SubSeq(a, m, Len(a))) = Len(a) - m + 1
          /\ \A i \in 1 .. Len(a) - m + 1 : SubSeq(a, m, Len(a))[i] = a[m + i - 1]
        BY <1>1, <2>1, SubSeqProperties
    <2>4. Len(a) - m + 1 = Window /\ m + Window - 1 = Len(a)
        BY <1>1, UpstreamsAssumption
    <2>5. Len(Recent(a)) = Window /\ Window \in 1 .. Window
        BY <2>2, <2>3, <2>4, <2>1, <1>1, UpstreamsAssumption
    <2>6. Recent(a)[Window] = a[Len(a)]
        BY <2>2, <2>3, <2>4, <2>5
    <2> QED
        BY <1>1, <2>2, <2>3, <2>5, <2>6 DEF a
<1>3. CASE ~(Len(a) > Window)
    <2>1. Recent(a) = a
        BY <1>3 DEF Recent
    <2> QED
        BY <1>1, <1>3, <2>1, UpstreamsAssumption DEF a
<1> QED
    BY <1>2, <1>3

-----------------------------------------------------------------------------
(* Types *)

ClientsType ==
    /\ sick \in [Index -> BOOLEAN]
    /\ sickRate \in [Index -> 0 .. Threshold]
    /\ successRate \in [Index -> 0 .. Threshold - 1]
    /\ answered \in [Index -> 0 .. Threshold]

LEMMA MarkSickType ==
    ASSUME ClientsType, NEW i \in Index, MarkSick(i)
    PROVE  ClientsType'
<1> DEFINE rate == IF sickRate[i] = Threshold THEN Threshold ELSE sickRate[i] + 1
<1>1. sickRate[i] \in 0 .. Threshold /\ sick[i] \in BOOLEAN
    BY DEF ClientsType
<1>2. rate \in 0 .. Threshold /\ 0 \in 0 .. Threshold - 1 /\ 0 \in 0 .. Threshold
    BY <1>1, UpstreamsAssumption
<1>3. (sick[i] \/ rate >= Threshold) \in BOOLEAN
    OBVIOUS
<1> HIDE DEF rate
<1>4. sickRate' = [sickRate EXCEPT ![i] = rate]
    BY DEF MarkSick, rate
<1>5. sick' = [sick EXCEPT ![i] = sick[i] \/ rate >= Threshold]
    BY DEF MarkSick, rate
<1>6. sickRate' \in [Index -> 0 .. Threshold]
    BY <1>2, <1>4 DEF ClientsType
<1>7. sick' \in [Index -> BOOLEAN]
    BY <1>3, <1>5, Zenon DEF ClientsType
<1>8. successRate' \in [Index -> 0 .. Threshold - 1] /\ answered' \in [Index -> 0 .. Threshold]
    BY <1>2 DEF MarkSick, ClientsType
<1> QED
    BY <1>6, <1>7, <1>8 DEF ClientsType

LEMMA MarkAliveType ==
    ASSUME ClientsType, NEW i \in Index, MarkAlive(i)
    PROVE  ClientsType'
<1> DEFINE alive == successRate[i] + 1 >= Threshold
           rate == IF alive THEN 0 ELSE successRate[i] + 1
           row == IF answered[i] = Threshold THEN Threshold ELSE answered[i] + 1
<1>1. /\ sickRate[i] \in 0 .. Threshold /\ sick[i] \in BOOLEAN
      /\ successRate[i] \in 0 .. Threshold - 1 /\ answered[i] \in 0 .. Threshold
    BY DEF ClientsType
<1>2. rate \in 0 .. Threshold - 1 /\ row \in 0 .. Threshold
      /\ (IF alive THEN 0 ELSE sickRate[i]) \in 0 .. Threshold
    BY <1>1, UpstreamsAssumption
<1>3. (sick[i] /\ ~alive) \in BOOLEAN
    OBVIOUS
<1>4. /\ successRate' = [successRate EXCEPT ![i] = rate]
      /\ sick' = [sick EXCEPT ![i] = sick[i] /\ ~alive]
      /\ sickRate' = [sickRate EXCEPT ![i] = IF alive THEN 0 ELSE sickRate[i]]
      /\ answered' = [answered EXCEPT ![i] = row]
    BY DEF MarkAlive
<1> HIDE DEF alive, rate, row
<1>5. sick' \in [Index -> BOOLEAN]
    BY <1>3, <1>4, Zenon DEF ClientsType
<1>6. successRate' \in [Index -> 0 .. Threshold - 1]
    BY <1>2, <1>4 DEF ClientsType
<1>7. sickRate' \in [Index -> 0 .. Threshold] /\ answered' \in [Index -> 0 .. Threshold]
    BY <1>2, <1>4 DEF ClientsType
<1> QED
    BY <1>5, <1>6, <1>7 DEF ClientsType

LEMMA PostFailsType ==
    ASSUME ClientsType, NEW i \in Index, PostFails(i)
    PROVE  ClientsType'
BY MarkSickType DEF PostFails, clientVars, ClientsType

Checks == [pc : {"post", "alive", "sick", "switch", "states"},
           i : Index, candidate : Index, backup : BOOLEAN]
Callers == [pc : {"rest", "submit", "fetch", "call", "store"}, client : Index, t : 0 .. N]

CheckType == check \in Checks
CallersType == callers \in [Threads -> Callers]
RestType ==
    /\ health \in [Index -> {"ok", "mute", "status"}]
    /\ upstream \in Index
    /\ upstreamsStates \in Seq(BOOLEAN) /\ Len(upstreamsStates) =< Window
    /\ exited \in BOOLEAN
    /\ template \in 0 .. N
    /\ faults \in 0 .. MaxFaults

LEMMA TypeParts == TypeOK <=> ClientsType /\ CheckType /\ CallersType /\ RestType
BY DEF TypeOK, ClientsType, CheckType, Checks, CallersType, Callers, RestType

LEMMA TypePartsNext == TypeOK' <=> ClientsType' /\ CheckType' /\ CallersType' /\ RestType'
BY DEF TypeOK, ClientsType, CheckType, Checks, CallersType, Callers, RestType

(* The changes to the records of the goroutines *)
LEMMA CheckUpdates ==
    ASSUME NEW c \in Checks
    PROVE  /\ \A p \in {"post", "alive", "sick", "switch", "states"} : [c EXCEPT !.pc = p] \in Checks
           /\ \A i \in Index : [c EXCEPT !.pc = "post", !.i = i] \in Checks
           /\ [c EXCEPT !.candidate = c.i, !.backup = TRUE] \in Checks
           /\ CheckRests \in Checks
<1>1. \A p \in {"post", "alive", "sick", "switch", "states"} : [c EXCEPT !.pc = p] \in Checks
    BY DEF Checks
<1>2. \A i \in Index : [c EXCEPT !.pc = "post", !.i = i] \in Checks
    BY DEF Checks
<1>3. [c EXCEPT !.candidate = c.i, !.backup = TRUE] \in Checks
    BY DEF Checks
<1>4. CheckRests \in Checks
    BY UpstreamsAssumption DEF Checks, CheckRests, Index
<1> QED
    BY <1>1, <1>2, <1>3, <1>4

LEMMA CallerUpdates ==
    /\ Resting \in Callers
    /\ \A p \in {"submit", "fetch", "call", "store"} : [Resting EXCEPT !.pc = p] \in Callers
    /\ \A p \in {"submit", "fetch", "call", "store"}, i \in Index :
          [Resting EXCEPT !.pc = p, !.client = i] \in Callers
    /\ \A p \in {"submit", "fetch", "call", "store"}, t \in 0 .. N :
          [Resting EXCEPT !.pc = p, !.t = t] \in Callers
<1>1. 1 \in Index /\ 0 \in 0 .. N
    BY UpstreamsAssumption DEF Index
<1>2. Resting \in Callers
    BY <1>1 DEF Callers, Resting
<1>3. \A p \in {"submit", "fetch", "call", "store"} : [Resting EXCEPT !.pc = p] \in Callers
    BY <1>2 DEF Callers
<1>4. \A p \in {"submit", "fetch", "call", "store"}, i \in Index :
          [Resting EXCEPT !.pc = p, !.client = i] \in Callers
    BY <1>2 DEF Callers
<1>5. \A p \in {"submit", "fetch", "call", "store"}, t \in 0 .. N :
          [Resting EXCEPT !.pc = p, !.t = t] \in Callers
    BY <1>2 DEF Callers
<1> QED
    BY <1>2, <1>3, <1>4, <1>5

LEMMA NextUpstreamType ==
    ASSUME NEW c \in Checks
    PROVE  NextUpstream(c) \in Checks
<1>1. c.i \in Index
    BY DEF Checks
<1>2. c.i # N => c.i + 1 \in Index
    BY <1>1, UpstreamsAssumption DEF Index
<1> QED
    BY <1>2, CheckUpdates DEF NextUpstream

LEMMA CheckStepType == TypeOK /\ CheckStep => TypeOK'
<1> SUFFICES ASSUME ClientsType, CheckType, CallersType, RestType, CheckStep
             PROVE  ClientsType' /\ CheckType' /\ CallersType' /\ RestType'
    BY TypeParts, TypePartsNext
<1>0. check.i \in Index /\ check.candidate \in Index
    BY DEF CheckType, Checks
<1>1. CASE CheckPost
    <2>1. ClientsType'
        BY <1>0, <1>1, PostFailsType DEF CheckPost, clientVars, ClientsType
    <2>2. CheckType'
        BY <1>1, NextUpstreamType, CheckUpdates DEF CheckPost, CheckGoto, CheckType
    <2>3. CallersType' /\ RestType'
        BY <1>1 DEF CheckPost, CallersType, RestType
    <2> QED
        BY <2>1, <2>2, <2>3
<1>2. CASE CheckAlive
    <2>1. ClientsType'
        BY <1>0, <1>2, MarkAliveType DEF CheckAlive
    <2>2. CheckType' /\ CallersType' /\ RestType'
        BY <1>2, CheckUpdates DEF CheckAlive, CheckGoto, CheckType, CallersType, RestType
    <2> QED
        BY <2>1, <2>2
<1>3. CASE CheckSick
    <2>1. Chosen(check, ~sick[check.i]) \in Checks
        BY CheckUpdates DEF Chosen, CheckType
    <2>2. CheckType'
        BY <1>3, <2>1, NextUpstreamType DEF CheckSick, CheckGoto, CheckType
    <2>3. ClientsType' /\ CallersType' /\ RestType'
        BY <1>3 DEF CheckSick, clientVars, ClientsType, CallersType, RestType
    <2> QED
        BY <2>2, <2>3
<1>4. CASE Switch
    BY <1>0, <1>4, CheckUpdates DEF Switch, CheckGoto, clientVars, ClientsType, CheckType, CallersType, RestType
<1>5. CASE CheckStates
    <2>1. AllSick \in BOOLEAN
        BY DEF AllSick
    <2>2. upstreamsStates' \in Seq(BOOLEAN) /\ Len(upstreamsStates') =< Window
        BY <1>5, <2>1, RecentOfAppend, UpstreamsAssumption DEF CheckStates, RestType
    <2>3. RestType'
        BY <1>5, <2>2 DEF CheckStates, MustExit, RestType
    <2>4. ClientsType' /\ CheckType' /\ CallersType'
        BY <1>5, CheckUpdates
        DEF CheckStates, CheckGoto, clientVars, ClientsType, CheckType, CallersType
    <2> QED
        BY <2>3, <2>4
<1> QED
    BY <1>1, <1>2, <1>3, <1>4, <1>5 DEF CheckStep

LEMMA CallerGotoType ==
    ASSUME CallersType, NEW th \in Threads, NEW c \in Callers, CallerGoto(th, c)
    PROVE  CallersType'
BY DEF CallersType, CallerGoto

LEMMA CallerStepType ==
    ASSUME TypeOK, NEW th \in Threads, CallerStep(th) \/ FindBlock(th)
    PROVE  TypeOK'
<1> SUFFICES ASSUME ClientsType, CheckType, CallersType, RestType
             PROVE  ClientsType' /\ CheckType' /\ CallersType' /\ RestType'
    BY TypeParts, TypePartsNext
<1>0. callers[th].client \in Index /\ callers[th].t \in 0 .. N
    BY DEF CallersType, Callers
<1>i. Index \subseteq 0 .. N
    BY UpstreamsAssumption DEF Index
<1>1. CASE FindBlock(th)
    <2>1. CallersType'
        BY <1>0, <1>1, CallerGotoType, CallerUpdates DEF FindBlock, RestType
    <2> QED
        BY <1>1, <2>1 DEF FindBlock, clientVars, checkVars, ClientsType, CheckType, RestType
<1>2. CASE SubmitBlock(th)
    <2>1. CallersType'
        BY <1>0, <1>2, CallerGotoType, CallerUpdates DEF SubmitBlock
    <2>2. ClientsType'
        BY <1>0, <1>2, MarkSickType, PostFailsType DEF SubmitBlock, clientVars, ClientsType
    <2>3. CheckType'
        BY <1>2 DEF SubmitBlock, checkVars, CheckType
    <2>4. RestType'
        BY <1>2, FaultsAssumption DEF SubmitBlock, checkVars, RestType, Fault
    <2> QED
        BY <2>1, <2>2, <2>3, <2>4
<1>3. CASE LoadUpstream(th)
    <2>1. CallersType'
        BY <1>0, <1>3, CallerGotoType, CallerUpdates DEF LoadUpstream, RestType
    <2> QED
        BY <1>3, <2>1 DEF LoadUpstream, clientVars, checkVars, ClientsType, CheckType, RestType
<1>4. CASE CallTemplate(th)
    <2>1. CallersType'
        BY <1>0, <1>4, <1>i, CallerGotoType, CallerUpdates DEF CallTemplate
    <2>2. ClientsType'
        BY <1>0, <1>4, PostFailsType DEF CallTemplate, clientVars, ClientsType
    <2> QED
        BY <1>4, <2>1, <2>2 DEF CallTemplate, checkVars, CheckType, RestType
<1>5. CASE Store(th)
    <2>1. CallersType'
        BY <1>0, <1>5, CallerGotoType, CallerUpdates DEF Store
    <2> QED
        BY <1>0, <1>5, <2>1 DEF Store, clientVars, checkVars, ClientsType, CheckType, RestType
<1> QED
    BY <1>1, <1>2, <1>3, <1>4, <1>5 DEF CallerStep

LEMMA HealthStepType ==
    ASSUME TypeOK, NEW i \in Index, Break(i, "mute") \/ Break(i, "status") \/ Recover(i)
    PROVE  TypeOK'
<1> SUFFICES ASSUME ClientsType, CheckType, CallersType, RestType
             PROVE  ClientsType' /\ CheckType' /\ CallersType' /\ RestType'
    BY TypeParts, TypePartsNext
<1>1. UNCHANGED <<clientVars, checkVars, callers, template>>
    BY DEF Break, Recover
<1>2. health' \in [Index -> {"ok", "mute", "status"}] /\ faults' \in 0 .. MaxFaults
    BY FaultsAssumption DEF Break, Recover, RestType, Fault
<1> QED
    BY <1>1, <1>2 DEF clientVars, checkVars, ClientsType, CheckType, CallersType, RestType

(* The counters stay within their thresholds, the states within their      *)
(* window, and the upstream is one of the configured ones.                 *)
THEOREM UpstreamsType == Spec => []TypeOK
<1>1. Init => TypeOK
    <2> SUFFICES ASSUME Init PROVE ClientsType /\ CheckType /\ CallersType /\ RestType
        BY TypeParts
    <2>1. ClientsType
        BY UpstreamsAssumption DEF Init, ClientsType
    <2>2. CheckType /\ CallersType
        BY UpstreamsAssumption DEF Init, CheckType, Checks, CallersType, Callers, CheckRests, Resting, Index
    <2>3. RestType
        <3>1. <<>> \in Seq(BOOLEAN) /\ Len(<<>>) = 0
            BY EmptySeq
        <3>2. 1 \in Index /\ 0 \in 0 .. N /\ 0 \in 0 .. MaxFaults /\ 0 =< Window
            BY UpstreamsAssumption, FaultsAssumption DEF Index
        <3>3. health \in [Index -> {"ok", "mute", "status"}]
            BY DEF Init
        <3> QED
            BY <3>1, <3>2, <3>3 DEF Init, FaultsInit, RestType
    <2> QED
        BY <2>1, <2>2, <2>3
<1>2. TypeOK /\ [Next]_vars => TypeOK'
    <2> SUFFICES ASSUME TypeOK, [Next]_vars PROVE TypeOK'
        OBVIOUS
    <2>1. CASE CheckStep
        BY <2>1, CheckStepType
    <2>2. ASSUME NEW th \in Threads, CallerStep(th) \/ FindBlock(th) PROVE TypeOK'
        BY <2>2, CallerStepType
    <2>3. ASSUME NEW i \in Index, Break(i, "mute") \/ Break(i, "status") \/ Recover(i)
          PROVE  TypeOK'
        BY <2>3, HealthStepType
    <2>4. CASE UNCHANGED vars
        BY <2>4 DEF vars, clientVars, checkVars, TypeOK
    <2> QED
        BY <2>1, <2>2, <2>3, <2>4 DEF Next, Threads
<1> QED
    BY <1>1, <1>2, PTL DEF Spec

-----------------------------------------------------------------------------
(* Sickness.  A daemon becomes sick by a failure, which ends its row of    *)
(* answers, and while it is sick successRate counts the row that began     *)
(* then: it is short of Threshold.                                         *)

SickIsShort == \A i \in Index : sick[i] => answered[i] =< successRate[i]

ExitInv == SickIsShort /\ NoHealthyExit

LEMMA MarkSickShort ==
    ASSUME ClientsType, SickIsShort, NEW i \in Index, MarkSick(i)
    PROVE  SickIsShort'
BY UpstreamsAssumption DEF ClientsType, SickIsShort, MarkSick

LEMMA MarkAliveShort ==
    ASSUME ClientsType, SickIsShort, NEW i \in Index, MarkAlive(i)
    PROVE  SickIsShort'
<1> SUFFICES ASSUME NEW j \in Index, sick'[j] PROVE answered'[j] =< successRate'[j]
    BY DEF SickIsShort
<1>0. /\ sick[j] \in BOOLEAN /\ successRate[j] \in 0 .. Threshold - 1
      /\ answered[j] \in 0 .. Threshold /\ Threshold \in Nat
    BY UpstreamsAssumption DEF ClientsType
<1>1. CASE j # i
    BY <1>1 DEF ClientsType, SickIsShort, MarkAlive
<1>2. CASE j = i
    <2>1. sick[i] /\ ~(successRate[i] + 1 >= Threshold)
        BY <1>2 DEF ClientsType, MarkAlive
    <2>2. successRate'[i] = successRate[i] + 1
        BY <2>1 DEF ClientsType, MarkAlive
    <2>3. answered[i] =< successRate[i]
        BY <2>1 DEF SickIsShort
    <2>4. answered'[i] = IF answered[i] = Threshold THEN Threshold ELSE answered[i] + 1
        BY DEF ClientsType, MarkAlive
    <2> QED
        BY <1>0, <1>2, <2>1, <2>2, <2>3, <2>4
<1> QED
    BY <1>1, <1>2

LEMMA PostFailsShort ==
    ASSUME ClientsType, SickIsShort, NEW i \in Index, PostFails(i)
    PROVE  SickIsShort'
BY MarkSickShort DEF PostFails, clientVars, SickIsShort

(* Every step keeps it. *)
LEMMA ClientsShort ==
    ASSUME TypeOK, SickIsShort, [Next]_vars
    PROVE  SickIsShort'
<1>0. ClientsType /\ check.i \in Index /\ \A th \in Threads : callers[th].client \in Index
    BY TypeParts DEF CheckType, Checks, CallersType, Callers
<1>1. CASE UNCHANGED clientVars
    BY <1>1 DEF clientVars, SickIsShort
<1>2. CASE CheckPost
    BY <1>0, <1>1, <1>2, PostFailsShort DEF CheckPost
<1>3. CASE CheckAlive
    BY <1>0, <1>3, MarkAliveShort DEF CheckAlive
<1>4. ASSUME NEW th \in Threads, SubmitBlock(th) PROVE SickIsShort'
    BY <1>0, <1>1, <1>4, MarkSickShort, PostFailsShort DEF SubmitBlock
<1>5. ASSUME NEW th \in Threads, CallTemplate(th) PROVE SickIsShort'
    BY <1>0, <1>1, <1>5, PostFailsShort DEF CallTemplate
<1>6. CASE CheckSick \/ Switch \/ CheckStates
    BY <1>1, <1>6 DEF CheckSick, Switch, CheckStates
<1>7. ASSUME NEW th \in Threads, FindBlock(th) \/ LoadUpstream(th) \/ Store(th)
      PROVE  SickIsShort'
    BY <1>1, <1>7 DEF FindBlock, LoadUpstream, Store
<1>8. ASSUME NEW i \in Index, Break(i, "mute") \/ Break(i, "status") \/ Recover(i)
      PROVE  SickIsShort'
    BY <1>1, <1>8 DEF Break, Recover
<1>9. CASE UNCHANGED vars
    BY <1>1, <1>9 DEF vars
<1> QED
    BY <1>2, <1>3, <1>4, <1>5, <1>6, <1>7, <1>8, <1>9
    DEF Next, CheckStep, CallerStep, Threads

(* An ended process does nothing more. *)
LEMMA ExitedStays ==
    ASSUME TypeOK, exited, [Next]_vars
    PROVE  UNCHANGED <<exited, answered>>
BY DEF Next, CheckStep, CheckPost, CheckAlive, CheckSick, Switch, CheckStates, CheckAt,
       CallerStep, FindBlock, SubmitBlock, LoadUpstream, CallTemplate, Store, CallerAt,
       Break, Recover, vars, clientVars, checkVars

(* It ends only when the last state was that all daemons are sick. *)
LEMMA ExitNeedsAllSick ==
    ASSUME TypeOK, ~exited, [Next]_vars, exited'
    PROVE  AllSick /\ UNCHANGED clientVars
<1>1. CASE CheckStates
    <2> DEFINE states == Recent(Append(upstreamsStates, AllSick))
    <2>1. AllSick \in BOOLEAN /\ upstreamsStates \in Seq(BOOLEAN) /\ Len(upstreamsStates) =< Window
        BY DEF AllSick, TypeOK
    <2>2. states \in Seq(BOOLEAN) /\ Len(states) \in 1 .. Window /\ states[Len(states)] = AllSick
        BY <2>1, RecentOfAppend
    <2>3. MustExit(states)
        BY <1>1 DEF CheckStates
    <2> HIDE DEF states
    <2>4. Len(states) \in DOMAIN states
        BY <2>2, LenProperties
    <2>5. AllSick
        BY <2>2, <2>3, <2>4 DEF MustExit
    <2> QED
        BY <1>1, <2>5 DEF CheckStates
<1>2. CASE ~CheckStates
    BY <1>2 DEF Next, CheckStep, CheckPost, CheckAlive, CheckSick, Switch,
           CallerStep, FindBlock, SubmitBlock, LoadUpstream, CallTemplate, Store,
           Break, Recover, vars, checkVars
<1> QED
    BY <1>1, <1>2

(* Error.Fatal at the end of checkUpstreams is never reached while a       *)
(* daemon has answered its last Threshold checks, whatever other           *)
(* goroutines do to the counters: for any list of daemons, threshold and   *)
(* window.                                                                 *)
THEOREM NoHealthyExitEver == Spec => []NoHealthyExit
<1>1. Init => ExitInv
    BY DEF Init, ExitInv, SickIsShort, NoHealthyExit
<1>2. TypeOK /\ ExitInv /\ [Next]_vars => ExitInv'
    <2> SUFFICES ASSUME TypeOK, ExitInv, [Next]_vars PROVE ExitInv'
        OBVIOUS
    <2>1. SickIsShort'
        BY ClientsShort DEF ExitInv
    <2>2. ASSUME exited PROVE NoHealthyExit'
        BY <2>2, ExitedStays DEF ExitInv, NoHealthyExit
    <2>3. ASSUME ~exited, exited' PROVE NoHealthyExit'
        <3>1. \A i \in Index : sick[i] /\ answered'[i] = answered[i]
            BY <2>3, ExitNeedsAllSick DEF AllSick, clientVars
        <3>2. \A i \in Index : answered[i] =< successRate[i] /\ successRate[i] < Threshold
                               /\ answered[i] \in Nat /\ successRate[i] \in Nat
            BY <3>1, UpstreamsAssumption DEF ExitInv, SickIsShort, TypeOK
        <3> QED
            BY <3>1, <3>2, UpstreamsAssumption DEF NoHealthyExit
    <2>4. ASSUME ~exited' PROVE NoHealthyExit'
        BY <2>4 DEF NoHealthyExit
    <2> QED
        BY <2>1, <2>2, <2>3, <2>4 DEF ExitInv
<1>3. ExitInv => NoHealthyExit
    BY DEF ExitInv
<1> QED
    BY <1>1, <1>2, <1>3, UpstreamsType, PTL DEF Spec
=============================================================================
