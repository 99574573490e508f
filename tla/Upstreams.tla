----------------------------- MODULE Upstreams -----------------------------
(***************************************************************************)
(* The daemons the stratum server may use: the health counters of every    *)
(* RPCClient (rpc/rpc.go), the goroutine that checks them and chooses the  *)
(* current one (checkUpstreams, stratum/stratum.go), and the goroutines    *)
(* that meanwhile call whichever was current when they looked: the refresh *)
(* timer and miners that find a block.  The refresh at start-up is the     *)
(* timer's first one here.                                                 *)
(*                                                                         *)
(* Every call, every use of a client's lock and every access to s.upstream *)
(* is a step.  That the comparison with the current template and its store *)
(* are two accesses, what follows them, and how the template keeps up with *)
(* a growing chain is in module Stratum.  Here the tips of the daemons     *)
(* differ, as when one of them is behind, and do not move: a daemon's      *)
(* template is its index.                                                  *)
(***************************************************************************)
EXTENDS Faults, Sequences

CONSTANTS
    N,              \* how many upstreams are configured
    Finders,        \* sessions that find blocks
    Threshold,      \* failures until sick, answers until alive (5 in the code)
    Window          \* checks the exit looks back on (60 in the code)

ASSUME UpstreamsAssumption ==
    /\ N \in Nat \ {0} /\ Threshold \in Nat \ {0} /\ Window \in Nat \ {0}
    /\ "timer" \notin Finders

VARIABLES
    health,         \* how each daemon answers (external)
    sick,           \* RPCClient.sick
    sickRate,       \* RPCClient.sickRate; larger values than Threshold are alike
    successRate,    \* RPCClient.successRate
    upstream,       \* s.upstream
    upstreamsStates,\* s.upstreamsStates
    check,          \* the goroutine of checkUpstreams
    exited,         \* Error.Fatal has ended the process
    callers,        \* the other goroutines
    template,       \* whose template s.blockTemplate is, 0 if there is none
    answered        \* history: checks in a row each daemon has answered, up to
                    \* Threshold, with no failed call to it in between

clientVars == <<sick, sickRate, successRate, answered>>
checkVars == <<upstream, upstreamsStates, check, exited>>
vars == <<health, clientVars, checkVars, callers, template, faults>>

Index == 1 .. N
Threads == {"timer"} \cup Finders

CheckRests == [pc |-> "post", i |-> 1, candidate |-> 1, backup |-> FALSE]
Resting == [pc |-> "rest", client |-> 1, t |-> 0]

TypeOK ==
    /\ health \in [Index -> {"ok", "mute", "status"}]
    /\ sick \in [Index -> BOOLEAN]
    /\ sickRate \in [Index -> 0 .. Threshold]
    /\ successRate \in [Index -> 0 .. Threshold - 1]
    /\ answered \in [Index -> 0 .. Threshold]
    /\ upstream \in Index
    /\ upstreamsStates \in Seq(BOOLEAN) /\ Len(upstreamsStates) =< Window
    /\ check \in [pc : {"post", "alive", "sick", "switch", "states"},
                  i : Index, candidate : Index, backup : BOOLEAN]
    /\ exited \in BOOLEAN
    /\ callers \in [Threads -> [pc : {"rest", "submit", "fetch", "call", "store"},
                                client : Index, t : 0 .. N]]
    /\ template \in 0 .. N
    /\ faults \in 0 .. MaxFaults

(* NewStratum: the first upstream is the default. *)
Init ==
    /\ health = [i \in Index |-> "ok"]
    /\ sick = [i \in Index |-> FALSE]
    /\ sickRate = [i \in Index |-> 0]
    /\ successRate = [i \in Index |-> 0]
    /\ answered = [i \in Index |-> 0]
    /\ upstream = 1
    /\ upstreamsStates = <<>>
    /\ check = CheckRests
    /\ exited = FALSE
    /\ callers = [th \in Threads |-> Resting]
    /\ template = 0
    /\ FaultsInit

-----------------------------------------------------------------------------
(* monerod: a daemon fails or recovers. *)

Break(i, kind) ==
    /\ health[i] = "ok"
    /\ Fault(kind)
    /\ health' = [health EXCEPT ![i] = kind]
    /\ UNCHANGED <<clientVars, checkVars, callers, template>>

Recover(i) ==
    /\ health[i] # "ok"
    /\ health' = [health EXCEPT ![i] = "ok"]
    /\ UNCHANGED <<clientVars, checkVars, callers, template, faults>>

-----------------------------------------------------------------------------
(* RPCClient *)

MarkSick(i) ==
    LET rate == IF sickRate[i] = Threshold THEN Threshold ELSE sickRate[i] + 1 IN
    /\ sickRate' = [sickRate EXCEPT ![i] = rate]
    /\ successRate' = [successRate EXCEPT ![i] = 0]
    /\ sick' = [sick EXCEPT ![i] = sick[i] \/ rate >= Threshold]
    /\ answered' = [answered EXCEPT ![i] = 0]

MarkAlive(i) ==
    LET alive == successRate[i] + 1 >= Threshold IN
    /\ successRate' = [successRate EXCEPT ![i] = IF alive THEN 0 ELSE @ + 1]
    /\ sick' = [sick EXCEPT ![i] = @ /\ ~alive]
    /\ sickRate' = [sickRate EXCEPT ![i] = IF alive THEN 0 ELSE @]
    /\ answered' = [answered EXCEPT ![i] = IF @ = Threshold THEN Threshold ELSE @ + 1]

(* doPost without a result: no or an undecodable answer and JSON-RPC       *)
(* errors count against the client, an HTTP error status does not.         *)
PostFails(i) ==
    \/ health[i] = "mute" /\ MarkSick(i)
    \/ health[i] = "status" /\ UNCHANGED clientVars

-----------------------------------------------------------------------------
(* checkUpstreams *)

CheckAt(pc) == ~exited /\ check.pc = pc
CheckGoto(c) == check' = c

(* The next upstream of the loop, or the end of it *)
NextUpstream(c) ==
    IF c.i = N THEN [c EXCEPT !.pc = "switch"] ELSE [c EXCEPT !.pc = "post", !.i = @ + 1]

(* Check: GetBlockTemplate.  The first one is when the check timer fires. *)
CheckPost ==
    /\ CheckAt("post")
    /\ \/ health[check.i] = "ok" /\ CheckGoto([check EXCEPT !.pc = "alive"])
                                 /\ UNCHANGED clientVars
       \/ PostFails(check.i) /\ CheckGoto(NextUpstream(check))
    /\ UNCHANGED <<health, upstream, upstreamsStates, exited, callers, template, faults>>

(* Check: markAlive *)
CheckAlive ==
    /\ CheckAt("alive")
    /\ MarkAlive(check.i)
    /\ CheckGoto([check EXCEPT !.pc = "sick"])
    /\ UNCHANGED <<health, upstream, upstreamsStates, exited, callers, template, faults>>

(* Check: Sick.  The first upstream that passes is the candidate. *)
Chosen_Last(c, ok) == IF ok THEN [c EXCEPT !.candidate = c.i, !.backup = TRUE] ELSE c
Chosen(c, ok) ==
    IF ok /\ ~c.backup THEN [c EXCEPT !.candidate = c.i, !.backup = TRUE] ELSE c

CheckSick ==
    /\ CheckAt("sick")
    /\ CheckGoto(NextUpstream(Chosen(check, ~sick[check.i])))
    /\ UNCHANGED <<health, clientVars, upstream, upstreamsStates, exited, callers, template,
                   faults>>

Switch ==
    /\ CheckAt("switch")
    /\ upstream' = check.candidate
    /\ CheckGoto([check EXCEPT !.pc = "states"])
    /\ UNCHANGED <<health, clientVars, upstreamsStates, exited, callers, template, faults>>

(* Only this goroutine makes a client alive again, so reading the flags    *)
(* one after the other gives what they are at one moment.                  *)
AllSick_Current == sick[upstream]
AllSick == \A i \in Index : sick[i]

Recent_All(states) == states
Recent(states) ==
    IF Len(states) > Window THEN SubSeq(states, Len(states) - Window + 1, Len(states)) ELSE states

MustExit_AfterSlice(states) == Len(states) > Window /\ \A k \in DOMAIN states : states[k]
MustExit(states) == Len(states) >= Window /\ \A k \in DOMAIN states : states[k]

CheckStates ==
    /\ CheckAt("states")
    /\ upstreamsStates' = Recent(Append(upstreamsStates, AllSick))
    /\ exited' = MustExit(upstreamsStates')
    /\ CheckGoto(CheckRests)
    /\ UNCHANGED <<health, clientVars, upstream, callers, template, faults>>

CheckStep ==
    CheckPost \/ CheckAlive \/ CheckSick \/ Switch \/ CheckStates

-----------------------------------------------------------------------------
(* The other goroutines *)

CallerAt(th, pc) == ~exited /\ callers[th].pc = pc
CallerGoto(th, c) == callers' = [callers EXCEPT ![th] = c]

(* processShare: r := s.rpc(), before the hash is computed; the share is a *)
(* block.                                                                  *)
FindBlock(th) ==
    /\ CallerAt(th, "rest") /\ template # 0
    /\ CallerGoto(th, [Resting EXCEPT !.pc = "submit", !.client = upstream])
    /\ UNCHANGED <<health, clientVars, checkVars, template, faults>>

(* processShare: SubmitBlock, and refreshBlockTemplate if it succeeds. *)
SubmitBlock(th) ==
    LET i == callers[th].client IN
    /\ CallerAt(th, "submit")
    /\ \/ /\ health[i] = "ok"
          /\ CallerGoto(th, [Resting EXCEPT !.pc = "fetch"])
          /\ UNCHANGED <<clientVars, faults>>
       \/ /\ health[i] = "ok" /\ Fault("reject") /\ MarkSick(i)
          /\ CallerGoto(th, Resting)
       \/ PostFails(i) /\ CallerGoto(th, Resting) /\ UNCHANGED faults
    /\ UNCHANGED <<health, checkVars, template>>

(* fetchBlockTemplate: r := s.rpc(), when the refresh timer fires or after *)
(* the miner's block                                                       *)
LoadUpstream(th) ==
    /\ CallerAt(th, IF th = "timer" THEN "rest" ELSE "fetch")
    /\ CallerGoto(th, [Resting EXCEPT !.pc = "call", !.client = upstream])
    /\ UNCHANGED <<health, clientVars, checkVars, template, faults>>

(* fetchBlockTemplate: GetBlockTemplate *)
CallTemplate(th) ==
    LET i == callers[th].client IN
    /\ CallerAt(th, "call")
    /\ \/ health[i] = "ok" /\ CallerGoto(th, [Resting EXCEPT !.pc = "store", !.t = i])
                           /\ UNCHANGED clientVars
       \/ PostFails(i) /\ CallerGoto(th, Resting)
    /\ UNCHANGED <<health, checkVars, template, faults>>

(* fetchBlockTemplate: another template than the current one is stored. *)
IsNews(t) == t # template

Store(th) ==
    /\ CallerAt(th, "store")
    /\ template' = IF IsNews(callers[th].t) THEN callers[th].t ELSE template
    /\ CallerGoto(th, Resting)
    /\ UNCHANGED <<health, clientVars, checkVars, faults>>

CallerStep(th) ==
    SubmitBlock(th) \/ LoadUpstream(th) \/ CallTemplate(th) \/ Store(th)

Next ==
    \/ \E i \in Index : Break(i, "mute") \/ Break(i, "status") \/ Recover(i)
    \/ CheckStep
    \/ \E th \in Threads : CallerStep(th)
    \/ \E th \in Finders : FindBlock(th)

Spec == Init /\ [][Next]_vars

(* Fairness.  The check and refresh timers are reset after every use, a    *)
(* goroutine that can run does, and every call ends, as the HTTP client    *)
(* has a timeout.  Nothing is assumed of daemons or miners.                *)
Fairness ==
    /\ WF_vars(CheckStep)
    /\ \A th \in Threads : WF_vars(CallerStep(th))

FairSpec == Spec /\ Fairness

-----------------------------------------------------------------------------
(* The process never exits while a daemon has answered Threshold checks in *)
(* a row: Error.Fatal at the end of checkUpstreams needs every upstream to *)
(* be sick, and rejected blocks or failed refreshes of other goroutines    *)
(* count only until the daemon has recovered.                              *)
NoHealthyExit == exited => \A i \in Index : answered[i] < Threshold

(* If no daemon ever answers again the process does exit ("sick in the     *)
(* past 5 minutes, log and exit"), however the failures are spread over    *)
(* checks, refreshes and submissions.                                      *)
MuteExits == <>[](\A i \in Index : health[i] = "mute") => <>exited

(* The first daemon of the list that keeps answering becomes the upstream  *)
(* for good, and the template is from it: checkUpstreams leaves daemons    *)
(* that fail or return HTTP errors and comes back to earlier ones, and     *)
(* calls that began before a switch do not undo it.                        *)
FirstHealthy(i) == health[i] = "ok" /\ \A j \in 1 .. i - 1 : health[j] # "ok"
FollowsHealthy ==
    \A i \in Index :
        <>[]FirstHealthy(i) => <>[](exited \/ (upstream = i /\ template = i))
=============================================================================
