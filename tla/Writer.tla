------------------------------- MODULE Writer -------------------------------
(***************************************************************************)
(* The write path of a share: processShare (stratum/miner.go) after the    *)
(* hash has been verified, with WriteShare and WriteBlock of               *)
(* storage/redis.go.  Every session is a goroutine; every command it sends *)
(* to Redis or monerod is a step, so other sessions and the unlocker run   *)
(* in between.                                                             *)
(***************************************************************************)
EXTENDS Storage

CONSTANTS
    Sessions,       \* connections that submit at the same time
    MaxLag,         \* bound: how many templates behind a submission may fall
    MaxWork         \* bound: total difficulty credited in a run

ASSUME WriterAssumption == MaxLag \in Nat /\ MaxWork \in Nat

VARIABLE writers    \* what each session is doing

Idle == [pc |-> "idle"]
Submission ==
    [pc : {"prune", "zadd", "exec"}, pow : PoWs, login : Logins, height : Heights, total : {0}]
    \cup [pc : {"candidate"}, pow : Blocks, login : Logins, height : Heights,
          total : Nat \ {0}]

WriterTypeOK == writers \in [Sessions -> {Idle} \cup Submission]

WriterInit == writers = [s \in Sessions |-> Idle]

Submit(p, l, h) ==
    [pc |-> "prune", pow |-> p, login |-> l, height |-> h, total |-> 0]

(* The session goes on with the next command, or back to reading requests. *)
Goto(s, pc) == writers' = [writers EXCEPT ![s].pc = pc]
Finish(s) == writers' = [writers EXCEPT ![s] = Idle]

(* How far the chain may run ahead of a submission that is under way. *)
Timely == \A s \in Sessions : writers[s] # Idle => tip' + 1 =< writers[s].height + MaxLag

-----------------------------------------------------------------------------
(* A valid share for the current template, which may be one block behind.  *)
SubmitShare(s, p, l, h) ==
    /\ writers[s] = Idle
    /\ work < MaxWork
    /\ h \in Heights /\ h \in {tip, tip + 1}
    /\ writers' = [writers EXCEPT ![s] = Submit(p, l, h)]
    /\ UNCHANGED <<storageVars, daemonVars, faults>>

(* A share that meets the network difficulty goes to monerod first.  If it *)
(* is rejected, or the answer is lost, nothing is written.                 *)
SubmitBlock(s, b, l, h) ==
    /\ writers[s] = Idle
    /\ work < MaxWork
    /\ AcceptBlock(b, h) /\ Timely
    /\ \/ UNCHANGED faults /\ writers' = [writers EXCEPT ![s] = Submit(b, l, h)]
       \/ Fault("rpc") /\ UNCHANGED writers
    /\ UNCHANGED storageVars

(* checkPoWExist, ZREMRANGEBYSCORE: its error is ignored. *)
Prune(s) ==
    /\ writers[s].pc = "prune"
    /\ Goto(s, "zadd")
    /\ \/ PrunePow(writers[s].height) /\ UNCHANGED faults
       \/ Fault("refused") /\ UNCHANGED storageVars
    /\ UNCHANGED daemonVars

(* checkPoWExist, ZADD: a known proof of work ends the submission. *)
CheckPoWExist(s) ==
    LET w == writers[s] IN
    /\ w.pc = "zadd"
    /\ Send(AddPow(w.pow, w.height),
            IF PowExists(w.pow) THEN Finish(s) ELSE Goto(s, "exec"),
            Finish(s))
    /\ UNCHANGED daemonVars

(* The transaction of WriteShare *)
ExecShare(s) ==
    LET w == writers[s] IN
    /\ w.pc = "exec" /\ w.pow \in Shares
    /\ Send(WriteShareTx(w.login), Finish(s), Finish(s))
    /\ UNCHANGED daemonVars

(* The transaction of WriteBlock; its answer holds the round, whose sum is *)
(* the total of the candidate.                                             *)
ExecBlock(s) ==
    LET w == writers[s] IN
    /\ w.pc = "exec" /\ w.pow \in Blocks
    /\ Send(WriteBlockTx(w.login, w.pow, w.height),
            writers' = [writers EXCEPT ![s].pc = "candidate",
                                       ![s].total = SumFunction(WithShare(w.login))],
            Finish(s))
    /\ UNCHANGED daemonVars

(* The ZADD that makes the block a candidate *)
InsertCandidate(s) ==
    LET w == writers[s] IN
    /\ w.pc = "candidate"
    /\ Send(AddCandidate(w.pow, w.height, w.total), Finish(s), Finish(s))
    /\ UNCHANGED daemonVars

WriterStep(s) ==
    \/ Prune(s) \/ CheckPoWExist(s) \/ ExecShare(s) \/ ExecBlock(s) \/ InsertCandidate(s)

WriterNext ==
    \E s \in Sessions :
        \/ \E p \in Shares, l \in Logins, h \in {tip, tip + 1} : SubmitShare(s, p, l, h)
        \/ \E b \in Blocks, l \in Logins, h \in {tip, tip + 1} : SubmitBlock(s, b, l, h)
        \/ WriterStep(s)
=============================================================================
