------------------------------ MODULE Stratum ------------------------------
(***************************************************************************)
(* The stratum server (stratum/): connections that log in, ask for jobs    *)
(* and submit; the current block template, refreshed by a timer and by     *)
(* whoever finds a block; and the broadcast of a new template, with one    *)
(* goroutine per session.                                                  *)
(*                                                                         *)
(* A step is what happens between two accesses to shared state.  The lock  *)
(* sessionsMu is held for reading while a broadcast is at "spawn" and for  *)
(* writing inside Register and Remove.  cs.Lock is only ever held across   *)
(* one access or one write to the socket, so it is not represented.  What  *)
(* processShare writes to Redis is module Writer; here WriteShare and      *)
(* WriteBlock count as one use of a proof of work.                         *)
(***************************************************************************)
EXTENDS Faults, Sequences, FiniteSets

CONSTANTS
    Conns,          \* connections to one Endpoint, each a Session
    Nonces,         \* nonces a miner may send
    MaxJobs,        \* jobs a session remembers (4 in the code)
    ChanCap,        \* capacity of bcast (1024 in the code)
    SameHeight,     \* may a new tip have the height of the old one?
    MaxTips,        \* bound: how many tips there are
    MaxCalls,       \* bound: getJob calls of a session under way at once
    MaxRequests     \* bound: login and getjob requests of a session

ASSUME StratumAssumption ==
    /\ MaxJobs \in Nat \ {0} /\ ChanCap \in Nat \ {0} /\ MaxTips \in Nat \ {0}
    /\ MaxCalls \in Nat \ {0} /\ MaxRequests \in Nat
    /\ SameHeight \in BOOLEAN
    /\ {"start", "timer", "reply", "alone"} \cap Conns = {}

VARIABLES
    latest,         \* what get_block_template answers (external)
    template,       \* s.blockTemplate
    refresher,      \* goroutines inside refreshBlockTemplate
    sessions,       \* s.sessions
    miners,         \* has any miner registered (s.miners is not empty)?
    handler,        \* the goroutine of each connection
    tasks,          \* getJob calls under way, with the message that follows
    lastBlockHeight,\* cs.lastBlockHeight
    validJobs,      \* cs.validJobs
    jobSequence,    \* e.jobSequence, and e.extraNonce: see NewJob
    requests,       \* how many login and getjob requests each session has made
    broken,         \* connections on which writing fails
    processed,      \* history: proofs of work given to WriteShare or WriteBlock
    repeated,       \* history: those given to it twice
    offered         \* history: heights each session had a job for

handlerVars == <<handler, requests>>
serverVars == <<template, sessions, miners>>
shareVars == <<processed, repeated>>
jobVars == <<lastBlockHeight, validJobs, jobSequence, offered>>
vars == <<latest, serverVars, refresher, handlerVars, tasks, jobVars, broken, shareVars, faults>>

(* A template is identified by prev_hash; the first one is 1 at height 1.  *)
Template == [prev : 1 .. MaxTips, height : 1 .. MaxTips]
NoTemplate == [prev |-> 0, height |-> 0]

(* Whoever may run refreshBlockTemplate: NewStratum once, its timer, and   *)
(* the handler of a connection that found a block.                         *)
Threads == {"start", "timer"} \cup Conns

(* Of the two counters of the endpoint, extraNonce and jobSequence, each   *)
(* job takes the next value: as one number they name the job and its blob. *)
Job == [id : Nat \ {0}, t : Template, submissions : SUBSET Nonces]
NoJob == [id |-> 0, t |-> NoTemplate, submissions |-> {}]
PoW(job, nonce) == <<job.t.prev, job.id, nonce>>

(* A getJob call: of a broadcast that is still spawning (from is its       *)
(* thread), of one that has ended ("alone"), or of a handler ("reply").    *)
(* n tells the calls of a session apart.                                   *)
Slots == 1 .. MaxCalls + 1
Task == [n : Slots, cs : Conns, t : Template, from : Threads \cup {"alone", "reply"},
         pc : {"swap", "push", "send", "recv", "remove"}, err : BOOLEAN]
Start(s, t, from) ==
    /\ Cardinality({k \in tasks : k.cs = s /\ k.pc \in {"swap", "push", "send"}}) < MaxCalls
    /\ \E n \in Slots :
          /\ \A m \in 1 .. n : m = n <=> \A k \in tasks : k.cs = s => k.n # m
          /\ tasks' = tasks \cup {[n |-> n, cs |-> s, t |-> t, from |-> from, pc |-> "swap",
                                   err |-> FALSE]}

(* A goroutine that is not refreshing, and a connection as Listen makes it *)
Resting == [pc |-> "rest", t |-> NoTemplate, left |-> {}]
Reading == [pc |-> "read", t |-> NoTemplate, job |-> NoJob]

Init ==
    /\ latest = [prev |-> 1, height |-> 1]
    /\ template = NoTemplate
    /\ refresher = [th \in Threads |-> IF th = "start" THEN [Resting EXCEPT !.pc = "fetch"]
                                                        ELSE Resting]
    /\ sessions = {} /\ miners = FALSE
    /\ handler = [s \in Conns |-> Reading]
    /\ tasks = {}
    /\ lastBlockHeight = [s \in Conns |-> 0]
    /\ validJobs = [s \in Conns |-> <<>>]
    /\ jobSequence = 0
    /\ requests = [s \in Conns |-> 0]
    /\ broken = {}
    /\ processed = {} /\ repeated = {}
    /\ offered = [s \in Conns |-> {}]
    /\ FaultsInit

-----------------------------------------------------------------------------
(* monerod: a new tip, one higher or in place of the old one *)

NewTip(up) ==
    /\ latest.prev < MaxTips
    /\ up \/ SameHeight
    /\ latest' = [prev |-> latest.prev + 1,
                  height |-> IF up THEN latest.height + 1 ELSE latest.height]

MineElsewhere ==
    /\ \E up \in BOOLEAN : NewTip(up)
    /\ UNCHANGED <<serverVars, refresher, handlerVars, tasks, jobVars, broken, shareVars, faults>>

-----------------------------------------------------------------------------
(* refreshBlockTemplate *)

At(th, pc) == refresher[th].pc = pc
Move(th, r) == refresher' = [refresher EXCEPT ![th] = r]
MoveTo(th, pc) == Move(th, [refresher[th] EXCEPT !.pc = pc])

(* sessionsMu is free for a writer. *)
NoReader == \A th \in Threads : ~At(th, "spawn")

(* The refresh timer fires. *)
Tick ==
    /\ At("timer", "rest")
    /\ MoveTo("timer", "fetch")
    /\ UNCHANGED <<latest, serverVars, handlerVars, tasks, jobVars, broken, shareVars, faults>>

(* doPost: no answer, an error status, or an answer that is an error *)
CallFails == Fault("rpc")

(* fetchBlockTemplate: the answer of getblocktemplate, or a failure of the *)
(* call or of the checks of the blob, after which nothing is stored.       *)
Fetch(th) ==
    /\ At(th, "fetch")
    /\ \/ Move(th, [Resting EXCEPT !.pc = "compare", !.t = latest]) /\ UNCHANGED faults
       \/ Move(th, Resting) /\ CallFails
    /\ UNCHANGED <<latest, serverVars, handlerVars, tasks, jobVars, broken, shareVars>>

(* fetchBlockTemplate: is it news?  Compared with the template current now *)
IsNews_ByHeight(t) == t.height > template.height
IsNews(t) == t.prev # template.prev

Compare(th) ==
    /\ At(th, "compare")
    /\ IF IsNews(refresher[th].t) THEN MoveTo(th, "store") ELSE Move(th, Resting)
    /\ UNCHANGED <<latest, serverVars, handlerVars, tasks, jobVars, broken, shareVars, faults>>

(* fetchBlockTemplate: s.blockTemplate.Store *)
Store(th) ==
    /\ At(th, "store")
    /\ template' = refresher[th].t
    /\ IF th = "start" THEN Move(th, Resting) ELSE MoveTo(th, "load")
    /\ UNCHANGED <<latest, sessions, miners, handlerVars, tasks, jobVars, broken, shareVars, faults>>

(* broadcastNewJobs: currentBlockTemplate, then RLock *)
Load(th) ==
    /\ At(th, "load")
    /\ Move(th, [refresher[th] EXCEPT !.pc = "lock", !.t = template])
    /\ UNCHANGED <<latest, serverVars, handlerVars, tasks, jobVars, broken, shareVars, faults>>

RLock(th) ==
    /\ At(th, "lock")
    /\ Move(th, [refresher[th] EXCEPT !.pc = "spawn", !.left = sessions])
    /\ UNCHANGED <<latest, serverVars, handlerVars, tasks, jobVars, broken, shareVars, faults>>

(* How many values are in the channel of a broadcast. *)
InChannel(th) == Cardinality({k \in tasks : k.from = th})

(* broadcastNewJobs: bcast <- n, and a goroutine for the next session *)
Spawn(th, s) ==
    /\ At(th, "spawn") /\ s \in refresher[th].left
    /\ InChannel(th) < ChanCap
    /\ Start(s, refresher[th].t, th)
    /\ Move(th, [refresher[th] EXCEPT !.left = @ \ {s}])
    /\ UNCHANGED <<latest, serverVars, handlerVars, jobVars, broken, shareVars, faults>>

(* The loop is over: the tasks go on without the broadcast. *)
RUnlock(th) ==
    /\ At(th, "spawn") /\ refresher[th].left = {}
    /\ Move(th, Resting)
    /\ tasks' = {IF k.from = th THEN [k EXCEPT !.from = "alone"] ELSE k : k \in tasks}
    /\ UNCHANGED <<latest, serverVars, handlerVars, jobVars, broken, shareVars, faults>>

Refresh(th) ==
    \/ Fetch(th) \/ Compare(th) \/ Store(th) \/ Load(th) \/ RLock(th) \/ RUnlock(th)
    \/ \E s \in Conns : Spawn(th, s)

-----------------------------------------------------------------------------
(* Writing to a connection fails once it has failed or has been closed. *)

Delivered(s) == s \notin broken /\ UNCHANGED <<broken, faults>>
Undelivered(s) ==
    \/ s \in broken /\ UNCHANGED <<broken, faults>>
    \/ s \notin broken /\ Fault("send") /\ broken' = broken \cup {s}

Handle(s, h) == handler' = [handler EXCEPT ![s] = h] /\ UNCHANGED requests

(* The handler has read a login or getjob request. *)
Begin(s, h) ==
    /\ handler[s].pc = "read" /\ requests[s] < MaxRequests
    /\ handler' = [handler EXCEPT ![s] = h]
    /\ requests' = [requests EXCEPT ![s] = @ + 1]

(* The handler has answered and reads the next request, or, if it could    *)
(* not answer, leaves its loop.                                            *)
Answer(s) ==
    \/ Delivered(s) /\ Handle(s, Reading)
    \/ Undelivered(s) /\ Handle(s, [Reading EXCEPT !.pc = "close"])

-----------------------------------------------------------------------------
(* getJob and the message that carries its result *)

Replace(k, new) == tasks' = (tasks \ {k}) \cup {new}
Continue(k, pc) == Replace(k, [k EXCEPT !.pc = pc])

(* getJob: has the session had a job at this height?  It gets an empty one *)
SameHeightAgain_OrHigher(k) == lastBlockHeight[k.cs] >= k.t.height
SameHeightAgain(k) == lastBlockHeight[k.cs] = k.t.height

(* getJob: atomic.SwapInt64 *)
Swap(k) ==
    /\ k.pc = "swap"
    /\ lastBlockHeight' = [lastBlockHeight EXCEPT ![k.cs] = k.t.height]
    /\ Continue(k, IF SameHeightAgain(k) THEN "send" ELSE "push")
    /\ UNCHANGED <<latest, serverVars, refresher, handlerVars, validJobs, jobSequence, offered,
                   broken, shareVars, faults>>

(* getJob: a job with the next extraNonce and id *)
NewJob_Repeats(t) == [id |-> 1, t |-> t, submissions |-> {}]
NewJob(t) == [id |-> jobSequence + 1, t |-> t, submissions |-> {}]

(* pushJob *)
Remembered_All(jobs) == jobs
Remembered_Oldest(jobs) == IF Len(jobs) > MaxJobs THEN SubSeq(jobs, 1, MaxJobs) ELSE jobs
Remembered(jobs) == IF Len(jobs) > MaxJobs THEN Tail(jobs) ELSE jobs

PushJob(k) ==
    /\ k.pc = "push"
    /\ jobSequence' = jobSequence + 1
    /\ validJobs' = [validJobs EXCEPT ![k.cs] = Remembered(Append(@, NewJob(k.t)))]
    /\ offered' = [offered EXCEPT ![k.cs] = @ \cup {k.t.height}]
    /\ Continue(k, "send")
    /\ UNCHANGED <<latest, serverVars, refresher, handlerVars, lastBlockHeight, broken, shareVars,
                   faults>>

(* A goroutine of a broadcast leaves the channel before it removes a       *)
(* session it could not write to.                                          *)
After_RemoveFirst(k) ==
    IF k.pc = "recv" THEN "done" ELSE IF k.pc = "send" /\ k.err THEN "remove" ELSE "recv"
After(k) ==
    IF k.pc = "send" THEN "recv" ELSE IF k.pc = "recv" /\ k.err THEN "remove" ELSE "done"

Leave(k, new) == IF After(new) = "done" THEN tasks' = tasks \ {k}
                                        ELSE Replace(k, [new EXCEPT !.pc = After(new)])

(* pushMessage *)
Push(k) ==
    /\ k.pc = "send" /\ k.from # "reply"
    /\ \/ Delivered(k.cs) /\ Leave(k, k)
       \/ Undelivered(k.cs) /\ Leave(k, [k EXCEPT !.err = TRUE])
    /\ UNCHANGED <<latest, serverVars, refresher, handlerVars, jobVars, shareVars>>

(* <-bcast *)
Receive(k) ==
    /\ k.pc = "recv"
    /\ Leave(k, IF k.err THEN [k EXCEPT !.from = "alone"] ELSE k)
    /\ UNCHANGED <<latest, serverVars, refresher, handlerVars, jobVars, broken, shareVars, faults>>

(* removeSession after a failed push *)
RemoveFailed(k) ==
    /\ k.pc = "remove" /\ NoReader
    /\ sessions' = sessions \ {k.cs}
    /\ Leave(k, k)
    /\ UNCHANGED <<latest, template, miners, refresher, handlerVars, jobVars, broken, shareVars,
                   faults>>

(* sendResult of login and getjob *)
Reply(k) ==
    /\ k.pc = "send" /\ k.from = "reply"
    /\ tasks' = tasks \ {k}
    /\ Answer(k.cs)
    /\ UNCHANGED <<latest, serverVars, refresher, jobVars, shareVars>>

TaskStep(k) == Swap(k) \/ PushJob(k) \/ Push(k) \/ Receive(k) \/ RemoveFailed(k) \/ Reply(k)

-----------------------------------------------------------------------------
(* handleClient: requests *)

(* handleLoginRPC up to registerSession: the template is read first. *)
Login(s) ==
    /\ template # NoTemplate
    /\ Begin(s, [Reading EXCEPT !.pc = "register", !.t = template])
    /\ miners' = TRUE
    /\ UNCHANGED <<latest, template, sessions, refresher, tasks, jobVars, broken, shareVars,
                   faults>>

(* registerSession, then getJob with the template read before *)
Register(s) ==
    /\ handler[s].pc = "register" /\ NoReader
    /\ sessions' = sessions \cup {s}
    /\ Handle(s, [Reading EXCEPT !.pc = "wait"])
    /\ Start(s, handler[s].t, "reply")
    /\ UNCHANGED <<latest, template, miners, refresher, jobVars, broken, shareVars, faults>>

(* handleGetJobRPC: the id may be that of any miner. *)
GetJob(s) ==
    /\ miners /\ template # NoTemplate
    /\ Begin(s, [Reading EXCEPT !.pc = "wait"])
    /\ Start(s, template, "reply")
    /\ UNCHANGED <<latest, serverVars, refresher, jobVars, broken, shareVars, faults>>

(* handleSubmitRPC: findJob, which finds any remembered job (FindJob is    *)
(* where they are), and job.submit.  An unknown job or a nonce             *)
(* submitted before is answered with an error and changes nothing.         *)
FindJob(s) == DOMAIN validJobs[s]

WithSubmission(job, nonce) == [job EXCEPT !.submissions = @ \cup {nonce}]

Submit(s, i, nonce) ==
    LET job == validJobs[s][i] IN
    /\ handler[s].pc = "read" /\ miners
    /\ nonce \notin job.submissions
    /\ validJobs' = [validJobs EXCEPT ![s][i] = WithSubmission(job, nonce)]
    /\ Handle(s, [pc |-> "check", t |-> NoTemplate, job |-> [job EXCEPT !.submissions = {nonce}]])
    /\ UNCHANGED <<latest, serverVars, refresher, tasks, lastBlockHeight, jobSequence, offered,
                   broken, shareVars, faults>>

Stale(job) == job.t.height # template.height

(* The hash is computed over the blob of the template current now. *)
BadHash(job) == job.t.prev # template.prev

(* handleSubmitRPC and processShare up to the verdict: the share is stale, *)
(* or its hash is not the miner's, or its difficulty is too low.           *)
Refuse(s) ==
    /\ handler[s].pc = "check"
    /\ Answer(s)
    /\ UNCHANGED <<latest, serverVars, refresher, tasks, jobVars, shareVars>>

Good(s) == handler[s].pc = "check" /\ ~Stale(handler[s].job) /\ ~BadHash(handler[s].job)

Use(job) ==
    LET p == PoW(job, CHOOSE nonce \in job.submissions : TRUE) IN
    /\ processed' = processed \cup {p}
    /\ repeated' = repeated \cup ({p} \cap processed)

(* processShare: a share, given to WriteShare *)
AcceptShare(s) ==
    /\ Good(s)
    /\ Use(handler[s].job)
    /\ Answer(s)
    /\ UNCHANGED <<latest, serverVars, refresher, tasks, jobVars>>

(* processShare: a block; the template it was checked against is kept. *)
FindBlock(s) ==
    /\ Good(s) /\ template.prev < MaxTips
    /\ Handle(s, [handler[s] EXCEPT !.pc = "block", !.t = template])
    /\ UNCHANGED <<latest, serverVars, refresher, tasks, jobVars, broken, shareVars, faults>>

(* processShare: SubmitBlock, WriteBlock and refreshBlockTemplate(true).   *)
(* The block is a new tip unless there already is one.  WriteBlock says    *)
(* exist, and nothing follows, if the proof of work was used before.       *)
SubmitBlock(s) ==
    LET h == handler[s] IN
    /\ h.pc = "block"
    /\ \/ /\ IF h.t.prev = latest.prev THEN NewTip(TRUE) ELSE UNCHANGED latest
          /\ Use(h.job)
          /\ IF repeated' = repeated
             THEN Move(s, [Resting EXCEPT !.pc = "fetch"]) /\ Handle(s, [h EXCEPT !.pc = "refresh"])
             ELSE Handle(s, [h EXCEPT !.pc = "answer"]) /\ UNCHANGED refresher
          /\ UNCHANGED faults
       \/ /\ CallFails
          /\ Handle(s, [h EXCEPT !.pc = "answer"])
          /\ UNCHANGED <<latest, refresher, shareVars>>
    /\ UNCHANGED <<serverVars, tasks, jobVars, broken>>

AnswerSubmit(s) ==
    /\ handler[s].pc = "answer" \/ (handler[s].pc = "refresh" /\ At(s, "rest"))
    /\ Answer(s)
    /\ UNCHANGED <<latest, serverVars, refresher, tasks, jobVars, shareVars>>

(* The loop ends: end of file, a timeout, a malformed request, or an error *)
(* answer to login or getjob.                                              *)
Drop(s) ==
    /\ handler[s].pc = "read"
    /\ Handle(s, [Reading EXCEPT !.pc = "close"])
    /\ UNCHANGED <<latest, serverVars, refresher, tasks, jobVars, broken, shareVars, faults>>

(* removeSession and Close *)
Close(s) ==
    /\ handler[s].pc = "close" /\ NoReader
    /\ sessions' = sessions \ {s}
    /\ broken' = broken \cup {s}
    /\ Handle(s, [Reading EXCEPT !.pc = "closed"])
    /\ UNCHANGED <<latest, template, miners, refresher, tasks, jobVars, shareVars, faults>>

(* What a handler does once it has a request; the client decides the rest. *)
HandlerStep(s) ==
    \/ Register(s) \/ Refuse(s) \/ AcceptShare(s) \/ FindBlock(s) \/ SubmitBlock(s)
    \/ AnswerSubmit(s) \/ Close(s)

Request(s) ==
    \/ Login(s) \/ GetJob(s) \/ Drop(s)
    \/ \E i \in FindJob(s), nonce \in Nonces : Submit(s, i, nonce)

Next ==
    \/ MineElsewhere \/ Tick
    \/ \E th \in Threads : Refresh(th)
    \/ \E k \in tasks : TaskStep(k)
    \/ \E s \in Conns : HandlerStep(s) \/ Request(s)

Spec == Init /\ [][Next]_vars

(* Fairness.  Goroutines run, the refresh timer is reset after every       *)
(* refresh, and calls to monerod and writes to sockets end, as they have   *)
(* timeouts and deadlines.  Nothing is assumed of clients.                 *)
Fairness ==
    /\ WF_vars(Tick)
    /\ \A th \in Threads : WF_vars(Refresh(th))
    /\ \A s \in Conns :
          /\ \A n \in Slots : WF_vars(\E k \in tasks : k.cs = s /\ k.n = n /\ TaskStep(k))
          /\ WF_vars(HandlerStep(s))

FairSpec == Spec /\ Fairness

-----------------------------------------------------------------------------
(* Types *)
TypeOK ==
    /\ latest \in Template
    /\ template \in Template \cup {NoTemplate}
    /\ refresher \in [Threads -> [pc : {"rest", "fetch", "compare", "store", "load", "lock", "spawn"},
                                  t : Template \cup {NoTemplate}, left : SUBSET Conns]]
    /\ sessions \subseteq Conns /\ miners \in BOOLEAN /\ broken \subseteq Conns
    /\ handler \in [Conns -> [pc : {"read", "register", "wait", "check", "block", "refresh",
                                    "answer", "close", "closed"},
                              t : Template \cup {NoTemplate}, job : Job \cup {NoJob}]]
    /\ requests \in [Conns -> 0 .. MaxRequests]
    /\ tasks \subseteq Task
    /\ lastBlockHeight \in [Conns -> 0 .. MaxTips]
    /\ validJobs \in [Conns -> Seq(Job)] /\ \A s \in Conns : Len(validJobs[s]) =< MaxJobs
    /\ jobSequence \in Nat
    /\ processed \subseteq (1 .. MaxTips) \X Nat \X Nonces
    /\ repeated \subseteq processed
    /\ offered \in [Conns -> SUBSET (1 .. MaxTips)]
    /\ faults \in 0 .. MaxFaults

(* A session whose next job would be empty, because it has had one at this *)
(* height, can still submit to that job: however broadcasts, logins and    *)
(* getjob calls overlap, pushJob has not evicted it.  (Not more than       *)
(* MaxJobs of them, that is.)                                              *)
GivenJobFindable ==
    \A s \in Conns :
        (\A k \in tasks : k.cs = s => k.pc # "push") /\ lastBlockHeight[s] # 0 =>
            \E i \in DOMAIN validJobs[s] : validJobs[s][i].t.height = lastBlockHeight[s]

(* No proof of work is given to WriteShare or WriteBlock twice: jobs never *)
(* share an extraNonce, and job.submit refuses a nonce that is repeated.   *)
ProcessedOnce == repeated = {}

(* Every broadcast comes to its end, and releases sessionsMu: although it  *)
(* holds the lock while the channel is full, the goroutines that empty the *)
(* channel never wait for the lock before they have done so.               *)
BroadcastEnds == \A th \in Threads : At(th, "spawn") ~> At(th, "rest")

(* Once the tip stops changing the template is that of the tip, although a *)
(* slow refresh may store an older one over it in between.                 *)
TemplateCatchesUp == <>[](template = latest)

(* Every session that a broadcast finds gets a job at the height of the    *)
(* broadcast, or has had one, even if jobs of other heights overtake it.   *)
BroadcastReaches ==
    \A s \in Conns, h \in 1 .. MaxTips :
        (\E th \in Threads : At(th, "spawn") /\ s \in refresher[th].left
                                             /\ refresher[th].t.height = h)
            ~> (h \in offered[s])

(* A session in the pool gets a job at the height of the current template  *)
(* ("Immediately refresh current BT and send new jobs"), unless the height *)
(* changes or the session ends first.                                      *)
NewJobsSent ==
    \A s \in Conns, h \in 1 .. MaxTips :
        (s \in sessions /\ template.height = h)
            ~> (h \in offered[s] \/ template.height # h \/ s \notin sessions)
=============================================================================
