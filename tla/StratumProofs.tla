--------------------------- MODULE StratumProofs ---------------------------
(***************************************************************************)
(* For any number of connections, jobs and templates: types, that no proof *)
(* of work is used twice, and that a session can submit to the job it was  *)
(* last given.                                                             *)
(***************************************************************************)
EXTENDS Stratum, FiniteSetTheorems, TLAPS

(* A refresh has a template from the call to monerod until the broadcast   *)
(* is over, and broadcasts only what was stored.                           *)
ThreadInv ==
    \A th \in Threads :
        /\ refresher[th].pc \in {"compare", "store", "lock", "spawn"} => refresher[th].t \in Template
        /\ refresher[th].pc = "load" => template \in Template

(* A login has a template, and a submission a job and one nonce. *)
Nonced(job) == job \in Job /\ \E nonce \in Nonces : job.submissions = {nonce}
HandlerInv ==
    \A s \in Conns :
        /\ handler[s].pc = "register" => handler[s].t \in Template
        /\ handler[s].pc \in {"check", "block"} => Nonced(handler[s].job)

(* The chain cannot grow higher than it has tips. *)
TypeInv == TypeOK /\ latest.height =< latest.prev /\ ThreadInv /\ HandlerInv

(* No two jobs, of one session or of two, have one id. *)
IdsDiffer ==
    \A s, r \in Conns : \A i \in DOMAIN validJobs[s], j \in DOMAIN validJobs[r] :
        validJobs[s][i].id = validJobs[r][j].id => s = r /\ i = j

Checking(s) == handler[s].pc \in {"check", "block"}

(* A proof of work, by the id of its job and its nonce, is spent if every  *)
(* job with that id refuses the nonce.                                     *)
Spent(id, nonce) ==
    /\ id =< jobSequence
    /\ \A s \in Conns : \A i \in DOMAIN validJobs[s] :
          validJobs[s][i].id = id => nonce \in validJobs[s][i].submissions

UseInv ==
    /\ ProcessedOnce
    /\ IdsDiffer
    /\ \A s \in Conns : \A i \in DOMAIN validJobs[s] : validJobs[s][i].id =< jobSequence
    /\ \A p \in processed : Spent(p[2], p[3])
    /\ \A s \in Conns : Checking(s) =>
          \A nonce \in handler[s].job.submissions :
             /\ Spent(handler[s].job.id, nonce)
             /\ \A p \in processed : p[2] = handler[s].job.id => p[3] # nonce
             /\ \A r \in Conns : r # s /\ Checking(r) /\ handler[r].job.id = handler[s].job.id =>
                   nonce \notin handler[r].job.submissions

(* The calls of a session that are about to push a job *)
Pushing(s) == {k \in tasks : k.cs = s /\ k.pc = "push"}
Calling(s) == {k \in tasks : k.cs = s /\ k.pc \in {"swap", "push", "send"}}

(* The job of the height a session had last is about to be pushed, or is   *)
(* remembered and stays so whatever is pushed by the calls under way.      *)
Lasting(s) ==
    \/ \E k \in Pushing(s) : k.t.height = lastBlockHeight[s]
    \/ \E i \in DOMAIN validJobs[s] :
          /\ validJobs[s][i].t.height = lastBlockHeight[s]
          /\ Len(validJobs[s]) - i + Cardinality(Pushing(s)) < MaxJobs

JobInv ==
    /\ IsFiniteSet(tasks)
    /\ \A s \in Conns : Cardinality(Calling(s)) =< MaxCalls
    /\ \A s \in Conns : lastBlockHeight[s] # 0 => Lasting(s)

-----------------------------------------------------------------------------
(* Types *)

Refreshers == [pc : {"rest", "fetch", "compare", "store", "load", "lock", "spawn"},
               t : Template \cup {NoTemplate}, left : SUBSET Conns]
Handlers == [pc : {"read", "register", "wait", "check", "block", "refresh", "answer",
                   "close", "closed"},
             t : Template \cup {NoTemplate}, job : Job \cup {NoJob}]

(* The parts of TypeInv, by the variables that a step changes together     *)
ServerInv ==
    /\ latest \in Template /\ latest.height =< latest.prev
    /\ template \in Template \cup {NoTemplate}
    /\ sessions \subseteq Conns /\ miners \in BOOLEAN /\ broken \subseteq Conns
RefreshInv == refresher \in [Threads -> Refreshers] /\ ThreadInv
RequestInv ==
    /\ handler \in [Conns -> Handlers] /\ HandlerInv
    /\ requests \in [Conns -> 0 .. MaxRequests]
TaskInv == tasks \subseteq Task
MemoryInv ==
    /\ lastBlockHeight \in [Conns -> 0 .. MaxTips]
    /\ validJobs \in [Conns -> Seq(Job)] /\ \A s \in Conns : Len(validJobs[s]) =< MaxJobs
    /\ jobSequence \in Nat
    /\ offered \in [Conns -> SUBSET (1 .. MaxTips)]
HistoryInv ==
    /\ processed \subseteq (1 .. MaxTips) \X Nat \X Nonces
    /\ repeated \subseteq processed

LEMMA TypeParts ==
    /\ TypeInv <=> /\ ServerInv /\ RefreshInv /\ RequestInv /\ TaskInv /\ MemoryInv
                   /\ HistoryInv /\ faults \in 0 .. MaxFaults
    /\ TypeInv' <=> /\ ServerInv' /\ RefreshInv' /\ RequestInv' /\ TaskInv' /\ MemoryInv'
                    /\ HistoryInv' /\ faults' \in 0 .. MaxFaults
BY DEF TypeInv, TypeOK, ServerInv, RefreshInv, RequestInv, TaskInv, MemoryInv, HistoryInv,
   Refreshers, Handlers

(* Groups of variables that a step leaves alone *)
LEMMA SameParts ==
    ASSUME TypeInv
    PROVE  /\ UNCHANGED <<latest, serverVars, broken>> => ServerInv'
           /\ UNCHANGED <<template, refresher>> => RefreshInv'
           /\ UNCHANGED handlerVars => RequestInv'
           /\ UNCHANGED tasks => TaskInv'
           /\ UNCHANGED jobVars => MemoryInv'
           /\ UNCHANGED shareVars => HistoryInv'
           /\ UNCHANGED faults => faults' \in 0 .. MaxFaults
<1>1. /\ ServerInv /\ RefreshInv /\ RequestInv /\ TaskInv /\ MemoryInv /\ HistoryInv
      /\ faults \in 0 .. MaxFaults
  BY TypeParts
<1>2. UNCHANGED <<latest, serverVars, broken>> => ServerInv'
  BY <1>1 DEF serverVars, ServerInv
<1>3. UNCHANGED <<template, refresher>> => RefreshInv'
  BY <1>1 DEF RefreshInv, ThreadInv
<1>4. UNCHANGED handlerVars => RequestInv'
  BY <1>1 DEF handlerVars, RequestInv, HandlerInv
<1>5. UNCHANGED tasks => TaskInv'
  BY <1>1 DEF TaskInv
<1>6. UNCHANGED jobVars => MemoryInv'
  BY <1>1 DEF jobVars, MemoryInv
<1>7. UNCHANGED shareVars => HistoryInv'
  BY <1>1 DEF shareVars, HistoryInv
<1>8. QED
  BY <1>1, <1>2, <1>3, <1>4, <1>5, <1>6, <1>7

LEMMA Templates ==
    /\ [prev |-> 1, height |-> 1] \in Template
    /\ NoTemplate \notin Template
    /\ Resting \in Refreshers /\ Reading \in Handlers
BY StratumAssumption DEF Template, NoTemplate, Resting, Reading, Refreshers, Handlers

LEMMA NewTipType ==
    ASSUME TypeInv, NEW up \in BOOLEAN, NewTip(up)
    PROVE  latest' \in Template /\ latest'.height =< latest'.prev
BY StratumAssumption DEF TypeInv, TypeOK, NewTip, Template

LEMMA FaultsType ==
    ASSUME TypeInv, NEW kind, Fault(kind)
    PROVE  faults' \in 0 .. MaxFaults
BY FaultsAssumption DEF TypeInv, TypeOK, Fault

(* The goroutine th of a refresh goes on as r. *)
LEMMA MoveType ==
    ASSUME TypeInv, NEW th \in Threads, NEW r \in Refreshers, Move(th, r), UNCHANGED template,
           r.pc \in {"compare", "store", "lock", "spawn"} => r.t \in Template,
           r.pc = "load" => template \in Template
    PROVE  RefreshInv'
<1>1. refresher \in [Threads -> Refreshers] /\ ThreadInv
  BY TypeParts DEF RefreshInv
<1>2. refresher' = [refresher EXCEPT ![th] = r]
  BY DEF Move
<1>3. QED
  BY <1>1, <1>2 DEF RefreshInv, ThreadInv

(* The handler of s goes on as h. *)
LEMMA HandleType ==
    ASSUME TypeInv, NEW s \in Conns, NEW h \in Handlers,
           Handle(s, h) \/ Begin(s, h),
           h.pc = "register" => h.t \in Template,
           h.pc \in {"check", "block"} => Nonced(h.job)
    PROVE  RequestInv'
<1>1. handler \in [Conns -> Handlers] /\ HandlerInv /\ requests \in [Conns -> 0 .. MaxRequests]
  BY TypeParts DEF RequestInv
<1>2. requests' \in [Conns -> 0 .. MaxRequests]
  BY <1>1, StratumAssumption DEF Handle, Begin
<1>3. handler' = [handler EXCEPT ![s] = h]
  BY DEF Handle, Begin
<1>4. QED
  BY <1>1, <1>2, <1>3 DEF RequestInv, HandlerInv

LEMMA AnswerType ==
    ASSUME TypeInv, NEW s \in Conns, Answer(s)
    PROVE  /\ RequestInv' /\ faults' \in 0 .. MaxFaults /\ broken' \subseteq Conns
           /\ \/ handler' = [handler EXCEPT ![s] = Reading]
              \/ handler' = [handler EXCEPT ![s] = [Reading EXCEPT !.pc = "close"]]
<1>1. [Reading EXCEPT !.pc = "close"] \in Handlers
  BY DEF Reading, Handlers
<1>2. \/ Handle(s, Reading)
      \/ Handle(s, [Reading EXCEPT !.pc = "close"])
  BY DEF Answer
<1>3. RequestInv'
  BY <1>1, <1>2, HandleType, Templates DEF Reading
<1>4. faults' \in 0 .. MaxFaults /\ broken' \subseteq Conns
  BY SameParts, FaultsType, TypeParts DEF Answer, Delivered, Undelivered, ServerInv
<1>5. QED
  BY <1>2, <1>3, <1>4 DEF Handle

(* A call begins: its number is free, and not above the bound. *)
LEMMA StartType ==
    ASSUME TypeInv, NEW s \in Conns, NEW t \in Template, NEW from \in Threads \cup {"reply"},
           Start(s, t, from)
    PROVE  TaskInv'
<1>1. tasks \subseteq Task
  BY TypeParts DEF TaskInv
<1>2. PICK n \in Slots :
        tasks' = tasks \cup {[n |-> n, cs |-> s, t |-> t, from |-> from, pc |-> "swap",
                              err |-> FALSE]}
  BY DEF Start
<1>3. [n |-> n, cs |-> s, t |-> t, from |-> from, pc |-> "swap", err |-> FALSE] \in Task
  BY DEF Task
<1>4. QED
  BY <1>1, <1>2, <1>3 DEF TaskInv

(* A call goes on, without its fields but the last three changing. *)
LEMMA TaskType ==
    ASSUME TypeInv, NEW k \in tasks
    PROVE  /\ k \in Task
           /\ \A pc \in {"swap", "push", "send", "recv", "remove"} :
                 Continue(k, pc) => TaskInv'
           /\ \A new \in {k, [k EXCEPT !.err = TRUE], [k EXCEPT !.from = "alone"]} :
                 Leave(k, new) => TaskInv'
<1>1. k \in Task /\ tasks \subseteq Task
  BY TypeParts DEF TaskInv
<1>2. ASSUME NEW pc \in {"swap", "push", "send", "recv", "remove"}, NEW new \in Task
      PROVE  [new EXCEPT !.pc = pc] \in Task
  BY DEF Task
<1>3. ASSUME NEW new \in Task, Replace(k, new)
      PROVE  TaskInv'
  BY <1>1, <1>3 DEF Replace, TaskInv
<1>4. ASSUME NEW new \in Task, Leave(k, new)
      PROVE  TaskInv'
  <2>1. CASE After(new) = "done"
    BY <1>1, <1>4, <2>1 DEF Leave, TaskInv
  <2>2. CASE After(new) # "done"
    <3>1. After(new) \in {"swap", "push", "send", "recv", "remove"}
      BY <2>2 DEF After
    <3>2. Replace(k, [new EXCEPT !.pc = After(new)])
      BY <1>4, <2>2 DEF Leave
    <3>3. QED
      BY <1>2, <1>3, <3>1, <3>2
  <2>3. QED
    BY <2>1, <2>2
<1>5. [k EXCEPT !.err = TRUE] \in Task /\ [k EXCEPT !.from = "alone"] \in Task
  BY <1>1 DEF Task
<1>6. QED
  BY <1>1, <1>2, <1>3, <1>4, <1>5 DEF Continue

LEMMA RefreshType ==
    ASSUME TypeInv, NEW th \in Threads, Refresh(th)
    PROVE  TypeInv'
<1>1. /\ refresher[th] \in Refreshers
      /\ refresher[th].pc \in {"compare", "store", "lock", "spawn"} => refresher[th].t \in Template
      /\ refresher[th].pc = "load" => template \in Template
      /\ latest \in Template /\ template \in Template \cup {NoTemplate} /\ sessions \subseteq Conns
      /\ Resting \in Refreshers /\ Resting.pc = "rest"
  BY TypeParts, Templates DEF RefreshInv, ServerInv, ThreadInv, Resting
<1> USE SameParts, TypeParts
<1>2. CASE Fetch(th)
  <2> DEFINE r == [Resting EXCEPT !.pc = "compare", !.t = latest]
  <2>1. r \in Refreshers /\ r.pc = "compare" /\ r.t \in Template
    BY <1>1 DEF Resting, Refreshers
  <2>2. Move(th, r) \/ Move(th, Resting)
    BY <1>2 DEF Fetch
  <2> HIDE DEF r
  <2>3. RefreshInv'
    BY <1>1, <1>2, <2>1, <2>2, MoveType DEF Fetch, serverVars
  <2>4. faults' \in 0 .. MaxFaults
    BY <1>2, FaultsType DEF Fetch, CallFails
  <2>5. QED
    BY <1>2, <2>3, <2>4 DEF Fetch
<1>3. CASE Compare(th)
  <2> DEFINE r == [refresher[th] EXCEPT !.pc = "store"]
  <2>1. r \in Refreshers /\ r.pc = "store" /\ r.t = refresher[th].t
    BY <1>1 DEF Refreshers
  <2>2. refresher[th].t \in Template /\ (Move(th, r) \/ Move(th, Resting))
    BY <1>1, <1>3 DEF Compare, MoveTo, At
  <2> HIDE DEF r
  <2>3. RefreshInv'
    BY <1>1, <1>3, <2>1, <2>2, MoveType DEF Compare, serverVars
  <2>4. QED
    BY <1>3, <2>3 DEF Compare
<1>4. CASE Store(th)
  <2> DEFINE r == [refresher[th] EXCEPT !.pc = "load"]
             next == IF th = "start" THEN Resting ELSE r
  <2>1. r \in Refreshers /\ r.pc = "load"
    BY <1>1 DEF Refreshers
  <2>2. /\ template' = refresher[th].t /\ template' \in Template
        /\ refresher' = [refresher EXCEPT ![th] = next]
    BY <1>1, <1>4 DEF Store, MoveTo, At, Move
  <2>3. next \in Refreshers /\ next.pc \in {"rest", "load"}
    BY <1>1, <2>1
  <2> HIDE DEF next
  <2>4. RefreshInv'
    BY <2>2, <2>3 DEF RefreshInv, ThreadInv
  <2>5. ServerInv'
    BY <1>4, <2>2 DEF Store, ServerInv
  <2>6. QED
    BY <1>4, <2>4, <2>5 DEF Store
<1>5. CASE Load(th)
  <2> DEFINE r == [refresher[th] EXCEPT !.pc = "lock", !.t = template]
  <2>1. r \in Refreshers /\ r.pc = "lock" /\ r.t = template /\ template \in Template
    BY <1>1, <1>5 DEF Refreshers, Load, At
  <2>2. Move(th, r)
    BY <1>5 DEF Load
  <2> HIDE DEF r
  <2>3. RefreshInv'
    BY <1>5, <2>1, <2>2, MoveType DEF Load, serverVars
  <2>4. QED
    BY <1>5, <2>3 DEF Load
<1>6. CASE RLock(th)
  <2> DEFINE r == [refresher[th] EXCEPT !.pc = "spawn", !.left = sessions]
  <2>1. r \in Refreshers /\ r.pc = "spawn" /\ r.t = refresher[th].t /\ r.t \in Template
    BY <1>1, <1>6 DEF Refreshers, RLock, At
  <2>2. Move(th, r)
    BY <1>6 DEF RLock
  <2> HIDE DEF r
  <2>3. RefreshInv'
    BY <1>6, <2>1, <2>2, MoveType DEF RLock, serverVars
  <2>4. QED
    BY <1>6, <2>3 DEF RLock
<1>7. ASSUME NEW s \in Conns, Spawn(th, s)
      PROVE  TypeInv'
  <2> DEFINE r == [refresher[th] EXCEPT !.left = @ \ {s}]
  <2>1. /\ r \in Refreshers /\ r.pc = "spawn" /\ r.t = refresher[th].t
        /\ refresher[th].t \in Template
    BY <1>1, <1>7 DEF Refreshers, Spawn, At
  <2>2. Move(th, r) /\ Start(s, refresher[th].t, th)
    BY <1>7 DEF Spawn
  <2> HIDE DEF r
  <2>3. RefreshInv'
    BY <1>7, <2>1, <2>2, MoveType DEF Spawn, serverVars
  <2>4. TaskInv'
    BY <2>1, <2>2, StartType
  <2>5. QED
    BY <1>7, <2>3, <2>4 DEF Spawn
<1>8. CASE RUnlock(th)
  <2>1. RefreshInv'
    BY <1>1, <1>8, MoveType DEF RUnlock, serverVars
  <2>2. TaskInv'
    BY <1>8 DEF RUnlock, TaskInv, Task
  <2>3. QED
    BY <1>8, <2>1, <2>2 DEF RUnlock
<1>9. QED
  BY <1>2, <1>3, <1>4, <1>5, <1>6, <1>7, <1>8 DEF Refresh

(* What pushJob leaves of the jobs of a session: the new one is the last,  *)
(* and of the others at most the first is gone.                            *)
LEMMA RememberedJobs ==
    ASSUME NEW q \in Seq(Job), Len(q) =< MaxJobs, NEW e \in Job
    PROVE  LET r == Remembered(Append(q, e))
               d == Len(q) + 1 - Len(r)
           IN /\ r \in Seq(Job) /\ Len(r) \in 1 .. MaxJobs /\ d \in {0, 1}
              /\ d = 1 => Len(r) = MaxJobs
              /\ r[Len(r)] = e
              /\ \A i \in 1 .. Len(r) - 1 : i + d \in 1 .. Len(q) /\ r[i] = q[i + d]
<1> DEFINE a == Append(q, e)
           r == Remembered(a)
           d == Len(q) + 1 - Len(r)
<1>1. /\ a \in Seq(Job) /\ Len(a) = Len(q) + 1 /\ a[Len(a)] = e
      /\ \A i \in 1 .. Len(q) : a[i] = q[i]
      /\ Len(q) \in Nat /\ MaxJobs \in Nat \ {0}
  BY StratumAssumption
<1>2. r = IF Len(a) > MaxJobs THEN Tail(a) ELSE a
  BY DEF Remembered
<1>3. /\ r \in Seq(Job) /\ Len(r) \in 1 .. MaxJobs /\ d \in {0, 1}
      /\ d = 1 => Len(r) = MaxJobs
      /\ r[Len(r)] = e
      /\ \A i \in 1 .. Len(r) - 1 : i + d \in 1 .. Len(q) /\ r[i] = q[i + d]
  <2> HIDE DEF a, r
  <2>1. CASE Len(a) > MaxJobs
    <3>1. /\ r \in Seq(Job) /\ Len(r) = Len(a) - 1
          /\ \A i \in 1 .. Len(r) : r[i] = a[i + 1]
      BY <1>1, <1>2, <2>1
    <3>2. QED
      BY <1>1, <2>1, <3>1
  <2>2. CASE ~(Len(a) > MaxJobs)
    BY <1>1, <1>2, <2>2
  <2>3. QED
    BY <2>1, <2>2
<1>4. QED
  BY <1>3

LEMMA NewJobType ==
    ASSUME TypeInv, NEW t \in Template
    PROVE  NewJob(t) \in Job
BY TypeParts DEF MemoryInv, NewJob, Job

LEMMA TaskStepType ==
    ASSUME TypeInv, NEW k \in tasks, TaskStep(k)
    PROVE  TypeInv'
<1> USE SameParts, TypeParts
<1>1. k \in Task /\ k.cs \in Conns /\ k.t \in Template /\ k.t.height \in 1 .. MaxTips
  BY TaskType DEF Task, Template
<1>2. CASE Swap(k)
  <2>1. MemoryInv'
    BY <1>1, <1>2 DEF Swap, MemoryInv
  <2>2. TaskInv'
    BY <1>2, TaskType DEF Swap
  <2>3. QED
    BY <1>2, <2>1, <2>2 DEF Swap, serverVars
<1>3. CASE PushJob(k)
  <2> DEFINE q == validJobs[k.cs]
             r == Remembered(Append(q, NewJob(k.t)))
  <2>1. q \in Seq(Job) /\ Len(q) =< MaxJobs /\ NewJob(k.t) \in Job
    BY <1>1, NewJobType DEF MemoryInv
  <2>2. r \in Seq(Job) /\ Len(r) =< MaxJobs
    <3> HIDE DEF q
    <3>1. QED
      BY <2>1, StratumAssumption, RememberedJobs
  <2>3. validJobs' = [validJobs EXCEPT ![k.cs] = r]
    BY <1>3 DEF PushJob
  <2> HIDE DEF r
  <2>4. /\ jobSequence' = jobSequence + 1 /\ lastBlockHeight' = lastBlockHeight
        /\ offered' = [offered EXCEPT ![k.cs] = @ \cup {k.t.height}]
    BY <1>3 DEF PushJob
  <2>5. MemoryInv'
    BY <1>1, <2>2, <2>3, <2>4 DEF MemoryInv
  <2>6. TaskInv'
    BY <1>3, TaskType DEF PushJob
  <2>7. QED
    BY <1>3, <2>5, <2>6 DEF PushJob, serverVars
<1>4. CASE Push(k)
  <2>1. TaskInv'
    BY <1>4, TaskType DEF Push
  <2>2. broken' \subseteq Conns /\ faults' \in 0 .. MaxFaults
    BY <1>1, <1>4, FaultsType DEF Push, Delivered, Undelivered, ServerInv
  <2>3. ServerInv'
    BY <1>4, <2>2 DEF Push, ServerInv, serverVars
  <2>4. QED
    BY <1>4, <2>1, <2>2, <2>3 DEF Push, serverVars
<1>5. CASE Receive(k)
  <2>1. TaskInv'
    BY <1>5, TaskType DEF Receive
  <2>2. QED
    BY <1>5, <2>1 DEF Receive, serverVars
<1>6. CASE RemoveFailed(k)
  <2>1. TaskInv'
    BY <1>6, TaskType DEF RemoveFailed
  <2>2. ServerInv'
    BY <1>6 DEF RemoveFailed, ServerInv
  <2>3. QED
    BY <1>6, <2>1, <2>2 DEF RemoveFailed
<1>7. CASE Reply(k)
  <2>1. TaskInv'
    BY <1>7 DEF Reply, TaskInv
  <2>2. RequestInv' /\ faults' \in 0 .. MaxFaults /\ broken' \subseteq Conns
    BY <1>1, <1>7, AnswerType DEF Reply
  <2>3. ServerInv'
    BY <1>7, <2>2 DEF Reply, ServerInv, serverVars
  <2>4. QED
    BY <1>7, <2>1, <2>2, <2>3 DEF Reply, serverVars
<1>8. QED
  BY <1>2, <1>3, <1>4, <1>5, <1>6, <1>7 DEF TaskStep

(* The nonce of a job that is checked *)
LEMMA UseType ==
    ASSUME TypeInv, NEW job, Nonced(job), Use(job)
    PROVE  /\ HistoryInv'
           /\ \E nonce \in Nonces :
                 /\ job.submissions = {nonce}
                 /\ processed' = processed \cup {PoW(job, nonce)}
                 /\ repeated' = repeated \cup ({PoW(job, nonce)} \cap processed)
<1>1. PICK nonce \in Nonces : job.submissions = {nonce}
  BY DEF Nonced
<1>2. (CHOOSE n \in job.submissions : TRUE) = nonce
  BY <1>1
<1>3. /\ processed' = processed \cup {PoW(job, nonce)}
      /\ repeated' = repeated \cup ({PoW(job, nonce)} \cap processed)
  BY <1>2 DEF Use
<1>4. PoW(job, nonce) \in (1 .. MaxTips) \X Nat \X Nonces
  BY DEF PoW, Nonced, Job, Template
<1>5. HistoryInv'
  BY <1>3, <1>4, TypeParts DEF HistoryInv
<1>6. QED
  BY <1>1, <1>3, <1>5

LEMMA HandlerStepType ==
    ASSUME TypeInv, NEW s \in Conns, HandlerStep(s)
    PROVE  TypeInv'
<1> USE SameParts, TypeParts
<1>1. /\ handler[s] \in Handlers
      /\ handler[s].pc = "register" => handler[s].t \in Template
      /\ handler[s].pc \in {"check", "block"} => Nonced(handler[s].job)
      /\ template \in Template \cup {NoTemplate}
  BY DEF RequestInv, HandlerInv, ServerInv
<1>2. ASSUME NEW pc \in {"wait", "close", "closed"}
      PROVE  [Reading EXCEPT !.pc = pc] \in Handlers /\ [Reading EXCEPT !.pc = pc].pc = pc
  BY Templates DEF Reading, Handlers
<1>3. CASE Register(s)
  <2>1. RequestInv'
    BY <1>2, <1>3, HandleType DEF Register
  <2>2. TaskInv'
    BY <1>1, <1>3, StartType DEF Register
  <2>3. ServerInv'
    BY <1>3 DEF Register, ServerInv
  <2>4. QED
    BY <1>3, <2>1, <2>2, <2>3 DEF Register
<1>4. ASSUME Answer(s), UNCHANGED <<latest, serverVars, refresher, tasks, jobVars>>, HistoryInv'
      PROVE  TypeInv'
  <2>1. RequestInv' /\ faults' \in 0 .. MaxFaults /\ broken' \subseteq Conns
    BY <1>4, AnswerType
  <2>2. ServerInv'
    BY <1>4, <2>1 DEF ServerInv, serverVars
  <2>3. QED
    BY <1>4, <2>1, <2>2 DEF serverVars
<1>5. CASE Refuse(s)
  BY <1>4, <1>5 DEF Refuse
<1>6. CASE AcceptShare(s)
  BY <1>1, <1>4, <1>6, UseType DEF AcceptShare, Good
<1>7. CASE FindBlock(s)
  <2> DEFINE h == [handler[s] EXCEPT !.pc = "block", !.t = template]
  <2>1. h \in Handlers /\ h.pc = "block" /\ Nonced(h.job)
    BY <1>1, <1>7 DEF Handlers, FindBlock, Good
  <2>2. Handle(s, h)
    BY <1>7 DEF FindBlock
  <2> HIDE DEF h
  <2>3. RequestInv'
    BY <2>1, <2>2, HandleType
  <2>4. QED
    BY <1>7, <2>3 DEF FindBlock, serverVars
<1>8. CASE SubmitBlock(s)
  <2> DEFINE h(pc) == [handler[s] EXCEPT !.pc = pc]
  <2>1. h("refresh") \in Handlers /\ h("refresh").pc = "refresh"
    BY <1>1 DEF Handlers
  <2>2. h("answer") \in Handlers /\ h("answer").pc = "answer"
    BY <1>1 DEF Handlers
  <2>3. Handle(s, h("refresh")) \/ Handle(s, h("answer"))
    BY <1>8 DEF SubmitBlock
  <2> HIDE DEF h
  <2>4. RequestInv'
    BY <2>1, <2>2, <2>3, HandleType
  <2>5. latest' \in Template /\ latest'.height =< latest'.prev
    BY <1>8, NewTipType DEF SubmitBlock, ServerInv
  <2>6. ServerInv'
    BY <1>8, <2>5 DEF SubmitBlock, ServerInv, serverVars
  <2>7. HistoryInv'
    BY <1>1, <1>8, UseType DEF SubmitBlock
  <2>8. faults' \in 0 .. MaxFaults
    BY <1>8, FaultsType DEF SubmitBlock, CallFails
  <2>9. RefreshInv'
    <3> DEFINE r == [Resting EXCEPT !.pc = "fetch"]
    <3>1. r \in Refreshers /\ r.pc = "fetch" /\ s \in Threads
      BY Templates DEF Resting, Refreshers, Threads
    <3>2. Move(s, r) \/ UNCHANGED refresher
      BY <1>8 DEF SubmitBlock
    <3> HIDE DEF r
    <3>3. QED
      BY <1>8, <3>1, <3>2, MoveType DEF SubmitBlock, serverVars
  <2>10. QED
    BY <1>8, <2>4, <2>6, <2>7, <2>8, <2>9 DEF SubmitBlock
<1>9. CASE AnswerSubmit(s)
  BY <1>4, <1>9 DEF AnswerSubmit
<1>10. CASE Close(s)
  <2>1. RequestInv'
    BY <1>2, <1>10, HandleType DEF Close
  <2>2. ServerInv'
    BY <1>10 DEF Close, ServerInv
  <2>3. QED
    BY <1>10, <2>1, <2>2 DEF Close
<1>11. QED
  BY <1>3, <1>5, <1>6, <1>7, <1>8, <1>9, <1>10 DEF HandlerStep

LEMMA RequestType ==
    ASSUME TypeInv, NEW s \in Conns, Request(s)
    PROVE  TypeInv'
<1> USE SameParts, TypeParts
<1>1. ASSUME NEW pc \in {"wait", "close"}
      PROVE  [Reading EXCEPT !.pc = pc] \in Handlers /\ [Reading EXCEPT !.pc = pc].pc = pc
  BY Templates DEF Reading, Handlers
<1>2. template \in Template \cup {NoTemplate}
  BY DEF ServerInv
<1>3. CASE Login(s)
  <2>1. template \in Template
    BY <1>2, <1>3 DEF Login
  <2>2. RequestInv'
    <3> DEFINE h == [Reading EXCEPT !.pc = "register", !.t = template]
    <3>1. h \in Handlers /\ h.pc = "register" /\ h.t \in Template
      BY <2>1, Templates DEF Reading, Handlers
    <3>2. Begin(s, h)
      BY <1>3 DEF Login
    <3> HIDE DEF h
    <3>3. QED
      BY <3>1, <3>2, HandleType
  <2>3. ServerInv'
    BY <1>3 DEF Login, ServerInv
  <2>4. QED
    BY <1>3, <2>2, <2>3 DEF Login
<1>4. CASE GetJob(s)
  <2>1. template \in Template
    BY <1>2, <1>4 DEF GetJob
  <2>2. RequestInv'
    BY <1>1, <1>4, <2>1, HandleType DEF GetJob
  <2>3. TaskInv'
    BY <1>4, <2>1, StartType DEF GetJob
  <2>4. QED
    BY <1>4, <2>2, <2>3 DEF GetJob, serverVars
<1>5. CASE Drop(s)
  <2>1. RequestInv'
    BY <1>1, <1>2, <1>5, HandleType DEF Drop
  <2>2. QED
    BY <1>5, <2>1 DEF Drop, serverVars
<1>6. ASSUME NEW i \in FindJob(s), NEW nonce \in Nonces, Submit(s, i, nonce)
      PROVE  TypeInv'
  <2> DEFINE job == validJobs[s][i]
             h == [pc |-> "check", t |-> NoTemplate, job |-> [job EXCEPT !.submissions = {nonce}]]
             new == WithSubmission(job, nonce)
  <2>1. /\ validJobs \in [Conns -> Seq(Job)] /\ i \in DOMAIN validJobs[s] /\ job \in Job
        /\ \A r \in Conns : Len(validJobs[r]) =< MaxJobs
    BY <1>6 DEF MemoryInv, FindJob
  <2>2. new \in Job
    BY <2>1 DEF Job, WithSubmission
  <2>3. h \in Handlers /\ h.pc = "check" /\ Nonced(h.job)
    <3>1. [job EXCEPT !.submissions = {nonce}] \in Job
      BY <2>1 DEF Job
    <3>2. [job EXCEPT !.submissions = {nonce}].submissions = {nonce}
      BY <2>1 DEF Job
    <3>3. QED
      BY <3>1, <3>2 DEF Handlers, Nonced
  <2>4. Handle(s, h) /\ validJobs' = [validJobs EXCEPT ![s][i] = new]
    BY <1>6 DEF Submit
  <2>5. RequestInv'
    <3>1. h.pc # "register"
      BY <2>3
    <3> HIDE DEF h, job
    <3>2. Nonced(h.job)
      BY <2>3
    <3>3. QED
      BY <2>3, <2>4, <3>1, <3>2, HandleType
  <2> HIDE DEF h, new, job
  <2>6. [validJobs[s] EXCEPT ![i] = new] \in Seq(Job)
    BY <2>1, <2>2
  <2>7. Len([validJobs[s] EXCEPT ![i] = new]) = Len(validJobs[s])
    BY <2>1, <2>2
  <2>8. MemoryInv'
    BY <1>6, <2>1, <2>4, <2>6, <2>7 DEF Submit, MemoryInv
  <2>9. QED
    BY <1>6, <2>5, <2>8 DEF Submit, serverVars
<1>7. QED
  BY <1>3, <1>4, <1>5, <1>6 DEF Request

LEMMA InitTypeInv == Init => TypeInv
<1> SUFFICES ASSUME Init PROVE TypeInv
  OBVIOUS
<1>1. ServerInv
  <2>1. latest.height =< latest.prev /\ latest \in Template
    BY Templates DEF Init
  <2>2. QED
    BY <2>1 DEF Init, ServerInv
<1>2. RefreshInv
  <2>1. [Resting EXCEPT !.pc = "fetch"] \in Refreshers
    BY Templates DEF Resting, Refreshers
  <2>2. Resting.pc = "rest" /\ [Resting EXCEPT !.pc = "fetch"].pc = "fetch"
    BY DEF Resting
  <2>3. QED
    BY <2>1, <2>2, Templates DEF Init, RefreshInv, ThreadInv
<1>3. RequestInv
  <2>1. Reading \in Handlers /\ Reading.pc = "read"
    BY Templates DEF Reading
  <2>2. QED
    BY <2>1, StratumAssumption DEF Init, RequestInv, HandlerInv
<1>4. MemoryInv
  BY StratumAssumption DEF Init, MemoryInv
<1>5. TaskInv /\ HistoryInv /\ faults \in 0 .. MaxFaults
  BY FaultsAssumption DEF Init, FaultsInit, TaskInv, HistoryInv
<1>6. QED
  BY <1>1, <1>2, <1>3, <1>4, <1>5, TypeParts

LEMMA NextTypeInv ==
    ASSUME TypeInv, [Next]_vars
    PROVE  TypeInv'
<1> USE SameParts, TypeParts
<1>1. CASE MineElsewhere
  <2>1. ServerInv'
    BY <1>1, NewTipType DEF MineElsewhere, ServerInv, serverVars
  <2>2. QED
    BY <1>1, <2>1 DEF MineElsewhere, serverVars
<1>2. CASE Tick
  <2> DEFINE r == [refresher["timer"] EXCEPT !.pc = "fetch"]
  <2>1. "timer" \in Threads
    BY DEF Threads
  <2>2. r \in Refreshers /\ r.pc = "fetch"
    BY <2>1 DEF RefreshInv, Refreshers
  <2>3. Move("timer", r)
    BY <1>2 DEF Tick, MoveTo
  <2> HIDE DEF r
  <2>4. RefreshInv'
    BY <1>2, <2>1, <2>2, <2>3, MoveType DEF Tick, serverVars
  <2>5. QED
    BY <1>2, <2>4 DEF Tick
<1>3. CASE UNCHANGED vars
  BY <1>3 DEF vars, serverVars
<1>4. QED
  BY <1>1, <1>2, <1>3, RefreshType, TaskStepType, HandlerStepType, RequestType DEF Next

(* Every variable of the server has its type; the number of a call never   *)
(* exceeds the bound, and no session remembers more than MaxJobs jobs.     *)
THEOREM ServerTypes == Spec => []TypeOK
<1>1. TypeInv => TypeOK
  BY DEF TypeInv
<1>2. QED
  BY <1>1, InitTypeInv, NextTypeInv, PTL DEF Spec

-----------------------------------------------------------------------------
(* No proof of work is used twice *)

LEMMA HandlerFacts ==
    ASSUME TypeInv, NEW s \in Conns
    PROVE  /\ handler[s] \in Handlers
           /\ validJobs[s] \in Seq(Job) /\ Len(validJobs[s]) =< MaxJobs
           /\ DOMAIN validJobs[s] = 1 .. Len(validJobs[s]) /\ Len(validJobs[s]) \in Nat
           /\ \A i \in DOMAIN validJobs[s] : validJobs[s][i] \in Job /\ validJobs[s][i].id \in Nat
           /\ Checking(s) => Nonced(handler[s].job)
           /\ jobSequence \in Nat
<1>1. RequestInv /\ MemoryInv
  BY TypeParts
<1>2. validJobs[s] \in Seq(Job) /\ Len(validJobs[s]) =< MaxJobs /\ jobSequence \in Nat
  BY <1>1 DEF MemoryInv
<1>3. ASSUME NEW i \in DOMAIN validJobs[s]
      PROVE  validJobs[s][i] \in Job /\ validJobs[s][i].id \in Nat
  <2>1. validJobs[s][i] \in Job
    BY <1>2
  <2>2. QED
    BY <2>1 DEF Job
<1>4. handler[s] \in Handlers /\ (Checking(s) => Nonced(handler[s].job))
  BY <1>1 DEF RequestInv, HandlerInv, Checking
<1>5. QED
  BY <1>2, <1>3, <1>4

(* Handlers go on, none begins to check. *)
LEMMA UseQuiet ==
    ASSUME UseInv, UNCHANGED <<validJobs, jobSequence, processed, repeated>>,
           \A s \in Conns : Checking(s)' => Checking(s) /\ handler'[s].job = handler[s].job
    PROVE  UseInv'
<1>1. \A id, nonce : Spent(id, nonce) <=> Spent(id, nonce)'
  BY DEF Spent
<1>2. ProcessedOnce' /\ IdsDiffer'
  BY DEF UseInv, ProcessedOnce, IdsDiffer
<1>3. \A s \in Conns : \A i \in DOMAIN validJobs'[s] : validJobs'[s][i].id =< jobSequence'
  BY DEF UseInv
<1>4. \A p \in processed' : Spent(p[2], p[3])'
  BY <1>1 DEF UseInv
<1>5. ASSUME NEW s \in Conns, Checking(s)', NEW nonce \in handler'[s].job.submissions
      PROVE  /\ Spent(handler[s].job.id, nonce)'
             /\ \A p \in processed' : p[2] = handler'[s].job.id => p[3] # nonce
             /\ \A r \in Conns : r # s /\ Checking(r)' /\ handler'[r].job.id = handler'[s].job.id =>
                   nonce \notin handler'[r].job.submissions
  BY <1>1, <1>5 DEF UseInv, Spent
<1>6. QED
  BY <1>2, <1>3, <1>4, <1>5 DEF UseInv

(* Every step that keeps, or moves, the remembered jobs but for new ones:  *)
(* what is spent stays spent.                                              *)
LEMMA PushUse ==
    ASSUME TypeInv, UseInv, NEW k \in tasks, PushJob(k)
    PROVE  UseInv'
<1> DEFINE c == k.cs
           q == validJobs[c]
           e == NewJob(k.t)
           r == Remembered(Append(q, e))
           d == Len(q) + 1 - Len(r)
           shift(s) == IF s = c THEN d ELSE 0
           New(s, i) == s = c /\ i = Len(r)
<1>1. c \in Conns /\ k.t \in Template
  BY TaskType DEF Task
<1>2. q \in Seq(Job) /\ Len(q) =< MaxJobs /\ e \in Job /\ e.id = jobSequence + 1
  <2>1. e.id = jobSequence + 1
    BY DEF NewJob
  <2>2. QED
    BY <1>1, <2>1, NewJobType, HandlerFacts
<1>3. /\ validJobs' = [validJobs EXCEPT ![c] = r] /\ jobSequence' = jobSequence + 1
      /\ UNCHANGED <<handler, processed, repeated>>
  BY DEF PushJob, handlerVars, shareVars
<1>4. validJobs \in [Conns -> Seq(Job)] /\ jobSequence \in Nat
  BY TypeParts DEF MemoryInv
<1>5. /\ r \in Seq(Job) /\ Len(r) \in 1 .. MaxJobs /\ d \in {0, 1} /\ r[Len(r)] = e
      /\ \A i \in 1 .. Len(r) - 1 : i + d \in 1 .. Len(q) /\ r[i] = q[i + d]
  <2> HIDE DEF q, e
  <2>1. QED
    BY <1>2, RememberedJobs
<1> HIDE DEF c, q, e, r, d
<1>6. ASSUME NEW s \in Conns, NEW i \in DOMAIN validJobs'[s]
      PROVE  /\ New(s, i) => validJobs'[s][i] = e
             /\ ~New(s, i) => /\ i + shift(s) \in DOMAIN validJobs[s]
                              /\ validJobs'[s][i] = validJobs[s][i + shift(s)]
             /\ i \in Int /\ shift(s) \in Int
  <2>1. CASE s = c
    <3>1. validJobs'[s] = r /\ validJobs[s] = q /\ i \in 1 .. Len(r)
      BY <1>1, <1>3, <1>4, <1>5, <1>6, <2>1 DEF q
    <3>2. QED
      BY <1>2, <1>5, <2>1, <3>1
  <2>2. CASE s # c
    <3>1. validJobs'[s] = validJobs[s] /\ validJobs[s] \in Seq(Job)
      BY <1>1, <1>3, <1>4, <2>2
    <3>2. QED
      BY <1>6, <2>2, <3>1
  <2>3. QED
    BY <2>1, <2>2
<1>7. ASSUME NEW s \in Conns, NEW i \in DOMAIN validJobs[s]
      PROVE  validJobs[s][i].id \in Nat /\ validJobs[s][i].id =< jobSequence
  BY HandlerFacts DEF UseInv
<1> HIDE DEF shift, New
<1>8. ASSUME NEW id, NEW nonce, Spent(id, nonce), id \in Int
      PROVE  Spent(id, nonce)'
  <2>1. id =< jobSequence'
    BY <1>3, <1>4, <1>8 DEF Spent
  <2>2. ASSUME NEW s \in Conns, NEW i \in DOMAIN validJobs'[s], validJobs'[s][i].id = id
        PROVE  nonce \in validJobs'[s][i].submissions
    <3>1. ~New(s, i)
      BY <1>2, <1>4, <1>6, <1>8, <2>2 DEF Spent
    <3>2. QED
      BY <1>6, <1>8, <2>2, <3>1 DEF Spent
  <2>3. QED
    BY <2>1, <2>2 DEF Spent
<1>9. ASSUME NEW s \in Conns, NEW t \in Conns,
             NEW i \in DOMAIN validJobs'[s], NEW j \in DOMAIN validJobs'[t],
             validJobs'[s][i].id = validJobs'[t][j].id
      PROVE  s = t /\ i = j
  <2>1. New(s, i) <=> New(t, j)
    BY <1>2, <1>4, <1>6, <1>7, <1>9
  <2>2. CASE New(s, i)
    BY <2>1, <2>2 DEF New
  <2>3. CASE ~New(s, i)
    <3>1. s = t /\ i + shift(s) = j + shift(t)
      BY <1>6, <1>9, <2>1, <2>3 DEF UseInv, IdsDiffer
    <3>2. QED
      BY <1>6, <3>1
  <2>4. QED
    BY <2>2, <2>3
<1>10. ASSUME NEW s \in Conns, NEW i \in DOMAIN validJobs'[s]
       PROVE  validJobs'[s][i].id =< jobSequence'
  BY <1>2, <1>3, <1>4, <1>6, <1>7
<1>11. \A p \in processed' : Spent(p[2], p[3])'
  <2>1. \A p \in processed : p[2] \in Int
    BY TypeParts DEF HistoryInv
  <2>2. QED
    BY <1>3, <1>8, <2>1 DEF UseInv
<1>12. ASSUME NEW s \in Conns, Checking(s)', NEW nonce \in handler'[s].job.submissions
       PROVE  /\ Spent(handler[s].job.id, nonce)'
              /\ \A p \in processed' : p[2] = handler'[s].job.id => p[3] # nonce
              /\ \A t \in Conns : t # s /\ Checking(t)' /\ handler'[t].job.id = handler'[s].job.id =>
                    nonce \notin handler'[t].job.submissions
  <2>1. Checking(s) /\ handler' = handler /\ processed' = processed
    BY <1>3, <1>12 DEF Checking
  <2>2. handler[s].job.id \in Int
    BY <2>1, HandlerFacts DEF Nonced, Job
  <2>3. Spent(handler[s].job.id, nonce)
    BY <1>12, <2>1 DEF UseInv
  <2>4. Spent(handler[s].job.id, nonce)'
    BY <1>8, <2>1, <2>2, <2>3
  <2>5. QED
    BY <1>12, <2>1, <2>4 DEF UseInv, Checking
<1>13. QED
  <2>1. ProcessedOnce'
    BY <1>3 DEF UseInv, ProcessedOnce
  <2>2. handler' = handler
    BY <1>3
  <2>3. QED
    BY <1>9, <1>10, <1>11, <1>12, <2>1, <2>2 DEF UseInv, IdsDiffer

(* A submission that job.submit accepts marks the nonce in its job, and    *)
(* nobody has used it or is checking it.                                   *)
LEMMA SubmitUse ==
    ASSUME TypeInv, UseInv, NEW c \in Conns, NEW x \in FindJob(c), NEW nonce \in Nonces,
           Submit(c, x, nonce)
    PROVE  UseInv'
<1> DEFINE job == validJobs[c][x]
           new == WithSubmission(job, nonce)
           h == [pc |-> "check", t |-> NoTemplate, job |-> [job EXCEPT !.submissions = {nonce}]]
<1>1. /\ x \in DOMAIN validJobs[c] /\ job \in Job /\ job.id \in Nat
      /\ validJobs \in [Conns -> Seq(Job)] /\ jobSequence \in Nat
      /\ handler \in [Conns -> Handlers]
  BY HandlerFacts, TypeParts DEF FindJob, MemoryInv, RequestInv
<1>2. /\ new.id = job.id /\ new.submissions = job.submissions \cup {nonce}
      /\ h.job.id = job.id /\ h.job.submissions = {nonce} /\ h.pc = "check"
  BY <1>1 DEF WithSubmission, Job
<1>3. /\ nonce \notin job.submissions
      /\ validJobs' = [validJobs EXCEPT ![c][x] = new] /\ handler' = [handler EXCEPT ![c] = h]
      /\ UNCHANGED <<jobSequence, processed, repeated>>
  BY DEF Submit, Handle, shareVars
<1> HIDE DEF job, new, h
<1>4. ASSUME NEW s \in Conns
      PROVE  /\ DOMAIN validJobs'[s] = DOMAIN validJobs[s]
             /\ \A i \in DOMAIN validJobs[s] :
                   /\ validJobs'[s][i].id = validJobs[s][i].id
                   /\ validJobs[s][i].submissions \subseteq validJobs'[s][i].submissions
             /\ handler'[s] = IF s = c THEN h ELSE handler[s]
  <2>1. validJobs[s] \in Seq(Job)
    BY <1>1
  <2>2. CASE s = c
    <3>1. validJobs'[s] = [validJobs[s] EXCEPT ![x] = new]
      BY <1>1, <1>3, <2>2
    <3>2. \A i \in DOMAIN validJobs[s] :
            validJobs'[s][i] = IF i = x THEN new ELSE validJobs[s][i]
      BY <1>1, <2>1, <2>2, <3>1
    <3>3. DOMAIN validJobs'[s] = DOMAIN validJobs[s]
      BY <2>1, <3>1
    <3>4. QED
      BY <1>1, <1>2, <1>3, <2>2, <3>2, <3>3 DEF job
  <2>3. CASE s # c
    BY <1>1, <1>3, <2>3
  <2>4. QED
    BY <2>2, <2>3
<1>5. validJobs'[c][x].id = job.id /\ nonce \in validJobs'[c][x].submissions
  <2>1. validJobs[c] \in Seq(Job)
    BY <1>1
  <2>2. validJobs'[c] = [validJobs[c] EXCEPT ![x] = new]
    BY <1>1, <1>3
  <2>3. validJobs'[c][x] = new
    BY <1>1, <2>1, <2>2
  <2>4. QED
    BY <1>2, <2>3
<1>6. ASSUME NEW id, NEW n, Spent(id, n)
      PROVE  Spent(id, n)'
  BY <1>3, <1>4, <1>6 DEF Spent
<1>7. IdsDiffer'
  BY <1>4 DEF UseInv, IdsDiffer
<1>8. PICK id : id = job.id
  OBVIOUS
<1>9. Spent(id, nonce)'
  <2>1. id =< jobSequence'
    BY <1>1, <1>3, <1>8 DEF UseInv, job
  <2>2. ASSUME NEW s \in Conns, NEW i \in DOMAIN validJobs'[s], validJobs'[s][i].id = id
        PROVE  nonce \in validJobs'[s][i].submissions
    <3>1. s = c /\ i = x
      BY <1>1, <1>4, <1>5, <1>7, <1>8, <2>2 DEF IdsDiffer
    <3>2. QED
      BY <1>5, <3>1
  <2>3. QED
    BY <2>1, <2>2 DEF Spent
<1>10. \A p \in processed : p[2] = job.id => p[3] # nonce
  BY <1>1, <1>3 DEF UseInv, Spent, job
<1>11. \A s \in Conns : Checking(s) /\ handler[s].job.id = job.id =>
          nonce \notin handler[s].job.submissions
  BY <1>1, <1>3 DEF UseInv, Spent, job
<1>12. ASSUME NEW s \in Conns, Checking(s)', NEW n \in handler'[s].job.submissions
       PROVE  /\ Spent(handler[s].job.id, n)'
              /\ \A p \in processed' : p[2] = handler'[s].job.id => p[3] # n
              /\ \A t \in Conns : t # s /\ Checking(t)' /\ handler'[t].job.id = handler'[s].job.id =>
                    n \notin handler'[t].job.submissions
  <2>1. CASE s = c
    <3>1. handler'[s] = h /\ n = nonce
      BY <1>2, <1>4, <1>12, <2>1
    <3>2. \A t \in Conns : t # s => handler'[t] = handler[t]
      BY <1>4, <2>1
    <3>3. QED
      BY <1>2, <1>3, <1>8, <1>9, <1>10, <1>11, <3>1, <3>2 DEF Checking
  <2>2. CASE s # c
    <3>1. handler'[s] = handler[s] /\ Checking(s)
      BY <1>4, <1>12, <2>2 DEF Checking
    <3>2. Spent(handler[s].job.id, n)'
      BY <1>6, <1>12, <3>1 DEF UseInv
    <3>3. ASSUME NEW t \in Conns, t # s, Checking(t)', handler'[t].job.id = handler'[s].job.id
          PROVE  n \notin handler'[t].job.submissions
      <4>1. CASE t = c
        BY <1>2, <1>4, <1>11, <1>12, <3>1, <3>3, <4>1
      <4>2. CASE t # c
        BY <1>4, <1>12, <3>1, <3>3, <4>2 DEF UseInv, Checking
      <4>3. QED
        BY <4>1, <4>2
    <3>4. QED
      BY <1>3, <1>12, <3>1, <3>2, <3>3 DEF UseInv
  <2>3. QED
    BY <2>1, <2>2
<1>13. QED
  <2>1. ProcessedOnce'
    BY <1>3 DEF UseInv, ProcessedOnce
  <2>2. \A p \in processed' : Spent(p[2], p[3])'
    BY <1>3, <1>6 DEF UseInv
  <2>3. \A s \in Conns : \A i \in DOMAIN validJobs'[s] : validJobs'[s][i].id =< jobSequence'
    BY <1>3, <1>4 DEF UseInv
  <2>4. QED
    BY <1>7, <1>12, <2>1, <2>2, <2>3 DEF UseInv

(* The proof of work that a handler checked is used, and the handler goes  *)
(* on to its answer.                                                       *)
LEMMA UsedUse ==
    ASSUME TypeInv, UseInv, NEW c \in Conns, Checking(c), Use(handler[c].job),
           UNCHANGED <<validJobs, jobSequence>>,
           NEW h, h.pc \notin {"check", "block"}, handler' = [handler EXCEPT ![c] = h]
    PROVE  UseInv'
<1>1. Nonced(handler[c].job) /\ handler \in [Conns -> Handlers]
  BY HandlerFacts, TypeParts DEF RequestInv
<1>2. PICK nonce \in Nonces :
        /\ handler[c].job.submissions = {nonce}
        /\ processed' = processed \cup {PoW(handler[c].job, nonce)}
        /\ repeated' = repeated \cup ({PoW(handler[c].job, nonce)} \cap processed)
  BY <1>1, UseType
<1>3. PICK p : p = PoW(handler[c].job, nonce)
  OBVIOUS
<1>4. p[2] = handler[c].job.id /\ p[3] = nonce
  BY <1>3 DEF PoW
<1>5. p \notin processed /\ Spent(p[2], p[3])
  BY <1>2, <1>4 DEF UseInv
<1>6. \A id, n : Spent(id, n) => Spent(id, n)'
  BY DEF Spent
<1>7. ProcessedOnce'
  BY <1>2, <1>3, <1>5 DEF UseInv, ProcessedOnce
<1>8. \A x \in processed' : Spent(x[2], x[3])'
  BY <1>2, <1>3, <1>5, <1>6 DEF UseInv
<1>9. ASSUME NEW s \in Conns, Checking(s)'
      PROVE  s # c /\ Checking(s) /\ handler'[s] = handler[s]
  BY <1>1, <1>9 DEF Checking
<1>10. ASSUME NEW s \in Conns, Checking(s)', NEW n \in handler'[s].job.submissions
       PROVE  /\ Spent(handler[s].job.id, n)'
              /\ \A x \in processed' : x[2] = handler'[s].job.id => x[3] # n
              /\ \A t \in Conns : t # s /\ Checking(t)' /\ handler'[t].job.id = handler'[s].job.id =>
                    n \notin handler'[t].job.submissions
  <2>1. s # c /\ Checking(s) /\ handler'[s] = handler[s] /\ n \in handler[s].job.submissions
    BY <1>9, <1>10
  <2>2. Spent(handler[s].job.id, n)
    BY <2>1 DEF UseInv
  <2>3. Spent(handler[s].job.id, n)'
    BY <2>1, <2>2 DEF Spent
  <2>4. p[2] = handler[s].job.id => p[3] # n
    BY <1>2, <1>4, <2>1 DEF UseInv
  <2>5. \A x \in processed' : x[2] = handler'[s].job.id => x[3] # n
    BY <1>2, <1>3, <2>1, <2>4 DEF UseInv
  <2>6. ASSUME NEW t \in Conns, t # s, Checking(t)', handler'[t].job.id = handler'[s].job.id
        PROVE  n \notin handler'[t].job.submissions
    BY <1>9, <2>1, <2>6 DEF UseInv
  <2>7. QED
    BY <2>3, <2>5, <2>6
<1>11. IdsDiffer' /\ \A s \in Conns : \A i \in DOMAIN validJobs'[s] : validJobs'[s][i].id =< jobSequence'
  BY DEF UseInv, IdsDiffer
<1>12. QED
  BY <1>7, <1>8, <1>10, <1>11 DEF UseInv

LEMMA HandlerUse ==
    ASSUME TypeInv, UseInv, NEW s \in Conns, HandlerStep(s)
    PROVE  UseInv'
<1>1. UNCHANGED <<validJobs, jobSequence>> /\ handler \in [Conns -> Handlers]
  BY TypeParts DEF HandlerStep, Register, Refuse, AcceptShare, FindBlock, SubmitBlock,
     AnswerSubmit, Close, jobVars, RequestInv
<1>2. ASSUME NEW h, h.pc \notin {"check", "block"}, handler' = [handler EXCEPT ![s] = h],
             UNCHANGED <<processed, repeated>>
      PROVE  UseInv'
  <2>1. \A r \in Conns : Checking(r)' => Checking(r) /\ handler'[r].job = handler[r].job
    BY <1>1, <1>2 DEF Checking
  <2>2. QED
    BY <1>1, <1>2, <2>1, UseQuiet
<1>3. ASSUME NEW pc
      PROVE  [Reading EXCEPT !.pc = pc].pc = pc /\ [handler[s] EXCEPT !.pc = pc].pc = pc
             /\ Reading.pc = "read"
  BY <1>1 DEF Reading, Handlers
<1>4. ASSUME Answer(s)
      PROVE  \/ handler' = [handler EXCEPT ![s] = Reading]
             \/ handler' = [handler EXCEPT ![s] = [Reading EXCEPT !.pc = "close"]]
  BY <1>4 DEF Answer, Handle
<1>5. CASE Register(s) \/ Close(s)
  <2>1. /\ UNCHANGED <<processed, repeated>>
        /\ \/ handler' = [handler EXCEPT ![s] = [Reading EXCEPT !.pc = "wait"]]
           \/ handler' = [handler EXCEPT ![s] = [Reading EXCEPT !.pc = "closed"]]
    BY <1>5 DEF Register, Close, Handle, shareVars
  <2>2. QED
    BY <1>2, <1>3, <2>1
<1>6. CASE Refuse(s) \/ AnswerSubmit(s)
  <2>1. Answer(s) /\ UNCHANGED <<processed, repeated>>
    BY <1>6 DEF Refuse, AnswerSubmit, shareVars
  <2>2. QED
    BY <1>2, <1>3, <1>4, <2>1
<1>7. CASE AcceptShare(s)
  <2>1. Checking(s) /\ Use(handler[s].job) /\ Answer(s)
    BY <1>7 DEF AcceptShare, Good, Checking
  <2>2. QED
    BY <1>1, <1>3, <1>4, <2>1, UsedUse
<1>8. CASE FindBlock(s)
  <2> DEFINE h == [handler[s] EXCEPT !.pc = "block", !.t = template]
  <2>1. handler' = [handler EXCEPT ![s] = h] /\ UNCHANGED <<processed, repeated>> /\ Checking(s)
    BY <1>8 DEF FindBlock, Handle, Good, Checking, shareVars
  <2>2. h.job = handler[s].job
    BY <1>1 DEF Handlers
  <2> HIDE DEF h
  <2>3. \A r \in Conns : Checking(r)' => Checking(r) /\ handler'[r].job = handler[r].job
    BY <1>1, <2>1, <2>2 DEF Checking
  <2>4. QED
    BY <1>1, <2>1, <2>3, UseQuiet
<1>9. CASE SubmitBlock(s)
  <2>1. /\ Checking(s)
        /\ \/ handler' = [handler EXCEPT ![s] = [handler[s] EXCEPT !.pc = "refresh"]]
           \/ handler' = [handler EXCEPT ![s] = [handler[s] EXCEPT !.pc = "answer"]]
        /\ Use(handler[s].job) \/ UNCHANGED <<processed, repeated>>
    BY <1>9 DEF SubmitBlock, Handle, Checking, shareVars
  <2>2. QED
    BY <1>1, <1>2, <1>3, <2>1, UsedUse
<1>10. QED
  BY <1>5, <1>6, <1>7, <1>8, <1>9 DEF HandlerStep

LEMMA RequestUse ==
    ASSUME TypeInv, UseInv, NEW s \in Conns, Request(s)
    PROVE  UseInv'
<1>1. handler \in [Conns -> Handlers]
  BY TypeParts DEF RequestInv
<1>2. CASE Login(s) \/ GetJob(s) \/ Drop(s)
  <2>1. /\ UNCHANGED <<validJobs, jobSequence, processed, repeated>>
        /\ \/ handler' = [handler EXCEPT ![s] = [Reading EXCEPT !.pc = "register", !.t = template]]
           \/ handler' = [handler EXCEPT ![s] = [Reading EXCEPT !.pc = "wait"]]
           \/ handler' = [handler EXCEPT ![s] = [Reading EXCEPT !.pc = "close"]]
    BY <1>2 DEF Login, GetJob, Drop, Begin, Handle, jobVars, shareVars
  <2>2. \A r \in Conns : r # s => handler'[r] = handler[r]
    BY <1>1, <2>1
  <2>3. handler'[s].pc \in {"register", "wait", "close"}
    BY <1>1, <2>1 DEF Reading
  <2>4. \A r \in Conns : Checking(r)' => Checking(r) /\ handler'[r].job = handler[r].job
    BY <2>2, <2>3 DEF Checking
  <2>5. QED
    BY <2>1, <2>4, UseQuiet
<1>3. QED
  BY <1>2, SubmitUse DEF Request

LEMMA TaskUse ==
    ASSUME TypeInv, UseInv, NEW k \in tasks, TaskStep(k)
    PROVE  UseInv'
<1>1. CASE PushJob(k)
  BY <1>1, PushUse
<1>2. CASE Reply(k)
  <2>1. UNCHANGED <<validJobs, jobSequence, processed, repeated>> /\ k.cs \in Conns
    BY <1>2, TaskType DEF Reply, jobVars, shareVars, Task
  <2>2. /\ handler \in [Conns -> Handlers]
        /\ \/ handler' = [handler EXCEPT ![k.cs] = Reading]
           \/ handler' = [handler EXCEPT ![k.cs] = [Reading EXCEPT !.pc = "close"]]
    BY <1>2, <2>1, AnswerType, TypeParts DEF Reply, RequestInv
  <2>3. handler'[k.cs].pc \in {"read", "close"}
    BY <2>1, <2>2 DEF Reading
  <2>4. \A r \in Conns : Checking(r)' => Checking(r) /\ handler'[r].job = handler[r].job
    BY <2>1, <2>2, <2>3 DEF Checking
  <2>5. QED
    BY <2>1, <2>4, UseQuiet
<1>3. CASE Swap(k) \/ Push(k) \/ Receive(k) \/ RemoveFailed(k)
  <2>1. UNCHANGED <<validJobs, jobSequence, processed, repeated, handler>>
    BY <1>3 DEF Swap, Push, Receive, RemoveFailed, jobVars, shareVars, handlerVars
  <2>2. QED
    BY <2>1, UseQuiet DEF Checking
<1>4. QED
  BY <1>1, <1>2, <1>3 DEF TaskStep

LEMMA NextUse ==
    ASSUME TypeInv, UseInv, [Next]_vars
    PROVE  UseInv'
<1>1. CASE MineElsewhere \/ Tick \/ (\E th \in Threads : Refresh(th)) \/ UNCHANGED vars
  <2>1. UNCHANGED <<validJobs, jobSequence, processed, repeated, handler>>
    BY <1>1 DEF MineElsewhere, Tick, Refresh, Fetch, Compare, Store, Load, RLock, Spawn,
       RUnlock, vars, jobVars, shareVars, handlerVars
  <2>2. QED
    BY <2>1, UseQuiet DEF Checking
<1>2. QED
  BY <1>1, TaskUse, HandlerUse, RequestUse DEF Next

(* No proof of work reaches WriteShare or WriteBlock twice, whatever       *)
(* sessions, broadcasts and refreshes interleave: the id of a job is       *)
(* unique, its nonces are marked before they are checked, and a job that   *)
(* pushJob has evicted is not found again.                                 *)
THEOREM NeverProcessedTwice == Spec => []ProcessedOnce
<1>1. Init => UseInv
  <2> SUFFICES ASSUME Init PROVE UseInv
    OBVIOUS
  <2>1. /\ processed = {} /\ repeated = {}
        /\ \A s \in Conns : validJobs[s] = <<>> /\ handler[s].pc = "read"
    BY DEF Init, Reading
  <2>2. \A s \in Conns : DOMAIN validJobs[s] = {} /\ ~Checking(s)
    BY <2>1 DEF Checking
  <2>3. QED
    BY <2>1, <2>2 DEF UseInv, ProcessedOnce, IdsDiffer
<1>2. TypeInv /\ UseInv /\ [Next]_vars => UseInv'
  BY NextUse
<1>3. TypeInv /\ [Next]_vars => TypeInv'
  BY NextTypeInv
<1>4. UseInv => ProcessedOnce
  BY DEF UseInv
<1>5. QED
  BY <1>1, <1>2, <1>3, <1>4, InitTypeInv, PTL DEF Spec

-----------------------------------------------------------------------------
(* The job of a session is found *)

(* No session has more calls under way than it remembers jobs. *)
CallsRemembered == MaxCalls =< MaxJobs

LEMMA Sizes ==
    ASSUME JobInv, NEW s \in Conns
    PROVE  /\ IsFiniteSet(Pushing(s)) /\ Cardinality(Pushing(s)) \in Nat
           /\ IsFiniteSet(Calling(s)) /\ Cardinality(Calling(s)) \in Nat
           /\ Cardinality(Pushing(s)) =< Cardinality(Calling(s))
           /\ Cardinality(Calling(s)) =< MaxCalls
<1>1. IsFiniteSet(Pushing(s)) /\ IsFiniteSet(Calling(s))
  BY FS_Subset DEF JobInv, Pushing, Calling
<1>2. Pushing(s) \subseteq Calling(s)
  BY DEF Pushing, Calling
<1>3. QED
  BY <1>1, <1>2, FS_CardinalityType, FS_Subset DEF JobInv

(* Nothing is pushed, and no call is about to push that was not before. *)
LEMMA JobKept ==
    ASSUME TypeInv, TypeInv', JobInv, UNCHANGED lastBlockHeight,
           \A s \in Conns : /\ Len(validJobs'[s]) = Len(validJobs[s])
                            /\ \A i \in DOMAIN validJobs[s] :
                                  validJobs'[s][i].t = validJobs[s][i].t,
           IsFiniteSet(tasks'),
           \A s \in Conns : /\ Cardinality(Calling(s)') =< MaxCalls
                            /\ Cardinality(Pushing(s)') =< Cardinality(Pushing(s))
                            /\ Cardinality(Pushing(s)') \in Nat
                            /\ \A k \in Pushing(s) : \E m \in Pushing(s)' : m.t = k.t
    PROVE  JobInv'
<1>1. ASSUME NEW s \in Conns, lastBlockHeight'[s] # 0
      PROVE  Lasting(s)'
  <2>1. Lasting(s)
    BY <1>1 DEF JobInv
  <2>2. CASE \E k \in Pushing(s) : k.t.height = lastBlockHeight[s]
    BY <2>2 DEF Lasting
  <2>3. ASSUME NEW i \in DOMAIN validJobs[s],
               validJobs[s][i].t.height = lastBlockHeight[s],
               Len(validJobs[s]) - i + Cardinality(Pushing(s)) < MaxJobs
        PROVE  Lasting(s)'
    <3>1. validJobs[s] \in Seq(Job) /\ validJobs'[s] \in Seq(Job)
      BY TypeParts DEF MemoryInv
    <3>2. i \in DOMAIN validJobs'[s] /\ i \in Int /\ Len(validJobs[s]) \in Nat
      BY <2>3, <3>1
    <3>3. validJobs'[s][i].t.height = lastBlockHeight'[s]
      BY <2>3
    <3>4. Len(validJobs'[s]) - i + Cardinality(Pushing(s)') < MaxJobs
      BY <2>3, <3>2, Sizes, StratumAssumption
    <3>5. QED
      BY <3>2, <3>3, <3>4 DEF Lasting
  <2>4. QED
    BY <2>1, <2>2, <2>3 DEF Lasting
<1>2. QED
  BY <1>1 DEF JobInv

(* The calls are the same, or one that was about to swap is new.           *)
LEMMA JobStart ==
    ASSUME TypeInv, TypeInv', JobInv, UNCHANGED <<lastBlockHeight, validJobs>>,
           NEW s \in Conns, NEW t, NEW from, Start(s, t, from)
    PROVE  JobInv'
<1>1. PICK n : tasks' = tasks \cup {[n |-> n, cs |-> s, t |-> t, from |-> from,
                                    pc |-> "swap", err |-> FALSE]}
  BY DEF Start
<1> DEFINE new == [n |-> n, cs |-> s, t |-> t, from |-> from, pc |-> "swap", err |-> FALSE]
<1>2. /\ tasks' = tasks \cup {new} /\ new.cs = s /\ new.pc = "swap"
      /\ Cardinality(Calling(s)) < MaxCalls
  BY <1>1 DEF Start, Calling
<1> HIDE DEF new
<1>3. IsFiniteSet(tasks')
  BY <1>2, FS_AddElement DEF JobInv
<1>4. ASSUME NEW r \in Conns
      PROVE  /\ Pushing(r)' = Pushing(r)
             /\ Calling(r)' = IF r = s THEN Calling(r) \cup {new} ELSE Calling(r)
  BY <1>2 DEF Pushing, Calling
<1>5. ASSUME NEW r \in Conns
      PROVE  /\ Cardinality(Calling(r)') =< MaxCalls
             /\ Cardinality(Pushing(r)') =< Cardinality(Pushing(r))
             /\ Cardinality(Pushing(r)') \in Nat
  <2>1. /\ Pushing(r)' = Pushing(r)
        /\ Cardinality(Pushing(r)') =< Cardinality(Pushing(r)) /\ Cardinality(Pushing(r)') \in Nat
    BY <1>4, Sizes
  <2>2. CASE r = s
    <3>1. Calling(r)' = Calling(r) \cup {new} /\ IsFiniteSet(Calling(r))
      BY <1>4, <2>2, Sizes
    <3>2. \/ Cardinality(Calling(r)') = Cardinality(Calling(r))
          \/ Cardinality(Calling(r)') = Cardinality(Calling(r)) + 1
      BY <3>1, FS_AddElement
    <3>3. QED
      BY <1>2, <2>1, <2>2, <3>2, Sizes, StratumAssumption
  <2>3. CASE r # s
    BY <1>4, <2>1, <2>3, Sizes
  <2>4. QED
    BY <2>2, <2>3
<1>6. QED
  BY <1>3, <1>4, <1>5, JobKept

LEMMA ImageSize ==
    ASSUME NEW S, IsFiniteSet(S), NEW T, NEW f \in [S -> T], \A y \in T : \E x \in S : y = f[x]
    PROVE  IsFiniteSet(T) /\ Cardinality(T) =< Cardinality(S)
<1>1. f \in Surjection(S, T)
  BY DEF Surjection
<1>2. QED
  BY <1>1, FS_Surjection

(* The loop of a broadcast is over. *)
LEMMA JobUnlock ==
    ASSUME TypeInv, TypeInv', JobInv, NEW th \in Threads, RUnlock(th)
    PROVE  JobInv'
<1> DEFINE alone(k) == IF k.from = th THEN [k EXCEPT !.from = "alone"] ELSE k
<1>1. tasks' = {alone(k) : k \in tasks} /\ UNCHANGED <<lastBlockHeight, validJobs>>
  BY DEF RUnlock, jobVars
<1>2. ASSUME NEW k \in tasks
      PROVE  alone(k).cs = k.cs /\ alone(k).pc = k.pc /\ alone(k).t = k.t
  BY TaskType DEF Task
<1> HIDE DEF alone
<1>3. ASSUME NEW S, IsFiniteSet(S)
      PROVE  LET T == {alone(k) : k \in S}
             IN IsFiniteSet(T) /\ Cardinality(T) =< Cardinality(S)
  <2> DEFINE T == {alone(k) : k \in S}
             f == [k \in S |-> alone(k)]
  <2>1. f \in [S -> T] /\ \A y \in T : \E x \in S : y = f[x]
    OBVIOUS
  <2> HIDE DEF f, T
  <2>2. IsFiniteSet(T) /\ Cardinality(T) =< Cardinality(S)
    BY <1>3, <2>1, ImageSize
  <2>3. QED
    BY <2>2 DEF T
<1>4. IsFiniteSet(tasks')
  BY <1>1, <1>3 DEF JobInv
<1>5. ASSUME NEW s \in Conns
      PROVE  /\ Pushing(s)' = {alone(k) : k \in Pushing(s)}
             /\ Calling(s)' = {alone(k) : k \in Calling(s)}
  BY <1>1, <1>2 DEF Pushing, Calling
<1>6. ASSUME NEW s \in Conns
      PROVE  /\ Cardinality(Calling(s)') =< MaxCalls
             /\ Cardinality(Pushing(s)') =< Cardinality(Pushing(s))
             /\ Cardinality(Pushing(s)') \in Nat
  <2>1. /\ Cardinality(Calling(s)') =< Cardinality(Calling(s))
        /\ IsFiniteSet(Calling(s)')
    BY <1>5, Sizes, <1>3
  <2>2. /\ Cardinality(Pushing(s)') =< Cardinality(Pushing(s))
        /\ IsFiniteSet(Pushing(s)')
    BY <1>5, Sizes, <1>3
  <2>3. QED
    BY <2>1, <2>2, Sizes, StratumAssumption, FS_CardinalityType
<1>7. ASSUME NEW s \in Conns, NEW k \in Pushing(s)
      PROVE  \E m \in Pushing(s)' : m.t = k.t
  <2>1. alone(k) \in Pushing(s)' /\ alone(k).t = k.t
    BY <1>2, <1>5, <1>7 DEF Pushing
  <2>2. QED
    BY <2>1
<1>8. QED
  BY <1>1, <1>4, <1>6, <1>7, JobKept

(* A call that has pushed its job, or needed none, goes on or ends. *)
LEMMA JobLeave ==
    ASSUME TypeInv, TypeInv', JobInv, UNCHANGED <<lastBlockHeight, validJobs>>,
           NEW k \in tasks, k.pc # "push",
           \/ tasks' = tasks \ {k}
           \/ \E new : /\ tasks' = (tasks \ {k}) \cup {new}
                       /\ new.pc \in {"recv", "remove"}
    PROVE  JobInv'
<1>1. PICK new : /\ tasks' \subseteq tasks \cup {new} /\ tasks \ {k} \subseteq tasks'
                 /\ new \in tasks' => new.pc \in {"recv", "remove"} \/ new \in tasks
  OBVIOUS
<1>2. IsFiniteSet(tasks')
  <2>1. IsFiniteSet(tasks \cup {new})
    BY FS_AddElement DEF JobInv
  <2>2. QED
    BY <1>1, <2>1, FS_Subset
<1>3. ASSUME NEW s \in Conns
      PROVE  Pushing(s)' = Pushing(s) /\ Calling(s)' \subseteq Calling(s)
  BY <1>1 DEF Pushing, Calling
<1>4. ASSUME NEW s \in Conns
      PROVE  /\ Cardinality(Calling(s)') =< MaxCalls
             /\ Cardinality(Pushing(s)') =< Cardinality(Pushing(s))
             /\ Cardinality(Pushing(s)') \in Nat
  <2>1. Cardinality(Calling(s)') =< Cardinality(Calling(s)) /\ Cardinality(Calling(s)') \in Nat
    BY <1>3, Sizes, FS_Subset, FS_CardinalityType
  <2>2. QED
    BY <1>3, <2>1, Sizes, StratumAssumption
<1>5. QED
  BY <1>2, <1>3, <1>4, JobKept

(* How many calls there are when k has gone on as new *)
LEMMA Replaced ==
    ASSUME TypeInv, JobInv, NEW k \in tasks, NEW new, Replace(k, new), new.cs = k.cs,
           k.pc \in {"swap", "push", "send"}
    PROVE  /\ IsFiniteSet(tasks')
           /\ \A s \in Conns : Cardinality(Calling(s)') =< MaxCalls
           /\ \A s \in Conns : s # k.cs => Pushing(s)' = Pushing(s)
<1>1. k.cs \in Conns /\ tasks' = (tasks \ {k}) \cup {new}
  BY TaskType DEF Task, Replace
<1>2. IsFiniteSet(tasks')
  BY <1>1, FS_AddElement, FS_RemoveElement DEF JobInv
<1>3. ASSUME NEW s \in Conns, s # k.cs
      PROVE  Pushing(s)' = Pushing(s) /\ Cardinality(Calling(s)') =< MaxCalls
  <2>1. Pushing(s)' = Pushing(s) /\ Calling(s)' = Calling(s)
    BY <1>1, <1>3 DEF Pushing, Calling
  <2>2. QED
    BY <2>1, Sizes
<1>4. Cardinality(Calling(k.cs)') =< MaxCalls
  <2> DEFINE C == Calling(k.cs)
             D == (C \ {k}) \cup {new}
  <2>1. IsFiniteSet(C) /\ k \in C /\ Cardinality(C) \in Nat /\ Cardinality(C) =< MaxCalls
    BY <1>1, Sizes DEF Calling
  <2>2. C' \subseteq D
    BY <1>1 DEF Calling
  <2> HIDE DEF C
  <2>3. IsFiniteSet(C \ {k}) /\ Cardinality(C \ {k}) = Cardinality(C) - 1
    BY <2>1, FS_RemoveElement
  <2>4. /\ IsFiniteSet(D)
        /\ Cardinality(D) = Cardinality(C) - 1 \/ Cardinality(D) = Cardinality(C)
    BY <2>1, <2>3, FS_AddElement
  <2> HIDE DEF D
  <2>5. Cardinality(C') =< Cardinality(D) /\ Cardinality(C') \in Nat
    BY <2>2, <2>4, FS_Subset, FS_CardinalityType
  <2>6. Cardinality(C') =< MaxCalls
    BY <2>1, <2>4, <2>5, StratumAssumption
  <2>7. QED
    BY <2>6 DEF C
<1>5. QED
  BY <1>2, <1>3, <1>4

LEMMA JobSwap ==
    ASSUME TypeInv, TypeInv', JobInv, NEW k \in tasks, Swap(k)
    PROVE  JobInv'
<1> DEFINE pc == IF SameHeightAgain(k) THEN "send" ELSE "push"
           new == [k EXCEPT !.pc = pc]
           c == k.cs
<1>1. /\ k.cs \in Conns /\ k \in Task /\ k.pc = "swap"
      /\ lastBlockHeight \in [Conns -> 0 .. MaxTips]
      /\ lastBlockHeight' = [lastBlockHeight EXCEPT ![k.cs] = k.t.height]
      /\ Replace(k, new) /\ UNCHANGED validJobs
  BY TaskType, TypeParts DEF Swap, Continue, Task, MemoryInv
<1>2. new.cs = k.cs /\ new.t = k.t /\ new.pc = pc
  BY <1>1 DEF Task
<1>3. tasks' = (tasks \ {k}) \cup {new}
  BY <1>1 DEF Replace
<1> HIDE DEF new
<1>4. /\ IsFiniteSet(tasks')
      /\ \A s \in Conns : Cardinality(Calling(s)') =< MaxCalls
      /\ \A s \in Conns : s # k.cs => Pushing(s)' = Pushing(s)
  BY <1>1, <1>2, Replaced
<1>5. CASE SameHeightAgain(k)
  <2>1. UNCHANGED lastBlockHeight
    BY <1>1, <1>5 DEF SameHeightAgain
  <2>2. Pushing(k.cs)' = Pushing(k.cs)
    BY <1>1, <1>2, <1>3, <1>5 DEF Pushing
  <2>3. \A s \in Conns : Pushing(s)' = Pushing(s)
    BY <1>4, <2>2
  <2>4. ASSUME NEW s \in Conns
        PROVE  /\ Cardinality(Calling(s)') =< MaxCalls
               /\ Cardinality(Pushing(s)') =< Cardinality(Pushing(s))
               /\ Cardinality(Pushing(s)') \in Nat
    BY <1>4, <2>3, Sizes
  <2>5. QED
    BY <1>1, <1>4, <2>1, <2>3, <2>4, JobKept
<1>6. CASE ~SameHeightAgain(k)
  <2>1. new \in Pushing(k.cs)' /\ lastBlockHeight'[k.cs] = new.t.height
    BY <1>1, <1>2, <1>3, <1>6 DEF Pushing
  <2>2. Lasting(k.cs)'
    BY <2>1 DEF Lasting
  <2>3. ASSUME NEW s \in Conns, s # k.cs, lastBlockHeight'[s] # 0
        PROVE  Lasting(s)'
    <3>1. lastBlockHeight'[s] = lastBlockHeight[s] /\ Pushing(s)' = Pushing(s)
      BY <1>1, <1>4, <2>3
    <3>2. Lasting(s)
      BY <2>3, <3>1 DEF JobInv
    <3>3. QED
      BY <1>1, <3>1, <3>2 DEF Lasting
  <2>4. QED
    BY <1>4, <2>2, <2>3 DEF JobInv
<1>7. QED
  BY <1>5, <1>6

LEMMA JobPush ==
    ASSUME CallsRemembered, TypeInv, TypeInv', JobInv, NEW k \in tasks, PushJob(k)
    PROVE  JobInv'
<1> DEFINE new == [k EXCEPT !.pc = "send"]
           q == validJobs[k.cs]
           e == NewJob(k.t)
           r == Remembered(Append(q, e))
           d == Len(q) + 1 - Len(r)
<1>1. /\ k.cs \in Conns /\ k \in Task /\ k.t \in Template /\ k.pc = "push"
      /\ validJobs \in [Conns -> Seq(Job)]
      /\ validJobs' = [validJobs EXCEPT ![k.cs] = r]
      /\ Replace(k, new) /\ UNCHANGED lastBlockHeight
  BY TaskType, TypeParts DEF PushJob, Continue, Task, MemoryInv
<1>2. new.cs = k.cs /\ new.pc = "send"
  BY <1>1 DEF Task
<1>3. tasks' = (tasks \ {k}) \cup {new}
  BY <1>1 DEF Replace
<1> HIDE DEF new
<1>4. /\ IsFiniteSet(tasks')
      /\ \A s \in Conns : Cardinality(Calling(s)') =< MaxCalls
      /\ \A s \in Conns : s # k.cs => Pushing(s)' = Pushing(s)
  BY <1>1, <1>2, Replaced
<1>5. q \in Seq(Job) /\ Len(q) =< MaxJobs /\ e \in Job /\ e.t = k.t
  <2>1. e.t = k.t
    BY DEF NewJob
  <2>2. QED
    BY <1>1, <2>1, NewJobType, TypeParts DEF MemoryInv
<1>6. /\ r \in Seq(Job) /\ Len(r) \in 1 .. MaxJobs /\ d \in {0, 1}
      /\ d = 1 => Len(r) = MaxJobs
      /\ r[Len(r)] = e
      /\ \A i \in 1 .. Len(r) - 1 : i + d \in 1 .. Len(q) /\ r[i] = q[i + d]
  <2> HIDE DEF q, e
  <2>1. QED
    BY <1>5, RememberedJobs
<1>7. validJobs'[k.cs] = r
  BY <1>1
<1> DEFINE P == Cardinality(Pushing(k.cs))
<1>8. /\ Pushing(k.cs)' = Pushing(k.cs) \ {k} /\ k \in Pushing(k.cs)
      /\ P \in Nat /\ P =< MaxCalls /\ 1 =< P
      /\ Cardinality(Pushing(k.cs)') = P - 1
  <2>1. Pushing(k.cs)' = Pushing(k.cs) \ {k} /\ k \in Pushing(k.cs)
    BY <1>1, <1>2, <1>3 DEF Pushing
  <2>2. IsFiniteSet(Pushing(k.cs)) /\ P \in Nat /\ P =< MaxCalls
    BY <1>1, Sizes, StratumAssumption
  <2>3. Cardinality(Pushing(k.cs)') = P - 1 /\ Cardinality(Pushing(k.cs)') \in Nat
    BY <2>1, <2>2, FS_RemoveElement, FS_CardinalityType
  <2>4. QED
    BY <2>1, <2>2, <2>3
<1> HIDE DEF P, q, e, r, d
<1>9. ASSUME lastBlockHeight[k.cs] # 0
      PROVE  Lasting(k.cs)'
  <2>1. Lasting(k.cs)
    BY <1>1, <1>9 DEF JobInv
  <2>2. CASE k.t.height = lastBlockHeight[k.cs]
    <3>1. Len(r) \in DOMAIN validJobs'[k.cs] /\ validJobs'[k.cs][Len(r)].t.height = lastBlockHeight'[k.cs]
      BY <1>1, <1>5, <1>6, <1>7, <2>2
    <3>2. Len(validJobs'[k.cs]) - Len(r) + Cardinality(Pushing(k.cs)') < MaxJobs
      BY <1>6, <1>7, <1>8, StratumAssumption DEF CallsRemembered
    <3>3. QED
      BY <3>1, <3>2 DEF Lasting
  <2>3. ASSUME NEW m \in Pushing(k.cs), m # k, m.t.height = lastBlockHeight[k.cs]
        PROVE  Lasting(k.cs)'
    BY <1>1, <1>8, <2>3 DEF Lasting
  <2>4. ASSUME NEW i \in DOMAIN q, q[i].t.height = lastBlockHeight[k.cs],
               Len(q) - i + P < MaxJobs
        PROVE  Lasting(k.cs)'
    <3>1. i \in 1 .. Len(q) /\ Len(q) \in Nat /\ Len(r) \in Nat /\ MaxJobs \in Nat
      BY <1>5, <1>6, <2>4, StratumAssumption
    <3>2. d = Len(q) + 1 - Len(r)
      BY DEF d
    <3>3. i - d \in 1 .. Len(r) - 1
      BY <1>6, <1>8, <2>4, <3>1, <3>2
    <3>4. r[i - d] = q[i] /\ i - d \in DOMAIN r
      BY <1>6, <3>1, <3>3
    <3>5. Len(r) - (i - d) + Cardinality(Pushing(k.cs)') < MaxJobs
      BY <1>6, <1>8, <2>4, <3>1, <3>2
    <3>6. QED
      BY <1>1, <1>7, <2>4, <3>4, <3>5 DEF Lasting
  <2>5. QED
    BY <2>1, <2>2, <2>3, <2>4 DEF Lasting, P, q
<1>10. ASSUME NEW s \in Conns, s # k.cs, lastBlockHeight'[s] # 0
       PROVE  Lasting(s)'
  <2>1. validJobs'[s] = validJobs[s] /\ Pushing(s)' = Pushing(s) /\ Lasting(s)
    BY <1>1, <1>4, <1>10 DEF JobInv
  <2>2. QED
    BY <1>1, <2>1 DEF Lasting
<1>11. QED
  BY <1>1, <1>4, <1>9, <1>10 DEF JobInv

LEMMA TaskJob ==
    ASSUME CallsRemembered, TypeInv, TypeInv', JobInv, NEW k \in tasks, TaskStep(k)
    PROVE  JobInv'
<1>1. CASE Swap(k) \/ PushJob(k)
  BY <1>1, JobSwap, JobPush
<1>2. ASSUME NEW x, x.pc \in {"send", "recv", "remove"}, x \in Task, Leave(k, x)
      PROVE  \/ tasks' = tasks \ {k}
             \/ \E new : /\ tasks' = (tasks \ {k}) \cup {new}
                         /\ new.pc \in {"recv", "remove"}
  <2> DEFINE new == [x EXCEPT !.pc = After(x)]
  <2>1. new.pc = After(x)
    BY <1>2 DEF Task
  <2>2. \/ tasks' = tasks \ {k}
        \/ After(x) \in {"recv", "remove"} /\ tasks' = (tasks \ {k}) \cup {new}
    BY <1>2 DEF Leave, Replace, After
  <2> HIDE DEF new
  <2>3. QED
    BY <2>1, <2>2
<1>3. k \in Task
  BY TaskType
<1>4. ASSUME NEW x \in {k, [k EXCEPT !.err = TRUE], [k EXCEPT !.from = "alone"]}
      PROVE  x \in Task /\ x.pc = k.pc
  BY <1>3 DEF Task
<1>5. CASE Push(k) \/ Receive(k) \/ RemoveFailed(k)
  <2>1. /\ UNCHANGED <<lastBlockHeight, validJobs>> /\ k.pc \in {"send", "recv", "remove"}
        /\ \E x \in {k, [k EXCEPT !.err = TRUE], [k EXCEPT !.from = "alone"]} : Leave(k, x)
    BY <1>5 DEF Push, Receive, RemoveFailed, jobVars
  <2>2. k.pc # "push"
    BY <2>1
  <2>3. PICK x \in {k, [k EXCEPT !.err = TRUE], [k EXCEPT !.from = "alone"]} : Leave(k, x)
    BY <2>1
  <2>4. x \in Task /\ x.pc = k.pc
    BY <1>4, <2>3
  <2>5. x.pc \in {"send", "recv", "remove"}
    BY <2>1, <2>4
  <2>6. \/ tasks' = tasks \ {k}
        \/ \E new : /\ tasks' = (tasks \ {k}) \cup {new}
                    /\ new.pc \in {"recv", "remove"}
    BY <1>2, <2>3, <2>4, <2>5
  <2>7. QED
    BY <2>1, <2>2, <2>6, JobLeave
<1>6. CASE Reply(k)
  BY <1>6, JobLeave DEF Reply, jobVars
<1>7. QED
  BY <1>1, <1>5, <1>6 DEF TaskStep

LEMMA JobQuiet ==
    ASSUME TypeInv, TypeInv', JobInv, UNCHANGED <<lastBlockHeight, tasks>>,
           \A s \in Conns : /\ Len(validJobs'[s]) = Len(validJobs[s])
                            /\ \A i \in DOMAIN validJobs[s] :
                                  validJobs'[s][i].t = validJobs[s][i].t
    PROVE  JobInv'
<1>1. \A s \in Conns : Pushing(s)' = Pushing(s) /\ Calling(s)' = Calling(s)
  BY DEF Pushing, Calling
<1>2. IsFiniteSet(tasks')
  BY DEF JobInv
<1>3. ASSUME NEW s \in Conns
      PROVE  /\ Cardinality(Calling(s)') =< MaxCalls
             /\ Cardinality(Pushing(s)') =< Cardinality(Pushing(s))
             /\ Cardinality(Pushing(s)') \in Nat
  BY <1>1, Sizes
<1>4. QED
  BY <1>1, <1>2, <1>3, JobKept

LEMMA NextJob ==
    ASSUME CallsRemembered, TypeInv, TypeInv', JobInv, [Next]_vars
    PROVE  JobInv'
<1>1. CASE UNCHANGED <<lastBlockHeight, tasks, validJobs>>
  BY <1>1, JobQuiet
<1>2. ASSUME NEW th \in Threads, Refresh(th)
      PROVE  JobInv'
  <2>1. ASSUME NEW s \in Conns, Spawn(th, s)
        PROVE  JobInv'
    BY <2>1, JobStart DEF Spawn, jobVars
  <2>2. CASE RUnlock(th)
    BY <2>2, JobUnlock
  <2>3. CASE Fetch(th) \/ Compare(th) \/ Store(th) \/ Load(th) \/ RLock(th)
    BY <1>1, <2>3 DEF Fetch, Compare, Store, Load, RLock, jobVars
  <2>4. QED
    BY <1>2, <2>1, <2>2, <2>3 DEF Refresh
<1>3. ASSUME NEW s \in Conns, HandlerStep(s)
      PROVE  JobInv'
  <2>1. CASE Register(s)
    BY <2>1, JobStart DEF Register, jobVars
  <2>2. CASE ~Register(s)
    BY <1>1, <1>3, <2>2 DEF HandlerStep, Refuse, AcceptShare, FindBlock, SubmitBlock,
       AnswerSubmit, Close, jobVars
  <2>3. QED
    BY <2>1, <2>2
<1>4. ASSUME NEW s \in Conns, Request(s)
      PROVE  JobInv'
  <2>1. CASE GetJob(s)
    BY <2>1, JobStart DEF GetJob, jobVars
  <2>2. CASE Login(s) \/ Drop(s)
    BY <1>1, <2>2 DEF Login, Drop, jobVars
  <2>3. ASSUME NEW x \in FindJob(s), NEW nonce \in Nonces, Submit(s, x, nonce)
        PROVE  JobInv'
    <3> DEFINE job == validJobs[s][x]
               new == WithSubmission(job, nonce)
    <3>1. /\ validJobs \in [Conns -> Seq(Job)] /\ x \in DOMAIN validJobs[s] /\ job \in Job
          /\ UNCHANGED <<lastBlockHeight, tasks>>
          /\ validJobs' = [validJobs EXCEPT ![s][x] = new]
      BY <2>3, HandlerFacts, TypeParts DEF Submit, FindJob, MemoryInv
    <3>2. new.t = job.t /\ new \in Job
      BY <3>1 DEF WithSubmission, Job
    <3> HIDE DEF new
    <3>3. ASSUME NEW r \in Conns
          PROVE  /\ Len(validJobs'[r]) = Len(validJobs[r])
                 /\ \A i \in DOMAIN validJobs[r] : validJobs'[r][i].t = validJobs[r][i].t
      <4>1. CASE r = s
        <5>1. validJobs'[s] = [validJobs[s] EXCEPT ![x] = new] /\ validJobs[s] \in Seq(Job)
          BY <3>1
        <5>2. Len(validJobs'[s]) = Len(validJobs[s])
          BY <3>1, <3>2, <5>1
        <5>3. \A i \in DOMAIN validJobs[s] :
                validJobs'[s][i] = IF i = x THEN new ELSE validJobs[s][i]
          BY <3>1, <5>1
        <5>4. QED
          BY <3>2, <4>1, <5>2, <5>3
      <4>2. CASE r # s
        BY <3>1, <4>2
      <4>3. QED
        BY <4>1, <4>2
    <3>4. QED
      BY <3>1, <3>3, JobQuiet
  <2>4. QED
    BY <1>4, <2>1, <2>2, <2>3 DEF Request
<1>5. CASE MineElsewhere \/ Tick \/ UNCHANGED vars
  BY <1>1, <1>5 DEF MineElsewhere, Tick, vars, jobVars
<1>6. QED
  BY <1>2, <1>3, <1>4, <1>5, TaskJob DEF Next

(* A session whose next job would be empty can still submit to the one it  *)
(* was given at this height: the calls that swapped lastBlockHeight before *)
(* push their jobs after it, but there are too few of them for pushJob to  *)
(* evict it.                                                               *)
THEOREM GivenJobsFound ==
    ASSUME CallsRemembered
    PROVE  Spec => []GivenJobFindable
<1>1. Init => JobInv
  <2> SUFFICES ASSUME Init PROVE JobInv
    OBVIOUS
  <2>1. tasks = {} /\ \A s \in Conns : lastBlockHeight[s] = 0
    BY DEF Init
  <2>2. \A s \in Conns : Calling(s) = {}
    BY <2>1 DEF Calling
  <2>3. QED
    BY <2>1, <2>2, FS_EmptySet, StratumAssumption DEF JobInv
<1>2. TypeInv /\ TypeInv' /\ JobInv /\ [Next]_vars => JobInv'
  BY NextJob
<1>3. TypeInv /\ [Next]_vars => TypeInv'
  BY NextTypeInv
<1>4. JobInv => GivenJobFindable
  <2> SUFFICES ASSUME JobInv, NEW s \in Conns,
                      \A k \in tasks : k.cs = s => k.pc # "push", lastBlockHeight[s] # 0
               PROVE  \E i \in DOMAIN validJobs[s] :
                         validJobs[s][i].t.height = lastBlockHeight[s]
    BY DEF GivenJobFindable
  <2>1. Lasting(s) /\ Pushing(s) = {}
    BY DEF JobInv, Pushing
  <2>2. QED
    BY <2>1 DEF Lasting
<1>5. QED
  BY <1>1, <1>2, <1>3, <1>4, InitTypeInv, PTL DEF Spec
=============================================================================
