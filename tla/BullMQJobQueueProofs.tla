------------------------ MODULE BullMQJobQueueProofs ------------------------
(* Proofs about BullMQJobQueue, for any number of jobs, workers, slots,      *)
(* requests, crashes and stalls: the retries a job was added with are used,  *)
(* the strategy keeps the promise of JobQueue, and nothing is cancelled that *)
(* nobody asked to cancel.                                                   *)
EXTENDS BullMQJobQueue, TLAPS

Open == {"wait", "active", "delayed"}

Record == [state : JobStates, attempts : Nat, made : Nat, stalled : Nat]

RecordTypes ==
    /\ job \in [Jobs -> Record]
    /\ lock \in [Jobs -> (Workers \X Slots) \cup {None}]
    /\ wanted \in [Jobs -> Nat]
    /\ tried \in [Jobs -> Nat]

\* What holds of the record, the lock and the two histories of one job. Every
\* attempt begun was counted as made, ended by a stall, or is the one going on.
JobOK(b, l, want, try) ==
    /\ l # None <=> b.state = "active"
    /\ try = b.made + b.stalled + (IF b.state = "active" THEN 1 ELSE 0)
    /\ b.state = "none" => b.made = 0 /\ b.stalled = 0
    /\ b.made <= want + 1 /\ b.attempts <= want + 1 /\ want <= MaxRetries
    /\ b.stalled <= MaxStalledCount + 1
    /\ b.state \notin {"none", "removed"} => b.attempts = want + 1
    /\ b.state \in Open => b.made < b.attempts /\ b.stalled <= MaxStalledCount
    /\ (b.state = "failed" /\ b.stalled <= MaxStalledCount) => b.made = b.attempts

Inv == RecordTypes /\ \A j \in Jobs : JobOK(job[j], lock[j], wanted[j], tried[j])

-----------------------------------------------------------------------------
\* The record of a job that BullMQ moves to another list.
LEMMA Moved ==
    ASSUME NEW b \in Record, NEW state \in JobStates,
           NEW c, c = [b EXCEPT !.state = state]
    PROVE  c \in Record /\ c.state = state /\ c.attempts = b.attempts /\ c.made = b.made /\ c.stalled = b.stalled
BY DEF Record

LEMMA InitInv == Init => Inv
BY BullMQAssumption DEF Init, Inv, RecordTypes, Record, JobOK, JobStates, Open, BullMQAssumption

\* Only the record, the lock and the histories of one job change.
LEMMA OneJobChanges ==
    ASSUME Inv, NEW j \in Jobs,
           NEW b \in Record,
           NEW l \in (Workers \X Slots) \cup {None}, NEW want \in Nat, NEW try \in Nat,
           JobOK(b, l, want, try),
           job' = [job EXCEPT ![j] = b], lock' = [lock EXCEPT ![j] = l],
           wanted' = [wanted EXCEPT ![j] = want], tried' = [tried EXCEPT ![j] = try]
    PROVE  Inv'
BY DEF Inv, RecordTypes

\* Nothing of what Inv speaks of changes.
LEMMA NothingChanges ==
    ASSUME Inv, UNCHANGED <<job, lock, wanted, tried>>
    PROVE  Inv'
BY DEF Inv, RecordTypes

LEMMA AddInv ==
    ASSUME Inv, NEW j \in Jobs, NEW retries \in 0 .. MaxRetries, Add(j, retries)
    PROVE  Inv'
<1> DEFINE b == [job[j] EXCEPT !.state = "wait", !.attempts = retries + 1]
<1>1. retries \in Nat
  BY BullMQAssumption DEF BullMQAssumption
<1>2. job[j] \in Record
  BY DEF Inv, RecordTypes
<1>3. /\ b \in Record
      /\ b.state = "wait" /\ b.attempts = retries + 1
      /\ b.made = job[j].made /\ b.stalled = job[j].stalled
  <2>1. "wait" \in JobStates /\ retries + 1 \in Nat
    BY <1>1 DEF JobStates
  <2>2. b = [job[j] EXCEPT !.state = "wait", !.attempts = retries + 1]
    OBVIOUS
  <2> HIDE DEF b
  <2> QED
    BY <1>2, <2>1, <2>2 DEF Record
<1>4. job[j].state = "none" /\ JobOK(job[j], lock[j], wanted[j], tried[j])
  BY DEF Inv, Add
<1>5. MaxStalledCount \in Nat /\ tried[j] \in Nat
  BY BullMQAssumption DEF BullMQAssumption, Inv, RecordTypes
<1>6. /\ job' = [job EXCEPT ![j] = b] /\ wanted' = [wanted EXCEPT ![j] = retries]
      /\ lock' = [lock EXCEPT ![j] = lock[j]] /\ tried' = [tried EXCEPT ![j] = tried[j]]
  BY DEF Add, Inv, RecordTypes, AttemptsOf
<1> HIDE DEF b
<1>7. JobOK(b, lock[j], retries, tried[j])
  BY <1>1, <1>2, <1>3, <1>4, <1>5 DEF JobOK, Open
<1>8. lock[j] \in (Workers \X Slots) \cup {None}
  BY DEF Inv, RecordTypes
<1> QED
  BY <1>1, <1>3, <1>5, <1>6, <1>7, <1>8, OneJobChanges

LEMMA PromoteInv ==
    ASSUME Inv, NEW j \in Jobs, Promote(j)
    PROVE  Inv'
<1> DEFINE b == [job[j] EXCEPT !.state = "wait"]
<1>1. job[j] \in Record
  BY DEF Inv, RecordTypes
<1>2. /\ b \in Record
      /\ b.stalled = job[j].stalled /\ b.made = job[j].made /\ b.attempts = job[j].attempts
      /\ b.state = "wait"
  <2>1. "wait" \in JobStates
    BY DEF JobStates
  <2> QED
    BY <1>1, <2>1, Moved
<1>3. job[j].state = "delayed" /\ JobOK(job[j], lock[j], wanted[j], tried[j])
  BY DEF Inv, Promote
<1>4. /\ job' = [job EXCEPT ![j] = b] /\ wanted' = [wanted EXCEPT ![j] = wanted[j]]
      /\ lock' = [lock EXCEPT ![j] = lock[j]] /\ tried' = [tried EXCEPT ![j] = tried[j]]
  BY DEF Promote, Inv, RecordTypes, history
<1> HIDE DEF b
<1>5. JobOK(b, lock[j], wanted[j], tried[j])
  BY <1>1, <1>2, <1>3 DEF JobOK, Open
<1>6. lock[j] \in (Workers \X Slots) \cup {None} /\ wanted[j] \in Nat /\ tried[j] \in Nat
  BY DEF Inv, RecordTypes
<1> QED
  BY <1>2, <1>4, <1>5, <1>6, OneJobChanges

LEMMA StalledInv ==
    ASSUME Inv, NEW j \in Jobs, Stalled(j)
    PROVE  Inv'
<1> DEFINE state == IF job[j].stalled >= MaxStalledCount THEN "failed" ELSE "wait"
           n == job[j].stalled + 1
           b == [job[j] EXCEPT !.stalled = n, !.state = state]
<1>1. job[j] \in Record
  BY DEF Inv, RecordTypes
<1>2. /\ b \in Record
      /\ b.stalled = n /\ b.made = job[j].made /\ b.attempts = job[j].attempts
      /\ b.state = state
  <2>1. state \in JobStates
    BY DEF JobStates
  <2>2. n \in Nat
    BY <1>1 DEF Record
  <2>3. b = [job[j] EXCEPT !.stalled = n, !.state = state]
    OBVIOUS
  <2> HIDE DEF n, state, b
  <2> QED
    BY <1>1, <2>1, <2>2, <2>3 DEF Record
<1>3. job[j].state = "active" /\ wanted[j] \in Nat /\ tried[j] \in Nat /\ MaxStalledCount \in Nat
  BY BullMQAssumption DEF Stalled, Inv, RecordTypes, BullMQAssumption
<1>4. JobOK(job[j], lock[j], wanted[j], tried[j])
  BY DEF Inv
<1>5. /\ job' = [job EXCEPT ![j] = b] /\ wanted' = [wanted EXCEPT ![j] = wanted[j]]
      /\ lock' = [lock EXCEPT ![j] = None] /\ tried' = [tried EXCEPT ![j] = tried[j]]
  BY DEF Stalled, Inv, RecordTypes, history
<1> HIDE DEF b
<1>6. JobOK(b, None, wanted[j], tried[j])
  <2>1. job[j].stalled \in Nat /\ job[j].made \in Nat /\ job[j].attempts \in Nat
    BY <1>1 DEF Record
  <2> QED
    BY <1>2, <1>3, <1>4, <2>1 DEF JobOK, Open
<1> QED
  BY <1>2, <1>3, <1>5, <1>6, OneJobChanges

LEMMA TakeInv ==
    ASSUME Inv, NEW w \in Workers, NEW s \in Slots, NEW j \in Jobs, Take(w, s, j)
    PROVE  Inv'
<1> DEFINE b == [job[j] EXCEPT !.state = "active"]
<1>1. job[j] \in Record
  BY DEF Inv, RecordTypes
<1>2. /\ b \in Record
      /\ b.stalled = job[j].stalled /\ b.made = job[j].made /\ b.attempts = job[j].attempts
      /\ b.state = "active"
  <2>1. "active" \in JobStates
    BY DEF JobStates
  <2> QED
    BY <1>1, <2>1, Moved
<1>3. job[j].state = "wait" /\ wanted[j] \in Nat /\ tried[j] \in Nat
  BY DEF Take, Inv, RecordTypes
<1>4. JobOK(job[j], lock[j], wanted[j], tried[j])
  BY DEF Inv
<1>5. /\ job' = [job EXCEPT ![j] = b] /\ wanted' = [wanted EXCEPT ![j] = wanted[j]]
      /\ lock' = [lock EXCEPT ![j] = <<w, s>>] /\ tried' = [tried EXCEPT ![j] = tried[j] + 1]
  BY DEF Take, Inv, RecordTypes
<1> HIDE DEF b
<1>6. JobOK(b, <<w, s>>, wanted[j], tried[j] + 1)
  <2>1. job[j].stalled \in Nat /\ job[j].made \in Nat /\ job[j].attempts \in Nat
    BY <1>1 DEF Record
  <2>2. <<w, s>> # None
    BY NoLock DEF NoLock
  <2> QED
    BY <1>2, <1>3, <1>4, <2>1, <2>2 DEF JobOK, Open
<1>7. <<w, s>> \in (Workers \X Slots) \cup {None} /\ tried[j] + 1 \in Nat
  BY <1>3
<1> QED
  BY <1>2, <1>3, <1>5, <1>6, <1>7, OneJobChanges

LEMMA SettleInv ==
    ASSUME Inv, NEW w \in Workers, NEW s \in Slots, Settle(w, s)
    PROVE  Inv'
<1> DEFINE a == slot[w][s]
           j == a.job
<1>1. CASE j \in Jobs /\ lock[j] = <<w, s>>
  <2> DEFINE state == CASE a.ok -> "completed"
                        [] ~a.ok /\ job[j].made + 1 >= job[j].attempts -> "failed"
                        [] OTHER -> "delayed"
             n == job[j].made + 1
             b == [job[j] EXCEPT !.made = n, !.state = state]
  <2>1. /\ job[j] \in Record
        /\ state \in JobStates
    BY <1>1 DEF Inv, RecordTypes, JobStates
  <2> HIDE DEF state
  <2>2. /\ b \in Record
        /\ b.stalled = job[j].stalled /\ b.made = n /\ b.attempts = job[j].attempts
        /\ b.state = state
    <3>1. n \in Nat
      BY <2>1 DEF Record
    <3>2. b = [job[j] EXCEPT !.made = n, !.state = state]
      OBVIOUS
    <3> HIDE DEF n, b
    <3> QED
      BY <2>1, <3>1, <3>2 DEF Record
  <2>3. JobOK(job[j], lock[j], wanted[j], tried[j]) /\ wanted[j] \in Nat /\ tried[j] \in Nat
    BY <1>1 DEF Inv, RecordTypes
  <2>4. job[j].state = "active"
    <3>1. lock[j] # None
      BY <1>1, NoLock DEF NoLock
    <3> QED
      BY <2>3, <3>1 DEF JobOK
  <2>5. /\ job' = [job EXCEPT ![j] = b] /\ wanted' = [wanted EXCEPT ![j] = wanted[j]]
        /\ lock' = [lock EXCEPT ![j] = None] /\ tried' = [tried EXCEPT ![j] = tried[j]]
    BY <1>1 DEF Settle, Inv, RecordTypes, history, state
  <2>6. \/ state = "completed"
        \/ state = "failed" /\ n >= job[j].attempts
        \/ state = "delayed" /\ ~(n >= job[j].attempts)
    BY DEF state
  <2> HIDE DEF b
  <2>7. JobOK(b, None, wanted[j], tried[j])
    <3>1. job[j].stalled \in Nat /\ job[j].made \in Nat /\ job[j].attempts \in Nat
      BY <2>1 DEF Record
    <3> QED
      BY <2>2, <2>3, <2>4, <2>6, <3>1 DEF JobOK, Open
  <2> QED
    BY <1>1, <2>2, <2>3, <2>5, <2>7, OneJobChanges
<1>2. CASE ~(j \in Jobs /\ lock[j] = <<w, s>>)
  BY <1>2, NothingChanges DEF Settle, Inv, RecordTypes, history
<1> QED
  BY <1>1, <1>2

\* cancelJob and removeSettledJobs remove records of jobs that nobody has.
LEMMA RemoveInv ==
    ASSUME Inv, NEW set \in SUBSET Jobs, \A j \in set : lock[j] = None /\ job[j].state # "active",
           job' = [j \in Jobs |-> IF j \in set THEN [job[j] EXCEPT !.state = "removed"] ELSE job[j]],
           UNCHANGED <<lock, wanted, tried>>
    PROVE  Inv'
<1>1. \A j \in Jobs : job[j] \in Record
  BY DEF Inv, RecordTypes
<1>2. RecordTypes'
  <2>1. "removed" \in JobStates
    BY DEF JobStates
  <2>2. \A j \in Jobs : [job[j] EXCEPT !.state = "removed"] \in Record
    BY <1>1, <2>1, Moved
  <2> QED
    BY <1>1, <2>2 DEF Inv, RecordTypes
<1>3. ASSUME NEW j \in Jobs PROVE JobOK(job'[j], lock'[j], wanted'[j], tried'[j])
  <2>1. JobOK(job[j], lock[j], wanted[j], tried[j])
    BY DEF Inv
  <2>2. CASE j \in set
    <3> DEFINE b == [job[j] EXCEPT !.state = "removed"]
    <3>1. /\ b.state = "removed" /\ b.made = job[j].made /\ b.stalled = job[j].stalled
          /\ b.attempts = job[j].attempts
      BY <1>1 DEF Record
    <3>2. job'[j] = b
      BY <2>2
    <3> HIDE DEF b
    <3> QED
      BY <2>1, <2>2, <3>1, <3>2 DEF JobOK, Open
  <2>3. CASE j \notin set
    BY <2>1, <2>3
  <2> QED
    BY <2>2, <2>3
<1> QED
  BY <1>2, <1>3 DEF Inv

LEMMA RemoveJobInv ==
    ASSUME Inv, NEW r \in Requests, RemoveJob(r)
    PROVE  Inv'
<1> DEFINE j == request[r].job
<1>1. CASE j \in Jobs /\ lock[j] = None
  <2>1. job' = [job EXCEPT ![j] = [job[j] EXCEPT !.state = "removed"]]
    BY <1>1 DEF RemoveJob
  <2>2. job' = [i \in Jobs |-> IF i \in {j} THEN [job[i] EXCEPT !.state = "removed"] ELSE job[i]]
    BY <1>1, <2>1 DEF Inv, RecordTypes
  <2>3. job[j].state # "active" /\ UNCHANGED <<lock, wanted, tried>>
    BY <1>1 DEF RemoveJob, history, Inv, JobOK
  <2> HIDE DEF j
  <2>4. {j} \in SUBSET Jobs /\ \A i \in {j} : lock[i] = None /\ job[i].state # "active"
    BY <1>1, <2>3
  <2> QED
    BY <2>2, <2>3, <2>4, RemoveInv
<1>2. CASE ~(j \in Jobs /\ lock[j] = None)
  BY <1>2, NothingChanges DEF RemoveJob, Inv, RecordTypes, history
<1> QED
  BY <1>1, <1>2

LEMMA CleanInv ==
    ASSUME Inv, NEW r \in Requests, NEW set \in SUBSET Jobs, Clean(r, set)
    PROVE  Inv'
<1>1. \A j \in set : lock[j] = None /\ job[j].state # "active"
  BY DEF Clean, Inv, JobOK
<1>2. /\ job' = [j \in Jobs |-> IF j \in set THEN [job[j] EXCEPT !.state = "removed"] ELSE job[j]]
      /\ UNCHANGED <<lock, wanted, tried>>
  BY DEF Clean, history
<1> QED
  BY <1>1, <1>2, RemoveInv

-----------------------------------------------------------------------------
(* Attempts, requests and the rest.                                         *)

AttemptSet == [job : Jobs, step : {"create", "begin", "process", "srem", "settle"},
               cancelled : BOOLEAN, ok : BOOLEAN]

RequestSet == [op : {"find", "cancel", "cancelActive", "cancelInactive"}, job : Jobs,
               step : Checks \cup Answers \cup {"isActiveToCancel", "publish", "sadd", "remove"}]

CleanSet == [op : {"clean"}, job : {None}, step : {"completed", "failed"}]

WorkerSet == [status : {"off", "ready", "subscribing", "running", "closing", "closed"},
              registered : SUBSET Queues, inbox : SUBSET Jobs]

Exists(j) == job[j].state # "none"

\* An attempt is of a job that exists, and it succeeds only when the process
\* function returned.
SlotOK(a) == a # Free => Exists(a.job) /\ (a.ok => a.job \in returned)

SlotsOK ==
    /\ slot \in [Workers -> [Slots -> {Free} \cup AttemptSet]]
    /\ \A w \in Workers, s \in Slots : SlotOK(slot[w][s])

\* A request about a job is about one that exists.
RequestsOK ==
    /\ request \in [Requests -> {NoRequest} \cup CleanSet \cup RequestSet]
    /\ \A r \in Requests : request[r].job \in Jobs => Exists(request[r].job)

RestOK ==
    /\ paused \in BOOLEAN
    /\ cancelledJobs \in SUBSET Jobs
    /\ worker \in [Workers -> WorkerSet]
    /\ made \in 0 .. MaxRequests /\ crashes \in 0 .. MaxCrashes /\ stalls \in 0 .. MaxStalls
    /\ returned \in SUBSET Jobs
    /\ asked \in SUBSET Jobs

IInv == Inv /\ SlotsOK /\ RequestsOK /\ RestOK

JobsStay == \A j \in Jobs : Exists(j) => Exists(j)'

\* Attempts and requests that do not change stay as good as they were.
LEMMA SlotsKept ==
    ASSUME SlotsOK, JobsStay, UNCHANGED slot, returned \subseteq returned'
    PROVE  SlotsOK'
BY DEF SlotsOK, SlotOK, JobsStay, AttemptSet

LEMMA RequestsKept ==
    ASSUME RequestsOK, JobsStay, UNCHANGED request
    PROVE  RequestsOK'
BY DEF RequestsOK, JobsStay

\* One attempt changes.
LEMMA SlotChanges ==
    ASSUME SlotsOK, JobsStay, returned \subseteq returned',
           NEW w \in Workers, NEW s \in Slots, NEW a \in {Free} \cup AttemptSet,
           SlotOK(a)', slot' = [slot EXCEPT ![w][s] = a]
    PROVE  SlotsOK'
<1>1. slot' \in [Workers -> [Slots -> {Free} \cup AttemptSet]]
  BY DEF SlotsOK
<1>2. ASSUME NEW v \in Workers, NEW t \in Slots PROVE SlotOK(slot[v][t])'
  <2>1. CASE v = w /\ t = s
    BY <2>1 DEF SlotsOK, SlotOK
  <2>2. CASE ~(v = w /\ t = s)
    <3>1. slot'[v][t] = slot[v][t]
      BY <2>2 DEF SlotsOK
    <3> QED
      BY <3>1 DEF SlotsOK, SlotOK, JobsStay, AttemptSet
  <2> QED
    BY <2>1, <2>2
<1> QED
  BY <1>1, <1>2 DEF SlotsOK

\* One request changes.
LEMMA RequestChanges ==
    ASSUME RequestsOK, JobsStay, NEW r \in Requests,
           NEW q \in {NoRequest} \cup CleanSet \cup RequestSet,
           q.job \in Jobs => Exists(q.job)', request' = [request EXCEPT ![r] = q]
    PROVE  RequestsOK'
BY DEF RequestsOK, JobsStay

LEMMA InitIInv == Init => IInv
<1> SUFFICES ASSUME Init PROVE IInv
  OBVIOUS
<1>1. Inv
  BY InitInv
<1>2. SlotsOK
  BY DEF Init, SlotsOK, SlotOK
<1>3. RequestsOK
  BY BullMQAssumption DEF Init, RequestsOK, NoRequest, BullMQAssumption
<1>4. RestOK
  BY BullMQAssumption DEF Init, RestOK, WorkerSet, Off, BullMQAssumption
<1> QED
  BY <1>1, <1>2, <1>3, <1>4 DEF IInv

LEMMA JobsUnchanged ==
    ASSUME Inv, UNCHANGED <<job, lock, wanted, tried>>
    PROVE  Inv' /\ JobsStay
BY NothingChanges DEF JobsStay, Exists

\* What an attempt that is under way is.
LEMMA UnderWay ==
    ASSUME SlotsOK, NEW w \in Workers, NEW s \in Slots, slot[w][s].step # "free"
    PROVE  /\ slot[w][s] \in AttemptSet
           /\ slot[w][s].job \in Jobs
           /\ Exists(slot[w][s].job)
           /\ slot[w][s].ok => slot[w][s].job \in returned
<1>1. slot[w][s] \in {Free} \cup AttemptSet /\ SlotOK(slot[w][s])
  BY DEF SlotsOK
<1>2. slot[w][s] # Free
  BY DEF Free
<1> QED
  BY <1>1, <1>2 DEF SlotOK, AttemptSet

\* What a request about a job is.
LEMMA Asking ==
    ASSUME RequestsOK, NEW r \in Requests,
           request[r].step \in Checks \cup Answers
                                   \cup {"isActiveToCancel", "publish", "sadd", "remove"}
    PROVE  request[r] \in RequestSet /\ request[r].job \in Jobs /\ Exists(request[r].job)
<1>1. request[r] \in {NoRequest} \cup CleanSet \cup RequestSet
  BY DEF RequestsOK
<1>2. request[r] \notin {NoRequest} \cup CleanSet
  BY DEF NoRequest, CleanSet, Checks, Answers
<1>3. request[r] \in RequestSet
  BY <1>1, <1>2
<1> QED
  BY <1>3 DEF RequestSet, RequestsOK

-----------------------------------------------------------------------------
(* Processes.                                                               *)

LEMMA ProcessIInv ==
    ASSUME IInv, NEW w \in Workers,
           \/ InitStrategy(w) \/ Subscribe(w) \/ Stop(w) \/ Closed(w)
           \/ \E q \in Queues : Start(w, q)
    PROVE  IInv'
<1> USE DEF IInv
<1>1. UNCHANGED <<job, lock, wanted, tried, slot, request, returned, asked, cancelledJobs>>
      /\ UNCHANGED <<made, crashes, stalls>> /\ paused' \in BOOLEAN
  BY DEF InitStrategy, Subscribe, Stop, Closed, Start, redisVars, history, counters,
         PausedAfterInit, RestOK
<1>2. worker' \in [Workers -> WorkerSet]
  <2>1. worker \in [Workers -> WorkerSet]
    BY DEF RestOK
  <2>2. /\ worker[w] \in WorkerSet
        /\ \A x \in WorkerSet : [worker EXCEPT ![w] = x] \in [Workers -> WorkerSet]
    BY <2>1
  <2>3. \A st \in {"ready", "running", "closing", "closed"} :
            [worker[w] EXCEPT !.status = st] \in WorkerSet
    BY <2>2 DEF WorkerSet
  <2>4. CASE InitStrategy(w)
    <3>1. worker' = [worker EXCEPT ![w] = [worker[w] EXCEPT !.status = "ready"]]
      BY <2>4 DEF InitStrategy
    <3> QED
      BY <2>2, <2>3, <3>1
  <2>5. CASE Subscribe(w)
    <3>1. worker' = [worker EXCEPT ![w] = [worker[w] EXCEPT !.status = "running"]]
      BY <2>5 DEF Subscribe
    <3> QED
      BY <2>2, <2>3, <3>1
  <2>6. CASE Stop(w)
    <3>1. worker' = [worker EXCEPT ![w] = [worker[w] EXCEPT !.status = "closing"]]
      BY <2>6 DEF Stop
    <3> QED
      BY <2>2, <2>3, <3>1
  <2>7. CASE Closed(w)
    <3> DEFINE x == [worker[w] EXCEPT !.status = "closed", !.inbox = {}]
    <3>1. worker' = [worker EXCEPT ![w] = x]
      BY <2>7 DEF Closed
    <3>2. x \in WorkerSet
      BY <2>2 DEF WorkerSet
    <3> QED
      BY <2>2, <3>1, <3>2
  <2>8. ASSUME NEW q \in Queues, Start(w, q) PROVE worker' \in [Workers -> WorkerSet]
    <3> DEFINE x == [worker[w] EXCEPT !.registered = @ \cup {q},
                                      !.status = IF @ = "ready" THEN "subscribing" ELSE @]
    <3>1. worker' = [worker EXCEPT ![w] = x]
      BY <2>8 DEF Start
    <3>2. x \in WorkerSet
      BY <2>2 DEF WorkerSet
    <3> QED
      BY <2>2, <3>1, <3>2
  <2> QED
    BY <2>4, <2>5, <2>6, <2>7, <2>8
<1>3. Inv' /\ SlotsOK' /\ RequestsOK'
  BY <1>1, JobsUnchanged, SlotsKept, RequestsKept
<1> QED
  BY <1>1, <1>2, <1>3 DEF RestOK

LEMMA CrashIInv ==
    ASSUME IInv, NEW w \in Workers, Crash(w)
    PROVE  IInv'
<1> USE DEF IInv
<1>1. /\ UNCHANGED <<job, lock, wanted, tried, request, returned, asked>>
      /\ UNCHANGED <<cancelledJobs, made, stalls, paused>>
  BY DEF Crash, redisVars, history
<1>2. Inv' /\ JobsStay
  BY <1>1, JobsUnchanged
<1>3. SlotsOK'
  <2>1. slot' \in [Workers -> [Slots -> {Free} \cup AttemptSet]]
    BY DEF Crash, SlotsOK
  <2>2. ASSUME NEW v \in Workers, NEW s \in Slots PROVE SlotOK(slot[v][s])'
    <3>1. slot'[v][s] = Free \/ slot'[v][s] = slot[v][s]
      BY DEF Crash, SlotsOK
    <3> QED
      BY <1>1, <3>1 DEF SlotsOK, SlotOK, Exists
  <2> QED
    BY <2>1, <2>2 DEF SlotsOK
<1>4. RequestsOK'
  BY <1>1, <1>2, RequestsKept
<1>5. worker' \in [Workers -> WorkerSet] /\ crashes' \in 0 .. MaxCrashes
  BY BullMQAssumption DEF Crash, RestOK, Off, WorkerSet, BullMQAssumption
<1> QED
  BY <1>1, <1>2, <1>3, <1>4, <1>5 DEF RestOK

-----------------------------------------------------------------------------
(* BullMQ.                                                                  *)

LEMMA ListsIInv ==
    ASSUME IInv, NEW j \in Jobs,
           (\E retries \in 0 .. MaxRetries : Add(j, retries)) \/ Promote(j) \/ Stalled(j)
    PROVE  IInv'
<1> USE DEF IInv
<1>1. Inv'
  BY AddInv, PromoteInv, StalledInv
<1>2. JobsStay
  BY DEF JobsStay, Exists, Add, Promote, Stalled, Inv, RecordTypes, Record
<1>3. UNCHANGED <<paused, cancelledJobs, worker, slot, request, made, crashes, returned, asked>>
  BY DEF Add, Promote, Stalled, history, counters
<1>4. stalls' \in 0 .. MaxStalls
  BY BullMQAssumption DEF Add, Promote, Stalled, counters, RestOK, BullMQAssumption
<1>5. SlotsOK' /\ RequestsOK'
  BY <1>2, <1>3, SlotsKept, RequestsKept
<1> QED
  BY <1>1, <1>3, <1>4, <1>5 DEF RestOK

LEMMA TakeIInv ==
    ASSUME IInv, NEW w \in Workers, NEW s \in Slots, NEW j \in Jobs, Take(w, s, j)
    PROVE  IInv'
<1> USE DEF IInv
<1> DEFINE a == [Free EXCEPT !.job = j,
                   !.step = IF QueueOf[j] \in worker[w].registered THEN "create" ELSE "settle"]
<1>1. Inv'
  BY TakeInv
<1>2. JobsStay /\ Exists(j)'
  BY DEF JobsStay, Exists, Take, Inv, RecordTypes, Record
<1>3. a \in AttemptSet /\ a.job = j /\ a.ok = FALSE
  BY DEF Free, AttemptSet
<1>4. slot' = [slot EXCEPT ![w][s] = a]
  BY DEF Take
<1>5. UNCHANGED <<paused, cancelledJobs, worker, request, counters, returned, asked>>
  BY DEF Take
<1> HIDE DEF a
<1>6. SlotsOK'
  BY <1>2, <1>3, <1>4, <1>5, SlotChanges DEF SlotOK
<1>7. RequestsOK'
  BY <1>2, <1>5, RequestsKept
<1> QED
  BY <1>1, <1>5, <1>6, <1>7 DEF RestOK, counters

LEMMA SettleIInv ==
    ASSUME IInv, NEW w \in Workers, NEW s \in Slots, Settle(w, s)
    PROVE  IInv'
<1> USE DEF IInv
<1>1. Inv'
  BY SettleInv
<1>2. JobsStay
  BY DEF JobsStay, Exists, Settle, Inv, RecordTypes, Record
<1>3. slot' = [slot EXCEPT ![w][s] = Free]
  BY DEF Settle
<1>4. UNCHANGED <<paused, cancelledJobs, worker, request, counters, returned, asked>>
  BY DEF Settle, history
<1>5. SlotsOK'
  BY <1>2, <1>3, <1>4, SlotChanges DEF SlotOK
<1>6. RequestsOK'
  BY <1>2, <1>4, RequestsKept
<1> QED
  BY <1>1, <1>4, <1>5, <1>6 DEF RestOK, counters

-----------------------------------------------------------------------------
(* workerProcessor.                                                         *)

LEMMA AttemptIInv ==
    ASSUME IInv, NEW w \in Workers, NEW s \in Slots,
           \/ CreateJob(w, s) \/ BeginProcess(w, s) \/ RemoveFromCancelled(w, s)
           \/ \E ok \in BOOLEAN : EndProcess(w, s, ok)
    PROVE  IInv'
<1> USE DEF IInv
<1> DEFINE a == slot[w][s]
<1>1. a \in AttemptSet /\ a.job \in Jobs /\ Exists(a.job) /\ (a.ok => a.job \in returned)
  BY UnderWay DEF CreateJob, BeginProcess, RemoveFromCancelled, EndProcess
<1>2. UNCHANGED <<job, lock, wanted, tried, request, worker, paused, made, crashes, stalls, asked>>
  BY DEF CreateJob, BeginProcess, RemoveFromCancelled, EndProcess, redisVars, counters, history
<1>3. Inv' /\ JobsStay /\ job'[a.job].state # "none"
  BY <1>1, <1>2, JobsUnchanged DEF JobsStay, Exists
<1>4. /\ returned \subseteq returned' /\ returned' \in SUBSET Jobs
      /\ cancelledJobs' \in SUBSET Jobs
  BY <1>1 DEF CreateJob, BeginProcess, RemoveFromCancelled, EndProcess, RestOK, redisVars, history
<1>5. SlotsOK'
  <2>1. slot \in [Workers -> [Slots -> {Free} \cup AttemptSet]]
    BY DEF SlotsOK
  <2>2. CASE CreateJob(w, s)
    <3> DEFINE b == [a EXCEPT !.step = IF job[a.job].state = "removed" THEN "settle" ELSE "begin",
                              !.cancelled = job[a.job].state = "active" /\ a.job \in cancelledJobs]
    <3>1. slot' = [slot EXCEPT ![w][s] = b]
      BY <2>1, <2>2 DEF CreateJob
    <3>2. b \in AttemptSet /\ b.job = a.job /\ b.ok = a.ok
      BY <1>1 DEF AttemptSet
    <3> HIDE DEF b
    <3> QED
      BY <1>1, <1>3, <1>4, <3>1, <3>2, SlotChanges DEF SlotOK, Exists
  <2>3. CASE BeginProcess(w, s)
    <3> DEFINE b == [a EXCEPT !.step = "process"]
    <3>1. slot' = [slot EXCEPT ![w][s] = b]
      BY <2>1, <2>3 DEF BeginProcess
    <3>2. b \in AttemptSet /\ b.job = a.job /\ b.ok = a.ok
      BY <1>1 DEF AttemptSet
    <3> HIDE DEF b
    <3> QED
      BY <1>1, <1>3, <1>4, <3>1, <3>2, SlotChanges DEF SlotOK, Exists
  <2>4. CASE RemoveFromCancelled(w, s)
    <3> DEFINE b == [a EXCEPT !.step = "settle"]
    <3>1. slot' = [slot EXCEPT ![w][s] = b]
      BY <2>1, <2>4 DEF RemoveFromCancelled
    <3>2. b \in AttemptSet /\ b.job = a.job /\ b.ok = a.ok
      BY <1>1 DEF AttemptSet
    <3> HIDE DEF b
    <3> QED
      BY <1>1, <1>3, <1>4, <3>1, <3>2, SlotChanges DEF SlotOK, Exists
  <2>5. ASSUME NEW ok \in BOOLEAN, EndProcess(w, s, ok) PROVE SlotsOK'
    <3> DEFINE result == AttemptSucceeds(ok)
               b == [a EXCEPT !.step = "srem", !.ok = result]
    <3>4. result = ok
      BY DEF AttemptSucceeds
    <3>5. slot' = [slot EXCEPT ![w][s].step = "srem", ![w][s].ok = result]
      BY <2>5 DEF EndProcess
    <3> HIDE DEF result
    <3>1. slot' = [slot EXCEPT ![w][s] = b]
      BY <2>1, <3>5
    <3>3. result => a.job \in returned'
      BY <2>5 DEF EndProcess, AttemptSucceeds, result
    <3>2. b \in AttemptSet /\ b.job = a.job /\ b.ok = result
      BY <1>1, <3>4 DEF AttemptSet
    <3> HIDE DEF b
    <3>6. b.ok => b.job \in returned'
      BY <3>2, <3>3
    <3>7. b \in AttemptSet /\ b.job = a.job
      BY <3>2
    <3> QED
      BY <1>1, <1>3, <1>4, <3>1, <3>6, <3>7, SlotChanges DEF SlotOK, Exists
  <2> QED
    BY <2>2, <2>3, <2>4, <2>5
<1>6. RequestsOK'
  BY <1>2, <1>3, RequestsKept
<1> QED
  BY <1>2, <1>3, <1>4, <1>5, <1>6 DEF RestOK

LEMMA DeliverIInv ==
    ASSUME IInv, NEW w \in Workers, NEW j \in Jobs, Deliver(w, j)
    PROVE  IInv'
<1> USE DEF IInv
<1>1. UNCHANGED <<job, lock, wanted, tried, request, returned, asked, cancelledJobs, paused>>
      /\ UNCHANGED <<made, crashes, stalls>>
  BY DEF Deliver, redisVars, history, counters
<1>2. Inv' /\ JobsStay
  BY <1>1, JobsUnchanged
<1>3. slot \in [Workers -> [Slots -> {Free} \cup AttemptSet]]
  BY DEF SlotsOK
<1>4. ASSUME NEW s \in Slots, Concerned(slot[w][s], j)
      PROVE  LET b == [slot[w][s] EXCEPT !.cancelled = TRUE] IN
             b \in AttemptSet /\ b.job = slot[w][s].job /\ b.ok = slot[w][s].ok
  <2>1. slot[w][s] \in AttemptSet
    BY <1>4, UnderWay DEF Concerned
  <2> QED
    BY <2>1 DEF AttemptSet
<1>5. slot' \in [Workers -> [Slots -> {Free} \cup AttemptSet]]
  BY <1>3, <1>4 DEF Deliver
<1>6. ASSUME NEW v \in Workers, NEW s \in Slots PROVE SlotOK(slot[v][s])'
  <2>1. SlotOK(slot[v][s]) /\ slot[v][s] \in {Free} \cup AttemptSet
    BY <1>3 DEF SlotsOK
  <2>2. CASE slot'[v][s] = slot[v][s]
    BY <1>1, <2>1, <2>2 DEF SlotOK, Exists
  <2>3. CASE v = w /\ Concerned(slot[w][s], j)
    <3>1. slot'[v][s] = [slot[w][s] EXCEPT !.cancelled = TRUE]
      BY <1>3, <2>3 DEF Deliver
    <3>2. slot[v][s] # Free
      BY <2>3 DEF Concerned, Free
    <3>3. slot'[v][s].job = slot[v][s].job /\ slot'[v][s].ok = slot[v][s].ok
      BY <1>4, <2>3, <3>1
    <3> QED
      BY <1>1, <2>1, <3>2, <3>3 DEF SlotOK, Exists
  <2>4. slot'[v][s] = slot[v][s] \/ (v = w /\ Concerned(slot[w][s], j))
    BY <1>3 DEF Deliver
  <2> QED
    BY <2>2, <2>3, <2>4
<1>7. worker' \in [Workers -> WorkerSet]
  BY DEF Deliver, RestOK, WorkerSet
<1>8. RequestsOK'
  BY <1>1, <1>2, RequestsKept
<1> QED
  BY <1>1, <1>2, <1>5, <1>6, <1>7, <1>8 DEF RestOK, SlotsOK

-----------------------------------------------------------------------------
(* Requests.                                                                *)

\* The steps a request about a job can take, and what they leave of it.
LEMMA Steps ==
    ASSUME NEW q \in RequestSet,
           NEW step \in Checks \cup Answers \cup {"isActiveToCancel", "publish", "sadd", "remove"},
           NEW c, c = [q EXCEPT !.step = step]
    PROVE  c \in RequestSet /\ c.job = q.job
BY DEF RequestSet

LEMMA AfterCheckIsStep ==
    ASSUME NEW check \in Checks, NEW j \in Jobs
    PROVE  AfterCheck(check, j) \in Checks \cup Answers
BY DEF AfterCheck, Checks, Answers

LEMMA GoOnOK ==
    ASSUME RequestsOK, JobsStay, NEW r \in Requests,
           request[r] \in RequestSet, Exists(request[r].job), request[r].job \in Jobs,
           NEW step \in Checks \cup Answers \cup {"isActiveToCancel", "publish", "sadd", "remove"},
           GoOn(r, step)
    PROVE  RequestsOK'
<1> DEFINE q == [request[r] EXCEPT !.step = step]
<1>1. request' = [request EXCEPT ![r] = q]
  BY DEF GoOn, RequestsOK
<1>2. q = [request[r] EXCEPT !.step = step]
  OBVIOUS
<1> HIDE DEF q
<1>3. q \in RequestSet /\ q.job = request[r].job
  BY <1>2, Steps
<1>4. job'[q.job].state # "none"
  BY <1>3 DEF JobsStay, Exists
<1> QED
  BY <1>1, <1>3, <1>4, RequestChanges DEF Exists

LEMMA BeginRequestIInv ==
    ASSUME IInv, NEW r \in Requests,
           RemoveSettledJobs(r) \/ \E j \in Jobs, op \in {"find", "cancel"} : Ask(r, j, op)
    PROVE  IInv'
<1> USE DEF IInv
<1>1. UNCHANGED <<job, lock, wanted, tried, slot, worker, paused, cancelledJobs>>
      /\ UNCHANGED <<crashes, stalls, returned, asked>>
  BY DEF RemoveSettledJobs, Ask, redisVars, history
<1>2. made' \in 0 .. MaxRequests
  BY BullMQAssumption DEF RemoveSettledJobs, Ask, RestOK, BullMQAssumption
<1>3. Inv' /\ JobsStay /\ SlotsOK'
  BY <1>1, JobsUnchanged, SlotsKept
<1>4. RequestsOK'
  <2>1. CASE RemoveSettledJobs(r)
    <3> DEFINE q == [op |-> "clean", job |-> None, step |-> "completed"]
    <3>1. q \in CleanSet /\ q.job = None /\ None \notin Jobs
      BY BullMQAssumption DEF CleanSet, BullMQAssumption
    <3>2. request' = [request EXCEPT ![r] = q]
      BY <2>1 DEF RemoveSettledJobs
    <3> HIDE DEF q
    <3> QED
      BY <1>3, <3>1, <3>2, RequestChanges
  <2>2. ASSUME NEW j \in Jobs, NEW op \in {"find", "cancel"}, Ask(r, j, op)
        PROVE  RequestsOK'
    <3> DEFINE q == [op |-> op, job |-> j,
                     step |-> IF op = "find" THEN "isWaiting" ELSE "isActiveToCancel"]
    <3>1. q \in RequestSet /\ q.job = j
      BY DEF RequestSet, Checks
    <3>2. request' = [request EXCEPT ![r] = q] /\ Exists(j)'
      BY <1>1, <2>2 DEF Ask, Exists
    <3> HIDE DEF q
    <3> QED
      BY <1>3, <3>1, <3>2, RequestChanges DEF Exists
  <2> QED
    BY <2>1, <2>2
<1> QED
  BY <1>1, <1>2, <1>3, <1>4 DEF RestOK

LEMMA RequestStepIInv ==
    ASSUME IInv, NEW r \in Requests,
           LookForActive(r) \/ Publish(r) \/ AddToCancelled(r) \/ Check(r) \/ Reply(r)
    PROVE  IInv'
<1> USE DEF IInv
<1> DEFINE q == request[r]
<1>1. q \in RequestSet /\ q.job \in Jobs /\ Exists(q.job)
  BY Asking DEF LookForActive, Publish, AddToCancelled, Check, Reply
<1>2. UNCHANGED <<job, lock, wanted, tried, slot, paused, made, crashes, stalls, returned>>
  BY DEF LookForActive, Publish, AddToCancelled, Check, Reply, redisVars, history, counters
<1>3. Inv' /\ JobsStay /\ SlotsOK'
  BY <1>2, JobsUnchanged, SlotsKept
<1>4. cancelledJobs' \in SUBSET Jobs /\ asked' \in SUBSET Jobs
  BY <1>1 DEF LookForActive, Publish, AddToCancelled, Check, Reply, redisVars, history, RestOK
<1>5. worker' \in [Workers -> WorkerSet]
  <2>1. worker \in [Workers -> WorkerSet]
    BY DEF RestOK
  <2>2. CASE Publish(r)
    <3>1. \A w \in Workers : [worker[w] EXCEPT !.inbox = @ \cup {q.job}] \in WorkerSet
      BY <1>1, <2>1 DEF WorkerSet
    <3> QED
      BY <2>1, <2>2, <3>1 DEF Publish
  <2>3. CASE LookForActive(r) \/ AddToCancelled(r) \/ Check(r) \/ Reply(r)
    BY <2>1, <2>3 DEF LookForActive, AddToCancelled, Check, Reply
  <2> QED
    BY <2>2, <2>3
<1>6. RequestsOK'
  <2>1. CASE LookForActive(r)
    <3> DEFINE c == IF job[q.job].state = "active"
                    THEN [q EXCEPT !.op = "cancelActive", !.step = "publish"]
                    ELSE [q EXCEPT !.op = "cancelInactive", !.step = "isWaiting"]
    <3>1. c \in RequestSet /\ c.job = q.job
      BY <1>1 DEF RequestSet, Checks
    <3>2. request' = [request EXCEPT ![r] = c]
      BY <2>1 DEF LookForActive
    <3>3. job'[c.job].state # "none"
      BY <1>1, <1>3, <3>1 DEF JobsStay, Exists
    <3> HIDE DEF c
    <3> QED
      BY <1>3, <3>1, <3>2, <3>3, RequestChanges DEF Exists
  <2>2. CASE Publish(r)
    BY <1>1, <1>3, <2>2, GoOnOK DEF Publish
  <2>3. CASE AddToCancelled(r)
    <3>1. "isWaiting" \in Checks
      BY DEF Checks
    <3> QED
      BY <1>1, <1>3, <2>3, <3>1, GoOnOK DEF AddToCancelled
  <2>4. CASE Check(r)
    <3>1. AfterCheck(q.step, q.job) \in Checks \cup Answers
      BY <1>1, <2>4, AfterCheckIsStep DEF Check
    <3> QED
      BY <1>1, <1>3, <2>4, <3>1, GoOnOK DEF Check
  <2>5. CASE Reply(r)
    <3> DEFINE c == IF q.op = "cancelInactive" /\ q.step # "undetermined"
                    THEN [q EXCEPT !.step = "remove"] ELSE NoRequest
    <3>1. c \in {NoRequest} \cup RequestSet /\ (c.job = q.job \/ c.job = None)
      BY <1>1 DEF RequestSet, NoRequest
    <3>2. request' = [request EXCEPT ![r] = c]
      BY <2>5 DEF Reply
    <3>3. None \notin Jobs
      BY BullMQAssumption DEF BullMQAssumption
    <3>4. c.job \in Jobs => job'[c.job].state # "none"
      BY <1>1, <1>3, <3>1, <3>3 DEF JobsStay, Exists
    <3> HIDE DEF c
    <3> QED
      BY <1>3, <3>1, <3>2, <3>4, RequestChanges DEF Exists
  <2> QED
    BY <2>1, <2>2, <2>3, <2>4, <2>5
<1> QED
  BY <1>2, <1>3, <1>4, <1>5, <1>6 DEF RestOK

LEMMA RemovalIInv ==
    ASSUME IInv, NEW r \in Requests,
           RemoveJob(r) \/ \E set \in SUBSET Jobs : Clean(r, set)
    PROVE  IInv'
<1> USE DEF IInv
<1>1. Inv'
  BY RemoveJobInv, CleanInv
<1>2. JobsStay
  BY DEF JobsStay, Exists, RemoveJob, Clean, Inv, RecordTypes, Record
<1>3. UNCHANGED <<paused, cancelledJobs, worker, slot, made, crashes, stalls, returned, asked>>
  BY DEF RemoveJob, Clean, counters, history
<1>4. SlotsOK'
  BY <1>2, <1>3, SlotsKept
<1>5. RequestsOK'
  <2>1. CASE request' = [request EXCEPT ![r] = NoRequest]
    <3>1. NoRequest.job \notin Jobs
      BY BullMQAssumption DEF BullMQAssumption, NoRequest
    <3> QED
      BY <1>2, <2>1, <3>1, RequestChanges
  <2>2. ASSUME request[r].step = "completed",
               request' = [request EXCEPT ![r] = [request[r] EXCEPT !.step = "failed"]]
        PROVE  RequestsOK'
    <3> DEFINE c == [request[r] EXCEPT !.step = "failed"]
    <3>1. request[r] \in {NoRequest} \cup CleanSet \cup RequestSet
      BY DEF RequestsOK
    <3>2. request[r] \in CleanSet
      BY <2>2, <3>1 DEF NoRequest, RequestSet, Checks, Answers
    <3>3. c \in CleanSet /\ c.job \notin Jobs
      BY <3>2, BullMQAssumption DEF CleanSet, BullMQAssumption
    <3> HIDE DEF c
    <3>4. request' = [request EXCEPT ![r] = c]
      BY <2>2 DEF c
    <3> QED
      BY <1>2, <3>3, <3>4, RequestChanges
  <2> QED
    BY <2>1, <2>2 DEF RemoveJob, Clean
<1> QED
  BY <1>1, <1>3, <1>4, <1>5 DEF RestOK

-----------------------------------------------------------------------------
LEMMA NextIInv == IInv /\ [Next]_vars => IInv'
<1> SUFFICES ASSUME IInv, [Next]_vars PROVE IInv'
  OBVIOUS
<1>1. CASE UNCHANGED vars
  <2>1. UNCHANGED <<job, lock, paused, cancelledJobs, worker, slot, request,
                    made, crashes, stalls, wanted, tried, returned, asked>>
    BY <1>1 DEF vars, redisVars, counters, history
  <2>2. Inv' /\ SlotsOK' /\ RequestsOK'
    BY <2>1, JobsUnchanged, SlotsKept, RequestsKept DEF IInv
  <2> QED
    BY <2>1, <2>2 DEF IInv, RestOK
<1>2. ASSUME NEW w \in Workers,
             \/ InitStrategy(w) \/ Subscribe(w) \/ Stop(w) \/ Closed(w) \/ Crash(w)
             \/ \E q \in Queues : Start(w, q)
             \/ \E j \in Jobs : Deliver(w, j)
             \/ \E s \in Slots : Attempt(w, s) \/ \E j \in Jobs : Take(w, s, j)
      PROVE  IInv'
  BY <1>2, ProcessIInv, CrashIInv, DeliverIInv, AttemptIInv, SettleIInv, TakeIInv DEF Attempt
<1>3. ASSUME NEW j \in Jobs,
             \/ \E retries \in 0 .. MaxRetries : Add(j, retries)
             \/ Promote(j) \/ Stalled(j)
      PROVE  IInv'
  BY <1>3, ListsIInv
<1>4. ASSUME NEW r \in Requests,
             \/ Serve(r) \/ RemoveSettledJobs(r)
             \/ \E j \in Jobs, op \in {"find", "cancel"} : Ask(r, j, op)
      PROVE  IInv'
  BY <1>4, BeginRequestIInv, RequestStepIInv, RemovalIInv DEF Serve
<1> QED
  BY <1>1, <1>2, <1>3, <1>4 DEF Next

LEMMA Invariance == Spec => []IInv
BY InitIInv, NextIInv, PTL DEF Spec

-----------------------------------------------------------------------------
(* What the runs check, for all values of the constants.                    *)

\* Jobs, locks, processes, attempts and requests keep their types: of
\* add, start, stop, workerProcessor, cancelJob and removeSettledJobs.
THEOREM BullMQTypes == Spec => []TypeOK
<1>1. ASSUME IInv PROVE TypeOK
  <2>1. \A j \in Jobs : job[j] \in [state : JobStates, attempts : 0 .. MaxRetries + 1,
                                   made : 0 .. MaxRetries + 1, stalled : 0 .. MaxStalledCount + 1]
    <3> SUFFICES ASSUME NEW j \in Jobs
                 PROVE  job[j] \in [state : JobStates, attempts : 0 .. MaxRetries + 1,
                                    made : 0 .. MaxRetries + 1, stalled : 0 .. MaxStalledCount + 1]
      OBVIOUS
    <3>1. /\ job[j] \in Record /\ wanted[j] \in Nat
          /\ JobOK(job[j], lock[j], wanted[j], tried[j])
      BY <1>1 DEF IInv, Inv, RecordTypes
    <3>2. MaxRetries \in Nat /\ MaxStalledCount \in Nat
      BY BullMQAssumption DEF BullMQAssumption
    <3>3. /\ job[j].attempts \in 0 .. MaxRetries + 1 /\ job[j].made \in 0 .. MaxRetries + 1
          /\ job[j].stalled \in 0 .. MaxStalledCount + 1
      BY <3>1, <3>2 DEF JobOK, Record
    <3> QED
      BY <3>1, <3>3 DEF Record
  <2>2. wanted \in [Jobs -> 0 .. MaxRetries]
    <3>1. \A j \in Jobs : wanted[j] \in Nat /\ wanted[j] <= MaxRetries
      BY <1>1 DEF IInv, Inv, RecordTypes, JobOK
    <3>2. MaxRetries \in Nat /\ wanted \in [Jobs -> Nat]
      BY <1>1, BullMQAssumption DEF IInv, Inv, RecordTypes, BullMQAssumption
    <3>3. \A j \in Jobs : wanted[j] \in 0 .. MaxRetries
      BY <3>1, <3>2
    <3> QED
      BY <3>2, <3>3
  <2>3. job \in [Jobs -> Record] /\ lock \in [Jobs -> (Workers \X Slots) \cup {None}]
        /\ tried \in [Jobs -> Nat]
    BY <1>1 DEF IInv, Inv, RecordTypes
  <2>4. SlotsOK /\ RequestsOK /\ RestOK
    BY <1>1 DEF IInv
  <2>5. slot \in [Workers -> [Slots -> {Free} \cup AttemptSet]]
        /\ request \in [Requests -> {NoRequest} \cup CleanSet \cup RequestSet]
    BY <2>4 DEF SlotsOK, RequestsOK
  <2> QED
    BY <2>1, <2>2, <2>3, <2>4, <2>5
       DEF TypeOK, RestOK, AttemptSet, CleanSet, RequestSet, WorkerSet
<1> QED
  BY <1>1, Invariance, PTL

\* Every job is tried as often as the retries it was added with say: attempts
\* in add, and what BullMQ does of stalls and failures.
THEOREM RetriesUsed == Spec => []RetriesAreUsed
<1>1. ASSUME IInv PROVE RetriesAreUsed
  <2> SUFFICES ASSUME NEW j \in Jobs
               PROVE  /\ tried[j] <= wanted[j] + 1 + job[j].stalled
                      /\ (job[j].state = "failed" /\ job[j].stalled <= MaxStalledCount) =>
                             tried[j] = wanted[j] + 1 + job[j].stalled
    BY DEF RetriesAreUsed
  <2>1. /\ job[j].made \in Nat /\ job[j].stalled \in Nat /\ job[j].attempts \in Nat
        /\ wanted[j] \in Nat /\ tried[j] \in Nat
        /\ JobOK(job[j], lock[j], wanted[j], tried[j])
    BY <1>1 DEF IInv, Inv, RecordTypes, Record
  <2> QED
    BY <2>1 DEF JobOK, Open
<1> QED
  BY <1>1, Invariance, PTL

-----------------------------------------------------------------------------
(* The strategy keeps the promise of JobQueue.                              *)

Bar(state) == IF state \in {"wait", "active", "delayed"} THEN "accepted" ELSE state

Status == [j \in Jobs |-> Bar(job[j].state)]

\* One job moves to another list.
LEMMA StatusOfOne ==
    ASSUME Inv, NEW j \in Jobs, NEW b, job' = [job EXCEPT ![j] = b]
    PROVE  Status' = [Status EXCEPT ![j] = Bar(b.state)]
BY DEF Inv, RecordTypes, Status

\* No job is settled, disposed of or added.
LEMMA Stutters ==
    ASSUME \A j \in Jobs : Bar(job[j].state)' = Bar(job[j].state), UNCHANGED returned
    PROVE  UNCHANGED JQ!jobQueueVars
<1>1. Status' = Status
  BY DEF Status
<1> QED
  BY <1>1 DEF Status, Bar, JQ!jobQueueVars

\* One job is disposed of, or its record removed.
LEMMA Disposes ==
    ASSUME NEW set \in SUBSET Jobs, NEW how \in {"failed", "removed"},
           \A j \in set : Exists(j),
           \A j \in Jobs : Bar(job[j].state)' = IF j \in set THEN how ELSE Bar(job[j].state),
           UNCHANGED returned
    PROVE  JQ!JobQueueNext
<1>1. \A j \in set : Bar(job[j].state) # "none"
  BY DEF Exists, Bar
<1>2. Status' = [j \in Jobs |-> IF j \in set THEN how ELSE Status[j]]
  BY DEF Status
<1>3. JQ!Dispose(set, how)
  BY <1>1, <1>2 DEF Status, Bar, JQ!Dispose
<1> QED
  BY <1>3 DEF JQ!JobQueueNext

LEMMA AddMaps ==
    ASSUME IInv, NEW j \in Jobs, NEW retries \in 0 .. MaxRetries, Add(j, retries)
    PROVE  JQ!JobQueueNext
<1> DEFINE b == [job[j] EXCEPT !.state = "wait", !.attempts = AttemptsOf(retries)]
<1>1. job' = [job EXCEPT ![j] = b] /\ UNCHANGED returned /\ job[j].state = "none"
  BY DEF Add, IInv, Inv, RecordTypes
<1>2. b.state = "wait"
  BY DEF IInv, Inv, RecordTypes, Record
<1> HIDE DEF b
<1>3. Status' = [Status EXCEPT ![j] = "accepted"]
  BY <1>1, <1>2, StatusOfOne DEF IInv, Bar
<1>4. JQ!Accept(j)
  BY <1>1, <1>3 DEF Status, Bar, JQ!Accept
<1> QED
  BY <1>4 DEF JQ!JobQueueNext

LEMMA PromoteMaps ==
    ASSUME IInv, NEW j \in Jobs, Promote(j)
    PROVE  UNCHANGED JQ!jobQueueVars
<1>1. UNCHANGED returned
  BY DEF Promote, history
<1>2. \A i \in Jobs : Bar(job[i].state)' = Bar(job[i].state)
  BY DEF Promote, IInv, Inv, RecordTypes, Record, Bar
<1> QED
  BY <1>1, <1>2, Stutters

LEMMA StalledMaps ==
    ASSUME IInv, NEW j \in Jobs, Stalled(j)
    PROVE  JQ!JobQueueNext \/ UNCHANGED JQ!jobQueueVars
<1> DEFINE state == IF job[j].stalled >= MaxStalledCount THEN "failed" ELSE "wait"
<1>1. UNCHANGED returned /\ job[j].state = "active"
  BY DEF Stalled, history
<1>2. \A i \in Jobs : job'[i].state = IF i = j THEN state ELSE job[i].state
  BY DEF Stalled, IInv, Inv, RecordTypes, Record
<1>3. CASE state = "wait"
  <2>1. \A i \in Jobs : Bar(job[i].state)' = Bar(job[i].state)
    BY <1>1, <1>2, <1>3 DEF Bar
  <2> QED
    BY <1>1, <2>1, Stutters
<1>4. CASE state = "failed"
  <2>1. \A i \in Jobs : Bar(job[i].state)' = IF i \in {j} THEN "failed" ELSE Bar(job[i].state)
    BY <1>2, <1>4 DEF Bar
  <2> QED
    BY <1>1, <2>1, Disposes DEF Exists
<1> QED
  BY <1>3, <1>4

LEMMA TakeMaps ==
    ASSUME IInv, NEW w \in Workers, NEW s \in Slots, NEW j \in Jobs, Take(w, s, j)
    PROVE  UNCHANGED JQ!jobQueueVars
<1>1. UNCHANGED returned
  BY DEF Take
<1>2. \A i \in Jobs : Bar(job[i].state)' = Bar(job[i].state)
  BY DEF Take, IInv, Inv, RecordTypes, Record, Bar
<1> QED
  BY <1>1, <1>2, Stutters

\* An attempt that has lost its lock settles nothing. One that has it is of an
\* active job, and it completes the job only when the process function returned.
LEMMA SettleMaps ==
    ASSUME IInv, NEW w \in Workers, NEW s \in Slots, Settle(w, s)
    PROVE  JQ!JobQueueNext \/ UNCHANGED JQ!jobQueueVars
<1> DEFINE j == slot[w][s].job
           b == [job[j] EXCEPT !.made = @ + 1,
                   !.state = CASE slot[w][s].ok -> "completed"
                               [] ~slot[w][s].ok /\ job[j].made + 1 >= job[j].attempts -> "failed"
                               [] OTHER -> "delayed"]
<1>1. j \in Jobs /\ Exists(j) /\ (slot[w][s].ok => j \in returned) /\ UNCHANGED returned
  BY UnderWay DEF IInv, Settle, history
<1>2. CASE lock[j] = <<w, s>>
  <2>1. job' = [job EXCEPT ![j] = b]
    BY <1>2, <1>1 DEF Settle, IInv, Inv, RecordTypes
  <2>2. job[j].state = "active"
    <3>1. lock[j] # None
      BY <1>2, NoLock DEF NoLock
    <3> QED
      BY <1>1, <3>1 DEF IInv, Inv, JobOK
  <2>3. job[j] \in Record
    BY <1>1 DEF IInv, Inv, RecordTypes
  <2>4. \/ b.state = "completed" /\ j \in returned
        \/ b.state = "failed"
        \/ b.state = "delayed"
    BY <1>1, <2>3 DEF Record
  <2> HIDE DEF b
  <2>5. Status' = [Status EXCEPT ![j] = Bar(b.state)] /\ job'[j] = b
        /\ \A i \in Jobs \ {j} : job'[i] = job[i]
    BY <1>1, <2>1, StatusOfOne DEF IInv, Inv, RecordTypes
  <2>6. CASE b.state = "completed" /\ j \in returned
    <3>1. PICK i \in Jobs : i = j
      BY <1>1
    <3>2. JQ!Complete(i)
      BY <1>1, <2>2, <2>5, <2>6, <3>1 DEF Status, Bar, JQ!Complete
    <3> QED
      BY <3>2 DEF JQ!JobQueueNext
  <2>7. CASE b.state = "failed"
    <3>1. \A i \in Jobs : Bar(job[i].state)' = IF i \in {j} THEN "failed" ELSE Bar(job[i].state)
      BY <2>5, <2>7 DEF Bar
    <3> QED
      BY <1>1, <3>1, Disposes
  <2>8. CASE b.state = "delayed"
    <3>1. \A i \in Jobs : Bar(job[i].state)' = Bar(job[i].state)
      BY <2>2, <2>5, <2>8 DEF Bar
    <3> QED
      BY <1>1, <3>1, Stutters
  <2> QED
    BY <2>4, <2>6, <2>7, <2>8
<1>3. CASE lock[j] # <<w, s>>
  <2>1. UNCHANGED job
    BY <1>3 DEF Settle
  <2> QED
    BY <1>1, <2>1, Stutters
<1> QED
  BY <1>2, <1>3

LEMMA EndProcessMaps ==
    ASSUME IInv, NEW w \in Workers, NEW s \in Slots, NEW ok \in BOOLEAN, EndProcess(w, s, ok)
    PROVE  JQ!JobQueueNext \/ UNCHANGED JQ!jobQueueVars
<1> DEFINE j == slot[w][s].job
<1>1. UNCHANGED job /\ returned' = IF ok THEN returned \cup {j} ELSE returned
  BY DEF EndProcess, redisVars
<1>2. j \in Jobs /\ Exists(j)
  BY UnderWay DEF IInv, EndProcess
<1> HIDE DEF j
<1>3. Status' = Status /\ Status[j] # "none"
  BY <1>1, <1>2 DEF Status, Bar, Exists
<1>4. CASE ok
  <2>1. JQ!Return(j)
    BY <1>1, <1>2, <1>3, <1>4 DEF Status, Bar, JQ!Return
  <2> QED
    BY <1>2, <2>1 DEF JQ!JobQueueNext
<1>5. CASE ~ok
  BY <1>1, <1>5, Stutters
<1> QED
  BY <1>4, <1>5

LEMMA RemovalMaps ==
    ASSUME IInv, NEW r \in Requests,
           RemoveJob(r) \/ \E set \in SUBSET Jobs : Clean(r, set)
    PROVE  JQ!JobQueueNext \/ UNCHANGED JQ!jobQueueVars
<1>1. UNCHANGED returned
  BY DEF RemoveJob, Clean, history
<1>2. CASE RemoveJob(r)
  <2> DEFINE j == request[r].job
  <2>1. j \in Jobs /\ Exists(j)
    BY <1>2, Asking DEF IInv, RemoveJob
  <2>2. CASE lock[j] = None
    <3>1. \A i \in Jobs : job'[i].state = IF i \in {j} THEN "removed" ELSE job[i].state
      BY <1>2, <2>2 DEF RemoveJob, IInv, Inv, RecordTypes, Record
    <3>2. \A i \in Jobs : Bar(job[i].state)' = IF i \in {j} THEN "removed" ELSE Bar(job[i].state)
      BY <3>1 DEF Bar
    <3> QED
      BY <1>1, <2>1, <3>2, Disposes
  <2>3. CASE lock[j] # None
    BY <1>1, <1>2, <2>3, Stutters DEF RemoveJob
  <2> QED
    BY <2>2, <2>3
<1>3. ASSUME NEW set \in SUBSET Jobs, Clean(r, set) PROVE JQ!JobQueueNext
  <2>1. \A j \in set : Exists(j)
    BY <1>3 DEF Clean, Exists
  <2>2. \A i \in Jobs : job'[i].state = IF i \in set THEN "removed" ELSE job[i].state
    BY <1>3 DEF Clean, IInv, Inv, RecordTypes, Record
  <2>3. \A i \in Jobs : Bar(job[i].state)' = IF i \in set THEN "removed" ELSE Bar(job[i].state)
    BY <2>2 DEF Bar
  <2> QED
    BY <1>1, <2>1, <2>3, Disposes
<1> QED
  BY <1>2, <1>3

\* The actions that touch no job.
LEMMA NoJobMaps ==
    ASSUME UNCHANGED <<job, returned>>
    PROVE  UNCHANGED JQ!jobQueueVars
BY Stutters

LEMMA NextMaps == IInv /\ [Next]_vars => [JQ!JobQueueNext]_(JQ!jobQueueVars)
<1> SUFFICES ASSUME IInv, [Next]_vars
             PROVE  JQ!JobQueueNext \/ UNCHANGED JQ!jobQueueVars
  OBVIOUS
<1>1. CASE UNCHANGED vars
  BY <1>1, NoJobMaps DEF vars, redisVars, history
<1>2. ASSUME NEW w \in Workers,
             \/ InitStrategy(w) \/ Subscribe(w) \/ Stop(w) \/ Closed(w) \/ Crash(w)
             \/ \E q \in Queues : Start(w, q)
             \/ \E j \in Jobs : Deliver(w, j)
             \/ \E s \in Slots : CreateJob(w, s) \/ BeginProcess(w, s) \/ RemoveFromCancelled(w, s)
      PROVE  UNCHANGED JQ!jobQueueVars
  <2>1. UNCHANGED <<job, returned>>
    BY <1>2 DEF InitStrategy, Subscribe, Stop, Closed, Crash, Start, Deliver, CreateJob,
                BeginProcess, RemoveFromCancelled, redisVars, history
  <2> QED
    BY <2>1, NoJobMaps
<1>3. ASSUME NEW w \in Workers, NEW s \in Slots,
             \/ Settle(w, s) \/ \E ok \in BOOLEAN : EndProcess(w, s, ok)
             \/ \E j \in Jobs : Take(w, s, j)
      PROVE  JQ!JobQueueNext \/ UNCHANGED JQ!jobQueueVars
  BY <1>3, SettleMaps, EndProcessMaps, TakeMaps
<1>4. ASSUME NEW j \in Jobs,
             \/ \E retries \in 0 .. MaxRetries : Add(j, retries)
             \/ Promote(j) \/ Stalled(j)
      PROVE  JQ!JobQueueNext \/ UNCHANGED JQ!jobQueueVars
  BY <1>4, AddMaps, PromoteMaps, StalledMaps
<1>5. ASSUME NEW r \in Requests,
             \/ LookForActive(r) \/ Publish(r) \/ AddToCancelled(r) \/ Check(r) \/ Reply(r)
             \/ RemoveSettledJobs(r)
             \/ \E j \in Jobs, op \in {"find", "cancel"} : Ask(r, j, op)
      PROVE  UNCHANGED JQ!jobQueueVars
  <2>1. UNCHANGED <<job, returned>>
    BY <1>5 DEF LookForActive, Publish, AddToCancelled, Check, Reply, RemoveSettledJobs, Ask,
                redisVars, history
  <2> QED
    BY <2>1, NoJobMaps
<1> QED
  BY <1>1, <1>2, <1>3, <1>4, <1>5, RemovalMaps DEF Next, Attempt, Serve

\* The strategy implements the job queue it stands for: a job completes only
\* when its process function returned, and one that was disposed of never
\* comes back, whatever add, workerProcessor, cancelJob and removeSettledJobs do.
THEOREM KeepsThePromise == Spec => ImplementsJobQueue
<1>1. Init => JQ!JobQueueInit
  BY DEF Init, JQ!JobQueueInit
<1> QED
  BY <1>1, NextMaps, Invariance, PTL DEF Spec, ImplementsJobQueue, JQ!JobQueueSpec

-----------------------------------------------------------------------------
(* Only what was asked for is cancelled.                                    *)

\* A cancellation is asked for, published, put in the set, heard by processes
\* and by attempts, and reported: everything that is on this way was asked for.
AttemptAsked(a, set) == a.cancelled => a.job \in set

RequestAsked(q, set) == q.step \in {"publish", "sadd", "CANCELLED"} => q.job \in set

AskedInv ==
    /\ cancelledJobs \subseteq asked
    /\ \A w \in Workers : worker[w].inbox \subseteq asked
    /\ \A w \in Workers, s \in Slots : AttemptAsked(slot[w][s], asked)
    /\ \A r \in Requests : RequestAsked(request[r], asked)

LEMMA AskedInit == Init => AskedInv
BY DEF Init, AskedInv, AttemptAsked, RequestAsked, Off, Free, NoRequest

\* What was asked for stays so.
LEMMA WorkersAsked ==
    ASSUME AskedInv, asked \subseteq asked',
           \A w \in Workers : worker'[w].inbox \subseteq worker[w].inbox \cup asked'
    PROVE  \A w \in Workers : worker'[w].inbox \subseteq asked'
BY DEF AskedInv

LEMMA AttemptsAsked ==
    ASSUME AskedInv, asked \subseteq asked',
           \A w \in Workers, s \in Slots : slot'[w][s] # slot[w][s] => AttemptAsked(slot'[w][s], asked')
    PROVE  \A w \in Workers, s \in Slots : AttemptAsked(slot'[w][s], asked')
BY DEF AskedInv, AttemptAsked

LEMMA RequestsAsked ==
    ASSUME AskedInv, asked \subseteq asked',
           \A r \in Requests : request'[r] # request[r] => RequestAsked(request'[r], asked')
    PROVE  \A r \in Requests : RequestAsked(request'[r], asked')
BY DEF AskedInv, RequestAsked

\* A step of the lists of BullMQ, or of a process that hears of nothing.
LEMMA NothingAsked ==
    ASSUME AskedInv, UNCHANGED <<cancelledJobs, slot, request, asked>>,
           \A w \in Workers : worker'[w].inbox \subseteq worker[w].inbox
    PROVE  AskedInv'
BY DEF AskedInv, AttemptAsked, RequestAsked

LEMMA ProcessAsked ==
    ASSUME IInv, AskedInv, NEW w \in Workers,
           \/ InitStrategy(w) \/ Subscribe(w) \/ Stop(w) \/ Closed(w)
           \/ \E q \in Queues : Start(w, q)
    PROVE  AskedInv'
<1>1. UNCHANGED <<cancelledJobs, slot, request, asked>>
  BY DEF InitStrategy, Subscribe, Stop, Closed, Start, redisVars, history
<1>2. worker \in [Workers -> WorkerSet]
  BY DEF IInv, RestOK
<1>3. ASSUME NEW v \in Workers PROVE worker'[v].inbox \subseteq worker[v].inbox
  <2>1. worker[v] \in WorkerSet
    BY <1>2
  <2>2. CASE InitStrategy(w) \/ Subscribe(w) \/ Stop(w)
    BY <1>2, <2>1, <2>2 DEF InitStrategy, Subscribe, Stop, WorkerSet
  <2>3. CASE Closed(w)
    BY <1>2, <2>1, <2>3 DEF Closed, WorkerSet
  <2>4. CASE \E q \in Queues : Start(w, q)
    <3>1. PICK q \in Queues : Start(w, q)
      BY <2>4
    <3> DEFINE status == IF worker[w].status = "ready" THEN "subscribing" ELSE worker[w].status
               b == [worker[w] EXCEPT !.registered = @ \cup {q}, !.status = status]
    <3>2. worker' = [worker EXCEPT ![w] = b]
      BY <3>1 DEF Start
    <3>3. worker[w] \in WorkerSet
      BY <1>2
    <3> HIDE DEF status
    <3>4. b.inbox = worker[w].inbox
      BY <3>3 DEF WorkerSet
    <3> HIDE DEF b
    <3> QED
      BY <1>2, <3>2, <3>4
  <2> QED
    BY <2>2, <2>3, <2>4
<1> QED
  BY <1>1, <1>3, NothingAsked

LEMMA CrashAsked ==
    ASSUME IInv, AskedInv, NEW w \in Workers, Crash(w)
    PROVE  AskedInv'
<1>1. UNCHANGED <<cancelledJobs, request, asked>>
  BY DEF Crash, redisVars, history
<1>2. \A v \in Workers : worker'[v].inbox \subseteq worker[v].inbox
  BY DEF Crash, IInv, RestOK, Off
<1>3. \A v \in Workers, s \in Slots : slot'[v][s] # slot[v][s] => AttemptAsked(slot'[v][s], asked')
  BY DEF Crash, IInv, SlotsOK, Free, AttemptAsked
<1>4. \A v \in Workers, s \in Slots : AttemptAsked(slot'[v][s], asked')
  BY <1>1, <1>3, AttemptsAsked
<1> QED
  BY <1>1, <1>2, <1>4 DEF AskedInv, RequestAsked

LEMMA ListsAsked ==
    ASSUME AskedInv, NEW j \in Jobs,
           \/ \E retries \in 0 .. MaxRetries : Add(j, retries)
           \/ Promote(j) \/ Stalled(j)
    PROVE  AskedInv'
<1>1. UNCHANGED <<cancelledJobs, worker, slot, request, asked>>
  BY DEF Add, Promote, Stalled, history
<1> QED
  BY <1>1, NothingAsked

\* One attempt goes on as a.
LEMMA AttemptGoesOn ==
    ASSUME IInv, AskedInv, NEW w \in Workers, NEW s \in Slots, NEW a,
           slot' = [slot EXCEPT ![w][s] = a],
           AttemptAsked(a, asked'),
           cancelledJobs' \subseteq cancelledJobs,
           UNCHANGED <<worker, request, asked>>
    PROVE  AskedInv'
<1>1. \A v \in Workers, t \in Slots : slot'[v][t] # slot[v][t] => slot'[v][t] = a
  BY DEF IInv, SlotsOK
<1>2. \A v \in Workers, t \in Slots : AttemptAsked(slot'[v][t], asked')
  BY <1>1, AttemptsAsked
<1> QED
  BY <1>2 DEF AskedInv, RequestAsked

LEMMA TakeAsked ==
    ASSUME IInv, AskedInv, NEW w \in Workers, NEW s \in Slots, NEW j \in Jobs, Take(w, s, j)
    PROVE  AskedInv'
<1>1. PICK a : slot' = [slot EXCEPT ![w][s] = a] /\ a.cancelled = FALSE
  <2> DEFINE a == [Free EXCEPT !.job = j,
                       !.step = IF QueueOf[j] \in worker[w].registered THEN "create" ELSE "settle"]
  <2>1. slot' = [slot EXCEPT ![w][s] = a]
    BY DEF Take
  <2>2. a.cancelled = FALSE
    BY DEF Free
  <2> QED
    BY <2>1, <2>2
<1> QED
  BY <1>1, AttemptGoesOn DEF Take, AttemptAsked

\* The set of cancelled jobs is looked in when the attempt begins.
LEMMA AttemptStepAsked ==
    ASSUME IInv, AskedInv, NEW w \in Workers, NEW s \in Slots, Attempt(w, s)
    PROVE  AskedInv'
<1> DEFINE a == slot[w][s]
<1>1. /\ cancelledJobs' \subseteq cancelledJobs
      /\ UNCHANGED <<worker, request, asked>>
  BY DEF Attempt, CreateJob, BeginProcess, EndProcess, RemoveFromCancelled, Settle, redisVars, history
<1>2. AttemptAsked(a, asked) /\ cancelledJobs \subseteq asked
  BY DEF AskedInv
<1>3. a.step # "free"
  BY DEF Attempt, CreateJob, BeginProcess, EndProcess, RemoveFromCancelled, Settle
<1>4. a \in AttemptSet
  BY <1>3, UnderWay DEF IInv
<1>5. CASE CreateJob(w, s)
  <2> DEFINE b == [a EXCEPT !.step = IF job[a.job].state = "removed" THEN "settle" ELSE "begin",
                            !.cancelled = job[a.job].state = "active" /\ a.job \in cancelledJobs]
  <2>1. slot' = [slot EXCEPT ![w][s] = b]
    BY <1>5 DEF CreateJob
  <2>2. b.job = a.job /\ (b.cancelled => a.job \in cancelledJobs)
    BY <1>4 DEF AttemptSet
  <2>3. b.cancelled => b.job \in asked
    BY <1>2, <2>2
  <2> HIDE DEF b
  <2>4. AttemptAsked(b, asked')
    BY <1>1, <2>3 DEF AttemptAsked
  <2> QED
    BY <1>1, <2>1, <2>4, AttemptGoesOn
<1>6. CASE BeginProcess(w, s) \/ RemoveFromCancelled(w, s)
  <2>1. PICK step : slot' = [slot EXCEPT ![w][s].step = step]
    BY <1>6 DEF BeginProcess, RemoveFromCancelled
  <2> DEFINE b == [a EXCEPT !.step = step]
  <2>2. slot' = [slot EXCEPT ![w][s] = b]
    BY <2>1
  <2>3. b.job = a.job /\ b.cancelled = a.cancelled
    BY <1>4 DEF AttemptSet
  <2> HIDE DEF b
  <2>4. AttemptAsked(b, asked')
    BY <1>1, <1>2, <2>3 DEF AttemptAsked
  <2> QED
    BY <1>1, <2>2, <2>4, AttemptGoesOn
<1>7. CASE \E ok \in BOOLEAN : EndProcess(w, s, ok)
  <2>1. PICK ok \in BOOLEAN : EndProcess(w, s, ok)
    BY <1>7
  <2> DEFINE b == [a EXCEPT !.step = "srem", !.ok = AttemptSucceeds(ok)]
  <2>2. slot' = [slot EXCEPT ![w][s] = b]
    BY <2>1 DEF EndProcess
  <2>3. b.job = a.job /\ b.cancelled = a.cancelled
    BY <1>4 DEF AttemptSet
  <2> HIDE DEF b
  <2>4. AttemptAsked(b, asked')
    BY <1>1, <1>2, <2>3 DEF AttemptAsked
  <2> QED
    BY <1>1, <2>2, <2>4, AttemptGoesOn
<1>8. CASE Settle(w, s)
  <2>1. slot' = [slot EXCEPT ![w][s] = Free] /\ ~Free.cancelled
    BY <1>8 DEF Settle, Free
  <2> QED
    BY <1>1, <2>1, AttemptGoesOn DEF AttemptAsked
<1> QED
  BY <1>5, <1>6, <1>8, <1>7 DEF Attempt

\* The attempts a message is about are attempts of the job it names.
LEMMA DeliverAsked ==
    ASSUME IInv, AskedInv, NEW w \in Workers, NEW j \in Jobs, Deliver(w, j)
    PROVE  AskedInv'
<1>1. UNCHANGED <<cancelledJobs, request, asked>>
  BY DEF Deliver, redisVars, history
<1>2. worker \in [Workers -> WorkerSet]
  BY DEF IInv, RestOK
<1>3. \A v \in Workers : worker'[v].inbox \subseteq worker[v].inbox
  BY <1>2 DEF Deliver, WorkerSet
<1>4. j \in asked
  BY DEF Deliver, AskedInv
<1>5. ASSUME NEW v \in Workers, NEW s \in Slots, slot'[v][s] # slot[v][s]
      PROVE  AttemptAsked(slot'[v][s], asked')
  <2>1. v = w /\ Concerned(slot[w][s], j) /\ slot'[v][s] = [slot[w][s] EXCEPT !.cancelled = TRUE]
    BY <1>5 DEF Deliver, IInv, SlotsOK
  <2>2. slot[w][s].job = j /\ slot[w][s] \in AttemptSet
    BY <2>1, UnderWay DEF Concerned, IInv
  <2>3. slot'[v][s].job = j
    BY <2>1, <2>2 DEF AttemptSet
  <2> QED
    BY <1>1, <1>4, <2>3 DEF AttemptAsked
<1>6. \A v \in Workers, s \in Slots : AttemptAsked(slot'[v][s], asked')
  BY <1>1, <1>5, AttemptsAsked
<1> QED
  BY <1>1, <1>3, <1>6 DEF AskedInv, RequestAsked

\* One request goes on as q.
LEMMA RequestGoesOn ==
    ASSUME IInv, AskedInv, NEW r \in Requests, NEW q,
           request' = [request EXCEPT ![r] = q],
           RequestAsked(q, asked'),
           asked \subseteq asked',
           UNCHANGED <<cancelledJobs, worker, slot>>
    PROVE  AskedInv'
<1>1. \A p \in Requests : request'[p] # request[p] => request'[p] = q
  BY DEF IInv, RequestsOK
<1>2. \A p \in Requests : RequestAsked(request'[p], asked')
  BY <1>1, RequestsAsked
<1> QED
  BY <1>2 DEF AskedInv, AttemptAsked

\* A request that begins or ends, or goes on to remove a job.
LEMMA RequestEndsAsked ==
    ASSUME IInv, AskedInv, NEW r \in Requests,
           \/ RemoveSettledJobs(r)
           \/ \E j \in Jobs, op \in {"find", "cancel"} : Ask(r, j, op)
           \/ Reply(r) \/ RemoveJob(r)
           \/ \E set \in SUBSET Jobs : Clean(r, set)
    PROVE  AskedInv'
<1>1. UNCHANGED <<cancelledJobs, worker, slot, asked>>
  BY DEF RemoveSettledJobs, Ask, Reply, RemoveJob, Clean, redisVars, history
<1> DEFINE Ends(q) == request' = [request EXCEPT ![r] = q] /\ q.step \notin {"publish", "sadd", "CANCELLED"}
<1>2. ASSUME NEW q, Ends(q) PROVE AskedInv'
  BY <1>1, <1>2, RequestGoesOn DEF RequestAsked
<1>3. NoRequest.step = "idle" /\ request[r] \in {NoRequest} \cup CleanSet \cup RequestSet
  BY DEF NoRequest, IInv, RequestsOK
<1>4. CASE RemoveSettledJobs(r)
  <2> DEFINE q == [op |-> "clean", job |-> None, step |-> "completed"]
  <2>1. Ends(q)
    BY <1>4 DEF RemoveSettledJobs
  <2> QED
    BY <1>2, <2>1
<1>5. ASSUME NEW j \in Jobs, NEW op \in {"find", "cancel"}, Ask(r, j, op) PROVE AskedInv'
  <2> DEFINE q == [op |-> op, job |-> j,
                   step |-> IF op = "find" THEN "isWaiting" ELSE "isActiveToCancel"]
  <2>1. Ends(q)
    BY <1>5 DEF Ask
  <2> QED
    BY <1>2, <2>1
<1>6. CASE Reply(r)
  <2>1. request[r] \in RequestSet
    BY <1>3, <1>6 DEF Reply, NoRequest, CleanSet, Answers
  <2> DEFINE q == [request[r] EXCEPT !.step = "remove"]
  <2>2. q.step = "remove"
    BY <2>1 DEF RequestSet
  <2>3. request' = [request EXCEPT ![r] = q] \/ request' = [request EXCEPT ![r] = NoRequest]
    BY <1>6 DEF Reply
  <2> HIDE DEF q
  <2>4. Ends(q) \/ Ends(NoRequest)
    BY <1>3, <2>2, <2>3
  <2> QED
    BY <1>2, <2>4
<1>7. CASE RemoveJob(r)
  <2>1. Ends(NoRequest)
    BY <1>3, <1>7 DEF RemoveJob
  <2> QED
    BY <1>2, <2>1
<1>8. ASSUME NEW set \in SUBSET Jobs, Clean(r, set) PROVE AskedInv'
  <2>1. request[r] \in CleanSet
    BY <1>3, <1>8 DEF Clean, NoRequest, RequestSet, Checks, Answers
  <2> DEFINE q == [request[r] EXCEPT !.step = "failed"]
  <2>2. q.step = "failed"
    BY <2>1 DEF CleanSet
  <2>3. request' = [request EXCEPT ![r] = q] \/ request' = [request EXCEPT ![r] = NoRequest]
    BY <1>8 DEF Clean
  <2> HIDE DEF q
  <2>4. Ends(q) \/ Ends(NoRequest)
    BY <1>3, <2>2, <2>3
  <2> QED
    BY <1>2, <2>4
<1> QED
  BY <1>4, <1>5, <1>6, <1>7, <1>8

\* cancelJob that finds the job active asks for it; only a job that was found
\* in the set is reported as cancelled.
LEMMA RequestStepAsked ==
    ASSUME IInv, AskedInv, NEW r \in Requests,
           LookForActive(r) \/ Publish(r) \/ AddToCancelled(r) \/ Check(r)
    PROVE  AskedInv'
<1>1. request[r].step \in Checks \cup {"isActiveToCancel", "publish", "sadd"}
  BY DEF LookForActive, Publish, AddToCancelled, Check
<1>2. request[r] \in RequestSet
  BY <1>1 DEF IInv, RequestsOK, NoRequest, CleanSet, Checks
<1>3. RequestAsked(request[r], asked) /\ cancelledJobs \subseteq asked
  BY DEF AskedInv
<1> DEFINE moved(op, step) == [request[r] EXCEPT !.op = op, !.step = step]
           at(step) == [request[r] EXCEPT !.step = step]
<1>4. \A op, step : moved(op, step).step = step /\ moved(op, step).job = request[r].job
  BY <1>2 DEF RequestSet
<1>5. \A step : at(step).step = step /\ at(step).job = request[r].job
  BY <1>2 DEF RequestSet
<1>6. CASE LookForActive(r)
  <2>1. UNCHANGED <<cancelledJobs, worker, slot>> /\ asked \subseteq asked'
    BY <1>6 DEF LookForActive, redisVars
  <2>2. CASE job[request[r].job].state = "active"
    <3>1. /\ request' = [request EXCEPT ![r] = moved("cancelActive", "publish")]
          /\ request[r].job \in asked'
      BY <1>6, <2>2 DEF LookForActive
    <3>2. RequestAsked(moved("cancelActive", "publish"), asked')
      BY <1>4, <3>1 DEF RequestAsked
    <3> HIDE DEF moved
    <3> QED
      BY <2>1, <3>1, <3>2, RequestGoesOn
  <2>3. CASE job[request[r].job].state # "active"
    <3>1. request' = [request EXCEPT ![r] = moved("cancelInactive", "isWaiting")]
      BY <1>6, <2>3 DEF LookForActive
    <3>2. RequestAsked(moved("cancelInactive", "isWaiting"), asked')
      BY <1>4 DEF RequestAsked
    <3> HIDE DEF moved
    <3> QED
      BY <2>1, <3>1, <3>2, RequestGoesOn
  <2> QED
    BY <2>2, <2>3
<1>7. CASE Publish(r)
  <2>1. request' = [request EXCEPT ![r] = at("sadd")] /\ at("sadd").job \in asked
    BY <1>3, <1>7, <1>5 DEF Publish, GoOn, RequestAsked
  <2>2. UNCHANGED <<cancelledJobs, slot, asked>>
    BY <1>7 DEF Publish, redisVars, history
  <2>3. \A w \in Workers : worker'[w].inbox \subseteq worker[w].inbox \cup asked'
    <3>1. worker \in [Workers -> WorkerSet] /\ request[r].job \in asked
      BY <1>3, <1>7 DEF IInv, RestOK, Publish, RequestAsked
    <3> QED
      BY <1>7, <2>2, <3>1 DEF Publish, WorkerSet
  <2>4. \A w \in Workers : worker'[w].inbox \subseteq asked'
    BY <2>2, <2>3, WorkersAsked
  <2>5. \A p \in Requests : RequestAsked(request'[p], asked')
    BY <2>1, <2>2, RequestsAsked DEF IInv, RequestsOK, RequestAsked
  <2> QED
    BY <2>2, <2>4, <2>5 DEF AskedInv, AttemptAsked
<1>8. CASE AddToCancelled(r)
  <2>1. request' = [request EXCEPT ![r] = at("isWaiting")] /\ at("isWaiting").step = "isWaiting"
    BY <1>8, <1>5 DEF AddToCancelled, GoOn
  <2>2. /\ UNCHANGED <<worker, slot, asked>>
        /\ cancelledJobs' = cancelledJobs \cup {request[r].job} /\ request[r].job \in asked
    BY <1>3, <1>8 DEF AddToCancelled, RequestAsked, history
  <2>3. \A p \in Requests : RequestAsked(request'[p], asked')
    BY <2>1, <2>2, RequestsAsked DEF IInv, RequestsOK, RequestAsked
  <2> QED
    BY <1>3, <2>2, <2>3 DEF AskedInv, AttemptAsked
<1>9. CASE Check(r)
  <2> DEFINE next == AfterCheck(request[r].step, request[r].job)
  <2>1. next \in {"publish", "sadd", "CANCELLED"} => request[r].job \in asked
    BY <1>3, <1>9 DEF AfterCheck, Check, Checks
  <2>2. request' = [request EXCEPT ![r] = at(next)]
    BY <1>9 DEF Check, GoOn
  <2> HIDE DEF next
  <2>3. RequestAsked(at(next), asked)
    BY <1>5, <2>1 DEF RequestAsked
  <2> HIDE DEF at
  <2>4. UNCHANGED <<cancelledJobs, worker, slot, asked>>
    BY <1>9 DEF Check, redisVars, history
  <2> QED
    BY <2>2, <2>3, <2>4, RequestGoesOn
<1> QED
  BY <1>6, <1>7, <1>8, <1>9

LEMMA AskedStep == IInv /\ AskedInv /\ [Next]_vars => AskedInv'
<1> SUFFICES ASSUME IInv, AskedInv, [Next]_vars PROVE AskedInv'
  OBVIOUS
<1>1. CASE UNCHANGED vars
  BY <1>1, NothingAsked DEF vars, redisVars, history
<1>2. ASSUME NEW w \in Workers,
             \/ InitStrategy(w) \/ Subscribe(w) \/ Stop(w) \/ Closed(w) \/ Crash(w)
             \/ \E q \in Queues : Start(w, q)
             \/ \E j \in Jobs : Deliver(w, j)
             \/ \E s \in Slots : Attempt(w, s) \/ \E j \in Jobs : Take(w, s, j)
      PROVE  AskedInv'
  BY <1>2, ProcessAsked, CrashAsked, DeliverAsked, AttemptStepAsked, TakeAsked
<1>3. ASSUME NEW j \in Jobs,
             \/ \E retries \in 0 .. MaxRetries : Add(j, retries)
             \/ Promote(j) \/ Stalled(j)
      PROVE  AskedInv'
  BY <1>3, ListsAsked
<1>4. ASSUME NEW r \in Requests,
             \/ Serve(r) \/ RemoveSettledJobs(r)
             \/ \E j \in Jobs, op \in {"find", "cancel"} : Ask(r, j, op)
      PROVE  AskedInv'
  BY <1>4, RequestEndsAsked, RequestStepAsked DEF Serve
<1> QED
  BY <1>1, <1>2, <1>3, <1>4 DEF Next

\* No attempt is told to stop, and no job reported as cancelled, that nobody
\* asked to cancel while it was active: cancelJob, the set of cancelled jobs,
\* the channel, and what createVendureJob and workerProcessor make of them.
THEOREM OnlyAskedCancelled == Spec => []OnlyAskedIsCancelled
<1>1. AskedInv => OnlyAskedIsCancelled
  BY DEF AskedInv, AttemptAsked, RequestAsked, OnlyAskedIsCancelled
<1> QED
  BY <1>1, AskedInit, AskedStep, Invariance, PTL DEF Spec
=============================================================================
