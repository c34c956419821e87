--------------------------- MODULE BullMQJobQueue ---------------------------
(***************************************************************************)
(* The BullMQ job queue strategy: one BullMQ queue in Redis for the jobs   *)
(* of all the queues of the shop, one BullMQ worker in every process that  *)
(* starts a queue, a Redis set of cancelled jobs and a Redis channel on    *)
(* which cancellations are published.                                      *)
(*                                                                         *)
(* BullMQ itself is external: jobs move between the lists of Redis         *)
(* atomically, an attempt holds the lock of its job, and a job whose lock  *)
(* has run out is stalled, whether its process died or was only busy.      *)
(***************************************************************************)
EXTENDS Integers, FiniteSets

CONSTANTS
    Jobs,
    Queues,             \* names of the queues of the shop
    QueueOf,            \* the queue of each job
    Workers,            \* processes that run workers
    Stoppable,          \* those that may be stopped for good
    Requests,           \* concurrent requests of the Admin API
    None,
    DEFAULT_CONCURRENCY,
    ConfiguredConcurrency, \* what the shop set in workerOptions.concurrency
    MaxRetries,         \* bound: retries of a job
    MaxStalledCount,    \* BullMQ: a job stalls so often before it fails
    MaxRequests,        \* bound: requests made
    MaxCrashes,         \* bound: crashes of worker processes
    MaxStalls           \* bound: locks that run out in a live process

ASSUME BullMQAssumption ==
    /\ QueueOf \in [Jobs -> Queues]
    /\ None \notin Jobs
    /\ DEFAULT_CONCURRENCY \in Nat /\ ConfiguredConcurrency \in Nat
    /\ MaxRetries \in Nat /\ MaxStalledCount \in Nat
    /\ MaxRequests \in Nat /\ MaxCrashes \in Nat /\ MaxStalls \in Nat

VARIABLES
    job,                \* BullMQ's record of every job
    lock,               \* the attempt <<worker, slot>> that holds a job's lock
    paused,             \* the BullMQ queue is paused
    cancelledJobs,      \* the Redis set CANCELLED_JOB_LIST_NAME
    worker,             \* the strategy's state in every process
    slot,               \* the attempts of every worker
    request,            \* the local state of every request of the Admin API
    made, crashes, stalls,  \* bounded counters
    wanted,             \* history: retries every job was added with
    tried,              \* history: attempts begun of every job
    returned,           \* history: jobs whose process function returned
    asked               \* history: jobs that cancelJob found active

redisVars == <<job, lock, paused, cancelledJobs>>
counters == <<made, crashes, stalls>>
history == <<wanted, tried, returned, asked>>
vars == <<redisVars, worker, slot, request, counters, history>>

JobStates == {"none", "wait", "active", "delayed", "completed", "failed", "removed"}

\* workerOptions is built anew from removeOnComplete and removeOnFail alone.
Concurrency == DEFAULT_CONCURRENCY

Slots == 1 .. Concurrency

ASSUME NoLock == None \notin Workers \X Slots

Free == [job |-> None, step |-> "free", cancelled |-> FALSE, ok |-> FALSE]

Off == [status |-> "off", registered |-> {}, inbox |-> {}]

NoRequest == [op |-> "none", job |-> None, step |-> "idle"]

Init ==
    /\ job = [j \in Jobs |-> [state |-> "none", attempts |-> 0, made |-> 0, stalled |-> 0]]
    /\ lock = [j \in Jobs |-> None]
    /\ paused \in BOOLEAN
    /\ cancelledJobs = {}
    /\ worker = [w \in Workers |-> Off]
    /\ slot = [w \in Workers |-> [s \in Slots |-> Free]]
    /\ request = [r \in Requests |-> NoRequest]
    /\ made = 0 /\ crashes = 0 /\ stalls = 0
    /\ wanted = [j \in Jobs |-> 0]
    /\ tried = [j \in Jobs |-> 0]
    /\ returned = {}
    /\ asked = {}

-----------------------------------------------------------------------------
(* The life of a process.                                                   *)

\* A slip of PausedAfterInit: the queue is left as it is.
PausedUntouched == paused

\* init resumes a queue that was left paused.
PausedAfterInit == FALSE

InitStrategy(w) ==
    /\ worker[w].status = "off"
    /\ worker' = [worker EXCEPT ![w].status = "ready"]
    /\ paused' = PausedAfterInit
    /\ UNCHANGED <<job, lock, cancelledJobs, slot, request, counters, history>>

\* start: the first queue that is started creates the worker, which takes jobs
\* of every queue from then on, and subscribes to the cancellations.
Start(w, q) ==
    /\ worker[w].status \in {"ready", "running"}
    /\ q \notin worker[w].registered
    /\ worker' = [worker EXCEPT ![w].registered = @ \cup {q},
                                ![w].status = IF @ = "ready" THEN "subscribing" ELSE @]
    /\ UNCHANGED <<redisVars, slot, request, counters, history>>

Subscribe(w) ==
    /\ worker[w].status = "subscribing"
    /\ worker' = [worker EXCEPT ![w].status = "running"]
    /\ UNCHANGED <<redisVars, slot, request, counters, history>>

\* stop: the worker takes no more jobs and waits for those it has. stopped
\* makes every later stop do nothing.
Stop(w) ==
    /\ w \in Stoppable
    /\ worker[w].status = "running"
    /\ worker' = [worker EXCEPT ![w].status = "closing"]
    /\ UNCHANGED <<redisVars, slot, request, counters, history>>

Closed(w) ==
    /\ worker[w].status = "closing"
    /\ \A s \in Slots : slot[w][s] = Free
    /\ worker' = [worker EXCEPT ![w].status = "closed", ![w].inbox = {}]
    /\ UNCHANGED <<redisVars, slot, request, counters, history>>

\* The process dies with its attempts; the locks stay until they run out.
Crash(w) ==
    /\ worker[w].status \in {"subscribing", "running", "closing"}
    /\ crashes < MaxCrashes
    /\ crashes' = crashes + 1
    /\ worker' = [worker EXCEPT ![w] = Off]
    /\ slot' = [slot EXCEPT ![w] = [s \in Slots |-> Free]]
    /\ UNCHANGED <<redisVars, request, made, stalls, history>>

-----------------------------------------------------------------------------
(* BullMQ.                                                                  *)

\* A slip of AttemptsOf: the retries without the first attempt.
AttemptsAsRetries(retries) == retries

\* add: BullMQ counts attempts and not retries.
AttemptsOf(retries) == retries + 1

Add(j, retries) ==
    /\ job[j].state = "none"
    /\ job' = [job EXCEPT ![j].state = "wait", ![j].attempts = AttemptsOf(retries)]
    /\ wanted' = [wanted EXCEPT ![j] = retries]
    /\ UNCHANGED <<lock, paused, cancelledJobs, worker, slot, request, counters,
                   tried, returned, asked>>

\* The backoff of a job that is to be retried is over.
Promote(j) ==
    /\ job[j].state = "delayed"
    /\ job' = [job EXCEPT ![j].state = "wait"]
    /\ UNCHANGED <<lock, paused, cancelledJobs, worker, slot, request, counters, history>>

Held(j) == lock[j] # None /\ slot[lock[j][1]][lock[j][2]].job = j

\* Another worker finds that the lock of an active job has run out.
Stalled(j) ==
    /\ job[j].state = "active"
    /\ \E w \in Workers : worker[w].status \in {"subscribing", "running"}
    /\ IF Held(j) THEN stalls < MaxStalls /\ stalls' = stalls + 1 ELSE UNCHANGED stalls
    /\ job' = [job EXCEPT ![j].stalled = @ + 1,
                          ![j].state = IF job[j].stalled >= MaxStalledCount THEN "failed" ELSE "wait"]
    /\ lock' = [lock EXCEPT ![j] = None]
    /\ UNCHANGED <<paused, cancelledJobs, worker, slot, request, made, crashes, history>>

\* A worker takes a waiting job into a free slot. The processor throws at once
\* when no queue of the job's name was started in this process (yet).
Take(w, s, j) ==
    /\ worker[w].status \in {"subscribing", "running"}
    /\ ~paused
    /\ job[j].state = "wait"
    /\ slot[w][s] = Free /\ \A t \in Slots : t < s => slot[w][t] # Free
    /\ job' = [job EXCEPT ![j].state = "active"]
    /\ lock' = [lock EXCEPT ![j] = <<w, s>>]
    /\ slot' = [slot EXCEPT ![w][s] =
          [Free EXCEPT !.job = j,
                       !.step = IF QueueOf[j] \in worker[w].registered THEN "create" ELSE "settle"]]
    /\ tried' = [tried EXCEPT ![j] = @ + 1]
    /\ UNCHANGED <<paused, cancelledJobs, worker, request, counters, wanted, returned, asked>>

\* The attempt is over. BullMQ settles the job if the attempt has its lock.
Settle(w, s) ==
    LET a == slot[w][s]
        j == a.job
        done == job[j].made + 1 >= job[j].attempts
    IN
    /\ a.step = "settle"
    /\ slot' = [slot EXCEPT ![w][s] = Free]
    /\ IF lock[j] = <<w, s>>
       THEN /\ job' = [job EXCEPT ![j].made = @ + 1,
                                  ![j].state = CASE a.ok -> "completed"
                                                 [] ~a.ok /\ done -> "failed"
                                                 [] OTHER -> "delayed"]
            /\ lock' = [lock EXCEPT ![j] = None]
       ELSE UNCHANGED <<job, lock>>
    /\ UNCHANGED <<paused, cancelledJobs, worker, request, counters, history>>

-----------------------------------------------------------------------------
(* workerProcessor.                                                         *)

\* createVendureJob: the job's state, CANCELLED when the active job is in the
\* set of cancelled jobs. It fails for a job that was removed.
CreateJob(w, s) ==
    LET j == slot[w][s].job IN
    /\ slot[w][s].step = "create"
    /\ slot' = [slot EXCEPT ![w][s].step = IF job[j].state = "removed" THEN "settle" ELSE "begin",
                            ![w][s].cancelled = job[j].state = "active" /\ j \in cancelledJobs]
    /\ UNCHANGED <<redisVars, worker, request, counters, history>>

\* The attempt subscribes to cancelRunningJob$ and calls the process function.
BeginProcess(w, s) ==
    /\ slot[w][s].step = "begin"
    /\ slot' = [slot EXCEPT ![w][s].step = "process"]
    /\ UNCHANGED <<redisVars, worker, request, counters, history>>

\* A slip of AttemptSucceeds: the catch block does not throw the error again.
ErrorSwallowed(ok) == TRUE

\* The attempt succeeds when the process function does: catch throws again.
AttemptSucceeds(ok) == ok

\* The process function returns or throws.
EndProcess(w, s, ok) ==
    /\ slot[w][s].step = "process"
    /\ slot' = [slot EXCEPT ![w][s].step = "srem", ![w][s].ok = AttemptSucceeds(ok)]
    /\ returned' = IF ok THEN returned \cup {slot[w][s].job} ELSE returned
    /\ UNCHANGED <<redisVars, worker, request, counters, wanted, tried, asked>>

\* finally: the job leaves the set of cancelled jobs, and completed$ ends the
\* subscription.
RemoveFromCancelled(w, s) ==
    /\ slot[w][s].step = "srem"
    /\ cancelledJobs' = cancelledJobs \ {slot[w][s].job}
    /\ slot' = [slot EXCEPT ![w][s].step = "settle"]
    /\ UNCHANGED <<job, lock, paused, worker, request, counters, history>>

\* A slip of Concerned: the job's own subscription never ends and has no filter.
AnySlot(a, j) == TRUE

\* A slip of Concerned: every running attempt is cancelled.
EveryAttempt(a, j) == a.step \in {"process", "srem"}

\* The attempts that a cancellation of job j concerns: filter and takeUntil.
Concerned(a, j) == a.step \in {"process", "srem"} /\ a.job = j

\* subscribeToCancellationEvents: a process hears that a job is cancelled.
Deliver(w, j) ==
    /\ j \in worker[w].inbox
    /\ worker' = [worker EXCEPT ![w].inbox = @ \ {j}]
    /\ slot' = [slot EXCEPT ![w] = [s \in Slots |->
          IF Concerned(slot[w][s], j) THEN [slot[w][s] EXCEPT !.cancelled = TRUE] ELSE slot[w][s]]]
    /\ UNCHANGED <<redisVars, request, counters, history>>

-----------------------------------------------------------------------------
(* The Admin API: cancelJob, findOne (and each job of findMany).            *)

Checks == {"isWaiting", "isActive", "isCancelled", "isDelayed", "isFailed", "isCompleted"}
Answers == {"PENDING", "RUNNING", "CANCELLED", "RETRYING", "FAILED", "COMPLETED", "undetermined"}

\* getState: the next question to Redis, or the answer.
AfterCheck(check, j) ==
    LET yes(state, answer, next) == IF job[j].state = state THEN answer ELSE next IN
    CASE check = "isWaiting"   -> yes("wait", "PENDING", "isActive")
      [] check = "isActive"    -> yes("active", "isCancelled", "isDelayed")
      [] check = "isCancelled" -> IF j \in cancelledJobs THEN "CANCELLED" ELSE "RUNNING"
      [] check = "isDelayed"   -> yes("delayed", "RETRYING", "isFailed")
      [] check = "isFailed"    -> yes("failed", "FAILED", "isCompleted")
      [] check = "isCompleted" -> yes("completed", "COMPLETED", "undetermined")

GoOn(r, step) == request' = [request EXCEPT ![r].step = step]

\* getJob: nothing happens when there is no such job.
Ask(r, j, op) ==
    /\ request[r] = NoRequest
    /\ made < MaxRequests
    /\ made' = made + 1
    /\ job[j].state \notin {"none", "removed"}
    /\ request' = [request EXCEPT ![r] =
          [op |-> op, job |-> j, step |-> IF op = "find" THEN "isWaiting" ELSE "isActiveToCancel"]]
    /\ UNCHANGED <<redisVars, worker, slot, crashes, stalls, history>>

\* cancelJob: isActive.
LookForActive(r) ==
    LET j == request[r].job IN
    /\ request[r].step = "isActiveToCancel"
    /\ request' = [request EXCEPT ![r] =
          IF job[j].state = "active" THEN [@ EXCEPT !.op = "cancelActive", !.step = "publish"]
                                     ELSE [@ EXCEPT !.op = "cancelInactive", !.step = "isWaiting"]]
    /\ asked' = IF job[j].state = "active" THEN asked \cup {j} ELSE asked
    /\ UNCHANGED <<redisVars, worker, slot, counters, wanted, tried, returned>>

\* setActiveJobAsCancelled: the processes that have subscribed hear of it.
Publish(r) ==
    /\ request[r].step = "publish"
    /\ worker' = [w \in Workers |->
          IF worker[w].status \in {"running", "closing"}
          THEN [worker[w] EXCEPT !.inbox = @ \cup {request[r].job}] ELSE worker[w]]
    /\ GoOn(r, "sadd")
    /\ UNCHANGED <<redisVars, slot, counters, history>>

AddToCancelled(r) ==
    /\ request[r].step = "sadd"
    /\ cancelledJobs' = cancelledJobs \cup {request[r].job}
    /\ GoOn(r, "isWaiting")
    /\ UNCHANGED <<job, lock, paused, worker, slot, counters, history>>

Check(r) ==
    /\ request[r].step \in Checks
    /\ GoOn(r, AfterCheck(request[r].step, request[r].job))
    /\ UNCHANGED <<redisVars, worker, slot, counters, history>>

\* The request is answered, unless cancelJob has to remove the job yet.
Reply(r) ==
    /\ request[r].step \in Answers
    /\ request' = [request EXCEPT ![r] =
          IF @.op = "cancelInactive" /\ @.step # "undetermined" THEN [@ EXCEPT !.step = "remove"]
                                                                ELSE NoRequest]
    /\ UNCHANGED <<redisVars, worker, slot, counters, history>>

\* remove: BullMQ refuses to remove a job that is locked.
RemoveJob(r) ==
    LET j == request[r].job IN
    /\ request[r].step = "remove"
    /\ job' = IF lock[j] = None THEN [job EXCEPT ![j].state = "removed"] ELSE job
    /\ request' = [request EXCEPT ![r] = NoRequest]
    /\ UNCHANGED <<lock, paused, cancelledJobs, worker, slot, counters, history>>

\* removeSettledJobs: the completed and then the failed jobs are cleaned, those
\* that were settled a short while ago excepted.
RemoveSettledJobs(r) ==
    /\ request[r] = NoRequest
    /\ made < MaxRequests
    /\ made' = made + 1
    /\ request' = [request EXCEPT ![r] = [op |-> "clean", job |-> None, step |-> "completed"]]
    /\ UNCHANGED <<redisVars, worker, slot, crashes, stalls, history>>

Clean(r, set) ==
    LET state == request[r].step IN
    /\ state \in {"completed", "failed"}
    /\ \A j \in set : job[j].state = state
    /\ job' = [j \in Jobs |-> IF j \in set THEN [job[j] EXCEPT !.state = "removed"] ELSE job[j]]
    /\ request' = [request EXCEPT ![r] =
          IF state = "completed" THEN [@ EXCEPT !.step = "failed"] ELSE NoRequest]
    /\ UNCHANGED <<lock, paused, cancelledJobs, worker, slot, counters, history>>

-----------------------------------------------------------------------------
Attempt(w, s) ==
    \/ CreateJob(w, s) \/ BeginProcess(w, s)
    \/ \E ok \in BOOLEAN : EndProcess(w, s, ok)
    \/ RemoveFromCancelled(w, s) \/ Settle(w, s)

Serve(r) ==
    \/ LookForActive(r) \/ Publish(r) \/ AddToCancelled(r)
    \/ Check(r) \/ Reply(r) \/ RemoveJob(r)
    \/ \E set \in SUBSET Jobs : Clean(r, set)

Next ==
    \/ \E w \in Workers :
          \/ InitStrategy(w) \/ Subscribe(w) \/ Stop(w) \/ Closed(w) \/ Crash(w)
          \/ \E q \in Queues : Start(w, q)
          \/ \E j \in Jobs : Deliver(w, j)
          \/ \E s \in Slots : Attempt(w, s) \/ \E j \in Jobs : Take(w, s, j)
    \/ \E j \in Jobs :
          \/ \E retries \in 0 .. MaxRetries : Add(j, retries)
          \/ Promote(j) \/ Stalled(j)
    \/ \E r \in Requests :
          \/ Serve(r) \/ RemoveSettledJobs(r)
          \/ \E j \in Jobs, op \in {"find", "cancel"} : Ask(r, j, op)

Spec == Init /\ [][Next]_vars

\* Processes are started and restarted with all their queues, workers take
\* jobs and process functions end, BullMQ promotes and finds stalled jobs.
\* Nobody has to add, cancel, stop or crash anything.
Fairness ==
    /\ \A w \in Workers :
          /\ WF_vars(InitStrategy(w)) /\ WF_vars(Subscribe(w)) /\ WF_vars(Closed(w))
          /\ \A q \in Queues : WF_vars(Start(w, q))
          /\ \A s \in Slots : WF_vars(Attempt(w, s))
    /\ \A j \in Jobs :
          /\ WF_vars(Promote(j)) /\ WF_vars(~Held(j) /\ Stalled(j))
          /\ SF_vars(\E w \in Workers, s \in Slots : Take(w, s, j))
    /\ \A r \in Requests : WF_vars(Serve(r))

FairSpec == Spec /\ Fairness
-----------------------------------------------------------------------------
(* Properties.                                                              *)

\* Jobs, locks, workers, attempts and requests keep their types.
TypeOK ==
    /\ job \in [Jobs -> [state : JobStates, attempts : 0 .. MaxRetries + 1,
                         made : 0 .. MaxRetries + 1, stalled : 0 .. MaxStalledCount + 1]]
    /\ lock \in [Jobs -> (Workers \X Slots) \cup {None}]
    /\ paused \in BOOLEAN
    /\ cancelledJobs \in SUBSET Jobs
    /\ worker \in [Workers -> [status : {"off", "ready", "subscribing", "running", "closing", "closed"},
                               registered : SUBSET Queues, inbox : SUBSET Jobs]]
    /\ slot \in [Workers -> [Slots -> {Free} \cup
                    [job : Jobs, step : {"create", "begin", "process", "srem", "settle"},
                     cancelled : BOOLEAN, ok : BOOLEAN]]]
    /\ request \in [Requests -> {NoRequest} \cup
                       [op : {"clean"}, job : {None}, step : {"completed", "failed"}] \cup
                       [op : {"find", "cancel", "cancelActive", "cancelInactive"}, job : Jobs,
                        step : Checks \cup Answers \cup {"isActiveToCancel", "publish", "sadd", "remove"}]]
    /\ made \in 0 .. MaxRequests /\ crashes \in 0 .. MaxCrashes /\ stalls \in 0 .. MaxStalls
    /\ wanted \in [Jobs -> 0 .. MaxRetries]
    /\ tried \in [Jobs -> Nat]
    /\ returned \in SUBSET Jobs
    /\ asked \in SUBSET Jobs

\* No attempt is told to stop, and no job is reported as cancelled, unless
\* somebody asked to cancel that very job while it was active.
OnlyAskedIsCancelled ==
    /\ \A w \in Workers, s \in Slots : slot[w][s].cancelled => slot[w][s].job \in asked
    /\ \A r \in Requests : request[r].step = "CANCELLED" => request[r].job \in asked

\* Whatever cancels, cleans, stalls or restarts come between: a job is tried
\* no more often than the retries it was added with and its stalls allow, and
\* one that failed for good was given all of them.
RetriesAreUsed ==
    \A j \in Jobs :
        /\ tried[j] <= wanted[j] + 1 + job[j].stalled
        /\ (job[j].state = "failed" /\ job[j].stalled <= MaxStalledCount) =>
               tried[j] = wanted[j] + 1 + job[j].stalled

\* The promise of a job queue strategy: completed only when the process
\* function returned, and never back from where it was disposed of.
JQ == INSTANCE JobQueue WITH
    Disposals <- {"failed", "removed"},
    status <- [j \in Jobs |-> IF job[j].state \in {"wait", "active", "delayed"}
                              THEN "accepted" ELSE job[j].state]

ImplementsJobQueue == JQ!JobQueueSpec

\* Under the fairness above, every job that was added is settled.
EveryJobIsSettled == JQ!EveryJobIsSettled

\* What getState assumes when it throws "Could not determine job state": a job
\* that exists is in one of the states it asked for.
StateIsDetermined ==
    \A r \in Requests : request[r].step = "undetermined" => job[request[r].job].state = "removed"

\* "We have our own custom method of marking a job as cancelled": when the mark
\* is set and its message has arrived, the running job has been cancelled.
MarkedIsCancelled ==
    \A w \in Workers, s \in Slots :
        LET a == slot[w][s] IN
        (/\ a.step = "process"
         /\ a.job \in cancelledJobs \ worker[w].inbox
         /\ \A r \in Requests : request[r].job = a.job => request[r].step \notin {"publish", "sadd"})
            => a.cancelled

\* "You can change the concurrency in the workerOptions": no worker processes
\* more jobs at the same time than it was configured to.
ConcurrencyAsConfigured ==
    \A w \in Workers : Cardinality({s \in Slots : slot[w][s] # Free}) <= ConfiguredConcurrency
=============================================================================
