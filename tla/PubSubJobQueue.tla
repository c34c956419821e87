--------------------------- MODULE PubSubJobQueue ---------------------------
(***************************************************************************)
(* The job queue strategy on Google Cloud Pub/Sub, for one queue: the      *)
(* strategy object of every process, the process functions it was started  *)
(* with, and the messages of the topic.  It implements JobQueue with no    *)
(* way of disposal: a job is retried until its process function returns.   *)
(*                                                                         *)
(* Pub/Sub and the base class InjectableJobQueueStrategy are outside the   *)
(* repository: a message is leased to one subscriber at a time, until it   *)
(* is acknowledged, refused, or its deadline passes.                       *)
(***************************************************************************)
EXTENDS Integers, FiniteSets

CONSTANTS
    Jobs,           \* messages of the queue
    Processes,      \* server and worker processes, each with a strategy object
    Functions,      \* process functions the queue can be started with
    None,           \* not started
    MaxLives,       \* bound: calls of init
    MaxFaults       \* bound: jobs that fail, deadlines that pass, crashes

VARIABLES
    hasInitialized, \* of the strategy of each process
    started,        \* the function a queue was started with before init
    listeners,      \* functions with a listener in the strategy's storage
    attached,       \* functions whose listener is on the subscription's "message"
    status,         \* Pub/Sub: of every message
    leased,         \* Pub/Sub: messages a subscriber has
    returned,       \* jobs whose process function has returned
    attempts,       \* Pub/Sub: deliveries of every message
    runs,           \* calls of processMessage
    lives,          \* calls of init so far
    faults          \* faults so far

strategy == <<hasInitialized, started, listeners, attached>>
vars == <<hasInitialized, started, listeners, attached, status, leased, returned, attempts,
          runs, lives, faults>>

Init ==
    /\ hasInitialized = [p \in Processes |-> FALSE]
    /\ started = [p \in Processes |-> None]
    /\ listeners = [p \in Processes |-> {}]
    /\ attached = [p \in Processes |-> {}]
    /\ status = [j \in Jobs |-> "none"]
    /\ leased = {}
    /\ returned = {}
    /\ attempts = [j \in Jobs |-> 0]
    /\ runs = {}
    /\ lives = 0
    /\ faults = 0

Fault ==
    /\ faults < MaxFaults
    /\ faults' = faults + 1

-----------------------------------------------------------------------------
(* The strategy.                                                            *)

\* start, once initialised: nothing when the function has a listener already.
Listen(p, f) ==
    IF f = None \/ f \in listeners[p] THEN UNCHANGED <<listeners, attached>>
    ELSE /\ listeners' = [listeners EXCEPT ![p] = @ \cup {f}]
         /\ attached' = [attached EXCEPT ![p] = @ \cup {f}]

\* init: what was started before is started now.
Initialise(p) ==
    /\ ~hasInitialized[p]
    /\ lives < MaxLives
    /\ lives' = lives + 1
    /\ hasInitialized' = [hasInitialized EXCEPT ![p] = TRUE]
    /\ started' = [started EXCEPT ![p] = None]
    /\ Listen(p, started[p])
    /\ UNCHANGED <<status, leased, returned, attempts, runs, faults>>

Start(p, f) ==
    /\ \/ /\ ~hasInitialized[p]
          /\ started' = [started EXCEPT ![p] = f]
          /\ UNCHANGED <<listeners, attached>>
       \/ /\ hasInitialized[p]
          /\ Listen(p, f)
          /\ UNCHANGED started
    /\ UNCHANGED <<hasInitialized, status, leased, returned, attempts, runs, lives, faults>>

\* stop: a queue that waits for init is not taken back.
Stop(p, f) ==
    /\ f \in listeners[p]
    /\ listeners' = [listeners EXCEPT ![p] = @ \ {f}]
    /\ attached' = [attached EXCEPT ![p] = @ \ {f}]
    /\ UNCHANGED <<hasInitialized, started, status, leased, returned, attempts, runs, lives, faults>>

\* destroy: the subscriptions lose their listeners and are forgotten; the
\* storage of listeners is not cleared.
Destroy(p) ==
    /\ hasInitialized[p]
    /\ hasInitialized' = [hasInitialized EXCEPT ![p] = FALSE]
    /\ attached' = [attached EXCEPT ![p] = {}]
    /\ UNCHANGED <<started, listeners, status, leased, returned, attempts, runs, lives, faults>>

Add(p, j) ==
    /\ hasInitialized[p]
    /\ status[j] = "none"
    /\ status' = [status EXCEPT ![j] = "accepted"]
    /\ UNCHANGED <<strategy, leased, returned, attempts, runs, lives, faults>>

-----------------------------------------------------------------------------
(* Messages.                                                                *)

\* The subscription emits "message": every listener on it gets the message.
Deliver(p, j) ==
    /\ status[j] = "accepted"
    /\ j \notin leased
    /\ attached[p] # {}
    /\ leased' = leased \cup {j}
    /\ attempts' = [attempts EXCEPT ![j] = @ + 1]
    /\ runs' = runs \cup {[job |-> j, process |-> p, function |-> f, attempt |-> attempts'[j],
                           step |-> "process"] : f \in attached[p]}
    /\ UNCHANGED <<strategy, status, returned, lives, faults>>

\* A slip of Then: the message is acknowledged however the process ends.
ThenAlways(failed) == "ack"

\* then: ack; catch: nack.
Then(failed) == IF failed THEN "nack" ELSE "ack"

\* process(job) settles.
Processed(run, failed) ==
    /\ run.step = "process"
    /\ IF failed THEN Fault ELSE UNCHANGED faults
    /\ returned' = IF failed THEN returned ELSE returned \cup {run.job}
    /\ runs' = (runs \ {run}) \cup {[run EXCEPT !.step = Then(failed)]}
    /\ UNCHANGED <<strategy, status, leased, attempts, lives>>

Ack(run) ==
    /\ run.step = "ack"
    /\ status' = [status EXCEPT ![run.job] = "completed"]
    /\ runs' = runs \ {run}
    /\ UNCHANGED <<strategy, leased, returned, attempts, lives, faults>>

\* A slip of AfterNack: the message is not given back.
LeaseKept(run) == leased

AfterNack(run) == leased \ {run.job}

Nack(run) ==
    /\ run.step = "nack"
    /\ leased' = AfterNack(run)
    /\ runs' = runs \ {run}
    /\ UNCHANGED <<strategy, status, returned, attempts, lives, faults>>

\* The deadline of a message passes, or its acknowledgement is lost: Pub/Sub
\* delivers it again, perhaps while it is being processed.
Expire(j) ==
    /\ j \in leased
    /\ Fault
    /\ leased' = leased \ {j}
    /\ UNCHANGED <<strategy, status, returned, attempts, runs, lives>>

LoseAck(run) ==
    /\ run.step = "ack"
    /\ Fault
    /\ leased' = leased \ {run.job}
    /\ runs' = runs \ {run}
    /\ UNCHANGED <<strategy, status, returned, attempts, lives>>

\* The process stops: its strategy starts afresh, its messages are free again.
Crash(p) ==
    LET mine == {run \in runs : run.process = p} IN
    /\ Fault
    /\ hasInitialized' = [hasInitialized EXCEPT ![p] = FALSE]
    /\ started' = [started EXCEPT ![p] = None]
    /\ listeners' = [listeners EXCEPT ![p] = {}]
    /\ attached' = [attached EXCEPT ![p] = {}]
    /\ runs' = runs \ mine
    /\ leased' = leased \ {run.job : run \in mine}
    /\ UNCHANGED <<status, returned, attempts, lives>>

-----------------------------------------------------------------------------
Settling == \E run \in runs : Processed(run, FALSE) \/ Ack(run) \/ Nack(run)

Delivering == \E p \in Processes, j \in Jobs : Deliver(p, j)

Next ==
    \/ \E p \in Processes :
          \/ Initialise(p) \/ Destroy(p) \/ Crash(p)
          \/ \E f \in Functions : Start(p, f) \/ Stop(p, f)
          \/ \E j \in Jobs : Add(p, j) \/ Deliver(p, j)
    \/ \E run \in runs : \/ \E failed \in BOOLEAN : Processed(run, failed)
                         \/ Ack(run) \/ Nack(run) \/ LoseAck(run)
    \/ \E j \in Jobs : Expire(j)

Spec == Init /\ [][Next]_vars

\* Pub/Sub goes on delivering, and every call of the process function ends.
Fairness ==
    /\ \A j \in Jobs : WF_vars(\E p \in Processes : Deliver(p, j))
    /\ WF_vars(Settling)

-----------------------------------------------------------------------------
(* Properties.                                                              *)

\* The strategy does what a job queue promises: a message is acknowledged only
\* after its process function has returned, and nothing else removes it.
Abstract == INSTANCE JobQueue WITH Disposals <- {}

ImplementsJobQueue == Abstract!JobQueueSpec

\* No job stays unsettled while some process goes on listening: however often
\* jobs fail, and processes stop or are started again.
Listening == \E p \in Processes : attached[p] # {}

EveryPublishedJobIsSettled ==
    <>[]Listening => []<>(\A j \in Jobs : status[j] # "accepted")

\* A queue that was started and not stopped listens once its strategy is
\* initialised. After destroy and init it does not: start finds the listener
\* of the earlier life.
StartedQueueListens ==
    \A p \in Processes : hasInitialized[p] => listeners[p] \subseteq attached[p]
=============================================================================
