------------------------- MODULE PluginQueuesProofs --------------------------
(*****************************************************************************)
(* What is proved of the plugins that keep jobs: that Pub/Sub does what      *)
(* JobQueue promises, that buffered jobs leave once, that mails do, and that *)
(* what became of them is announced.                                         *)
(*****************************************************************************)
EXTENDS Plugins, TLAPS

-----------------------------------------------------------------------------
(* Google Pub/Sub.                                                           *)

\* The fields of a call of the process function.
PubSubShape == {"job", "process", "function", "attempt", "step"}

\* A call of the process function is for a job that was added, and whose
\* function has returned when it is about to be acknowledged.
RunOK(run) ==
    /\ DOMAIN run = PubSubShape
    /\ run.job \in Jobs
    /\ pubSubStatus[run.job] # "none"
    /\ run.step = "ack" => run.job \in pubSubReturned

\* Calls of the process function are of jobs that were added.
QueueInv ==
    /\ pubSubStatus \in [Jobs -> {"none", "accepted", "completed"}]
    /\ \A run \in pubSubRuns : RunOK(run)

-----------------------------------------------------------------------------
(* The invariant.                                                            *)

LEMMA QueueInit == PubSub!Init => QueueInv
BY DEF PubSub!Init, QueueInv

\* Steps that end runs, or leave them, and settle no job.
LEMMA FewerRuns ==
    ASSUME QueueInv, UNCHANGED <<pubSubStatus, pubSubReturned>>,
             pubSubRuns' \subseteq pubSubRuns
    PROVE  QueueInv'
BY DEF QueueInv, RunOK

LEMMA PubSubAddKeeps ==
    ASSUME QueueInv, NEW p \in Processes, NEW j \in Jobs, PubSub!Add(p, j)
    PROVE  QueueInv'
<1>1. pubSubStatus' \in [Jobs -> {"none", "accepted", "completed"}]
  BY DEF QueueInv, PubSub!Add
<1>2. \A k \in Jobs : pubSubStatus[k] # "none" => pubSubStatus'[k] # "none"
  BY DEF QueueInv, PubSub!Add
<1> QED
  BY <1>1, <1>2 DEF QueueInv, RunOK, PubSub!Add

LEMMA DeliverKeeps ==
    ASSUME QueueInv, NEW p \in Processes, NEW j \in Jobs, PubSub!Deliver(p, j)
    PROVE  QueueInv'
<1> SUFFICES ASSUME NEW run \in pubSubRuns' PROVE RunOK(run)'
  BY DEF QueueInv, PubSub!Deliver
<1>1. CASE run \in pubSubRuns
  BY <1>1 DEF QueueInv, RunOK, PubSub!Deliver
<1>2. CASE run \notin pubSubRuns
  <2>1. PICK f \in pubSubAttached[p] :
          run = [job |-> j, process |-> p, function |-> f, attempt |-> pubSubAttempts'[j],
            step |-> "process"]
    BY <1>2 DEF PubSub!Deliver
  <2>2. DOMAIN run = PubSubShape /\ run.job = j /\ run.step = "process"
    BY <2>1 DEF PubSubShape
  <2> QED
    BY <2>2 DEF RunOK, PubSub!Deliver
<1> QED
  BY <1>1, <1>2

LEMMA ProcessedKeeps ==
    ASSUME QueueInv, NEW run \in pubSubRuns, NEW failed \in BOOLEAN,
             PubSub!Processed(run, failed)
    PROVE  QueueInv'
<1> DEFINE next == [run EXCEPT !.step = PubSub!Then(failed)]
<1>1. pubSubStatus' = pubSubStatus /\ pubSubReturned \subseteq pubSubReturned'
        /\ pubSubRuns' = (pubSubRuns \ {run}) \cup {next}
  BY DEF PubSub!Processed
<1>2. RunOK(run)
  BY DEF QueueInv
<1>3. DOMAIN next = PubSubShape /\ next.job = run.job /\ next.step = PubSub!Then(failed)
  BY <1>2 DEF RunOK, PubSubShape
<1>4. PubSub!Then(failed) = "ack" => run.job \in pubSubReturned'
  BY DEF PubSub!Then, PubSub!Processed
<1>5. RunOK(next)'
  BY <1>1, <1>2, <1>3, <1>4 DEF RunOK
<1>6. \A r \in pubSubRuns : RunOK(r)'
  BY <1>1 DEF QueueInv, RunOK
<1> QED
  BY <1>1, <1>5, <1>6 DEF QueueInv

LEMMA AckKeeps ==
    ASSUME QueueInv, NEW run \in pubSubRuns, PubSub!Ack(run)
    PROVE  QueueInv'
<1>1. run.job \in Jobs
  BY DEF QueueInv, RunOK
<1>2. /\ pubSubStatus' \in [Jobs -> {"none", "accepted", "completed"}]
      /\ \A k \in Jobs : pubSubStatus[k] # "none" => pubSubStatus'[k] # "none"
  BY <1>1 DEF QueueInv, PubSub!Ack
<1> QED
  BY <1>2 DEF QueueInv, RunOK, PubSub!Ack

LEMMA QueueStep == QueueInv /\ [PubSub!Next]_(PubSub!vars) => QueueInv'
<1> SUFFICES ASSUME QueueInv, [PubSub!Next]_(PubSub!vars) PROVE QueueInv'
  OBVIOUS
<1>1. ASSUME NEW p \in Processes, PubSub!Initialise(p) \/ PubSub!Destroy(p)
                   \/ PubSub!Crash(p) PROVE QueueInv'
  BY <1>1, FewerRuns DEF PubSub!Initialise, PubSub!Destroy, PubSub!Crash
<1>2. ASSUME NEW p \in Processes, NEW f \in Functions, PubSub!Start(p, f)
                   \/ PubSub!Stop(p, f) PROVE QueueInv'
  BY <1>2, FewerRuns DEF PubSub!Start, PubSub!Stop
<1>3. ASSUME NEW run \in pubSubRuns, PubSub!Nack(run) \/ PubSub!LoseAck(run) PROVE QueueInv'
  BY <1>3, FewerRuns DEF PubSub!Nack, PubSub!LoseAck
<1>4. ASSUME NEW j \in Jobs, PubSub!Expire(j) PROVE QueueInv'
  BY <1>4, FewerRuns DEF PubSub!Expire
<1>5. CASE UNCHANGED PubSub!vars
  BY <1>5, FewerRuns DEF PubSub!vars
<1> QED
  BY <1>1, <1>2, <1>3, <1>4, <1>5, PubSubAddKeeps, DeliverKeeps, ProcessedKeeps, AckKeeps
     DEF PubSub!Next

-----------------------------------------------------------------------------
(* Every step is one of JobQueue, or none.                                   *)

\* Each step is one of JobQueue, or leaves what it shows.
LEMMA NextMaps == QueueInv /\ [PubSub!Next]_(PubSub!vars)
    => [PubSub!Abstract!JobQueueNext]_(PubSub!Abstract!jobQueueVars)
<1> SUFFICES ASSUME QueueInv, [PubSub!Next]_(PubSub!vars)
             PROVE  PubSub!Abstract!JobQueueNext \/ UNCHANGED <<pubSubStatus, pubSubReturned>>
  BY DEF PubSub!Abstract!jobQueueVars
<1>1. ASSUME NEW p \in Processes, NEW j \in Jobs, PubSub!Add(p, j)
                   PROVE PubSub!Abstract!JobQueueNext
  BY <1>1 DEF PubSub!Add, PubSub!Abstract!JobQueueNext, PubSub!Abstract!Accept
<1>2. ASSUME NEW run \in pubSubRuns, NEW failed \in BOOLEAN, PubSub!Processed(run, failed)
      PROVE  PubSub!Abstract!JobQueueNext \/ UNCHANGED <<pubSubStatus, pubSubReturned>>
  <2>1. run.job \in Jobs /\ pubSubStatus[run.job] # "none"
    BY DEF QueueInv, RunOK
  <2>2. CASE failed
    BY <1>2, <2>2 DEF PubSub!Processed
  <2>3. CASE ~failed
    <3>1. PubSub!Abstract!Return(run.job)
      BY <1>2, <2>1, <2>3 DEF PubSub!Processed, PubSub!Abstract!Return
    <3> QED
      BY <2>1, <3>1 DEF PubSub!Abstract!JobQueueNext
  <2> QED
    BY <2>2, <2>3
\* A message that is acknowledged a second time has been settled.
<1>3. ASSUME NEW run \in pubSubRuns, PubSub!Ack(run)
      PROVE  PubSub!Abstract!JobQueueNext \/ UNCHANGED <<pubSubStatus, pubSubReturned>>
  <2>1. run.job \in Jobs /\ pubSubStatus[run.job] # "none" /\ run.job \in pubSubReturned
    BY <1>3 DEF QueueInv, RunOK, PubSub!Ack
  <2>2. CASE pubSubStatus[run.job] = "accepted"
    <3>1. PubSub!Abstract!Complete(run.job)
      BY <1>3, <2>1, <2>2 DEF PubSub!Ack, PubSub!Abstract!Complete
    <3> QED
      BY <2>1, <3>1 DEF PubSub!Abstract!JobQueueNext
  <2>3. CASE pubSubStatus[run.job] # "accepted"
    <3>1. pubSubStatus[run.job] = "completed"
      BY <2>1, <2>3 DEF QueueInv
    <3>2. pubSubStatus' = pubSubStatus
      BY <1>3, <3>1 DEF PubSub!Ack, QueueInv
    <3> QED
      BY <1>3, <3>2 DEF PubSub!Ack
  <2> QED
    BY <2>2, <2>3
<1>4. CASE \/ \E p \in Processes : \/ PubSub!Initialise(p) \/ PubSub!Destroy(p) \/ PubSub!Crash(p)
                                   \/ \E f \in Functions : PubSub!Start(p, f)
                                        \/ PubSub!Stop(p, f)
                                   \/ \E j \in Jobs : PubSub!Deliver(p, j)
           \/ \E run \in pubSubRuns : PubSub!Nack(run) \/ PubSub!LoseAck(run)
           \/ \E j \in Jobs : PubSub!Expire(j)
           \/ UNCHANGED PubSub!vars
  BY <1>4
     DEF PubSub!Initialise, PubSub!Destroy, PubSub!Crash, PubSub!Start, PubSub!Stop,
         PubSub!Deliver, PubSub!Nack, PubSub!LoseAck, PubSub!Expire, PubSub!vars
<1> QED
  BY <1>1, <1>2, <1>3, <1>4 DEF PubSub!Next

\* Seen from the queue a step of another plugin is none.
LEMMA PubSubAlone == Spec => PubSub!Spec
<1>1. Init => PubSub!Init
  BY DEF Init
<1>2. [Next]_vars => [PubSub!Next]_(PubSub!vars)
  BY DEF Next, vars, PubSub!vars, pubSubVars, StripeStep, BraintreeStep,
         PubSubStep, RedisStep, EmailStep, AssetsStep, StellateStep, SearchStep, DashboardStep,
         butStripe, butBraintree, butPubSub, butRedis, butEmail, butAssets, butStellate,
         butSearch, butDashboard
<1> QED
  BY <1>1, <1>2, PTL DEF Spec, PubSub!Spec

\* The strategy implements JobQueue: a message is acknowledged, and so never
\* delivered again, only after its process function has returned.
THEOREM PubSubKeepsThePromise == Spec => ImplementsJobQueue
<1>1. PubSub!Init => PubSub!Abstract!JobQueueInit
  BY DEF PubSub!Init, PubSub!Abstract!JobQueueInit
<1> QED
  BY <1>1, PubSubAlone, QueueInit, QueueStep, NextMaps, PTL
     DEF PubSub!Spec, ImplementsJobQueue, PubSub!ImplementsJobQueue,
         PubSub!Abstract!JobQueueSpec

-----------------------------------------------------------------------------
(* The job buffer in Redis.                                                  *)

\* The jobs in a buffer, and those a flush has read.
Waiting(b) == Redis!ToSet(redisList[b])
Seen(f) == Redis!ToSet(redisFlusher[f].read)

RedisLocalState ==
    [step : {"idle", "read", "delete"}, ids : SUBSET Buffers, id : Buffers \cup {"none"},
     read : Seq(BufferedJobs), result : SUBSET BufferedJobs]

\* The types.
BufferTypes ==
    /\ redisList \in [Buffers -> Seq(BufferedJobs)]
    /\ redisAdded \in SUBSET BufferedJobs
    /\ redisFlusher \in [Flushers -> RedisLocalState]
    /\ redisFlushed \in [BufferedJobs -> Nat]

\* Nothing is anywhere that was not added, and only a flush between its two
\* calls holds what it has read.
OnlyAdded ==
    /\ \A b \in Buffers : Waiting(b) \subseteq redisAdded
    /\ \A f \in Flushers :
          /\ redisFlusher[f].result \subseteq redisAdded
          /\ redisFlusher[f].step = "idle" => redisFlusher[f].result = {}
          /\ redisFlusher[f].step # "delete" => redisFlusher[f].read = <<>>
          /\ redisFlusher[f].step = "delete" => redisFlusher[f].id \in Buffers
          /\ Seen(f) \subseteq redisAdded
    /\ \A j \in BufferedJobs : redisFlushed[j] > 0 => j \in redisAdded

\* The job is in one list, and has been read there by the one flush that is
\* about to delete it; or in the result of one flush; or was returned.
InOnePlace(j) ==
    /\ \A b, c \in Buffers : j \in Waiting(b) /\ j \in Waiting(c) => b = c
    /\ \A f \in Flushers :
          redisFlusher[f].step = "delete"
            => (j \in Waiting(redisFlusher[f].id) <=> j \in Seen(f))
    /\ \A f, g \in Flushers : j \in Seen(f) /\ j \in Seen(g) => f = g
    /\ \A f, g \in Flushers : j \in redisFlusher[f].result /\ j \in redisFlusher[g].result
         => f = g
    /\ \A f \in Flushers, b \in Buffers : ~(j \in redisFlusher[f].result /\ j \in Waiting(b))

\* A job that was flushed, or is in the hands of a flush, is accounted for.
Accounted(j) ==
    \/ /\ redisFlushed[j] = 1
       /\ \A b \in Buffers : j \notin Waiting(b)
       /\ \A f \in Flushers : j \notin redisFlusher[f].result
    \/ /\ redisFlushed[j] = 0
       /\ \/ \E b \in Buffers : j \in Waiting(b)
          \/ \E f \in Flushers : j \in redisFlusher[f].result

\* The inductive invariant.
BufferInv ==
    /\ BufferTypes
    /\ OnlyAdded
    /\ \A j \in redisAdded \ redisExcused : InOnePlace(j) /\ Accounted(j)

-----------------------------------------------------------------------------
\* What is in an empty list, and in a longer one.
LEMMA NothingInEmpty == Redis!ToSet(<<>>) = {}
BY DEF Redis!ToSet

LEMMA PushedIsIn ==
    ASSUME NEW j, NEW s \in Seq(BufferedJobs)
    PROVE  Redis!ToSet(<<j>> \o s) = {j} \cup Redis!ToSet(s)
<1>1. /\ DOMAIN (<<j>> \o s) = 1 .. (Len(s) + 1)
      /\ (<<j>> \o s)[1] = j
      /\ \A i \in 1 .. Len(s) : (<<j>> \o s)[i + 1] = s[i]
  OBVIOUS
<1>2. DOMAIN s = 1 .. Len(s) /\ Len(s) \in Nat
  OBVIOUS
<1>3. ASSUME NEW x \in Redis!ToSet(<<j>> \o s) PROVE x \in {j} \cup Redis!ToSet(s)
  <2>1. PICK i \in 1 .. (Len(s) + 1) : (<<j>> \o s)[i] = x
    BY <1>1, <1>3 DEF Redis!ToSet
  <2>2. i = 1 \/ i - 1 \in 1 .. Len(s)
    BY <1>2
  <2> QED
    BY <1>1, <1>2, <2>1, <2>2 DEF Redis!ToSet
<1>4. ASSUME NEW x \in {j} \cup Redis!ToSet(s) PROVE x \in Redis!ToSet(<<j>> \o s)
  <2>1. CASE x = j
    BY <1>1, <1>2, <2>1 DEF Redis!ToSet
  <2>2. CASE x \in Redis!ToSet(s)
    <3>1. PICK i \in 1 .. Len(s) : s[i] = x
      BY <1>2, <2>2 DEF Redis!ToSet
    <3>2. i + 1 \in DOMAIN (<<j>> \o s) /\ (<<j>> \o s)[i + 1] = x
      BY <1>1, <1>2, <3>1
    <3> QED
      BY <3>2 DEF Redis!ToSet
  <2> QED
    BY <1>4, <2>1, <2>2
<1> QED
  BY <1>3, <1>4

LEMMA BufferInit == Redis!Init => BufferInv
BY NothingInEmpty
   DEF Redis!Init, BufferInv, BufferTypes, OnlyAdded, Waiting, Seen, RedisLocalState, Redis!Idle

-----------------------------------------------------------------------------
(* One lemma for each action.                                                *)

\* A job is added to a buffer.
LEMMA RedisAddKeeps ==
    ASSUME BufferInv, NEW b \in Buffers, NEW j \in BufferedJobs, Redis!Add(b, j)
    PROVE  BufferInv'
<1>1. /\ Waiting(b)' = {j} \cup Waiting(b)
      /\ \A c \in Buffers : c # b => Waiting(c)' = Waiting(c)
  BY PushedIsIn DEF Redis!Add, Waiting, BufferInv, BufferTypes
<1>2. \A f \in Flushers : Seen(f)' = Seen(f) /\ redisFlusher'[f] = redisFlusher[f]
  BY DEF Redis!Add, Seen
<1>3. BufferTypes'
  BY DEF Redis!Add, BufferInv, BufferTypes
<1>4. OnlyAdded'
  BY <1>1, <1>2 DEF Redis!Add, BufferInv, OnlyAdded
<1>5. ASSUME NEW k \in redisAdded' \ redisExcused' PROVE InOnePlace(k)' /\ Accounted(k)'
  <2>1. CASE k = j
    <3>1. Redis!Reading(b) = {}
      BY <1>5, <2>1 DEF Redis!Add
    <3>2. \A f \in Flushers : redisFlusher[f].step = "delete" => redisFlusher[f].id # b
      BY <3>1 DEF Redis!Reading
    <3>3. /\ \A c \in Buffers : k \notin Waiting(c)
          /\ \A f \in Flushers : k \notin Seen(f) /\ k \notin redisFlusher[f].result
          /\ redisFlushed'[k] = 0
      BY <2>1 DEF Redis!Add, BufferInv, BufferTypes, OnlyAdded
    <3>4. \A f \in Flushers : redisFlusher[f].step = "delete" => redisFlusher[f].id \in Buffers
      BY DEF BufferInv, OnlyAdded
    <3> QED
      BY <1>1, <1>2, <2>1, <3>2, <3>3, <3>4 DEF InOnePlace, Accounted
  <2>2. CASE k # j
    <3>1. k \in redisAdded \ redisExcused
      BY <1>5, <2>2 DEF Redis!Add
    <3>2. \A c \in Buffers : k \in Waiting(c)' <=> k \in Waiting(c)
      BY <1>1, <2>2
    <3>3. InOnePlace(k) /\ Accounted(k) /\ redisFlushed' = redisFlushed
      BY <3>1 DEF BufferInv, Redis!Add
    <3>4. \A f \in Flushers : redisFlusher[f].step = "delete" => redisFlusher[f].id \in Buffers
      BY DEF BufferInv, OnlyAdded
    <3>5. InOnePlace(k)'
      BY <1>2, <3>2, <3>3, <3>4 DEF InOnePlace
    <3>6. Accounted(k)'
      BY <1>2, <3>2, <3>3 DEF Accounted
    <3> QED
      BY <3>5, <3>6
  <2> QED
    BY <2>1, <2>2
<1> QED
  BY <1>3, <1>4, <1>5 DEF BufferInv

\* A flush begins, or stops: nothing moves, and what it had in its hands is
\* excused.
LEMMA LetGo ==
    ASSUME BufferInv, NEW f \in Flushers, NEW next \in RedisLocalState,
           redisFlusher' = [redisFlusher EXCEPT ![f] = next],
           next.step # "delete", next.read = <<>>, next.result = {},
           redisExcused \cup redisFlusher[f].result \subseteq redisExcused',
           UNCHANGED <<redisList, redisAdded, redisFlushed>>
    PROVE  BufferInv'
<1>1. /\ redisFlusher'[f] = next
      /\ \A g \in Flushers : g # f => redisFlusher'[g] = redisFlusher[g] /\ Seen(g)' = Seen(g)
      /\ Seen(f)' = {}
      /\ \A b \in Buffers : Waiting(b)' = Waiting(b)
  BY NothingInEmpty DEF BufferInv, BufferTypes, Seen, Waiting
<1>2. BufferTypes'
  BY DEF BufferInv, BufferTypes
<1>3. OnlyAdded'
  BY <1>1 DEF BufferInv, OnlyAdded
<1>4. ASSUME NEW k \in redisAdded' \ redisExcused' PROVE InOnePlace(k)' /\ Accounted(k)'
  <2>1. k \in redisAdded \ redisExcused /\ k \notin redisFlusher[f].result
    BY <1>4
  <2>2. InOnePlace(k) /\ Accounted(k)
    BY <2>1 DEF BufferInv
  <2>3. \A g \in Flushers : redisFlusher[g].step = "delete" => redisFlusher[g].id \in Buffers
    BY DEF BufferInv, OnlyAdded
  <2>4. InOnePlace(k)'
    BY <1>1, <2>2, <2>3 DEF InOnePlace
  <2>5. Accounted(k)'
    BY <1>1, <2>1, <2>2 DEF Accounted
  <2> QED
    BY <2>4, <2>5
<1> QED
  BY <1>2, <1>3, <1>4 DEF BufferInv

\* A flush begins.
LEMMA FlushKeeps ==
    ASSUME BufferInv, NEW f \in Flushers, NEW ids \in SUBSET Buffers, Redis!Flush(f, ids)
    PROVE  BufferInv'
<1> DEFINE next == [Redis!Idle EXCEPT !.step = "read", !.ids = ids]
<1>0. Redis!Idle \in RedisLocalState /\ Redis!Idle.read = <<>> /\ Redis!Idle.result = {}
  BY DEF Redis!Idle, RedisLocalState
<1>1. next \in RedisLocalState /\ next.step = "read" /\ next.read = <<>> /\ next.result = {}
  BY <1>0 DEF RedisLocalState
<1>2. redisFlusher[f].result = {}
  BY DEF Redis!Flush, BufferInv, OnlyAdded
<1>3. redisFlusher' = [redisFlusher EXCEPT ![f] = next]
        /\ UNCHANGED <<redisList, redisAdded, redisFlushed, redisExcused>>
  BY DEF Redis!Flush
<1> QED
  BY <1>1, <1>2, <1>3, LetGo

\* A flush fails.
LEMMA RedisFailKeeps ==
    ASSUME BufferInv, NEW f \in Flushers, Redis!Fail(f)
    PROVE  BufferInv'
<1>1. Redis!Idle \in RedisLocalState /\ Redis!Idle.step = "idle" /\ Redis!Idle.read = <<>>
        /\ Redis!Idle.result = {}
  BY DEF Redis!Idle, RedisLocalState
<1>2. /\ redisFlusher' = [redisFlusher EXCEPT ![f] = Redis!Idle]
           /\ UNCHANGED <<redisList, redisAdded, redisFlushed>>
      /\ redisExcused' = redisExcused \cup redisFlusher[f].result
  BY DEF Redis!Fail
<1> QED
  BY <1>1, <1>2, LetGo

\* A flush reads a buffer.
LEMMA ReadKeeps ==
    ASSUME BufferInv, NEW f \in Flushers, NEW b \in Buffers, Redis!Read(f, b)
    PROVE  BufferInv'
<1> DEFINE next == [redisFlusher[f] EXCEPT !.step = "delete", !.id = b,
             !.read = redisList[b], !.ids = @ \ {b}]
<1>1. redisFlusher[f] \in RedisLocalState /\ redisList[b] \in Seq(BufferedJobs)
        /\ redisFlusher[f].step = "read"
  BY DEF BufferInv, BufferTypes, Redis!Read
<1>2. /\ next \in RedisLocalState
      /\ next.step = "delete" /\ next.id = b /\ next.read = redisList[b]
      /\ next.result = redisFlusher[f].result
  BY <1>1 DEF RedisLocalState
<1>3. redisFlusher' = [redisFlusher EXCEPT ![f] = next]
        /\ UNCHANGED <<redisList, redisAdded, redisFlushed>>
  BY DEF Redis!Read, Redis!ListRange
<1>4. /\ redisFlusher'[f] = next
      /\ \A g \in Flushers : g # f => redisFlusher'[g] = redisFlusher[g] /\ Seen(g)' = Seen(g)
      /\ Seen(f)' = Waiting(b)
      /\ \A c \in Buffers : Waiting(c)' = Waiting(c)
  BY <1>2, <1>3 DEF BufferInv, BufferTypes, Seen, Waiting
<1>5. BufferTypes'
  BY <1>2, <1>3 DEF BufferInv, BufferTypes
<1>6. OnlyAdded'
  BY <1>2, <1>3, <1>4 DEF BufferInv, OnlyAdded
<1>7. ASSUME NEW k \in redisAdded' \ redisExcused' PROVE InOnePlace(k)' /\ Accounted(k)'
  <2>1. k \in redisAdded \ redisExcused /\ (Redis!Reading(b) = {} \/ k \notin Waiting(b))
    BY <1>7, <1>3 DEF Redis!Read, Waiting
  <2>2. InOnePlace(k) /\ Accounted(k)
    BY <2>1 DEF BufferInv
  <2>3. \A g \in Flushers : redisFlusher[g].step = "delete" => redisFlusher[g].id \in Buffers
    BY DEF BufferInv, OnlyAdded
\* No other flush has seen what this one reads now.
  <2>4. \A g \in Flushers : k \in Waiting(b) => k \notin Seen(g)
    <3> SUFFICES ASSUME NEW g \in Flushers, k \in Waiting(b), k \in Seen(g) PROVE FALSE
      OBVIOUS
    <3>1. redisFlusher[g].step = "delete"
      BY NothingInEmpty DEF BufferInv, OnlyAdded, Seen
    <3>2. redisFlusher[g].id = b
      BY <2>2, <2>3, <3>1 DEF InOnePlace
    <3> QED
      BY <2>1, <3>1, <3>2 DEF Redis!Reading
  <2>5. InOnePlace(k)'
    <3>1. ASSUME NEW g \in Flushers, NEW c \in Buffers, redisFlusher'[g].step = "delete",
                       redisFlusher'[g].id = c
          PROVE  k \in Waiting(c)' <=> k \in Seen(g)'
      <4>1. CASE g = f
        BY <1>2, <1>4, <3>1, <4>1
      <4>2. CASE g # f
        BY <1>4, <2>2, <3>1, <4>2 DEF InOnePlace
      <4> QED
        BY <4>1, <4>2
    <3>2. \A g \in Flushers : redisFlusher'[g].step = "delete"
            => redisFlusher'[g].id \in Buffers
      BY <1>6 DEF OnlyAdded
    <3>3. \A g, h \in Flushers : k \in Seen(g)' /\ k \in Seen(h)' => g = h
      BY <1>4, <2>2, <2>4 DEF InOnePlace
    <3>4. \A g \in Flushers : redisFlusher'[g].result = redisFlusher[g].result
      BY <1>2, <1>4
    <3> QED
      BY <1>4, <2>2, <3>1, <3>2, <3>3, <3>4 DEF InOnePlace
  <2>6. Accounted(k)'
    BY <1>2, <1>3, <1>4, <2>2 DEF Accounted
  <2> QED
    BY <2>5, <2>6
<1> QED
  BY <1>5, <1>6, <1>7 DEF BufferInv

\* A flush deletes the buffer it has read.
LEMMA DeleteKeeps ==
    ASSUME BufferInv, NEW f \in Flushers, Redis!Delete(f)
    PROVE  BufferInv'
<1> DEFINE next == [redisFlusher[f] EXCEPT !.step = "read", !.read = <<>>, !.id = "none",
                                      !.result = @ \cup Redis!ToSet(redisFlusher[f].read)]
<1>0. PICK b \in Buffers : b = redisFlusher[f].id
  BY DEF BufferInv, OnlyAdded, Redis!Delete
<1>1. redisFlusher[f] \in RedisLocalState /\ redisFlusher[f].step = "delete"
        /\ redisFlusher[f].id = b
  BY <1>0 DEF BufferInv, BufferTypes, Redis!Delete
<1>2. Seen(f) \subseteq BufferedJobs
  BY DEF BufferInv, BufferTypes, OnlyAdded
<1>3. /\ next \in RedisLocalState
      /\ next.step = "read" /\ next.read = <<>>
      /\ next.result = redisFlusher[f].result \cup Seen(f)
  <2>1. <<>> \in Seq(BufferedJobs) /\ redisFlusher[f].result
          \cup Seen(f) \in SUBSET BufferedJobs
    BY <1>1, <1>2 DEF RedisLocalState
  <2> QED
    BY <1>1, <2>1 DEF RedisLocalState, Seen
<1>4. /\ redisFlusher' = [redisFlusher EXCEPT ![f] = next]
           /\ redisList' = [redisList EXCEPT ![b] = <<>>]
      /\ UNCHANGED <<redisAdded, redisFlushed, redisExcused>>
  BY <1>0 DEF Redis!Delete
<1>5. /\ redisFlusher'[f] = next
      /\ \A g \in Flushers : g # f => redisFlusher'[g] = redisFlusher[g] /\ Seen(g)' = Seen(g)
      /\ Seen(f)' = {}
      /\ Waiting(b)' = {}
      /\ \A c \in Buffers : c # b => Waiting(c)' = Waiting(c)
  BY <1>1, <1>3, <1>4, NothingInEmpty DEF BufferInv, BufferTypes, Seen, Waiting
<1>6. BufferTypes'
  BY <1>3, <1>4 DEF BufferInv, BufferTypes
<1>7. OnlyAdded'
  BY <1>3, <1>4, <1>5 DEF BufferInv, OnlyAdded
<1>8. ASSUME NEW k \in redisAdded' \ redisExcused' PROVE InOnePlace(k)' /\ Accounted(k)'
  <2>1. InOnePlace(k) /\ Accounted(k)
    BY <1>4, <1>8 DEF BufferInv
  <2>2. \A g \in Flushers : redisFlusher[g].step = "delete" => redisFlusher[g].id \in Buffers
    BY DEF BufferInv, OnlyAdded
\* What is deleted is what this flush has seen, and nobody else has.
  <2>3. k \in Waiting(b) <=> k \in Seen(f)
    BY <1>1, <2>1 DEF InOnePlace
  <2>4. \A g \in Flushers \ {f} : k \in Seen(f) => k \notin Seen(g)
          /\ k \notin redisFlusher[g].result
    BY <1>1, <2>1, <2>3 DEF InOnePlace
  <2>5. \A g \in Flushers \ {f}, c \in Buffers :
            redisFlusher[g].step = "delete" /\ redisFlusher[g].id = c
              => (k \in Waiting(c)' <=> k \in Seen(g)')
    <3> SUFFICES ASSUME NEW g \in Flushers \ {f}, NEW c \in Buffers,
                        redisFlusher[g].step = "delete", redisFlusher[g].id = c
                 PROVE  k \in Waiting(c)' <=> k \in Seen(g)'
      OBVIOUS
    <3>1. k \in Waiting(c) <=> k \in Seen(g)
      BY <2>1 DEF InOnePlace
    <3>2. CASE c = b
      BY <1>5, <2>3, <2>4, <3>1, <3>2
    <3>3. CASE c # b
      BY <1>5, <3>1, <3>3
    <3> QED
      BY <3>2, <3>3
  <2>6. InOnePlace(k)'
    <3>1. \A c, d \in Buffers : k \in Waiting(c)' /\ k \in Waiting(d)' => c = d
      BY <1>5, <2>1 DEF InOnePlace
    <3>2. \A g \in Flushers, c \in Buffers :
              redisFlusher'[g].step = "delete" /\ redisFlusher'[g].id = c
                => (k \in Waiting(c)' <=> k \in Seen(g)')
      BY <1>3, <1>5, <2>2, <2>5
    <3>3. \A g, h \in Flushers : k \in Seen(g)' /\ k \in Seen(h)' => g = h
      BY <1>5, <2>1 DEF InOnePlace
    <3>4. \A g, h \in Flushers : k \in redisFlusher'[g].result
            /\ k \in redisFlusher'[h].result => g = h
      BY <1>3, <1>5, <2>1, <2>4 DEF InOnePlace
    <3>5. ASSUME NEW g \in Flushers, NEW c \in Buffers, k \in redisFlusher'[g].result,
                       k \in Waiting(c)'
          PROVE  FALSE
      <4>1. c # b /\ k \in Waiting(c)
        BY <1>5, <3>5
      <4>2. k \notin Waiting(b) /\ k \notin Seen(f)
        BY <2>1, <2>3, <4>1 DEF InOnePlace
      <4>3. k \in redisFlusher[g].result
        BY <1>3, <1>5, <3>5, <4>2
      <4> QED
        BY <2>1, <4>1, <4>3 DEF InOnePlace
    <3>6. \A g \in Flushers : redisFlusher'[g].step = "delete"
            => redisFlusher'[g].id \in Buffers
      BY <1>7 DEF OnlyAdded
    <3> QED
      BY <3>1, <3>2, <3>3, <3>4, <3>5, <3>6 DEF InOnePlace
  <2>7. Accounted(k)'
    BY <1>1, <1>3, <1>4, <1>5, <2>1, <2>3 DEF Accounted
  <2> QED
    BY <2>6, <2>7
<1> QED
  BY <1>6, <1>7, <1>8 DEF BufferInv

\* A flush returns what it has read.
LEMMA ReturnKeeps ==
    ASSUME BufferInv, NEW f \in Flushers, Redis!Return(f)
    PROVE  BufferInv'
<1>1. Redis!Idle \in RedisLocalState /\ Redis!Idle.step = "idle" /\ Redis!Idle.read = <<>>
        /\ Redis!Idle.result = {}
  BY DEF Redis!Idle, RedisLocalState
<1>2. /\ redisFlusher' = [redisFlusher EXCEPT ![f] = Redis!Idle]
           /\ UNCHANGED <<redisList, redisAdded, redisExcused>>
      /\ redisFlushed' = [j \in BufferedJobs |->
             IF j \in redisFlusher[f].result THEN redisFlushed[j] + 1 ELSE redisFlushed[j]]
      /\ redisFlusher[f].step = "read"
  BY DEF Redis!Return
<1>3. /\ redisFlusher'[f] = Redis!Idle
      /\ \A g \in Flushers : g # f => redisFlusher'[g] = redisFlusher[g] /\ Seen(g)' = Seen(g)
      /\ Seen(f)' = {}
      /\ \A b \in Buffers : Waiting(b)' = Waiting(b)
  BY <1>1, <1>2, NothingInEmpty DEF BufferInv, BufferTypes, Seen, Waiting
<1>4. BufferTypes'
  BY <1>1, <1>2 DEF BufferInv, BufferTypes
<1>5. OnlyAdded'
  BY <1>1, <1>2, <1>3 DEF BufferInv, OnlyAdded, BufferTypes
<1>6. ASSUME NEW k \in redisAdded' \ redisExcused' PROVE InOnePlace(k)' /\ Accounted(k)'
  <2>1. InOnePlace(k) /\ Accounted(k) /\ k \in BufferedJobs
    BY <1>2, <1>6 DEF BufferInv, BufferTypes
  <2>2. \A g \in Flushers : redisFlusher[g].step = "delete" => redisFlusher[g].id \in Buffers
    BY DEF BufferInv, OnlyAdded
  <2>3. Seen(f) = {}
    BY <1>2, NothingInEmpty DEF BufferInv, OnlyAdded, Seen
  <2>4. InOnePlace(k)'
    BY <1>1, <1>3, <2>1, <2>2 DEF InOnePlace
  <2>5. CASE k \in redisFlusher[f].result
    <3>1. /\ \A b \in Buffers : k \notin Waiting(b)
          /\ \A g \in Flushers : g # f => k \notin redisFlusher[g].result
          /\ redisFlushed[k] = 0
      BY <2>1, <2>5 DEF InOnePlace, Accounted
    <3> QED
      BY <1>1, <1>2, <1>3, <2>1, <2>4, <2>5, <3>1 DEF Accounted
  <2>6. CASE k \notin redisFlusher[f].result
    <3>1. redisFlushed'[k] = redisFlushed[k]
      BY <1>2, <2>1, <2>6
    <3>2. \A g \in Flushers : k \in redisFlusher'[g].result <=> k \in redisFlusher[g].result
      BY <1>1, <1>3, <2>6
    <3> QED
      BY <1>3, <2>1, <2>4, <3>1, <3>2 DEF Accounted
  <2> QED
    BY <2>5, <2>6
<1> QED
  BY <1>4, <1>5, <1>6 DEF BufferInv

LEMMA BufferStep == BufferInv /\ [Redis!Next]_(Redis!vars) => BufferInv'
<1> SUFFICES ASSUME BufferInv, [Redis!Next]_(Redis!vars) PROVE BufferInv'
  OBVIOUS
<1>1. CASE UNCHANGED Redis!vars
  BY <1>1
     DEF Redis!vars, BufferInv, BufferTypes, OnlyAdded, InOnePlace, Accounted, Waiting, Seen
<1> QED
  BY <1>1, RedisAddKeeps, FlushKeeps, ReadKeeps, DeleteKeeps, ReturnKeeps, RedisFailKeeps
     DEF Redis!Next

\* Seen from the buffer a step of another plugin is none.
LEMMA RedisAlone == Spec => Redis!Spec
<1>1. Init => Redis!Init
  BY DEF Init
<1>2. [Next]_vars => [Redis!Next]_(Redis!vars)
  BY DEF Next, vars, Redis!vars, redisVars, StripeStep, BraintreeStep,
         PubSubStep, RedisStep, EmailStep, AssetsStep, StellateStep, SearchStep, DashboardStep,
         butStripe, butBraintree, butPubSub, butRedis, butEmail, butAssets, butStellate,
         butSearch, butDashboard
<1> QED
  BY <1>1, <1>2, PTL DEF Spec, Redis!Spec

\* A job that was buffered leaves its buffer once, however many flushes work
\* on however many buffers: unless it was added between the two calls of one,
\* two read it, or the one that had it failed.
THEOREM JobsLeaveOnce == Spec => []BufferedJobsLeaveOnce
<1>1. BufferInv => BufferedJobsLeaveOnce
  BY DEF BufferedJobsLeaveOnce, Redis!BufferedJobsLeaveOnce, Redis!InHand, BufferInv,
         Accounted, Waiting
<1> QED
  BY <1>1, RedisAlone, BufferInit, BufferStep, PTL DEF Redis!Spec

-----------------------------------------------------------------------------
(* Email.                                                                    *)

\* The local state of a job, what was sent and announced of a mail, the details
\* that are loaded for it.
JobState == [step : Email!JobSteps, attempts : Nat, cut : Nat]
SentState == [times : Nat, through : SUBSET Channels]
AnnouncedState == [success : Nat, failure : Nat]
DetailState == [step : Email!DetailSteps, used : SUBSET (EmailHandlers \cup {None})]
ExcusedState == [lost : SUBSET Email!Mails, repeated : SUBSET Email!Mails]

EmailTypes ==
    /\ emailBoot \in {"starting", "subscribed", "ready"}
    /\ emailChannel \in [Events -> Channels \cup {None}]
    /\ emailData \in [Events -> EmailHandlers \cup {None}]
    /\ emailDetails \in [Email!Mails -> DetailState]
    /\ emailJob \in [Email!Mails -> JobState]
    /\ emailTransport \in Channels \cup {None}
    /\ emailSent \in [Email!Mails -> SentState]
    /\ emailAnnounced \in [Email!Mails -> AnnouncedState]
    /\ emailFaults \in Nat
    /\ emailExcused \in ExcusedState

\* How often the attempts of a job j may have sent the mail (s) and announced
\* its outcome (a); r tells whether the mail is excused. Every attempt but the
\* one under way, or the one that completed the job, announced a failure or
\* was cut off.
JobOK(j, s, a, r) ==
    /\ j.step = "none" => j.attempts = 0 /\ j.cut = 0 /\ s.times = 0 /\ a.success = 0 /\ a.failure = 0
    /\ j.step = "pending" => j.attempts <= Retries
    /\ j.attempts <= Retries + 1
    /\ s.times <= j.attempts
    /\ j.step = "send" => s.times + 1 <= j.attempts
    /\ j.step \in {"pending", "failed"} => a.failure + j.cut = j.attempts
    /\ j.step \in {"send", "announce", "announceFailure", "completed"}
         => a.failure + j.cut + 1 = j.attempts
    /\ j.step = "completed" => a.success > 0
    /\ a.success <= s.times
    /\ j.step = "announce" => a.success + 1 <= s.times
    /\ ~r => s.times <= 1
    /\ ~r /\ j.step \in {"pending", "send", "announceFailure", "failed"} => s.times = 0

\* What is known of one mail.
MailOK(m) ==
    /\ emailDetails[m].step # "none" => emailChannel[m[1]] # None
    /\ emailJob[m].step # "none" => emailDetails[m].step = "done"
    /\ JobOK(emailJob[m], emailSent[m], emailAnnounced[m], m \in emailExcused.repeated)

EmailInv == EmailTypes /\ \A m \in Email!Mails : MailOK(m)

LEMMA EmailInit == Email!Init => EmailInv
<1> SUFFICES ASSUME Email!Init PROVE EmailInv
  OBVIOUS
<1>1. EmailTypes
  BY DEF Email!Init, EmailTypes, JobState, Email!JobSteps, SentState, AnnouncedState,
         DetailState, Email!DetailSteps, ExcusedState
<1>2. ASSUME NEW m \in Email!Mails PROVE MailOK(m)
  BY EmailAssumption DEF Email!Init, MailOK, JobOK
<1> QED
  BY <1>1, <1>2 DEF EmailInv

\* The state of one mail.
LEMMA OneMail ==
    ASSUME EmailInv, NEW m \in Email!Mails
    PROVE  /\ emailJob[m] \in JobState /\ emailSent[m] \in SentState
                /\ emailAnnounced[m] \in AnnouncedState
           /\ emailDetails[m] \in DetailState /\ MailOK(m) /\ m[1] \in Events
BY DEF EmailInv, EmailTypes, Email!Mails

\* What Goto does to the handlers' state, and At to the jobs.
LEMMA EmailGoto ==
    ASSUME EmailTypes, NEW m \in Email!Mails, NEW step \in Email!DetailSteps,
             Email!Goto(m, step)
    PROVE  /\ emailDetails' \in [Email!Mails -> DetailState] /\ emailDetails'[m].step = step
           /\ \A n \in Email!Mails \ {m} : emailDetails'[n] = emailDetails[n]
<1> DEFINE mine == emailDetails[m]
           next == [mine EXCEPT !.step = step]
<1>1. emailDetails \in [Email!Mails -> DetailState] /\ mine \in DetailState
  BY DEF EmailTypes
<1>2. emailDetails' = [emailDetails EXCEPT ![m] = next]
  BY DEF Email!Goto
<1> HIDE DEF mine
<1>3. next \in DetailState /\ next.step = step
  BY <1>1 DEF DetailState
<1> HIDE DEF next
<1> QED
  BY <1>1, <1>2, <1>3

\* The job is at a step that works on the mail.
LEMMA EmailAt ==
    ASSUME EmailTypes, NEW m \in Email!Mails, NEW step \in Email!JobSteps, Email!At(m, step)
    PROVE  /\ emailJob' \in [Email!Mails -> JobState]
           /\ emailJob'[m].step = step /\ emailJob'[m].attempts = emailJob[m].attempts
           /\ emailJob'[m].cut = emailJob[m].cut
           /\ \A n \in Email!Mails \ {m} : emailJob'[n] = emailJob[n]
<1> DEFINE mine == emailJob[m]
           next == [mine EXCEPT !.step = step]
<1>1. emailJob \in [Email!Mails -> JobState] /\ mine \in JobState
  BY DEF EmailTypes
<1>2. emailJob' = [emailJob EXCEPT ![m] = next]
  BY DEF Email!At
<1> HIDE DEF mine
<1>3. next \in JobState /\ next.step = step /\ next.attempts = mine.attempts /\ next.cut = mine.cut
  BY <1>1 DEF JobState
<1> HIDE DEF next
<1> QED
  BY <1>1, <1>2, <1>3 DEF mine

\* A step that works on one mail.
LEMMA OneMailMoves ==
    ASSUME EmailInv, NEW m \in Email!Mails, EmailTypes', MailOK(m)',
           emailChannel' = emailChannel,
           \A n \in Email!Mails \ {m} :
              /\ emailDetails'[n] = emailDetails[n] /\ emailJob'[n] = emailJob[n]
                   /\ emailSent'[n] = emailSent[n]
              /\ emailAnnounced'[n] = emailAnnounced[n]
              /\ n \in emailExcused'.repeated <=> n \in emailExcused.repeated
    PROVE  EmailInv'
<1>1. ASSUME NEW n \in Email!Mails \ {m} PROVE MailOK(n)'
  BY DEF EmailInv, MailOK, JobOK
<1> QED
  BY <1>1 DEF EmailInv

\* The handlers' side.
LEMMA HandlingKeeps ==
    ASSUME EmailInv, NEW m \in Email!Mails, Email!HandlerStep(m) \/ Email!HandleFails(m)
    PROVE  EmailInv'
<1>0. EmailTypes /\ emailDetails[m].step \notin {"none", "done"}
  BY DEF EmailInv, Email!HandlerStep, Email!HandleFails, Email!LoadData, Email!Subject,
         Email!ReadEvent, Email!Queue
<1>1. UNCHANGED <<emailBoot, emailChannel, emailTransport, emailSent, emailAnnounced>>
  BY DEF Email!HandlerStep, Email!HandleFails, Email!LoadData, Email!Subject,
         Email!ReadEvent, Email!Queue
<1>2. emailData' \in [Events -> EmailHandlers \cup {None}] /\ emailFaults' \in Nat
  BY <1>0
     DEF EmailTypes, Email!Mails, Email!HandlerStep, Email!HandleFails, Email!LoadData,
         Email!Subject, Email!ReadEvent, Email!Queue, Email!Fault
<1>3. emailExcused' \in ExcusedState /\ emailExcused'.repeated = emailExcused.repeated
  BY <1>0
     DEF EmailTypes, ExcusedState, Email!HandlerStep, Email!HandleFails, Email!LoadData,
         Email!Subject, Email!ReadEvent, Email!Queue, Email!Lost
<1>4. /\ emailDetails' \in [Email!Mails -> DetailState] /\ emailDetails'[m].step # "none"
      /\ \A n \in Email!Mails \ {m} : emailDetails'[n] = emailDetails[n]
  <2>1. CASE Email!ReadEvent(m)
    <3> DEFINE mine == emailDetails[m]
               used == mine.used \cup {emailData[m[1]]}
               step == IF mine.step = "vars" THEN "attachments" ELSE "queue"
    <3>1. mine \in DetailState
      BY <1>0 DEF EmailTypes
    <3>2. emailDetails' = [emailDetails EXCEPT ![m] = [mine EXCEPT !.used = used,
            !.step = step]]
      BY <2>1, <3>1 DEF Email!ReadEvent, DetailState
    <3>3. used \in SUBSET (EmailHandlers \cup {None}) /\ step \in Email!DetailSteps \ {"none"}
      BY <3>1, <1>0, OneMail DEF EmailTypes, DetailState, Email!DetailSteps
    <3> HIDE DEF mine, used, step
    <3>4. /\ [mine EXCEPT !.used = used, !.step = step] \in DetailState
          /\ [mine EXCEPT !.used = used, !.step = step].step = step
      BY <3>1, <3>3 DEF DetailState
    <3> QED
      BY <1>0, <3>2, <3>3, <3>4 DEF EmailTypes
  <2>2. ASSUME NEW step \in {"subject", "vars", "done"}, Email!Goto(m, step)
        PROVE  /\ emailDetails' \in [Email!Mails -> DetailState]
                    /\ emailDetails'[m].step # "none"
               /\ \A n \in Email!Mails \ {m} : emailDetails'[n] = emailDetails[n]
    <3>1. step \in Email!DetailSteps
      BY DEF Email!DetailSteps
    <3> QED
      BY <1>0, <2>2, <3>1, EmailGoto
  <2>3. CASE Email!LoadData(m) \/ Email!Subject(m) \/ Email!Queue(m) \/ Email!HandleFails(m)
    BY <2>2, <2>3 DEF Email!LoadData, Email!Subject, Email!Queue, Email!HandleFails
  <2> QED
    BY <2>1, <2>3 DEF Email!HandlerStep
<1>5. emailJob[m].step = "none"
        /\ JobOK(emailJob[m], emailSent[m], emailAnnounced[m], m \in emailExcused.repeated)
      /\ emailChannel[m[1]] # None
  BY <1>0, OneMail DEF MailOK
<1>6. CASE emailJob' = emailJob
  <2>1. EmailTypes'
    BY <1>0, <1>1, <1>2, <1>3, <1>4, <1>6 DEF EmailTypes
  <2>2. MailOK(m)'
    BY <1>1, <1>3, <1>4, <1>5, <1>6 DEF MailOK
  <2> QED
    BY <1>1, <1>3, <1>4, <1>6, <2>1, <2>2, OneMailMoves
<1>7. CASE Email!At(m, "pending") /\ Email!Queue(m)
  <2>1. /\ emailJob' \in [Email!Mails -> JobState]
        /\ emailJob'[m].step = "pending" /\ emailJob'[m].attempts = emailJob[m].attempts
        /\ emailJob'[m].cut = emailJob[m].cut
        /\ \A n \in Email!Mails \ {m} : emailJob'[n] = emailJob[n]
    <3>1. "pending" \in Email!JobSteps
      BY DEF Email!JobSteps
    <3> QED
      BY <1>0, <1>7, <3>1, EmailAt
  <2>2. emailDetails'[m].step = "done"
    <3>1. "done" \in Email!DetailSteps
      BY DEF Email!DetailSteps
    <3> QED
      BY <1>0, <1>7, <3>1, EmailGoto DEF Email!Queue
  <2>3. EmailTypes'
    BY <1>0, <1>1, <1>2, <1>3, <1>4, <2>1 DEF EmailTypes
  <2>4. MailOK(m)'
    <3>1. emailSent[m] \in SentState /\ emailAnnounced[m] \in AnnouncedState
      BY OneMail
    <3>2. JobOK(emailJob'[m], emailSent[m], emailAnnounced[m], m \in emailExcused.repeated)
      BY <1>5, <2>1, <3>1, EmailAssumption DEF JobOK, SentState, AnnouncedState
    <3> QED
      BY <1>1, <1>3, <1>5, <2>2, <3>2 DEF MailOK
  <2> QED
    BY <1>1, <1>3, <1>4, <2>1, <2>3, <2>4, OneMailMoves
<1>8. emailJob' = emailJob \/ (Email!At(m, "pending") /\ Email!Queue(m))
  <2>1. CASE Email!Queue(m)
    BY <2>1 DEF Email!Queue, Email!At
  <2>2. CASE Email!LoadData(m) \/ Email!Subject(m) \/ Email!ReadEvent(m) \/ Email!HandleFails(m)
    BY <2>2 DEF Email!HandleFails, Email!LoadData, Email!Subject, Email!ReadEvent
  <2> QED
    BY <2>1, <2>2 DEF Email!HandlerStep
<1> QED
  BY <1>6, <1>7, <1>8

\* What the steps of the processor do to the mail they deliver or announce.
LEMMA DeliverFacts ==
    ASSUME EmailTypes, NEW m \in Email!Mails, emailChannel[m[1]] # None, Email!Deliver(m)
    PROVE  /\ emailTransport' \in Channels \cup {None}
           /\ emailSent' \in [Email!Mails -> SentState]
                /\ emailSent'[m].times = emailSent[m].times + 1
           /\ \A n \in Email!Mails \ {m} : emailSent'[n] = emailSent[n]
<1> DEFINE mine == emailSent[m]
           through == Email!TransportFor(emailChannel[m[1]])
           times == mine.times + 1
           all == mine.through \cup {through}
           next == [mine EXCEPT !.times = times, !.through = all]
<1>1. emailSent \in [Email!Mails -> SentState] /\ mine \in SentState
  BY DEF EmailTypes
<1>2. through \in Channels
  BY DEF EmailTypes, Email!TransportFor, Email!Mails
<1>3. emailSent' = [emailSent EXCEPT ![m] = next] /\ emailTransport' = through
  <2>1. emailSent' = [emailSent EXCEPT ![m].times = @ + 1, ![m].through = @ \cup {through}]
          /\ emailTransport' = through
    BY DEF Email!Deliver
  <2> QED
    BY <1>1, <2>1
<1>4. times \in Nat /\ all \in SUBSET Channels
  BY <1>1, <1>2 DEF SentState
<1> HIDE DEF mine, through, times, all
<1>5. next \in SentState /\ next.times = times
  BY <1>1, <1>4 DEF SentState
<1> HIDE DEF next
<1> QED
  BY <1>1, <1>2, <1>3, <1>4, <1>5 DEF mine, times

\* The event that a mail was sent.
LEMMA AnnouncedSuccess ==
    ASSUME EmailTypes, NEW m \in Email!Mails,
             emailAnnounced' = [emailAnnounced EXCEPT ![m].success = @ + 1]
    PROVE  /\ emailAnnounced' \in [Email!Mails -> AnnouncedState]
           /\ emailAnnounced'[m].success = emailAnnounced[m].success + 1
           /\ emailAnnounced'[m].failure = emailAnnounced[m].failure
           /\ \A n \in Email!Mails \ {m} : emailAnnounced'[n] = emailAnnounced[n]
<1> DEFINE mine == emailAnnounced[m]
           more == mine.success + 1
           next == [mine EXCEPT !.success = more]
<1>1. emailAnnounced \in [Email!Mails -> AnnouncedState] /\ mine \in AnnouncedState
  BY DEF EmailTypes
<1>2. emailAnnounced' = [emailAnnounced EXCEPT ![m] = next] /\ more \in Nat
  BY <1>1 DEF AnnouncedState, Email!FailureOf
<1> HIDE DEF mine, more
<1>3. next \in AnnouncedState /\ next.success = more /\ next.failure = mine.failure
  BY <1>1, <1>2 DEF AnnouncedState
<1> HIDE DEF next
<1> QED
  BY <1>1, <1>2, <1>3 DEF mine, more

\* The event that it was not.
LEMMA AnnouncedFailure ==
    ASSUME EmailTypes, NEW m \in Email!Mails,
             emailAnnounced' =
             [emailAnnounced EXCEPT ![m] = Email!FailureOf(emailAnnounced[m])]
    PROVE  /\ emailAnnounced' \in [Email!Mails -> AnnouncedState]
           /\ emailAnnounced'[m].failure = emailAnnounced[m].failure + 1
           /\ emailAnnounced'[m].success = emailAnnounced[m].success
           /\ \A n \in Email!Mails \ {m} : emailAnnounced'[n] = emailAnnounced[n]
<1> DEFINE mine == emailAnnounced[m]
           more == mine.failure + 1
           next == [mine EXCEPT !.failure = more]
<1>1. emailAnnounced \in [Email!Mails -> AnnouncedState] /\ mine \in AnnouncedState
  BY DEF EmailTypes
<1>2. emailAnnounced' = [emailAnnounced EXCEPT ![m] = next] /\ more \in Nat
  BY <1>1 DEF AnnouncedState, Email!FailureOf
<1> HIDE DEF mine, more
<1>3. next \in AnnouncedState /\ next.failure = more /\ next.success = mine.success
  BY <1>1, <1>2 DEF AnnouncedState
<1> HIDE DEF next
<1> QED
  BY <1>1, <1>2, <1>3 DEF mine, more

\* The processor's side.
LEMMA ProcessingKeeps ==
    ASSUME EmailInv, NEW m \in Email!Mails,
           Email!ProcessStep(m) \/ Email!AnnounceFails(m)
             \/ \E left \in BOOLEAN : Email!SendFails(m, left)
    PROVE  EmailInv'
<1> DEFINE r == m \in emailExcused.repeated
<1>0. /\ EmailTypes /\ emailJob[m] \in JobState /\ emailSent[m] \in SentState
           /\ emailAnnounced[m] \in AnnouncedState
      /\ JobOK(emailJob[m], emailSent[m], emailAnnounced[m], r)
      /\ emailDetails[m].step # "none" /\ emailChannel[m[1]] # None
           /\ emailDetails[m].step = "done"
  <2>1. emailJob[m].step # "none"
    BY DEF Email!ProcessStep, Email!AnnounceFails, Email!SendFails, Email!Generate,
           Email!Send, Email!Announce, Email!AnnounceFailure
  <2> QED
    BY <2>1, OneMail DEF MailOK, EmailInv
<1>1. UNCHANGED <<emailBoot, emailChannel, emailData, emailDetails>> /\ emailFaults' \in Nat
  BY <1>0
     DEF EmailTypes, Email!ProcessStep, Email!AnnounceFails, Email!SendFails,
         Email!Generate, Email!Send, Email!Announce, Email!AnnounceFailure, Email!Fault
<1>2. emailExcused' = emailExcused \/ Email!Repeated(m)
  BY DEF Email!ProcessStep, Email!AnnounceFails, Email!SendFails, Email!Generate,
         Email!Send, Email!Announce, Email!AnnounceFailure
<1>3. /\ emailExcused' \in ExcusedState
      /\ \A n \in Email!Mails \ {m} : n \in emailExcused'.repeated
           <=> n \in emailExcused.repeated
  BY <1>0, <1>2 DEF EmailTypes, ExcusedState, Email!Repeated
<1>4. Email!Repeated(m) => m \in emailExcused'.repeated
  BY <1>0 DEF EmailTypes, ExcusedState, Email!Repeated
<1>q. ASSUME emailTransport' \in Channels \cup {None},
             emailJob' \in [Email!Mails -> JobState], emailSent' \in [Email!Mails -> SentState],
             emailAnnounced' \in [Email!Mails -> AnnouncedState],
             \A n \in Email!Mails \ {m} : emailJob'[n] = emailJob[n]
               /\ emailSent'[n] = emailSent[n] /\ emailAnnounced'[n] = emailAnnounced[n],
             JobOK(emailJob'[m], emailSent'[m], emailAnnounced'[m],
               m \in emailExcused'.repeated)
      PROVE  EmailInv'
  <2>1. EmailTypes'
    BY <1>0, <1>1, <1>3, <1>q DEF EmailTypes
  <2>2. MailOK(m)'
    BY <1>0, <1>1, <1>q DEF MailOK
  <2> QED
    BY <1>1, <1>3, <1>q, <2>1, <2>2, OneMailMoves
<1>j. /\ emailTransport \in Channels \cup {None} /\ emailJob \in [Email!Mails -> JobState]
      /\ emailSent \in [Email!Mails -> SentState]
           /\ emailAnnounced \in [Email!Mails -> AnnouncedState]
  BY <1>0 DEF EmailTypes
<1>s. {"send", "announce", "announceFailure", "completed", "failed",
        "pending"} \subseteq Email!JobSteps
  BY DEF Email!JobSteps
<1> USE EmailAssumption DEF SentState, AnnouncedState, JobState
<1>5. CASE Email!Generate(m)
  <2> DEFINE mine == emailJob[m]
             attempts == mine.attempts + 1
             next == [mine EXCEPT !.step = "send", !.attempts = attempts]
  <2>1. emailJob' = [emailJob EXCEPT ![m] = next]
    BY <1>5, <1>j DEF Email!Generate
  <2>2. mine \in JobState /\ attempts \in Nat /\ mine.step = "pending"
    BY <1>0, <1>5 DEF Email!Generate
  <2> HIDE DEF mine, attempts
  <2>3. next \in JobState /\ next.step = "send" /\ next.attempts = attempts /\ next.cut = mine.cut
    BY <2>2, <1>s
  <2> HIDE DEF next
  <2>4. emailJob' \in [Email!Mails -> JobState] /\ emailJob'[m] = next
          /\ \A n \in Email!Mails \ {m} : emailJob'[n] = emailJob[n]
    BY <1>j, <2>1, <2>3
  <2>5. UNCHANGED <<emailTransport, emailSent, emailAnnounced, emailExcused>>
    BY <1>5 DEF Email!Generate
  <2>6. JobOK(next, emailSent[m], emailAnnounced[m], r)
    BY <1>0, <2>2, <2>3 DEF JobOK, mine, attempts
  <2> QED
    BY <1>j, <1>q, <2>4, <2>5, <2>6
<1>6. CASE Email!Send(m) \/ Email!SendFails(m, TRUE)
  <2>1. /\ emailTransport' \in Channels \cup {None}
        /\ emailSent' \in [Email!Mails -> SentState]
             /\ emailSent'[m].times = emailSent[m].times + 1
        /\ \A n \in Email!Mails \ {m} : emailSent'[n] = emailSent[n]
    BY <1>0, <1>6, DeliverFacts DEF Email!Send, Email!SendFails
  <2>2. emailAnnounced' = emailAnnounced /\ emailJob[m].step = "send"
    BY <1>6 DEF Email!Send, Email!SendFails
  <2>3. PICK step \in {"announce", "announceFailure"} :
            /\ Email!At(m, step)
            /\ \/ step = "announce" /\ emailExcused' = emailExcused
               \/ step = "announceFailure" /\ Email!Repeated(m)
    BY <1>6 DEF Email!Send, Email!SendFails
  <2>4. /\ emailJob' \in [Email!Mails -> JobState]
        /\ emailJob'[m].step = step /\ emailJob'[m].attempts = emailJob[m].attempts
        /\ emailJob'[m].cut = emailJob[m].cut
        /\ \A n \in Email!Mails \ {m} : emailJob'[n] = emailJob[n]
    BY <1>0, <1>s, <2>3, EmailAt
  <2>5. JobOK(emailJob'[m], emailSent'[m], emailAnnounced[m], m \in emailExcused'.repeated)
    BY <1>0, <1>4, <2>1, <2>2, <2>3, <2>4 DEF JobOK
  <2> QED
    BY <1>j, <1>q, <2>1, <2>2, <2>4, <2>5
<1>7. CASE Email!SendFails(m, FALSE)
  <2>1. UNCHANGED <<emailTransport, emailSent, emailAnnounced, emailExcused>>
          /\ emailJob[m].step = "send" /\ Email!At(m, "announceFailure")
    BY <1>7 DEF Email!SendFails
  <2>2. /\ emailJob' \in [Email!Mails -> JobState]
        /\ emailJob'[m].step = "announceFailure" /\ emailJob'[m].attempts = emailJob[m].attempts
        /\ emailJob'[m].cut = emailJob[m].cut
        /\ \A n \in Email!Mails \ {m} : emailJob'[n] = emailJob[n]
    BY <1>0, <1>s, <2>1, EmailAt
  <2>3. JobOK(emailJob'[m], emailSent[m], emailAnnounced[m], r)
    BY <1>0, <2>1, <2>2 DEF JobOK
  <2> QED
    BY <1>j, <1>q, <2>1, <2>2, <2>3
<1>8. CASE Email!Announce(m) \/ Email!AnnounceFails(m)
  <2>1. /\ emailAnnounced' = [emailAnnounced EXCEPT ![m].success = @ + 1]
        /\ UNCHANGED <<emailTransport, emailSent>> /\ emailJob[m].step = "announce"
    BY <1>8 DEF Email!Announce, Email!AnnounceFails
  <2>2. /\ emailAnnounced' \in [Email!Mails -> AnnouncedState]
        /\ emailAnnounced'[m].success = emailAnnounced[m].success + 1
        /\ emailAnnounced'[m].failure = emailAnnounced[m].failure
        /\ \A n \in Email!Mails \ {m} : emailAnnounced'[n] = emailAnnounced[n]
    BY <1>0, <2>1, AnnouncedSuccess
  <2>3. PICK step \in {"completed", "announceFailure"} :
            /\ Email!At(m, step)
            /\ \/ step = "completed" /\ emailExcused' = emailExcused
               \/ step = "announceFailure" /\ Email!Repeated(m)
    BY <1>8 DEF Email!Announce, Email!AnnounceFails, Email!AfterAnnounce
  <2>4. /\ emailJob' \in [Email!Mails -> JobState]
        /\ emailJob'[m].step = step /\ emailJob'[m].attempts = emailJob[m].attempts
        /\ emailJob'[m].cut = emailJob[m].cut
        /\ \A n \in Email!Mails \ {m} : emailJob'[n] = emailJob[n]
    BY <1>0, <1>s, <2>3, EmailAt
  <2>5. JobOK(emailJob'[m], emailSent[m], emailAnnounced'[m], m \in emailExcused'.repeated)
    BY <1>0, <1>4, <2>1, <2>2, <2>3, <2>4 DEF JobOK
  <2> QED
    BY <1>j, <1>q, <2>1, <2>2, <2>4, <2>5
<1>9. CASE Email!AnnounceFailure(m)
  <2>1. /\ emailAnnounced' = [emailAnnounced EXCEPT ![m] = Email!FailureOf(emailAnnounced[m])]
        /\ UNCHANGED <<emailTransport, emailSent, emailExcused>>
             /\ emailJob[m].step = "announceFailure"
        /\ Email!At(m, Email!AfterThrow(m))
    BY <1>9 DEF Email!AnnounceFailure
  <2>2. /\ emailAnnounced' \in [Email!Mails -> AnnouncedState]
        /\ emailAnnounced'[m].success = emailAnnounced[m].success
        /\ emailAnnounced'[m].failure = emailAnnounced[m].failure + 1
        /\ \A n \in Email!Mails \ {m} : emailAnnounced'[n] = emailAnnounced[n]
    BY <1>0, <2>1, AnnouncedFailure
  <2>3. /\ Email!AfterThrow(m) \in {"failed", "pending"}
        /\ Email!AfterThrow(m) = "pending" => emailJob[m].attempts <= Retries
    BY <1>0 DEF Email!AfterThrow
  <2>4. /\ emailJob' \in [Email!Mails -> JobState]
        /\ emailJob'[m].step = Email!AfterThrow(m)
             /\ emailJob'[m].attempts = emailJob[m].attempts
        /\ emailJob'[m].cut = emailJob[m].cut
        /\ \A n \in Email!Mails \ {m} : emailJob'[n] = emailJob[n]
    BY <1>0, <1>s, <2>1, <2>3, EmailAt
  <2>5. JobOK(emailJob'[m], emailSent[m], emailAnnounced'[m], r)
    BY <1>0, <2>1, <2>2, <2>3, <2>4 DEF JobOK
  <2> QED
    BY <1>j, <1>q, <2>1, <2>2, <2>4, <2>5
<1> QED
  BY <1>5, <1>6, <1>7, <1>8, <1>9 DEF Email!ProcessStep

\* The worker stops: its jobs are taken up again.
LEMMA StopWorkerKeeps == ASSUME EmailInv, Email!StopWorker PROVE EmailInv'
<1> DEFINE running == {m \in Email!Mails : emailJob[m].step \in {"send", "announce",
             "announceFailure"}}
<1>1. EmailTypes /\ UNCHANGED <<emailBoot, emailChannel, emailData, emailDetails, emailSent,
        emailAnnounced>> /\ emailTransport' = None
      /\ emailFaults' \in Nat
  <2>1. EmailTypes /\ UNCHANGED <<emailBoot, emailChannel, emailData, emailDetails, emailSent,
          emailAnnounced>> /\ emailTransport' = None /\ Email!Fault
    BY DEF EmailInv, Email!StopWorker
  <2> QED
    BY <2>1 DEF EmailTypes, Email!Fault
<1>2. /\ emailJob' = [m \in Email!Mails |-> IF m \in running
           THEN Email!CutOff(m) ELSE emailJob[m]]
      /\ emailExcused' = [emailExcused EXCEPT !.repeated = @
           \cup {m \in running : emailSent[m].times > 0}]
  BY DEF Email!StopWorker
<1>3. /\ emailExcused' \in ExcusedState
      /\ \A m \in Email!Mails :
            m \in emailExcused'.repeated <=> m \in emailExcused.repeated
              \/ (m \in running /\ emailSent[m].times > 0)
  <2> DEFINE twice == {m \in running : emailSent[m].times > 0}
  <2>1. twice \in SUBSET Email!Mails
          /\ emailExcused' = [emailExcused EXCEPT !.repeated = @ \cup twice]
    BY <1>2
  <2>2. \A m \in Email!Mails : m \in twice <=> m \in running /\ emailSent[m].times > 0
    OBVIOUS
  <2> HIDE DEF twice, running
  <2>3. emailExcused' \in ExcusedState /\ emailExcused'.repeated = emailExcused.repeated
          \cup twice
    BY <1>1, <2>1 DEF EmailTypes, ExcusedState
  <2> QED
    BY <2>2, <2>3
<1>4. ASSUME NEW m \in Email!Mails
      PROVE  emailJob'[m] \in JobState /\ MailOK(m)'
  <2>0. /\ emailJob[m] \in JobState /\ emailSent[m] \in SentState
             /\ emailAnnounced[m] \in AnnouncedState /\ MailOK(m)
    BY OneMail
  <2>1. CASE m \in running
    <3> DEFINE mine == emailJob[m]
               step == Email!AfterThrow(m)
               cut == mine.cut + 1
               next == [mine EXCEPT !.step = step, !.cut = cut]
    <3>0. emailJob'[m] = Email!CutOff(m)
      BY <1>2, <2>1
    <3>1. /\ emailJob'[m] = next /\ mine \in JobState /\ step \in Email!JobSteps
          /\ cut \in Nat /\ cut = mine.cut + 1
      BY <2>0, <3>0 DEF Email!CutOff, Email!AfterThrow, Email!JobSteps, JobState
    <3> HIDE DEF mine, step, cut
    <3>2. next \in JobState /\ next.step = step /\ next.attempts = mine.attempts /\ next.cut = cut
      BY <3>1 DEF JobState
    <3> HIDE DEF next
    <3>3. step \in {"failed", "pending"} /\ (step = "pending" => mine.attempts <= Retries)
            /\ mine.attempts \in Nat
      BY <2>0, EmailAssumption DEF Email!AfterThrow, mine, step, JobState
    <3>4. JobOK(mine, emailSent[m], emailAnnounced[m], m \in emailExcused.repeated)
            /\ mine.step \in {"send", "announce", "announceFailure"}
      BY <2>0, <2>1 DEF MailOK, mine
    <3>5. JobOK(next, emailSent[m], emailAnnounced[m], m \in emailExcused'.repeated)
      BY <1>3, <2>0, <2>1, <3>1, <3>2, <3>3, <3>4 DEF JobOK, SentState, AnnouncedState, JobState, mine
    <3>6. emailDetails[m].step = "done" /\ emailChannel[m[1]] # None
      BY <2>0, <3>4 DEF MailOK, mine
    <3> QED
      BY <1>1, <3>1, <3>2, <3>5, <3>6 DEF MailOK
  <2>2. CASE m \notin running
    BY <1>1, <1>2, <1>3, <2>0, <2>2 DEF MailOK
  <2> QED
    BY <2>1, <2>2
<1>5. emailJob' \in [Email!Mails -> JobState]
  BY <1>2, <1>4
<1> QED
  BY <1>1, <1>3, <1>4, <1>5 DEF EmailInv, EmailTypes

\* The server stops.
LEMMA StopServerKeeps == ASSUME EmailInv, Email!StopServer PROVE EmailInv'
<1> DEFINE handling == {m \in Email!Mails : emailDetails[m].step \notin {"none", "done"}}
<1>1. EmailTypes /\ UNCHANGED <<emailChannel, emailData, emailJob, emailTransport,
        emailSent, emailAnnounced>> /\ emailFaults' \in Nat
      /\ emailBoot' \in {"starting", "subscribed", "ready"}
  BY DEF EmailInv, EmailTypes, Email!StopServer, Email!Fault
<1>2. emailDetails' = [m \in Email!Mails |-> IF m \in handling
        THEN [emailDetails[m] EXCEPT !.step = "done"] ELSE emailDetails[m]]
  BY DEF Email!StopServer
<1>3. emailExcused' \in ExcusedState /\ emailExcused'.repeated = emailExcused.repeated
  <2>1. handling \in SUBSET Email!Mails /\ Email!Lost(handling)
    BY DEF Email!StopServer
  <2> HIDE DEF handling
  <2> QED
    BY <1>1, <2>1 DEF EmailTypes, ExcusedState, Email!Lost
<1>4. ASSUME NEW m \in Email!Mails
      PROVE  emailDetails'[m] \in DetailState /\ MailOK(m)'
  <2>0. emailDetails[m] \in DetailState /\ MailOK(m)
    BY OneMail
  <2>1. CASE m \in handling
    <3> DEFINE mine == emailDetails[m]
               next == [mine EXCEPT !.step = "done"]
    <3>1. emailDetails'[m] = next /\ mine \in DetailState
      BY <1>2, <2>0, <2>1
    <3> HIDE DEF mine
    <3>2. next \in DetailState /\ next.step = "done"
      BY <3>1 DEF DetailState, Email!DetailSteps
    <3> HIDE DEF next
    <3>3. emailChannel[m[1]] # None
      BY <2>0, <2>1 DEF MailOK
    <3> QED
      BY <1>1, <1>3, <2>0, <3>1, <3>2, <3>3 DEF MailOK
  <2>2. CASE m \notin handling
    BY <1>1, <1>2, <1>3, <2>0, <2>2 DEF MailOK
  <2> QED
    BY <2>1, <2>2
<1>5. emailDetails' \in [Email!Mails -> DetailState]
  BY <1>2, <1>4
<1> QED
  BY <1>1, <1>3, <1>4, <1>5 DEF EmailInv, EmailTypes

\* An event occurs.
LEMMA OccurKeeps ==
    ASSUME EmailInv, NEW e \in Events, NEW c \in Channels,
             NEW accepting \in SUBSET EmailHandlers,
           Email!Occur(e, c, accepting)
    PROVE  EmailInv'
<1>1. EmailTypes /\ UNCHANGED <<emailBoot, emailData, emailJob, emailTransport, emailSent,
        emailAnnounced, emailFaults, emailExcused>>
      /\ emailChannel[e] = None
  BY DEF EmailInv, Email!Occur
<1>2. emailChannel' \in [Events -> Channels \cup {None}] /\ emailChannel'[e] # None
      /\ \A d \in Events \ {e} : emailChannel'[d] = emailChannel[d]
  BY <1>1, EmailAssumption DEF Email!Occur, EmailTypes
<1>3. emailDetails' = [m \in Email!Mails |-> IF m[1] = e /\ m[2] \in accepting
                                 THEN [step |-> "load", used |-> {}] ELSE emailDetails[m]]
  BY DEF Email!Occur
<1>4. ASSUME NEW m \in Email!Mails PROVE emailDetails'[m] \in DetailState /\ MailOK(m)'
  <2>0. emailDetails[m] \in DetailState /\ MailOK(m) /\ m[1] \in Events
    BY OneMail
  <2>1. CASE m[1] = e /\ m[2] \in accepting
    <3>1. emailDetails'[m] = [step |-> "load", used |-> {}]
      BY <1>3, <2>1
    <3>2. emailJob[m].step = "none"
      BY <1>1, <2>0, <2>1 DEF MailOK
    <3> QED
      BY <1>1, <1>2, <2>0, <2>1, <3>1, <3>2 DEF MailOK, DetailState, Email!DetailSteps
  <2>2. CASE ~(m[1] = e /\ m[2] \in accepting)
    <3>1. emailDetails'[m] = emailDetails[m]
      BY <1>3, <2>2
    <3> QED
      BY <1>1, <1>2, <2>0, <3>1 DEF MailOK
  <2> QED
    BY <2>1, <2>2
<1>5. emailDetails' \in [Email!Mails -> DetailState]
  BY <1>3, <1>4
<1> QED
  BY <1>1, <1>2, <1>4, <1>5 DEF EmailInv, EmailTypes

\* Every step keeps the invariant.
LEMMA EmailNextKeeps == EmailInv /\ [Email!Next]_(Email!vars) => EmailInv'
<1> SUFFICES ASSUME EmailInv, [Email!Next]_(Email!vars) PROVE EmailInv'
  OBVIOUS
<1>1. CASE UNCHANGED Email!vars
  BY <1>1 DEF Email!vars, EmailInv, EmailTypes, MailOK
<1>2. CASE Email!Subscribe \/ Email!CreateQueue
  <2>1. /\ UNCHANGED <<emailChannel, emailData, emailDetails, emailJob, emailTransport,
             emailSent, emailAnnounced, emailFaults, emailExcused>>
        /\ emailBoot' \in {"starting", "subscribed", "ready"}
    BY <1>2 DEF Email!Subscribe, Email!CreateQueue
  <2> QED
    BY <2>1 DEF EmailInv, EmailTypes, MailOK
<1> QED
  BY <1>1, <1>2, StopWorkerKeeps, StopServerKeeps, OccurKeeps, HandlingKeeps,
     ProcessingKeeps
     DEF Email!Next

LEMMA EmailInvSuffices ==
    ASSUME EmailInv
    PROVE  Email!TypeOK /\ Email!MailLeavesOnce /\ Email!OutcomeIsAnnounced
<1> USE EmailAssumption DEF JobState, SentState, AnnouncedState
<1>1. ASSUME NEW m \in Email!Mails
      PROVE  /\ emailJob[m].attempts \in 0 .. Retries + 1
                  /\ emailSent[m].times \in 0 .. Retries + 1
             /\ emailDetails[m].step # "none" => emailChannel[m[1]] # None
             /\ emailSent[m].times > 1 => m \in emailExcused.repeated
             /\ emailJob[m].step \in {"pending", "failed"} =>
                   emailAnnounced[m].failure + emailJob[m].cut = emailJob[m].attempts
             /\ emailJob[m].step = "completed" =>
                   /\ emailAnnounced[m].failure + emailJob[m].cut + 1 = emailJob[m].attempts
                   /\ emailAnnounced[m].success > 0
             /\ emailAnnounced[m].success <= emailSent[m].times
  BY OneMail DEF MailOK, JobOK
<1>2. emailJob \in [Email!Mails -> [step : Email!JobSteps, attempts : 0 .. Retries + 1, cut : Nat]]
  <2>1. \A m \in Email!Mails : emailJob[m] \in [step : Email!JobSteps,
          attempts : 0 .. Retries + 1, cut : Nat]
    BY <1>1, OneMail
  <2> QED
    BY <2>1 DEF EmailInv, EmailTypes
<1>3. emailSent \in [Email!Mails -> [times : 0 .. Retries + 1, through : SUBSET Channels]]
  <2>1. \A m \in Email!Mails : emailSent[m] \in [times : 0 .. Retries + 1,
          through : SUBSET Channels]
    BY <1>1, OneMail
  <2> QED
    BY <2>1 DEF EmailInv, EmailTypes
<1>4. Email!TypeOK
  BY <1>1, <1>2, <1>3 DEF Email!TypeOK, EmailInv, EmailTypes, DetailState, ExcusedState
<1> QED
  BY <1>1, <1>4 DEF Email!MailLeavesOnce, Email!OutcomeIsAnnounced

\* Seen from the mails a step of another plugin is none.
LEMMA EmailAlone == Spec => Email!Spec
<1>1. Init => Email!Init
  BY DEF Init
<1>2. [Next]_vars => [Email!Next]_(Email!vars)
  BY DEF Next, vars, Email!vars, emailVars, StripeStep, BraintreeStep,
         PubSubStep, RedisStep, EmailStep, AssetsStep, StellateStep, SearchStep, DashboardStep,
         butStripe, butBraintree, butPubSub, butRedis, butEmail, butAssets, butStellate,
         butSearch, butDashboard
<1> QED
  BY <1>1, <1>2, PTL DEF Spec, Email!Spec

\* A mail goes out a second time only after a failure: the worker stopped, or
\* the mail was sent and its job thrown back.
THEOREM MailsLeaveOnce == Spec => []MailLeavesOnce
<1>1. EmailInv => MailLeavesOnce
  BY EmailInvSuffices DEF MailLeavesOnce
<1> QED
  BY <1>1, EmailAlone, EmailInit, EmailNextKeeps, PTL DEF Email!Spec

\* An EmailSendEvent says what became of each attempt to send a mail, except
\* an attempt that a stopping worker cut off: as many failures are announced
\* as attempts failed, and no more successes than mails left.
THEOREM OutcomesAreAnnounced == Spec => []OutcomeIsAnnounced
<1>1. EmailInv => OutcomeIsAnnounced
  BY EmailInvSuffices DEF OutcomeIsAnnounced
<1> QED
  BY <1>1, EmailAlone, EmailInit, EmailNextKeeps, PTL DEF Email!Spec
=============================================================================
