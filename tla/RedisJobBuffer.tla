--------------------------- MODULE RedisJobBuffer ---------------------------
(***************************************************************************)
(* The job buffer in Redis: jobs that wait in a list for each buffer, and  *)
(* the flushes that take them out to be put on the queue.  Every call of   *)
(* Redis is a step of its own.                                             *)
(***************************************************************************)
EXTENDS Integers, Sequences, FiniteSets, SequencesExt

CONSTANTS
    Buffers,        \* ids of buffers
    BufferedJobs,   \* jobs that can be buffered
    Flushers,       \* concurrent calls of flush
    MaxFlushes      \* bound: calls of flush

VARIABLES
    list,           \* Redis: the list of every buffer, newest first
    added,          \* jobs buffered so far
    flusher,        \* the local state of every flush
    flushed,        \* how often each job was returned by a flush
    flushes,        \* flushes so far
    excused         \* history: jobs added while a flush was between its two calls,
                    \* or in the hands of one that failed, or read by two

vars == <<list, added, flusher, flushed, flushes, excused>>

\* ids: the buffers still to flush. read: what lrange returned. result: jobs
\* taken so far.
Idle == [step |-> "idle", ids |-> {}, id |-> "none", read |-> <<>>, result |-> {}]

Init ==
    /\ list = [b \in Buffers |-> <<>>]
    /\ added = {}
    /\ flusher = [f \in Flushers |-> Idle]
    /\ flushed = [j \in BufferedJobs |-> 0]
    /\ flushes = 0
    /\ excused = {}

\* A flush has read the buffer and has not deleted it yet.
Reading(b) == {f \in Flushers : flusher[f].step = "delete" /\ flusher[f].id = b}

Add(b, j) ==
    /\ j \notin added
    /\ added' = added \cup {j}
    /\ list' = [list EXCEPT ![b] = <<j>> \o @]
    /\ excused' = IF Reading(b) = {} THEN excused ELSE excused \cup {j}
    /\ UNCHANGED <<flusher, flushed, flushes>>

\* flush(bufferIds). Without ids it looks every buffer up and then flushes
\* none: the loop runs over the argument.
Flush(f, ids) ==
    /\ flusher[f].step = "idle"
    /\ flushes < MaxFlushes
    /\ flushes' = flushes + 1
    /\ flusher' = [flusher EXCEPT ![f] = [Idle EXCEPT !.step = "read", !.ids = ids]]
    /\ UNCHANGED <<list, added, flushed, excused>>

\* A slip of ListRange: the end of the range is exclusive.
RangeWithoutLast(b) == IF list[b] = <<>> THEN <<>> ELSE Front(list[b])

\* lrange(key, 0, -1).
ListRange(b) == list[b]

Read(f, b) ==
    /\ flusher[f].step = "read"
    /\ b \in flusher[f].ids
    /\ flusher' = [flusher EXCEPT ![f].step = "delete", ![f].id = b, ![f].read = ListRange(b),
                                  ![f].ids = @ \ {b}]
    /\ excused' = IF Reading(b) = {} THEN excused ELSE excused \cup ToSet(list[b])
    /\ UNCHANGED <<list, added, flushed, flushes>>

\* del(key): whatever the list has by now.
Delete(f) ==
    /\ flusher[f].step = "delete"
    /\ list' = [list EXCEPT ![flusher[f].id] = <<>>]
    /\ flusher' = [flusher EXCEPT ![f].step = "read", ![f].read = <<>>, ![f].id = "none",
                                  ![f].result = @ \cup ToSet(flusher[f].read)]
    /\ UNCHANGED <<added, flushed, flushes, excused>>

Return(f) ==
    /\ flusher[f].step = "read"
    /\ flusher[f].ids = {}
    /\ flushed' = [j \in BufferedJobs |->
          IF j \in flusher[f].result THEN flushed[j] + 1 ELSE flushed[j]]
    /\ flusher' = [flusher EXCEPT ![f] = Idle]
    /\ UNCHANGED <<list, added, flushes, excused>>

\* Redis does not answer, or the process stops: what the flush has taken from
\* other buffers is in nobody's hands.
Fail(f) ==
    /\ flusher[f].step # "idle"
    /\ excused' = excused \cup flusher[f].result
    /\ flusher' = [flusher EXCEPT ![f] = Idle]
    /\ UNCHANGED <<list, added, flushed, flushes>>

Next ==
    \/ \E b \in Buffers, j \in BufferedJobs : Add(b, j)
    \/ \E f \in Flushers :
          \/ \E ids \in SUBSET Buffers : Flush(f, ids)
          \/ \E b \in Buffers : Read(f, b)
          \/ Delete(f) \/ Return(f) \/ Fail(f)

Spec == Init /\ [][Next]_vars
-----------------------------------------------------------------------------
(* Properties.                                                              *)

InHand(f) == ToSet(flusher[f].read) \cup flusher[f].result

\* A buffered job waits in its list until exactly one flush returns it, unless
\* it was added between the two calls of a flush, two flushes read it, or the
\* flush that had it failed.
BufferedJobsLeaveOnce ==
    \A j \in added \ excused :
        \/ flushed[j] = 1
        \/ /\ flushed[j] = 0
           /\ \/ \E b \in Buffers : j \in ToSet(list[b])
              \/ \E f \in Flushers : j \in InHand(f)
=============================================================================
