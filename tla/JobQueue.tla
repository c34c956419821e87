------------------------------ MODULE JobQueue ------------------------------
(***************************************************************************)
(* What a job queue strategy promises to the code that adds jobs: an       *)
(* accepted job is settled as completed only when its process function     *)
(* has returned, nothing but a way of disposal the strategy has ends it    *)
(* otherwise, and it is settled in the end.  A job may be run more than    *)
(* once: the promise is at least once.                                     *)
(***************************************************************************)
CONSTANTS Jobs,
          Disposals     \* ways to end a job that has not completed

VARIABLES status,       \* of every job
          returned      \* jobs whose process function has returned

jobQueueVars == <<status, returned>>

Statuses == {"none", "accepted", "completed"} \cup Disposals

JobQueueInit ==
    /\ status = [j \in Jobs |-> "none"]
    /\ returned = {}

Accept(j) ==
    /\ status[j] = "none"
    /\ status' = [status EXCEPT ![j] = "accepted"]
    /\ UNCHANGED returned

Return(j) ==
    /\ status[j] # "none"
    /\ returned' = returned \cup {j}
    /\ UNCHANGED status

Complete(j) ==
    /\ status[j] = "accepted"
    /\ j \in returned
    /\ status' = [status EXCEPT ![j] = "completed"]
    /\ UNCHANGED returned

\* Jobs are given up, or their records removed. A job that was disposed of
\* never comes back.
Dispose(set, how) ==
    /\ \A j \in set : status[j] # "none"
    /\ status' = [j \in Jobs |-> IF j \in set THEN how ELSE status[j]]
    /\ UNCHANGED returned

JobQueueNext ==
    \/ \E j \in Jobs : Accept(j) \/ Return(j) \/ Complete(j)
    \/ \E set \in SUBSET Jobs, how \in Disposals : Dispose(set, how)

JobQueueSpec == JobQueueInit /\ [][JobQueueNext]_jobQueueVars

\* Every accepted job is settled.
EveryJobIsSettled == \A j \in Jobs : status[j] = "accepted" ~> status[j] # "accepted"
=============================================================================
