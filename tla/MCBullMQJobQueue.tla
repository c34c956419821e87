-------------------------- MODULE MCBullMQJobQueue --------------------------
(* BullMQJobQueue for TLC: two jobs of two queues, or one job.               *)
EXTENDS BullMQJobQueue, TLC

CONSTANTS j1, j2, q1, q2

TwoJobs == {j1, j2}
TwoQueues == {q1, q2}
QueueOfTwo == (j1 :> q1) @@ (j2 :> q2)

OneJob == {j1}
OneQueue == {q1}
QueueOfOne == j1 :> q1
=============================================================================
