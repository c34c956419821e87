----------------------------- MODULE MCWebhooks -----------------------------
(* Instances of Webhooks for TLC.                                          *)
EXTENDS Webhooks, TLC

\* Nothing tells two webhooks, events, processes or requests apart.
Symmetry ==
    Permutations(Ids) \cup Permutations(Events) \cup
    Permutations(Processes) \cup Permutations(Requests)
=============================================================================
