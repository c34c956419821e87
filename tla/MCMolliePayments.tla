-------------------------- MODULE MCMolliePayments --------------------------
(* TLC instances of MolliePayments. *)
EXTENDS MolliePayments, TLC

\* Mollie orders and requests of one kind are interchangeable: no property
\* checked under this symmetry is a temporal one.
Symmetry == Permutations(MollieIds) \cup Permutations(Webhooks) \cup Permutations(Shoppers)
=============================================================================
