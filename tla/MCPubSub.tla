------------------------------ MODULE MCPubSub ------------------------------
(* Two callers, two ids and a stray request; the correlator in full.       *)
EXTENDS PubSubPending, TLC

Symmetry == Permutations(Callers) \cup Permutations(Ids)
=============================================================================
