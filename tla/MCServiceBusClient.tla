------------------------- MODULE MCServiceBusClient -------------------------
(* Callers that share links over one reply session.                        *)
EXTENDS ServiceBusClient, TLC

Symmetry == Permutations(Callers) \cup Permutations(Links)
                \cup Permutations(Ids) \cup Permutations(Payloads)
=============================================================================
