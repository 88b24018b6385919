---------------------------- MODULE MCKafkaServer ---------------------------
(* Threads that start and stop one server over a partition of requests.    *)
EXTENDS KafkaServer
=============================================================================
