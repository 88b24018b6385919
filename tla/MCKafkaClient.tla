---------------------------- MODULE MCKafkaClient ---------------------------
(* Callers that share one producer, one consumer and one dispatcher.       *)
EXTENDS KafkaClient
=============================================================================
