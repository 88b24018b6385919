-------------------------- MODULE MCRabbitMqClient --------------------------
(* Callers that share links which break and are replaced.                  *)
EXTENDS RabbitMqClient
=============================================================================
