----------------------------- MODULE MCRabbitMq -----------------------------
(* The RabbitMQ plugin's two halves, one or the other at a time: RabbitMQ  *)
(* and the gateway are external to each.                                   *)
EXTENDS RabbitMqClient, RabbitMqServer

VARIABLE side

MCInit == side \in {"client", "server"} /\ Init /\ ServerInit

MCNext ==
    \/ side = "client" /\ Next /\ UNCHANGED <<side, serverVars>>
    \/ side = "server" /\ ServerNext /\ UNCHANGED <<side, vars>>

MCSpec ==
    /\ MCInit /\ [][MCNext]_<<side, vars, serverVars>>
    /\ PromptFairness
=============================================================================
