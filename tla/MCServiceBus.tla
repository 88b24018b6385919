---------------------------- MODULE MCServiceBus ----------------------------
(* The Service Bus plugin's two halves, one or the other at a time: the    *)
(* broker and the gateway are external to each.                            *)
EXTENDS MCServiceBusClient, ServiceBusServer

VARIABLE side

\* The half that does not run has one initial state.
MCInit ==
    /\ side \in {"client", "server"} /\ Init /\ ServerInit
    /\ side = "client" => ~topicMode
    /\ side = "server" => ~oneWay

MCNext ==
    \/ side = "client" /\ Next /\ UNCHANGED <<side, serverVars>>
    \/ side = "server" /\ ServerNext /\ UNCHANGED <<side, vars>>

MCSpec == MCInit /\ [][MCNext]_<<side, vars, serverVars>>
=============================================================================
