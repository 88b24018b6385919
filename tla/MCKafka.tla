------------------------------ MODULE MCKafka -------------------------------
(* The Kafka plugin's two halves, one or the other at a time: the brokers, *)
(* librdkafka's threads and the gateway are external to each.              *)
EXTENDS KafkaClient, KafkaServer

VARIABLE side

\* The half that does not run has one initial state.  In the server's topic the
\* last request's reply is plain, and those before may be skipped.
MCInit ==
    /\ side \in {"client", "server"} /\ Init /\ ServerInit
    /\ side = "client" => kind = [r \in Requests |-> "plain"]
    /\ side = "server" => \A r \in Requests : kind[r] = "plain" <=> r = Last

MCNext ==
    \/ side = "client" /\ Next /\ UNCHANGED <<side, serverVars>>
    \/ side = "server" /\ ServerNext /\ UNCHANGED <<side, vars>>

MCSpec ==
    /\ MCInit /\ [][MCNext]_<<side, vars, serverVars>>
    /\ PromptFairness
=============================================================================
