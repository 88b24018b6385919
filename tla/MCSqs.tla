------------------------------- MODULE MCSqs --------------------------------
(* The SQS plugin's two halves, one or the other at a time: SQS and the    *)
(* gateway are external to each.                                           *)
EXTENDS SqsClient, SqsServer

VARIABLE side

\* The half that does not run has one initial state.
MCInit ==
    /\ side \in {"client", "server"} /\ Init /\ ServerInit
    /\ side = "client" => proper = {}
    /\ side = "server" => ~oneWay

MCNext ==
    \/ side = "client" /\ Next /\ UNCHANGED <<side, serverVars>>
    \/ side = "server" /\ ServerNext /\ UNCHANGED <<side, vars>>

MCSpec ==
    /\ MCInit /\ [][MCNext]_<<side, vars, serverVars>>
    /\ PromptFairness
    /\ ServerFairness
=============================================================================
