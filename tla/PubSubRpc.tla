------------------------------ MODULE PubSubRpc ------------------------------
(***************************************************************************)
(* A Pub/Sub client and a Pub/Sub server on one broker: remote calls from  *)
(* end to end, with lost answers, redelivery and crashes of the server.    *)
(***************************************************************************)
EXTENDS PubSubClient, PubSubServer

vars == <<brokerVars, clientVars, serverVars>>

TypeOK == BrokerTypeOK /\ ClientTypeOK /\ ServerTypeOK

Init == BrokerInit /\ ClientInit /\ ServerInit

Next ==
    \/ ClientNext /\ UNCHANGED serverVars
    \/ ServerNext /\ UNCHANGED clientVars

Spec == Init /\ [][Next]_vars

\* Every thread runs and every HTTP request ends, well or badly.
StepFairness ==
    /\ WF_vars(DispatcherNext /\ UNCHANGED serverVars)
    /\ \A c \in Callers : WF_vars(Answered(c) /\ UNCHANGED serverVars)
    /\ WF_vars(DtorJoin /\ UNCHANGED serverVars)
    /\ WF_vars((TestSetUp \/ SetUp \/ TestStop \/ Leave \/ PullNothing \/ HandleNext)
                   /\ UNCHANGED clientVars)

\* What may succeed again and again succeeds some time, whatever the order in
\* which Pub/Sub delivers.  No timer of a call fires by itself.
LuckFairness ==
    /\ \A m \in Ids :
           /\ SF_vars(PullRequest(m) /\ hand' = m /\ UNCHANGED clientVars)
           /\ SF_vars(hand = m /\ Process /\ UNCHANGED clientVars)
           /\ SF_vars(hand = m /\ Reply /\ loop' = "acking" /\ UNCHANGED clientVars)
    /\ SF_vars(PullReplies(held["replySub"]) /\ batch' # {} /\ UNCHANGED serverVars)

FairSpec == Spec /\ StepFairness /\ LuckFairness

-----------------------------------------------------------------------------
(* Properties                                                              *)

\* A call returns only the reply to its own request, and only after the
\* gateway has executed that request (PubSubClient::Call, HandleMessage).
OwnAnswer ==
    \A c \in Callers : answer[c] \in Ids => answer[c] = call[c] /\ call[c] \in executed

\* A request leaves its subscription only when it has been executed and, for
\* RPC, its reply is with Pub/Sub: through failed publishes, failed
\* acknowledgements and crashes (Readme, "Delivery and ack").
AckedAfterReply ==
    [][\A m \in held["requestSub"] \ held'["requestSub"] :
           m \in executed /\ (oneWay \/ m \in answered)]_vars

\* A request that was executed is on its way back as long as its call waits:
\* still unacknowledged, or answered in the reply subscription or the
\* dispatcher's batch, whatever failed or crashed in between.
NothingIsLost ==
    \A c \in Callers :
        promise[c] = "open" /\ call[c] \in executed
            => call[c] \in held["requestSub"] \cup held["replySub"] \cup batch

\* A request that has reached its subscription ends its call, without the
\* call's timer, if the server keeps pulling: neither half loses it.
AnswerArrives ==
    \A c \in Callers :
        []<>(loop = "pulling") =>
            ((at[c] = "published" /\ promise[c] = "open" /\ call[c] \in held["requestSub"])
                ~> (at[c] # "published"))

\* stop() ends the loop wherever it is, and the destructor the dispatcher.
ShutdownEnds ==
    /\ (stopRequested /\ running) ~> ~running
    /\ (life = "closed") ~> (life = "gone")
=============================================================================
