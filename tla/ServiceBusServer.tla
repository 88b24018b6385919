-------------------------- MODULE ServiceBusServer --------------------------
(***************************************************************************)
(* ServiceBusServer (servicebus/ServiceBusPlugin/ServiceBusServer.cpp):    *)
(* requests are settled as they are received, before they are processed; a *)
(* reply goes out over a sender that is kept for its reply entity, is      *)
(* replaced when it has been idle for long and is tried once more, on a    *)
(* new link, when a send fails.  There is one reply entity here.           *)
(***************************************************************************)
EXTENDS Naturals

CONSTANTS Requests,  \* the requests that are sent
          Silent     \* those without a reply entity

\* Idle time is counted in periods of five minutes.
kReplySenderMaxIdle == 1
BrokerMaxIdle == 2

VARIABLES
    requests,   \* the requests the broker holds
    executed,   \* the requests processMessage has executed
    answered,   \* the requests whose reply the broker has
    topicMode,  \* config.subscription is set: one-way
    consumer,   \* where the thread is in start()
    inHand,     \* the request it handles, or "none"
    stopFlag,   \* g_stopRequested
    up,         \* the AMQP connection works
    sender,     \* the cached sender: none, with a link, with a detached link
    unused,     \* how long ago lastUsed_ says it was used
    attempt,    \* publish's attempt
    tried       \* a link opened for this reply has failed to send it

replyVars == <<sender, unused, attempt, tried>>
historyVars == <<executed, answered>>
serverVars == <<requests, historyVars, topicMode, consumer, inHand, stopFlag, up, replyVars>>

ServerTypeOK ==
    /\ requests \subseteq Requests
    /\ executed \subseteq Requests
    /\ answered \subseteq Requests
    /\ topicMode \in BOOLEAN
    /\ consumer \in {"off", "testing", "connecting", "waiting", "handling", "acquiring",
                     "sending", "closing"}
    /\ inHand \in Requests \cup {"none"}
    /\ stopFlag \in BOOLEAN
    /\ up \in BOOLEAN
    /\ sender \in {"none", "linked", "detached"}
    /\ unused \in 0 .. BrokerMaxIdle
    /\ attempt \in 0 .. 1
    /\ tried \in {"nothing", "kept", "new"}

ServerInit ==
    /\ requests = Requests
    /\ executed = {}
    /\ answered = {}
    /\ topicMode \in BOOLEAN
    /\ consumer = "off"
    /\ inHand = "none"
    /\ stopFlag = FALSE
    /\ up = FALSE
    /\ sender = "none"
    /\ unused = 0
    /\ attempt = 0
    /\ tried = "nothing"

MovesTo(place) == consumer' = place

-----------------------------------------------------------------------------
(* start, stop and the receive loop                                        *)

Start ==
    /\ consumer = "off"
    /\ stopFlag' = FALSE
    /\ MovesTo("testing")
    /\ UNCHANGED <<requests, historyVars, topicMode, inHand, up, replyVars>>

Stop ==
    /\ stopFlag' = TRUE
    /\ UNCHANGED <<requests, historyVars, topicMode, consumer, inHand, up, replyVars>>

TestOuter ==
    /\ consumer = "testing"
    /\ MovesTo(IF stopFlag THEN "off" ELSE "connecting")
    /\ UNCHANGED <<requests, historyVars, topicMode, inHand, stopFlag, up, replyVars>>

ConnectServerThrows ==
    /\ consumer = "connecting"
    /\ MovesTo("testing")
    /\ UNCHANGED <<requests, historyVars, topicMode, inHand, stopFlag, up, replyVars>>

ConnectServer ==
    /\ consumer = "connecting"
    /\ up' = TRUE
    /\ MovesTo("waiting")
    /\ UNCHANGED <<requests, historyVars, topicMode, inHand, stopFlag, replyVars>>

\* The flag is set, or the wait returns an error.  After a deadline, or anything
\* else the wait throws, the same receiver waits again.
LeaveInner ==
    /\ consumer = "waiting"
    /\ stopFlag \/ ~up
    /\ MovesTo("closing")
    /\ UNCHANGED <<requests, historyVars, topicMode, inHand, stopFlag, up, replyVars>>

\* closeAll, or the end of the cache: no sender outlives its connection.
CloseAll ==
    /\ consumer = "closing"
    /\ up' = FALSE
    /\ sender' = "none"
    /\ unused' = 0
    /\ MovesTo("testing")
    /\ UNCHANGED <<requests, historyVars, topicMode, inHand, stopFlag, attempt, tried>>

\* ReceiverSettleMode::First; a settlement that is lost with its connection
\* leaves the request with the broker.
Receive(m) ==
    /\ consumer = "waiting"
    /\ up
    /\ m \in requests
    /\ requests' \in {requests, requests \ {m}}
    /\ inHand' = m
    /\ MovesTo("handling")
    /\ UNCHANGED <<historyVars, topicMode, stopFlag, up, replyVars>>

\* The body is empty, or processMessage returns false.
Drop ==
    /\ consumer = "handling"
    /\ inHand' = "none"
    /\ MovesTo("waiting")
    /\ UNCHANGED <<requests, historyVars, topicMode, stopFlag, up, replyVars>>

\* A std::exception ends the connection, anything else the server.
ProcessThrows ==
    /\ consumer = "handling"
    /\ inHand' = "none"
    /\ up' = FALSE
    /\ sender' = "none"
    /\ unused' = 0
    /\ \E place \in {"testing", "off"} : MovesTo(place)
    /\ UNCHANGED <<requests, historyVars, topicMode, stopFlag, attempt, tried>>

Process ==
    /\ consumer = "handling"
    /\ executed' = executed \cup {inHand}
    /\ IF topicMode \/ inHand \in Silent
       THEN MovesTo("waiting") /\ inHand' = "none" /\ UNCHANGED <<attempt, tried>>
       ELSE MovesTo("acquiring") /\ attempt' = 0 /\ tried' = "nothing" /\ UNCHANGED inHand
    /\ UNCHANGED <<requests, answered, topicMode, stopFlag, up, sender, unused>>

-----------------------------------------------------------------------------
(* ReplySenderCache                                                        *)

\* Mistake: the idle time of a kept sender is not looked at.
StaleNever == FALSE

stale == unused > kReplySenderMaxIdle

AcquireKept ==
    /\ consumer = "acquiring"
    /\ sender # "none"
    /\ ~stale
    /\ tried' = "kept"
    /\ MovesTo("sending")
    /\ UNCHANGED <<requests, historyVars, topicMode, inHand, stopFlag, up, sender, unused, attempt>>

AcquireNew ==
    /\ consumer = "acquiring"
    /\ sender = "none" \/ stale
    /\ up
    /\ sender' = "linked"
    /\ unused' = 0
    /\ tried' = "new"
    /\ MovesTo("sending")
    /\ UNCHANGED <<requests, historyVars, topicMode, inHand, stopFlag, up, attempt>>

GivesUp ==
    /\ MovesTo("waiting")
    /\ inHand' = "none"

\* Open fails: publish returns false; the stale sender is gone already.
AcquireFails ==
    /\ consumer = "acquiring"
    /\ sender = "none" \/ stale
    /\ sender' = "none"
    /\ tried' = "new"
    /\ GivesUp
    /\ UNCHANGED <<requests, historyVars, topicMode, stopFlag, up, unused, attempt>>

\* The link cannot even be created: the exception ends the connection.
AcquireThrows ==
    /\ consumer = "acquiring"
    /\ sender = "none" \/ stale
    /\ sender' = "none"
    /\ unused' = 0
    /\ up' = FALSE
    /\ tried' = "new"
    /\ inHand' = "none"
    /\ MovesTo("testing")
    /\ UNCHANGED <<requests, historyVars, topicMode, stopFlag, attempt>>

SendReply ==
    /\ consumer = "sending"
    /\ up
    /\ sender = "linked"
    /\ answered' = answered \cup {inHand}
    /\ unused' = 0
    /\ MovesTo("waiting")
    /\ inHand' = "none"
    /\ UNCHANGED <<requests, executed, topicMode, stopFlag, up, sender, attempt, tried>>

\* Mistake: a sender that failed is kept.
SendFailsKept ==
    /\ consumer = "sending"
    /\ answered' \in {answered, answered \cup {inHand}}
    /\ attempt' = 1
    /\ IF attempt = 0 THEN MovesTo("acquiring") /\ UNCHANGED inHand ELSE GivesUp
    /\ UNCHANGED <<requests, executed, topicMode, stopFlag, up, sender, unused, tried>>

\* The broker may have taken a reply whose send was not confirmed: with the
\* second attempt it gets it twice.
SendFails ==
    /\ consumer = "sending"
    /\ answered' \in {answered, answered \cup {inHand}}
    /\ sender' = "none"
    /\ attempt' = 1
    /\ IF attempt = 0 THEN MovesTo("acquiring") /\ UNCHANGED inHand ELSE GivesUp
    /\ UNCHANGED <<requests, executed, topicMode, stopFlag, up, unused, tried>>

-----------------------------------------------------------------------------
(* The broker, the network and time                                        *)

LoseConnection ==
    /\ up
    /\ up' = FALSE
    /\ UNCHANGED <<requests, historyVars, topicMode, consumer, inHand, stopFlag, replyVars>>

Detach ==
    /\ sender = "linked"
    /\ sender' = "detached"
    /\ UNCHANGED <<requests, historyVars, topicMode, consumer, inHand, stopFlag, up, unused, attempt, tried>>

\* The broker detaches a link that has been idle for ten minutes.  No time
\* passes between acquire and SendReply.
Tick ==
    /\ consumer # "sending"
    /\ sender # "none"
    /\ unused < BrokerMaxIdle
    /\ unused' = unused + 1
    /\ sender' = IF unused' = BrokerMaxIdle THEN "detached" ELSE sender
    /\ UNCHANGED <<requests, historyVars, topicMode, consumer, inHand, stopFlag, up, attempt, tried>>

LoopNext ==
    \/ TestOuter \/ ConnectServerThrows \/ ConnectServer \/ LeaveInner \/ CloseAll
    \/ Drop \/ ProcessThrows \/ Process
    \/ AcquireKept \/ AcquireNew \/ AcquireFails \/ AcquireThrows \/ SendReply \/ SendFails

ServerNext ==
    \/ Start \/ Stop \/ LoopNext
    \/ \E m \in Requests : Receive(m)
    \/ LoseConnection \/ Detach \/ Tick

ServerSpec == ServerInit /\ [][ServerNext]_serverVars

-----------------------------------------------------------------------------
(* Properties                                                              *)

\* A kept sender is never used when the broker has detached it for idling
\* (acquire: "Proactively replace before the broker's 10-min idle detach").
IdleLinkIsReplaced == consumer = "sending" => unused < BrokerMaxIdle

\* A reply is given up only after a link opened for it has failed too, however
\* the link it was first sent on came to be detached (publish).
ReplyGetsNewLink ==
    [][inHand # "none" /\ inHand' = "none" /\ consumer \in {"acquiring", "sending"}
           => inHand \in answered' \/ tried' = "new"]_serverVars
=============================================================================
