---------------------------- MODULE PubSubServer ----------------------------
(***************************************************************************)
(* PubSubServer (pubsub/PubSubPlugin/PubSubServer.cpp): a set-up that is   *)
(* repeated until it succeeds, a loop that pulls one request at a time,    *)
(* executes it, publishes the reply and only then acknowledges, a stop()   *)
(* that waits, and a process that may crash.                               *)
(***************************************************************************)
EXTENDS PubSubBroker

VARIABLES
    stopRequested,  \* stopRequested_
    loop,           \* where the thread is in start()
    hand,           \* the request in HandleMessage, or "none"
    executed,       \* the requests processMessage has executed
    answered        \* the requests whose reply Pub/Sub has taken

historyVars == <<executed, answered>>
serverVars == <<stopRequested, loop, hand, historyVars>>

ServerTypeOK ==
    /\ stopRequested \in BOOLEAN
    /\ loop \in {"off", "setup", "requestTopic", "requestSub", "testing", "pulling",
                 "handling", "replying", "acking", "leaving"}
    /\ hand \in Messages \cup {"none"}
    /\ executed \subseteq Messages
    /\ answered \subseteq Messages

ServerInit ==
    /\ stopRequested = FALSE
    /\ loop = "off"
    /\ hand = "none"
    /\ executed = {}
    /\ answered = {}

\* running_: set and cleared under stateMutex_ at the two ends of start().
running == loop # "off"

MovesTo(place) == loop' = place

-----------------------------------------------------------------------------
(* start, stop                                                             *)

\* A start() while the server runs returns at once.
Start ==
    /\ ~running
    /\ stopRequested' = FALSE
    /\ MovesTo("setup")
    /\ UNCHANGED <<brokerVars, hand, historyVars>>

\* stop() then waits until running_ is unset; it does nothing to a server that
\* does not run, not even to one about to start.
StopRequest ==
    /\ running
    /\ stopRequested' = TRUE
    /\ UNCHANGED <<brokerVars, loop, hand, historyVars>>

\* Mistake: the set-up is repeated whatever stop() asks for.
TestSetUpNever ==
    /\ loop = "setup"
    /\ MovesTo(IF autoCreate THEN "requestTopic" ELSE "testing")
    /\ UNCHANGED <<brokerVars, stopRequested, hand, historyVars>>

TestSetUp ==
    /\ loop = "setup"
    /\ MovesTo(IF stopRequested THEN "testing"
               ELSE IF autoCreate THEN "requestTopic" ELSE "testing")
    /\ UNCHANGED <<brokerVars, stopRequested, hand, historyVars>>

SetUp ==
    /\ loop \in {"requestTopic", "requestSub"}
    /\ \E a \in Answers(TRUE) :
           /\ IF loop = "requestSub" THEN EnsureSubscription(loop, a) ELSE EnsureTopic(loop, a)
           /\ MovesTo(IF a.status # "ok" THEN "setup"
                      ELSE IF loop = "requestTopic" THEN "requestSub" ELSE "testing")
    /\ UNCHANGED <<stopRequested, hand, historyVars>>

TestStop ==
    /\ loop = "testing"
    /\ MovesTo(IF stopRequested THEN "leaving" ELSE "pulling")
    /\ UNCHANGED <<brokerVars, stopRequested, hand, historyVars>>

Leave ==
    /\ loop = "leaving"
    /\ MovesTo("off")
    /\ UNCHANGED <<brokerVars, stopRequested, hand, historyVars>>

-----------------------------------------------------------------------------
(* The receive loop and HandleMessage                                      *)

\* No message, or the pull threw: the loop waits and tests the flag again.
PullNothing ==
    /\ loop = "pulling"
    /\ \E a \in Answers("requestSub" \in exists) : Pull("requestSub", {}, a)
    /\ MovesTo("testing")
    /\ UNCHANGED <<stopRequested, hand, historyVars>>

\* A message that comes after stop() is left to be delivered again.
PullRequest(m) ==
    /\ loop = "pulling"
    /\ \E a \in Answers("requestSub" \in exists) : Pull("requestSub", {m}, a)
    /\ IF stopRequested
       THEN MovesTo("testing") /\ UNCHANGED hand
       ELSE MovesTo("handling") /\ hand' = m
    /\ UNCHANGED <<stopRequested, historyVars>>

\* HandleMessage returns before it has acknowledged.
LeavesUnacked ==
    /\ MovesTo("testing")
    /\ hand' = "none"

\* A request without its attributes; processMessage throws or returns false.
Reject ==
    /\ loop = "handling"
    /\ LeavesUnacked
    /\ UNCHANGED <<brokerVars, stopRequested, historyVars>>

\* What is thrown is no std::exception: start() ends.
RejectUnknown ==
    /\ loop = "handling"
    /\ oneWay \/ hand \notin Strays
    /\ MovesTo("leaving")
    /\ hand' = "none"
    /\ UNCHANGED <<brokerVars, stopRequested, historyVars>>

Process ==
    /\ loop = "handling"
    /\ oneWay \/ hand \notin Strays
    /\ executed' = executed \cup {hand}
    /\ MovesTo(IF oneWay THEN "acking" ELSE "replying")
    /\ UNCHANGED <<brokerVars, stopRequested, hand, answered>>

\* Mistake: the request is acknowledged although its reply failed.
ReplyUnchecked ==
    /\ loop = "replying"
    /\ \E a \in Answers(TRUE) :
           /\ Publish("replyTopic", hand, a)
           /\ answered' = IF a.took THEN answered \cup {hand} ELSE answered
    /\ MovesTo("acking")
    /\ UNCHANGED <<stopRequested, hand, executed>>

\* Mistake: the reply carries the id of any request executed so far.
ReplyStale ==
    /\ loop = "replying"
    /\ \E a \in Answers(TRUE), m \in Ids :
           /\ Publish("replyTopic", m, a)
           /\ answered' = IF a.took THEN answered \cup {hand} ELSE answered
           /\ IF a.status = "ok" THEN MovesTo("acking") /\ UNCHANGED hand ELSE LeavesUnacked
    /\ UNCHANGED <<stopRequested, executed>>

Reply ==
    /\ loop = "replying"
    /\ \E a \in Answers(TRUE) :
           /\ Publish("replyTopic", hand, a)
           /\ answered' = IF a.took THEN answered \cup {hand} ELSE answered
           /\ IF a.status = "ok" THEN MovesTo("acking") /\ UNCHANGED hand ELSE LeavesUnacked
    /\ UNCHANGED <<stopRequested, executed>>

AckRequest ==
    /\ loop = "acking"
    /\ \E a \in Answers(TRUE) : Acknowledge("requestSub", {hand}, a)
    /\ LeavesUnacked
    /\ UNCHANGED <<stopRequested, historyVars>>

\* The process ends wherever it is, and a new one begins.
Crash ==
    /\ loop # "off"
    /\ MovesTo("off")
    /\ hand' = "none"
    /\ stopRequested' = FALSE
    /\ UNCHANGED <<brokerVars, historyVars>>

HandleNext ==
    \/ Reject \/ RejectUnknown \/ Process \/ Reply \/ AckRequest

ServerNext ==
    \/ Start \/ StopRequest \/ Leave
    \/ TestSetUp \/ SetUp \/ TestStop \/ PullNothing
    \/ \E m \in held["requestSub"] : PullRequest(m)
    \/ HandleNext \/ Crash
=============================================================================
