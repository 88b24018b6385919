-------------------------- MODULE PubSubRpc_proofs --------------------------
(***************************************************************************)
(* For any callers, ids and strays, and whatever fails: an executed        *)
(* request's answer is on its way as long as its call waits, a request is  *)
(* acknowledged only once answered, and a call returns its own answer.     *)
(***************************************************************************)
EXTENDS PubSubRpc, TLAPS

\* The request in HandleMessage stays in its subscription until AckRequest;
\* it has come as far as the loop's place says.
HandIsHeld ==
    /\ loop \in {"handling", "replying", "acking"} => hand \in held["requestSub"]
    /\ hand # "none" => loop \in {"handling", "replying", "acking"}
    /\ loop \in {"replying", "acking"} => hand \in executed
    /\ loop = "replying" => ~oneWay /\ hand \in Ids
    /\ loop = "acking" => oneWay \/ hand \in answered

\* One caller starts the client, once, and only the dispatcher it makes has
\* replies in hand.
OneStart ==
    /\ \A c, d \in Callers : at[c] \in Creating /\ at[d] \in Creating => c = d
    /\ \A c \in Callers : at[c] \in Creating => ~started
    /\ ~started => dispatcher = "none"
    /\ batch # {} => dispatcher \in {"acking", "delivering"}

\* A client that has started has its reply subscription.
ReplySubMade ==
    /\ ~autoCreate => Resources \subseteq exists
    /\ \A c \in Callers : at[c] = "ensured" => started
    /\ started => oneWay \/ "replySub" \in exists
    /\ \A c \in Callers : at[c] = "launching" => oneWay \/ "replySub" \in exists

\* An id names one call.
CallsHaveIds ==
    /\ \A c \in Callers : call[c] \notin fresh
    /\ \A c, d \in Callers : call[c] \in Ids /\ call[c] = call[d] => c = d
    /\ \A c \in Callers : at[c] = "publishing" => call[c] \in Ids
    /\ \A c \in Callers : promise[c] # "unasked" =>
           ~oneWay /\ call[c] \in Ids /\ "replySub" \in exists
    /\ \A c \in Callers : answer[c] # "none" => ~oneWay

\* Nothing is known of an id that was not used yet, and what is answered was
\* executed.
NothingFromNothing ==
    /\ (held["requestSub"] \cup executed) \cap fresh = {}
    /\ held["replySub"] \subseteq Ids
    /\ held["replySub"] \cup batch \cup answered \subseteq executed
    /\ \A c \in Callers : promise[c] \in Ids => promise[c] = call[c] /\ call[c] \in executed

\* Once Pub/Sub has taken the answer of a waiting call, it stays with Pub/Sub
\* or in the dispatcher's hands.
AnswersAreKept ==
    \A c \in Callers :
        promise[c] = "open" /\ call[c] \in answered => call[c] \in held["replySub"] \cup batch

RpcInv ==
    /\ TypeOK
    /\ HandIsHeld
    /\ OneStart
    /\ ReplySubMade
    /\ CallsHaveIds
    /\ NothingFromNothing
    /\ AnswersAreKept
    /\ OwnAnswer
    /\ NothingIsLost

USE DEF Messages, SubscriptionOf, TopicOf, Resources

-----------------------------------------------------------------------------
(* What the requests to Pub/Sub leave behind, however they end             *)

\* A message goes to the topic's subscription, or nowhere.
LEMMA Published ==
    ASSUME BrokerTypeOK, NEW t \in DOMAIN SubscriptionOf, NEW m \in Messages,
           NEW a \in Answers(TRUE), Publish(t, m, a)
    PROVE  /\ BrokerTypeOK'
           /\ UNCHANGED <<oneWay, autoCreate, exists>>
           /\ \A s \in DOMAIN TopicOf \ {SubscriptionOf[t]} : held'[s] = held[s]
           /\ held'[SubscriptionOf[t]] \in
                  {held[SubscriptionOf[t]], held[SubscriptionOf[t]] \cup {m}}
           /\ (a.took \/ a.status = "ok") /\ SubscriptionOf[t] \in exists
                  => m \in held'[SubscriptionOf[t]]
<1>1. a.status = "ok" => a.took
  BY DEF Answers
<1> QED
  BY <1>1 DEF Publish, BrokerTypeOK

\* Only what is acknowledged leaves, and only from its subscription.
LEMMA Acknowledged ==
    ASSUME BrokerTypeOK, NEW s \in DOMAIN TopicOf, NEW b, NEW a, Acknowledge(s, b, a)
    PROVE  /\ BrokerTypeOK'
           /\ UNCHANGED <<oneWay, autoCreate, exists>>
           /\ \A r \in DOMAIN TopicOf \ {s} : held'[r] = held[r]
           /\ held'[s] \in {held[s], held[s] \ b}
BY DEF Acknowledge, BrokerTypeOK

\* Nothing that exists goes away, and success means it exists.
LEMMA Ensured ==
    ASSUME BrokerTypeOK, NEW r \in Resources, NEW a \in Answers(TRUE),
           EnsureTopic(r, a) \/ EnsureSubscription(r, a)
    PROVE  /\ BrokerTypeOK'
           /\ UNCHANGED <<oneWay, autoCreate, held>>
           /\ exists \subseteq exists'
           /\ a.status = "ok" => r \in exists'
<1>1. a.status = "ok" => a.took
  BY DEF Answers
<1> QED
  BY <1>1 DEF EnsureTopic, EnsureSubscription, BrokerTypeOK

-----------------------------------------------------------------------------
(* The server's steps                                                      *)

\* What the server does not touch of the invariant.
LEMMA ServerLeavesCalls ==
    ASSUME RpcInv, UNCHANGED <<clientVars, oneWay, autoCreate>>, exists \subseteq exists'
    PROVE  OneStart' /\ ReplySubMade' /\ CallsHaveIds' /\ ClientTypeOK'
<1> USE DEF clientVars, contractVars, callVars, dispatchVars
<1>1. OneStart'
  BY DEF RpcInv, OneStart
<1>2. ReplySubMade'
  BY DEF RpcInv, ReplySubMade
<1>3. CallsHaveIds'
  BY DEF RpcInv, CallsHaveIds
<1>4. ClientTypeOK'
  BY DEF RpcInv, TypeOK, ClientTypeOK, ContractTypeOK
<1> QED
  BY <1>1, <1>2, <1>3, <1>4

\* The steps that leave Pub/Sub and the requests' history as they are.
QuietServerStep ==
    \/ Start \/ StopRequest \/ Leave \/ TestSetUp \/ TestStop \/ PullNothing
    \/ \E m \in held["requestSub"] : PullRequest(m)
    \/ Reject \/ RejectUnknown \/ Crash

\* They may only let go of the request in hand, or take one of the
\* subscription's.
LEMMA QuietServerKeepsInv ==
    ASSUME RpcInv, QuietServerStep, UNCHANGED clientVars
    PROVE  RpcInv'
<1> USE DEF RpcInv, TypeOK
<1>1. UNCHANGED <<brokerVars, historyVars>>
  BY DEF QuietServerStep, Start, StopRequest, Leave, TestSetUp, TestStop, PullNothing,
         PullRequest, Reject, RejectUnknown, Crash, Pull
<1> USE <1>1 DEF brokerVars, historyVars
<1>2. ServerTypeOK' /\ HandIsHeld'
  <2>1. CASE Start \/ StopRequest \/ Leave \/ TestSetUp \/ TestStop \/ PullNothing
    BY <2>1 DEF Start, StopRequest, Leave, TestSetUp, TestStop, PullNothing, MovesTo,
                running, ServerTypeOK, HandIsHeld
  <2>2. ASSUME NEW m \in held["requestSub"], PullRequest(m)
        PROVE  ServerTypeOK' /\ HandIsHeld'
    <3>1. m \in Messages
      BY DEF BrokerTypeOK
    <3> QED
      BY <2>2, <3>1 DEF PullRequest, MovesTo, ServerTypeOK, HandIsHeld
  <2>3. CASE Reject \/ RejectUnknown \/ Crash
    BY <2>3 DEF Reject, RejectUnknown, Crash, LeavesUnacked, MovesTo, ServerTypeOK,
                HandIsHeld
  <2> QED
    BY <2>1, <2>2, <2>3 DEF QuietServerStep
<1>3. OneStart' /\ ReplySubMade' /\ CallsHaveIds' /\ ClientTypeOK'
  BY ServerLeavesCalls
<1>4. BrokerTypeOK'
  BY DEF BrokerTypeOK
<1>5. NothingFromNothing' /\ AnswersAreKept' /\ OwnAnswer' /\ NothingIsLost'
  BY DEF NothingFromNothing, AnswersAreKept, OwnAnswer, NothingIsLost, clientVars,
         contractVars, callVars, dispatchVars
<1> QED
  BY <1>2, <1>3, <1>4, <1>5

\* Set-up adds topics and subscriptions, whatever it reports.
LEMMA SetUpKeepsInv ==
    ASSUME RpcInv, SetUp, UNCHANGED clientVars
    PROVE  RpcInv'
<1> USE DEF RpcInv, TypeOK
<1>1. PICK a \in Answers(TRUE) :
          /\ EnsureTopic(loop, a) \/ EnsureSubscription(loop, a)
          /\ loop \in {"requestTopic", "requestSub"}
          /\ loop' \in {"setup", "requestSub", "testing"}
          /\ UNCHANGED <<stopRequested, hand, historyVars>>
  BY DEF SetUp, MovesTo
<1>2. /\ BrokerTypeOK'
      /\ UNCHANGED <<oneWay, autoCreate, held>>
      /\ exists \subseteq exists'
  BY <1>1, Ensured
<1>3. ServerTypeOK' /\ HandIsHeld'
  BY <1>1, <1>2 DEF ServerTypeOK, HandIsHeld, historyVars
<1>4. OneStart' /\ ReplySubMade' /\ CallsHaveIds' /\ ClientTypeOK'
  BY <1>2, ServerLeavesCalls
<1>5. NothingFromNothing' /\ AnswersAreKept' /\ OwnAnswer' /\ NothingIsLost'
  BY <1>1, <1>2 DEF NothingFromNothing, AnswersAreKept, OwnAnswer, NothingIsLost,
         clientVars, contractVars, callVars, dispatchVars, historyVars
<1> QED
  BY <1>2, <1>3, <1>4, <1>5

\* The request that is executed is one of its subscription's.
LEMMA ProcessKeepsInv ==
    ASSUME RpcInv, Process, UNCHANGED clientVars
    PROVE  RpcInv'
<1> USE DEF RpcInv, TypeOK
<1>1. /\ UNCHANGED brokerVars
      /\ hand \in held["requestSub"] /\ hand \in Messages
      /\ executed' = executed \cup {hand} /\ answered' = answered
  BY DEF Process, HandIsHeld, BrokerTypeOK
<1> USE <1>1 DEF brokerVars
<1>2. ServerTypeOK' /\ HandIsHeld'
  BY DEF Process, MovesTo, ServerTypeOK, HandIsHeld
<1>3. OneStart' /\ ReplySubMade' /\ CallsHaveIds' /\ ClientTypeOK'
  BY ServerLeavesCalls
<1>4. BrokerTypeOK'
  BY DEF BrokerTypeOK
<1> USE DEF clientVars, contractVars, callVars, dispatchVars
<1>5. NothingFromNothing'
  BY DEF NothingFromNothing
<1>6. AnswersAreKept' /\ OwnAnswer' /\ NothingIsLost'
  BY DEF AnswersAreKept, OwnAnswer, NothingIsLost
<1> QED
  BY <1>2, <1>3, <1>4, <1>5, <1>6

\* What Pub/Sub has taken is in the reply subscription, which a waiting call's
\* client has made.
LEMMA ReplyKeepsInv ==
    ASSUME RpcInv, Reply, UNCHANGED clientVars
    PROVE  RpcInv'
<1> USE DEF RpcInv, TypeOK
<1>1. PICK a \in Answers(TRUE) :
          /\ Publish("replyTopic", hand, a)
          /\ answered' = IF a.took THEN answered \cup {hand} ELSE answered
          /\ IF a.status = "ok" THEN MovesTo("acking") /\ UNCHANGED hand ELSE LeavesUnacked
  BY DEF Reply
<1>2. loop = "replying" /\ UNCHANGED <<stopRequested, executed>>
  BY DEF Reply
<1>3. hand \in Ids /\ hand \in executed /\ ~oneWay /\ hand \in held["requestSub"]
  BY <1>2 DEF HandIsHeld
<1>4. a.status = "ok" => a.took
  BY DEF Answers
<1>5. /\ BrokerTypeOK'
      /\ UNCHANGED <<oneWay, autoCreate, exists>>
      /\ held'["requestSub"] = held["requestSub"]
      /\ held'["replySub"] \in {held["replySub"], held["replySub"] \cup {hand}}
      /\ (a.took \/ a.status = "ok") /\ "replySub" \in exists => hand \in held'["replySub"]
  <2>1. /\ "replyTopic" \in DOMAIN SubscriptionOf
        /\ SubscriptionOf["replyTopic"] = "replySub"
        /\ DOMAIN TopicOf = {"requestSub", "replySub"}
        /\ hand \in Messages
    BY <1>3
  <2>2. BrokerTypeOK /\ Publish("replyTopic", hand, a)
    BY <1>1
  <2> HIDE DEF SubscriptionOf, TopicOf, RpcInv, TypeOK
  <2>3. /\ BrokerTypeOK'
        /\ UNCHANGED <<oneWay, autoCreate, exists>>
        /\ held'["requestSub"] = held["requestSub"]
        /\ held'["replySub"] \in {held["replySub"], held["replySub"] \cup {hand}}
        /\ a.took /\ "replySub" \in exists => hand \in held'["replySub"]
    BY <2>1, <2>2 DEF Publish, BrokerTypeOK
  <2> QED
    BY <1>4, <2>3
<1>6. ServerTypeOK' /\ HandIsHeld'
  BY <1>1, <1>2, <1>3, <1>4, <1>5 DEF LeavesUnacked, MovesTo, ServerTypeOK, HandIsHeld
<1>7. OneStart' /\ ReplySubMade' /\ CallsHaveIds' /\ ClientTypeOK'
  BY <1>5, ServerLeavesCalls
<1> USE DEF clientVars, contractVars, callVars, dispatchVars
<1>8. NothingFromNothing'
  BY <1>1, <1>2, <1>3, <1>5 DEF NothingFromNothing
<1>9. AnswersAreKept'
  BY <1>1, <1>5 DEF AnswersAreKept, CallsHaveIds
<1>10. OwnAnswer' /\ NothingIsLost'
  BY <1>2, <1>5 DEF OwnAnswer, NothingIsLost
<1> QED
  BY <1>5, <1>6, <1>7, <1>8, <1>9, <1>10

\* Only a request whose answer is kept is acknowledged.
LEMMA AckRequestKeepsInv ==
    ASSUME RpcInv, AckRequest, UNCHANGED clientVars
    PROVE  RpcInv'
<1> USE DEF RpcInv, TypeOK
<1>1. /\ BrokerTypeOK'
      /\ UNCHANGED <<oneWay, autoCreate, exists>>
      /\ held'["replySub"] = held["replySub"]
      /\ held'["requestSub"] \in {held["requestSub"], held["requestSub"] \ {hand}}
  BY Acknowledged DEF AckRequest
<1>2. loop = "acking" /\ LeavesUnacked /\ UNCHANGED <<stopRequested, historyVars>>
  BY DEF AckRequest
<1>3. ServerTypeOK' /\ HandIsHeld'
  BY <1>2 DEF LeavesUnacked, MovesTo, ServerTypeOK, HandIsHeld, historyVars
<1>4. OneStart' /\ ReplySubMade' /\ CallsHaveIds' /\ ClientTypeOK'
  BY <1>1, ServerLeavesCalls
<1> USE DEF clientVars, contractVars, callVars, dispatchVars, historyVars
<1>5. NothingFromNothing' /\ AnswersAreKept' /\ OwnAnswer'
  BY <1>1, <1>2 DEF NothingFromNothing, AnswersAreKept, OwnAnswer
<1>6. NothingIsLost'
  <2>1. oneWay \/ hand \in answered
    BY <1>2 DEF HandIsHeld
  <2> QED
    BY <1>1, <1>2, <2>1 DEF NothingIsLost, AnswersAreKept, CallsHaveIds
<1> QED
  BY <1>1, <1>3, <1>4, <1>5, <1>6

\* Every step of the server.
LEMMA ServerStep ==
    ASSUME RpcInv, ServerNext, UNCHANGED clientVars
    PROVE  RpcInv'
BY QuietServerKeepsInv, SetUpKeepsInv, ProcessKeepsInv, ReplyKeepsInv, AckRequestKeepsInv
DEF ServerNext, HandleNext, QuietServerStep

-----------------------------------------------------------------------------
(* The client's steps                                                      *)

\* What the client does not touch of the invariant.
LEMMA ClientLeavesServer ==
    ASSUME RpcInv, UNCHANGED <<serverVars, oneWay>>,
           held["requestSub"] \subseteq held'["requestSub"]
    PROVE  HandIsHeld' /\ ServerTypeOK'
BY DEF RpcInv, TypeOK, HandIsHeld, ServerTypeOK, serverVars, historyVars

\* The steps that move a thread and nothing else, but for the start.
MovingStep ==
    \/ \E c \in Callers : Enter(c) \/ LockStart(c) \/ Launch(c)
    \/ TestStopping \/ Poll \/ PollClosed \/ PollTimesOut
    \/ DtorStop \/ DtorJoin

\* Of these steps, LockStart and Launch bear on OneStart and ReplySubMade.
LEMMA MovingKeepsInv ==
    ASSUME RpcInv, MovingStep, UNCHANGED serverVars
    PROVE  RpcInv'
<1> USE DEF RpcInv, TypeOK, GoTo
<1>1. UNCHANGED <<brokerVars, contractVars, call, fresh, batch>>
  BY DEF MovingStep, Enter, LockStart, Launch, TestStopping, Poll, PollClosed,
         PollTimesOut, DtorStop, DtorJoin, dispatchVars, callVars
<1> USE <1>1 DEF brokerVars, contractVars, serverVars, historyVars
<1>2. HandIsHeld' /\ ServerTypeOK' /\ BrokerTypeOK'
  BY ClientLeavesServer DEF BrokerTypeOK
<1>3. NothingFromNothing' /\ AnswersAreKept' /\ OwnAnswer' /\ NothingIsLost'
  BY DEF NothingFromNothing, AnswersAreKept, OwnAnswer, NothingIsLost
<1>4. ClientTypeOK' /\ OneStart' /\ ReplySubMade' /\ CallsHaveIds'
  <2>1. ASSUME NEW c \in Callers, Enter(c)
        PROVE  ClientTypeOK' /\ OneStart' /\ ReplySubMade' /\ CallsHaveIds'
    <3> USE <2>1 DEF Enter, dispatchVars, Creating
    <3>1. ClientTypeOK'
      BY DEF ClientTypeOK, ContractTypeOK
    <3>2. OneStart' /\ ReplySubMade' /\ CallsHaveIds'
      BY DEF ClientTypeOK, OneStart, ReplySubMade, CallsHaveIds
    <3> QED
      BY <3>1, <3>2
  <2>2. ASSUME NEW c \in Callers, LockStart(c)
        PROVE  ClientTypeOK' /\ OneStart' /\ ReplySubMade' /\ CallsHaveIds'
    <3> USE <2>2 DEF LockStart, dispatchVars
    <3>1. ClientTypeOK'
      BY DEF ClientTypeOK, ContractTypeOK, Creating
    <3>2. OneStart'
      BY DEF ClientTypeOK, OneStart, Creating
    <3>3. ReplySubMade' /\ CallsHaveIds'
      BY DEF ClientTypeOK, ReplySubMade, CallsHaveIds
    <3> QED
      BY <3>1, <3>2, <3>3
  <2>3. ASSUME NEW c \in Callers, Launch(c)
        PROVE  ClientTypeOK' /\ OneStart' /\ ReplySubMade' /\ CallsHaveIds'
    <3> USE <2>3 DEF Launch
    <3>1. ClientTypeOK'
      BY DEF ClientTypeOK, ContractTypeOK
    <3>2. OneStart' /\ ReplySubMade' /\ CallsHaveIds'
      BY DEF ClientTypeOK, OneStart, ReplySubMade, CallsHaveIds, Creating
    <3> QED
      BY <3>1, <3>2
  <2>4. CASE TestStopping \/ Poll \/ PollClosed \/ PollTimesOut \/ DtorStop \/ DtorJoin
    <3>1. /\ UNCHANGED <<at, started>>
          /\ dispatcher' \in {"none", "looping", "polling", "pulling", "acking",
                              "delivering", "exited"}
          /\ life' \in {"alive", "stopping", "closed", "gone"}
          /\ dispatcher \in {"none", "acking", "delivering"} => dispatcher' = dispatcher
      BY <2>4 DEF TestStopping, Poll, PollClosed, PollTimesOut, DtorStop, DtorJoin,
                  dispatchVars, callVars, ClientTypeOK
    <3>2. ClientTypeOK'
      BY <3>1 DEF ClientTypeOK, ContractTypeOK
    <3>3. OneStart' /\ ReplySubMade' /\ CallsHaveIds'
      BY <3>1 DEF OneStart, ReplySubMade, CallsHaveIds
    <3> QED
      BY <3>2, <3>3
  <2> QED
    BY <2>1, <2>2, <2>3, <2>4 DEF MovingStep
<1> QED
  BY <1>2, <1>3, <1>4

\* A start that fails half-way has made resources, and started nothing.
LEMMA CreateKeepsInv ==
    ASSUME RpcInv, NEW c \in Callers, Create(c), UNCHANGED serverVars
    PROVE  RpcInv'
<1> USE DEF RpcInv, TypeOK
<1>1. PICK a \in Answers(TRUE) :
          /\ EnsureTopic(at[c], a) \/ EnsureSubscription(at[c], a)
          /\ at' = [at EXCEPT ![c] = IF a.status = "ok" THEN CreatesNext[at[c]] ELSE "idle"]
  BY DEF Create, GoTo
<1>2. /\ at[c] \in {"requestTopic", "replyTopic", "replySub"}
      /\ UNCHANGED <<contractVars, call, fresh, started, dispatchVars, life>>
  BY DEF Create, Creating
<1>3. /\ BrokerTypeOK'
      /\ UNCHANGED <<oneWay, autoCreate, held>>
      /\ exists \subseteq exists'
      /\ a.status = "ok" => at[c] \in exists'
  <2>1. at[c] \in Resources
    BY <1>2
  <2> HIDE DEF Resources
  <2> QED
    BY <1>1, <2>1, Ensured
<1>4. at' \in [Callers -> Creating \cup
          {"idle", "starting", "ensured", "publishing", "published", "unwinding"}]
  BY <1>1, <1>2 DEF ClientTypeOK, CreatesNext, Creating
<1> USE <1>2 DEF contractVars, dispatchVars
<1>5. ClientTypeOK'
  BY <1>4 DEF ClientTypeOK, ContractTypeOK
<1>6. HandIsHeld' /\ ServerTypeOK'
  BY <1>3, ClientLeavesServer
<1>7. OneStart'
  <2>1. at[c] \in Creating
    BY DEF Creating
  <2>2. \A d \in Callers : at'[d] \in Creating => at[d] \in Creating
    BY <1>1, <2>1 DEF ClientTypeOK
  <2> QED
    BY <2>2 DEF OneStart
<1>8. ReplySubMade'
  <2>1. at'[c] = "launching" => oneWay \/ "replySub" \in exists'
    BY <1>1, <1>2, <1>3 DEF ClientTypeOK, CreatesNext
  <2>2. at'[c] # "ensured"
    BY <1>1, <1>2 DEF ClientTypeOK, CreatesNext
  <2>3. \A d \in Callers \ {c} : at'[d] = at[d]
    BY <1>1 DEF ClientTypeOK
  <2> QED
    BY <1>3, <2>1, <2>2, <2>3 DEF ReplySubMade
<1>9. CallsHaveIds'
  <2>1. at'[c] # "publishing"
    BY <1>1, <1>2 DEF ClientTypeOK, CreatesNext
  <2>2. \A d \in Callers \ {c} : at'[d] = at[d]
    BY <1>1 DEF ClientTypeOK
  <2> QED
    BY <1>3, <2>1, <2>2 DEF CallsHaveIds
<1>10. NothingFromNothing' /\ AnswersAreKept' /\ OwnAnswer' /\ NothingIsLost'
  BY <1>3 DEF NothingFromNothing, AnswersAreKept, OwnAnswer, NothingIsLost, serverVars,
              historyVars
<1> QED
  BY <1>3, <1>5, <1>6, <1>7, <1>8, <1>9, <1>10

\* A fresh id is nobody else's, and nothing has happened to it.
LEMMA RegisterKeepsInv ==
    ASSUME RpcInv, NEW c \in Callers, NEW i \in Ids, RegisterCall(c, i), UNCHANGED serverVars
    PROVE  RpcInv'
<1> USE DEF RpcInv, TypeOK, RegisterCall, GoTo, Ask
<1>1. /\ at[c] = "ensured" /\ i \in fresh /\ started
      /\ UNCHANGED <<brokerVars, started, dispatcher, batch, life>>
      /\ oneWay => UNCHANGED contractVars
  BY DEF ReplySubMade, dispatchVars
<1> USE <1>1 DEF brokerVars, contractVars, serverVars, historyVars
<1>2. ClientTypeOK'
  BY DEF ClientTypeOK, ContractTypeOK
<1>3. /\ \A d \in Callers \ {c} : at'[d] = at[d] /\ call'[d] = call[d]
                                  /\ promise'[d] = promise[d] /\ answer'[d] = answer[d]
      /\ at'[c] = "publishing" /\ call'[c] = i /\ fresh' = fresh \ {i}
      /\ IF oneWay THEN promise'[c] = promise[c] /\ answer'[c] = answer[c]
                   ELSE promise[c] = "unasked" /\ promise'[c] = "open" /\ answer'[c] = "none"
  BY DEF ClientTypeOK, ContractTypeOK
<1>4. HandIsHeld' /\ ServerTypeOK' /\ BrokerTypeOK'
  BY ClientLeavesServer DEF BrokerTypeOK
<1>5. OneStart' /\ ReplySubMade'
  BY <1>3 DEF OneStart, ReplySubMade, Creating
<1>6. oneWay => promise[c] = "unasked" /\ answer[c] = "none"
  BY DEF CallsHaveIds
<1>7. CallsHaveIds'
  <2>1. \A d \in Callers \ {c} : call[d] # i
    BY DEF CallsHaveIds
  <2>2. oneWay \/ "replySub" \in exists
    BY DEF ReplySubMade
  <2>3. \A d \in Callers : call'[d] \notin fresh'
    BY <1>3 DEF CallsHaveIds
  <2>4. \A d, e \in Callers : call'[d] \in Ids /\ call'[d] = call'[e] => d = e
    BY <1>3, <2>1 DEF CallsHaveIds
  <2>5. \A d \in Callers : at'[d] = "publishing" => call'[d] \in Ids
    BY <1>3 DEF CallsHaveIds
  <2>6. \A d \in Callers : promise'[d] # "unasked" =>
            ~oneWay' /\ call'[d] \in Ids /\ "replySub" \in exists'
    BY <1>3, <1>6, <2>2 DEF CallsHaveIds
  <2>7. \A d \in Callers : answer'[d] # "none" => ~oneWay'
    BY <1>3, <1>6 DEF CallsHaveIds
  <2> HIDE DEF RpcInv, RegisterCall
  <2> QED
    BY <2>3, <2>4, <2>5, <2>6, <2>7 DEF CallsHaveIds
<1>8. i \notin executed /\ i \notin answered
  BY DEF NothingFromNothing
<1>9. NothingFromNothing'
  BY <1>3, <1>6, ErrorsAreOthers DEF NothingFromNothing
<1>10. AnswersAreKept' /\ NothingIsLost'
  BY <1>3, <1>6, <1>8 DEF AnswersAreKept, NothingIsLost
<1>11. OwnAnswer'
  BY <1>3, <1>6, ErrorsAreOthers DEF OwnAnswer
<1> QED
  BY <1>2, <1>4, <1>5, <1>7, <1>9, <1>10, <1>11

\* A caller goes on; what it knows of its call stays.
LEMMA PublishKeepsInv ==
    ASSUME RpcInv, NEW c \in Callers, PublishCall(c), UNCHANGED serverVars
    PROVE  RpcInv'
<1> USE DEF RpcInv, TypeOK
<1>1. PICK a \in Answers(TRUE) :
          /\ Publish("requestTopic", call[c], a)
          /\ \/ \E place \in {"idle", "published", "unwinding"} : GoTo(c, place)
             \/ UNCHANGED at
  BY DEF PublishCall
<1>2. /\ at[c] = "publishing"
      /\ UNCHANGED <<contractVars, call, fresh, started, dispatchVars, life>>
  BY DEF PublishCall
<1>3. call[c] \in Ids
  BY <1>2 DEF CallsHaveIds
<1>4. /\ BrokerTypeOK'
      /\ UNCHANGED <<oneWay, autoCreate, exists>>
      /\ held'["replySub"] = held["replySub"]
      /\ held'["requestSub"] \in {held["requestSub"], held["requestSub"] \cup {call[c]}}
  <2>1. /\ "requestTopic" \in DOMAIN SubscriptionOf
        /\ SubscriptionOf["requestTopic"] = "requestSub"
        /\ DOMAIN TopicOf = {"requestSub", "replySub"}
        /\ call[c] \in Messages
    BY <1>3
  <2> HIDE DEF SubscriptionOf, TopicOf
  <2> QED
    BY <1>1, <2>1, Published
<1>5. /\ \A d \in Callers \ {c} : at'[d] = at[d]
      /\ at'[c] \in {"idle", "published", "unwinding", "publishing"}
      /\ at' \in [Callers -> Creating \cup
             {"idle", "starting", "ensured", "publishing", "published", "unwinding"}]
  BY <1>1, <1>2 DEF GoTo, ClientTypeOK
<1> USE <1>2 DEF contractVars, dispatchVars
<1>6. ClientTypeOK'
  BY <1>5 DEF ClientTypeOK, ContractTypeOK
<1>7. HandIsHeld' /\ ServerTypeOK'
  BY <1>4, ClientLeavesServer
<1>8. OneStart' /\ ReplySubMade' /\ CallsHaveIds'
  BY <1>3, <1>4, <1>5 DEF OneStart, ReplySubMade, CallsHaveIds, Creating
<1>9. NothingFromNothing' /\ AnswersAreKept' /\ OwnAnswer' /\ NothingIsLost'
  BY <1>3, <1>4 DEF NothingFromNothing, AnswersAreKept, OwnAnswer, NothingIsLost,
                    CallsHaveIds, serverVars, historyVars
<1> QED
  BY <1>4, <1>6, <1>7, <1>8, <1>9

\* What a caller is told is what its promise was resolved with, or a timeout.
LEMMA ReturnKeepsInv ==
    ASSUME RpcInv, NEW c \in Callers, Answered(c) \/ TimesOut(c) \/ Unwind(c),
           UNCHANGED serverVars
    PROVE  RpcInv'
<1> USE DEF RpcInv, TypeOK
<1>1. /\ UNCHANGED <<brokerVars, call, fresh, started, dispatchVars, life>>
      /\ \E place \in {"unwinding", "idle"} : at' = [at EXCEPT ![c] = place]
  BY DEF Answered, TimesOut, Unwind, GoTo
<1>2. /\ promise' \in {promise, [promise EXCEPT ![c] = "unasked"]}
      /\ promise[c] # "unasked"
      /\ \/ promise[c] \in Outcomes /\ answer' = [answer EXCEPT ![c] = promise[c]]
         \/ answer' = [answer EXCEPT ![c] = "timeout"]
         \/ answer' = answer
  BY ErrorsAreOthers, RepliesAreIds
  DEF Answered, TimesOut, Unwind, Tell, GiveUp, Forget, Outcomes
<1> USE <1>1 DEF brokerVars, dispatchVars, serverVars, historyVars
<1>3. ClientTypeOK'
  BY <1>2 DEF ClientTypeOK, ContractTypeOK
<1>4. HandIsHeld' /\ ServerTypeOK' /\ BrokerTypeOK'
  BY ClientLeavesServer DEF BrokerTypeOK
<1>5. OneStart' /\ ReplySubMade'
  BY DEF OneStart, ReplySubMade, ClientTypeOK, Creating
<1>6. \A d \in Callers : promise'[d] = promise[d] \/ promise'[d] = "unasked"
  BY <1>2 DEF ClientTypeOK, ContractTypeOK
<1>7. \A d \in Callers : answer'[d] # answer[d] =>
          promise[d] # "unasked" /\ answer'[d] \in {promise[d], "timeout"}
  BY <1>2 DEF ClientTypeOK, ContractTypeOK
<1>8. \A d \in Callers : at'[d] = "publishing" => at[d] = "publishing"
  BY DEF ClientTypeOK
<1>9. CallsHaveIds'
  BY <1>6, <1>7, <1>8 DEF CallsHaveIds
<1>10. NothingFromNothing' /\ AnswersAreKept' /\ NothingIsLost'
  BY <1>6, ErrorsAreOthers DEF NothingFromNothing, AnswersAreKept, NothingIsLost
<1>11. OwnAnswer'
  BY <1>7, ErrorsAreOthers DEF OwnAnswer, NothingFromNothing
<1> QED
  BY <1>3, <1>4, <1>5, <1>9, <1>10, <1>11

\* A batch is taken when none is in hand, and kept when it is acknowledged.
LEMMA BatchKeepsInv ==
    ASSUME RpcInv, UNCHANGED serverVars,
           AckReplies \/ \E b \in SUBSET held["replySub"] : PullReplies(b)
    PROVE  RpcInv'
<1> USE DEF RpcInv, TypeOK
<1>1. UNCHANGED <<contractVars, callVars, started, life>>
  BY DEF AckReplies, PullReplies
<1>2. /\ BrokerTypeOK'
      /\ UNCHANGED <<oneWay, autoCreate, exists>>
      /\ held'["requestSub"] = held["requestSub"]
      /\ held'["replySub"] \cup batch' = held["replySub"] \cup batch
      /\ batch' # {} => dispatcher' \in {"acking", "delivering"}
      /\ started /\ batch' \subseteq Ids
      /\ dispatcher' \in {"looping", "acking", "delivering"}
  <2>1. CASE AckReplies
    <3>1. PICK a \in Answers(TRUE) : Acknowledge("replySub", batch, a)
      BY <2>1 DEF AckReplies
    <3>2. /\ BrokerTypeOK'
          /\ UNCHANGED <<oneWay, autoCreate, exists>>
          /\ held'["requestSub"] = held["requestSub"]
          /\ held'["replySub"] \in {held["replySub"], held["replySub"] \ batch}
      BY <3>1, Acknowledged
    <3> QED
      BY <2>1, <3>2 DEF AckReplies, OneStart, ClientTypeOK
  <2>2. ASSUME NEW b \in SUBSET held["replySub"], PullReplies(b)
        PROVE  /\ UNCHANGED brokerVars
               /\ batch = {} /\ batch' = b /\ b \subseteq Ids
               /\ b # {} => dispatcher' = "acking"
               /\ started /\ dispatcher' \in {"looping", "acking", "delivering"}
    BY <2>2 DEF PullReplies, Pull, OneStart, NothingFromNothing
  <2> QED
    BY <2>1, <2>2 DEF brokerVars, BrokerTypeOK
<1> USE <1>1, <1>2 DEF contractVars, callVars
<1>3. ClientTypeOK'
  BY DEF ClientTypeOK, ContractTypeOK
<1>4. HandIsHeld' /\ ServerTypeOK'
  BY ClientLeavesServer
<1>5. OneStart' /\ ReplySubMade' /\ CallsHaveIds'
  BY DEF OneStart, ReplySubMade, CallsHaveIds
<1> USE DEF serverVars, historyVars
<1>6. NothingFromNothing'
  <2>1. held["replySub"] \cup batch \subseteq Ids \cap executed
    BY DEF NothingFromNothing, ClientTypeOK
  <2>2. held'["replySub"] \cup batch' \subseteq Ids \cap executed
    BY <2>1
  <2> QED
    BY <2>2 DEF NothingFromNothing
<1>7. AnswersAreKept' /\ OwnAnswer' /\ NothingIsLost'
  BY DEF AnswersAreKept, OwnAnswer, NothingIsLost
<1> QED
  BY <1>3, <1>4, <1>5, <1>6, <1>7

\* A reply leaves the dispatcher's hands for the call that waits for it.
LEMMA DeliverKeepsInv ==
    ASSUME RpcInv, NEW m \in batch, Deliver(m), UNCHANGED serverVars
    PROVE  RpcInv'
<1> USE DEF RpcInv, TypeOK
<1>1. /\ dispatcher = "delivering" /\ m \in Ids /\ m \in executed
      /\ batch' = batch \ {m}
      /\ dispatcher' = IF batch' = {} THEN "looping" ELSE "delivering"
      /\ UNCHANGED <<brokerVars, callVars, started, life>>
  BY DEF Deliver, ClientTypeOK, NothingFromNothing
<1>2. /\ promise' \in [Callers -> {"unasked", "open"} \cup Outcomes]
      /\ answer' = answer
      /\ \A c \in Callers : promise'[c] = promise[c] \/
             (call[c] = m /\ promise[c] = "open" /\ promise'[c] = m)
      /\ \A c \in Callers : call[c] = m => promise'[c] # "open"
  <2>1. ASSUME NEW c \in Callers, call[c] = m, Keep(c, m)
        PROVE  <1>2!1 /\ <1>2!2 /\ <1>2!3 /\ <1>2!4
    <3>1. \A d \in Callers : call[d] = m => d = c
      BY <1>1, <2>1 DEF CallsHaveIds
    <3>2. m # "open"
      BY <1>1, ErrorsAreOthers
    <3> QED
      BY <1>1, <2>1, <3>1, <3>2, RepliesAreIds
      DEF Keep, ClientTypeOK, ContractTypeOK, Outcomes
  <2>2. ASSUME \A c \in Callers : call[c] = m => promise[c] # "open",
               UNCHANGED contractVars
        PROVE  <1>2!1 /\ <1>2!2 /\ <1>2!3 /\ <1>2!4
    BY <2>2 DEF contractVars, ClientTypeOK, ContractTypeOK
  <2> QED
    BY <2>1, <2>2 DEF Deliver
<1> USE <1>1 DEF brokerVars, callVars, serverVars, historyVars
<1>3. ClientTypeOK'
  BY <1>2 DEF ClientTypeOK, ContractTypeOK
<1>4. HandIsHeld' /\ ServerTypeOK' /\ BrokerTypeOK'
  BY ClientLeavesServer DEF BrokerTypeOK
<1>5. OneStart' /\ ReplySubMade'
  BY DEF OneStart, ReplySubMade
<1>6. CallsHaveIds'
  BY <1>2, ErrorsAreOthers DEF CallsHaveIds
<1>7. NothingFromNothing'
  BY <1>2 DEF NothingFromNothing
<1>8. AnswersAreKept' /\ OwnAnswer' /\ NothingIsLost'
  BY <1>2, ErrorsAreOthers DEF AnswersAreKept, OwnAnswer, NothingIsLost
<1> QED
  BY <1>3, <1>4, <1>5, <1>6, <1>7, <1>8

\* A failure ends the calls that wait.
LEMMA BreakKeepsInv ==
    ASSUME RpcInv, NEW e \in Errors, PullThrows(e) \/ DtorClose(e), UNCHANGED serverVars
    PROVE  RpcInv'
<1> USE DEF RpcInv, TypeOK
<1>1. /\ UNCHANGED <<brokerVars, callVars, started, batch, answer>>
      /\ life' \in {"alive", "stopping", "closed", "gone"}
      /\ \/ dispatcher = "pulling" /\ dispatcher' = "looping"
         \/ dispatcher' = dispatcher
      /\ promise' = [c \in Callers |-> IF promise[c] = "open" THEN e ELSE promise[c]]
  BY DEF PullThrows, DtorClose, Break, Pull, dispatchVars, ClientTypeOK
<1>2. e \notin Ids /\ e # "unasked" /\ e # "open" /\ e \in Outcomes
  BY ErrorsAreOthers DEF Outcomes
<1> USE <1>1 DEF brokerVars, callVars, serverVars, historyVars
<1>3. ClientTypeOK'
  BY <1>2 DEF ClientTypeOK, ContractTypeOK
<1>4. HandIsHeld' /\ ServerTypeOK' /\ BrokerTypeOK'
  BY ClientLeavesServer DEF BrokerTypeOK
<1>5. OneStart' /\ ReplySubMade'
  BY DEF OneStart, ReplySubMade
<1>6. CallsHaveIds'
  BY <1>2, ErrorsAreOthers DEF CallsHaveIds
<1>7. NothingFromNothing'
  BY <1>2 DEF NothingFromNothing
<1>8. AnswersAreKept' /\ OwnAnswer' /\ NothingIsLost'
  BY <1>2 DEF AnswersAreKept, OwnAnswer, NothingIsLost
<1> QED
  BY <1>3, <1>4, <1>5, <1>6, <1>7, <1>8

\* Every step of the client.
LEMMA ClientStep ==
    ASSUME RpcInv, ClientNext, UNCHANGED serverVars
    PROVE  RpcInv'
<1>1. CASE MovingStep
  BY <1>1, MovingKeepsInv
<1>2. ASSUME NEW c \in Callers, CallerNext(c)
      PROVE  RpcInv'
  <2>1. CASE Enter(c) \/ LockStart(c) \/ Launch(c)
    BY <2>1, MovingKeepsInv DEF MovingStep
  <2> QED
    BY <1>2, <2>1, CreateKeepsInv, RegisterKeepsInv, PublishKeepsInv, ReturnKeepsInv
    DEF CallerNext
<1>3. CASE DispatcherNext
  <2>1. CASE TestStopping \/ Poll \/ PollClosed \/ PollTimesOut
    BY <2>1, MovingKeepsInv DEF MovingStep
  <2> QED
    BY <1>3, <2>1, BatchKeepsInv, DeliverKeepsInv, BreakKeepsInv DEF DispatcherNext
<1>4. ASSUME NEW e \in Errors, DtorClose(e)
      PROVE  RpcInv'
  BY <1>4, BreakKeepsInv
<1> QED
  BY <1>1, <1>2, <1>3, <1>4 DEF ClientNext, MovingStep

\* A request leaves its subscription in one step of the model alone.
LEMMA OnlyAckRequestTakes ==
    ASSUME RpcInv, ClientNext \/ (ServerNext /\ ~AckRequest)
    PROVE  held["requestSub"] \subseteq held'["requestSub"]
<1> USE DEF RpcInv, TypeOK
<1>1. ASSUME NEW c \in Callers, CallerNext(c)
      PROVE  held["requestSub"] \subseteq held'["requestSub"]
  <2>1. CASE Create(c)
    BY <2>1 DEF Create, EnsureTopic, EnsureSubscription
  <2>2. CASE PublishCall(c)
    <3>1. PICK a \in Answers(TRUE) : Publish("requestTopic", call[c], a)
      BY <2>2 DEF PublishCall
    <3> QED
      BY <3>1 DEF Publish, BrokerTypeOK
  <2>3. CASE ~Create(c) /\ ~PublishCall(c)
    BY <1>1, <2>3 DEF CallerNext, Enter, LockStart, Launch, RegisterCall, Answered, TimesOut,
                      Unwind, brokerVars
  <2> QED
    BY <2>1, <2>2, <2>3
<1>2. CASE DispatcherNext
  <2>1. CASE AckReplies
    BY <2>1 DEF AckReplies, Acknowledge, BrokerTypeOK
  <2>2. CASE ~AckReplies
    BY <1>2, <2>2 DEF DispatcherNext, TestStopping, Poll, PollClosed, PollTimesOut,
                      PullReplies, PullThrows, Deliver, Pull, brokerVars
  <2> QED
    BY <2>1, <2>2
<1>3. CASE DtorStop \/ DtorJoin \/ \E e \in Errors : DtorClose(e)
  BY <1>3 DEF DtorStop, DtorJoin, DtorClose, brokerVars
<1>4. CASE SetUp
  BY <1>4 DEF SetUp, EnsureTopic, EnsureSubscription
<1>5. CASE Reply
  BY <1>5 DEF Reply, Publish, BrokerTypeOK
<1>6. CASE QuietServerStep \/ Process
  BY <1>6 DEF QuietServerStep, Start, StopRequest, Leave, TestSetUp, TestStop, PullNothing,
              PullRequest, Reject, RejectUnknown, Crash, Process, Pull, brokerVars
<1> QED
  BY <1>1, <1>2, <1>3, <1>4, <1>5, <1>6
  DEF ClientNext, ServerNext, HandleNext, QuietServerStep

\* The steps of neither.
LEMMA StutterKeepsInv ==
    ASSUME RpcInv, UNCHANGED vars
    PROVE  RpcInv'
<1> USE DEF RpcInv, vars, brokerVars, serverVars, historyVars, clientVars, contractVars,
            callVars, dispatchVars
<1>1. TypeOK'
  BY DEF TypeOK, BrokerTypeOK, ClientTypeOK, ContractTypeOK, ServerTypeOK
<1>2. HandIsHeld' /\ OneStart' /\ ReplySubMade' /\ CallsHaveIds'
  BY DEF HandIsHeld, OneStart, ReplySubMade, CallsHaveIds
<1>3. NothingFromNothing' /\ AnswersAreKept' /\ OwnAnswer' /\ NothingIsLost'
  BY DEF NothingFromNothing, AnswersAreKept, OwnAnswer, NothingIsLost
<1> QED
  BY <1>1, <1>2, <1>3

-----------------------------------------------------------------------------
(* The theorems                                                            *)

LEMMA RpcInit == Init => RpcInv
<1> SUFFICES ASSUME Init PROVE RpcInv
  OBVIOUS
<1> USE DEF Init, BrokerInit, ClientInit, ServerInit, ContractInit
<1>1. TypeOK
  <2>1. BrokerTypeOK
    BY DEF BrokerTypeOK
  <2>2. ClientTypeOK
    BY DEF ClientTypeOK, ContractTypeOK
  <2>3. ServerTypeOK
    BY DEF ServerTypeOK
  <2> QED
    BY <2>1, <2>2, <2>3 DEF TypeOK
<1>2. HandIsHeld /\ OneStart /\ ReplySubMade
  BY DEF HandIsHeld, OneStart, ReplySubMade, Creating
<1>3. CallsHaveIds /\ OwnAnswer
  BY StraysAreOthers DEF CallsHaveIds, OwnAnswer
<1>4. held["requestSub"] \subseteq Strays /\ held["replySub"] = {}
  OBVIOUS
<1>5. NothingFromNothing /\ AnswersAreKept /\ NothingIsLost
  BY <1>4, StraysAreOthers, ErrorsAreOthers
  DEF NothingFromNothing, AnswersAreKept, NothingIsLost
<1> QED
  BY <1>1, <1>2, <1>3, <1>5 DEF RpcInv

\* Every step keeps the invariant; PubSubPending_proofs cites it for the steps
\* that are PubSubRpc's.
LEMMA RpcStep == RpcInv /\ [Next]_vars => RpcInv'
<1> SUFFICES ASSUME RpcInv, [Next]_vars PROVE RpcInv'
  OBVIOUS
<1>1. CASE Next
  BY <1>1, ClientStep, ServerStep DEF Next
<1>2. CASE UNCHANGED vars
  BY <1>2, StutterKeepsInv
<1> QED
  BY <1>1, <1>2

\* RpcInv is inductive: for any callers, ids, strays and errors it holds in
\* every state of client, server and Pub/Sub together.
THEOREM RpcInvariant == Spec => []RpcInv
BY RpcInit, RpcStep, PTL DEF Spec

\* A call returns only the reply to its own request, which the gateway has
\* executed (PubSubClient::Call, PubSubServer's HandleMessage).
THEOREM AnswersAreOwn == Spec => []OwnAnswer
<1>1. RpcInv => OwnAnswer
  BY DEF RpcInv
<1> QED
  BY <1>1, RpcInvariant, PTL

\* Through failed acknowledgements, redelivery and crashes of the server, an
\* executed request's answer is on its way as long as its call waits
\* (PubSubClient::DispatchReplies, PubSubServer's HandleMessage).
THEOREM RpcLosesNothing == Spec => []NothingIsLost
<1>1. RpcInv => NothingIsLost
  BY DEF RpcInv
<1> QED
  BY <1>1, RpcInvariant, PTL

\* A request leaves its subscription only when it has been executed and, for
\* RPC, answered (PubSubServer's HandleMessage).
THEOREM RpcAcksAfterReply == Spec => AckedAfterReply
<1> DEFINE Acked == \A m \in held["requestSub"] \ held'["requestSub"] :
                        m \in executed /\ (oneWay \/ m \in answered)
<1>1. RpcInv /\ [Next]_vars => [Acked]_vars
  <2> SUFFICES ASSUME RpcInv, Next PROVE Acked
    OBVIOUS
  <2>1. CASE AckRequest
    <3>1. hand \in executed /\ (oneWay \/ hand \in answered)
      BY <2>1 DEF AckRequest, RpcInv, HandIsHeld
    <3>2. held'["requestSub"] \in {held["requestSub"], held["requestSub"] \ {hand}}
      BY <2>1, Acknowledged DEF AckRequest, RpcInv, TypeOK
    <3> QED
      BY <3>1, <3>2
  <2>2. CASE ClientNext
    BY <2>2, OnlyAckRequestTakes
  <2>3. CASE ServerNext /\ ~AckRequest
    BY <2>3, OnlyAckRequestTakes
  <2> QED
    BY <2>1, <2>2, <2>3 DEF Next
<1> QED
  BY <1>1, RpcInvariant, PTL DEF Spec, AckedAfterReply
=============================================================================
