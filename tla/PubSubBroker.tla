---------------------------- MODULE PubSubBroker ----------------------------
(***************************************************************************)
(* Google Pub/Sub as a PubSubSession sees it (pubsub/PubSubPlugin/         *)
(* PubSubUtil.cpp): REST requests that may fail after they took effect,    *)
(* topics and subscriptions made on demand, and subscriptions that hold a  *)
(* message until it is acknowledged.  A message published to a topic       *)
(* before its subscription exists is lost.                                 *)
(***************************************************************************)
EXTENDS Naturals, FiniteSets

CONSTANTS Ids,     \* correlation ids; a call's request and its reply go by its id
          Strays   \* requests of other programs: no correlation id, or no reply topic

ASSUME StraysAreOthers == Ids \cap Strays = {} /\ "none" \notin Ids \cup Strays

VARIABLES
    oneWay,      \* config_.oneWay, the same on both sides
    autoCreate,  \* config_.autoCreate
    exists,      \* the topics and subscriptions that exist
    held         \* the unacknowledged messages of each subscription

brokerVars == <<oneWay, autoCreate, exists, held>>

Messages == Ids \cup Strays

SubscriptionOf == [requestTopic |-> "requestSub", replyTopic |-> "replySub"]
TopicOf == [requestSub |-> "requestTopic", replySub |-> "replyTopic"]
Resources == DOMAIN SubscriptionOf \cup DOMAIN TopicOf

BrokerTypeOK ==
    /\ oneWay \in BOOLEAN
    /\ autoCreate \in BOOLEAN
    /\ exists \subseteq Resources
    /\ held \in [DOMAIN TopicOf -> SUBSET Messages]

\* Without autoCreate an administrator has made the resources ahead of time,
\* and other programs have used them.
BrokerInit ==
    /\ oneWay \in BOOLEAN
    /\ autoCreate \in BOOLEAN
    /\ exists = IF autoCreate THEN {} ELSE Resources
    /\ held = [requestSub |-> IF autoCreate THEN {} ELSE Strays, replySub |-> {}]

\* What ThrowIfHttpFailed makes of an answer: 2xx; no answer in time; no
\* connection, 429 or 5xx; 404; any other 4xx, or no credentials.
Statuses == {"ok", "timedOut", "unavailable", "missing", "refused"}

\* The ways a request about something that is there, or not, may end.  One
\* that was not answered, or answered 5xx, may have taken effect.
Answers(found) ==
    {a \in [status : Statuses, took : BOOLEAN] :
        /\ a.status = "ok" => a.took
        /\ a.took => found /\ a.status \in {"ok", "timedOut", "unavailable"}}

\* 409 and ALREADY_EXISTS count as "ok".
EnsureTopic(t, a) ==
    /\ a \in Answers(TRUE)
    /\ exists' = IF a.took THEN exists \cup {t} ELSE exists
    /\ UNCHANGED <<oneWay, autoCreate, held>>

EnsureSubscription(s, a) ==
    /\ a \in Answers(TopicOf[s] \in exists)
    /\ exists' = IF a.took THEN exists \cup {s} ELSE exists
    /\ UNCHANGED <<oneWay, autoCreate, held>>

Publish(t, m, a) ==
    /\ a \in Answers(t \in exists)
    /\ held' = IF a.took /\ SubscriptionOf[t] \in exists
               THEN [held EXCEPT ![SubscriptionOf[t]] = @ \cup {m}]
               ELSE held
    /\ UNCHANGED <<oneWay, autoCreate, exists>>

\* returnImmediately: any of the messages, or none.  A pull that times out
\* returns no messages; one that fails otherwise throws.
Pull(s, batch, a) ==
    /\ a \in Answers(s \in exists)
    /\ batch \subseteq held[s]
    /\ batch # {} => a.status = "ok"
    /\ UNCHANGED brokerVars

Acknowledge(s, batch, a) ==
    /\ a \in Answers(s \in exists)
    /\ held' = IF a.took THEN [held EXCEPT ![s] = @ \ batch] ELSE held
    /\ UNCHANGED <<oneWay, autoCreate, exists>>
=============================================================================
