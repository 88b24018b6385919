---------------------------- MODULE ConfigSearch ----------------------------
(***************************************************************************)
(* A client may be given a document with the objects of several plugins.   *)
(* FindSqsNode, FindPubSubNode, FindRabbitMqNode and FindServiceBusNode    *)
(* search it, depth first and in the order of the keys, for an object that *)
(* looks like their own.  The document here is the sequence of the plugin  *)
(* objects met in that order: what encloses them (configurations, the      *)
(* package, "plugin") has none of the keys the searches look for.          *)
(***************************************************************************)
EXTENDS Naturals

CONSTANT MaxObjects \* the bound on the objects of a document

VARIABLES
    searcher,       \* the plugin whose client searches
    source,         \* what the text it is given turns out to be
    document,       \* the document it holds
    found           \* the owner of the object found, or how the search failed

searchVars == <<searcher, source, document, found>>

\* The objects of the Readmes and tests: whose it is, the key that announces it
\* or "", the keys it has.
Object(owner, wrapper, keys) == [owner |-> owner, wrapper |-> wrapper, keys |-> keys]

SqsAlias == Object("SQS", "", {"name", "region", "queue", "replyQueue"})
SqsUrls == Object("SQS", "", {"name", "requestQueueUrl", "replyQueueUrl", "rpcTimeoutMs"})
SqsWrapped == Object("SQS", "SQS", {"queue", "replyQueue"})
PubSubTopics == Object("Pub/Sub", "", {"name", "projectId", "requestTopic", "replyTopic"})
PubSubAlias == Object("Pub/Sub", "", {"name", "queue", "replyQueue"})
RabbitMqFull ==
    Object("RabbitMQ", "", {"name", "host", "port", "queue", "user", "password", "vhost"})
RabbitMqDefault == Object("RabbitMQ", "", {"name", "type", "host", "port"})
BusQueue == Object("ServiceBus", "", {"name", "connectionString", "queue", "replyQueue"})
BusTopic == Object("ServiceBus", "", {"name", "connectionString", "topic"})
KafkaTopics == Object("Kafka", "", {"name", "brokers", "requestTopic", "replyTopic", "groupId"})
KafkaAlias == Object("Kafka", "", {"name", "host", "queue", "replyQueue", "rpcTimeoutMs"})

Catalogue ==
    {SqsAlias, SqsUrls, SqsWrapped, PubSubTopics, PubSubAlias, RabbitMqFull,
     RabbitMqDefault, BusQueue, BusTopic, KafkaTopics, KafkaAlias}

Documents == UNION {[1 .. n -> Catalogue] : n \in 1 .. MaxObjects}

\* Kafka's client reads its own object and does not search.
Searchers == {"SQS", "Pub/Sub", "RabbitMQ", "ServiceBus"}

\* A text is a document, names the file that holds one, or neither.
Sources == {"json", "path", "neither", "empty"}

-----------------------------------------------------------------------------

HasAny(object, keys) == object.keys \cap keys # {}

HasSpecificSqsKeys(object) ==
    HasAny(object, {"requestQueueUrl", "replyQueueUrl", "queueUrl", "endpointOverride",
                    "accessKeyId", "secretAccessKey", "visibilityTimeoutSeconds",
                    "waitTimeSeconds", "messageGroupId"})

\* A plugin's name contains its own kind and no other.
NameLooksLike(object, kind) == HasAny(object, {"name"}) /\ object.owner = kind

\* Mistake: a queue is enough.
IsAnyQueue(object) == HasAny(object, {"queue", "replyQueue"})

\* RabbitMQ and Service Bus also have a queue.
IsFlatSqsAlias(object) ==
    /\ HasAny(object, {"queue", "replyQueue"})
    /\ \/ HasAny(object, {"region", "endpointOverride", "accessKeyId", "messageGroupId"})
       \/ NameLooksLike(object, "SQS")

HasSpecificPubSubKeys(object) ==
    HasAny(object, {"projectId", "requestTopic", "requestSubscription", "replySubscription",
                    "emulatorHost", "credentialsFile", "accessToken", "ackDeadlineSeconds"})

IsFlatPubSubAlias(object) ==
    /\ HasAny(object, {"queue", "replyQueue", "requestTopic", "replyTopic", "projectId"})
    /\ HasSpecificPubSubKeys(object) \/ NameLooksLike(object, "Pub/Sub")

LooksLikeRabbitMq(object) ==
    \/ HasAny(object, {"queue", "user", "password", "vhost", "rpcTimeoutMs"})
    \/ {"host", "port", "type"} \subseteq object.keys

LooksLikeServiceBus(object) ==
    HasAny(object, {"connectionString", "queue", "replyQueue", "sharedAccessKeyName",
                    "sharedAccessKey"})

Claims(object) ==
    \/ object.wrapper = searcher
    \/ searcher = "SQS" /\ (HasSpecificSqsKeys(object) \/ IsFlatSqsAlias(object))
    \/ searcher = "Pub/Sub" /\ (HasSpecificPubSubKeys(object) \/ IsFlatPubSubAlias(object))
    \/ searcher = "RabbitMQ" /\ LooksLikeRabbitMq(object)
    \/ searcher = "ServiceBus" /\ LooksLikeServiceBus(object)

FirstClaimed(i) ==
    Claims(document[i]) /\ \A j \in DOMAIN document : j < i => ~Claims(document[j])

-----------------------------------------------------------------------------

SearchInit ==
    /\ searcher \in Searchers
    /\ source \in Sources
    /\ document \in Documents
    /\ found = "nothing"

\* SQS and Pub/Sub refuse what they cannot read; RabbitMQ and Service Bus go on
\* with what they have.
FailureOf == IF searcher \in {"SQS", "Pub/Sub"} THEN "refused" ELSE "ignored"

ParseFails ==
    /\ found = "nothing"
    /\ source \in {"neither", "empty"}
    /\ found' = FailureOf
    /\ UNCHANGED <<searcher, source, document>>

Search ==
    /\ found = "nothing"
    /\ source \in {"json", "path"}
    /\ \/ \E i \in DOMAIN document : FirstClaimed(i) /\ found' = document[i].owner
       \/ (\A i \in DOMAIN document : ~Claims(document[i])) /\ found' = FailureOf
    /\ UNCHANGED <<searcher, source, document>>

SearchNext == ParseFails \/ Search

SearchSpec == SearchInit /\ [][SearchNext]_searchVars

-----------------------------------------------------------------------------

\* ReadsNestedAliasAheadOfForeignQueue and RejectsForeignQueueConfig, tests of
\* SQS and of Pub/Sub: a client configures itself with its own plugin's object
\* wherever the document has it, never with another's, and fails without one.
\* Pub/Sub also takes a Kafka object with a requestTopic when that comes first;
\* RabbitMQ and Service Bus take any object that has a queue, and are left out.
OwnObjectIsFound ==
    LET owners == {document[i].owner : i \in DOMAIN document}
        searched == source \in {"json", "path"} /\ found # "nothing"
    IN  searcher \in {"SQS", "Pub/Sub"} /\ searched =>
           \/ found = IF searcher \in owners THEN searcher ELSE "refused"
           \/ searcher = "Pub/Sub" /\ found = "Kafka"
=============================================================================
