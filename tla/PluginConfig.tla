---------------------------- MODULE PluginConfig ----------------------------
(***************************************************************************)
(* The parsers of a plugin's configuration: PubSubConfig.cpp and           *)
(* SqsConfig.cpp, and for each half of the other plugins one of its own in *)
(* RabbitMqClient.cpp and RabbitMqServer.cpp, ServiceBusClient.cpp and     *)
(* ServiceBusServer.cpp, TransportKafka.cpp and KafkaServer.cpp.           *)
(*                                                                         *)
(* A plugin object is a record.  A text is its length, and what is read of *)
(* it also says from which key; a text of the wrong characters fares as    *)
(* one of the wrong length.  "number" and "oneWay" stand for the integer   *)
(* and Boolean fields.  The other keys are copied and are left out.        *)
(***************************************************************************)
EXTENDS Integers

CONSTANT Objects    \* the objects tried for each plugin, Objects[plugin]

VARIABLES
    plugin,         \* whose two halves are configured
    server,         \* the configuration the server keeps, or Refused
    client,         \* that of the client made from the same object, or Refused
    times           \* how often the server has been configured, at most twice

configVars == <<plugin, server, client, times>>

Absent == -1
Default == [from |-> "the default", size |-> 14]
Nothing == [from |-> "nothing", size |-> 0]

Refused == [accepted |-> FALSE]

-----------------------------------------------------------------------------
(* Reading one key: a value that is no string leaves the target alone, and *)
(* so counts as absent.                                                    *)

Read(node, key, target) ==
    IF node[key] = Absent THEN target ELSE [from |-> key, size |-> node[key]]

Empty(text) == text.size = 0

\* The older names of SQS and Pub/Sub, read when the newer left nothing.
ReadIfEmpty(node, key, target) == IF Empty(target) THEN Read(node, key, target) ELSE target

\* Those of Kafka, read when the newer name is not there.
ReadOrElse(node, key, alias, target) ==
    IF node[key] # Absent THEN Read(node, key, target) ELSE Read(node, alias, target)

\* A number that is out of range, or none at all.
BadNumber(node) == node.number \in {"out of range", "no integer"}
BadFlag(node) == node.oneWay = "no boolean"

-----------------------------------------------------------------------------
(* SQS                                                                     *)

ParseSqsConfigSource(node) ==
    LET url == ReadIfEmpty(node, "queueUrl", Read(node, "requestQueueUrl", Nothing))
    IN  IF \/ BadNumber(node) \/ BadFlag(node)
           \/ node.region = 0
           \/ (node.accessKeyId > 0) # (node.secretAccessKey > 0)
        THEN Refused
        ELSE [accepted |-> TRUE,
              request |-> ReadIfEmpty(node, "queue", url),
              reply |-> ReadIfEmpty(node, "replyQueue", Read(node, "replyQueueUrl", Nothing)),
              oneWay |-> node.oneWay = "true"]

SqsServer(node) ==
    LET config == ParseSqsConfigSource(node)
    IN  IF config.accepted /\ ~Empty(config.request) THEN config ELSE Refused

SqsClient(node) ==
    LET config == ParseSqsConfigSource(node)
    IN  IF config.accepted /\ ~Empty(config.request) /\ (config.oneWay \/ ~Empty(config.reply))
        THEN config ELSE Refused

-----------------------------------------------------------------------------
(* Pub/Sub: the limits of a resource's name, and subscriptions named after *)
(* their topics.                                                           *)

IsValidResourceId(text) == text.size \in 3 .. 255
IsValidProjectId(size) == size \in 1 .. 128

\* "-sub" is appended to the topic.
DefaultSubscription(subscription, topic) ==
    IF Empty(subscription) /\ ~Empty(topic)
    THEN [from |-> topic.from, size |-> topic.size + 4] ELSE subscription

ParsePubSubConfigSource(node) ==
    LET request == ReadIfEmpty(node, "queue", Read(node, "requestTopic", Nothing))
        reply == ReadIfEmpty(node, "replyQueue", Read(node, "replyTopic", Nothing))
    IN  IF BadNumber(node) \/ BadFlag(node)
        THEN Refused
        ELSE [accepted |-> TRUE, request |-> request, reply |-> reply,
              requestSubscription |-> DefaultSubscription(
                  ReadIfEmpty(node, "subscription", Read(node, "requestSubscription", Nothing)),
                  request),
              replySubscription |-> DefaultSubscription(
                  Read(node, "replySubscription", Nothing), reply),
              projectId |-> node.projectId,
              oneWay |-> node.oneWay = "true"]

ValidateServerConfig(config) ==
    /\ IsValidProjectId(config.projectId)
    /\ IsValidResourceId(config.request)
    /\ IsValidResourceId(config.requestSubscription)

ValidateClientConfig(config) ==
    /\ IsValidProjectId(config.projectId)
    /\ IsValidResourceId(config.request)
    /\ \/ config.oneWay
       \/ /\ IsValidResourceId(config.reply)
          /\ IsValidResourceId(config.replySubscription)

PubSubServer(node) ==
    LET config == ParsePubSubConfigSource(node)
    IN  IF config.accepted /\ ValidateServerConfig(config) THEN config ELSE Refused

PubSubClient(node) ==
    LET config == ParsePubSubConfigSource(node)
    IN  IF config.accepted /\ ValidateClientConfig(config) THEN config ELSE Refused

-----------------------------------------------------------------------------
(* RabbitMQ: the server refuses what the client passes over.               *)

RabbitMqServer(node) ==
    IF node.number = "out of range" \/ node.queue < 1 \/ node.user < 1
    THEN Refused
    ELSE [accepted |-> TRUE, request |-> Read(node, "queue", Nothing)]

RabbitMqClient(node) == [accepted |-> TRUE, request |-> Read(node, "queue", Nothing)]

-----------------------------------------------------------------------------
(* Service Bus: a subscription makes the server one-way, a topic the       *)
(* client.  "connectionString" is the whole of what they connect with.     *)

ServiceBusServer(node) ==
    LET oneWay == node.subscription > 0
        key == IF oneWay THEN "topic" ELSE "queue"
    IN  IF node.number = "out of range" \/ node[key] < 1 \/ node.connectionString < 1
        THEN Refused
        ELSE [accepted |-> TRUE, request |-> Read(node, key, Nothing), oneWay |-> oneWay]

ApplyServiceBusConfig(node) ==
    [accepted |-> TRUE,
     request |-> Read(node, IF node.topic > 0 THEN "topic" ELSE "queue", Nothing),
     oneWay |-> node.topic > 0]

ServiceBusClient(node) ==
    IF \/ node.connectionString < 1
       \/ node.topic < 1 /\ (node.queue < 1 \/ node.replyQueue < 1)
    THEN Refused
    ELSE ApplyServiceBusConfig(node)

-----------------------------------------------------------------------------
(* Kafka: nothing is refused, and configure assigns over what an earlier   *)
(* configure has left in the server.                                       *)

KafkaClient(node) ==
    [accepted |-> TRUE,
     request |-> ReadOrElse(node, "requestTopic", "queue", Default),
     reply |-> ReadOrElse(node, "replyTopic", "replyQueue", Default),
     brokers |-> ReadOrElse(node, "brokers", "host", Default)]

\* Mistake: the server was not taught the older names.
KafkaServerOnlyNewNames(node, before) ==
    [accepted |-> TRUE,
     request |-> Read(node, "requestTopic", before.request),
     reply |-> Read(node, "replyTopic", before.reply),
     brokers |-> Read(node, "brokers", before.brokers)]

KafkaServer(node, before) ==
    [accepted |-> TRUE,
     request |-> ReadOrElse(node, "requestTopic", "queue", before.request),
     reply |-> ReadOrElse(node, "replyTopic", "replyQueue", before.reply),
     brokers |-> ReadOrElse(node, "brokers", "host", before.brokers)]

FreshKafkaServer == [request |-> Default, reply |-> Default, brokers |-> Default]

-----------------------------------------------------------------------------

ServerOf(node) ==
    CASE plugin = "SQS" -> SqsServer(node)
      [] plugin = "Pub/Sub" -> PubSubServer(node)
      [] plugin = "RabbitMQ" -> RabbitMqServer(node)
      [] plugin = "ServiceBus" -> ServiceBusServer(node)
      [] plugin = "Kafka" ->
             KafkaServer(node, IF server.accepted THEN server ELSE FreshKafkaServer)

ClientOf(node) ==
    CASE plugin = "SQS" -> SqsClient(node)
      [] plugin = "Pub/Sub" -> PubSubClient(node)
      [] plugin = "RabbitMQ" -> RabbitMqClient(node)
      [] plugin = "ServiceBus" -> ServiceBusClient(node)
      [] plugin = "Kafka" -> KafkaClient(node)

ConfigInit ==
    /\ plugin \in {"SQS", "Pub/Sub", "RabbitMQ", "ServiceBus", "Kafka"}
    /\ server = Refused
    /\ client = Refused
    /\ times = 0

\* The server keeps what it has when it refuses an object.
Configure(node) ==
    /\ times < 2
    /\ times' = times + 1
    /\ server' = IF ServerOf(node).accepted THEN ServerOf(node) ELSE server
    /\ client' = IF ServerOf(node).accepted THEN ClientOf(node) ELSE Refused
    /\ UNCHANGED plugin

ConfigNext == \E node \in Objects[plugin] : Configure(node)

ConfigSpec == ConfigInit /\ [][ConfigNext]_configVars

-----------------------------------------------------------------------------

\* The two halves of a plugin, given the same object, meet: whatever both read
\* (the request and reply queues or topics, the brokers, the mode) comes from the
\* same key.  It compares Kafka's parsers and Service Bus's; SQS and Pub/Sub read
\* both halves with one, RabbitMQ's share one key.  Left out are a Service Bus
\* object with a topic and no subscription, of which the halves make different
\* modes, and a Kafka server that is configured again.
HalvesMeet ==
    LET bothOneWay == "oneWay" \in DOMAIN server => client.oneWay = server.oneWay
    IN  server.accepted /\ client.accepted =>
            \/ plugin = "Kafka" /\ times = 2
            \/ plugin = "ServiceBus" /\ ~bothOneWay
            \/ \A field \in DOMAIN server \cap DOMAIN client : client[field] = server[field]
=============================================================================
