------------------------------ MODULE MCBoundary ----------------------------
(***************************************************************************)
(* The parts that meet the host, its calls and the cloud, each on its own: *)
(* "part" chooses one, and the variables of the others keep their first    *)
(* values.                                                                 *)
(* The objects, documents and payloads are those of the Readmes and tests, *)
(* with what could be wrong with them.                                     *)
(***************************************************************************)
EXTENDS PubSubToken, TransportAbi, CallSpan, PluginConfig, ConfigSearch, PayloadText

VARIABLE part

-----------------------------------------------------------------------------

\* -1 is an absent key, 2 too short a name of Pub/Sub's, 252 one whose default
\* subscription is too long.
Flags == {"absent", "true", "false", "no boolean"}
Numbers == {"absent", "out of range", "no integer"}

TriedObjects ==
    [p \in {"SQS", "Pub/Sub", "RabbitMQ", "ServiceBus", "Kafka"} |->
        CASE p = "SQS" ->
                 [requestQueueUrl : {-1, 0, 9}, queueUrl : {-1, 9}, queue : {-1, 9},
                  replyQueueUrl : {-1, 9}, replyQueue : {-1, 9}, region : {-1, 0, 9},
                  accessKeyId : {-1, 9}, secretAccessKey : {-1, 9},
                  oneWay : Flags, number : Numbers]
          [] p = "Pub/Sub" ->
                 [projectId : {0, 9}, requestTopic : {-1, 2, 252}, queue : {-1, 9},
                  requestSubscription : {-1, 9}, subscription : {-1, 2},
                  replyTopic : {-1, 0, 252}, replyQueue : {-1, 9},
                  replySubscription : {-1, 9}, oneWay : Flags, number : Numbers]
          [] p = "RabbitMQ" -> [queue : {-1, 0, 9}, user : {-1, 0, 9}, number : Numbers]
          [] p = "ServiceBus" ->
                 [queue : {-1, 0, 9}, replyQueue : {-1, 9}, topic : {-1, 0, 9},
                  subscription : {-1, 9}, connectionString : {0, 9}, number : Numbers]
          [] p = "Kafka" ->
                 [requestTopic : {-1, 0, 9}, queue : {-1, 9}, replyTopic : {-1, 9},
                  replyQueue : {-1, 9}, brokers : {-1, 9}, host : {-1, 9}]]

TriedPayloads == SeqOf({0, 61, 255}, 5)

-----------------------------------------------------------------------------

AnyDocument == CHOOSE d \in Documents : TRUE
AnyPayload == CHOOSE p \in Payloads : TRUE

Parts == {"parsers", "search", "abi", "session", "coding", "spans"}

MCInit ==
    /\ part \in Parts
    /\ ConfigInit
    /\ part # "parsers" => plugin = "SQS"
    /\ IF part = "search" THEN SearchInit
       ELSE searcher = "SQS" /\ source = "json" /\ document = AnyDocument /\ found = "nothing"
    /\ AbiInit
    /\ IF part = "session" THEN Init
       ELSE /\ config = "unused" /\ now = 0 /\ token = None /\ expiry = 0
            /\ exchange = Idle /\ sent = "unused"
    /\ IF part = "coding" THEN TRUE ELSE coding = "SQS" /\ payload = AnyPayload
    /\ TextInit
    /\ SpanInit
    /\ part # "spans" => autoInject /\ own = NoHeaders

MCNext ==
    \/ /\ part = "parsers" /\ ConfigNext
       /\ UNCHANGED <<part, searchVars, abiVars, vars, textVars, spanVars>>
    \/ /\ part = "search" /\ SearchNext
       /\ UNCHANGED <<part, configVars, abiVars, vars, textVars, spanVars>>
    \/ /\ part = "abi" /\ AbiNext
       /\ UNCHANGED <<part, configVars, searchVars, vars, textVars, spanVars>>
    \/ /\ part = "session" /\ Next
       /\ UNCHANGED <<part, configVars, searchVars, abiVars, textVars, spanVars>>
    \/ /\ part = "coding" /\ TextNext
       /\ UNCHANGED <<part, configVars, searchVars, abiVars, vars, spanVars>>
    \/ /\ part = "spans" /\ SpanNext
       /\ UNCHANGED <<part, configVars, searchVars, abiVars, vars, textVars>>

MCSpec ==
    MCInit /\ [][MCNext]_<<part, configVars, searchVars, abiVars, vars, textVars, spanVars>>
=============================================================================
