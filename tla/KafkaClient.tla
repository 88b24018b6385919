----------------------------- MODULE KafkaClient -----------------------------
(***************************************************************************)
(* KafkaClient (kafka/KafkaPlugin/KafkaClient.cpp): the first call makes a *)
(* producer, a consumer of the reply topic and the dispatcher thread, in   *)
(* steps that may throw and be run again; the dispatcher serves delivery   *)
(* reports and replies.  The correlator is PendingReplies; nothing waits   *)
(* in its WaitForPending here.                                             *)
(*                                                                         *)
(* librdkafka, the broker and the gateway are external.  Every message     *)
(* handed to the producer gets one delivery report, which may say that it  *)
(* failed although the broker has it.  A request may be answered any       *)
(* number of times or never.                                               *)
(***************************************************************************)
EXTENDS PendingReplies

VARIABLES
    at,          \* where each caller is in call and ensureStarted
    body,        \* the request of the caller's current call
    started,     \* started_
    outbox,      \* the requests in producer_'s queue
    reports,     \* its delivery reports that no poll has served yet
    tags,        \* the ids whose deliveryTag is allocated
    assigned,    \* the broker has given consumer_ the reply topic's partitions
    dispatcher,  \* where the dispatcher is in dispatchReplies
    wire,        \* the requests in the request topic
    replies,     \* the messages of the reply topic consumer_ has yet to read
    spent,       \* the correlation ids made so far, with their requests
    life         \* how far ~KafkaClient has got

callVars == <<at, body>>
producerVars == <<outbox, reports, tags>>
topicVars == <<assigned, wire, replies>>
clientVars == <<callVars, started, producerVars, topicVars, dispatcher, spent, life>>
vars == <<pendingVars, clientVars>>

Message == [id : Ids, body : Payloads]

\* A reply to another client: each client's group reads the whole reply topic.
Foreign == [id |-> NoId, body |-> "none"]

Report == [id : Ids, failed : BOOLEAN]

\* Inside ensureStarted's critical section, in the order of the code.
StartPlaces == {"makingProducer", "makingConsumer", "warming", "spawning"}

TypeOK ==
    /\ PendingTypeOK
    /\ at \in [Callers -> StartPlaces \cup
                   {"idle", "starting", "ensured", "registered", "sent", "unwinding"}]
    /\ body \in [Callers -> Payloads \cup {"none"}]
    /\ started \in BOOLEAN
    /\ outbox \subseteq Message
    /\ reports \subseteq Report
    /\ tags \subseteq Ids
    /\ assigned \in BOOLEAN
    /\ dispatcher \in {"none", "looping", "polling", "consuming", "exited"}
    /\ wire \subseteq Message
    /\ replies \subseteq Message \cup {Foreign}
    /\ spent \subseteq Ids \X Payloads
    /\ life \in {"alive", "stopping", "joined", "closed", "gone"}

Init ==
    /\ PendingInit
    /\ at = [c \in Callers |-> "idle"]
    /\ body = [c \in Callers |-> "none"]
    /\ started = FALSE
    /\ outbox = {}
    /\ reports = {}
    /\ tags = {}
    /\ assigned = FALSE
    /\ dispatcher = "none"
    /\ wire = {}
    /\ replies = {}
    /\ spent = {}
    /\ life = "alive"

GoTo(c, place) == at' = [at EXCEPT ![c] = place]

-----------------------------------------------------------------------------
(* ensureStarted: started_ is tested without and then with startMutex_.    *)

Enter(c) ==
    /\ life = "alive"
    /\ at[c] = "idle"
    /\ GoTo(c, IF started THEN "ensured" ELSE "starting")
    /\ UNCHANGED <<pendingVars, body, started, producerVars, topicVars, dispatcher, spent, life>>

StartMutexFree == \A c \in Callers : at[c] \notin StartPlaces

\* Mistake: no second test of started_.
LockStartBlind(c) ==
    /\ at[c] = "starting"
    /\ StartMutexFree
    /\ GoTo(c, "makingProducer")
    /\ UNCHANGED <<pendingVars, body, started, producerVars, topicVars, dispatcher, spent, life>>

LockStart(c) ==
    /\ at[c] = "starting"
    /\ StartMutexFree
    /\ GoTo(c, IF started THEN "ensured" ELSE "makingProducer")
    /\ UNCHANGED <<pendingVars, body, started, producerVars, topicVars, dispatcher, spent, life>>

\* A configuration value, the producer, the consumer or subscribe() fails; what
\* was stored before stays, and the next call runs ensureStarted again.
StartThrows(c) ==
    /\ at[c] \in {"makingProducer", "makingConsumer"}
    /\ GoTo(c, "idle")
    /\ UNCHANGED <<pendingVars, body, started, producerVars, topicVars, dispatcher, spent, life>>

\* producer_.reset destroys the producer of an attempt that threw, with
\* whatever is in it.
MakeProducer(c) ==
    /\ at[c] = "makingProducer"
    /\ outbox' = {}
    /\ reports' = {}
    /\ GoTo(c, "makingConsumer")
    /\ UNCHANGED <<pendingVars, body, started, tags, topicVars, dispatcher, spent, life>>

\* A new member of the group has no partitions yet, and auto.offset.reset is
\* latest.
MakeConsumer(c) ==
    /\ at[c] = "makingConsumer"
    /\ assigned' = FALSE
    /\ replies' = {}
    /\ GoTo(c, "warming")
    /\ UNCHANGED <<pendingVars, body, started, producerVars, wire, dispatcher, spent, life>>

\* The warm-up ends at its deadline, or with the first message, which is lost.
WarmUpEnds(c) ==
    /\ at[c] = "warming"
    /\ replies' \in {replies} \cup {replies \ {m} : m \in replies}
    /\ GoTo(c, "spawning")
    /\ UNCHANGED <<pendingVars, body, started, producerVars, assigned, wire, dispatcher, spent, life>>

SpawnDispatcher(c) ==
    /\ at[c] = "spawning"
    /\ dispatcher' = "looping"
    /\ started' = TRUE
    /\ GoTo(c, "ensured")
    /\ UNCHANGED <<pendingVars, body, producerVars, topicVars, spent, life>>

-----------------------------------------------------------------------------
(* The rest of call.                                                       *)

FreshIds == {i \in Ids : \A s \in spent : s[1] # i}
FreshBodies == {p \in Payloads : \A s \in spent : s[2] # p}

\* Mistake: an id may be made twice, once its first call has left the map.
RegisterCallAgain(c, i, p) ==
    /\ at[c] = "ensured"
    /\ p \in FreshBodies
    /\ spent' = spent \cup {<<i, p>>}
    /\ Register(c, i)
    /\ body' = [body EXCEPT ![c] = p]
    /\ GoTo(c, "registered")
    /\ UNCHANGED <<started, producerVars, topicVars, dispatcher, life>>

RegisterCall(c, i, p) ==
    /\ at[c] = "ensured"
    /\ i \in FreshIds
    /\ p \in FreshBodies
    /\ spent' = spent \cup {<<i, p>>}
    /\ Register(c, i)
    /\ body' = [body EXCEPT ![c] = p]
    /\ GoTo(c, "registered")
    /\ UNCHANGED <<started, producerVars, topicVars, dispatcher, life>>

NotifyRegistered(c) ==
    /\ RegisterNotify(c)
    /\ UNCHANGED clientVars

\* From here the producer owns the tag.
Produce(c) ==
    /\ at[c] = "registered"
    /\ ticket[c] = "held"
    /\ outbox' = outbox \cup {[id |-> tid[c], body |-> body[c]]}
    /\ tags' = tags \cup {tid[c]}
    /\ GoTo(c, "sent")
    /\ UNCHANGED <<pendingVars, body, started, reports, topicVars, dispatcher, spent, life>>

\* The queue is full or the request too large: the call frees its tag.
ProduceThrows(c) ==
    /\ at[c] = "registered"
    /\ ticket[c] = "held"
    /\ GoTo(c, "unwinding")
    /\ UNCHANGED <<pendingVars, body, started, producerVars, topicVars, dispatcher, spent, life>>

Block(c) ==
    /\ at[c] = "sent"
    /\ WaitSleeps(c)
    /\ UNCHANGED clientVars

Answered(c) ==
    /\ at[c] = "sent"
    /\ WaitReturns(c)
    /\ GoTo(c, "unwinding")
    /\ UNCHANGED <<body, started, producerVars, topicVars, dispatcher, spent, life>>

TimesOut(c) ==
    /\ at[c] = "sent"
    /\ WaitTimer(c)
    /\ GoTo(c, "unwinding")
    /\ UNCHANGED <<body, started, producerVars, topicVars, dispatcher, spent, life>>

Unwind(c) ==
    /\ at[c] = "unwinding"
    /\ Remove(c)
    /\ body' = [body EXCEPT ![c] = "none"]
    /\ GoTo(c, "idle")
    /\ UNCHANGED <<started, producerVars, topicVars, dispatcher, spent, life>>

-----------------------------------------------------------------------------
(* librdkafka's threads, the broker and the gateway.                       *)

Delivered(m) ==
    /\ outbox' = outbox \ {m}
    /\ wire' = wire \cup {m}
    /\ reports' = reports \cup {[id |-> m.id, failed |-> FALSE]}
    /\ UNCHANGED <<pendingVars, callVars, started, tags, assigned, replies, dispatcher, spent, life>>

\* message.timeout.ms has passed, or the broker refuses the message.
DeliveryFails(m) ==
    /\ outbox' = outbox \ {m}
    /\ wire' \in {wire, wire \cup {m}}
    /\ reports' = reports \cup {[id |-> m.id, failed |-> TRUE]}
    /\ UNCHANGED <<pendingVars, callVars, started, tags, assigned, replies, dispatcher, spent, life>>

BrokerAssigns ==
    /\ ~assigned
    /\ (\E c \in Callers : at[c] = "warming") \/ dispatcher \in {"polling", "consuming"}
    /\ assigned' = TRUE
    /\ UNCHANGED <<pendingVars, callVars, started, producerVars, wire, replies, dispatcher, spent, life>>

\* A message published before the assignment is before "latest".
GatewayReplies(m) ==
    /\ assigned
    /\ replies' = replies \cup {m}
    /\ UNCHANGED <<pendingVars, callVars, started, producerVars, assigned, wire, dispatcher, spent, life>>

-----------------------------------------------------------------------------
(* dispatchReplies.                                                        *)

TestStopping ==
    /\ dispatcher = "looping"
    /\ dispatcher' = IF life = "alive" THEN "polling" ELSE "exited"
    /\ UNCHANGED <<pendingVars, callVars, started, producerVars, topicVars, spent, life>>

\* dr_cb takes over the tag and frees it; a failed message fails its call.
ReportServed(r, e) ==
    /\ IF r.failed THEN Fail(r.id, e) ELSE UNCHANGED pendingVars
    /\ reports' = reports \ {r}
    /\ tags' = tags \ {r.id}

\* Mistake: a failed delivery is not told to the call.
ServeReportSilently(r, e) ==
    /\ dispatcher = "polling"
    /\ reports' = reports \ {r}
    /\ tags' = tags \ {r.id}
    /\ UNCHANGED <<pendingVars, callVars, started, outbox, topicVars, dispatcher, spent, life>>

ServeReport(r, e) ==
    /\ dispatcher = "polling"
    /\ ReportServed(r, e)
    /\ UNCHANGED <<callVars, started, outbox, topicVars, dispatcher, spent, life>>

\* poll(0) serves every report there is.
PollEnds ==
    /\ dispatcher = "polling"
    /\ reports = {}
    /\ dispatcher' = "consuming"
    /\ UNCHANGED <<pendingVars, callVars, started, producerVars, topicVars, spent, life>>

ConsumeNothing ==
    /\ dispatcher = "consuming"
    /\ dispatcher' = "looping"
    /\ UNCHANGED <<pendingVars, callVars, started, producerVars, topicVars, spent, life>>

\* A foreign reply, or one nobody waits for any more, changes nothing.
Consume(m) ==
    /\ dispatcher = "consuming"
    /\ IF m = Foreign THEN UNCHANGED pendingVars ELSE Complete(m.id, m.body)
    /\ replies' = replies \ {m}
    /\ dispatcher' = "looping"
    /\ UNCHANGED <<callVars, started, producerVars, assigned, wire, spent, life>>

-----------------------------------------------------------------------------
(* ~KafkaClient; its owner has no call in progress any more.               *)

DtorStop ==
    /\ life = "alive"
    /\ \A c \in Callers : at[c] = "idle"
    /\ life' = "stopping"
    /\ UNCHANGED <<pendingVars, callVars, started, producerVars, topicVars, dispatcher, spent>>

DtorJoin ==
    /\ life = "stopping"
    /\ dispatcher \in {"none", "exited"}
    /\ life' = "joined"
    /\ UNCHANGED <<pendingVars, callVars, started, producerVars, topicVars, dispatcher, spent>>

DtorClose(e) ==
    /\ life = "joined"
    /\ Close(e)
    /\ life' = "closed"
    /\ UNCHANGED <<callVars, started, producerVars, topicVars, dispatcher, spent>>

DtorNotify ==
    /\ CloseNotify
    /\ UNCHANGED clientVars

\* drainProducer: flush, and then poll until the producer is empty.
DtorServes(r, e) ==
    /\ life = "closed"
    /\ ~closing
    /\ ReportServed(r, e)
    /\ UNCHANGED <<callVars, started, outbox, topicVars, dispatcher, spent, life>>

DtorDestroys ==
    /\ life = "closed"
    /\ ~closing
    /\ outbox = {} /\ reports = {}
    /\ replies' = {}
    /\ assigned' = FALSE
    /\ life' = "gone"
    /\ UNCHANGED <<pendingVars, callVars, started, producerVars, wire, dispatcher, spent>>

-----------------------------------------------------------------------------

CallerNext(c) ==
    \/ Enter(c) \/ LockStart(c) \/ StartThrows(c) \/ MakeProducer(c) \/ MakeConsumer(c)
    \/ WarmUpEnds(c) \/ SpawnDispatcher(c)
    \/ NotifyRegistered(c) \/ Produce(c) \/ ProduceThrows(c)
    \/ Block(c) \/ Answered(c) \/ TimesOut(c) \/ Unwind(c)
    \/ \E i \in Ids, p \in Payloads : RegisterCall(c, i, p)

DispatcherNext ==
    \/ TestStopping \/ PollEnds \/ ConsumeNothing
    \/ \E r \in reports, e \in Errors : ServeReport(r, e)
    \/ \E m \in replies : Consume(m)

BrokerNext ==
    \/ BrokerAssigns
    \/ \E m \in outbox : Delivered(m) \/ DeliveryFails(m)
    \/ \E m \in wire \cup {Foreign} : GatewayReplies(m)

DtorNext ==
    \/ DtorStop \/ DtorJoin \/ DtorNotify \/ DtorDestroys
    \/ \E e \in Errors : DtorClose(e) \/ \E r \in reports : DtorServes(r, e)

Next ==
    \/ \E c \in Callers : CallerNext(c)
    \/ DispatcherNext
    \/ BrokerNext
    \/ DtorNext

Spec == Init /\ [][Next]_vars

\* Threads run, and librdkafka reports each message within message.timeout.ms;
\* the timer of Wait never fires.  The consumer's fetch reaches every message
\* of the topic sooner or later (the SF).
PromptFairness ==
    /\ \A c \in Callers :
           WF_vars(NotifyRegistered(c)) /\ WF_vars(Answered(c))
    /\ WF_vars(TestStopping)
    /\ WF_vars(PollEnds)
    /\ WF_vars(ConsumeNothing)
    /\ WF_vars(\E r \in reports, e \in Errors : ServeReport(r, e))
    /\ \A c \in Callers : SF_vars(\E m \in replies : m.id = tid[c] /\ Consume(m))
    /\ WF_vars(\E m \in outbox : Delivered(m) \/ DeliveryFails(m))
    /\ WF_vars(DtorJoin) /\ WF_vars(DtorNotify) /\ WF_vars(DtorDestroys)
    /\ WF_vars(\E e \in Errors : DtorClose(e))
    /\ WF_vars(\E r \in reports, e \in Errors : DtorServes(r, e))

PromptSpecification == Spec /\ PromptFairness

-----------------------------------------------------------------------------
(* Properties                                                              *)

\* Readme.md of the plugin: the client keeps only its correlation id.  A call
\* gets the reply to its own request, though replies to others, to earlier
\* calls and second replies reach the same consumer.
OwnReply ==
    \A c \in Callers :
        ticket[c] = "settled" /\ result[c] \in Payloads => result[c] = body[c]

\* Each deliveryTag in the heap belongs to one message of producer_, whose
\* report frees it: no producer is replaced by a second ensureStarted, or
\* destroyed, with messages in it.
TagsHaveOwner ==
    tags = {m.id : m \in outbox} \cup {r.id : r \in reports}

\* A reply in the topic, or a failed delivery, ends the call without
\* rpcTimeoutMs.
OutcomeEndsCall ==
    \A c \in Callers :
        /\ at[c] = "sent"
        /\ \/ \E m \in replies : m.id = tid[c]
           \/ [id |-> tid[c], failed |-> TRUE] \in reports
        ~> at[c] # "sent"

\* ~KafkaClient joins the dispatcher before it closes the correlator and polls
\* until the producer is empty: it returns all the same.
DtorReturns == (life = "stopping") ~> (life = "gone")

\* Neither a call that has its outcome nor the destructor waits for anything
\* but what is sure to come.
NothingHangs == OutcomeEndsCall /\ DtorReturns

\* KafkaClient.cpp:146-147: the consumer gets its assignment before a request
\* is produced, so that no reply is published too early.
AssignedBeforeProduce ==
    \A c \in Callers : at[c] = "sent" => assigned
=============================================================================
