------------------------------ MODULE SqsClient ------------------------------
(***************************************************************************)
(* SqsClient (sqs/SqsPlugin/SqsClient.cpp): many threads make calls; the   *)
(* first RPC starts the one dispatcher thread, which polls the reply queue *)
(* while the correlator has a pending call.  The correlator is             *)
(* PendingReplies.                                                         *)
(*                                                                         *)
(* SQS and the gateway are external: a request may be answered any number  *)
(* of times or never, a reply stays in the queue until it is deleted, and  *)
(* every operation may fail.                                               *)
(***************************************************************************)
EXTENDS PendingReplies, Naturals

VARIABLES
    at,          \* where each caller is in Call
    body,        \* the request of the caller's current call
    started,     \* started_
    spawned,     \* how many threads have been assigned to dispatcher_
    dispatcher,  \* where the dispatcher is in DispatchReplies
    batch,       \* the received replies it has not handled yet
    taken,       \* the reply it has deleted and not delivered yet
    oneWay,      \* config_.oneWay
    wire,        \* the requests sent so far
    replies,     \* the replies in the reply queue
    spent,       \* the correlation ids built so far, with their requests
    life         \* how far ~SqsClient has got

callVars == <<at, body>>
dispatchVars == <<started, spawned, dispatcher, batch, taken>>
queueVars == <<oneWay, wire, replies, spent>>
clientVars == <<callVars, dispatchVars, queueVars, life>>
vars == <<pendingVars, clientVars>>

Message == [id : Ids, body : Payloads]

TypeOK ==
    /\ PendingTypeOK
    /\ at \in [Callers -> {"idle", "starting", "spawning", "publishing", "ensured",
                           "registered", "sent", "unwinding"}]
    /\ body \in [Callers -> Payloads \cup {"none"}]
    /\ started \in BOOLEAN
    /\ spawned \in Nat
    /\ dispatcher \in {"none", "looping", "polling", "receiving", "backoff",
                       "dispatching", "delivering", "exited"}
    /\ batch \subseteq Message
    /\ taken \subseteq Message
    /\ oneWay \in BOOLEAN
    /\ wire \subseteq Message
    /\ replies \subseteq Message
    /\ spent \subseteq Ids \X Payloads
    /\ life \in {"alive", "stopping", "closed", "gone"}

Init ==
    /\ PendingInit
    /\ at = [c \in Callers |-> "idle"]
    /\ body = [c \in Callers |-> "none"]
    /\ started = FALSE
    /\ spawned = 0
    /\ dispatcher = "none"
    /\ batch = {}
    /\ taken = {}
    /\ oneWay \in BOOLEAN
    /\ wire = {}
    /\ replies = {}
    /\ spent = {}
    /\ life = "alive"

GoTo(c, place) == at' = [at EXCEPT ![c] = place]

\* The dispatcher exists and has not left its loop.
DispatcherAlive == dispatcher \notin {"none", "exited"}

-----------------------------------------------------------------------------
(* EnsureDispatcher: started_ is tested without and then with startMutex_. *)

Enter(c) ==
    /\ life = "alive"
    /\ ~oneWay
    /\ at[c] = "idle"
    /\ GoTo(c, IF started THEN "ensured" ELSE "starting")
    /\ UNCHANGED <<pendingVars, body, dispatchVars, queueVars, life>>

StartMutexFree == \A c \in Callers : at[c] \notin {"spawning", "publishing"}

\* Mistake: no second test of started_.
LockStartBlind(c) ==
    /\ at[c] = "starting"
    /\ StartMutexFree
    /\ GoTo(c, "spawning")
    /\ UNCHANGED <<pendingVars, body, dispatchVars, queueVars, life>>

LockStart(c) ==
    /\ at[c] = "starting"
    /\ StartMutexFree
    /\ GoTo(c, IF started THEN "ensured" ELSE "spawning")
    /\ UNCHANGED <<pendingVars, body, dispatchVars, queueVars, life>>

SpawnDispatcher(c) ==
    /\ at[c] = "spawning"
    /\ spawned' = spawned + 1
    /\ dispatcher' = "looping"
    /\ GoTo(c, "publishing")
    /\ UNCHANGED <<pendingVars, body, started, batch, taken, queueVars, life>>

StoreStarted(c) ==
    /\ at[c] = "publishing"
    /\ started' = TRUE
    /\ GoTo(c, "ensured")
    /\ UNCHANGED <<pendingVars, body, spawned, dispatcher, batch, taken, queueVars, life>>

-----------------------------------------------------------------------------
(* The rest of Call.                                                       *)

FreshIds == {i \in Ids : \A s \in spent : s[1] # i}
FreshBodies == {p \in Payloads : \A s \in spent : s[2] # p}

\* Mistake: an id may be built twice, once its first call has left the map.
RegisterCallAgain(c, i, p) ==
    /\ at[c] = "ensured"
    /\ p \in FreshBodies
    /\ spent' = spent \cup {<<i, p>>}
    /\ Register(c, i)
    /\ body' = [body EXCEPT ![c] = p]
    /\ GoTo(c, "registered")
    /\ UNCHANGED <<dispatchVars, oneWay, wire, replies, life>>

RegisterCall(c, i, p) ==
    /\ at[c] = "ensured"
    /\ i \in FreshIds
    /\ p \in FreshBodies
    /\ spent' = spent \cup {<<i, p>>}
    /\ Register(c, i)
    /\ body' = [body EXCEPT ![c] = p]
    /\ GoTo(c, "registered")
    /\ UNCHANGED <<dispatchVars, oneWay, wire, replies, life>>

NotifyRegistered(c) ==
    /\ RegisterNotify(c)
    /\ UNCHANGED clientVars

Send(c) ==
    /\ at[c] = "registered"
    /\ ticket[c] = "held"
    /\ wire' = wire \cup {[id |-> tid[c], body |-> body[c]]}
    /\ GoTo(c, "sent")
    /\ UNCHANGED <<pendingVars, body, dispatchVars, oneWay, replies, spent, life>>

\* The payload does not encode, or SendMessage reports a failure: the request
\* may be in the queue all the same.
SendThrows(c) ==
    /\ at[c] = "registered"
    /\ ticket[c] = "held"
    /\ wire' \in {wire, wire \cup {[id |-> tid[c], body |-> body[c]]}}
    /\ GoTo(c, "unwinding")
    /\ UNCHANGED <<pendingVars, body, dispatchVars, oneWay, replies, spent, life>>

\* A one-way call has neither ticket nor dispatcher.
SendOneWay(i, p) ==
    /\ life = "alive"
    /\ oneWay
    /\ i \in FreshIds
    /\ p \in FreshBodies
    /\ spent' = spent \cup {<<i, p>>}
    /\ wire' \in {wire, wire \cup {[id |-> i, body |-> p]}}
    /\ UNCHANGED <<pendingVars, callVars, dispatchVars, oneWay, replies, life>>

Block(c) ==
    /\ at[c] = "sent"
    /\ WaitSleeps(c)
    /\ UNCHANGED clientVars

Answered(c) ==
    /\ at[c] = "sent"
    /\ WaitReturns(c)
    /\ GoTo(c, "unwinding")
    /\ UNCHANGED <<body, dispatchVars, queueVars, life>>

TimesOut(c) ==
    /\ at[c] = "sent"
    /\ WaitTimer(c)
    /\ GoTo(c, "unwinding")
    /\ UNCHANGED <<body, dispatchVars, queueVars, life>>

Unwind(c) ==
    /\ at[c] = "unwinding"
    /\ Remove(c)
    /\ body' = [body EXCEPT ![c] = "none"]
    /\ GoTo(c, "idle")
    /\ UNCHANGED <<dispatchVars, queueVars, life>>

-----------------------------------------------------------------------------
(* DispatchReplies.                                                        *)

\* stopping_ is set before the correlator is closed.
TestStopping ==
    /\ dispatcher = "looping"
    /\ dispatcher' = IF life = "alive" THEN "polling" ELSE "exited"
    /\ UNCHANGED <<pendingVars, callVars, started, spawned, batch, taken, queueVars, life>>

\* Where WaitForPending's answer leads: receive, go round, or still asleep.
AfterPoll ==
    dispatcher' = CASE poller' = "work" -> "receiving"
                    [] poller' = "idle" -> "looping"
                    [] OTHER -> "polling"

Poll ==
    /\ dispatcher = "polling"
    /\ WaitForPending
    /\ AfterPoll
    /\ UNCHANGED <<callVars, started, spawned, batch, taken, queueVars, life>>

PollTimesOut ==
    /\ dispatcher = "polling"
    /\ PollTimer
    /\ AfterPoll
    /\ UNCHANGED <<callVars, started, spawned, batch, taken, queueVars, life>>

\* ReceiveMessage returns some of the replies, or none.
Receive(S) ==
    /\ dispatcher = "receiving"
    /\ batch' = S
    /\ dispatcher' = IF S = {} THEN "looping" ELSE "dispatching"
    /\ UNCHANGED <<pendingVars, callVars, started, spawned, taken, queueVars, life>>

\* One failed receive fails every pending call; then the thread sleeps.
ReceiveFails(e) ==
    /\ dispatcher = "receiving"
    /\ FailAll(e)
    /\ dispatcher' = "backoff"
    /\ UNCHANGED <<callVars, started, spawned, batch, taken, queueVars, life>>

BackoffEnds ==
    /\ dispatcher = "backoff"
    /\ dispatcher' = "looping"
    /\ UNCHANGED <<pendingVars, callVars, started, spawned, batch, taken, queueVars, life>>

\* Each reply is deleted before it is delivered, awaited or not.
DeleteReply(m) ==
    /\ dispatcher = "dispatching"
    /\ replies' = replies \ {m}
    /\ batch' = batch \ {m}
    /\ taken' = {m}
    /\ dispatcher' = "delivering"
    /\ UNCHANGED <<pendingVars, callVars, started, spawned, oneWay, wire, spent, life>>

NextInBatch == dispatcher' = IF batch' = {} THEN "looping" ELSE "dispatching"

\* A reply that cannot be deleted fails its call and comes back later.
DeleteReplyFails(m, e) ==
    /\ dispatcher = "dispatching"
    /\ Fail(m.id, e)
    /\ batch' = batch \ {m}
    /\ NextInBatch
    /\ UNCHANGED <<callVars, started, spawned, taken, queueVars, life>>

Deliver(m) ==
    /\ dispatcher = "delivering"
    /\ Complete(m.id, m.body)
    /\ taken' = {}
    /\ UNCHANGED batch
    /\ NextInBatch
    /\ UNCHANGED <<callVars, started, spawned, queueVars, life>>

\* DecodePayload throws.
DeliverGarbled(m, e) ==
    /\ dispatcher = "delivering"
    /\ Fail(m.id, e)
    /\ taken' = {}
    /\ UNCHANGED batch
    /\ NextInBatch
    /\ UNCHANGED <<callVars, started, spawned, queueVars, life>>

GatewayReplies(m) ==
    /\ ~oneWay
    /\ m \in wire
    /\ replies' = replies \cup {m}
    /\ UNCHANGED <<pendingVars, callVars, dispatchVars, oneWay, wire, spent, life>>

-----------------------------------------------------------------------------
(* ~SqsClient; its owner has no call in progress any more.                 *)

DtorStop ==
    /\ life = "alive"
    /\ \A c \in Callers : at[c] = "idle"
    /\ life' = "stopping"
    /\ UNCHANGED <<pendingVars, callVars, dispatchVars, queueVars>>

DtorClose(e) ==
    /\ life = "stopping"
    /\ Close(e)
    /\ life' = "closed"
    /\ UNCHANGED <<callVars, dispatchVars, queueVars>>

DtorNotify ==
    /\ CloseNotify
    /\ UNCHANGED clientVars

DtorJoin ==
    /\ life = "closed"
    /\ ~closing
    /\ ~DispatcherAlive
    /\ life' = "gone"
    /\ UNCHANGED <<pendingVars, callVars, dispatchVars, queueVars>>

-----------------------------------------------------------------------------

CallerNext(c) ==
    \/ Enter(c) \/ LockStart(c) \/ SpawnDispatcher(c) \/ StoreStarted(c)
    \/ NotifyRegistered(c) \/ Send(c) \/ SendThrows(c)
    \/ Block(c) \/ Answered(c) \/ TimesOut(c) \/ Unwind(c)
    \/ \E i \in Ids, p \in Payloads : RegisterCall(c, i, p)

DispatcherNext ==
    \/ TestStopping \/ Poll \/ PollTimesOut \/ BackoffEnds
    \/ \E S \in SUBSET replies : Receive(S)
    \/ \E m \in batch : DeleteReply(m)
    \/ \E m \in taken : Deliver(m)
    \/ \E e \in Errors :
           \/ ReceiveFails(e)
           \/ \E m \in batch : DeleteReplyFails(m, e)
           \/ \E m \in taken : DeliverGarbled(m, e)

Next ==
    \/ \E c \in Callers : CallerNext(c)
    \/ \E i \in Ids, p \in Payloads : SendOneWay(i, p)
    \/ DispatcherNext
    \/ \E m \in wire : GatewayReplies(m)
    \/ DtorStop \/ DtorNotify \/ DtorJoin
    \/ \E e \in Errors : DtorClose(e)

Spec == Init /\ [][Next]_vars

\* Threads run and SQS answers the dispatcher; no timer of the client fires.
\* Long polling reaches every reply of the queue sooner or later (the SF).
PromptFairness ==
    /\ \A c \in Callers :
           WF_vars(NotifyRegistered(c)) /\ WF_vars(Answered(c))
    /\ WF_vars(DtorNotify)
    /\ WF_vars(TestStopping)
    /\ WF_vars(Poll /\ dispatcher' # "polling")
    /\ WF_vars(BackoffEnds)
    /\ WF_vars(\E S \in SUBSET replies : Receive(S))
    /\ SF_vars(Receive(replies))
    /\ WF_vars(\E m \in batch : DeleteReply(m))
    /\ WF_vars(\E m \in taken : Deliver(m))

PromptSpecification == Spec /\ PromptFairness

-----------------------------------------------------------------------------
(* Properties                                                              *)

\* However many callers find started_ unset, dispatcher_ is assigned once:
\* assigning to a running std::thread would end the process.
OneDispatcher == spawned <= 1

\* A caller that sees started_ has a dispatcher, and the destructor stops it
\* only when no call is pending: a registered call is always polled for.
CallsArePolledFor ==
    (\E c \in Callers : ticket[c] # "none") => DispatcherAlive

\* What racing first calls and the destructor may not break.
DispatcherServesCalls == OneDispatcher /\ CallsArePolledFor

\* A call gets only the reply to its own request, though replies to earlier
\* calls, and second replies, reach the same queue at any time.
OwnReply ==
    \A c \in Callers :
        ticket[c] = "settled" /\ result[c] \in Payloads => result[c] = body[c]

\* A reply in the queue ends the call that waits for it, with its body or an
\* error, even if neither rpcTimeoutMs nor the 200 ms of WaitForPending ever
\* expires: Register's notification is enough to start the polling.
ReplyEndsCall ==
    \A c \in Callers :
        (at[c] = "sent" /\ \E m \in replies : m.id = tid[c]) ~> (at[c] # "sent")

\* Once closed the dispatcher leaves WaitForPending without its timer, and
\* ~SqsClient joins it.
ShutdownIsPrompt == (life = "closed") ~> (dispatcher \in {"none", "exited"})
=============================================================================
