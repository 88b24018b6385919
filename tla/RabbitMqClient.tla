--------------------------- MODULE RabbitMqClient ---------------------------
(***************************************************************************)
(* RabbitMqRpcClient (rabbitmq/RabbitmqPlugin/RabbitMqClient.cpp): many    *)
(* threads make calls through one shared Link, an AMQP connection with an  *)
(* exclusive reply queue and an I/O thread.  A link that breaks is         *)
(* replaced by the next call.  The correlator is PendingReplies, whose     *)
(* actions appear here as the steps of the threads that take them.         *)
(*                                                                         *)
(* The broker and the gateway are external: a published request may be     *)
(* answered any number of times or never, and the reply queue of a link is *)
(* deleted with its connection.                                            *)
(***************************************************************************)
EXTENDS PendingReplies

CONSTANTS Links,   \* the Link objects a client may create: bounds reconnects
          NoLink   \* a null shared_ptr

ASSUME RabbitMqAssumption == NoLink \notin Links

VARIABLES
    at,        \* where each caller is in Call
    holds,     \* the Link a caller uses, builds, or destroys
    body,      \* the request of the caller's current call
    link,      \* link_
    io,        \* each link's I/O thread
    ready,     \* consumerReady_
    broken,    \* broken_
    stopping,  \* stopping_
    wire,      \* the requests published so far
    replies,   \* the replies in the links' reply queues
    spent,     \* the correlation ids built so far, with their requests
    life       \* how far ~RabbitMqRpcClient has got

linkVars == <<link, io, ready, broken, stopping>>
brokerVars == <<wire, replies, spent>>
callVars == <<at, holds, body>>
clientVars == <<callVars, linkVars, brokerVars, life>>
vars == <<pendingVars, clientVars>>

Message == [id : Ids, body : Payloads, link : Links]

\* The places of Call that lie inside CurrentLink's critical section.
UnderLinkMutex == {"locked", "joining", "connecting", "building", "aborting"}

TypeOK ==
    /\ PendingTypeOK
    /\ at \in [Callers -> UnderLinkMutex \cup
           {"idle", "linked", "registered", "published", "unwinding", "releasing", "closing"}]
    /\ holds \in [Callers -> Links \cup {NoLink}]
    /\ body \in [Callers -> Payloads \cup {"none"}]
    /\ link \in Links \cup {NoLink}
    /\ io \in [Links -> {"none", "starting", "running", "failing", "exited"}]
    /\ ready \in [Links -> BOOLEAN]
    /\ broken \in [Links -> BOOLEAN]
    /\ stopping \in [Links -> BOOLEAN]
    /\ wire \subseteq Message
    /\ replies \subseteq Message
    /\ spent \subseteq Ids \X Payloads
    /\ life \in {"alive", "closed", "joining", "gone"}

Init ==
    /\ PendingInit
    /\ at = [c \in Callers |-> "idle"]
    /\ holds = [c \in Callers |-> NoLink]
    /\ body = [c \in Callers |-> "none"]
    /\ link = NoLink
    /\ io = [l \in Links |-> "none"]
    /\ ready = [l \in Links |-> FALSE]
    /\ broken = [l \in Links |-> FALSE]
    /\ stopping = [l \in Links |-> FALSE]
    /\ wire = {}
    /\ replies = {}
    /\ spent = {}
    /\ life = "alive"

\* linkMutex_ has no holder.
LinkMutexFree == \A c \in Callers : at[c] \notin UnderLinkMutex

\* The shared_ptr c is about to drop is the last one to l.
LastRef(c, l) == link # l /\ \A d \in Callers \ {c} : holds[d] # l

GoTo(c, place) == at' = [at EXCEPT ![c] = place]

Holding(c, l) == holds' = [holds EXCEPT ![c] = l]

-----------------------------------------------------------------------------
(* CurrentLink: under linkMutex_, replace a broken link or create one.     *)

LockLink(c) ==
    /\ life = "alive"
    /\ at[c] = "idle"
    /\ LinkMutexFree
    /\ GoTo(c, "locked")
    /\ UNCHANGED <<pendingVars, holds, body, linkVars, brokerVars, life>>

ReuseLink(c) ==
    /\ at[c] = "locked"
    /\ link # NoLink
    /\ ~broken[link]
    /\ Holding(c, link)
    /\ GoTo(c, "linked")
    /\ UNCHANGED <<pendingVars, body, linkVars, brokerVars, life>>

\* link_.reset(): the last owner runs ~Link, which joins the I/O thread.
ResetLink(c) ==
    /\ at[c] = "locked"
    /\ link # NoLink => broken[link]
    /\ link' = NoLink
    /\ IF link # NoLink /\ \A d \in Callers : holds[d] # link
       THEN /\ stopping' = [stopping EXCEPT ![link] = TRUE]
            /\ Holding(c, link)
            /\ GoTo(c, "joining")
       ELSE /\ GoTo(c, "connecting")
            /\ UNCHANGED <<holds, stopping>>
    /\ UNCHANGED <<pendingVars, body, io, ready, broken, brokerVars, life>>

JoinReplaced(c) ==
    /\ at[c] = "joining"
    /\ io[holds[c]] = "exited"
    /\ Holding(c, NoLink)
    /\ GoTo(c, "connecting")
    /\ UNCHANGED <<pendingVars, body, linkVars, brokerVars, life>>

\* The Link constructor connects, or throws before it has an I/O thread.
ConnectThrows(c) ==
    /\ at[c] = "connecting"
    /\ GoTo(c, "idle")
    /\ UNCHANGED <<pendingVars, holds, body, linkVars, brokerVars, life>>

Connect(c, l) ==
    /\ at[c] = "connecting"
    /\ io[l] = "none"
    /\ io' = [io EXCEPT ![l] = "starting"]
    /\ Holding(c, l)
    /\ GoTo(c, "building")
    /\ UNCHANGED <<pendingVars, body, link, ready, broken, stopping, brokerVars, life>>

\* It waits for consumerReady_ or broken_, at most ConnectionReadyTimeout.
LinkReady(c) ==
    /\ at[c] = "building"
    /\ ready[holds[c]]
    /\ link' = holds[c]
    /\ GoTo(c, "linked")
    /\ UNCHANGED <<pendingVars, holds, body, io, ready, broken, stopping, brokerVars, life>>

\* Mistake: ~Link joins the I/O thread without setting stopping_.
LinkNotReadyUnstopped(c) ==
    /\ at[c] = "building"
    /\ ~ready[holds[c]]
    /\ GoTo(c, "aborting")
    /\ UNCHANGED <<pendingVars, holds, body, linkVars, brokerVars, life>>

LinkNotReady(c) ==
    /\ at[c] = "building"
    /\ ~ready[holds[c]]
    /\ stopping' = [stopping EXCEPT ![holds[c]] = TRUE]
    /\ GoTo(c, "aborting")
    /\ UNCHANGED <<pendingVars, holds, body, link, io, ready, broken, brokerVars, life>>

JoinAborted(c) ==
    /\ at[c] = "aborting"
    /\ io[holds[c]] = "exited"
    /\ Holding(c, NoLink)
    /\ GoTo(c, "idle")
    /\ UNCHANGED <<pendingVars, body, linkVars, brokerVars, life>>

-----------------------------------------------------------------------------
(* The rest of Call: build an id, Register, Publish, Wait, unwind.         *)

FreshIds == {i \in Ids : \A s \in spent : s[1] # i}
FreshBodies == {p \in Payloads : \A s \in spent : s[2] # p}

\* Mistake: an id may be built twice, once its first call has left the map.
RegisterCallAgain(c, i, p) ==
    /\ at[c] = "linked"
    /\ p \in FreshBodies
    /\ spent' = spent \cup {<<i, p>>}
    /\ Register(c, i)
    /\ body' = [body EXCEPT ![c] = p]
    /\ GoTo(c, "registered")
    /\ UNCHANGED <<holds, linkVars, wire, replies, life>>

RegisterCall(c, i, p) ==
    /\ at[c] = "linked"
    /\ i \in FreshIds
    /\ p \in FreshBodies
    /\ spent' = spent \cup {<<i, p>>}
    /\ Register(c, i)
    /\ body' = [body EXCEPT ![c] = p]
    /\ GoTo(c, "registered")
    /\ UNCHANGED <<holds, linkVars, wire, replies, life>>

NotifyRegistered(c) ==
    /\ RegisterNotify(c)
    /\ UNCHANGED clientVars

\* Mistake: Publish trusts the test CurrentLink made.
PublishUnchecked(c) ==
    /\ at[c] = "registered"
    /\ ticket[c] = "held"
    /\ wire' = wire \cup {[id |-> tid[c], body |-> body[c], link |-> holds[c]]}
    /\ GoTo(c, "published")
    /\ UNCHANGED <<pendingVars, holds, body, linkVars, replies, spent, life>>

\* Publish looks at broken_ again, under amqpMutex_ and after Register.
Publish(c) ==
    /\ at[c] = "registered"
    /\ ticket[c] = "held"
    /\ ~broken[holds[c]]
    /\ wire' = wire \cup {[id |-> tid[c], body |-> body[c], link |-> holds[c]]}
    /\ GoTo(c, "published")
    /\ UNCHANGED <<pendingVars, holds, body, linkVars, replies, spent, life>>

\* The link is broken, or channel_->publish refuses.
PublishThrows(c) ==
    /\ at[c] = "registered"
    /\ ticket[c] = "held"
    /\ GoTo(c, "unwinding")
    /\ UNCHANGED <<pendingVars, holds, body, linkVars, brokerVars, life>>

\* Wait blocks, returns or throws what the slot holds, or times out.
Block(c) ==
    /\ at[c] = "published"
    /\ WaitSleeps(c)
    /\ UNCHANGED clientVars

Answered(c) ==
    /\ at[c] = "published"
    /\ WaitReturns(c)
    /\ GoTo(c, "unwinding")
    /\ UNCHANGED <<holds, body, linkVars, brokerVars, life>>

TimesOut(c) ==
    /\ at[c] = "published"
    /\ WaitTimer(c)
    /\ GoTo(c, "unwinding")
    /\ UNCHANGED <<holds, body, linkVars, brokerVars, life>>

\* ~Ticket runs before the caller's shared_ptr<Link> is dropped.
Unwind(c) ==
    /\ at[c] = "unwinding"
    /\ Remove(c)
    /\ body' = [body EXCEPT ![c] = "none"]
    /\ GoTo(c, "releasing")
    /\ UNCHANGED <<holds, linkVars, brokerVars, life>>

ReleaseLink(c) ==
    /\ at[c] = "releasing"
    /\ IF LastRef(c, holds[c])
       THEN /\ stopping' = [stopping EXCEPT ![holds[c]] = TRUE]
            /\ GoTo(c, "closing")
            /\ UNCHANGED holds
       ELSE /\ Holding(c, NoLink)
            /\ GoTo(c, "idle")
            /\ UNCHANGED stopping
    /\ UNCHANGED <<pendingVars, body, link, io, ready, broken, brokerVars, life>>

JoinReleased(c) ==
    /\ at[c] = "closing"
    /\ io[holds[c]] = "exited"
    /\ Holding(c, NoLink)
    /\ GoTo(c, "idle")
    /\ UNCHANGED <<pendingVars, body, linkVars, brokerVars, life>>

-----------------------------------------------------------------------------
(* The I/O thread of a link: Run, onReceived and Disconnect.               *)

IoAlive(l) == io[l] \in {"starting", "running"}

ConsumerReady(l) ==
    /\ io[l] = "starting"
    /\ io' = [io EXCEPT ![l] = "running"]
    /\ ready' = [ready EXCEPT ![l] = TRUE]
    /\ UNCHANGED <<pendingVars, callVars, link, broken, stopping, brokerVars, life>>

\* onReceived acks every reply, then completes the call that waits for it; a
\* reply without a correlation id is as good as none.
OnReceived(l, m) ==
    /\ io[l] = "running"
    /\ m \in replies
    /\ m.link = l
    /\ replies' = replies \ {m}
    /\ Complete(m.id, m.body)
    /\ UNCHANGED <<callVars, linkVars, wire, spent, life>>

\* Disconnect stores broken_ first; the exclusive reply queue is gone.
Disconnect(l) ==
    /\ IoAlive(l)
    /\ io' = [io EXCEPT ![l] = "failing"]
    /\ broken' = [broken EXCEPT ![l] = TRUE]
    /\ replies' = {m \in replies : m.link # l}
    /\ UNCHANGED <<pendingVars, callVars, link, ready, stopping, wire, spent, life>>

\* Mistake: Disconnect leaves the pending calls to their timeouts.
DisconnectQuietly(l, e) ==
    /\ io[l] = "failing"
    /\ io' = [io EXCEPT ![l] = "exited"]
    /\ UNCHANGED <<pendingVars, callVars, link, ready, broken, stopping, brokerVars, life>>

\* ... and then fails every pending call of the client.
DisconnectFailAll(l, e) ==
    /\ io[l] = "failing"
    /\ FailAll(e)
    /\ io' = [io EXCEPT ![l] = "exited"]
    /\ UNCHANGED <<callVars, link, ready, broken, stopping, brokerVars, life>>

IoStops(l) ==
    /\ IoAlive(l)
    /\ stopping[l]
    /\ io' = [io EXCEPT ![l] = "exited"]
    /\ replies' = {m \in replies : m.link # l}
    /\ UNCHANGED <<pendingVars, callVars, link, ready, broken, stopping, wire, spent, life>>

\* The gateway answers a published request, perhaps again, on its own link's
\* reply queue, which exists as long as the connection does.
GatewayReplies(m) ==
    /\ m \in wire
    /\ IoAlive(m.link)
    /\ replies' = replies \cup {m}
    /\ UNCHANGED <<pendingVars, callVars, linkVars, wire, spent, life>>

-----------------------------------------------------------------------------
(* ~RabbitMqRpcClient; its owner has no call in progress any more.         *)

DtorClose(e) ==
    /\ life = "alive"
    /\ \A c \in Callers : at[c] = "idle"
    /\ Close(e)
    /\ life' = "closed"
    /\ UNCHANGED <<callVars, linkVars, brokerVars>>

DtorNotify ==
    /\ CloseNotify
    /\ UNCHANGED clientVars

DtorReset ==
    /\ life = "closed"
    /\ ~closing
    /\ IF link = NoLink
       THEN life' = "gone" /\ UNCHANGED stopping
       ELSE life' = "joining" /\ stopping' = [stopping EXCEPT ![link] = TRUE]
    /\ UNCHANGED <<pendingVars, callVars, link, io, ready, broken, brokerVars>>

DtorJoin ==
    /\ life = "joining"
    /\ io[link] = "exited"
    /\ link' = NoLink
    /\ life' = "gone"
    /\ UNCHANGED <<pendingVars, callVars, io, ready, broken, stopping, brokerVars>>

-----------------------------------------------------------------------------

CallerNext(c) ==
    \/ LockLink(c) \/ ReuseLink(c) \/ ResetLink(c) \/ JoinReplaced(c)
    \/ ConnectThrows(c) \/ LinkReady(c) \/ LinkNotReady(c) \/ JoinAborted(c)
    \/ NotifyRegistered(c) \/ Publish(c) \/ PublishThrows(c)
    \/ Block(c) \/ Answered(c) \/ TimesOut(c)
    \/ Unwind(c) \/ ReleaseLink(c) \/ JoinReleased(c)
    \/ \E l \in Links : Connect(c, l)
    \/ \E i \in Ids, p \in Payloads : RegisterCall(c, i, p)

IoNext(l) ==
    \/ ConsumerReady(l) \/ Disconnect(l) \/ IoStops(l)
    \/ \E m \in replies : OnReceived(l, m)
    \/ \E e \in Errors : DisconnectFailAll(l, e)

Next ==
    \/ \E c \in Callers : CallerNext(c)
    \/ \E l \in Links : IoNext(l)
    \/ \E m \in wire : GatewayReplies(m)
    \/ \E e \in Errors : DtorClose(e)
    \/ DtorNotify \/ DtorReset \/ DtorJoin

Spec == Init /\ [][Next]_vars

\* Threads run, but the broker and the network owe nothing and no timer fires.
PromptFairness ==
    /\ \A c \in Callers :
           WF_vars(NotifyRegistered(c)) /\ WF_vars(Answered(c))
    /\ \A l \in Links : WF_vars(\E e \in Errors : DisconnectFailAll(l, e))

PromptSpecification == Spec /\ PromptFairness

\* The timers fire: the 5 s of the constructor (LinkNotReady), the rpcTimeoutMs
\* of Wait, the 200 ms of the socket poll after which Run looks at stopping_.
\* linkMutex_ may be handed out unfairly.
TimerFairness ==
    /\ \A c \in Callers :
           /\ WF_vars(ReuseLink(c) \/ ResetLink(c))
           /\ WF_vars(JoinReplaced(c) \/ JoinAborted(c) \/ JoinReleased(c))
           /\ WF_vars(ConnectThrows(c) \/ \E l \in Links : Connect(c, l))
           /\ WF_vars(LinkReady(c) \/ LinkNotReady(c))
           /\ WF_vars(\E i \in Ids, p \in Payloads : RegisterCall(c, i, p))
           /\ WF_vars(Publish(c) \/ PublishThrows(c))
           /\ WF_vars(Block(c) \/ TimesOut(c))
           /\ WF_vars(Unwind(c)) /\ WF_vars(ReleaseLink(c))
    /\ \A l \in Links : WF_vars(IoStops(l))

-----------------------------------------------------------------------------
(* Properties                                                              *)

\* Disconnect stores broken_ before FailAll, and Publish tests broken_ after
\* Register: whichever comes first, an unanswered published call is never left
\* on a link whose I/O thread has gone, waiting only for its timeout.
NoOrphanedCall ==
    \A c \in Callers :
        at[c] = "published" /\ outcome[c] = "open" => io[holds[c]] # "exited"

\* The I/O thread of a link uses the client's pending_; it never outlives the
\* last shared_ptr to its Link, whoever drops it, nor the client.
LinksAreOwned ==
    \A l \in Links :
        io[l] \in {"starting", "running", "failing"} =>
            /\ link = l \/ \E c \in Callers : holds[c] = l
            /\ life # "gone"

\* Both at once: whatever waits for a link has one that is read, and whatever
\* reads a link is waited for.
LinksServeTheirCalls == NoOrphanedCall /\ LinksAreOwned

\* A call that returns a reply returns the reply to its own request, however
\* late or often the gateway answers the earlier ones.
OwnReply ==
    \A c \in Callers :
        ticket[c] = "settled" /\ result[c] \in Payloads => result[c] = body[c]

\* rabbitmq/Readme.md:13: a client that receives a reply with a different
\* correlation id rejects it and requeues it.
RequeuesForeignReply ==
    [][\A m \in replies :
           m \notin replies' /\ ~broken'[m.link] /\ ~stopping'[m.link]
               => slots[m.id] # NoCaller]_vars

\* A call published on a link that breaks is failed by the break, or answered,
\* without waiting for its timeout.
LostLinkFailsCalls ==
    \A c \in Callers :
        (at[c] = "published" /\ broken[holds[c]]) ~> (at[c] # "published")

\* If the timers fire, a call that has linkMutex_ returns: neither the reconnect, nor the join
\* of the old I/O thread, nor the wait for a reply blocks it for ever.  (The
\* model, not the code, runs out of ids.)
CallReturns == TimerFairness =>
    \A c \in Callers :
        (at[c] # "idle") ~> (at[c] = "idle" \/ (at[c] = "linked" /\ FreshIds = {}))
=============================================================================
