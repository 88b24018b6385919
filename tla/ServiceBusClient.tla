-------------------------- MODULE ServiceBusClient --------------------------
(***************************************************************************)
(* ServiceBusRpcClient (servicebus/ServiceBusPlugin/ServiceBusClient.cpp): *)
(* calls share a Link with a request sender and, unless the client is      *)
(* one-way, a receiver on the client's reply session and a dispatcher      *)
(* thread.  The reply session belongs to the client and outlives its       *)
(* links, so a later link can receive the reply to an earlier one's        *)
(* request.                                                                *)
(*                                                                         *)
(* The broker and the gateway are external.  Opening a link may fail at    *)
(* any time (so may a receiver whose session is still locked), and a send  *)
(* may fail or succeed whatever became of the link's receiver.             *)
(***************************************************************************)
EXTENDS PendingReplies

CONSTANTS Links,    \* the Link objects a client may create: bounds reconnects
          NoLink    \* a null shared_ptr

ASSUME ServiceBusAssumption == NoLink \notin Links

VARIABLES
    oneWay,      \* config_.topic is set: requests have no reply
    at,          \* where each caller is in Call
    holds,       \* the Link a caller uses or destroys
    body,        \* the request of the caller's current call
    link,        \* link_
    dispatcher,  \* each link's dispatcher_ thread
    broken,      \* broken_
    stopping,    \* stopping_
    wire,        \* the requests sent so far
    replies,     \* the replies in the client's reply session
    spent,       \* the correlation ids built so far, with their requests
    life         \* how far ~ServiceBusRpcClient has got

linkVars == <<link, dispatcher, broken, stopping>>
brokerVars == <<wire, replies, spent, oneWay>>
callVars == <<at, holds, body>>
clientVars == <<callVars, linkVars, brokerVars, life>>
vars == <<pendingVars, clientVars>>

Message == [id : Ids, body : Payloads]

UnderLinkMutex == {"locked", "joining", "connecting"}

TypeOK ==
    /\ PendingTypeOK
    /\ oneWay \in BOOLEAN
    /\ at \in [Callers -> UnderLinkMutex \cup
           {"idle", "linked", "registered", "sent", "unwinding", "releasing", "closing"}]
    /\ holds \in [Callers -> Links \cup {NoLink}]
    /\ body \in [Callers -> Payloads \cup {"none"}]
    /\ link \in Links \cup {NoLink}
    /\ dispatcher \in [Links -> {"unborn", "absent", "running", "failing", "exited"}]
    /\ broken \in [Links -> BOOLEAN]
    /\ stopping \in [Links -> BOOLEAN]
    /\ wire \subseteq Message
    /\ replies \subseteq Message
    /\ spent \subseteq Ids \X Payloads
    /\ life \in {"alive", "closed", "joining", "gone"}

Init ==
    /\ PendingInit
    /\ oneWay \in BOOLEAN
    /\ at = [c \in Callers |-> "idle"]
    /\ holds = [c \in Callers |-> NoLink]
    /\ body = [c \in Callers |-> "none"]
    /\ link = NoLink
    /\ dispatcher = [l \in Links |-> "unborn"]
    /\ broken = [l \in Links |-> FALSE]
    /\ stopping = [l \in Links |-> FALSE]
    /\ wire = {}
    /\ replies = {}
    /\ spent = {}
    /\ life = "alive"

LinkMutexFree == \A c \in Callers : at[c] \notin UnderLinkMutex

LastRef(c, l) == link # l /\ \A d \in Callers \ {c} : holds[d] # l

GoTo(c, place) == at' = [at EXCEPT ![c] = place]

Holding(c, l) == holds' = [holds EXCEPT ![c] = l]

\* dispatcher_.join() returns, at once if there was no such thread.
Joined(l) == dispatcher[l] \in {"absent", "exited"}

-----------------------------------------------------------------------------
(* CurrentLink, under linkMutex_.                                          *)

LockLink(c) ==
    /\ life = "alive"
    /\ at[c] = "idle"
    /\ LinkMutexFree
    /\ GoTo(c, "locked")
    /\ UNCHANGED <<pendingVars, holds, body, linkVars, brokerVars, life>>

ReuseLink(c) ==
    /\ at[c] = "locked"
    /\ link # NoLink
    /\ ~broken[link]
    /\ Holding(c, link)
    /\ GoTo(c, "linked")
    /\ UNCHANGED <<pendingVars, body, linkVars, brokerVars, life>>

\* link_.reset(): the last owner runs ~Link, which joins the dispatcher.
ResetLink(c) ==
    /\ at[c] = "locked"
    /\ link # NoLink => broken[link]
    /\ link' = NoLink
    /\ IF link # NoLink /\ \A d \in Callers : holds[d] # link
       THEN /\ stopping' = [stopping EXCEPT ![link] = TRUE]
            /\ Holding(c, link)
            /\ GoTo(c, "joining")
       ELSE /\ GoTo(c, "connecting")
            /\ UNCHANGED <<holds, stopping>>
    /\ UNCHANGED <<pendingVars, body, dispatcher, broken, brokerVars, life>>

JoinReplaced(c) ==
    /\ at[c] = "joining"
    /\ Joined(holds[c])
    /\ Holding(c, NoLink)
    /\ GoTo(c, "connecting")
    /\ UNCHANGED <<pendingVars, body, linkVars, brokerVars, life>>

\* The constructor throws before it starts the dispatcher.
ConnectThrows(c) ==
    /\ at[c] = "connecting"
    /\ GoTo(c, "idle")
    /\ UNCHANGED <<pendingVars, holds, body, linkVars, brokerVars, life>>

Connect(c, l) ==
    /\ at[c] = "connecting"
    /\ dispatcher[l] = "unborn"
    /\ dispatcher' = [dispatcher EXCEPT ![l] = IF oneWay THEN "absent" ELSE "running"]
    /\ link' = l
    /\ Holding(c, l)
    /\ GoTo(c, "linked")
    /\ UNCHANGED <<pendingVars, body, broken, stopping, brokerVars, life>>

-----------------------------------------------------------------------------
(* The rest of Call.                                                       *)

FreshIds == {i \in Ids : \A s \in spent : s[1] # i}
FreshBodies == {p \in Payloads : \A s \in spent : s[2] # p}

\* Mistake: an id may be built twice, once its first call has left the map.
RegisterCallAgain(c, i, p) ==
    /\ ~oneWay
    /\ at[c] = "linked"
    /\ p \in FreshBodies
    /\ spent' = spent \cup {<<i, p>>}
    /\ Register(c, i)
    /\ body' = [body EXCEPT ![c] = p]
    /\ GoTo(c, "registered")
    /\ UNCHANGED <<holds, linkVars, wire, replies, oneWay, life>>

RegisterCall(c, i, p) ==
    /\ ~oneWay
    /\ at[c] = "linked"
    /\ i \in FreshIds
    /\ p \in FreshBodies
    /\ spent' = spent \cup {<<i, p>>}
    /\ Register(c, i)
    /\ body' = [body EXCEPT ![c] = p]
    /\ GoTo(c, "registered")
    /\ UNCHANGED <<holds, linkVars, wire, replies, oneWay, life>>

NotifyRegistered(c) ==
    /\ RegisterNotify(c)
    /\ UNCHANGED clientVars

\* Send does not look at broken_.
Send(c) ==
    /\ at[c] = "registered"
    /\ ticket[c] = "held"
    /\ wire' = wire \cup {[id |-> tid[c], body |-> body[c]]}
    /\ GoTo(c, "sent")
    /\ UNCHANGED <<pendingVars, holds, body, linkVars, replies, spent, oneWay, life>>

\* A send that reports a failure breaks the link and fails this call, not the
\* others; one that throws itself fails the call and leaves the link as it is.
SendThrows(c) ==
    /\ at[c] = "registered"
    /\ ticket[c] = "held"
    /\ broken' \in {broken, [broken EXCEPT ![holds[c]] = TRUE]}
    /\ GoTo(c, "unwinding")
    /\ UNCHANGED <<pendingVars, holds, body, link, dispatcher, stopping, brokerVars, life>>

\* A one-way call returns, or throws, as soon as Send does.
SendOneWay(c, i, p) ==
    /\ oneWay
    /\ at[c] = "linked"
    /\ i \in FreshIds
    /\ p \in FreshBodies
    /\ spent' = spent \cup {<<i, p>>}
    /\ \/ /\ wire' = wire \cup {[id |-> i, body |-> p]}
          /\ UNCHANGED broken
       \/ /\ broken' \in {broken, [broken EXCEPT ![holds[c]] = TRUE]}
          /\ UNCHANGED wire
    /\ GoTo(c, "releasing")
    /\ UNCHANGED <<pendingVars, holds, body, link, dispatcher, stopping, replies, oneWay, life>>

Block(c) ==
    /\ at[c] = "sent"
    /\ WaitSleeps(c)
    /\ UNCHANGED clientVars

Answered(c) ==
    /\ at[c] = "sent"
    /\ WaitReturns(c)
    /\ GoTo(c, "unwinding")
    /\ UNCHANGED <<holds, body, linkVars, brokerVars, life>>

TimesOut(c) ==
    /\ at[c] = "sent"
    /\ WaitTimer(c)
    /\ GoTo(c, "unwinding")
    /\ UNCHANGED <<holds, body, linkVars, brokerVars, life>>

Unwind(c) ==
    /\ at[c] = "unwinding"
    /\ Remove(c)
    /\ body' = [body EXCEPT ![c] = "none"]
    /\ GoTo(c, "releasing")
    /\ UNCHANGED <<holds, linkVars, brokerVars, life>>

ReleaseLink(c) ==
    /\ at[c] = "releasing"
    /\ IF LastRef(c, holds[c])
       THEN /\ stopping' = [stopping EXCEPT ![holds[c]] = TRUE]
            /\ GoTo(c, "closing")
            /\ UNCHANGED holds
       ELSE /\ Holding(c, NoLink)
            /\ GoTo(c, "idle")
            /\ UNCHANGED stopping
    /\ UNCHANGED <<pendingVars, body, link, dispatcher, broken, brokerVars, life>>

JoinReleased(c) ==
    /\ at[c] = "closing"
    /\ Joined(holds[c])
    /\ Holding(c, NoLink)
    /\ GoTo(c, "idle")
    /\ UNCHANGED <<pendingVars, body, linkVars, brokerVars, life>>

-----------------------------------------------------------------------------
(* The dispatcher of a link, and the gateway.                              *)

\* Replies are settled as they are received, then complete their call.
DispatchReply(l, m) ==
    /\ dispatcher[l] = "running"
    /\ m \in replies
    /\ replies' = replies \ {m}
    /\ Complete(m.id, m.body)
    /\ UNCHANGED <<callVars, linkVars, wire, spent, oneWay, life>>

\* A reply without a correlation id, or whose body cannot be extracted, is
\* settled and dropped.
DropReply(l, m) ==
    /\ dispatcher[l] = "running"
    /\ m \in replies
    /\ replies' = replies \ {m}
    /\ UNCHANGED <<pendingVars, callVars, linkVars, wire, spent, oneWay, life>>

\* Mistake: the receiver ends and nobody marks the link broken.
DisconnectUnmarked(l) ==
    /\ dispatcher[l] = "running"
    /\ dispatcher' = [dispatcher EXCEPT ![l] = "failing"]
    /\ UNCHANGED <<pendingVars, callVars, link, broken, stopping, brokerVars, life>>

Disconnect(l) ==
    /\ dispatcher[l] = "running"
    /\ dispatcher' = [dispatcher EXCEPT ![l] = "failing"]
    /\ broken' = [broken EXCEPT ![l] = TRUE]
    /\ UNCHANGED <<pendingVars, callVars, link, stopping, brokerVars, life>>

DisconnectFailAll(l, e) ==
    /\ dispatcher[l] = "failing"
    /\ FailAll(e)
    /\ dispatcher' = [dispatcher EXCEPT ![l] = "exited"]
    /\ UNCHANGED <<callVars, link, broken, stopping, brokerVars, life>>

DispatcherStops(l) ==
    /\ dispatcher[l] = "running"
    /\ stopping[l]
    /\ dispatcher' = [dispatcher EXCEPT ![l] = "exited"]
    /\ UNCHANGED <<pendingVars, callVars, link, broken, stopping, brokerVars, life>>

GatewayReplies(m) ==
    /\ ~oneWay
    /\ m \in wire
    /\ replies' = replies \cup {m}
    /\ UNCHANGED <<pendingVars, callVars, linkVars, wire, spent, oneWay, life>>

-----------------------------------------------------------------------------
(* ~ServiceBusRpcClient; its owner has no call in progress any more.       *)

DtorClose(e) ==
    /\ life = "alive"
    /\ \A c \in Callers : at[c] = "idle"
    /\ Close(e)
    /\ life' = "closed"
    /\ UNCHANGED <<callVars, linkVars, brokerVars>>

DtorNotify ==
    /\ CloseNotify
    /\ UNCHANGED clientVars

DtorReset ==
    /\ life = "closed"
    /\ ~closing
    /\ IF link = NoLink
       THEN life' = "gone" /\ UNCHANGED stopping
       ELSE life' = "joining" /\ stopping' = [stopping EXCEPT ![link] = TRUE]
    /\ UNCHANGED <<pendingVars, callVars, link, dispatcher, broken, brokerVars>>

DtorJoin ==
    /\ life = "joining"
    /\ Joined(link)
    /\ link' = NoLink
    /\ life' = "gone"
    /\ UNCHANGED <<pendingVars, callVars, dispatcher, broken, stopping, brokerVars>>

-----------------------------------------------------------------------------

CallerNext(c) ==
    \/ LockLink(c) \/ ReuseLink(c) \/ ResetLink(c) \/ JoinReplaced(c)
    \/ ConnectThrows(c)
    \/ NotifyRegistered(c) \/ Send(c) \/ SendThrows(c)
    \/ Block(c) \/ Answered(c) \/ TimesOut(c)
    \/ Unwind(c) \/ ReleaseLink(c) \/ JoinReleased(c)
    \/ \E l \in Links : Connect(c, l)
    \/ \E i \in Ids, p \in Payloads : RegisterCall(c, i, p) \/ SendOneWay(c, i, p)

DispatcherNext(l) ==
    \/ Disconnect(l) \/ DispatcherStops(l)
    \/ \E m \in replies : DispatchReply(l, m) \/ DropReply(l, m)
    \/ \E e \in Errors : DisconnectFailAll(l, e)

Next ==
    \/ \E c \in Callers : CallerNext(c)
    \/ \E l \in Links : DispatcherNext(l)
    \/ \E m \in wire : GatewayReplies(m)
    \/ \E e \in Errors : DtorClose(e)
    \/ DtorNotify \/ DtorReset \/ DtorJoin

Spec == Init /\ [][Next]_vars

-----------------------------------------------------------------------------
(* Properties                                                              *)

\* A link whose dispatcher has gone is broken: CurrentLink never hands it to
\* another call, so at most the calls that already hold it lose their replies.
DeadLinkIsReplaced ==
    link # NoLink /\ dispatcher[link] = "exited" => broken[link] \/ stopping[link]

\* A dispatcher uses the client's pending_; it never outlives the last
\* shared_ptr to its Link, whoever drops it, nor the client.
LinksAreOwned ==
    \A l \in Links :
        dispatcher[l] \in {"running", "failing"} =>
            /\ link = l \/ \E c \in Callers : holds[c] = l
            /\ life # "gone"

\* Links come and go over one reply session: a call still gets only the reply
\* to its own request, whichever link's receiver took it from the session.
OwnReply ==
    \A c \in Callers :
        ticket[c] = "settled" /\ result[c] \in Payloads => result[c] = body[c]

\* ServiceBusClient.cpp:301-302: a Link in RPC mode has a background thread
\* that dispatches the replies, so a call that waits on a link has one.
WaitingCallHasDispatcher ==
    \A c \in Callers :
        at[c] = "sent" /\ outcome[c] = "open" =>
            dispatcher[holds[c]] \in {"running", "failing"}
=============================================================================
