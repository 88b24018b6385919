------------------------- MODULE ServiceBus_proofs -------------------------
(***************************************************************************)
(* The Service Bus plugin.  The server, for any requests: a link that was  *)
(* idle when a request came is replaced before the reply goes out.  The    *)
(* client, for any number of callers, links and calls: it uses the         *)
(* correlator only through its operations, a link that nobody reads is     *)
(* replaced, no dispatcher outlives the owners of its link, and a call     *)
(* gets only the reply to its own request.                                 *)
(***************************************************************************)
EXTENDS ServiceBusServer, ServiceBusClient, PendingReplies_proofs

(***************************************************************************)
(* The server                                                              *)
(***************************************************************************)

USE DEF MovesTo, replyVars, historyVars

-----------------------------------------------------------------------------
(* The inductive invariant.                                                *)

\* publish's second attempt finds no sender and opens a link.
SecondAttemptIsNew ==
    attempt = 1 =>
        /\ consumer = "acquiring" => sender = "none"
        /\ consumer = "sending" => tried = "new"

\* The loop has a request while it works for one.
HandIsFull == consumer \in {"handling", "acquiring", "sending"} => inHand \in Requests

BusServerInv == ServerTypeOK /\ HandIsFull /\ IdleLinkIsReplaced /\ SecondAttemptIsNew

-----------------------------------------------------------------------------

\* The first values of the counters.
LEMMA SmallCounts == 0 \in 0 .. 2 /\ 0 \in 0 .. 1
OBVIOUS

LEMMA BusServerStep == BusServerInv /\ [ServerNext]_serverVars => BusServerInv'
<1> SUFFICES ASSUME BusServerInv, [ServerNext]_serverVars
             PROVE  BusServerInv'
  OBVIOUS
<1> USE DEF BusServerInv, ServerTypeOK, HandIsFull, IdleLinkIsReplaced, SecondAttemptIsNew,
        BrokerMaxIdle
<1>1. CASE Start \/ Stop \/ TestOuter
  BY <1>1 DEF Start, Stop, TestOuter
<1>2. CASE ConnectServerThrows \/ ConnectServer \/ LeaveInner
  BY <1>2 DEF ConnectServerThrows, ConnectServer, LeaveInner
<1>3. CASE CloseAll
  <2>1. ServerTypeOK'
    BY <1>3, SmallCounts DEF CloseAll
  <2>2. HandIsFull' /\ IdleLinkIsReplaced' /\ SecondAttemptIsNew'
    BY <1>3 DEF CloseAll
  <2> QED
    BY <2>1, <2>2
<1>4. ASSUME NEW m \in Requests, Receive(m)
      PROVE  BusServerInv'
  BY <1>4 DEF Receive
<1>5. CASE Drop \/ ProcessThrows
  <2>1. ServerTypeOK'
    BY <1>5, SmallCounts DEF Drop, ProcessThrows
  <2>2. HandIsFull' /\ IdleLinkIsReplaced' /\ SecondAttemptIsNew'
    BY <1>5 DEF Drop, ProcessThrows
  <2> QED
    BY <2>1, <2>2
<1>6. CASE Process
  BY <1>6 DEF Process
<1>7. CASE AcquireKept
  BY <1>7 DEF AcquireKept, stale, kReplySenderMaxIdle
<1>8. CASE AcquireNew
  BY <1>8 DEF AcquireNew
<1>9. CASE AcquireFails \/ AcquireThrows
  <2>1. ServerTypeOK'
    BY <1>9, SmallCounts DEF AcquireFails, AcquireThrows, GivesUp
  <2>2. HandIsFull' /\ IdleLinkIsReplaced' /\ SecondAttemptIsNew'
    BY <1>9 DEF AcquireFails, AcquireThrows, GivesUp
  <2> QED
    BY <2>1, <2>2
<1>10. CASE SendReply
  BY <1>10 DEF SendReply
<1>11. CASE SendFails
  BY <1>11 DEF SendFails, GivesUp
<1>12. CASE LoseConnection \/ Detach
  BY <1>12 DEF LoseConnection, Detach
<1>13. CASE Tick
  BY <1>13 DEF Tick
<1>14. CASE UNCHANGED serverVars
  BY <1>14 DEF serverVars
<1> QED
  BY <1>1, <1>2, <1>3, <1>4, <1>5, <1>6, <1>7, <1>8, <1>9, <1>10, <1>11, <1>12, <1>13, <1>14
  DEF ServerNext, LoopNext

-----------------------------------------------------------------------------

\* The receive loop and its cache of reply senders together.
THEOREM BusServerInvariant == ServerSpec => []BusServerInv
<1>1. ServerInit => BusServerInv
  BY SmallCounts DEF ServerInit, BusServerInv, ServerTypeOK, HandIsFull, IdleLinkIsReplaced,
     SecondAttemptIsNew, BrokerMaxIdle
<1>2. BusServerInv /\ [ServerNext]_serverVars => BusServerInv'
  BY BusServerStep
<1> QED
  BY <1>1, <1>2, PTL DEF ServerSpec

\* ServiceBusServer.cpp sends no reply on a link the broker has detached for
\* idling: the five minutes of the cache end before the broker's ten.
THEOREM ServerReplacesIdleLink == ServerSpec => []IdleLinkIsReplaced
<1>1. BusServerInv => IdleLinkIsReplaced
  BY DEF BusServerInv
<1> QED
  BY <1>1, BusServerInvariant, PTL

\* publish gives up a reply only when a link it has just opened failed too.
THEOREM ServerRepliesOnNewLink == ServerSpec => ReplyGetsNewLink
<1> DEFINE Step == inHand # "none" /\ inHand' = "none" /\ consumer \in {"acquiring", "sending"}
                       => inHand \in answered' \/ tried' = "new"
<1>1. BusServerInv /\ [ServerNext]_serverVars => [Step]_serverVars
  <2> SUFFICES ASSUME BusServerInv, ServerNext, inHand # "none", inHand' = "none",
                      consumer \in {"acquiring", "sending"}
               PROVE  inHand \in answered' \/ tried' = "new"
    OBVIOUS
  <2>1. CASE AcquireFails \/ AcquireThrows
    BY <2>1 DEF AcquireFails, AcquireThrows
  <2>2. CASE SendReply
    BY <2>2 DEF SendReply
  <2>3. CASE SendFails
    <3>1. attempt = 1 /\ consumer = "sending" /\ UNCHANGED tried
      BY <2>3 DEF SendFails, BusServerInv, ServerTypeOK
    <3> QED
      BY <3>1 DEF BusServerInv, SecondAttemptIsNew
  <2>4. CASE AcquireKept \/ AcquireNew
    BY <2>4 DEF AcquireKept, AcquireNew
  <2>5. CASE (\E m \in Requests : Receive(m)) \/ Drop \/ ProcessThrows \/ Process
    BY <2>5 DEF Receive, Drop, ProcessThrows, Process
  <2>6. CASE \/ Start \/ Stop \/ TestOuter \/ ConnectServerThrows \/ ConnectServer \/ LeaveInner
             \/ CloseAll \/ LoseConnection \/ Detach \/ Tick
    BY <2>6 DEF Start, Stop, TestOuter, ConnectServerThrows, ConnectServer, LeaveInner, CloseAll,
       LoseConnection, Detach, Tick
  <2> QED
    BY <2>1, <2>2, <2>3, <2>4, <2>5, <2>6 DEF ServerNext, LoopNext
<1> QED
  BY <1>1, BusServerInvariant, PTL DEF ServerSpec, ReplyGetsNewLink

(***************************************************************************)
(* The client                                                              *)
(***************************************************************************)

USE ServiceBusAssumption
USE DEF GoTo, Holding, pendingVars, clientVars, callVars, linkVars, brokerVars

-----------------------------------------------------------------------------
(* The client is a user of the correlator.                                 *)

\* The steps that use the correlator are steps of the correlator, and the
\* others leave its variables alone.
LEMMA ClientUsesPending == TypeOK /\ [Next]_vars => [PendingNext]_pendingVars
<1> SUFFICES ASSUME TypeOK, [Next]_vars
             PROVE  PendingNext \/ UNCHANGED pendingVars
  OBVIOUS
<1>1. ASSUME NEW c \in Callers, CallerNext(c)
      PROVE  CallerStep(c) \/ UNCHANGED pendingVars
  <2>1. ASSUME NEW i \in Ids, NEW p \in Payloads, RegisterCall(c, i, p)
        PROVE  CallerStep(c)
    BY <2>1 DEF RegisterCall, CallerStep
  <2>2. CASE NotifyRegistered(c) \/ Block(c) \/ Answered(c) \/ TimesOut(c) \/ Unwind(c)
    BY <2>2 DEF NotifyRegistered, Block, Answered, TimesOut, Unwind, CallerStep
  <2>3. CASE \/ LockLink(c) \/ ReuseLink(c) \/ ResetLink(c) \/ JoinReplaced(c)
             \/ ConnectThrows(c) \/ Send(c) \/ SendThrows(c) \/ ReleaseLink(c)
             \/ JoinReleased(c) \/ (\E l \in Links : Connect(c, l))
             \/ \E i \in Ids, p \in Payloads : SendOneWay(c, i, p)
    BY <2>3 DEF LockLink, ReuseLink, ResetLink, JoinReplaced, ConnectThrows, Send, SendThrows,
       ReleaseLink, JoinReleased, Connect, SendOneWay
  <2> QED
    BY <1>1, <2>1, <2>2, <2>3 DEF CallerNext
<1>2. ASSUME NEW l \in Links, DispatcherNext(l)
      PROVE  PendingNext \/ UNCHANGED pendingVars
  <2>1. ASSUME NEW m \in replies, DispatchReply(l, m)
        PROVE  PendingNext
    <3>1. m.id \in Ids /\ m.body \in Payloads
      BY DEF TypeOK, Message
    <3> QED
      BY <2>1, <3>1 DEF DispatchReply, PendingNext
  <2>2. ASSUME NEW e \in Errors, DisconnectFailAll(l, e)
        PROVE  PendingNext
    BY <2>2 DEF DisconnectFailAll, PendingNext
  <2>3. CASE (\E m \in replies : DropReply(l, m)) \/ Disconnect(l) \/ DispatcherStops(l)
    BY <2>3 DEF DropReply, Disconnect, DispatcherStops
  <2> QED
    BY <1>2, <2>1, <2>2, <2>3 DEF DispatcherNext
<1>3. ASSUME NEW e \in Errors, DtorClose(e)
      PROVE  PendingNext
  BY <1>3 DEF DtorClose, PendingNext
<1>4. CASE DtorNotify
  BY <1>4 DEF DtorNotify, PendingNext
<1>5. ASSUME (\E m \in wire : GatewayReplies(m)) \/ DtorReset \/ DtorJoin \/ UNCHANGED vars
      PROVE  UNCHANGED pendingVars
  BY <1>5 DEF GatewayReplies, DtorReset, DtorJoin, vars
<1> QED
  BY <1>1, <1>2, <1>3, <1>4, <1>5 DEF Next, PendingNext

-----------------------------------------------------------------------------
(* The inductive invariant.                                                *)

\* What each place of Call means for the caller's link, ticket and request; a
\* one-way call never has a ticket.
CallShape ==
    \A c \in Callers :
        /\ at[c] \in {"idle", "locked", "connecting"} <=> holds[c] = NoLink
        /\ at[c] \in {"registered", "sent", "unwinding"} <=> ticket[c] # "none"
        /\ ticket[c] # "none" => body[c] \in Payloads

\* linkMutex_ has one holder, and link_ is null while it replaces the link.
LinkMutex ==
    \A c \in Callers : at[c] \in UnderLinkMutex =>
        /\ \A d \in Callers : at[d] \in UnderLinkMutex => d = c
        /\ at[c] # "locked" => link = NoLink

\* A thread that joins a link's dispatcher in ~Link is the link's only owner.
SoleOwners ==
    \A c \in Callers :
        at[c] \in {"joining", "closing"} =>
            link # holds[c] /\ \A d \in Callers \ {c} : holds[d] # holds[c]

\* stopping_ is only set by an owner that destroys the link.
StoppedByOwner ==
    \A l \in Links : stopping[l] =>
        /\ link = l => life = "joining"
        /\ \A c \in Callers : holds[c] = l => at[c] \in {"joining", "closing"}

\* A dispatcher only ends by Disconnect or by stopping_, and its link has an
\* owner until then.
DispatcherLifeCycle ==
    \A l \in Links :
        /\ dispatcher[l] = "unborn" =>
               link # l /\ ~stopping[l] /\ \A c \in Callers : holds[c] # l
        /\ dispatcher[l] = "failing" => broken[l]
        /\ dispatcher[l] = "exited" => broken[l] \/ stopping[l]
        /\ dispatcher[l] \in {"running", "failing"} =>
               link = l \/ \E c \in Callers : holds[c] = l

\* The destructor runs when no call is in progress, and drops link_ last.
DtorShape ==
    /\ life # "alive" => \A c \in Callers : at[c] = "idle"
    /\ life = "gone" => link = NoLink

\* A correlation id names one request: in the client, sent, and in the reply
\* session, whichever link put it there.
IdsNameRequests ==
    /\ \A s, t \in spent : s[1] = t[1] => s[2] = t[2]
    /\ \A m \in wire \cup replies : <<m.id, m.body>> \in spent
    /\ \A c \in Callers : ticket[c] # "none" =>
           /\ <<tid[c], body[c]>> \in spent
           /\ outcome[c] \in Payloads => outcome[c] = body[c]

ClientInv ==
    /\ TypeOK
    /\ PendingInv
    /\ CallShape
    /\ LinkMutex
    /\ SoleOwners
    /\ StoppedByOwner
    /\ DispatcherLifeCycle
    /\ DtorShape
    /\ IdsNameRequests
    /\ OwnReply

-----------------------------------------------------------------------------

\* The client keeps its state in the values the model gives it.
LEMMA TypeStep == ClientInv /\ [Next]_vars => TypeOK'
<1> SUFFICES ASSUME ClientInv, [Next]_vars
             PROVE  TypeOK'
  OBVIOUS
<1>0. TypeOK /\ CallShape /\ SlotsMatchTickets
  BY DEF ClientInv, PendingInv
<1>a. PendingTypeOK'
  BY ClientUsesPending, PendingTypeStep DEF TypeOK, ClientInv
<1> USE <1>0, <1>a DEF TypeOK, UnderLinkMutex
<1>1. ASSUME NEW c \in Callers,
              \/ LockLink(c) \/ JoinReplaced(c) \/ ConnectThrows(c) \/ NotifyRegistered(c)
              \/ Block(c) \/ Answered(c) \/ TimesOut(c) \/ ReleaseLink(c)
              \/ JoinReleased(c)
      PROVE  TypeOK'
  BY <1>1 DEF LockLink, JoinReplaced, ConnectThrows, NotifyRegistered, Block, Answered,
     TimesOut, ReleaseLink, JoinReleased
<1>2. ASSUME NEW l \in Links,
              \/ (\E m \in replies : DispatchReply(l, m))
              \/ (\E m \in replies : DropReply(l, m)) \/ Disconnect(l)
              \/ (\E e \in Errors : DisconnectFailAll(l, e)) \/ DispatcherStops(l)
      PROVE  TypeOK'
  BY <1>2 DEF DispatchReply, DropReply, Disconnect, DisconnectFailAll, DispatcherStops
<1>3. CASE \/ (\E m \in wire : GatewayReplies(m)) \/ (\E e \in Errors : DtorClose(e))
           \/ DtorNotify \/ DtorReset \/ DtorJoin \/ UNCHANGED vars
  BY <1>3 DEF GatewayReplies, DtorClose, DtorNotify, DtorReset, DtorJoin, vars
<1>4. ASSUME NEW c \in Callers, ReuseLink(c)
      PROVE  TypeOK'
  BY <1>4 DEF ReuseLink
<1>5. ASSUME NEW c \in Callers, ResetLink(c)
      PROVE  TypeOK'
  BY <1>5 DEF ResetLink
<1>6. ASSUME NEW c \in Callers, NEW l \in Links, Connect(c, l)
      PROVE  TypeOK'
  BY <1>6 DEF Connect
<1>7. ASSUME NEW c \in Callers, NEW i \in Ids, NEW p \in Payloads, RegisterCall(c, i, p)
      PROVE  TypeOK'
  BY <1>7 DEF RegisterCall, FreshIds, FreshBodies
<1>8. ASSUME NEW c \in Callers, Send(c)
      PROVE  TypeOK'
  BY <1>8 DEF Send, Message, CallShape, SlotsMatchTickets
<1>9. ASSUME NEW c \in Callers, SendThrows(c)
      PROVE  TypeOK'
  BY <1>9 DEF SendThrows, CallShape
<1>10. ASSUME NEW c \in Callers, NEW i \in Ids, NEW p \in Payloads, SendOneWay(c, i, p)
       PROVE  TypeOK'
  <2>1. spent' \subseteq Ids \X Payloads /\ wire' \subseteq Message
    BY <1>10 DEF SendOneWay, FreshIds, FreshBodies, Message
  <2>2. broken' \in [Links -> BOOLEAN]
    BY <1>10 DEF SendOneWay
  <2>3. /\ UNCHANGED <<oneWay, holds, body, link, dispatcher, stopping, replies, life>>
        /\ at' = [at EXCEPT ![c] = "releasing"]
    BY <1>10 DEF SendOneWay
  <2> QED
    BY <2>1, <2>2, <2>3
<1>11. ASSUME NEW c \in Callers, Unwind(c)
       PROVE  TypeOK'
  BY <1>11 DEF Unwind
<1> QED
  BY <1>1, <1>2, <1>3, <1>4, <1>5, <1>6, <1>7, <1>8, <1>9, <1>10, <1>11
  DEF Next, CallerNext, DispatcherNext

\* Call moves through its places with its link, ticket and request in step.
LEMMA CallShapeStep == ClientInv /\ [Next]_vars => CallShape'
<1> SUFFICES ASSUME ClientInv, [Next]_vars
             PROVE  CallShape'
  OBVIOUS
<1>0. TypeOK /\ CallShape /\ PendingTypeOK
  BY DEF ClientInv, PendingInv
<1> USE <1>0 DEF CallShape, TypeOK, PendingTypeOK
<1>1. ASSUME NEW c \in Callers,
              \/ LockLink(c) \/ ReuseLink(c) \/ ResetLink(c) \/ JoinReplaced(c)
              \/ ConnectThrows(c) \/ Send(c) \/ SendThrows(c)
              \/ (\E i \in Ids, p \in Payloads : SendOneWay(c, i, p)) \/ JoinReleased(c)
      PROVE  CallShape'
  BY <1>1 DEF LockLink, ReuseLink, ResetLink, JoinReplaced, ConnectThrows, Send,
     SendThrows, SendOneWay, JoinReleased
<1>2. ASSUME NEW l \in Links,
              \/ (\E m \in replies : DropReply(l, m)) \/ Disconnect(l)
              \/ DispatcherStops(l)
      PROVE  CallShape'
  BY <1>2 DEF DropReply, Disconnect, DispatcherStops
<1>3. CASE \/ (\E m \in wire : GatewayReplies(m)) \/ DtorReset \/ DtorJoin
           \/ UNCHANGED vars
  BY <1>3 DEF GatewayReplies, DtorReset, DtorJoin, vars
<1>4. ASSUME NEW c \in Callers, NEW l \in Links, Connect(c, l)
      PROVE  CallShape'
  BY <1>4 DEF Connect
<1>5. ASSUME NEW c \in Callers, NEW i \in Ids, NEW p \in Payloads, RegisterCall(c, i, p)
      PROVE  CallShape'
  BY <1>5 DEF RegisterCall, Register
<1>6. ASSUME NEW c \in Callers, NotifyRegistered(c)
      PROVE  CallShape'
  BY <1>6 DEF NotifyRegistered, RegisterNotify, NotifyPoller
<1>7. ASSUME NEW c \in Callers, Block(c)
      PROVE  CallShape'
  BY <1>7 DEF Block, WaitSleeps
<1>8. ASSUME NEW c \in Callers, Answered(c)
      PROVE  CallShape'
  BY <1>8 DEF Answered, WaitReturns, Settle
<1>9. ASSUME NEW c \in Callers, TimesOut(c)
      PROVE  CallShape'
  BY <1>9 DEF TimesOut, WaitTimer, Settle
<1>10. ASSUME NEW c \in Callers, Unwind(c)
       PROVE  CallShape'
  BY <1>10 DEF Unwind, Remove
<1>11. ASSUME NEW c \in Callers, ReleaseLink(c)
       PROVE  CallShape'
  BY <1>11 DEF ReleaseLink, LastRef
<1>12. ASSUME NEW l \in Links, NEW m \in replies, DispatchReply(l, m)
       PROVE  CallShape'
  BY <1>12 DEF DispatchReply, Complete, Finish, MarkDone
<1>13. ASSUME NEW l \in Links, NEW e \in Errors, DisconnectFailAll(l, e)
       PROVE  CallShape'
  BY <1>13 DEF DisconnectFailAll, FailAll, MarkDone
<1>14. ASSUME NEW e \in Errors, DtorClose(e)
       PROVE  CallShape'
  BY <1>14 DEF DtorClose, Close, MarkDone
<1>15. CASE DtorNotify
  BY <1>15 DEF DtorNotify, CloseNotify, NotifyPoller
<1> QED
  BY <1>1, <1>2, <1>3, <1>4, <1>5, <1>6, <1>7, <1>8, <1>9, <1>10, <1>11, <1>12, <1>13,
     <1>14, <1>15
  DEF Next, CallerNext, DispatcherNext

\* CurrentLink keeps linkMutex_ from its lock to its return.
LEMMA LinkMutexStep == ClientInv /\ [Next]_vars => LinkMutex'
<1> SUFFICES ASSUME ClientInv, [Next]_vars
             PROVE  LinkMutex'
  OBVIOUS
<1>0. TypeOK /\ LinkMutex /\ DtorShape
  BY DEF ClientInv
<1> USE <1>0 DEF LinkMutex, TypeOK, UnderLinkMutex
<1>1. ASSUME NEW c \in Callers,
              \/ ReuseLink(c) \/ JoinReplaced(c) \/ ConnectThrows(c)
              \/ (\E i \in Ids, p \in Payloads : RegisterCall(c, i, p))
              \/ NotifyRegistered(c) \/ Send(c) \/ SendThrows(c)
              \/ (\E i \in Ids, p \in Payloads : SendOneWay(c, i, p)) \/ Block(c)
              \/ Answered(c) \/ TimesOut(c) \/ Unwind(c) \/ ReleaseLink(c)
              \/ JoinReleased(c)
      PROVE  LinkMutex'
  BY <1>1 DEF ReuseLink, JoinReplaced, ConnectThrows, RegisterCall, NotifyRegistered,
     Send, SendThrows, SendOneWay, Block, Answered, TimesOut, Unwind, ReleaseLink,
     JoinReleased
<1>2. ASSUME NEW l \in Links,
              \/ (\E m \in replies : DispatchReply(l, m))
              \/ (\E m \in replies : DropReply(l, m)) \/ Disconnect(l)
              \/ (\E e \in Errors : DisconnectFailAll(l, e)) \/ DispatcherStops(l)
      PROVE  LinkMutex'
  BY <1>2 DEF DispatchReply, DropReply, Disconnect, DisconnectFailAll, DispatcherStops
<1>3. CASE \/ (\E m \in wire : GatewayReplies(m)) \/ (\E e \in Errors : DtorClose(e))
           \/ DtorNotify \/ DtorReset \/ UNCHANGED vars
  BY <1>3 DEF GatewayReplies, DtorClose, DtorNotify, DtorReset, vars
<1>4. ASSUME NEW c \in Callers, LockLink(c)
      PROVE  LinkMutex'
  BY <1>4 DEF LockLink, LinkMutexFree
<1>5. ASSUME NEW c \in Callers, ResetLink(c)
      PROVE  LinkMutex'
  BY <1>5 DEF ResetLink
<1>6. ASSUME NEW c \in Callers, NEW l \in Links, Connect(c, l)
      PROVE  LinkMutex'
  BY <1>6 DEF Connect
<1>7. CASE DtorJoin
  BY <1>7 DEF DtorJoin, DtorShape
<1> QED
  BY <1>1, <1>2, <1>3, <1>4, <1>5, <1>6, <1>7
  DEF Next, CallerNext, DispatcherNext

\* Destructors of links keep to themselves.
LEMMA SoleOwnersStep == ClientInv /\ [Next]_vars => SoleOwners'
<1> SUFFICES ASSUME ClientInv, [Next]_vars
             PROVE  SoleOwners'
  OBVIOUS
<1>0. TypeOK /\ SoleOwners /\ CallShape /\ DispatcherLifeCycle
  BY DEF ClientInv
<1> USE <1>0 DEF SoleOwners, TypeOK, CallShape
<1>1. ASSUME NEW c \in Callers,
              \/ LockLink(c) \/ JoinReplaced(c) \/ ConnectThrows(c)
              \/ (\E i \in Ids, p \in Payloads : RegisterCall(c, i, p))
              \/ NotifyRegistered(c) \/ Send(c) \/ SendThrows(c)
              \/ (\E i \in Ids, p \in Payloads : SendOneWay(c, i, p)) \/ Block(c)
              \/ Answered(c) \/ TimesOut(c) \/ Unwind(c) \/ JoinReleased(c)
      PROVE  SoleOwners'
  BY <1>1 DEF LockLink, JoinReplaced, ConnectThrows, RegisterCall, NotifyRegistered, Send,
     SendThrows, SendOneWay, Block, Answered, TimesOut, Unwind, JoinReleased
<1>2. ASSUME NEW l \in Links,
              \/ (\E m \in replies : DispatchReply(l, m))
              \/ (\E m \in replies : DropReply(l, m)) \/ Disconnect(l)
              \/ (\E e \in Errors : DisconnectFailAll(l, e)) \/ DispatcherStops(l)
      PROVE  SoleOwners'
  BY <1>2 DEF DispatchReply, DropReply, Disconnect, DisconnectFailAll, DispatcherStops
<1>3. CASE \/ (\E m \in wire : GatewayReplies(m)) \/ (\E e \in Errors : DtorClose(e))
           \/ DtorNotify \/ DtorReset \/ UNCHANGED vars
  BY <1>3 DEF GatewayReplies, DtorClose, DtorNotify, DtorReset, vars
<1>4. ASSUME NEW c \in Callers, ReuseLink(c)
      PROVE  SoleOwners'
  BY <1>4 DEF ReuseLink
<1>5. ASSUME NEW c \in Callers, ResetLink(c)
      PROVE  SoleOwners'
  BY <1>5 DEF ResetLink
<1>6. ASSUME NEW c \in Callers, NEW l \in Links, Connect(c, l)
      PROVE  SoleOwners'
  BY <1>6 DEF Connect, DispatcherLifeCycle
<1>7. ASSUME NEW c \in Callers, ReleaseLink(c)
      PROVE  SoleOwners'
  BY <1>7 DEF ReleaseLink, LastRef
<1>8. CASE DtorJoin
  BY <1>8 DEF DtorJoin
<1> QED
  BY <1>1, <1>2, <1>3, <1>4, <1>5, <1>6, <1>7, <1>8
  DEF Next, CallerNext, DispatcherNext

\* No thread asks a link to stop while another can still use it.
LEMMA StoppedByOwnerStep == ClientInv /\ [Next]_vars => StoppedByOwner'
<1> SUFFICES ASSUME ClientInv, [Next]_vars
             PROVE  StoppedByOwner'
  OBVIOUS
<1>0. TypeOK /\ StoppedByOwner /\ CallShape /\ DtorShape /\ SoleOwners /\
      DispatcherLifeCycle
  BY DEF ClientInv
<1> USE <1>0 DEF StoppedByOwner, TypeOK, CallShape, DtorShape
<1>1. ASSUME NEW c \in Callers,
              \/ JoinReplaced(c) \/ ConnectThrows(c)
              \/ (\E i \in Ids, p \in Payloads : RegisterCall(c, i, p))
              \/ NotifyRegistered(c) \/ Send(c) \/ SendThrows(c)
              \/ (\E i \in Ids, p \in Payloads : SendOneWay(c, i, p)) \/ Block(c)
              \/ Answered(c) \/ TimesOut(c) \/ Unwind(c) \/ JoinReleased(c)
      PROVE  StoppedByOwner'
  BY <1>1 DEF JoinReplaced, ConnectThrows, RegisterCall, NotifyRegistered, Send,
     SendThrows, SendOneWay, Block, Answered, TimesOut, Unwind, JoinReleased
<1>2. ASSUME NEW l \in Links,
              \/ (\E m \in replies : DispatchReply(l, m))
              \/ (\E m \in replies : DropReply(l, m)) \/ Disconnect(l)
              \/ (\E e \in Errors : DisconnectFailAll(l, e)) \/ DispatcherStops(l)
      PROVE  StoppedByOwner'
  BY <1>2 DEF DispatchReply, DropReply, Disconnect, DisconnectFailAll, DispatcherStops
<1>3. CASE \/ (\E m \in wire : GatewayReplies(m)) \/ (\E e \in Errors : DtorClose(e))
           \/ DtorNotify \/ UNCHANGED vars
  BY <1>3 DEF GatewayReplies, DtorClose, DtorNotify, vars
<1>4. ASSUME NEW c \in Callers, LockLink(c)
      PROVE  StoppedByOwner'
  BY <1>4 DEF LockLink
<1>5. ASSUME NEW c \in Callers, ReuseLink(c)
      PROVE  StoppedByOwner'
  BY <1>5 DEF ReuseLink
<1>6. ASSUME NEW c \in Callers, ResetLink(c)
      PROVE  StoppedByOwner'
  BY <1>6 DEF ResetLink
<1>7. ASSUME NEW c \in Callers, NEW l \in Links, Connect(c, l)
      PROVE  StoppedByOwner'
  BY <1>7 DEF Connect, DispatcherLifeCycle
<1>8. ASSUME NEW c \in Callers, ReleaseLink(c)
      PROVE  StoppedByOwner'
  BY <1>8 DEF ReleaseLink, LastRef
<1>9. CASE DtorReset
  BY <1>9 DEF DtorReset
<1>10. CASE DtorJoin
  BY <1>10 DEF DtorJoin
<1> QED
  BY <1>1, <1>2, <1>3, <1>4, <1>5, <1>6, <1>7, <1>8, <1>9, <1>10
  DEF Next, CallerNext, DispatcherNext

\* The dispatchers end only as their loop lets them, and only owned links run.
LEMMA DispatcherLifeCycleStep == ClientInv /\ [Next]_vars => DispatcherLifeCycle'
<1> SUFFICES ASSUME ClientInv, [Next]_vars
             PROVE  DispatcherLifeCycle'
  OBVIOUS
<1>0. TypeOK /\ DispatcherLifeCycle /\ CallShape /\ LinkMutex
  BY DEF ClientInv
<1> USE <1>0 DEF DispatcherLifeCycle, TypeOK, CallShape
<1>1. ASSUME NEW c \in Callers,
              \/ LockLink(c) \/ ConnectThrows(c)
              \/ (\E i \in Ids, p \in Payloads : RegisterCall(c, i, p))
              \/ NotifyRegistered(c) \/ Send(c) \/ Block(c) \/ Answered(c) \/ TimesOut(c)
              \/ Unwind(c)
      PROVE  DispatcherLifeCycle'
  BY <1>1 DEF LockLink, ConnectThrows, RegisterCall, NotifyRegistered, Send, Block,
     Answered, TimesOut, Unwind
<1>2. ASSUME NEW l \in Links,
              \/ (\E m \in replies : DispatchReply(l, m))
              \/ (\E m \in replies : DropReply(l, m))
      PROVE  DispatcherLifeCycle'
  BY <1>2 DEF DispatchReply, DropReply
<1>3. CASE \/ (\E m \in wire : GatewayReplies(m)) \/ (\E e \in Errors : DtorClose(e))
           \/ DtorNotify \/ UNCHANGED vars
  BY <1>3 DEF GatewayReplies, DtorClose, DtorNotify, vars
<1>4. ASSUME NEW c \in Callers, ReuseLink(c)
      PROVE  DispatcherLifeCycle'
  BY <1>4 DEF ReuseLink
<1>5. ASSUME NEW c \in Callers, ResetLink(c)
      PROVE  DispatcherLifeCycle'
  BY <1>5 DEF ResetLink
<1>6. ASSUME NEW c \in Callers, JoinReplaced(c)
      PROVE  DispatcherLifeCycle'
  BY <1>6 DEF JoinReplaced, Joined
<1>7. ASSUME NEW c \in Callers, NEW l \in Links, Connect(c, l)
      PROVE  DispatcherLifeCycle'
  BY <1>7 DEF Connect, LinkMutex, UnderLinkMutex
<1>8. ASSUME NEW c \in Callers, SendThrows(c)
      PROVE  DispatcherLifeCycle'
  <2>1. UNCHANGED <<holds, link, dispatcher, stopping>>
    BY <1>8 DEF SendThrows
  <2>2. \A l \in Links : broken[l] => broken'[l]
    BY <1>8 DEF SendThrows
  <2> QED
    BY <2>1, <2>2
<1>9. ASSUME NEW c \in Callers, NEW i \in Ids, NEW p \in Payloads, SendOneWay(c, i, p)
      PROVE  DispatcherLifeCycle'
  <2>1. UNCHANGED <<holds, link, dispatcher, stopping>>
    BY <1>9 DEF SendOneWay
  <2>2. broken' = [broken EXCEPT ![holds[c]] = TRUE] \/ broken' = broken
    BY <1>9 DEF SendOneWay
  <2>3. \A l \in Links : broken[l] => broken'[l]
    BY <2>2
  <2> QED
    BY <2>1, <2>3
<1>10. ASSUME NEW c \in Callers, ReleaseLink(c)
       PROVE  DispatcherLifeCycle'
  BY <1>10 DEF ReleaseLink, LastRef
<1>11. ASSUME NEW c \in Callers, JoinReleased(c)
       PROVE  DispatcherLifeCycle'
  BY <1>11 DEF JoinReleased, Joined
<1>12. ASSUME NEW l \in Links, Disconnect(l)
       PROVE  DispatcherLifeCycle'
  BY <1>12 DEF Disconnect
<1>13. ASSUME NEW l \in Links, NEW e \in Errors, DisconnectFailAll(l, e)
       PROVE  DispatcherLifeCycle'
  BY <1>13 DEF DisconnectFailAll
<1>14. ASSUME NEW l \in Links, DispatcherStops(l)
       PROVE  DispatcherLifeCycle'
  BY <1>14 DEF DispatcherStops
<1>15. CASE DtorReset
  BY <1>15 DEF DtorReset
<1>16. CASE DtorJoin
  BY <1>16 DEF DtorJoin, Joined
<1> QED
  BY <1>1, <1>2, <1>3, <1>4, <1>5, <1>6, <1>7, <1>8, <1>9, <1>10, <1>11, <1>12, <1>13,
     <1>14, <1>15, <1>16
  DEF Next, CallerNext, DispatcherNext

\* Nothing starts once the destructor has.
LEMMA DtorShapeStep == ClientInv /\ [Next]_vars => DtorShape'
<1> SUFFICES ASSUME ClientInv, [Next]_vars
             PROVE  DtorShape'
  OBVIOUS
<1>0. TypeOK /\ DtorShape
  BY DEF ClientInv
<1> USE <1>0 DEF DtorShape, TypeOK
<1>1. ASSUME NEW c \in Callers,
              \/ LockLink(c) \/ ReuseLink(c) \/ ResetLink(c) \/ JoinReplaced(c)
              \/ ConnectThrows(c)
              \/ (\E i \in Ids, p \in Payloads : RegisterCall(c, i, p))
              \/ NotifyRegistered(c) \/ Send(c) \/ SendThrows(c)
              \/ (\E i \in Ids, p \in Payloads : SendOneWay(c, i, p)) \/ Block(c)
              \/ Answered(c) \/ TimesOut(c) \/ Unwind(c) \/ ReleaseLink(c)
              \/ JoinReleased(c)
      PROVE  DtorShape'
  BY <1>1 DEF LockLink, ReuseLink, ResetLink, JoinReplaced, ConnectThrows, RegisterCall,
     NotifyRegistered, Send, SendThrows, SendOneWay, Block, Answered, TimesOut, Unwind,
     ReleaseLink, JoinReleased
<1>2. ASSUME NEW l \in Links,
              \/ (\E m \in replies : DispatchReply(l, m))
              \/ (\E m \in replies : DropReply(l, m)) \/ Disconnect(l)
              \/ (\E e \in Errors : DisconnectFailAll(l, e)) \/ DispatcherStops(l)
      PROVE  DtorShape'
  BY <1>2 DEF DispatchReply, DropReply, Disconnect, DisconnectFailAll, DispatcherStops
<1>3. CASE \/ (\E m \in wire : GatewayReplies(m)) \/ DtorNotify \/ UNCHANGED vars
  BY <1>3 DEF GatewayReplies, DtorNotify, vars
<1>4. ASSUME NEW c \in Callers, NEW l \in Links, Connect(c, l)
      PROVE  DtorShape'
  BY <1>4 DEF Connect
<1>5. ASSUME NEW e \in Errors, DtorClose(e)
      PROVE  DtorShape'
  BY <1>5 DEF DtorClose
<1>6. CASE DtorReset
  BY <1>6 DEF DtorReset
<1>7. CASE DtorJoin
  BY <1>7 DEF DtorJoin
<1> QED
  BY <1>1, <1>2, <1>3, <1>4, <1>5, <1>6, <1>7
  DEF Next, CallerNext, DispatcherNext

\* Fresh ids keep every reply with its own request.
LEMMA IdsNameRequestsStep == ClientInv /\ [Next]_vars => IdsNameRequests'
<1> SUFFICES ASSUME ClientInv, [Next]_vars
             PROVE  IdsNameRequests'
  OBVIOUS
<1>0. TypeOK /\ IdsNameRequests /\ CallShape /\ PendingTypeOK /\ SlotsMatchTickets
  BY DEF ClientInv, PendingInv
<1> USE <1>0 DEF IdsNameRequests, TypeOK, PendingTypeOK, CallShape, Message
<1>1. ASSUME NEW c \in Callers,
              \/ LockLink(c) \/ ReuseLink(c) \/ ResetLink(c) \/ JoinReplaced(c)
              \/ ConnectThrows(c) \/ (\E l \in Links : Connect(c, l)) \/ SendThrows(c)
              \/ ReleaseLink(c) \/ JoinReleased(c)
      PROVE  IdsNameRequests'
  BY <1>1 DEF LockLink, ReuseLink, ResetLink, JoinReplaced, ConnectThrows, Connect,
     SendThrows, ReleaseLink, JoinReleased
<1>2. ASSUME NEW l \in Links,
              \/ (\E m \in replies : DropReply(l, m)) \/ Disconnect(l)
              \/ DispatcherStops(l)
      PROVE  IdsNameRequests'
  BY <1>2 DEF DropReply, Disconnect, DispatcherStops
<1>3. CASE \/ (\E m \in wire : GatewayReplies(m)) \/ DtorReset \/ DtorJoin
           \/ UNCHANGED vars
  BY <1>3 DEF GatewayReplies, DtorReset, DtorJoin, vars
<1>4. ASSUME NEW c \in Callers, NEW i \in Ids, NEW p \in Payloads, RegisterCall(c, i, p)
      PROVE  IdsNameRequests'
  <2>1. /\ spent' = spent \cup {<<i, p>>}
        /\ \A s \in spent : s[1] # i
        /\ UNCHANGED <<wire, replies>>
    BY <1>4 DEF RegisterCall, FreshIds
  <2>2. \A s, t \in spent' : s[1] = t[1] => s[2] = t[2]
    BY <2>1
  <2>3. /\ tid' = [tid EXCEPT ![c] = i] /\ body' = [body EXCEPT ![c] = p]
        /\ outcome' = [outcome EXCEPT ![c] = "open"]
        /\ ticket' = [ticket EXCEPT ![c] = "notifying"]
    BY <1>4 DEF RegisterCall, Register
  <2>4. ASSUME NEW d \in Callers, ticket'[d] # "none"
        PROVE  /\ <<tid'[d], body'[d]>> \in spent'
               /\ outcome'[d] \in Payloads => outcome'[d] = body'[d]
    <3>1. CASE d = c
      BY <2>1, <2>3, <3>1, PendingAssumption
    <3>2. CASE d # c
      BY <2>1, <2>3, <2>4, <3>2
    <3> QED
      BY <3>1, <3>2
  <2> QED
    BY <2>1, <2>2, <2>4
<1>5. ASSUME NEW c \in Callers, NotifyRegistered(c)
      PROVE  IdsNameRequests'
  BY <1>5 DEF NotifyRegistered, RegisterNotify, NotifyPoller
<1>6. ASSUME NEW c \in Callers, Send(c)
      PROVE  IdsNameRequests'
  BY <1>6 DEF Send
<1>7. ASSUME NEW c \in Callers, NEW i \in Ids, NEW p \in Payloads, SendOneWay(c, i, p)
      PROVE  IdsNameRequests'
  <2>1. /\ spent' = spent \cup {<<i, p>>}
        /\ \A s \in spent : s[1] # i
        /\ wire' \subseteq wire \cup {[id |-> i, body |-> p]}
        /\ UNCHANGED <<replies, tid, body, outcome, ticket>>
    BY <1>7 DEF SendOneWay, FreshIds
  <2>2. \A s, t \in spent' : s[1] = t[1] => s[2] = t[2]
    BY <2>1
  <2> QED
    BY <2>1, <2>2
<1>8. ASSUME NEW c \in Callers, Block(c)
      PROVE  IdsNameRequests'
  BY <1>8 DEF Block, WaitSleeps
<1>9. ASSUME NEW c \in Callers, Answered(c)
      PROVE  IdsNameRequests'
  BY <1>9 DEF Answered, WaitReturns, Settle
<1>10. ASSUME NEW c \in Callers, TimesOut(c)
       PROVE  IdsNameRequests'
  BY <1>10 DEF TimesOut, WaitTimer, Settle
<1>11. ASSUME NEW c \in Callers, Unwind(c)
       PROVE  IdsNameRequests'
  BY <1>11 DEF Unwind, Remove
<1>12. ASSUME NEW l \in Links, NEW m \in replies, DispatchReply(l, m)
       PROVE  IdsNameRequests'
  <2> DEFINE o == slots[m.id]
  <2>1. m.id \in Ids /\ m.body \in Payloads /\ <<m.id, m.body>> \in spent
    OBVIOUS
  <2>2. MarkDone({slots[m.id]} \ {NoCaller}, m.body)
    BY <1>12 DEF DispatchReply, Complete, Finish
  <2>3. o \in Callers => tid[o] = m.id /\ ticket[o] # "none"
    BY <2>1, PendingAssumption DEF SlotsMatchTickets
  <2>4. o \in Callers => body[o] = m.body
    <3>1. o \in Callers => <<tid[o], body[o]>> \in spent
      BY <2>3
    <3>2. o \in Callers => <<tid[o], body[o]>>[1] = <<m.id, m.body>>[1]
      BY <2>3
    <3>3. o \in Callers => <<tid[o], body[o]>>[2] = <<m.id, m.body>>[2]
      BY <2>1, <3>1, <3>2
    <3> QED
      BY <3>3
  <2>5. \A c \in Callers :
           /\ outcome'[c] \in {outcome[c], m.body}
           /\ outcome'[c] # outcome[c] => c = o
           /\ ticket'[c] # "none" => ticket[c] # "none"
    BY <2>1, <2>2, MarkDoneFacts
  <2>6. UNCHANGED <<tid, body, spent, wire>> /\ replies' \subseteq replies
    BY <1>12 DEF DispatchReply, Complete, Finish
  <2> QED
    BY <2>4, <2>5, <2>6
<1>13. ASSUME NEW l \in Links, NEW e \in Errors, DisconnectFailAll(l, e)
       PROVE  IdsNameRequests'
  <2>1. \A c \in Callers :
           /\ outcome'[c] \in {outcome[c], e}
           /\ ticket'[c] # "none" => ticket[c] # "none"
    BY <1>13, MarkDoneFacts DEF DisconnectFailAll, FailAll
  <2>2. UNCHANGED <<tid, body, spent, wire, replies>>
    BY <1>13 DEF DisconnectFailAll, FailAll
  <2>3. e \notin Payloads
    BY PendingAssumption
  <2> QED
    BY <2>1, <2>2, <2>3
<1>14. ASSUME NEW e \in Errors, DtorClose(e)
       PROVE  IdsNameRequests'
  <2>1. \A c \in Callers :
           /\ outcome'[c] \in {outcome[c], e}
           /\ ticket'[c] # "none" => ticket[c] # "none"
    BY <1>14, MarkDoneFacts DEF DtorClose, Close
  <2>2. UNCHANGED <<tid, body, spent, wire, replies>>
    BY <1>14 DEF DtorClose, Close
  <2>3. e \notin Payloads
    BY PendingAssumption
  <2> QED
    BY <2>1, <2>2, <2>3
<1>15. CASE DtorNotify
  BY <1>15 DEF DtorNotify, CloseNotify, NotifyPoller
<1> QED
  BY <1>1, <1>2, <1>3, <1>4, <1>5, <1>6, <1>7, <1>8, <1>9, <1>10, <1>11, <1>12, <1>13,
     <1>14, <1>15
  DEF Next, CallerNext, DispatcherNext

\* Wait returns the reply to the request of its own ticket.
LEMMA OwnReplyStep == ClientInv /\ [Next]_vars => OwnReply'
<1> SUFFICES ASSUME ClientInv, [Next]_vars
             PROVE  OwnReply'
  OBVIOUS
<1>0. TypeOK /\ OwnReply /\ CallShape /\ PendingTypeOK /\ IdsNameRequests
  BY DEF ClientInv, PendingInv
<1> USE <1>0 DEF OwnReply, TypeOK, PendingTypeOK, CallShape
<1>1. ASSUME NEW c \in Callers,
              \/ LockLink(c) \/ ReuseLink(c) \/ ResetLink(c) \/ JoinReplaced(c)
              \/ ConnectThrows(c) \/ (\E l \in Links : Connect(c, l)) \/ Send(c)
              \/ SendThrows(c) \/ (\E i \in Ids, p \in Payloads : SendOneWay(c, i, p))
              \/ ReleaseLink(c) \/ JoinReleased(c)
      PROVE  OwnReply'
  BY <1>1 DEF LockLink, ReuseLink, ResetLink, JoinReplaced, ConnectThrows, Connect, Send,
     SendThrows, SendOneWay, ReleaseLink, JoinReleased
<1>2. ASSUME NEW l \in Links,
              \/ (\E m \in replies : DropReply(l, m)) \/ Disconnect(l)
              \/ DispatcherStops(l)
      PROVE  OwnReply'
  BY <1>2 DEF DropReply, Disconnect, DispatcherStops
<1>3. CASE \/ (\E m \in wire : GatewayReplies(m)) \/ DtorReset \/ DtorJoin
           \/ UNCHANGED vars
  BY <1>3 DEF GatewayReplies, DtorReset, DtorJoin, vars
<1>4. ASSUME NEW c \in Callers, NEW i \in Ids, NEW p \in Payloads, RegisterCall(c, i, p)
      PROVE  OwnReply'
  BY <1>4 DEF RegisterCall, Register
<1>5. ASSUME NEW c \in Callers, NotifyRegistered(c)
      PROVE  OwnReply'
  BY <1>5 DEF NotifyRegistered, RegisterNotify, NotifyPoller
<1>6. ASSUME NEW c \in Callers, Block(c)
      PROVE  OwnReply'
  BY <1>6 DEF Block, WaitSleeps
<1>7. ASSUME NEW c \in Callers, Answered(c)
      PROVE  OwnReply'
  BY <1>7 DEF Answered, WaitReturns, Settle, IdsNameRequests
<1>8. ASSUME NEW c \in Callers, TimesOut(c)
      PROVE  OwnReply'
  <2>1. result'[c] \in {"timeout", outcome[c]} /\ UNCHANGED <<outcome, body>>
    BY <1>8 DEF TimesOut, WaitTimer, Settle
  <2>2. ticket[c] # "none"
    BY <1>8 DEF TimesOut, WaitTimer
  <2>3. "timeout" \notin Payloads
    BY PendingAssumption
  <2>4. /\ result' = [result EXCEPT ![c] = IF outcome[c] = "open" THEN "timeout"
                                           ELSE outcome[c]]
        /\ ticket' = [ticket EXCEPT ![c] = "settled"]
    BY <1>8 DEF TimesOut, WaitTimer, Settle
  <2>5. result'[c] \in Payloads => result'[c] = body'[c]
    BY <2>1, <2>2, <2>3 DEF IdsNameRequests
  <2> QED
    BY <2>1, <2>4, <2>5
<1>9. ASSUME NEW c \in Callers, Unwind(c)
      PROVE  OwnReply'
  BY <1>9 DEF Unwind, Remove
<1>10. ASSUME NEW l \in Links, NEW m \in replies, DispatchReply(l, m)
       PROVE  OwnReply'
  BY <1>10 DEF DispatchReply, Complete, Finish, MarkDone
<1>11. ASSUME NEW l \in Links, NEW e \in Errors, DisconnectFailAll(l, e)
       PROVE  OwnReply'
  BY <1>11 DEF DisconnectFailAll, FailAll, MarkDone
<1>12. ASSUME NEW e \in Errors, DtorClose(e)
       PROVE  OwnReply'
  BY <1>12 DEF DtorClose, Close, MarkDone
<1>13. CASE DtorNotify
  BY <1>13 DEF DtorNotify, CloseNotify, NotifyPoller
<1> QED
  BY <1>1, <1>2, <1>3, <1>4, <1>5, <1>6, <1>7, <1>8, <1>9, <1>10, <1>11, <1>12, <1>13
  DEF Next, CallerNext, DispatcherNext

-----------------------------------------------------------------------------

\* Every step of the client preserves every conjunct.
LEMMA ClientStep == ClientInv /\ [Next]_vars => ClientInv'
<1> SUFFICES ASSUME ClientInv, [Next]_vars
             PROVE  ClientInv'
  OBVIOUS
<1>1. PendingInv'
  BY ClientUsesPending, PendingStep DEF ClientInv
<1> QED
  BY <1>1, TypeStep, CallShapeStep, LinkMutexStep, SoleOwnersStep, StoppedByOwnerStep,
     DispatcherLifeCycleStep, DtorShapeStep, IdsNameRequestsStep, OwnReplyStep
  DEF ClientInv

\* A new client has no link, no call and no correlation id.
LEMMA ClientInit == Init => ClientInv
<1> SUFFICES ASSUME Init
             PROVE  ClientInv
  OBVIOUS
<1> USE DEF Init
<1>1. TypeOK /\ PendingInv
  <2>1. PendingTypeOK
    BY DEF PendingInit, PendingTypeOK
  <2>2. SlotsMatchTickets /\ SleepersUnanswered
    BY DEF PendingInit, SlotsMatchTickets, SleepersUnanswered
  <2>3. ClosedAnswersAll /\ PollerAboutToBeNotified
    BY DEF PendingInit, ClosedAnswersAll, PollerAboutToBeNotified
  <2>4. TypeOK
    BY <2>1 DEF TypeOK
  <2> QED
    BY <2>1, <2>2, <2>3, <2>4 DEF PendingInv
<1>2. CallShape /\ LinkMutex /\ SoleOwners /\ DtorShape
  BY DEF CallShape, LinkMutex, SoleOwners, DtorShape, PendingInit, UnderLinkMutex
<1>3. StoppedByOwner /\ DispatcherLifeCycle
  BY DEF StoppedByOwner, DispatcherLifeCycle
<1>4. IdsNameRequests /\ OwnReply
  BY DEF IdsNameRequests, OwnReply, PendingInit
<1> QED
  BY <1>1, <1>2, <1>3, <1>4 DEF ClientInv

\* The inductive invariant of Call, the dispatchers and the destructor of
\* ServiceBusClient.cpp together.
THEOREM ClientInvariant == Spec => []ClientInv
BY ClientInit, ClientStep, PTL DEF Spec

\* ServiceBusClient.cpp keeps its state in the values the model gives it.
THEOREM ClientTypeCorrect == Spec => []TypeOK
<1>1. ClientInv => TypeOK
  BY DEF ClientInv
<1> QED
  BY <1>1, ClientInvariant, PTL

\* Disconnect sets broken_ before the dispatcher ends, so CurrentLink never hands
\* a link that nobody reads to another call.
THEOREM DeadLinksAreReplaced == Spec => []DeadLinkIsReplaced
<1>1. ClientInv => DeadLinkIsReplaced
  BY DEF ClientInv, TypeOK, DispatcherLifeCycle, DeadLinkIsReplaced
<1> QED
  BY <1>1, ClientInvariant, PTL

\* Whoever drops the last shared_ptr to a Link joins its dispatcher first, so the
\* thread never uses pending_ of a destroyed client.
THEOREM DispatchersAreOwned == Spec => []LinksAreOwned
<1>1. ClientInv => LinksAreOwned
  <2> SUFFICES ASSUME ClientInv, NEW l \in Links, dispatcher[l] \in {"running", "failing"}
               PROVE  (link = l \/ \E c \in Callers : holds[c] = l) /\ life # "gone"
    BY DEF LinksAreOwned
  <2>1. link = l \/ \E c \in Callers : holds[c] = l
    BY DEF ClientInv, DispatcherLifeCycle
  <2>2. life = "gone" => link = NoLink /\ \A c \in Callers : holds[c] = NoLink
    BY DEF ClientInv, DtorShape, CallShape
  <2> QED
    BY <2>1, <2>2
<1> QED
  BY <1>1, ClientInvariant, PTL

\* Whichever link's receiver takes a reply from the session, and however often
\* the broker delivers it, a call returns only the reply to its own request.
THEOREM RepliesAreOwn == Spec => []OwnReply
<1>1. ClientInv => OwnReply
  BY DEF ClientInv
<1> QED
  BY <1>1, ClientInvariant, PTL

\* The client implements the correlator's specification, hence its contract.
THEOREM ClientImplementsPending == Spec => PendingSpec
<1>1. Init => PendingInit
  BY DEF Init
<1>2. ClientInv => TypeOK
  BY DEF ClientInv
<1> QED
  BY <1>1, <1>2, ClientUsesPending, ClientInvariant, PTL DEF Spec, PendingSpec
=============================================================================
