---------------------------- MODULE PubSubPending ---------------------------
(***************************************************************************)
(* The Pub/Sub client with its PendingReplies (pubsub/PubSubPlugin/        *)
(* PubSubClient.cpp, PendingReplies.h).  PubSubRpc has ReplyContract in    *)
(* their place.  Here callers sleep on their tickets and the dispatcher    *)
(* in WaitForPending, register and notify are two steps, and a reply finds *)
(* its call through the map.  Whatever does not concern the correlator is  *)
(* PubSubRpc's.  There is no step in which Register throws: see            *)
(* CallsAreRegistered.                                                     *)
(***************************************************************************)
EXTENDS PendingReplies

CONSTANT Strays    \* requests of other programs

ASSUME RpcAssumption ==
    /\ Payloads = Ids
    /\ Ids \cap Strays = {}
    /\ "none" \notin Ids \cup Strays

VARIABLES
    oneWay, autoCreate, exists, held,                   \* PubSubBroker
    at, call, fresh, started, dispatcher, batch, life,  \* PubSubClient
    stopRequested, loop, hand, executed, answered       \* PubSubServer

Rpc == INSTANCE PubSubRpc WITH promise <- Promise, answer <- result

serverVars == <<stopRequested, loop, hand, executed, answered>>
elsewhere == <<oneWay, autoCreate, exists, held, serverVars>>
callVars == <<at, call, fresh>>
dispatchVars == <<dispatcher, batch>>
clientVars == <<pendingVars, callVars, started, dispatchVars, life>>
vars == <<elsewhere, clientVars>>

Init == PendingInit /\ Rpc!Init

-----------------------------------------------------------------------------
(* Call                                                                    *)

RegisterCall(c, i) ==
    /\ at[c] = "ensured"
    /\ i \in fresh
    /\ fresh' = fresh \ {i}
    /\ call' = [call EXCEPT ![c] = i]
    /\ IF oneWay THEN UNCHANGED pendingVars ELSE Register(c, i)
    /\ Rpc!GoTo(c, "publishing")
    /\ UNCHANGED <<elsewhere, started, dispatchVars, life>>

NotifyDispatcher(c) ==
    /\ at[c] = "publishing"
    /\ RegisterNotify(c)
    /\ UNCHANGED <<elsewhere, callVars, started, dispatchVars, life>>

PublishCall(c) ==
    /\ ticket[c] # "notifying"
    /\ UNCHANGED pendingVars
    /\ Rpc!PublishCall(c)

SleepOnTicket(c) ==
    /\ at[c] = "published"
    /\ WaitSleeps(c)
    /\ UNCHANGED <<elsewhere, callVars, started, dispatchVars, life>>

\* Wait returns the outcome, or false when its timer fires first.
WaitEnds(c) ==
    /\ at[c] = "published"
    /\ WaitReturns(c) \/ WaitTimer(c)
    /\ Rpc!GoTo(c, "unwinding")
    /\ UNCHANGED <<elsewhere, call, fresh, started, dispatchVars, life>>

Unwind(c) ==
    /\ at[c] = "unwinding"
    /\ Remove(c)
    /\ Rpc!GoTo(c, "idle")
    /\ UNCHANGED <<elsewhere, call, fresh, started, dispatchVars, life>>

CallerNext(c) ==
    \/ UNCHANGED pendingVars /\ (Rpc!Enter(c) \/ Rpc!LockStart(c) \/ Rpc!Create(c) \/ Rpc!Launch(c))
    \/ \E i \in Ids : RegisterCall(c, i)
    \/ NotifyDispatcher(c) \/ PublishCall(c)
    \/ SleepOnTicket(c) \/ WaitEnds(c) \/ Unwind(c)

-----------------------------------------------------------------------------
(* DispatchReplies                                                         *)

\* What WaitForPending returns decides: `continue', or pull.
PlaceAfter == [asleep |-> "polling", work |-> "pulling", idle |-> "looping"]

\* WaitForPending begins, wakes or runs out of its 200 ms.
Poll ==
    /\ dispatcher = "polling"
    /\ WaitForPending \/ PollTimer
    /\ dispatcher' = PlaceAfter[poller']
    /\ UNCHANGED <<elsewhere, callVars, started, batch, life>>

\* FailAll
PullThrows(e) ==
    /\ dispatcher = "pulling"
    /\ \E a \in Rpc!Answers("replySub" \in exists) :
           a.status \in {"missing", "refused"} /\ Rpc!Pull("replySub", {}, a)
    /\ FailAll(e)
    /\ dispatcher' = "looping"
    /\ UNCHANGED <<serverVars, callVars, started, batch, life>>

Deliver(m) ==
    /\ dispatcher = "delivering"
    /\ m \in batch
    /\ Complete(m, m)
    /\ batch' = batch \ {m}
    /\ dispatcher' = IF batch' = {} THEN "looping" ELSE "delivering"
    /\ UNCHANGED <<elsewhere, callVars, started, life>>

DispatcherNext ==
    \/ /\ UNCHANGED pendingVars
       /\ \/ Rpc!TestStopping \/ Rpc!AckReplies
          \/ \E b \in SUBSET held["replySub"] : Rpc!PullReplies(b)
    \/ Poll
    \/ \E e \in Errors : PullThrows(e)
    \/ \E m \in batch : Deliver(m)

-----------------------------------------------------------------------------
(* ~PubSubClient                                                           *)

DtorClose(e) ==
    /\ life = "stopping"
    /\ Close(e)
    /\ life' = "closed"
    /\ UNCHANGED <<elsewhere, callVars, started, dispatchVars>>

DtorNotify ==
    /\ life = "closed"
    /\ CloseNotify
    /\ UNCHANGED <<elsewhere, callVars, started, dispatchVars, life>>

DtorJoin ==
    /\ ~closing
    /\ UNCHANGED pendingVars
    /\ Rpc!DtorJoin

ClientNext ==
    \/ \E c \in Callers : CallerNext(c)
    \/ DispatcherNext
    \/ UNCHANGED pendingVars /\ Rpc!DtorStop
    \/ \E e \in Errors : DtorClose(e)
    \/ DtorNotify \/ DtorJoin

Next ==
    \/ ClientNext /\ UNCHANGED serverVars
    \/ UNCHANGED clientVars /\ Rpc!ServerNext

Spec == Init /\ [][Next]_vars

-----------------------------------------------------------------------------
(* Properties                                                              *)

\* The client with its correlator does nothing that PubSubRpc does not.
KeepsRpc == Rpc!Spec

\* A call returns only the reply to its own request, and only after the
\* gateway has executed that request (PubSubClient::Call, HandleMessage).
OwnAnswer == Rpc!OwnAnswer

\* A request leaves its subscription only when it has been executed and, for
\* RPC, its reply is with Pub/Sub: through failed publishes, failed
\* acknowledgements and crashes (Readme, "Delivery and ack").
AckedAfterReply == Rpc!AckedAfterReply

\* A request that was executed is on its way back as long as its slot is open:
\* still unacknowledged, or answered in the reply subscription or the
\* dispatcher's batch, whatever failed or crashed in between.
NothingIsLost == Rpc!NothingIsLost

\* Register never throws at Call: the destructor has not closed the correlator
\* under a call, and an id that was not used yet is not in the map.
CallsAreRegistered ==
    \A c \in Callers, i \in fresh :
        at[c] = "ensured" /\ ~oneWay => ticket[c] = "none" /\ ~closed /\ slots[i] = NoCaller
=============================================================================
