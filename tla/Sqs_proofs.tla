----------------------------- MODULE Sqs_proofs -----------------------------
(***************************************************************************)
(* The SQS plugin, for any number of threads, requests, callers and calls. *)
(* The server runs one loop, which no stop misses, and deletes a request   *)
(* only after its reply.  The client starts one dispatcher, which is there *)
(* as long as a call is pending, and a call gets only the reply to its own *)
(* request.                                                                *)
(***************************************************************************)
EXTENDS SqsServer, SqsClient, PendingReplies_proofs

(***************************************************************************)
(* The server                                                              *)
(***************************************************************************)

USE SqsServerAssumption
USE DEF MovesTo, startVars, stopVars, stateVars, requestVars

-----------------------------------------------------------------------------
(* The inductive invariant.                                                *)

\* The thread is between the two critical sections that own running_.
InStart(t) == pc[t] \notin {"idle", "notifying"}

\* The thread has stored its client in activeClient_.
Published(t) ==
    pc[t] \in {"looping", "receiving", "backoff", "checking", "processing",
               "replying", "deleting"}

RunningIsOwned == \A t \in Starters : InStart(t) => running

ActiveIsPublished == \A t \in Starters : Published(t) => active = t

\* StopInterruptsReceive at every place of the loop.
StopReachesClient ==
    \A t \in Starters : Published(t) /\ stopRequested =>
        disabled[t] \/ \E s \in Stoppers : spc[s] = "disabling" /\ target[s] = t

\* What has been done with the request in hand.
RequestInHand ==
    \A t \in Starters :
        /\ pc[t] \in {"checking", "processing", "replying", "deleting"} =>
               handling[t] \in Requests
        /\ pc[t] \in {"replying", "deleting"} => handling[t] \in executed
        /\ pc[t] = "deleting" => handling[t] \in replied \/ using[t] = "oneWay"

ServerInv ==
    /\ ServerTypeOK
    /\ OneLoop
    /\ RunningIsOwned
    /\ LoopUsesConfig
    /\ ActiveIsPublished
    /\ StopReachesClient
    /\ StopNotLost
    /\ RequestInHand

-----------------------------------------------------------------------------
(* The actions in four groups, as the lemmas below take them.              *)

\* Steps of a thread in start() that touch none of the shared flags.
QuietStep(t) ==
    \/ TestStop(t) \/ ReceiveNothing(t) \/ ReceiveRequestFails(t) \/ PauseEnds(t)
    \/ CreateFails(t) \/ Handle(t) \/ \E r \in Requests : ReceiveRequest(t, r)

QueueStep == \E r \in Requests : ClientSends(r) \/ VisibilityEnds(r)

\* A quiet step stays between Start and Cleanup, and enters the published part
\* only from the published part.
LEMMA QuietFacts ==
    ASSUME ServerTypeOK, NEW t \in Starters, QuietStep(t)
    PROVE  /\ UNCHANGED <<stateVars, using, disabled, stopVars>>
           /\ \A u \in Starters \ {t} : pc'[u] = pc[u] /\ handling'[u] = handling[u]
           /\ InStart(t) /\ InStart(t)'
           /\ pc[t] \notin {"claimed", "created", "cleanup"}
           /\ pc'[t] \notin {"claimed", "configured", "created"}
           /\ Published(t)' => Published(t)
<1> USE DEF ServerTypeOK, InStart, Published
<1>1. CASE TestStop(t) \/ ReceiveNothing(t) \/ ReceiveRequestFails(t) \/ PauseEnds(t)
           \/ CreateFails(t) \/ \E r \in Requests : ReceiveRequest(t, r)
  BY <1>1 DEF TestStop, ReceiveNothing, ReceiveRequestFails, PauseEnds, CreateFails,
     ReceiveRequest
<1>2. CASE Handle(t)
  BY <1>2 DEF Handle, CheckRequest, Process, ProcessFails, LoopThrows, Reply, ReplyFails,
     Delete, DeleteFails, Leave
<1> QED
  BY <1>1, <1>2 DEF QuietStep

\* The server keeps its state in the values the model gives it.
LEMMA ServerTypeStep ==
    ServerTypeOK /\ RequestInHand /\ [ServerNext]_serverVars => ServerTypeOK'
<1> SUFFICES ASSUME ServerTypeOK, RequestInHand, [ServerNext]_serverVars
             PROVE  ServerTypeOK'
  OBVIOUS
<1> USE DEF ServerTypeOK
<1>1. ASSUME NEW c \in {"rpc", "oneWay"}, Configure(c)
      PROVE  ServerTypeOK'
  BY <1>1 DEF Configure
<1>2. ASSUME NEW t \in Starters, Start(t)
      PROVE  ServerTypeOK'
  BY <1>2 DEF Start, StopsInProgress
<1>3. ASSUME NEW t \in Starters,
             CopyConfig(t) \/ CreateClient(t) \/ PublishClient(t) \/ Cleanup(t)
      PROVE  ServerTypeOK'
  <2>1. CASE CopyConfig(t)
    BY <2>1 DEF CopyConfig
  <2>2. CASE CreateClient(t)
    BY <2>2 DEF CreateClient
  <2>3. CASE PublishClient(t)
    BY <2>3 DEF PublishClient
  <2>4. CASE Cleanup(t)
    BY <2>4 DEF Cleanup
  <2> QED
    BY <1>3, <2>1, <2>2, <2>3, <2>4
<1>4. ASSUME NEW t \in Starters, NotifyStopped(t)
      PROVE  ServerTypeOK'
  BY <1>4 DEF NotifyStopped
<1>5. ASSUME NEW t \in Starters, QuietStep(t)
      PROVE  ServerTypeOK'
  <2>1. CASE TestStop(t) \/ ReceiveNothing(t) \/ ReceiveRequestFails(t) \/ PauseEnds(t)
             \/ CreateFails(t)
    BY <2>1 DEF TestStop, ReceiveNothing, ReceiveRequestFails, PauseEnds, CreateFails
  <2>2. ASSUME NEW r \in Requests, ReceiveRequest(t, r)
        PROVE  ServerTypeOK'
    BY <2>2 DEF ReceiveRequest
  <2>3. CASE \/ CheckRequest(t) \/ ProcessFails(t) \/ LoopThrows(t)
             \/ ReplyFails(t) \/ DeleteFails(t)
    BY <2>3 DEF CheckRequest, ProcessFails, LoopThrows, ReplyFails, DeleteFails, Leave
  <2>4. CASE Process(t)
    BY <2>4 DEF Process, RequestInHand
  <2>5. CASE Reply(t)
    BY <2>5 DEF Reply, RequestInHand
  <2>6. CASE Delete(t)
    BY <2>6 DEF Delete
  <2> QED
    BY <1>5, <2>1, <2>2, <2>3, <2>4, <2>5, <2>6 DEF QuietStep, Handle
<1>6. ASSUME NEW s \in Stoppers, StopRequest(s) \/ StopStep(s)
      PROVE  ServerTypeOK'
  <2>1. CASE StopRequest(s)
    BY <2>1 DEF StopRequest
  <2>2. CASE DisableClient(s)
    BY <2>2 DEF DisableClient
  <2>3. CASE StopWaits(s)
    BY <2>3 DEF StopWaits
  <2> QED
    BY <1>6, <2>1, <2>2, <2>3 DEF StopStep
<1>7. CASE QueueStep \/ UNCHANGED serverVars
  BY <1>7 DEF QueueStep, ClientSends, VisibilityEnds, serverVars
<1> QED
  BY <1>1, <1>2, <1>3, <1>4, <1>5, <1>6, <1>7
  DEF ServerNext, LoopStep, QuietStep, QueueStep

\* One thread at a time is between Start and Cleanup, with running_ set.
LEMMA LoopStepInv ==
    ASSUME ServerInv, [ServerNext]_serverVars
    PROVE  OneLoop' /\ RunningIsOwned' /\ LoopUsesConfig' /\ ActiveIsPublished'
<1> USE DEF ServerInv, ServerTypeOK, OneLoop, RunningIsOwned, LoopUsesConfig,
            ActiveIsPublished, InStart, Published
<1>1. ASSUME NEW c \in {"rpc", "oneWay"}, Configure(c)
      PROVE  OneLoop' /\ RunningIsOwned' /\ LoopUsesConfig' /\ ActiveIsPublished'
  BY <1>1 DEF Configure
<1>2. ASSUME NEW t \in Starters, Start(t)
      PROVE  OneLoop' /\ RunningIsOwned' /\ LoopUsesConfig' /\ ActiveIsPublished'
  BY <1>2 DEF Start
<1>3. ASSUME NEW t \in Starters,
             CopyConfig(t) \/ CreateClient(t) \/ PublishClient(t) \/ Cleanup(t)
      PROVE  OneLoop' /\ RunningIsOwned' /\ LoopUsesConfig' /\ ActiveIsPublished'
  <2>1. CASE CopyConfig(t)
    BY <2>1 DEF CopyConfig
  <2>2. CASE CreateClient(t)
    BY <2>2 DEF CreateClient
  <2>3. CASE PublishClient(t)
    BY <2>3 DEF PublishClient
  <2>4. CASE Cleanup(t)
    BY <2>4 DEF Cleanup
  <2> QED
    BY <1>3, <2>1, <2>2, <2>3, <2>4
<1>4. ASSUME NEW t \in Starters, NotifyStopped(t)
      PROVE  OneLoop' /\ RunningIsOwned' /\ LoopUsesConfig' /\ ActiveIsPublished'
  BY <1>4 DEF NotifyStopped
<1>5. ASSUME NEW t \in Starters, QuietStep(t)
      PROVE  OneLoop' /\ RunningIsOwned' /\ LoopUsesConfig' /\ ActiveIsPublished'
  BY <1>5, QuietFacts
<1>6. ASSUME NEW s \in Stoppers, StopRequest(s) \/ StopStep(s)
      PROVE  OneLoop' /\ RunningIsOwned' /\ LoopUsesConfig' /\ ActiveIsPublished'
  BY <1>6 DEF StopRequest, StopStep, DisableClient, StopWaits
<1>7. CASE QueueStep \/ UNCHANGED serverVars
  BY <1>7 DEF QueueStep, ClientSends, VisibilityEnds, serverVars
<1> QED
  BY <1>1, <1>2, <1>3, <1>4, <1>5, <1>6, <1>7
  DEF ServerNext, LoopStep, QuietStep, QueueStep

\* The flag survives until the loop ends or a start() overtakes the stop, and
\* the client of a published loop is disabled or about to be.
LEMMA StopStepInv ==
    ASSUME ServerInv, [ServerNext]_serverVars
    PROVE  StopNotLost' /\ StopReachesClient'
<1> USE DEF ServerInv, ServerTypeOK, OneLoop, RunningIsOwned, ActiveIsPublished,
            StopNotLost, StopReachesClient, StopsInProgress, InStart, Published
<1>1. ASSUME NEW c \in {"rpc", "oneWay"}, Configure(c)
      PROVE  StopNotLost' /\ StopReachesClient'
  BY <1>1 DEF Configure
<1>2. ASSUME NEW t \in Starters, Start(t)
      PROVE  StopNotLost' /\ StopReachesClient'
  BY <1>2 DEF Start
<1>3. ASSUME NEW t \in Starters, CopyConfig(t) \/ Cleanup(t)
      PROVE  StopNotLost' /\ StopReachesClient'
  BY <1>3 DEF CopyConfig, Cleanup
<1>4. ASSUME NEW t \in Starters, CreateClient(t)
      PROVE  StopNotLost' /\ StopReachesClient'
  BY <1>4 DEF CreateClient
<1>5. ASSUME NEW t \in Starters, PublishClient(t)
      PROVE  StopNotLost' /\ StopReachesClient'
  BY <1>5 DEF PublishClient
<1>6. ASSUME NEW t \in Starters, NotifyStopped(t)
      PROVE  StopNotLost' /\ StopReachesClient'
  BY <1>6 DEF NotifyStopped
<1>7. ASSUME NEW t \in Starters, QuietStep(t)
      PROVE  StopNotLost' /\ StopReachesClient'
  BY <1>7, QuietFacts
<1>8. ASSUME NEW s \in Stoppers, StopRequest(s)
      PROVE  StopNotLost' /\ StopReachesClient'
  BY <1>8 DEF StopRequest
<1>9. ASSUME NEW s \in Stoppers, DisableClient(s)
      PROVE  StopNotLost' /\ StopReachesClient'
  BY <1>9 DEF DisableClient
<1>10. ASSUME NEW s \in Stoppers, StopWaits(s)
      PROVE  StopNotLost' /\ StopReachesClient'
  BY <1>10 DEF StopWaits
<1>11. CASE QueueStep \/ UNCHANGED serverVars
  BY <1>11 DEF QueueStep, ClientSends, VisibilityEnds, serverVars
<1> QED
  BY <1>1, <1>2, <1>3, <1>4, <1>5, <1>6, <1>7, <1>8, <1>9, <1>10, <1>11
  DEF ServerNext, LoopStep, QuietStep, QueueStep, StopStep

\* The request in hand has been executed before the reply, and replied to
\* before it is deleted.
LEMMA RequestInHandStep ==
    ASSUME ServerInv, [ServerNext]_serverVars
    PROVE  RequestInHand'
<1> USE DEF ServerInv, ServerTypeOK, RequestInHand
<1>1. ASSUME NEW c \in {"rpc", "oneWay"}, Configure(c)
      PROVE  RequestInHand'
  BY <1>1 DEF Configure
<1>2. ASSUME NEW t \in Starters,
             \/ Start(t) \/ CopyConfig(t) \/ CreateClient(t) \/ PublishClient(t)
             \/ Cleanup(t) \/ NotifyStopped(t)
      PROVE  RequestInHand'
  BY <1>2 DEF Start, CopyConfig, CreateClient, PublishClient, Cleanup, NotifyStopped
<1>3. ASSUME NEW t \in Starters, QuietStep(t)
      PROVE  RequestInHand'
  <2>1. CASE \/ TestStop(t) \/ ReceiveNothing(t) \/ ReceiveRequestFails(t) \/ PauseEnds(t)
             \/ CreateFails(t) \/ CheckRequest(t) \/ ProcessFails(t) \/ LoopThrows(t)
             \/ ReplyFails(t) \/ DeleteFails(t)
    BY <2>1 DEF TestStop, ReceiveNothing, ReceiveRequestFails, PauseEnds, CreateFails,
       CheckRequest, ProcessFails, LoopThrows, ReplyFails, DeleteFails, Leave
  <2>2. ASSUME NEW r \in Requests, ReceiveRequest(t, r)
        PROVE  RequestInHand'
    BY <2>2 DEF ReceiveRequest
  <2>3. CASE Process(t) \/ Reply(t) \/ Delete(t)
    BY <2>3 DEF Process, Reply, Delete
  <2> QED
    BY <1>3, <2>1, <2>2, <2>3 DEF QuietStep, Handle
<1>4. ASSUME NEW s \in Stoppers, StopRequest(s) \/ StopStep(s)
      PROVE  RequestInHand'
  BY <1>4 DEF StopRequest, StopStep, DisableClient, StopWaits
<1>5. CASE QueueStep \/ UNCHANGED serverVars
  BY <1>5 DEF QueueStep, ClientSends, VisibilityEnds, serverVars
<1> QED
  BY <1>1, <1>2, <1>3, <1>4, <1>5 DEF ServerNext, LoopStep, QuietStep, QueueStep

-----------------------------------------------------------------------------

\* The invariant of start(), stop() and the receive loop together.
THEOREM ServerInvariant == ServerSpec => []ServerInv
<1>1. ServerInit => ServerInv
  <2> SUFFICES ASSUME ServerInit PROVE ServerInv
    OBVIOUS
  <2> USE DEF ServerInit
  <2>1. ServerTypeOK
    BY DEF ServerTypeOK
  <2>2. OneLoop /\ RunningIsOwned /\ LoopUsesConfig /\ ActiveIsPublished
    BY DEF OneLoop, RunningIsOwned, LoopUsesConfig, ActiveIsPublished, InStart, Published
  <2>3. StopReachesClient /\ StopNotLost /\ RequestInHand
    BY DEF StopReachesClient, StopNotLost, RequestInHand, Published
  <2> QED
    BY <2>1, <2>2, <2>3 DEF ServerInv
<1>2. ServerInv /\ [ServerNext]_serverVars => ServerInv'
  <2> SUFFICES ASSUME ServerInv, [ServerNext]_serverVars
               PROVE  ServerInv'
    OBVIOUS
  <2>1. ServerTypeOK'
    BY ServerTypeStep DEF ServerInv
  <2> QED
    BY <2>1, LoopStepInv, StopStepInv, RequestInHandStep DEF ServerInv
<1> QED
  BY <1>1, <1>2, PTL DEF ServerSpec

\* SqsServer.cpp keeps its state in the values the model gives it.
THEOREM ServerTypeCorrect == ServerSpec => []ServerTypeOK
<1>1. ServerInv => ServerTypeOK
  BY DEF ServerInv
<1> QED
  BY <1>1, ServerInvariant, PTL

\* However many threads call start(), one of them runs the loop.
THEOREM ServerHasOneLoop == ServerSpec => []OneLoop
<1>1. ServerInv => OneLoop
  BY DEF ServerInv
<1> QED
  BY <1>1, ServerInvariant, PTL

\* configure() never changes the configuration under a running loop.
THEOREM ServerLoopUsesConfig == ServerSpec => []LoopUsesConfig
<1>1. ServerInv => LoopUsesConfig
  BY DEF ServerInv
<1> QED
  BY <1>1, ServerInvariant, PTL

\* A stop() that arrives after start() has set running_ is seen by the loop.
THEOREM ServerStopNotLost == ServerSpec => []StopNotLost
<1>1. ServerInv => StopNotLost
  BY DEF ServerInv
<1> QED
  BY <1>1, ServerInvariant, PTL

\* stop() ends the long poll whichever of stop() and start() comes first at
\* activeClient_.
THEOREM ServerStopInterrupts == ServerSpec => []StopInterruptsReceive
<1>1. ServerInv => StopInterruptsReceive
  BY DEF ServerInv, StopReachesClient, StopInterruptsReceive, Published
<1> QED
  BY <1>1, ServerInvariant, PTL

\* A request leaves the queue only after its processMessage and its reply.
THEOREM ServerDeletesAfterReply == ServerSpec => DeletedAfterReply
<1> DEFINE Step == \A r \in Requests : queue[r] # "deleted" /\ queue'[r] = "deleted" =>
                       /\ r \in executed
                       /\ r \in replied \/ config = "oneWay"
<1>1. ServerInv /\ [ServerNext]_serverVars => [Step]_serverVars
  <2> SUFFICES ASSUME ServerInv, ServerNext, NEW r \in Requests,
                      queue[r] # "deleted", queue'[r] = "deleted"
               PROVE  r \in executed /\ (r \in replied \/ config = "oneWay")
    OBVIOUS
  <2> USE DEF ServerInv, ServerTypeOK
  <2>1. PICK t \in Starters : Delete(t)
    <3>1. CASE QueueStep
      BY <3>1 DEF QueueStep, ClientSends, VisibilityEnds
    <3>2. ASSUME NEW t \in Starters, NEW q \in Requests, ReceiveRequest(t, q)
          PROVE  FALSE
      BY <3>2 DEF ReceiveRequest
    <3>3. ASSUME NEW t \in Starters,
                 \/ TestStop(t) \/ ReceiveNothing(t) \/ ReceiveRequestFails(t)
                 \/ PauseEnds(t) \/ CreateFails(t) \/ CheckRequest(t)
                 \/ ProcessFails(t) \/ LoopThrows(t) \/ ReplyFails(t) \/ DeleteFails(t)
                 \/ Process(t) \/ Reply(t)
          PROVE  FALSE
      BY <3>3 DEF TestStop, ReceiveNothing, ReceiveRequestFails, PauseEnds, CreateFails,
         CheckRequest, ProcessFails, LoopThrows, ReplyFails, DeleteFails, Leave, Process, Reply
    <3>4. ASSUME NEW t \in Starters,
                 \/ Start(t) \/ CopyConfig(t) \/ CreateClient(t) \/ PublishClient(t)
                 \/ Cleanup(t) \/ NotifyStopped(t)
          PROVE  FALSE
      BY <3>4 DEF Start, CopyConfig, CreateClient, PublishClient, Cleanup, NotifyStopped
    <3>5. ASSUME \/ \E c \in {"rpc", "oneWay"} : Configure(c)
                 \/ \E s \in Stoppers : StopRequest(s) \/ StopStep(s)
          PROVE  FALSE
      BY <3>5 DEF Configure, StopRequest, StopStep, DisableClient, StopWaits
    <3> QED
      BY <3>1, <3>2, <3>3, <3>4, <3>5 DEF ServerNext, LoopStep, Handle, QueueStep
  <2>2. r = handling[t]
    BY <2>1 DEF Delete
  <2> QED
    BY <2>1, <2>2 DEF Delete, RequestInHand, LoopUsesConfig
<1> QED
  BY <1>1, ServerInvariant, PTL DEF ServerSpec, DeletedAfterReply
\* However start() and configure() race, the one loop runs on the configuration.
THEOREM ServerHasOneConfiguredLoop == ServerSpec => []OneConfiguredLoop
<1>1. OneLoop /\ LoopUsesConfig => OneConfiguredLoop
  BY DEF OneConfiguredLoop
<1> QED
  BY <1>1, ServerHasOneLoop, ServerLoopUsesConfig, PTL

\* A stop() finds its request set and the long poll interrupted, or about to be.
THEOREM ServerHearsStop == ServerSpec => []StopIsHeard
<1>1. StopNotLost /\ StopInterruptsReceive => StopIsHeard
  BY DEF StopIsHeard
<1> QED
  BY <1>1, ServerStopNotLost, ServerStopInterrupts, PTL

(***************************************************************************)
(* The client                                                              *)
(***************************************************************************)

USE DEF GoTo, pendingVars, clientVars, callVars, dispatchVars, queueVars

-----------------------------------------------------------------------------
(* The client is a user of the correlator.                                 *)

\* The messages of the model carry an id and a body.
LEMMA MessageParts == ASSUME NEW m \in Message PROVE m.id \in Ids /\ m.body \in Payloads
BY DEF Message

\* The steps that use the correlator are steps of the correlator, and the
\* others leave its variables alone.
LEMMA SqsUsesPending == TypeOK /\ [Next]_vars => [PendingNext]_pendingVars
<1> SUFFICES ASSUME TypeOK, [Next]_vars
             PROVE  PendingNext \/ UNCHANGED pendingVars
  OBVIOUS
<1>1. ASSUME NEW c \in Callers, CallerNext(c)
      PROVE  CallerStep(c) \/ UNCHANGED pendingVars
  <2>1. ASSUME NEW i \in Ids, NEW p \in Payloads, RegisterCall(c, i, p)
        PROVE  CallerStep(c)
    BY <2>1 DEF RegisterCall, CallerStep
  <2>2. CASE NotifyRegistered(c) \/ Block(c) \/ Answered(c) \/ TimesOut(c) \/ Unwind(c)
    BY <2>2 DEF NotifyRegistered, Block, Answered, TimesOut, Unwind, CallerStep
  <2>3. CASE \/ Enter(c) \/ LockStart(c) \/ SpawnDispatcher(c) \/ StoreStarted(c)
             \/ Send(c) \/ SendThrows(c)
    BY <2>3 DEF Enter, LockStart, SpawnDispatcher, StoreStarted, Send, SendThrows
  <2> QED
    BY <1>1, <2>1, <2>2, <2>3 DEF CallerNext
<1>2. ASSUME DispatcherNext
      PROVE  PendingNext \/ UNCHANGED pendingVars
  <2>1. ASSUME NEW e \in Errors, NEW m \in batch \cup taken,
               DeleteReplyFails(m, e) \/ DeliverGarbled(m, e)
        PROVE  PendingNext
    <3>1. m.id \in Ids /\ m.body \in Payloads
      BY MessageParts DEF TypeOK
    <3> QED
      BY <2>1, <3>1 DEF DeleteReplyFails, DeliverGarbled, PendingNext
  <2>2. ASSUME NEW m \in taken, Deliver(m)
        PROVE  PendingNext
    <3>1. m.id \in Ids /\ m.body \in Payloads
      BY MessageParts DEF TypeOK
    <3> QED
      BY <2>2, <3>1 DEF Deliver, PendingNext
  <2>3. CASE Poll \/ PollTimesOut \/ \E e \in Errors : ReceiveFails(e)
    BY <2>3 DEF Poll, PollTimesOut, ReceiveFails, PendingNext
  <2>4. CASE \/ TestStopping \/ BackoffEnds \/ (\E m \in batch : DeleteReply(m))
             \/ \E S \in SUBSET replies : Receive(S)
    BY <2>4 DEF TestStopping, BackoffEnds, DeleteReply, Receive
  <2> QED
    BY <1>2, <2>1, <2>2, <2>3, <2>4 DEF DispatcherNext
<1>3. ASSUME NEW e \in Errors, DtorClose(e)
      PROVE  PendingNext
  BY <1>3 DEF DtorClose, PendingNext
<1>4. CASE DtorNotify
  BY <1>4 DEF DtorNotify, PendingNext
<1>5. CASE \/ (\E i \in Ids, p \in Payloads : SendOneWay(i, p))
           \/ (\E m \in wire : GatewayReplies(m)) \/ DtorStop \/ DtorJoin
           \/ UNCHANGED vars
  BY <1>5 DEF SendOneWay, GatewayReplies, DtorStop, DtorJoin, vars
<1> QED
  BY <1>1, <1>2, <1>3, <1>4, <1>5 DEF Next, PendingNext

-----------------------------------------------------------------------------
(* The inductive invariant.                                                *)

\* What each place of Call means for the caller's ticket.
TicketShape ==
    \A c \in Callers :
        /\ at[c] \in {"registered", "sent", "unwinding"} <=> ticket[c] # "none"
        /\ ticket[c] # "none" => body[c] \in Payloads

\* started_, dispatcher_ and startMutex_: one caller makes the thread, and
\* nobody passes EnsureDispatcher before it has.
StartShape ==
    /\ \A c \in Callers : at[c] \in {"spawning", "publishing"} =>
           /\ ~started
           /\ \A d \in Callers : at[d] \in {"spawning", "publishing"} => d = c
           /\ at[c] = "spawning" => spawned = 0
           /\ at[c] = "publishing" => spawned = 1
    /\ (\A c \in Callers : at[c] # "publishing") => (started <=> spawned = 1)
    /\ spawned \in {0, 1}
    /\ spawned = 1 <=> dispatcher # "none"
    /\ \A c \in Callers : at[c] \in {"ensured", "registered", "sent", "unwinding"} => started

\* The dispatcher leaves only after the destructor, which runs without calls.
ExitShape ==
    /\ dispatcher = "exited" => life # "alive"
    /\ life # "alive" => \A c \in Callers : at[c] = "idle"

\* A correlation id names one request, in the client and in the queues.
IdsNameRequests ==
    /\ \A s, t \in spent : s[1] = t[1] => s[2] = t[2]
    /\ \A m \in wire \cup replies \cup batch \cup taken : <<m.id, m.body>> \in spent
    /\ \A c \in Callers : ticket[c] # "none" =>
           /\ <<tid[c], body[c]>> \in spent
           /\ outcome[c] \in Payloads => outcome[c] = body[c]

SqsInv ==
    /\ TypeOK
    /\ PendingInv
    /\ TicketShape
    /\ StartShape
    /\ ExitShape
    /\ IdsNameRequests
    /\ OwnReply

-----------------------------------------------------------------------------

\* The client keeps its state in the values the model gives it.
LEMMA SqsTypeStep == SqsInv /\ [Next]_vars => TypeOK'
<1> SUFFICES ASSUME SqsInv, [Next]_vars
             PROVE  TypeOK'
  OBVIOUS
<1>0. TypeOK /\ TicketShape /\ SlotsMatchTickets
  BY DEF SqsInv, PendingInv
<1>a. PendingTypeOK'
  BY SqsUsesPending, PendingTypeStep DEF TypeOK, SqsInv
<1> USE <1>0, <1>a DEF TypeOK
<1>1. ASSUME NEW c \in Callers,
             Enter(c) \/ LockStart(c) \/ SpawnDispatcher(c) \/ StoreStarted(c)
      PROVE  TypeOK'
  <2>1. CASE Enter(c) \/ LockStart(c)
    BY <2>1 DEF Enter, LockStart
  <2>2. CASE SpawnDispatcher(c)
    <3>1. spawned' \in Nat
      BY <2>2 DEF SpawnDispatcher
    <3> QED
      BY <2>2, <3>1 DEF SpawnDispatcher
  <2>3. CASE StoreStarted(c)
    BY <2>3 DEF StoreStarted
  <2> QED
    BY <1>1, <2>1, <2>2, <2>3
<1>12. ASSUME NEW c \in Callers,
              NotifyRegistered(c) \/ Block(c) \/ Answered(c) \/ TimesOut(c)
      PROVE  TypeOK'
  BY <1>12 DEF NotifyRegistered, Block, Answered, TimesOut
<1>2. ASSUME NEW c \in Callers, Send(c) \/ SendThrows(c)
      PROVE  TypeOK'
  <2>1. [id |-> tid[c], body |-> body[c]] \in Message
    BY <1>2 DEF Send, SendThrows, Message, TicketShape, SlotsMatchTickets
  <2> QED
    BY <1>2, <2>1 DEF Send, SendThrows
<1>3. ASSUME NEW c \in Callers, NEW i \in Ids, NEW p \in Payloads, RegisterCall(c, i, p)
      PROVE  TypeOK'
  BY <1>3 DEF RegisterCall
<1>4. ASSUME NEW c \in Callers, Unwind(c)
      PROVE  TypeOK'
  BY <1>4 DEF Unwind
<1>5. CASE \/ TestStopping \/ BackoffEnds \/ Poll \/ PollTimesOut
           \/ \E e \in Errors : ReceiveFails(e)
  BY <1>5 DEF TestStopping, BackoffEnds, Poll, PollTimesOut, ReceiveFails, AfterPoll
<1>6. ASSUME NEW S \in SUBSET replies, Receive(S)
      PROVE  TypeOK'
  BY <1>6 DEF Receive
<1>7. ASSUME NEW e \in Errors, NEW m \in batch \cup taken,
             DeleteReplyFails(m, e) \/ DeliverGarbled(m, e) \/ Deliver(m)
      PROVE  TypeOK'
  BY <1>7 DEF DeleteReplyFails, DeliverGarbled, Deliver, NextInBatch
<1>8. ASSUME NEW m \in batch, DeleteReply(m)
      PROVE  TypeOK'
  BY <1>8 DEF DeleteReply
<1>9. ASSUME NEW i \in Ids, NEW p \in Payloads, SendOneWay(i, p)
      PROVE  TypeOK'
  <2>1. [id |-> i, body |-> p] \in Message
    BY DEF Message
  <2> QED
    BY <1>9, <2>1 DEF SendOneWay
<1>10. CASE \/ (\E m \in wire : GatewayReplies(m)) \/ DtorStop \/ DtorNotify \/ DtorJoin
            \/ (\E e \in Errors : DtorClose(e)) \/ UNCHANGED vars
  BY <1>10 DEF GatewayReplies, DtorStop, DtorNotify, DtorJoin, DtorClose, vars
<1>11. ASSUME NEW m \in taken, Deliver(m)
       PROVE  TypeOK'
  BY <1>11 DEF Deliver, NextInBatch
<1> QED
  BY <1>1, <1>2, <1>3, <1>4, <1>5, <1>6, <1>7, <1>8, <1>9, <1>10, <1>11,
     <1>12
  DEF Next, CallerNext, DispatcherNext

\* Call keeps its place and its ticket in step.
LEMMA TicketShapeStep == SqsInv /\ [Next]_vars => TicketShape'
<1> SUFFICES ASSUME SqsInv, [Next]_vars
             PROVE  TicketShape'
  OBVIOUS
<1>0. TypeOK /\ TicketShape /\ PendingTypeOK
  BY DEF SqsInv, PendingInv
<1> USE <1>0 DEF TicketShape, TypeOK, PendingTypeOK
<1>1. ASSUME NEW c \in Callers,
             \/ Enter(c) \/ LockStart(c) \/ SpawnDispatcher(c) \/ StoreStarted(c)
             \/ Send(c) \/ SendThrows(c)
      PROVE  TicketShape'
  BY <1>1 DEF Enter, LockStart, SpawnDispatcher, StoreStarted, Send, SendThrows
<1>2. ASSUME NEW c \in Callers, NEW i \in Ids, NEW p \in Payloads, RegisterCall(c, i, p)
      PROVE  TicketShape'
  BY <1>2 DEF RegisterCall, Register
<1>3. ASSUME NEW c \in Callers,
             NotifyRegistered(c) \/ Block(c) \/ Answered(c) \/ TimesOut(c)
      PROVE  TicketShape'
  BY <1>3 DEF NotifyRegistered, RegisterNotify, Block, WaitSleeps, Answered, WaitReturns,
     TimesOut, WaitTimer, Settle
<1>4. ASSUME NEW c \in Callers, Unwind(c)
      PROVE  TicketShape'
  BY <1>4 DEF Unwind, Remove
<1>5. CASE \/ TestStopping \/ BackoffEnds \/ (\E m \in batch : DeleteReply(m))
           \/ (\E S \in SUBSET replies : Receive(S)) \/ Poll \/ PollTimesOut
  BY <1>5 DEF TestStopping, BackoffEnds, DeleteReply, Receive, Poll, PollTimesOut,
     WaitForPending, PollTimer, slotVars
<1>6. ASSUME NEW S, NEW o \in Payloads \cup Errors, MarkDone(S, o), UNCHANGED callVars
      PROVE  TicketShape'
  <2>1. \A c \in Callers : ticket'[c] # "none" <=> ticket[c] # "none"
    BY <1>6, MarkDoneFacts
  <2> QED
    BY <1>6, <2>1
<1>7. ASSUME NEW e \in Errors,
             \/ ReceiveFails(e) \/ DtorClose(e)
             \/ \E m \in batch : DeleteReplyFails(m, e)
             \/ \E m \in taken : DeliverGarbled(m, e)
      PROVE  TicketShape'
  BY <1>6, <1>7 DEF ReceiveFails, FailAll, DtorClose, Close, DeleteReplyFails,
     DeliverGarbled, Fail, Finish
<1>8. ASSUME NEW m \in taken, Deliver(m)
      PROVE  TicketShape'
  BY <1>6, <1>8, MessageParts DEF Deliver, Complete, Finish
<1>9. CASE \/ (\E i \in Ids, p \in Payloads : SendOneWay(i, p))
           \/ (\E m \in wire : GatewayReplies(m)) \/ DtorStop \/ DtorNotify \/ DtorJoin
           \/ UNCHANGED vars
  BY <1>9 DEF SendOneWay, GatewayReplies, DtorStop, DtorNotify, CloseNotify, DtorJoin, vars
<1> QED
  BY <1>1, <1>2, <1>3, <1>4, <1>5, <1>7, <1>8, <1>9 DEF Next, CallerNext, DispatcherNext

\* startMutex_ makes one dispatcher, and started_ is stored after it.
LEMMA StartShapeStep == SqsInv /\ [Next]_vars => StartShape'
<1> SUFFICES ASSUME SqsInv, [Next]_vars
             PROVE  StartShape'
  OBVIOUS
<1>0. TypeOK /\ StartShape
  BY DEF SqsInv
<1> USE <1>0 DEF StartShape, TypeOK
<1>1. ASSUME NEW c \in Callers, Enter(c)
      PROVE  StartShape'
  BY <1>1 DEF Enter
<1>2. ASSUME NEW c \in Callers, LockStart(c)
      PROVE  StartShape'
  BY <1>2 DEF LockStart, StartMutexFree
<1>3. ASSUME NEW c \in Callers, SpawnDispatcher(c)
      PROVE  StartShape'
  BY <1>3 DEF SpawnDispatcher
<1>4. ASSUME NEW c \in Callers, StoreStarted(c)
      PROVE  StartShape'
  BY <1>4 DEF StoreStarted
<1>5. ASSUME NEW c \in Callers, NEW i \in Ids, NEW p \in Payloads, RegisterCall(c, i, p)
      PROVE  StartShape'
  BY <1>5 DEF RegisterCall
<1>6. ASSUME NEW c \in Callers,
             \/ Send(c) \/ SendThrows(c) \/ NotifyRegistered(c) \/ Block(c)
             \/ Answered(c) \/ TimesOut(c) \/ Unwind(c)
      PROVE  StartShape'
  BY <1>6 DEF Send, SendThrows, NotifyRegistered, Block, Answered, TimesOut, Unwind
<1>7. ASSUME DispatcherNext
      PROVE  StartShape'
  <2>1. dispatcher # "none" /\ dispatcher' # "none" /\ UNCHANGED <<at, started, spawned>>
    BY <1>7 DEF DispatcherNext, TestStopping, Poll, PollTimesOut, AfterPoll, BackoffEnds,
       Receive, DeleteReply, Deliver, NextInBatch, ReceiveFails, DeleteReplyFails,
       DeliverGarbled
  <2> QED
    BY <2>1
<1>8. CASE \/ (\E i \in Ids, p \in Payloads : SendOneWay(i, p))
           \/ (\E m \in wire : GatewayReplies(m)) \/ DtorStop \/ DtorNotify \/ DtorJoin
           \/ (\E e \in Errors : DtorClose(e)) \/ UNCHANGED vars
  BY <1>8 DEF SendOneWay, GatewayReplies, DtorStop, DtorNotify, DtorJoin, DtorClose, vars
<1> QED
  BY <1>1, <1>2, <1>3, <1>4, <1>5, <1>6, <1>7, <1>8 DEF Next, CallerNext

\* Only the destructor lets the dispatcher go, and it runs without calls.
LEMMA ExitShapeStep == SqsInv /\ [Next]_vars => ExitShape'
<1> SUFFICES ASSUME SqsInv, [Next]_vars
             PROVE  ExitShape'
  OBVIOUS
<1>0. TypeOK /\ ExitShape /\ TicketShape
  BY DEF SqsInv
<1> USE <1>0 DEF ExitShape, TypeOK
<1>1. ASSUME NEW c \in Callers, CallerNext(c)
      PROVE  ExitShape'
  <2>1. life = "alive" /\ life' = "alive"
    <3>1. life' = life
      BY <1>1 DEF CallerNext, Enter, LockStart, SpawnDispatcher, StoreStarted,
         NotifyRegistered, Send, SendThrows, Block, Answered, TimesOut, Unwind, RegisterCall
    <3>2. life = "alive" \/ at[c] # "idle"
      BY <1>1 DEF CallerNext, Enter, LockStart, SpawnDispatcher, StoreStarted, RegisterCall,
         NotifyRegistered, RegisterNotify, Send, SendThrows, Block, Answered, TimesOut,
         Unwind, TicketShape
    <3> QED
      BY <3>1, <3>2
  <2>2. dispatcher' = dispatcher \/ dispatcher' = "looping"
    BY <1>1 DEF CallerNext, Enter, LockStart, SpawnDispatcher, StoreStarted,
       NotifyRegistered, Send, SendThrows, Block, Answered, TimesOut, Unwind, RegisterCall
  <2> QED
    BY <2>1, <2>2
<1>2. ASSUME DispatcherNext
      PROVE  ExitShape'
  <2>1. UNCHANGED <<at, life>> /\ (dispatcher' = "exited" => life # "alive")
    BY <1>2 DEF DispatcherNext, TestStopping, Poll, PollTimesOut, AfterPoll, BackoffEnds,
       Receive, DeleteReply, Deliver, NextInBatch, ReceiveFails, DeleteReplyFails,
       DeliverGarbled
  <2> QED
    BY <2>1
<1>3. CASE \/ (\E i \in Ids, p \in Payloads : SendOneWay(i, p))
           \/ (\E m \in wire : GatewayReplies(m)) \/ DtorStop \/ DtorNotify \/ DtorJoin
           \/ (\E e \in Errors : DtorClose(e)) \/ UNCHANGED vars
  BY <1>3 DEF SendOneWay, GatewayReplies, DtorStop, DtorNotify, DtorJoin, DtorClose, vars
<1> QED
  BY <1>1, <1>2, <1>3 DEF Next

-----------------------------------------------------------------------------
(* Replies and requests.                                                   *)

\* An outcome given to the slot of m's id is the reply to that slot's call.
LEMMA RightReply ==
    ASSUME TypeOK, PendingTypeOK, SlotsMatchTickets, TicketShape, IdsNameRequests,
           NEW m \in batch \cup taken, NEW c \in Callers, slots[m.id] = c
    PROVE  body[c] = m.body
<1>1. m.id \in Ids /\ m.body \in Payloads
  BY MessageParts DEF TypeOK
<1>2. tid[c] = m.id /\ ticket[c] # "none"
  BY <1>1, PendingAssumption DEF SlotsMatchTickets
<1>3. <<tid[c], body[c]>> \in spent /\ <<m.id, m.body>> \in spent
  BY <1>2 DEF IdsNameRequests
<1>4. <<tid[c], body[c]>>[1] = <<m.id, m.body>>[1]
  BY <1>2
<1>5. <<tid[c], body[c]>>[2] = <<m.id, m.body>>[2]
  BY <1>3, <1>4 DEF IdsNameRequests
<1> QED
  BY <1>5

\* Fresh ids keep every reply with its own request.
LEMMA SqsIdsStep == SqsInv /\ [Next]_vars => IdsNameRequests'
<1> SUFFICES ASSUME SqsInv, [Next]_vars
             PROVE  IdsNameRequests'
  OBVIOUS
<1>0. TypeOK /\ IdsNameRequests /\ TicketShape /\ PendingTypeOK /\ SlotsMatchTickets
  BY DEF SqsInv, PendingInv
<1> USE <1>0 DEF IdsNameRequests, TypeOK, PendingTypeOK
<1>1. ASSUME NEW c \in Callers,
             \/ Enter(c) \/ LockStart(c) \/ SpawnDispatcher(c) \/ StoreStarted(c)
      PROVE  IdsNameRequests'
  BY <1>1 DEF Enter, LockStart, SpawnDispatcher, StoreStarted
<1>2. ASSUME NEW c \in Callers, Send(c) \/ SendThrows(c)
      PROVE  IdsNameRequests'
  <2>1. <<tid[c], body[c]>> \in spent
    BY <1>2 DEF Send, SendThrows, TicketShape
  <2>2. /\ wire' \subseteq wire \cup {[id |-> tid[c], body |-> body[c]]}
        /\ UNCHANGED <<pendingVars, body, replies, batch, taken, spent>>
    BY <1>2 DEF Send, SendThrows
  <2> QED
    BY <2>1, <2>2
<1>3. ASSUME NEW c \in Callers, NEW i \in Ids, NEW p \in Payloads, RegisterCall(c, i, p)
      PROVE  IdsNameRequests'
  <2>1. /\ spent' = spent \cup {<<i, p>>}
        /\ \A s \in spent : s[1] # i
        /\ UNCHANGED <<wire, replies, batch, taken>>
    BY <1>3 DEF RegisterCall, FreshIds
  <2>2. \A s, t \in spent' : s[1] = t[1] => s[2] = t[2]
    BY <2>1
  <2>3. /\ tid' = [tid EXCEPT ![c] = i] /\ body' = [body EXCEPT ![c] = p]
        /\ outcome' = [outcome EXCEPT ![c] = "open"]
        /\ ticket' = [ticket EXCEPT ![c] = "notifying"]
    BY <1>3 DEF RegisterCall, Register
  <2>4. ASSUME NEW d \in Callers, ticket'[d] # "none"
        PROVE  /\ <<tid'[d], body'[d]>> \in spent'
               /\ outcome'[d] \in Payloads => outcome'[d] = body'[d]
    <3>1. CASE d = c
      BY <2>1, <2>3, <3>1, PendingAssumption
    <3>2. CASE d # c
      BY <2>1, <2>3, <2>4, <3>2
    <3> QED
      BY <3>1, <3>2
  <2> QED
    BY <2>1, <2>2, <2>4
<1>4. ASSUME NEW c \in Callers,
             NotifyRegistered(c) \/ Block(c) \/ Answered(c) \/ TimesOut(c)
      PROVE  IdsNameRequests'
  <2>1. /\ UNCHANGED <<outcome, tid, body, wire, replies, batch, taken, spent>>
        /\ \A d \in Callers : ticket'[d] # "none" => ticket[d] # "none"
    BY <1>4 DEF NotifyRegistered, RegisterNotify, Block, WaitSleeps, Answered,
       WaitReturns, TimesOut, WaitTimer, Settle
  <2> QED
    BY <2>1
<1>5. ASSUME NEW c \in Callers, Unwind(c)
      PROVE  IdsNameRequests'
  BY <1>5 DEF Unwind, Remove
<1>6. CASE \/ TestStopping \/ BackoffEnds \/ (\E m \in batch : DeleteReply(m))
           \/ (\E S \in SUBSET replies : Receive(S)) \/ Poll \/ PollTimesOut
  BY <1>6 DEF TestStopping, BackoffEnds, DeleteReply, Receive, Poll, PollTimesOut,
     WaitForPending, PollTimer, slotVars
<1>7. ASSUME NEW S, NEW e \in Errors, MarkDone(S, e),
             UNCHANGED <<tid, body, wire, replies, spent>>,
             batch' \subseteq batch, taken' \subseteq taken
      PROVE  IdsNameRequests'
  <2>1. e \notin Payloads
    BY PendingAssumption
  <2>2. \A c \in Callers :
           /\ outcome'[c] \in {outcome[c], e}
           /\ ticket'[c] # "none" => ticket[c] # "none"
    BY <1>7, MarkDoneFacts
  <2> QED
    BY <1>7, <2>1, <2>2
<1>8. ASSUME NEW e \in Errors,
             \/ ReceiveFails(e) \/ DtorClose(e)
             \/ \E m \in batch : DeleteReplyFails(m, e)
             \/ \E m \in taken : DeliverGarbled(m, e)
      PROVE  IdsNameRequests'
  <2>1. CASE ReceiveFails(e) \/ DtorClose(e)
    BY <1>7, <2>1 DEF ReceiveFails, FailAll, DtorClose, Close
  <2>2. ASSUME NEW m \in batch, DeleteReplyFails(m, e)
        PROVE  IdsNameRequests'
    BY <1>7, <2>2 DEF DeleteReplyFails, Fail, Finish
  <2>3. ASSUME NEW m \in taken, DeliverGarbled(m, e)
        PROVE  IdsNameRequests'
    BY <1>7, <2>3 DEF DeliverGarbled, Fail, Finish
  <2> QED
    BY <1>8, <2>1, <2>2, <2>3
<1>9. ASSUME NEW m \in taken, Deliver(m)
      PROVE  IdsNameRequests'
  <2>1. /\ MarkDone({slots[m.id]} \ {NoCaller}, m.body)
        /\ UNCHANGED <<tid, body, wire, replies, batch, spent>> /\ taken' = {}
    BY <1>9 DEF Deliver, Complete, Finish
  <2>2. m.body \in Payloads
    BY MessageParts
  <2>3. \A c \in Callers :
           /\ outcome'[c] \in {outcome[c], m.body}
           /\ outcome'[c] # outcome[c] => c = slots[m.id]
           /\ ticket'[c] # "none" => ticket[c] # "none"
    BY <2>1, <2>2, MarkDoneFacts
  <2>4. \A c \in Callers : c = slots[m.id] => body[c] = m.body
    BY RightReply
  <2> QED
    BY <2>1, <2>3, <2>4
<1>10. CASE \/ (\E m \in wire : GatewayReplies(m)) \/ DtorStop \/ DtorNotify \/ DtorJoin
            \/ UNCHANGED vars
  BY <1>10 DEF GatewayReplies, DtorStop, DtorNotify, CloseNotify, DtorJoin, vars
<1>11. ASSUME NEW i \in Ids, NEW p \in Payloads, SendOneWay(i, p)
       PROVE  IdsNameRequests'
  <2>1. /\ spent' = spent \cup {<<i, p>>}
        /\ \A s \in spent : s[1] # i
        /\ wire' \subseteq wire \cup {[id |-> i, body |-> p]}
        /\ UNCHANGED <<pendingVars, body, replies, batch, taken>>
    BY <1>11 DEF SendOneWay, FreshIds
  <2> QED
    BY <2>1
<1> QED
  BY <1>1, <1>2, <1>3, <1>4, <1>5, <1>6, <1>8, <1>9, <1>10, <1>11
  DEF Next, CallerNext, DispatcherNext

\* Wait returns what the slot of its own ticket holds.
LEMMA SqsOwnReplyStep == SqsInv /\ [Next]_vars => OwnReply'
<1> SUFFICES ASSUME SqsInv, [Next]_vars
             PROVE  OwnReply'
  OBVIOUS
<1>0. TypeOK /\ OwnReply /\ IdsNameRequests /\ PendingTypeOK
  BY DEF SqsInv, PendingInv
<1> USE <1>0 DEF OwnReply, TypeOK, PendingTypeOK
<1>1. ASSUME NEW c \in Callers,
             \/ Enter(c) \/ LockStart(c) \/ SpawnDispatcher(c) \/ StoreStarted(c)
             \/ Send(c) \/ SendThrows(c)
      PROVE  OwnReply'
  BY <1>1 DEF Enter, LockStart, SpawnDispatcher, StoreStarted, Send, SendThrows
<1>2. ASSUME NEW c \in Callers, NEW i \in Ids, NEW p \in Payloads, RegisterCall(c, i, p)
      PROVE  OwnReply'
  BY <1>2 DEF RegisterCall, Register
<1>3. ASSUME NEW c \in Callers, NotifyRegistered(c) \/ Block(c)
      PROVE  OwnReply'
  BY <1>3 DEF NotifyRegistered, RegisterNotify, Block, WaitSleeps
<1>4. ASSUME NEW c \in Callers, Answered(c) \/ TimesOut(c)
      PROVE  OwnReply'
  <2>1. /\ ticket[c] # "none" /\ UNCHANGED body
        /\ ticket' = [ticket EXCEPT ![c] = "settled"]
        /\ \E r \in {"timeout", outcome[c]} : result' = [result EXCEPT ![c] = r]
    BY <1>4 DEF Answered, WaitReturns, TimesOut, WaitTimer, Settle
  <2>2. "timeout" \notin Payloads
    BY PendingAssumption
  <2>3. result'[c] \in Payloads => result'[c] = body[c]
    <3>1. result'[c] \in {"timeout", outcome[c]}
      BY <2>1
    <3>2. outcome[c] \in Payloads => outcome[c] = body[c]
      BY <1>0, <2>1 DEF IdsNameRequests
    <3> HIDE DEF TypeOK, PendingTypeOK
    <3> QED
      BY <2>2, <3>1, <3>2
  <2>4. \A d \in Callers \ {c} : result'[d] = result[d] /\ ticket'[d] = ticket[d]
    BY <2>1
  <2> HIDE DEF TypeOK, PendingTypeOK
  <2>5. ASSUME NEW d \in Callers, ticket'[d] = "settled", result'[d] \in Payloads
        PROVE  result'[d] = body[d]
    <3>1. CASE d = c
      BY <2>3, <2>5, <3>1
    <3>2. CASE d # c
      <4>1. ticket[d] = "settled" /\ result'[d] = result[d]
        BY <2>4, <2>5, <3>2
      <4> QED
        BY <1>0, <2>5, <4>1
    <3> QED
      BY <3>1, <3>2
  <2>6. body' = body
    BY <2>1
  <2> QED
    BY <2>5, <2>6
<1>5. ASSUME NEW c \in Callers, Unwind(c)
      PROVE  OwnReply'
  BY <1>5 DEF Unwind, Remove
<1>6. CASE \/ TestStopping \/ BackoffEnds \/ (\E m \in batch : DeleteReply(m))
           \/ (\E S \in SUBSET replies : Receive(S)) \/ Poll \/ PollTimesOut
  BY <1>6 DEF TestStopping, BackoffEnds, DeleteReply, Receive, Poll, PollTimesOut,
     WaitForPending, PollTimer, slotVars
<1>7. ASSUME NEW S, NEW o \in Payloads \cup Errors, MarkDone(S, o),
             UNCHANGED <<result, body>>
      PROVE  OwnReply'
  <2>1. \A c \in Callers : ticket'[c] = "settled" => ticket[c] = "settled"
    BY <1>7, MarkDoneFacts
  <2> QED
    BY <1>7, <2>1
<1>8. ASSUME NEW e \in Errors,
             \/ ReceiveFails(e) \/ DtorClose(e)
             \/ \E m \in batch : DeleteReplyFails(m, e)
             \/ \E m \in taken : DeliverGarbled(m, e)
      PROVE  OwnReply'
  BY <1>7, <1>8 DEF ReceiveFails, FailAll, DtorClose, Close, DeleteReplyFails,
     DeliverGarbled, Fail, Finish
<1>9. ASSUME NEW m \in taken, Deliver(m)
      PROVE  OwnReply'
  BY <1>7, <1>9, MessageParts DEF Deliver, Complete, Finish
<1>10. CASE \/ (\E i \in Ids, p \in Payloads : SendOneWay(i, p))
            \/ (\E m \in wire : GatewayReplies(m)) \/ DtorStop \/ DtorNotify \/ DtorJoin
            \/ UNCHANGED vars
  BY <1>10 DEF SendOneWay, GatewayReplies, DtorStop, DtorNotify, CloseNotify, DtorJoin, vars
<1> QED
  BY <1>1, <1>2, <1>3, <1>4, <1>5, <1>6, <1>8, <1>9, <1>10
  DEF Next, CallerNext, DispatcherNext

-----------------------------------------------------------------------------

\* The inductive invariant of Call, DispatchReplies and the destructor of
\* SqsClient.cpp together.
THEOREM SqsInvariant == Spec => []SqsInv
<1>1. Init => SqsInv
  <2> SUFFICES ASSUME Init PROVE SqsInv
    OBVIOUS
  <2> USE DEF Init
  <2>1. PendingTypeOK
    BY DEF PendingInit, PendingTypeOK
  <2>2. SlotsMatchTickets /\ SleepersUnanswered
    BY DEF PendingInit, SlotsMatchTickets, SleepersUnanswered
  <2>3. ClosedAnswersAll /\ PollerAboutToBeNotified
    BY DEF PendingInit, ClosedAnswersAll, PollerAboutToBeNotified
  <2>4. TypeOK
    BY <2>1 DEF TypeOK
  <2>5. TicketShape /\ StartShape /\ ExitShape
    BY DEF TicketShape, StartShape, ExitShape, PendingInit
  <2>6. IdsNameRequests /\ OwnReply
    BY DEF IdsNameRequests, OwnReply, PendingInit
  <2> QED
    BY <2>1, <2>2, <2>3, <2>4, <2>5, <2>6 DEF SqsInv, PendingInv
<1>2. SqsInv /\ [Next]_vars => SqsInv'
  <2> SUFFICES ASSUME SqsInv, [Next]_vars
               PROVE  SqsInv'
    OBVIOUS
  <2>1. PendingInv'
    BY SqsUsesPending, PendingStep DEF SqsInv
  <2> QED
    BY <2>1, SqsTypeStep, TicketShapeStep, StartShapeStep, ExitShapeStep, SqsIdsStep,
       SqsOwnReplyStep
    DEF SqsInv
<1> QED
  BY <1>1, <1>2, PTL DEF Spec

\* SqsClient.cpp keeps its state in the values the model gives it.
THEOREM SqsTypeCorrect == Spec => []TypeOK
<1>1. SqsInv => TypeOK
  BY DEF SqsInv
<1> QED
  BY <1>1, SqsInvariant, PTL

\* EnsureDispatcher assigns dispatcher_ once, whoever races for it.
THEOREM SqsHasOneDispatcher == Spec => []OneDispatcher
<1>1. SqsInv => OneDispatcher
  BY DEF SqsInv, StartShape, OneDispatcher
<1> QED
  BY <1>1, SqsInvariant, PTL

\* A registered call always has a dispatcher that polls for its reply.
THEOREM SqsCallsArePolledFor == Spec => []CallsArePolledFor
<1>1. SqsInv => CallsArePolledFor
  <2> SUFFICES ASSUME SqsInv, NEW c \in Callers, ticket[c] # "none"
               PROVE  DispatcherAlive
    BY DEF CallsArePolledFor
  <2>1. at[c] \in {"registered", "sent", "unwinding"} /\ started
    BY DEF SqsInv, TicketShape, StartShape
  <2>2. dispatcher # "exited"
    BY <2>1 DEF SqsInv, ExitShape
  <2>3. dispatcher # "none"
    BY <2>1 DEF SqsInv, StartShape
  <2> QED
    BY <2>2, <2>3 DEF DispatcherAlive
<1> QED
  BY <1>1, SqsInvariant, PTL

\* However late or often the gateway answers, a call returns only the reply to
\* its own request.
THEOREM SqsRepliesAreOwn == Spec => []OwnReply
<1>1. SqsInv => OwnReply
  BY DEF SqsInv
<1> QED
  BY <1>1, SqsInvariant, PTL

\* The client implements the correlator's specification, hence its contract.
THEOREM SqsImplementsPending == Spec => PendingSpec
<1>1. Init => PendingInit
  BY DEF Init
<1>2. SqsInv => TypeOK
  BY DEF SqsInv
<1> QED
  BY <1>1, <1>2, SqsUsesPending, SqsInvariant, PTL DEF Spec, PendingSpec
\* One dispatcher is made, and every registered call has it.
THEOREM SqsDispatcherServesCalls == Spec => []DispatcherServesCalls
<1>1. OneDispatcher /\ CallsArePolledFor => DispatcherServesCalls
  BY DEF DispatcherServesCalls
<1> QED
  BY <1>1, SqsHasOneDispatcher, SqsCallsArePolledFor, PTL
=============================================================================
