--------------------------- MODULE RabbitMq_proofs ---------------------------
(***************************************************************************)
(* The RabbitMQ plugin.  The server, for any requests and other threads:   *)
(* stop() closes the server's own socket or none, until the loop's second  *)
(* close has hit another's; and a request is acknowledged only after its   *)
(* reply.  The client, for any number of callers, links and calls: it uses *)
(* the correlator only through its operations, no call is orphaned, no I/O *)
(* thread outlives the owners of its link, and a call gets only the reply  *)
(* to its own request.                                                     *)
(***************************************************************************)
EXTENDS RabbitMqServer, RabbitMqClient, PendingReplies_proofs, SequenceTheorems

(***************************************************************************)
(* The server                                                              *)
(***************************************************************************)

USE RabbitServerAssumption DEF MovesTo

-----------------------------------------------------------------------------
(* The inductive invariant.                                                *)

Frames == [kind : {"reply", "ack"}, request : Requests]

\* Nothing is lost if m is deleted now: it was empty, or it has been executed
\* and its reply, if it wants one, is in its queue or among the first n frames.
Served(m, n) ==
    \/ m \in Empty
    \/ /\ m \in executed
       /\ \/ m \in Silent \cup answered
          \/ \E i \in 1 .. n : pipe[i].kind = "reply" /\ pipe[i].request = m

\* An acknowledgement on its way comes after the reply.
AcksFollowReplies ==
    \A i \in 1 .. Len(pipe) : pipe[i].kind = "ack" => Served(pipe[i].request, i - 1)

\* How far onReceived has come with its request.  A reply that was sent on a
\* descriptor that is no longer the server's is followed by no acknowledgement.
HandIsServed ==
    /\ consumer \in {"handling", "replying", "acking"} => inHand \in Requests
    /\ consumer = "replying" => inHand \in executed
    /\ consumer = "acking" /\ holder[socket] = "server" => Served(inHand, Len(pipe))

\* The loop has a socket from its connection to its close, and until
\* setActiveSocket() stop() cannot have closed it.
ActiveWhileOpen ==
    /\ socket = "none" <=> consumer \in {"off", "testing", "connecting"}
    /\ consumer = "connected" => robbed \/ holder[socket] = "server"

\* Until the loop closes a number of another's, everyone has what it has opened.
NobodyIsRobbed ==
    ~robbed => \A o \in Others : held[o] # "none" => holder[held[o]] = o

RequestInv == AcksFollowReplies /\ HandIsServed
SocketInv == StopClosesOwnSocket /\ ActiveWhileOpen /\ NobodyIsRobbed
RabbitServerInv == ServerTypeOK /\ SocketInv /\ RequestInv

-----------------------------------------------------------------------------

LEMMA ServerSocketStep ==
    ServerTypeOK /\ SocketInv /\ [ServerNext]_serverVars => SocketInv'
<1> SUFFICES ASSUME ServerTypeOK, SocketInv, [ServerNext]_serverVars
             PROVE  SocketInv'
  OBVIOUS
<1>0. /\ holder \in [Numbers -> Others \cup {"nobody", "server"}]
      /\ held \in [Others -> Numbers \cup {"none"}]
      /\ socket \in Numbers \cup {"none"}
      /\ active \in Numbers \cup {"none"}
  BY DEF ServerTypeOK
<1> USE DEF SocketInv, StopClosesOwnSocket, ActiveWhileOpen, NobodyIsRobbed, socketVars
<1>1. CASE Start \/ TestOuter \/ ConnectFails \/ LeaveInner
  BY <1>1 DEF Start, TestOuter, ConnectFails, LeaveInner
<1>2. ASSUME NEW n \in Numbers, ConnectServer(n)
      PROVE  SocketInv'
  BY <1>0, <1>2 DEF ConnectServer
<1>3. CASE SetActive
  BY <1>0, <1>3 DEF SetActive
<1>4. CASE ClearActive
  BY <1>0, <1>4 DEF ClearActive
<1>5. CASE CloseSocket
  BY <1>0, <1>5 DEF CloseSocket, CloseNumber
<1>6. CASE StopRequest
  BY <1>6 DEF StopRequest
<1>7. CASE CloseActive
  BY <1>0, <1>7 DEF CloseActive, CloseNumber
<1>8. CASE (\E m \in Requests : Receive(m)) \/ Process \/ Reply \/ Ack \/ HandlerThrows
  BY <1>8 DEF Receive, Process, Reply, Ack, HandlerThrows
<1>9. ASSUME NEW o \in Others, NEW n \in Numbers, OtherOpens(o, n)
      PROVE  SocketInv'
  BY <1>0, <1>9 DEF OtherOpens
<1>10. ASSUME NEW o \in Others, OtherCloses(o)
       PROVE  SocketInv'
  BY <1>0, <1>10 DEF OtherCloses, CloseNumber
<1>11. CASE BrokerTakes \/ UNCHANGED serverVars
  BY <1>11 DEF BrokerTakes, serverVars
<1> QED
  BY <1>1, <1>2, <1>3, <1>4, <1>5, <1>6, <1>7, <1>8, <1>9, <1>10, <1>11
  DEF ServerNext, LoopNext

\* What a frame on its way has behind it stays: nothing is forgotten, and the
\* broker takes the frames in their order.
LEMMA ServedStays ==
    ASSUME NEW m, NEW n \in Nat, Served(m, n),
           executed \subseteq executed', answered \subseteq answered',
           \A i \in 1 .. n : pipe'[i] = pipe[i]
    PROVE  Served(m, n)'
BY DEF Served



\* The pipe grows and shrinks as the sequences of its frames do.
LEMMA PipeSent ==
    ASSUME pipe \in Seq(Frames), NEW kind \in {"reply", "ack"}, inHand \in Requests, Send(kind)
    PROVE  /\ pipe' \in Seq(Frames)
           /\ holder[socket] # "server" => pipe' = pipe
           /\ holder[socket] = "server" =>
                  /\ Len(pipe') = Len(pipe) + 1
                  /\ \A i \in 1 .. Len(pipe) : pipe'[i] = pipe[i]
                  /\ pipe'[Len(pipe')] = [kind |-> kind, request |-> inHand]
<1> DEFINE frame == [kind |-> kind, request |-> inHand]
<1>1. frame \in Frames
  BY DEF Frames
<1>2. pipe' = IF holder[socket] = "server" THEN Append(pipe, frame) ELSE pipe
  BY DEF Send
<1> HIDE DEF frame
<1>3. /\ Append(pipe, frame) \in Seq(Frames)
      /\ Len(Append(pipe, frame)) = Len(pipe) + 1
      /\ \A i \in 1 .. Len(pipe) : Append(pipe, frame)[i] = pipe[i]
      /\ Append(pipe, frame)[Len(pipe) + 1] = frame
  BY <1>1, AppendProperties
<1>4. CASE holder[socket] = "server"
  BY <1>2, <1>3, <1>4 DEF frame
<1>5. CASE holder[socket] # "server"
  BY <1>2, <1>5
<1> QED
  BY <1>4, <1>5

LEMMA PipeTaken ==
    ASSUME pipe \in Seq(Frames), pipe # <<>>, pipe' = Tail(pipe)
    PROVE  /\ pipe' \in Seq(Frames)
           /\ Head(pipe) = pipe[1] /\ Head(pipe) \in Frames
           /\ Len(pipe) \in Nat \ {0}
           /\ Len(pipe') = Len(pipe) - 1
           /\ \A i \in 1 .. Len(pipe') : pipe'[i] = pipe[i + 1]
BY HeadTailProperties, LenProperties, EmptySeq

LEMMA ServerTypeStep ==
    ServerTypeOK /\ RequestInv /\ [ServerNext]_serverVars => ServerTypeOK'
<1> SUFFICES ASSUME ServerTypeOK, RequestInv, [ServerNext]_serverVars
             PROVE  ServerTypeOK'
  OBVIOUS
<1> USE DEF ServerTypeOK, queueVars, socketVars, stopVars
<1>0. HandIsServed /\ pipe \in Seq(Frames)
  BY DEF RequestInv, Frames
<1>1. CASE \/ Start \/ TestOuter \/ ConnectFails \/ (\E n \in Numbers : ConnectServer(n))
           \/ SetActive \/ LeaveInner
  <2>1. <<>> \in Seq(Frames)
    BY EmptySeq
  <2>2. CASE \E n \in Numbers : ConnectServer(n)
    BY <2>1, <2>2 DEF ConnectServer, Frames
  <2>3. CASE Start \/ TestOuter \/ ConnectFails \/ SetActive \/ LeaveInner
    BY <2>3 DEF Start, TestOuter, ConnectFails, SetActive, LeaveInner
  <2> QED
    BY <1>1, <2>2, <2>3
<1>2. CASE ClearActive \/ CloseSocket \/ StopRequest \/ CloseActive
  BY <1>2 DEF ClearActive, CloseSocket, StopRequest, CloseActive, CloseNumber
<1>3. CASE (\E m \in Requests : Receive(m)) \/ Process \/ HandlerThrows
  BY <1>0, <1>3 DEF HandIsServed, Receive, Process, HandlerThrows
<1>4. CASE Reply \/ Ack
  <2>1. PICK kind \in {"reply", "ack"} : Send(kind) /\ consumer \in {"replying", "acking"}
    BY <1>4 DEF Reply, Ack
  <2>2. pipe' \in Seq(Frames)
    BY <1>0, <2>1, PipeSent DEF HandIsServed
  <2> QED
    BY <1>4, <2>2 DEF Reply, Ack, Frames
<1>5. CASE BrokerTakes
  <2>1. pipe' \in Seq(Frames) /\ Head(pipe) \in Frames
    BY <1>0, <1>5, PipeTaken DEF BrokerTakes
  <2>2. Head(pipe).request \in Requests
    BY <2>1 DEF Frames
  <2> QED
    BY <1>5, <2>1, <2>2 DEF BrokerTakes, Frames
<1>6. ASSUME NEW o \in Others, OtherCloses(o) \/ \E n \in Numbers : OtherOpens(o, n)
      PROVE  ServerTypeOK'
  BY <1>6 DEF OtherOpens, OtherCloses, CloseNumber
<1>7. CASE UNCHANGED serverVars
  BY <1>7 DEF serverVars
<1> QED
  BY <1>1, <1>2, <1>3, <1>4, <1>5, <1>6, <1>7 DEF ServerNext, LoopNext

\* Once its socket is closed the loop never has that connection again.
LEMMA SocketStaysLost ==
    ASSUME ServerTypeOK, SocketInv, NEW n,
           CloseNumber(n) \/ \E o \in Others : holder' = [holder EXCEPT ![n] = o],
           UNCHANGED socket, consumer = "acking", holder'[socket'] = "server"
    PROVE  holder[socket] = "server"
<1>1. socket \in Numbers
  BY DEF ServerTypeOK, SocketInv, ActiveWhileOpen
<1> QED
  BY <1>1 DEF ServerTypeOK, CloseNumber

LEMMA ServerRequestStep ==
    ServerTypeOK /\ SocketInv /\ RequestInv /\ [ServerNext]_serverVars => RequestInv'
<1> SUFFICES ASSUME ServerTypeOK, SocketInv, RequestInv, [ServerNext]_serverVars
             PROVE  RequestInv'
  OBVIOUS
<1>0. AcksFollowReplies /\ HandIsServed /\ pipe \in Seq(Frames) /\ Len(pipe) \in Nat
  BY LenProperties DEF RequestInv, ServerTypeOK, Frames
\* A step that leaves the pipe alone and forgets nothing.
<1>1. ASSUME UNCHANGED <<pipe, answered>>, executed \subseteq executed'
      PROVE  /\ AcksFollowReplies'
             /\ \A m : Served(m, Len(pipe)) => Served(m, Len(pipe))'
  <2>1. ASSUME NEW m, NEW n \in Nat, Served(m, n)
        PROVE  Served(m, n)'
    BY <1>1, <2>1 DEF Served
  <2> QED
    BY <1>0, <1>1, <2>1 DEF AcksFollowReplies
<1>2. CASE \/ Start \/ TestOuter \/ ConnectFails \/ SetActive \/ LeaveInner \/ ClearActive
           \/ CloseSocket \/ StopRequest \/ CloseActive \/ HandlerThrows
           \/ \E o \in Others : OtherCloses(o) \/ \E n \in Numbers : OtherOpens(o, n)
  <2>1. /\ UNCHANGED <<pipe, answered, executed>>
        /\ \/ UNCHANGED <<consumer, inHand, socket>>
           \/ consumer' \notin {"handling", "replying", "acking"}
    BY <1>2 DEF Start, TestOuter, ConnectFails, SetActive, LeaveInner, ClearActive, CloseSocket,
       StopRequest, CloseActive, OtherOpens, OtherCloses, HandlerThrows, queueVars, socketVars
  <2>2. ASSUME consumer = "acking", UNCHANGED <<consumer, socket>>, holder'[socket'] = "server"
        PROVE  holder[socket] = "server"
    <3>1. CASE UNCHANGED holder
      BY <2>2, <3>1
    <3>2. CASE holder' # holder
      <4>1. \E n : CloseNumber(n) \/ \E o \in Others : holder' = [holder EXCEPT ![n] = o]
        BY <1>2, <2>2, <3>2 DEF Start, TestOuter, ConnectFails, SetActive, LeaveInner,
           ClearActive, CloseSocket, StopRequest, CloseActive, OtherOpens, OtherCloses,
           HandlerThrows, socketVars
      <4> QED
        BY <2>2, <4>1, SocketStaysLost
    <3> QED
      BY <3>1, <3>2
  <2> QED
    BY <1>0, <1>1, <2>1, <2>2 DEF HandIsServed, RequestInv
<1>3. CASE \E n \in Numbers : ConnectServer(n)
  BY <1>3 DEF ConnectServer, RequestInv, AcksFollowReplies, HandIsServed
<1>4. ASSUME NEW m \in Requests, Receive(m)
      PROVE  RequestInv'
  <2>1. /\ UNCHANGED <<pipe, answered, executed>> /\ inHand' = m
        /\ consumer' = IF m \in Empty THEN "acking" ELSE "handling"
    BY <1>4 DEF Receive, queueVars
  <2>2. m \in Empty => Served(m, Len(pipe))'
    BY DEF Served
  <2> QED
    BY <1>1, <2>1, <2>2 DEF HandIsServed, RequestInv
<1>5. CASE Process
  <2>1. /\ UNCHANGED <<pipe, answered, inHand>> /\ executed' = executed \cup {inHand}
        /\ consumer = "handling"
        /\ consumer' = IF inHand \in Silent THEN "acking" ELSE "replying"
    BY <1>5 DEF Process
  <2>2. inHand \in Silent => Served(inHand, Len(pipe))'
    BY <2>1 DEF Served
  <2> QED
    BY <1>0, <1>1, <2>1, <2>2 DEF HandIsServed, RequestInv
<1>6. CASE Reply
  <2>1. /\ consumer = "replying" /\ consumer' = "acking" /\ Send("reply")
        /\ UNCHANGED <<executed, answered, inHand, holder, socket>>
    BY <1>6 DEF Reply, socketVars
  <2>2. inHand \in Requests /\ inHand \in executed
    BY <1>0, <2>1 DEF HandIsServed
  <2>3. CASE holder[socket] = "server"
    <3>1. /\ Len(pipe') = Len(pipe) + 1
          /\ \A i \in 1 .. Len(pipe) : pipe'[i] = pipe[i]
          /\ pipe'[Len(pipe')] = [kind |-> "reply", request |-> inHand]
      BY <1>0, <2>1, <2>2, <2>3, PipeSent
    <3>2. Served(inHand, Len(pipe))'
      BY <1>0, <2>1, <2>2, <3>1 DEF Served
    <3>3. ASSUME NEW i \in 1 .. Len(pipe'), pipe'[i].kind = "ack"
          PROVE  Served(pipe[i].request, i - 1)'
      <4>1. i \in 1 .. Len(pipe) /\ pipe'[i] = pipe[i]
        BY <1>0, <3>1, <3>3
      <4>2. Served(pipe[i].request, i - 1)
        BY <1>0, <3>3, <4>1 DEF AcksFollowReplies
      <4>3. \A j \in 1 .. i - 1 : pipe'[j] = pipe[j]
        BY <1>0, <3>1, <4>1
      <4> QED
        BY <1>0, <2>1, <4>1, <4>2, <4>3, ServedStays
    <3> QED
      BY <2>1, <2>2, <3>2, <3>3 DEF RequestInv, AcksFollowReplies, HandIsServed
  <2>4. CASE holder[socket] # "server"
    <3>1. pipe' = pipe
      BY <1>0, <2>1, <2>2, <2>4, PipeSent
    <3> QED
      BY <1>1, <2>1, <2>2, <2>4, <3>1 DEF RequestInv, HandIsServed
  <2> QED
    BY <2>3, <2>4
<1>7. CASE Ack
  <2>1. /\ consumer = "acking" /\ consumer' = "consuming" /\ Send("ack")
        /\ UNCHANGED <<executed, answered, holder, socket>>
    BY <1>7 DEF Ack, socketVars
  <2>2. inHand \in Requests /\ (holder[socket] = "server" => Served(inHand, Len(pipe)))
    BY <1>0, <2>1 DEF HandIsServed
  <2>3. HandIsServed'
    BY <2>1 DEF HandIsServed
  <2>4. CASE holder[socket] = "server"
    <3>1. /\ Len(pipe') = Len(pipe) + 1
          /\ \A i \in 1 .. Len(pipe) : pipe'[i] = pipe[i]
          /\ pipe'[Len(pipe')] = [kind |-> "ack", request |-> inHand]
      BY <1>0, <2>1, <2>2, <2>4, PipeSent
    <3>2. ASSUME NEW i \in 1 .. Len(pipe'), pipe'[i].kind = "ack"
          PROVE  Served(pipe[i].request, i - 1)'
      <4>1. Served(pipe'[i].request, i - 1)
        <5>1. CASE i \in 1 .. Len(pipe)
          BY <1>0, <3>1, <3>2, <5>1 DEF AcksFollowReplies
        <5>2. CASE i = Len(pipe')
          <6>1. i - 1 = Len(pipe) /\ pipe'[i].request = inHand
            BY <1>0, <3>1, <5>2
          <6> QED
            BY <2>2, <2>4, <6>1
        <5> QED
          BY <1>0, <3>1, <5>1, <5>2
      <4>2. i - 1 \in Nat /\ \A j \in 1 .. i - 1 : pipe'[j] = pipe[j]
        BY <1>0, <3>1, <3>2
      <4> QED
        BY <2>1, <4>1, <4>2, ServedStays
    <3> QED
      BY <2>3, <3>2 DEF RequestInv, AcksFollowReplies
  <2>5. CASE holder[socket] # "server"
    <3>1. pipe' = pipe
      BY <1>0, <2>1, <2>2, <2>5, PipeSent
    <3> QED
      BY <1>1, <2>1, <2>3, <3>1 DEF RequestInv
  <2> QED
    BY <2>4, <2>5
<1>8. CASE BrokerTakes
  <2>1. /\ pipe # <<>> /\ pipe' = Tail(pipe)
        /\ UNCHANGED <<executed, consumer, inHand, holder, socket>>
        /\ answered' = IF Head(pipe).kind = "ack" THEN answered
                       ELSE answered \cup {Head(pipe).request}
    BY <1>8 DEF BrokerTakes, socketVars
  <2>2. /\ Head(pipe) = pipe[1]
        /\ Len(pipe') = Len(pipe) - 1
        /\ \A i \in 1 .. Len(pipe') : pipe'[i] = pipe[i + 1]
    BY <1>0, <2>1, PipeTaken
  <2>3. ASSUME NEW m, NEW n \in 1 .. Len(pipe), Served(m, n)
        PROVE  Served(m, n - 1)'
    <3>1. CASE \E i \in 1 .. n : pipe[i].kind = "reply" /\ pipe[i].request = m
      <4>1. PICK i \in 1 .. n : pipe[i].kind = "reply" /\ pipe[i].request = m
        BY <3>1
      <4>2. CASE i = 1
        BY <2>1, <2>2, <2>3, <4>1, <4>2 DEF Served
      <4>3. CASE i # 1
        <5>1. i - 1 \in 1 .. n - 1 /\ pipe'[i - 1] = pipe[i]
          BY <1>0, <2>2, <4>3
        <5> QED
          BY <2>1, <2>3, <4>1, <5>1 DEF Served
      <4> QED
        BY <4>2, <4>3
    <3>2. CASE ~ \E i \in 1 .. n : pipe[i].kind = "reply" /\ pipe[i].request = m
      BY <2>1, <2>3, <3>2 DEF Served
    <3> QED
      BY <3>1, <3>2
  <2>4. AcksFollowReplies'
    <3> SUFFICES ASSUME NEW i \in 1 .. Len(pipe'), pipe'[i].kind = "ack"
                 PROVE  Served(pipe[i].request, i - 1)'
      BY DEF AcksFollowReplies
    <3>1. i + 1 \in 1 .. Len(pipe) /\ pipe'[i] = pipe[i + 1] /\ i \in 1 .. Len(pipe)
      BY <1>0, <2>2
    <3>2. Served(pipe'[i].request, i)
      BY <1>0, <3>1 DEF AcksFollowReplies
    <3> QED
      BY <2>3, <3>1, <3>2
  <2>5. HandIsServed'
    <3>1. Len(pipe) \in 1 .. Len(pipe)
      BY <1>0, <2>1, PipeTaken
    <3>2. Served(inHand, Len(pipe)) => Served(inHand, Len(pipe))'
      BY <2>1, <2>2, <2>3, <3>1
    <3> QED
      BY <1>0, <2>1, <3>2 DEF HandIsServed
  <2> QED
    BY <2>4, <2>5 DEF RequestInv
<1>9. CASE UNCHANGED serverVars
  BY <1>9 DEF serverVars, queueVars, socketVars, RequestInv, AcksFollowReplies, HandIsServed, Served
<1> QED
  BY <1>2, <1>3, <1>4, <1>5, <1>6, <1>7, <1>8, <1>9 DEF ServerNext, LoopNext

-----------------------------------------------------------------------------

\* The socket, the handler and the frames on their way together.
THEOREM RabbitServerInvariant == ServerSpec => []RabbitServerInv
<1>1. ServerInit => RabbitServerInv
  <2> SUFFICES ASSUME ServerInit PROVE RabbitServerInv
    OBVIOUS
  <2> USE DEF ServerInit
  <2>1. pipe \in Seq(Frames) /\ Len(pipe) = 0
    BY EmptySeq
  <2>2. ServerTypeOK
    BY <2>1 DEF ServerTypeOK, Frames
  <2>3. SocketInv
    BY DEF SocketInv, StopClosesOwnSocket, ActiveWhileOpen, NobodyIsRobbed
  <2>4. RequestInv
    BY <2>1 DEF RequestInv, AcksFollowReplies, HandIsServed
  <2> QED
    BY <2>2, <2>3, <2>4 DEF RabbitServerInv
<1>2. RabbitServerInv /\ [ServerNext]_serverVars => RabbitServerInv'
  BY ServerSocketStep, ServerTypeStep, ServerRequestStep DEF RabbitServerInv
<1> QED
  BY <1>1, <1>2, PTL DEF ServerSpec

\* However many other threads open and close descriptors, stop() closes the
\* loop's present socket or none; and that is the server's own, until the loop's
\* second close of a number that stop() has closed hits another thread.
THEOREM StopClosesOwn == ServerSpec => []StopClosesOwnSocket
<1>1. RabbitServerInv => StopClosesOwnSocket
  BY DEF RabbitServerInv, SocketInv
<1> QED
  BY <1>1, RabbitServerInvariant, PTL

\* A request leaves the queue only when it has been executed and answered: the
\* acknowledgement is behind the reply in the one connection, or lost with it.
THEOREM ServerAcksAfterReply == ServerSpec => AckedAfterReply
<1> DEFINE Step == \A m \in queue \ queue' :
                       \/ m \in Empty
                       \/ m \in executed /\ m \in Silent \cup answered
<1>1. RabbitServerInv /\ [ServerNext]_serverVars => [Step]_serverVars
  <2> SUFFICES ASSUME RabbitServerInv, ServerNext, NEW m \in queue \ queue'
               PROVE  \/ m \in Empty
                      \/ m \in executed /\ m \in Silent \cup answered
    OBVIOUS
  <2>1. /\ BrokerTakes /\ Head(pipe).kind = "ack" /\ m = Head(pipe).request
    BY DEF ServerNext, LoopNext, Start, TestOuter, ConnectFails, ConnectServer, SetActive,
       LeaveInner, ClearActive, CloseSocket, StopRequest, CloseActive, Receive, Process, Reply,
       Ack, HandlerThrows, BrokerTakes, OtherOpens, OtherCloses, queueVars
  <2>2. pipe \in Seq(Frames) /\ pipe # <<>> /\ pipe' = Tail(pipe)
    BY <2>1 DEF BrokerTakes, RabbitServerInv, ServerTypeOK, Frames
  <2>3. Head(pipe) = pipe[1] /\ 1 \in 1 .. Len(pipe)
    BY <2>2, PipeTaken
  <2>4. Served(m, 0)
    BY <2>1, <2>3 DEF RabbitServerInv, RequestInv, AcksFollowReplies
  <2> QED
    BY <2>4 DEF Served
<1> QED
  BY <1>1, RabbitServerInvariant, PTL DEF ServerSpec, AckedAfterReply

(***************************************************************************)
(* The client                                                              *)
(***************************************************************************)

USE RabbitMqAssumption
USE DEF GoTo, Holding, pendingVars, clientVars, callVars, linkVars, brokerVars

-----------------------------------------------------------------------------
(* The client is a user of the correlator.                                 *)

\* The steps that use the correlator are steps of the correlator, and the
\* others leave its variables alone.
LEMMA ClientUsesPending == TypeOK /\ [Next]_vars => [PendingNext]_pendingVars
<1> SUFFICES ASSUME TypeOK, [Next]_vars
             PROVE  PendingNext \/ UNCHANGED pendingVars
  OBVIOUS
<1>1. ASSUME NEW c \in Callers, CallerNext(c)
      PROVE  CallerStep(c) \/ UNCHANGED pendingVars
  <2>1. ASSUME NEW i \in Ids, NEW p \in Payloads, RegisterCall(c, i, p)
        PROVE  CallerStep(c)
    BY <2>1 DEF RegisterCall, CallerStep
  <2>2. CASE NotifyRegistered(c) \/ Block(c) \/ Answered(c) \/ TimesOut(c) \/ Unwind(c)
    BY <2>2 DEF NotifyRegistered, Block, Answered, TimesOut, Unwind, CallerStep
  <2>3. CASE \/ LockLink(c) \/ ReuseLink(c) \/ ResetLink(c) \/ JoinReplaced(c)
             \/ ConnectThrows(c) \/ LinkReady(c) \/ LinkNotReady(c) \/ JoinAborted(c)
             \/ Publish(c) \/ PublishThrows(c) \/ ReleaseLink(c) \/ JoinReleased(c)
             \/ \E l \in Links : Connect(c, l)
    BY <2>3 DEF LockLink, ReuseLink, ResetLink, JoinReplaced, ConnectThrows, LinkReady,
       LinkNotReady, JoinAborted, Publish, PublishThrows, ReleaseLink, JoinReleased, Connect
  <2> QED
    BY <1>1, <2>1, <2>2, <2>3 DEF CallerNext
<1>2. ASSUME NEW l \in Links, IoNext(l)
      PROVE  PendingNext \/ UNCHANGED pendingVars
  <2>1. ASSUME NEW m \in replies, OnReceived(l, m)
        PROVE  PendingNext
    <3>1. m.id \in Ids /\ m.body \in Payloads
      BY DEF TypeOK, Message
    <3> QED
      BY <2>1, <3>1 DEF OnReceived, PendingNext
  <2>2. ASSUME NEW e \in Errors, DisconnectFailAll(l, e)
        PROVE  PendingNext
    BY <2>2 DEF DisconnectFailAll, PendingNext
  <2>3. CASE ConsumerReady(l) \/ Disconnect(l) \/ IoStops(l)
    BY <2>3 DEF ConsumerReady, Disconnect, IoStops
  <2> QED
    BY <1>2, <2>1, <2>2, <2>3 DEF IoNext
<1>3. ASSUME NEW e \in Errors, DtorClose(e)
      PROVE  PendingNext
  BY <1>3 DEF DtorClose, PendingNext
<1>4. CASE DtorNotify
  BY <1>4 DEF DtorNotify, PendingNext
<1>5. ASSUME (\E m \in wire : GatewayReplies(m)) \/ DtorReset \/ DtorJoin \/ UNCHANGED vars
      PROVE  UNCHANGED pendingVars
  BY <1>5 DEF GatewayReplies, DtorReset, DtorJoin, vars
<1> QED
  BY <1>1, <1>2, <1>3, <1>4, <1>5 DEF Next, PendingNext

-----------------------------------------------------------------------------
(* The inductive invariant.                                                *)

\* What each place of Call means for the caller's link, ticket and request.
CallShape ==
    \A c \in Callers :
        /\ at[c] \in {"idle", "locked", "connecting"} <=> holds[c] = NoLink
        /\ at[c] \in {"registered", "published", "unwinding"} <=> ticket[c] # "none"
        /\ ticket[c] # "none" => body[c] \in Payloads

\* linkMutex_ has one holder, and link_ is null while it replaces the link.
LinkMutex ==
    \A c \in Callers : at[c] \in UnderLinkMutex =>
        /\ \A d \in Callers : at[d] \in UnderLinkMutex => d = c
        /\ at[c] # "locked" => link = NoLink

\* A thread inside the constructor or destructor of a Link is its only owner.
SoleOwners ==
    \A c \in Callers :
        at[c] \in {"joining", "building", "aborting", "closing"} =>
            link # holds[c] /\ \A d \in Callers \ {c} : holds[d] # holds[c]

\* stopping_ is only set by an owner that destroys the link.
StoppedByOwner ==
    \A l \in Links : stopping[l] =>
        /\ link = l => life = "joining"
        /\ \A c \in Callers : holds[c] = l => at[c] \in {"joining", "aborting", "closing"}

\* An I/O thread only ends by Disconnect or by stopping_, and it has an owner
\* until then.
IoLifeCycle ==
    \A l \in Links :
        /\ io[l] = "none" =>
               link # l /\ ~stopping[l] /\ \A c \in Callers : holds[c] # l
        /\ io[l] = "failing" => broken[l]
        /\ io[l] = "exited" => broken[l] \/ stopping[l]
        /\ io[l] \in {"starting", "running", "failing"} =>
               link = l \/ \E c \in Callers : holds[c] = l

\* The destructor runs when no call is in progress, and drops link_ last.
DtorShape ==
    /\ life # "alive" => \A c \in Callers : at[c] = "idle"
    /\ life = "gone" => link = NoLink

\* A correlation id names one request, in the client and on the wire.
IdsNameRequests ==
    /\ \A s, t \in spent : s[1] = t[1] => s[2] = t[2]
    /\ \A m \in wire \cup replies : <<m.id, m.body>> \in spent
    /\ \A c \in Callers : ticket[c] # "none" =>
           /\ <<tid[c], body[c]>> \in spent
           /\ outcome[c] \in Payloads => outcome[c] = body[c]

ClientInv ==
    /\ TypeOK
    /\ PendingInv
    /\ CallShape
    /\ LinkMutex
    /\ SoleOwners
    /\ StoppedByOwner
    /\ IoLifeCycle
    /\ DtorShape
    /\ IdsNameRequests
    /\ NoOrphanedCall
    /\ OwnReply

-----------------------------------------------------------------------------

\* The client keeps its state in the values the model gives it.
LEMMA TypeStep == ClientInv /\ [Next]_vars => TypeOK'
<1> SUFFICES ASSUME ClientInv, [Next]_vars
             PROVE  TypeOK'
  OBVIOUS
<1>0. TypeOK /\ CallShape /\ SlotsMatchTickets
  BY DEF ClientInv, PendingInv
<1>a. PendingTypeOK'
  BY ClientUsesPending, PendingTypeStep DEF TypeOK, ClientInv
<1> USE <1>0, <1>a DEF TypeOK, UnderLinkMutex
<1>1. ASSUME NEW c \in Callers,
              \/ LockLink(c) \/ JoinReplaced(c) \/ ConnectThrows(c) \/ LinkNotReady(c)
              \/ JoinAborted(c)
      PROVE  TypeOK'
  BY <1>1 DEF LockLink, JoinReplaced, ConnectThrows, LinkNotReady, JoinAborted
<1>11. ASSUME NEW c \in Callers, NEW l \in Links, Connect(c, l)
      PROVE  TypeOK'
  BY <1>11 DEF Connect
<1>8. ASSUME NEW c \in Callers, ReuseLink(c)
      PROVE  TypeOK'
  BY <1>8 DEF ReuseLink
<1>9. ASSUME NEW c \in Callers, ResetLink(c)
      PROVE  TypeOK'
  BY <1>9 DEF ResetLink
<1>10. ASSUME NEW c \in Callers, LinkReady(c)
      PROVE  TypeOK'
  BY <1>10 DEF LinkReady
<1>7. ASSUME NEW c \in Callers,
              \/ NotifyRegistered(c) \/ PublishThrows(c) \/ Block(c) \/ Answered(c)
              \/ TimesOut(c) \/ ReleaseLink(c) \/ JoinReleased(c)
      PROVE  TypeOK'
  BY <1>7
  DEF NotifyRegistered, PublishThrows, Block, Answered, TimesOut, ReleaseLink,
      JoinReleased
<1>2. ASSUME NEW l \in Links,
              \/ ConsumerReady(l) \/ (\E m \in replies : OnReceived(l, m))
              \/ Disconnect(l) \/ (\E e \in Errors : DisconnectFailAll(l, e))
              \/ IoStops(l)
      PROVE  TypeOK'
  BY <1>2 DEF ConsumerReady, OnReceived, Disconnect, DisconnectFailAll, IoStops
<1>3. CASE \/ (\E m \in wire : GatewayReplies(m)) \/ (\E e \in Errors : DtorClose(e))
           \/ DtorNotify \/ DtorReset \/ DtorJoin \/ UNCHANGED vars
  BY <1>3 DEF GatewayReplies, DtorClose, DtorNotify, DtorReset, DtorJoin, vars
<1>4. ASSUME NEW c \in Callers, NEW i \in Ids, NEW p \in Payloads, RegisterCall(c, i, p)
      PROVE  TypeOK'
  BY <1>4 DEF RegisterCall, FreshIds, FreshBodies
<1>5. ASSUME NEW c \in Callers, Publish(c)
      PROVE  TypeOK'
  BY <1>5 DEF Publish, Message, CallShape, SlotsMatchTickets
<1>6. ASSUME NEW c \in Callers, Unwind(c)
      PROVE  TypeOK'
  BY <1>6 DEF Unwind
<1> QED
  BY <1>1, <1>2, <1>3, <1>4, <1>5, <1>6, <1>7, <1>8, <1>9, <1>10,
     <1>11
  DEF Next, CallerNext, IoNext

\* Call moves through its places with its link, ticket and request in step.
LEMMA CallShapeStep == ClientInv /\ [Next]_vars => CallShape'
<1> SUFFICES ASSUME ClientInv, [Next]_vars
             PROVE  CallShape'
  OBVIOUS
<1>0. TypeOK /\ CallShape /\ PendingTypeOK
  BY DEF ClientInv, PendingInv
<1> USE <1>0 DEF CallShape, TypeOK, PendingTypeOK
<1>1. ASSUME NEW c \in Callers,
              \/ LockLink(c) \/ ReuseLink(c) \/ ResetLink(c) \/ JoinReplaced(c)
              \/ ConnectThrows(c) \/ LinkReady(c) \/ LinkNotReady(c) \/ JoinAborted(c)
              \/ Publish(c) \/ PublishThrows(c) \/ JoinReleased(c)
      PROVE  CallShape'
  BY <1>1
  DEF LockLink, ReuseLink, ResetLink, JoinReplaced, ConnectThrows, LinkReady,
      LinkNotReady, JoinAborted, Publish, PublishThrows, JoinReleased
<1>2. ASSUME NEW l \in Links,
              \/ ConsumerReady(l) \/ Disconnect(l) \/ IoStops(l)
      PROVE  CallShape'
  BY <1>2 DEF ConsumerReady, Disconnect, IoStops
<1>3. CASE \/ (\E m \in wire : GatewayReplies(m)) \/ DtorReset \/ DtorJoin
           \/ UNCHANGED vars
  BY <1>3 DEF GatewayReplies, DtorReset, DtorJoin, vars
<1>4. ASSUME NEW c \in Callers, NEW l \in Links, Connect(c, l)
      PROVE  CallShape'
  BY <1>4 DEF Connect
<1>5. ASSUME NEW c \in Callers, NEW i \in Ids, NEW p \in Payloads, RegisterCall(c, i, p)
      PROVE  CallShape'
  BY <1>5 DEF RegisterCall, Register
<1>6. ASSUME NEW c \in Callers, NotifyRegistered(c)
      PROVE  CallShape'
  BY <1>6 DEF NotifyRegistered, RegisterNotify, NotifyPoller
<1>7. ASSUME NEW c \in Callers, Block(c)
      PROVE  CallShape'
  BY <1>7 DEF Block, WaitSleeps
<1>8. ASSUME NEW c \in Callers, Answered(c)
      PROVE  CallShape'
  BY <1>8 DEF Answered, WaitReturns, Settle
<1>9. ASSUME NEW c \in Callers, TimesOut(c)
      PROVE  CallShape'
  BY <1>9 DEF TimesOut, WaitTimer, Settle
<1>10. ASSUME NEW c \in Callers, Unwind(c)
      PROVE  CallShape'
  BY <1>10 DEF Unwind, Remove
<1>11. ASSUME NEW c \in Callers, ReleaseLink(c)
      PROVE  CallShape'
  BY <1>11 DEF ReleaseLink, LastRef
<1>12. ASSUME NEW l \in Links, NEW m \in replies, OnReceived(l, m)
      PROVE  CallShape'
  BY <1>12 DEF OnReceived, Complete, Finish, MarkDone
<1>13. ASSUME NEW l \in Links, NEW e \in Errors, DisconnectFailAll(l, e)
      PROVE  CallShape'
  BY <1>13 DEF DisconnectFailAll, FailAll, MarkDone
<1>14. ASSUME NEW e \in Errors, DtorClose(e)
      PROVE  CallShape'
  BY <1>14 DEF DtorClose, Close, MarkDone
<1>15. CASE DtorNotify
  BY <1>15 DEF DtorNotify, CloseNotify, NotifyPoller
<1> QED
  BY <1>1, <1>2, <1>3, <1>4, <1>5, <1>6, <1>7, <1>8, <1>9, <1>10, <1>11, <1>12, <1>13,
     <1>14, <1>15
  DEF Next, CallerNext, IoNext

\* CurrentLink keeps linkMutex_ from its lock to its return.
LEMMA LinkMutexStep == ClientInv /\ [Next]_vars => LinkMutex'
<1> SUFFICES ASSUME ClientInv, [Next]_vars
             PROVE  LinkMutex'
  OBVIOUS
<1>0. TypeOK /\ LinkMutex /\ DtorShape
  BY DEF ClientInv
<1> USE <1>0 DEF LinkMutex, TypeOK, UnderLinkMutex
<1>1. ASSUME NEW c \in Callers,
              \/ ReuseLink(c) \/ JoinReplaced(c) \/ ConnectThrows(c) \/ LinkNotReady(c)
              \/ JoinAborted(c)
              \/ (\E i \in Ids, p \in Payloads : RegisterCall(c, i, p))
              \/ NotifyRegistered(c) \/ Publish(c) \/ PublishThrows(c) \/ Block(c)
              \/ Answered(c) \/ TimesOut(c) \/ Unwind(c) \/ ReleaseLink(c)
              \/ JoinReleased(c)
      PROVE  LinkMutex'
  BY <1>1
  DEF ReuseLink, JoinReplaced, ConnectThrows, LinkNotReady, JoinAborted, RegisterCall,
      NotifyRegistered, Publish, PublishThrows, Block, Answered, TimesOut, Unwind,
      ReleaseLink, JoinReleased
<1>2. ASSUME NEW l \in Links,
              \/ ConsumerReady(l) \/ (\E m \in replies : OnReceived(l, m))
              \/ Disconnect(l) \/ (\E e \in Errors : DisconnectFailAll(l, e))
              \/ IoStops(l)
      PROVE  LinkMutex'
  BY <1>2 DEF ConsumerReady, OnReceived, Disconnect, DisconnectFailAll, IoStops
<1>3. CASE \/ (\E m \in wire : GatewayReplies(m)) \/ (\E e \in Errors : DtorClose(e))
           \/ DtorNotify \/ DtorReset \/ UNCHANGED vars
  BY <1>3 DEF GatewayReplies, DtorClose, DtorNotify, DtorReset, vars
<1>4. ASSUME NEW c \in Callers, LockLink(c)
      PROVE  LinkMutex'
  BY <1>4 DEF LockLink, LinkMutexFree
<1>5. ASSUME NEW c \in Callers, ResetLink(c)
      PROVE  LinkMutex'
  BY <1>5 DEF ResetLink
<1>6. ASSUME NEW c \in Callers, NEW l \in Links, Connect(c, l)
      PROVE  LinkMutex'
  BY <1>6 DEF Connect
<1>7. ASSUME NEW c \in Callers, LinkReady(c)
      PROVE  LinkMutex'
  BY <1>7 DEF LinkReady
<1>8. CASE DtorJoin
  BY <1>8 DEF DtorJoin, DtorShape
<1> QED
  BY <1>1, <1>2, <1>3, <1>4, <1>5, <1>6, <1>7, <1>8
  DEF Next, CallerNext, IoNext

\* Constructors and destructors of links keep to themselves.
LEMMA SoleOwnersStep == ClientInv /\ [Next]_vars => SoleOwners'
<1> SUFFICES ASSUME ClientInv, [Next]_vars
             PROVE  SoleOwners'
  OBVIOUS
<1>0. TypeOK /\ SoleOwners /\ CallShape /\ IoLifeCycle
  BY DEF ClientInv
<1> USE <1>0 DEF SoleOwners, TypeOK, CallShape
<1>1. ASSUME NEW c \in Callers,
              \/ LockLink(c) \/ JoinReplaced(c) \/ ConnectThrows(c) \/ LinkNotReady(c)
              \/ JoinAborted(c)
              \/ (\E i \in Ids, p \in Payloads : RegisterCall(c, i, p))
              \/ NotifyRegistered(c) \/ Publish(c) \/ PublishThrows(c) \/ Block(c)
              \/ Answered(c) \/ TimesOut(c) \/ Unwind(c) \/ JoinReleased(c)
      PROVE  SoleOwners'
  BY <1>1
  DEF LockLink, JoinReplaced, ConnectThrows, LinkNotReady, JoinAborted, RegisterCall,
      NotifyRegistered, Publish, PublishThrows, Block, Answered, TimesOut, Unwind,
      JoinReleased
<1>2. ASSUME NEW l \in Links,
              \/ ConsumerReady(l) \/ (\E m \in replies : OnReceived(l, m))
              \/ Disconnect(l) \/ (\E e \in Errors : DisconnectFailAll(l, e))
              \/ IoStops(l)
      PROVE  SoleOwners'
  BY <1>2 DEF ConsumerReady, OnReceived, Disconnect, DisconnectFailAll, IoStops
<1>3. CASE \/ (\E m \in wire : GatewayReplies(m)) \/ (\E e \in Errors : DtorClose(e))
           \/ DtorNotify \/ DtorReset \/ UNCHANGED vars
  BY <1>3 DEF GatewayReplies, DtorClose, DtorNotify, DtorReset, vars
<1>4. ASSUME NEW c \in Callers, ReuseLink(c)
      PROVE  SoleOwners'
  BY <1>4 DEF ReuseLink
<1>5. ASSUME NEW c \in Callers, ResetLink(c)
      PROVE  SoleOwners'
  BY <1>5 DEF ResetLink
<1>6. ASSUME NEW c \in Callers, NEW l \in Links, Connect(c, l)
      PROVE  SoleOwners'
  BY <1>6 DEF Connect, IoLifeCycle
<1>7. ASSUME NEW c \in Callers, LinkReady(c)
      PROVE  SoleOwners'
  BY <1>7 DEF LinkReady
<1>8. ASSUME NEW c \in Callers, ReleaseLink(c)
      PROVE  SoleOwners'
  BY <1>8 DEF ReleaseLink, LastRef
<1>9. CASE DtorJoin
  BY <1>9 DEF DtorJoin
<1> QED
  BY <1>1, <1>2, <1>3, <1>4, <1>5, <1>6, <1>7, <1>8, <1>9
  DEF Next, CallerNext, IoNext

\* No thread asks a link to stop while another can still use it.
LEMMA StoppedByOwnerStep == ClientInv /\ [Next]_vars => StoppedByOwner'
<1> SUFFICES ASSUME ClientInv, [Next]_vars
             PROVE  StoppedByOwner'
  OBVIOUS
<1>0. TypeOK /\ StoppedByOwner /\ CallShape /\ DtorShape /\ SoleOwners /\
      IoLifeCycle
  BY DEF ClientInv
<1> USE <1>0 DEF StoppedByOwner, TypeOK, CallShape, DtorShape
<1>1. ASSUME NEW c \in Callers,
              \/ JoinReplaced(c) \/ ConnectThrows(c) \/ JoinAborted(c)
              \/ (\E i \in Ids, p \in Payloads : RegisterCall(c, i, p))
              \/ NotifyRegistered(c) \/ Publish(c) \/ PublishThrows(c) \/ Block(c)
              \/ Answered(c) \/ TimesOut(c) \/ Unwind(c) \/ JoinReleased(c)
      PROVE  StoppedByOwner'
  BY <1>1
  DEF JoinReplaced, ConnectThrows, JoinAborted, RegisterCall, NotifyRegistered,
      Publish, PublishThrows, Block, Answered, TimesOut, Unwind, JoinReleased
<1>2. ASSUME NEW l \in Links,
              \/ ConsumerReady(l) \/ (\E m \in replies : OnReceived(l, m))
              \/ Disconnect(l) \/ (\E e \in Errors : DisconnectFailAll(l, e))
              \/ IoStops(l)
      PROVE  StoppedByOwner'
  BY <1>2 DEF ConsumerReady, OnReceived, Disconnect, DisconnectFailAll, IoStops
<1>3. CASE \/ (\E m \in wire : GatewayReplies(m)) \/ (\E e \in Errors : DtorClose(e))
           \/ DtorNotify \/ UNCHANGED vars
  BY <1>3 DEF GatewayReplies, DtorClose, DtorNotify, vars
<1>4. ASSUME NEW c \in Callers, LockLink(c)
      PROVE  StoppedByOwner'
  BY <1>4 DEF LockLink
<1>5. ASSUME NEW c \in Callers, ReuseLink(c)
      PROVE  StoppedByOwner'
  BY <1>5 DEF ReuseLink
<1>6. ASSUME NEW c \in Callers, ResetLink(c)
      PROVE  StoppedByOwner'
  BY <1>6 DEF ResetLink
<1>7. ASSUME NEW c \in Callers, NEW l \in Links, Connect(c, l)
      PROVE  StoppedByOwner'
  BY <1>7 DEF Connect, IoLifeCycle
<1>8. ASSUME NEW c \in Callers, LinkReady(c)
      PROVE  StoppedByOwner'
  BY <1>8 DEF LinkReady, SoleOwners
<1>9. ASSUME NEW c \in Callers, LinkNotReady(c)
      PROVE  StoppedByOwner'
  BY <1>9 DEF LinkNotReady, SoleOwners
<1>10. ASSUME NEW c \in Callers, ReleaseLink(c)
      PROVE  StoppedByOwner'
  BY <1>10 DEF ReleaseLink, LastRef
<1>11. CASE DtorReset
  BY <1>11 DEF DtorReset
<1>12. CASE DtorJoin
  BY <1>12 DEF DtorJoin
<1> QED
  BY <1>1, <1>2, <1>3, <1>4, <1>5, <1>6, <1>7, <1>8, <1>9, <1>10, <1>11, <1>12
  DEF Next, CallerNext, IoNext

\* The I/O threads end only as Run lets them, and only owned links run.
LEMMA IoLifeCycleStep == ClientInv /\ [Next]_vars => IoLifeCycle'
<1> SUFFICES ASSUME ClientInv, [Next]_vars
             PROVE  IoLifeCycle'
  OBVIOUS
<1>0. TypeOK /\ IoLifeCycle /\ CallShape /\ LinkMutex
  BY DEF ClientInv
<1> USE <1>0 DEF IoLifeCycle, TypeOK, CallShape
<1>1. ASSUME NEW c \in Callers,
              \/ LockLink(c) \/ ConnectThrows(c)
              \/ (\E i \in Ids, p \in Payloads : RegisterCall(c, i, p))
              \/ NotifyRegistered(c) \/ Publish(c) \/ PublishThrows(c) \/ Block(c)
              \/ Answered(c) \/ TimesOut(c) \/ Unwind(c)
      PROVE  IoLifeCycle'
  BY <1>1
  DEF LockLink, ConnectThrows, RegisterCall, NotifyRegistered, Publish, PublishThrows,
      Block, Answered, TimesOut, Unwind
<1>2. ASSUME NEW l \in Links,
              \/ (\E m \in replies : OnReceived(l, m))
      PROVE  IoLifeCycle'
  BY <1>2 DEF OnReceived
<1>3. CASE \/ (\E m \in wire : GatewayReplies(m)) \/ (\E e \in Errors : DtorClose(e))
           \/ DtorNotify \/ UNCHANGED vars
  BY <1>3 DEF GatewayReplies, DtorClose, DtorNotify, vars
<1>4. ASSUME NEW c \in Callers, ReuseLink(c)
      PROVE  IoLifeCycle'
  BY <1>4 DEF ReuseLink
<1>5. ASSUME NEW c \in Callers, ResetLink(c)
      PROVE  IoLifeCycle'
  BY <1>5 DEF ResetLink
<1>6. ASSUME NEW c \in Callers, JoinReplaced(c)
      PROVE  IoLifeCycle'
  BY <1>6 DEF JoinReplaced
<1>7. ASSUME NEW c \in Callers, NEW l \in Links, Connect(c, l)
      PROVE  IoLifeCycle'
  BY <1>7 DEF Connect
<1>8. ASSUME NEW c \in Callers, LinkReady(c)
      PROVE  IoLifeCycle'
  BY <1>8 DEF LinkReady, LinkMutex, UnderLinkMutex
<1>9. ASSUME NEW c \in Callers, LinkNotReady(c)
      PROVE  IoLifeCycle'
  BY <1>9 DEF LinkNotReady
<1>10. ASSUME NEW c \in Callers, JoinAborted(c)
      PROVE  IoLifeCycle'
  BY <1>10 DEF JoinAborted
<1>11. ASSUME NEW c \in Callers, ReleaseLink(c)
      PROVE  IoLifeCycle'
  BY <1>11 DEF ReleaseLink, LastRef
<1>12. ASSUME NEW c \in Callers, JoinReleased(c)
      PROVE  IoLifeCycle'
  BY <1>12 DEF JoinReleased
<1>13. ASSUME NEW l \in Links, ConsumerReady(l)
      PROVE  IoLifeCycle'
  BY <1>13 DEF ConsumerReady
<1>14. ASSUME NEW l \in Links, Disconnect(l)
      PROVE  IoLifeCycle'
  BY <1>14 DEF Disconnect, IoAlive
<1>15. ASSUME NEW l \in Links, NEW e \in Errors, DisconnectFailAll(l, e)
      PROVE  IoLifeCycle'
  BY <1>15 DEF DisconnectFailAll
<1>16. ASSUME NEW l \in Links, IoStops(l)
      PROVE  IoLifeCycle'
  BY <1>16 DEF IoStops, IoAlive
<1>17. CASE DtorReset
  BY <1>17 DEF DtorReset
<1>18. CASE DtorJoin
  BY <1>18 DEF DtorJoin
<1> QED
  BY <1>1, <1>2, <1>3, <1>4, <1>5, <1>6, <1>7, <1>8, <1>9, <1>10, <1>11, <1>12, <1>13,
     <1>14, <1>15, <1>16, <1>17, <1>18
  DEF Next, CallerNext, IoNext

\* Nothing starts once the destructor has.
LEMMA DtorShapeStep == ClientInv /\ [Next]_vars => DtorShape'
<1> SUFFICES ASSUME ClientInv, [Next]_vars
             PROVE  DtorShape'
  OBVIOUS
<1>0. TypeOK /\ DtorShape
  BY DEF ClientInv
<1> USE <1>0 DEF DtorShape, TypeOK
<1>1. ASSUME NEW c \in Callers,
              \/ LockLink(c) \/ ReuseLink(c) \/ ResetLink(c) \/ JoinReplaced(c)
              \/ ConnectThrows(c) \/ (\E l \in Links : Connect(c, l))
              \/ LinkNotReady(c) \/ JoinAborted(c)
              \/ (\E i \in Ids, p \in Payloads : RegisterCall(c, i, p))
              \/ NotifyRegistered(c) \/ Publish(c) \/ PublishThrows(c) \/ Block(c)
              \/ Answered(c) \/ TimesOut(c) \/ Unwind(c) \/ ReleaseLink(c)
              \/ JoinReleased(c)
      PROVE  DtorShape'
  BY <1>1
  DEF LockLink, ReuseLink, ResetLink, JoinReplaced, ConnectThrows, Connect,
      LinkNotReady, JoinAborted, RegisterCall, NotifyRegistered, Publish,
      PublishThrows, Block, Answered, TimesOut, Unwind, ReleaseLink, JoinReleased
<1>2. ASSUME NEW l \in Links,
              \/ ConsumerReady(l) \/ (\E m \in replies : OnReceived(l, m))
              \/ Disconnect(l) \/ (\E e \in Errors : DisconnectFailAll(l, e))
              \/ IoStops(l)
      PROVE  DtorShape'
  BY <1>2 DEF ConsumerReady, OnReceived, Disconnect, DisconnectFailAll, IoStops
<1>3. CASE \/ (\E m \in wire : GatewayReplies(m)) \/ DtorNotify \/ UNCHANGED vars
  BY <1>3 DEF GatewayReplies, DtorNotify, vars
<1>4. ASSUME NEW c \in Callers, LinkReady(c)
      PROVE  DtorShape'
  BY <1>4 DEF LinkReady
<1>5. ASSUME NEW e \in Errors, DtorClose(e)
      PROVE  DtorShape'
  BY <1>5 DEF DtorClose
<1>6. CASE DtorReset
  BY <1>6 DEF DtorReset
<1>7. CASE DtorJoin
  BY <1>7 DEF DtorJoin
<1> QED
  BY <1>1, <1>2, <1>3, <1>4, <1>5, <1>6, <1>7
  DEF Next, CallerNext, IoNext

\* Disconnect fails every published call before its I/O thread ends.
LEMMA NoOrphanedCallStep == ClientInv /\ [Next]_vars => NoOrphanedCall'
<1> SUFFICES ASSUME ClientInv, [Next]_vars
             PROVE  NoOrphanedCall'
  OBVIOUS
<1>0. TypeOK /\ NoOrphanedCall /\ CallShape /\ IoLifeCycle /\ StoppedByOwner /\
      PendingTypeOK /\ SlotsMatchTickets
  BY DEF ClientInv, PendingInv
<1> USE <1>0 DEF NoOrphanedCall, TypeOK, PendingTypeOK, CallShape
<1>1. ASSUME NEW c \in Callers,
              \/ LockLink(c) \/ ReuseLink(c) \/ ResetLink(c) \/ JoinReplaced(c)
              \/ ConnectThrows(c) \/ LinkReady(c) \/ LinkNotReady(c) \/ JoinAborted(c)
              \/ PublishThrows(c) \/ ReleaseLink(c) \/ JoinReleased(c)
      PROVE  NoOrphanedCall'
  BY <1>1
  DEF LockLink, ReuseLink, ResetLink, JoinReplaced, ConnectThrows, LinkReady,
      LinkNotReady, JoinAborted, PublishThrows, ReleaseLink, JoinReleased
<1>2. ASSUME NEW l \in Links,
              \/ ConsumerReady(l) \/ Disconnect(l)
      PROVE  NoOrphanedCall'
  BY <1>2 DEF ConsumerReady, Disconnect
<1>3. CASE \/ (\E m \in wire : GatewayReplies(m)) \/ DtorReset \/ DtorJoin
           \/ UNCHANGED vars
  BY <1>3 DEF GatewayReplies, DtorReset, DtorJoin, vars
<1>4. ASSUME NEW c \in Callers, NEW l \in Links, Connect(c, l)
      PROVE  NoOrphanedCall'
  BY <1>4 DEF Connect
<1>5. ASSUME NEW c \in Callers, NEW i \in Ids, NEW p \in Payloads, RegisterCall(c, i, p)
      PROVE  NoOrphanedCall'
  BY <1>5 DEF RegisterCall, Register
<1>6. ASSUME NEW c \in Callers, NotifyRegistered(c)
      PROVE  NoOrphanedCall'
  BY <1>6 DEF NotifyRegistered, RegisterNotify, NotifyPoller
<1>7. ASSUME NEW c \in Callers, Publish(c)
      PROVE  NoOrphanedCall'
  BY <1>7 DEF Publish, IoLifeCycle, StoppedByOwner
<1>8. ASSUME NEW c \in Callers, Block(c)
      PROVE  NoOrphanedCall'
  BY <1>8 DEF Block, WaitSleeps
<1>9. ASSUME NEW c \in Callers, Answered(c)
      PROVE  NoOrphanedCall'
  BY <1>9 DEF Answered, WaitReturns, Settle
<1>10. ASSUME NEW c \in Callers, TimesOut(c)
      PROVE  NoOrphanedCall'
  BY <1>10 DEF TimesOut, WaitTimer, Settle
<1>11. ASSUME NEW c \in Callers, Unwind(c)
      PROVE  NoOrphanedCall'
  BY <1>11 DEF Unwind, Remove
<1>12. ASSUME NEW l \in Links, NEW m \in replies, OnReceived(l, m)
      PROVE  NoOrphanedCall'
  BY <1>12 DEF OnReceived, Complete, Finish, MarkDone
<1>13. ASSUME NEW l \in Links, NEW e \in Errors, DisconnectFailAll(l, e)
      PROVE  NoOrphanedCall'
  <2>1. \A c \in Callers : at[c] = "published" => c \in Waiting
    BY DEF SlotsMatchTickets, Waiting
  <2>2. \A c \in Waiting : outcome'[c] # "open"
    BY <1>13, MarkDoneFacts DEF DisconnectFailAll, FailAll, Waiting
  <2> QED
    BY <1>13, <2>1, <2>2 DEF DisconnectFailAll
<1>14. ASSUME NEW l \in Links, IoStops(l)
      PROVE  NoOrphanedCall'
  BY <1>14 DEF IoStops, StoppedByOwner
<1>15. ASSUME NEW e \in Errors, DtorClose(e)
      PROVE  NoOrphanedCall'
  BY <1>15 DEF DtorClose, Close, MarkDone
<1>16. CASE DtorNotify
  BY <1>16 DEF DtorNotify, CloseNotify, NotifyPoller
<1> QED
  BY <1>1, <1>2, <1>3, <1>4, <1>5, <1>6, <1>7, <1>8, <1>9, <1>10, <1>11, <1>12, <1>13,
     <1>14, <1>15, <1>16
  DEF Next, CallerNext, IoNext

\* Fresh ids keep every reply with its own request.
LEMMA IdsNameRequestsStep == ClientInv /\ [Next]_vars => IdsNameRequests'
<1> SUFFICES ASSUME ClientInv, [Next]_vars
             PROVE  IdsNameRequests'
  OBVIOUS
<1>0. TypeOK /\ IdsNameRequests /\ CallShape /\ PendingTypeOK /\ SlotsMatchTickets
  BY DEF ClientInv, PendingInv
<1> USE <1>0 DEF IdsNameRequests, TypeOK, PendingTypeOK, CallShape, Message
<1>1. ASSUME NEW c \in Callers,
              \/ LockLink(c) \/ ReuseLink(c) \/ ResetLink(c) \/ JoinReplaced(c)
              \/ ConnectThrows(c) \/ (\E l \in Links : Connect(c, l)) \/ LinkReady(c)
              \/ LinkNotReady(c) \/ JoinAborted(c) \/ PublishThrows(c)
              \/ ReleaseLink(c) \/ JoinReleased(c)
      PROVE  IdsNameRequests'
  BY <1>1
  DEF LockLink, ReuseLink, ResetLink, JoinReplaced, ConnectThrows, Connect, LinkReady,
      LinkNotReady, JoinAborted, PublishThrows, ReleaseLink, JoinReleased
<1>2. ASSUME NEW l \in Links,
              \/ ConsumerReady(l) \/ Disconnect(l) \/ IoStops(l)
      PROVE  IdsNameRequests'
  BY <1>2 DEF ConsumerReady, Disconnect, IoStops
<1>3. CASE \/ (\E m \in wire : GatewayReplies(m)) \/ DtorReset \/ DtorJoin
           \/ UNCHANGED vars
  BY <1>3 DEF GatewayReplies, DtorReset, DtorJoin, vars
<1>4. ASSUME NEW c \in Callers, NEW i \in Ids, NEW p \in Payloads, RegisterCall(c, i, p)
      PROVE  IdsNameRequests'
  <2>1. /\ spent' = spent \cup {<<i, p>>}
        /\ \A s \in spent : s[1] # i
        /\ UNCHANGED <<wire, replies>>
    BY <1>4 DEF RegisterCall, FreshIds
  <2>2. \A s, t \in spent' : s[1] = t[1] => s[2] = t[2]
    BY <2>1
  <2>3. /\ tid' = [tid EXCEPT ![c] = i] /\ body' = [body EXCEPT ![c] = p]
        /\ outcome' = [outcome EXCEPT ![c] = "open"]
        /\ ticket' = [ticket EXCEPT ![c] = "notifying"]
    BY <1>4 DEF RegisterCall, Register
  <2>4. ASSUME NEW d \in Callers, ticket'[d] # "none"
        PROVE  /\ <<tid'[d], body'[d]>> \in spent'
               /\ outcome'[d] \in Payloads => outcome'[d] = body'[d]
    <3>1. CASE d = c
      BY <2>1, <2>3, <3>1, PendingAssumption
    <3>2. CASE d # c
      BY <2>1, <2>3, <2>4, <3>2
    <3> QED
      BY <3>1, <3>2
  <2> QED
    BY <2>1, <2>2, <2>4
<1>5. ASSUME NEW c \in Callers, NotifyRegistered(c)
      PROVE  IdsNameRequests'
  BY <1>5 DEF NotifyRegistered, RegisterNotify, NotifyPoller
<1>6. ASSUME NEW c \in Callers, Publish(c)
      PROVE  IdsNameRequests'
  BY <1>6 DEF Publish
<1>7. ASSUME NEW c \in Callers, Block(c)
      PROVE  IdsNameRequests'
  BY <1>7 DEF Block, WaitSleeps
<1>8. ASSUME NEW c \in Callers, Answered(c)
      PROVE  IdsNameRequests'
  BY <1>8 DEF Answered, WaitReturns, Settle
<1>9. ASSUME NEW c \in Callers, TimesOut(c)
      PROVE  IdsNameRequests'
  BY <1>9 DEF TimesOut, WaitTimer, Settle
<1>10. ASSUME NEW c \in Callers, Unwind(c)
      PROVE  IdsNameRequests'
  BY <1>10 DEF Unwind, Remove
<1>11. ASSUME NEW l \in Links, NEW m \in replies, OnReceived(l, m)
      PROVE  IdsNameRequests'
  <2> DEFINE o == slots[m.id]
  <2>1. m.id \in Ids /\ m.body \in Payloads /\ <<m.id, m.body>> \in spent
    OBVIOUS
  <2>2. MarkDone({slots[m.id]} \ {NoCaller}, m.body)
    BY <1>11 DEF OnReceived, Complete, Finish
  <2>3. o \in Callers => tid[o] = m.id /\ ticket[o] # "none"
    BY <2>1, PendingAssumption DEF SlotsMatchTickets
  <2>4. o \in Callers => body[o] = m.body
    <3>1. o \in Callers => <<tid[o], body[o]>> \in spent
      BY <2>3
    <3>2. o \in Callers => <<tid[o], body[o]>>[1] = <<m.id, m.body>>[1]
      BY <2>3
    <3>3. o \in Callers => <<tid[o], body[o]>>[2] = <<m.id, m.body>>[2]
      BY <2>1, <3>1, <3>2
    <3> QED
      BY <3>3
  <2>5. \A c \in Callers :
           /\ outcome'[c] \in {outcome[c], m.body}
           /\ outcome'[c] # outcome[c] => c = o
           /\ ticket'[c] # "none" => ticket[c] # "none"
    BY <2>1, <2>2, MarkDoneFacts
  <2>6. UNCHANGED <<tid, body, spent, wire>> /\ replies' \subseteq replies
    BY <1>11 DEF OnReceived, Complete, Finish
  <2> QED
    BY <2>4, <2>5, <2>6
<1>12. ASSUME NEW l \in Links, NEW e \in Errors, DisconnectFailAll(l, e)
      PROVE  IdsNameRequests'
  <2>1. \A c \in Callers :
           /\ outcome'[c] \in {outcome[c], e}
           /\ ticket'[c] # "none" => ticket[c] # "none"
    BY <1>12, MarkDoneFacts DEF DisconnectFailAll, FailAll
  <2>2. UNCHANGED <<tid, body, spent, wire, replies>>
    BY <1>12 DEF DisconnectFailAll, FailAll
  <2>3. e \notin Payloads
    BY PendingAssumption
  <2> QED
    BY <2>1, <2>2, <2>3
<1>13. ASSUME NEW e \in Errors, DtorClose(e)
      PROVE  IdsNameRequests'
  <2>1. \A c \in Callers :
           /\ outcome'[c] \in {outcome[c], e}
           /\ ticket'[c] # "none" => ticket[c] # "none"
    BY <1>13, MarkDoneFacts DEF DtorClose, Close
  <2>2. UNCHANGED <<tid, body, spent, wire, replies>>
    BY <1>13 DEF DtorClose, Close
  <2>3. e \notin Payloads
    BY PendingAssumption
  <2> QED
    BY <2>1, <2>2, <2>3
<1>14. CASE DtorNotify
  BY <1>14 DEF DtorNotify, CloseNotify, NotifyPoller
<1> QED
  BY <1>1, <1>2, <1>3, <1>4, <1>5, <1>6, <1>7, <1>8, <1>9, <1>10, <1>11, <1>12, <1>13,
     <1>14
  DEF Next, CallerNext, IoNext

\* Wait returns the reply to the request of its own ticket.
LEMMA OwnReplyStep == ClientInv /\ [Next]_vars => OwnReply'
<1> SUFFICES ASSUME ClientInv, [Next]_vars
             PROVE  OwnReply'
  OBVIOUS
<1>0. TypeOK /\ OwnReply /\ CallShape /\ PendingTypeOK /\ IdsNameRequests
  BY DEF ClientInv, PendingInv
<1> USE <1>0 DEF OwnReply, TypeOK, PendingTypeOK, CallShape
<1>1. ASSUME NEW c \in Callers,
              \/ LockLink(c) \/ ReuseLink(c) \/ ResetLink(c) \/ JoinReplaced(c)
              \/ ConnectThrows(c) \/ (\E l \in Links : Connect(c, l)) \/ LinkReady(c)
              \/ LinkNotReady(c) \/ JoinAborted(c) \/ Publish(c) \/ PublishThrows(c)
              \/ ReleaseLink(c) \/ JoinReleased(c)
      PROVE  OwnReply'
  BY <1>1
  DEF LockLink, ReuseLink, ResetLink, JoinReplaced, ConnectThrows, Connect, LinkReady,
      LinkNotReady, JoinAborted, Publish, PublishThrows, ReleaseLink, JoinReleased
<1>2. ASSUME NEW l \in Links,
              \/ ConsumerReady(l) \/ Disconnect(l) \/ IoStops(l)
      PROVE  OwnReply'
  BY <1>2 DEF ConsumerReady, Disconnect, IoStops
<1>3. CASE \/ (\E m \in wire : GatewayReplies(m)) \/ DtorReset \/ DtorJoin
           \/ UNCHANGED vars
  BY <1>3 DEF GatewayReplies, DtorReset, DtorJoin, vars
<1>4. ASSUME NEW c \in Callers, NEW i \in Ids, NEW p \in Payloads, RegisterCall(c, i, p)
      PROVE  OwnReply'
  BY <1>4 DEF RegisterCall, Register
<1>5. ASSUME NEW c \in Callers, NotifyRegistered(c)
      PROVE  OwnReply'
  BY <1>5 DEF NotifyRegistered, RegisterNotify, NotifyPoller
<1>6. ASSUME NEW c \in Callers, Block(c)
      PROVE  OwnReply'
  BY <1>6 DEF Block, WaitSleeps
<1>7. ASSUME NEW c \in Callers, Answered(c)
      PROVE  OwnReply'
  BY <1>7 DEF Answered, WaitReturns, Settle, IdsNameRequests
<1>8. ASSUME NEW c \in Callers, TimesOut(c)
      PROVE  OwnReply'
  <2>1. result'[c] \in {"timeout", outcome[c]} /\ UNCHANGED <<outcome, body>>
    BY <1>8 DEF TimesOut, WaitTimer, Settle
  <2>2. ticket[c] # "none"
    BY <1>8 DEF TimesOut, WaitTimer
  <2>5. "timeout" \notin Payloads
    BY PendingAssumption
  <2>3. /\ result' = [result EXCEPT ![c] = IF outcome[c] = "open" THEN "timeout"
                                           ELSE outcome[c]]
        /\ ticket' = [ticket EXCEPT ![c] = "settled"]
    BY <1>8 DEF TimesOut, WaitTimer, Settle
  <2>4. result'[c] \in Payloads => result'[c] = body'[c]
    BY <2>1, <2>2, <2>5 DEF IdsNameRequests
  <2> QED
    BY <2>1, <2>3, <2>4
<1>9. ASSUME NEW c \in Callers, Unwind(c)
      PROVE  OwnReply'
  BY <1>9 DEF Unwind, Remove
<1>10. ASSUME NEW l \in Links, NEW m \in replies, OnReceived(l, m)
      PROVE  OwnReply'
  BY <1>10 DEF OnReceived, Complete, Finish, MarkDone
<1>11. ASSUME NEW l \in Links, NEW e \in Errors, DisconnectFailAll(l, e)
      PROVE  OwnReply'
  BY <1>11 DEF DisconnectFailAll, FailAll, MarkDone
<1>12. ASSUME NEW e \in Errors, DtorClose(e)
      PROVE  OwnReply'
  BY <1>12 DEF DtorClose, Close, MarkDone
<1>13. CASE DtorNotify
  BY <1>13 DEF DtorNotify, CloseNotify, NotifyPoller
<1> QED
  BY <1>1, <1>2, <1>3, <1>4, <1>5, <1>6, <1>7, <1>8, <1>9, <1>10, <1>11, <1>12, <1>13
  DEF Next, CallerNext, IoNext

-----------------------------------------------------------------------------

\* Every step of the client preserves every conjunct.
LEMMA ClientStep == ClientInv /\ [Next]_vars => ClientInv'
<1> SUFFICES ASSUME ClientInv, [Next]_vars
             PROVE  ClientInv'
  OBVIOUS
<1>1. PendingInv'
  BY ClientUsesPending, PendingStep DEF ClientInv
<1> QED
  BY <1>1, TypeStep, CallShapeStep, LinkMutexStep, SoleOwnersStep, StoppedByOwnerStep,
     IoLifeCycleStep, DtorShapeStep, NoOrphanedCallStep, IdsNameRequestsStep, OwnReplyStep
  DEF ClientInv

\* A new client has no link, no call and no correlation id.
LEMMA ClientInit == Init => ClientInv
<1> SUFFICES ASSUME Init
             PROVE  ClientInv
  OBVIOUS
<1> USE DEF Init
<1>1. TypeOK /\ PendingInv
  <2>1. PendingTypeOK
    BY DEF PendingInit, PendingTypeOK
  <2>2. SlotsMatchTickets /\ SleepersUnanswered
    BY DEF PendingInit, SlotsMatchTickets, SleepersUnanswered
  <2>3. ClosedAnswersAll /\ PollerAboutToBeNotified
    BY DEF PendingInit, ClosedAnswersAll, PollerAboutToBeNotified
  <2>4. TypeOK
    BY <2>1 DEF TypeOK
  <2> QED
    BY <2>1, <2>2, <2>3, <2>4 DEF PendingInv
<1>2. CallShape /\ LinkMutex /\ SoleOwners /\ DtorShape
  BY DEF CallShape, LinkMutex, SoleOwners, DtorShape, PendingInit, UnderLinkMutex
<1>3. StoppedByOwner /\ IoLifeCycle
  BY DEF StoppedByOwner, IoLifeCycle
<1>4. IdsNameRequests /\ NoOrphanedCall /\ OwnReply
  BY DEF IdsNameRequests, NoOrphanedCall, OwnReply, PendingInit
<1> QED
  BY <1>1, <1>2, <1>3, <1>4 DEF ClientInv

\* The inductive invariant of Call, the I/O threads and the destructor of
\* RabbitMqClient.cpp together.
THEOREM ClientInvariant == Spec => []ClientInv
BY ClientInit, ClientStep, PTL DEF Spec

\* RabbitMqClient.cpp keeps its state in the values the model gives it.
THEOREM ClientTypeCorrect == Spec => []TypeOK
<1>1. ClientInv => TypeOK
  BY DEF ClientInv
<1> QED
  BY <1>1, ClientInvariant, PTL

\* Because Disconnect sets broken_ before FailAll and Publish tests broken_
\* after Register, no published call is left unanswered on a dead link.
THEOREM NoCallIsOrphaned == Spec => []NoOrphanedCall
<1>1. ClientInv => NoOrphanedCall
  BY DEF ClientInv
<1> QED
  BY <1>1, ClientInvariant, PTL

\* Whoever drops the last shared_ptr to a Link joins its I/O thread first, so
\* the thread never runs on a destroyed link or client.
THEOREM IoThreadsAreOwned == Spec => []LinksAreOwned
<1>1. ClientInv => LinksAreOwned
  <2> SUFFICES ASSUME ClientInv, NEW l \in Links,
                      io[l] \in {"starting", "running", "failing"}
               PROVE  (link = l \/ \E c \in Callers : holds[c] = l) /\ life # "gone"
    BY DEF LinksAreOwned
  <2>1. link = l \/ \E c \in Callers : holds[c] = l
    BY DEF ClientInv, IoLifeCycle
  <2>2. life = "gone" => link = NoLink /\ \A c \in Callers : holds[c] = NoLink
    BY DEF ClientInv, DtorShape, CallShape
  <2> QED
    BY <2>1, <2>2
<1> QED
  BY <1>1, ClientInvariant, PTL

\* However late or often the gateway answers, a call returns only the reply to
\* its own request.
THEOREM RepliesAreOwn == Spec => []OwnReply
<1>1. ClientInv => OwnReply
  BY DEF ClientInv
<1> QED
  BY <1>1, ClientInvariant, PTL

\* The client implements the correlator's specification, hence its contract.
THEOREM ClientImplementsPending == Spec => PendingSpec
<1>1. Init => PendingInit
  BY DEF Init
<1>2. ClientInv => TypeOK
  BY DEF ClientInv
<1> QED
  BY <1>1, <1>2, ClientUsesPending, ClientInvariant, PTL DEF Spec, PendingSpec

\* A published call that waits has a link that is read or about to fail it, and
\* no I/O thread outlives the calls and the client its link belongs to.
THEOREM ClientServesItsCalls == Spec => []LinksServeTheirCalls
  BY NoCallIsOrphaned, IoThreadsAreOwned, PTL DEF LinksServeTheirCalls
=============================================================================
