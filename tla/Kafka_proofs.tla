---------------------------- MODULE Kafka_proofs ----------------------------
(***************************************************************************)
(* The Kafka plugin.  The server, for any number of threads that control   *)
(* it, of workers and of requests: the committed offset skips none, and a  *)
(* stop() that returns leaves only the worker of a start() under way.  The *)
(* client, for any number of callers and calls: it uses the correlator     *)
(* only through its operations, ensureStarted loses no message however     *)
(* often it is run again, and a call gets only the reply to its own        *)
(* request.                                                                *)
(***************************************************************************)
EXTENDS KafkaServer, KafkaClient, PendingReplies_proofs

(***************************************************************************)
(* The server                                                              *)
(***************************************************************************)

USE KafkaServerAssumption

-----------------------------------------------------------------------------
(* The inductive invariant.                                                *)

SettledUpTo(n) == \A r \in Requests : r <= n => r \in settled

\* While a consumer is in use, only the request in hand may be unsettled; what
\* an exception leaves unsettled is behind a new Connect.
PositionSettled ==
    \A t \in Workers :
        /\ loop[t] \in {"polling", "consuming", "committing"} => SettledUpTo(position[t])
        /\ loop[t] \in {"handling", "replying"} =>
               position[t] >= 1 /\ \A r \in Requests : r < position[t] => r \in settled

\* Every thread is worker_'s, or in the hands of a start() that is to move it.
ThreadsAreKnown ==
    \A t \in Workers : loop[t] # "none" =>
        t = worker \/ \E c \in Controllers : calling[c] = "moving" /\ handle[c] = t

\* The thread a stop() waits for stays worker_'s: no other stop() joins it, and
\* a start() that moves another into worker_ ends the process.
WaitsForWorker ==
    \A c \in Controllers : calling[c] = "waiting" =>
        /\ handle[c] = worker /\ worker \in Workers
        /\ \A d \in Controllers : calling[d] = "waiting" => d = c

ServerInv ==
    /\ ServerTypeOK
    /\ CommitSkipsNothing
    /\ PositionSettled
    /\ ThreadsAreKnown
    /\ WaitsForWorker

-----------------------------------------------------------------------------

\* The server keeps its state in the values the model gives it.
LEMMA ServerTypeStep == ServerInv /\ [ServerNext]_serverVars => ServerTypeOK'
<1> SUFFICES ASSUME ServerInv, [ServerNext]_serverVars
             PROVE  ServerTypeOK'
  OBVIOUS
<1> USE DEF ServerInv, ServerTypeOK, Handling, Requests, controlVars, queueVars, readVars
<1>0. 0 \in 0..sent
  OBVIOUS
<1>1. ASSUME NEW callback \in BOOLEAN, Configure(callback)
      PROVE  ServerTypeOK'
  BY <1>1 DEF Configure
<1>2. ASSUME NEW c \in Controllers, Start(c) \/ Stop(c) \/ TestJoinable(c) \/ JoinThrows(c)
      PROVE  ServerTypeOK'
  BY <1>2 DEF Start, Stop, TestJoinable, JoinThrows, Goes
<1>3. ASSUME NEW c \in Controllers, NEW t \in Workers, CreateThread(c, t)
      PROVE  ServerTypeOK'
  BY <1>3 DEF CreateThread, Goes
<1>4. ASSUME NEW c \in Controllers, CreateThreadThrows(c) \/ MoveThread(c)
      PROVE  ServerTypeOK'
  BY <1>4 DEF CreateThreadThrows, MoveThread, Goes
<1>5. ASSUME NEW c \in Controllers, JoinWaits(c) \/ JoinReturns(c)
      PROVE  ServerTypeOK'
  BY <1>5 DEF JoinWaits, JoinReturns, Goes
<1>6. ASSUME NEW t \in Workers, WorkerNext(t)
      PROVE  ServerTypeOK'
  <2>1. CASE TestOuter(t) \/ ConnectFails(t) \/ TestInner(t) \/ ConsumeNoRequest(t)
    BY <2>1 DEF TestOuter, ConnectFails, TestInner, ConsumeNoRequest, Moves
  <2>2. CASE Connect(t) \/ ConsumeRejoins(t)
    BY <2>2 DEF Connect, ConsumeRejoins, Moves
  <2>3. CASE LeaveInner(t) \/ ProcessThrows(t) \/ ReplyThrows(t)
    <3>1. \E from : Leaves(t, from)
      BY <2>3 DEF LeaveInner, ProcessThrows, ReplyThrows
    <3>2. position' \in [Workers -> 0..sent']
      BY <1>0, <3>1 DEF Leaves, Moves
    <3> QED
      BY <3>1, <3>2 DEF Leaves, Moves
  <2>4. CASE ConsumeRequest(t)
    BY <2>4 DEF ConsumeRequest, Moves
  <2>5. CASE SkipOrRefuse(t) \/ Execute(t) \/ Reply(t)
    <3>1. position[t] \in 1..Last
      BY <2>5 DEF SkipOrRefuse, Execute, Reply, Moves, PositionSettled
    <3>2. /\ settled' \in {settled, settled \cup {position[t]}}
          /\ \E place \in {"replying", "committing"} : loop' = [loop EXCEPT ![t] = place]
          /\ UNCHANGED <<controlVars, process, queueVars, position, committed>>
      BY <2>5 DEF SkipOrRefuse, Execute, Reply, Moves
    <3> QED
      BY <3>1, <3>2
  <2>6. CASE Commit(t)
    BY <2>6 DEF Commit, Moves
  <2> QED
    BY <1>6, <2>1, <2>2, <2>3, <2>4, <2>5, <2>6 DEF WorkerNext
<1>7. CASE ClientSends
  BY <1>7 DEF ClientSends
<1>8. CASE ProcessEnds
  <2>1. position' \in [Workers -> 0..sent']
    BY <1>0, <1>8 DEF ProcessEnds
  <2>2. /\ calling' \in [Controllers -> {"nothing", "starting", "moving",
                                         "stopping", "joining", "waiting"}]
        /\ handle' \in [Controllers -> Workers \cup {NoWorker}]
    BY <1>8 DEF ProcessEnds
  <2> QED
    BY <1>8, <2>1, <2>2 DEF ProcessEnds
<1>9. CASE UNCHANGED serverVars
  BY <1>9 DEF serverVars
<1> QED
  BY <1>1, <1>2, <1>3, <1>4, <1>5, <1>6, <1>7, <1>8, <1>9
  DEF ServerNext, ControlNext, MoveTerminates

\* Commit takes over the position, below which everything is settled; an
\* exception leaves the position for good.
LEMMA SettledStep ==
    ASSUME ServerInv, [ServerNext]_serverVars
    PROVE  CommitSkipsNothing' /\ PositionSettled'
<1> USE DEF ServerInv, ServerTypeOK, CommitSkipsNothing, PositionSettled, SettledUpTo,
            Handling, Requests, controlVars, queueVars, readVars
<1>1. ASSUME NEW callback \in BOOLEAN, Configure(callback)
      PROVE  CommitSkipsNothing' /\ PositionSettled'
  BY <1>1 DEF Configure
<1>2. ASSUME NEW c \in Controllers,
             \/ Start(c) \/ Stop(c) \/ CreateThreadThrows(c) \/ MoveThread(c)
             \/ TestJoinable(c) \/ JoinThrows(c) \/ JoinWaits(c)
      PROVE  CommitSkipsNothing' /\ PositionSettled'
  BY <1>2 DEF Start, Stop, CreateThreadThrows, MoveThread, TestJoinable, JoinThrows,
     JoinWaits, Goes
<1>3. ASSUME NEW c \in Controllers, JoinReturns(c) \/ \E t \in Workers : CreateThread(c, t)
      PROVE  CommitSkipsNothing' /\ PositionSettled'
  <2>1. PICK t, place : place \in {"none", "testing"} /\ loop' = [loop EXCEPT ![t] = place]
    <3>1. CASE JoinReturns(c)
      BY <3>1 DEF JoinReturns
    <3>2. CASE \E t \in Workers : CreateThread(c, t)
      BY <3>2 DEF CreateThread
    <3> QED
      BY <1>3, <3>1, <3>2
  <2>2. UNCHANGED <<position, committed, settled>>
    BY <1>3 DEF JoinReturns, CreateThread, Goes
  <2> QED
    BY <2>1, <2>2
<1>4. ASSUME NEW t \in Workers, WorkerNext(t)
      PROVE  CommitSkipsNothing' /\ PositionSettled'
  <2>1. CASE TestOuter(t) \/ ConnectFails(t) \/ TestInner(t) \/ ConsumeNoRequest(t)
    BY <2>1 DEF TestOuter, ConnectFails, TestInner, ConsumeNoRequest, Moves
  <2>2. CASE Connect(t) \/ ConsumeRejoins(t)
    BY <2>2 DEF Connect, ConsumeRejoins, Moves
  <2>3. CASE LeaveInner(t) \/ ProcessThrows(t) \/ ReplyThrows(t)
    BY <2>3 DEF LeaveInner, ProcessThrows, ReplyThrows, Leaves, Moves
  <2>4. CASE ConsumeRequest(t)
    BY <2>4 DEF ConsumeRequest, Moves
  <2>5. CASE SkipOrRefuse(t) \/ Execute(t) \/ Reply(t)
    BY <2>5 DEF SkipOrRefuse, Execute, Reply, Moves
  <2>6. CASE Commit(t)
    BY <2>6 DEF Commit, Moves
  <2> QED
    BY <1>4, <2>1, <2>2, <2>3, <2>4, <2>5, <2>6 DEF WorkerNext
<1>5. CASE ClientSends
  BY <1>5 DEF ClientSends
<1>6. CASE ProcessEnds
  BY <1>6 DEF ProcessEnds
<1>7. CASE UNCHANGED serverVars
  BY <1>7 DEF serverVars
<1> QED
  BY <1>1, <1>2, <1>3, <1>4, <1>5, <1>6, <1>7 DEF ServerNext, ControlNext, MoveTerminates

\* CreateThread makes a thread known, MoveThread hands it to worker_, and only
\* JoinReturns takes it from there, once its loop has ended.
LEMMA ThreadStep ==
    ASSUME ServerInv, [ServerNext]_serverVars
    PROVE  ThreadsAreKnown' /\ WaitsForWorker'
<1> USE DEF ServerInv, ServerTypeOK, ThreadsAreKnown, WaitsForWorker,
            Handling, controlVars, queueVars, readVars
<1>1. ASSUME NEW callback \in BOOLEAN, Configure(callback)
      PROVE  ThreadsAreKnown' /\ WaitsForWorker'
  BY <1>1 DEF Configure
<1>2. ASSUME NEW c \in Controllers,
             \/ Start(c) \/ Stop(c) \/ CreateThreadThrows(c) \/ TestJoinable(c) \/ JoinThrows(c)
      PROVE  ThreadsAreKnown' /\ WaitsForWorker'
  BY <1>2 DEF Start, Stop, CreateThreadThrows, TestJoinable, JoinThrows, Goes
<1>3. ASSUME NEW c \in Controllers, NEW t \in Workers, CreateThread(c, t)
      PROVE  ThreadsAreKnown' /\ WaitsForWorker'
  BY <1>3 DEF CreateThread, Goes
<1>4. ASSUME NEW c \in Controllers, MoveThread(c)
      PROVE  ThreadsAreKnown' /\ WaitsForWorker'
  BY <1>4 DEF MoveThread, Goes
<1>5. ASSUME NEW c \in Controllers, JoinWaits(c)
      PROVE  ThreadsAreKnown' /\ WaitsForWorker'
  <2>1. \A d \in Controllers : calling[d] # "waiting"
    BY <1>5 DEF JoinWaits
  <2> QED
    BY <1>5, <2>1 DEF JoinWaits, Goes
<1>6. ASSUME NEW c \in Controllers, JoinReturns(c)
      PROVE  ThreadsAreKnown' /\ WaitsForWorker'
  BY <1>6 DEF JoinReturns, Goes
<1>7. ASSUME NEW t \in Workers, WorkerNext(t)
      PROVE  ThreadsAreKnown' /\ WaitsForWorker'
  <2>1. /\ UNCHANGED controlVars
        /\ loop[t] # "none" /\ \E place : loop' = [loop EXCEPT ![t] = place]
    BY <1>7
    DEF WorkerNext, TestOuter, Connect, ConnectFails, TestInner, LeaveInner, ConsumeNoRequest,
        ConsumeRejoins, ConsumeRequest, SkipOrRefuse, ProcessThrows, Execute, Reply,
        ReplyThrows, Commit, Leaves, Moves
  <2> QED
    BY <2>1
<1>8. CASE ClientSends \/ UNCHANGED serverVars
  BY <1>8 DEF ClientSends, serverVars
<1>9. CASE ProcessEnds
  BY <1>9 DEF ProcessEnds
<1> QED
  BY <1>1, <1>2, <1>3, <1>4, <1>5, <1>6, <1>7, <1>8, <1>9
  DEF ServerNext, ControlNext, MoveTerminates

-----------------------------------------------------------------------------

\* The invariant of the workers' positions and of their life cycle.
THEOREM KafkaServerInvariant == ServerSpec => []ServerInv
<1>1. ServerInit => ServerInv
  <2> SUFFICES ASSUME ServerInit PROVE ServerInv
    OBVIOUS
  <2> USE DEF Handling, Requests
  <2>1. ServerTypeOK
    <3>1. /\ sent \in 0..Last /\ committed \in 0..sent
          /\ position \in [Workers -> 0..sent]
      BY DEF ServerInit
    <3>2. /\ calling \in [Controllers -> {"nothing", "starting", "moving",
                                          "stopping", "joining", "waiting"}]
          /\ handle \in [Controllers -> Workers \cup {NoWorker}]
      BY DEF ServerInit
    <3> QED
      BY <3>1, <3>2 DEF ServerInit, ServerTypeOK
  <2>2. committed = 0 /\ \A t \in Workers : loop[t] = "none"
    BY DEF ServerInit
  <2>3. CommitSkipsNothing /\ PositionSettled
    BY <2>2 DEF CommitSkipsNothing, PositionSettled
  <2>4. ThreadsAreKnown /\ WaitsForWorker
    BY DEF ServerInit, ThreadsAreKnown, WaitsForWorker
  <2> QED
    BY <2>1, <2>3, <2>4 DEF ServerInv
<1>2. ServerInv /\ [ServerNext]_serverVars => ServerInv'
  BY ServerTypeStep, SettledStep, ThreadStep DEF ServerInv
<1> QED
  BY <1>1, <1>2, PTL DEF ServerSpec

\* KafkaServer.cpp keeps its state in the values the model gives it.
THEOREM KafkaServerTypeCorrect == ServerSpec => []ServerTypeOK
<1>1. ServerInv => ServerTypeOK
  BY DEF ServerInv
<1> QED
  BY <1>1, KafkaServerInvariant, PTL

\* Whatever fails, the group's offset passes no request that was not settled.
THEOREM KafkaCommitsInOrder == ServerSpec => []CommitSkipsNothing
<1>1. ServerInv => CommitSkipsNothing
  BY DEF ServerInv
<1> QED
  BY <1>1, KafkaServerInvariant, PTL

\* A stop() returns in two ways, having found worker_ empty or having joined it,
\* and then every thread that is left belongs to a start() under way.
THEOREM KafkaStopLeavesNoWorker == ServerSpec => StopLeavesNoWorker
<1> DEFINE Step ==
        \A c \in Controllers :
           /\ calling[c] \in {"stopping", "waiting"} /\ calling'[c] = "nothing"
           /\ \A d \in Controllers : calling[d] \notin {"starting", "moving"}
           => \A t \in Workers : loop'[t] = "none"
<1>1. ServerInv /\ [ServerNext]_serverVars => [Step]_serverVars
  <2> SUFFICES ASSUME ServerInv, ServerNext,
                      NEW c \in Controllers,
                      calling[c] \in {"stopping", "waiting"}, calling'[c] = "nothing",
                      \A d \in Controllers : calling[d] \notin {"starting", "moving"},
                      NEW t \in Workers
               PROVE  loop'[t] = "none"
    OBVIOUS
  <2>1. loop[t] # "none" => t = worker
    BY DEF ServerInv, ThreadsAreKnown
  <2>2. calling \in [Controllers -> {"nothing", "starting", "moving",
                                     "stopping", "joining", "waiting"}]
        /\ loop \in [Workers -> Handling \cup {"none", "testing", "connecting", "polling",
                                                "consuming", "exited"}]
    BY DEF ServerInv, ServerTypeOK
  <2>3. calling' # calling
    OBVIOUS
  <2>4. CASE ProcessEnds
    BY <2>4 DEF ProcessEnds
  <2>5. CASE \E d \in Controllers : Start(d) \/ Stop(d) \/ JoinThrows(d) \/ JoinWaits(d)
    BY <2>2, <2>5 DEF Start, Stop, JoinThrows, JoinWaits, Goes
  <2>6. ASSUME NEW d \in Controllers, TestJoinable(d)
        PROVE  loop'[t] = "none"
    <3>1. d = c /\ worker = NoWorker /\ loop' = loop
      BY <2>2, <2>6 DEF TestJoinable, Goes
    <3> QED
      BY <2>1, <3>1, KafkaServerAssumption
  <2>7. ASSUME NEW d \in Controllers, JoinReturns(d)
        PROVE  loop'[t] = "none"
    <3>1. handle[d] = worker /\ loop' = [loop EXCEPT ![worker] = "none"]
      BY <2>7 DEF JoinReturns, Goes, ServerInv, WaitsForWorker
    <3> QED
      BY <2>1, <2>2, <3>1
  <2>8. CASE \E d \in Controllers :
                 \/ (\E u \in Workers : CreateThread(d, u)) \/ CreateThreadThrows(d)
                 \/ MoveThread(d) \/ MoveTerminates(d)
    BY <2>8 DEF CreateThread, CreateThreadThrows, MoveThread, MoveTerminates, Goes
  <2>9. CASE \/ (\E callback \in BOOLEAN : Configure(callback)) \/ ClientSends
             \/ \E u \in Workers : WorkerNext(u)
    BY <2>3, <2>9
    DEF Configure, ClientSends, controlVars, WorkerNext, TestOuter, Connect, ConnectFails,
        TestInner, LeaveInner, ConsumeNoRequest, ConsumeRejoins, ConsumeRequest,
        SkipOrRefuse, ProcessThrows, Execute, Reply, ReplyThrows, Commit, Leaves, Moves
  <2> QED
    BY <2>4, <2>5, <2>6, <2>7, <2>8, <2>9 DEF ServerNext, ControlNext
<1> QED
  BY <1>1, KafkaServerInvariant, PTL DEF ServerSpec, StopLeavesNoWorker

(***************************************************************************)
(* The client                                                              *)
(***************************************************************************)

USE DEF GoTo, pendingVars, clientVars, callVars, producerVars, topicVars

-----------------------------------------------------------------------------
(* The client is a user of the correlator.                                 *)

\* The steps that use the correlator are steps of the correlator, and the
\* others leave its variables alone.
LEMMA ClientUsesPending == TypeOK /\ [Next]_vars => [PendingNext]_pendingVars
<1> SUFFICES ASSUME TypeOK, [Next]_vars
             PROVE  PendingNext \/ UNCHANGED pendingVars
  OBVIOUS
<1>1. ASSUME NEW c \in Callers, CallerNext(c)
      PROVE  CallerStep(c) \/ UNCHANGED pendingVars
  <2>1. ASSUME NEW i \in Ids, NEW p \in Payloads, RegisterCall(c, i, p)
        PROVE  CallerStep(c)
    BY <2>1 DEF RegisterCall, CallerStep
  <2>2. CASE NotifyRegistered(c) \/ Block(c) \/ Answered(c) \/ TimesOut(c) \/ Unwind(c)
    BY <2>2 DEF NotifyRegistered, Block, Answered, TimesOut, Unwind, CallerStep
  <2>3. CASE \/ Enter(c) \/ LockStart(c) \/ StartThrows(c) \/ MakeProducer(c)
             \/ MakeConsumer(c) \/ WarmUpEnds(c) \/ SpawnDispatcher(c) \/ Produce(c)
             \/ ProduceThrows(c)
    BY <2>3 DEF Enter, LockStart, StartThrows, MakeProducer, MakeConsumer, WarmUpEnds,
       SpawnDispatcher, Produce, ProduceThrows
  <2> QED
    BY <1>1, <2>1, <2>2, <2>3 DEF CallerNext
\* A report or a reply names an id, whether or not it is one of this client's.
<1>2. ASSUME NEW r \in reports, NEW e \in Errors, ReportServed(r, e)
      PROVE  PendingNext \/ UNCHANGED pendingVars
  <2>1. r.id \in Ids
    BY DEF TypeOK, Report
  <2> QED
    BY <1>2, <2>1 DEF ReportServed, PendingNext
<1>3. ASSUME NEW m \in replies, Consume(m)
      PROVE  PendingNext \/ UNCHANGED pendingVars
  <2>1. m # Foreign => m.id \in Ids /\ m.body \in Payloads
    BY DEF TypeOK, Message
  <2> QED
    BY <1>3, <2>1 DEF Consume, PendingNext
<1>4. CASE DispatcherNext
  <2>1. CASE TestStopping \/ PollEnds \/ ConsumeNothing
    BY <2>1 DEF TestStopping, PollEnds, ConsumeNothing
  <2> QED
    BY <1>2, <1>3, <1>4, <2>1 DEF DispatcherNext, ServeReport
<1>5. CASE BrokerNext
  BY <1>5 DEF BrokerNext, BrokerAssigns, Delivered, DeliveryFails, GatewayReplies
<1>6. CASE DtorNext
  <2>1. ASSUME NEW e \in Errors, DtorClose(e)
        PROVE  PendingNext
    BY <2>1 DEF DtorClose, PendingNext
  <2>2. CASE DtorNotify
    BY <2>2 DEF DtorNotify, PendingNext
  <2>3. CASE DtorStop \/ DtorJoin \/ DtorDestroys
    BY <2>3 DEF DtorStop, DtorJoin, DtorDestroys
  <2> QED
    BY <1>2, <1>6, <2>1, <2>2, <2>3 DEF DtorNext, DtorServes
<1>7. CASE UNCHANGED vars
  BY <1>7 DEF vars
<1> QED
  BY <1>1, <1>4, <1>5, <1>6, <1>7 DEF Next, PendingNext

-----------------------------------------------------------------------------
(* The inductive invariant.                                                *)

\* What each place of call means for the caller's ticket and request.
CallShape ==
    \A c \in Callers :
        /\ at[c] \in {"registered", "sent", "unwinding"} <=> ticket[c] # "none"
        /\ ticket[c] # "none" => body[c] \in Payloads

\* startMutex_ has one holder, which has found started_ unset.
StartMutex ==
    \A c \in Callers : at[c] \in StartPlaces =>
        /\ ~started
        /\ \A d \in Callers : at[d] \in StartPlaces => d = c

\* Until started_ is set no call has passed ensureStarted: a producer that an
\* attempt left behind is empty, and there is no dispatcher.
NothingBeforeStart ==
    ~started =>
        /\ \A c \in Callers : at[c] \in StartPlaces \cup {"idle", "starting"}
        /\ outbox = {} /\ reports = {} /\ tags = {}
        /\ dispatcher = "none"

\* TagsHaveOwner for one tag.
TagOwned(i) ==
    i \in tags <=> \/ \E m \in outbox : m.id = i
                   \/ \E r \in reports : r.id = i

\* A tag is allocated for one message: dr_cb frees it once.
OneMessagePerTag ==
    /\ \A m, n \in outbox : m.id = n.id => m = n
    /\ \A r, s \in reports : r.id = s.id => r = s
    /\ \A m \in outbox, r \in reports : m.id # r.id
    /\ \A i \in tags : \E s \in spent : s[1] = i
    /\ \A c \in Callers : at[c] = "registered" => tid[c] \notin tags

TagInv == OneMessagePerTag /\ \A i \in Ids : TagOwned(i)

\* A correlation id names one request: in the client, in the producer and in
\* the two topics.
IdsNameRequests ==
    /\ \A s, t \in spent : s[1] = t[1] => s[2] = t[2]
    /\ \A m \in outbox \cup wire \cup (replies \ {Foreign}) : <<m.id, m.body>> \in spent
    /\ \A c \in Callers : ticket[c] # "none" =>
           /\ <<tid[c], body[c]>> \in spent
           /\ outcome[c] \in Payloads => outcome[c] = body[c]

ClientInv ==
    /\ TypeOK
    /\ PendingInv
    /\ CallShape
    /\ StartMutex
    /\ NothingBeforeStart
    /\ TagInv
    /\ IdsNameRequests
    /\ OwnReply

-----------------------------------------------------------------------------

\* The client keeps its state in the values the model gives it.
LEMMA TypeStep == ClientInv /\ [Next]_vars => TypeOK'
<1> SUFFICES ASSUME ClientInv, [Next]_vars
             PROVE  TypeOK'
  OBVIOUS
<1>0. TypeOK /\ CallShape /\ SlotsMatchTickets
  BY DEF ClientInv, PendingInv
<1>a. PendingTypeOK'
  BY ClientUsesPending, PendingTypeStep DEF TypeOK, ClientInv
<1> USE <1>0, <1>a DEF TypeOK, StartPlaces
<1>1. ASSUME NEW c \in Callers,
              \/ Enter(c) \/ LockStart(c) \/ StartThrows(c) \/ MakeProducer(c)
              \/ SpawnDispatcher(c) \/ NotifyRegistered(c) \/ ProduceThrows(c) \/ Block(c)
              \/ Answered(c) \/ TimesOut(c)
      PROVE  TypeOK'
  BY <1>1 DEF Enter, LockStart, StartThrows, MakeProducer, SpawnDispatcher,
     NotifyRegistered, ProduceThrows, Block, Answered, TimesOut
<1>2. CASE \/ TestStopping \/ PollEnds \/ ConsumeNothing \/ BrokerAssigns \/ DtorStop
           \/ DtorJoin \/ (\E e \in Errors : DtorClose(e)) \/ DtorNotify \/ UNCHANGED vars
  BY <1>2 DEF TestStopping, PollEnds, ConsumeNothing, BrokerAssigns, DtorStop, DtorJoin,
     DtorClose, DtorNotify, vars
<1>3. ASSUME NEW c \in Callers, MakeConsumer(c)
      PROVE  TypeOK'
  BY <1>3 DEF MakeConsumer
<1>4. ASSUME NEW c \in Callers, WarmUpEnds(c)
      PROVE  TypeOK'
  BY <1>4 DEF WarmUpEnds
<1>5. ASSUME NEW c \in Callers, NEW i \in Ids, NEW p \in Payloads, RegisterCall(c, i, p)
      PROVE  TypeOK'
  BY <1>5 DEF RegisterCall, FreshIds, FreshBodies
<1>6. ASSUME NEW c \in Callers, Produce(c)
      PROVE  TypeOK'
  BY <1>6 DEF Produce, Message, CallShape, SlotsMatchTickets
<1>7. ASSUME NEW c \in Callers, Unwind(c)
      PROVE  TypeOK'
  BY <1>7 DEF Unwind
<1>8. ASSUME NEW r \in reports, NEW e \in Errors, ServeReport(r, e)
      PROVE  TypeOK'
  BY <1>8 DEF ServeReport, ReportServed
<1>9. ASSUME NEW m \in replies, Consume(m)
      PROVE  TypeOK'
  BY <1>9 DEF Consume
<1>10. ASSUME NEW m \in outbox, Delivered(m)
       PROVE  TypeOK'
  <2>1. m \in Message /\ m.id \in Ids
    BY DEF Message
  <2>2. PICK b \in BOOLEAN : reports' = reports \cup {[id |-> m.id, failed |-> b]}
    BY <1>10 DEF Delivered
  <2>3. reports' \subseteq Report
    BY <2>1, <2>2 DEF Report
  <2>4. outbox' \subseteq Message /\ wire' \subseteq Message
    BY <1>10, <2>1 DEF Delivered
  <2>5. UNCHANGED <<at, body, started, tags, assigned, dispatcher, replies, spent, life>>
    BY <1>10 DEF Delivered
  <2> QED
    BY <2>3, <2>4, <2>5
<1>11. ASSUME NEW m \in outbox, DeliveryFails(m)
       PROVE  TypeOK'
  <2>1. m \in Message /\ m.id \in Ids
    BY DEF Message
  <2>2. PICK b \in BOOLEAN : reports' = reports \cup {[id |-> m.id, failed |-> b]}
    BY <1>11 DEF DeliveryFails
  <2>3. reports' \subseteq Report
    BY <2>1, <2>2 DEF Report
  <2>4. outbox' \subseteq Message /\ wire' \subseteq Message
    BY <1>11, <2>1 DEF DeliveryFails
  <2>5. UNCHANGED <<at, body, started, tags, assigned, dispatcher, replies, spent, life>>
    BY <1>11 DEF DeliveryFails
  <2> QED
    BY <2>3, <2>4, <2>5
<1>12. ASSUME NEW m \in wire \cup {Foreign}, GatewayReplies(m)
       PROVE  TypeOK'
  BY <1>12 DEF GatewayReplies
<1>13. ASSUME NEW r \in reports, NEW e \in Errors, DtorServes(r, e)
       PROVE  TypeOK'
  BY <1>13 DEF DtorServes, ReportServed
<1>14. CASE DtorDestroys
  BY <1>14 DEF DtorDestroys
<1> QED
  BY <1>1, <1>2, <1>3, <1>4, <1>5, <1>6, <1>7, <1>8, <1>9, <1>10, <1>11, <1>12, <1>13,
     <1>14
  DEF Next, CallerNext, DispatcherNext, BrokerNext, DtorNext

\* Call moves through its places with its ticket and request in step.
LEMMA CallShapeStep == ClientInv /\ [Next]_vars => CallShape'
<1> SUFFICES ASSUME ClientInv, [Next]_vars
             PROVE  CallShape'
  OBVIOUS
<1>0. TypeOK /\ CallShape /\ PendingTypeOK
  BY DEF ClientInv, PendingInv
<1> USE <1>0 DEF CallShape, TypeOK, PendingTypeOK, StartPlaces
<1>1. ASSUME NEW c \in Callers,
              \/ Enter(c) \/ LockStart(c) \/ StartThrows(c) \/ MakeProducer(c)
              \/ MakeConsumer(c) \/ WarmUpEnds(c) \/ SpawnDispatcher(c) \/ Produce(c)
              \/ ProduceThrows(c)
      PROVE  CallShape'
  BY <1>1 DEF Enter, LockStart, StartThrows, MakeProducer, MakeConsumer, WarmUpEnds,
     SpawnDispatcher, Produce, ProduceThrows
<1>2. CASE \/ TestStopping \/ PollEnds \/ ConsumeNothing \/ BrokerAssigns
           \/ (\E m \in outbox : Delivered(m)) \/ (\E m \in outbox : DeliveryFails(m))
           \/ (\E m \in wire \cup {Foreign} : GatewayReplies(m)) \/ DtorStop \/ DtorJoin
           \/ DtorDestroys \/ UNCHANGED vars
  BY <1>2 DEF TestStopping, PollEnds, ConsumeNothing, BrokerAssigns, Delivered,
     DeliveryFails, GatewayReplies, DtorStop, DtorJoin, DtorDestroys, vars
<1>3. ASSUME NEW c \in Callers, NEW i \in Ids, NEW p \in Payloads, RegisterCall(c, i, p)
      PROVE  CallShape'
  BY <1>3 DEF RegisterCall, Register
<1>4. ASSUME NEW c \in Callers, NotifyRegistered(c)
      PROVE  CallShape'
  BY <1>4 DEF NotifyRegistered, RegisterNotify, NotifyPoller
<1>5. ASSUME NEW c \in Callers, Block(c)
      PROVE  CallShape'
  BY <1>5 DEF Block, WaitSleeps
<1>6. ASSUME NEW c \in Callers, Answered(c)
      PROVE  CallShape'
  BY <1>6 DEF Answered, WaitReturns, Settle
<1>7. ASSUME NEW c \in Callers, TimesOut(c)
      PROVE  CallShape'
  BY <1>7 DEF TimesOut, WaitTimer, Settle
<1>8. ASSUME NEW c \in Callers, Unwind(c)
      PROVE  CallShape'
  BY <1>8 DEF Unwind, Remove
<1>9. ASSUME NEW r \in reports, NEW e \in Errors, ServeReport(r, e)
      PROVE  CallShape'
  BY <1>9 DEF ServeReport, ReportServed, Fail, Finish, MarkDone
<1>10. ASSUME NEW m \in replies, Consume(m)
       PROVE  CallShape'
  BY <1>10 DEF Consume, Complete, Finish, MarkDone
<1>11. ASSUME NEW e \in Errors, DtorClose(e)
       PROVE  CallShape'
  BY <1>11 DEF DtorClose, Close, MarkDone
<1>12. CASE DtorNotify
  BY <1>12 DEF DtorNotify, CloseNotify, NotifyPoller
<1>13. ASSUME NEW r \in reports, NEW e \in Errors, DtorServes(r, e)
       PROVE  CallShape'
  BY <1>13 DEF DtorServes, ReportServed, Fail, Finish, MarkDone
<1> QED
  BY <1>1, <1>2, <1>3, <1>4, <1>5, <1>6, <1>7, <1>8, <1>9, <1>10, <1>11, <1>12, <1>13
  DEF Next, CallerNext, DispatcherNext, BrokerNext, DtorNext

\* ensureStarted keeps startMutex_ from its lock to its return or throw.
LEMMA StartMutexStep == ClientInv /\ [Next]_vars => StartMutex'
<1> SUFFICES ASSUME ClientInv, [Next]_vars
             PROVE  StartMutex'
  OBVIOUS
<1>0. TypeOK /\ StartMutex
  BY DEF ClientInv
<1> USE <1>0 DEF StartMutex, TypeOK, StartPlaces
<1>1. ASSUME NEW c \in Callers,
              \/ Enter(c) \/ StartThrows(c) \/ MakeProducer(c) \/ MakeConsumer(c)
              \/ WarmUpEnds(c) \/ (\E i \in Ids, p \in Payloads : RegisterCall(c, i, p))
              \/ NotifyRegistered(c) \/ Produce(c) \/ ProduceThrows(c) \/ Block(c)
              \/ Answered(c) \/ TimesOut(c) \/ Unwind(c)
      PROVE  StartMutex'
  BY <1>1 DEF Enter, StartThrows, MakeProducer, MakeConsumer, WarmUpEnds, RegisterCall,
     NotifyRegistered, Produce, ProduceThrows, Block, Answered, TimesOut, Unwind
<1>2. CASE \/ TestStopping \/ PollEnds \/ ConsumeNothing
           \/ (\E r \in reports, e \in Errors : ServeReport(r, e))
           \/ (\E m \in replies : Consume(m)) \/ BrokerAssigns
           \/ (\E m \in outbox : Delivered(m)) \/ (\E m \in outbox : DeliveryFails(m))
           \/ (\E m \in wire \cup {Foreign} : GatewayReplies(m)) \/ DtorStop \/ DtorJoin
           \/ (\E e \in Errors : DtorClose(e)) \/ DtorNotify
           \/ (\E r \in reports, e \in Errors : DtorServes(r, e)) \/ DtorDestroys
           \/ UNCHANGED vars
  BY <1>2 DEF TestStopping, PollEnds, ConsumeNothing, ServeReport, Consume, BrokerAssigns,
     Delivered, DeliveryFails, GatewayReplies, DtorStop, DtorJoin, DtorClose, DtorNotify,
     DtorServes, DtorDestroys, vars
<1>3. ASSUME NEW c \in Callers, LockStart(c)
      PROVE  StartMutex'
  BY <1>3 DEF LockStart, StartMutexFree
<1>4. ASSUME NEW c \in Callers, SpawnDispatcher(c)
      PROVE  StartMutex'
  BY <1>4 DEF SpawnDispatcher
<1> QED
  BY <1>1, <1>2, <1>3, <1>4
  DEF Next, CallerNext, DispatcherNext, BrokerNext, DtorNext

\* An attempt that throws leaves nothing that the next could lose.
LEMMA NothingBeforeStartStep == ClientInv /\ [Next]_vars => NothingBeforeStart'
<1> SUFFICES ASSUME ClientInv, [Next]_vars
             PROVE  NothingBeforeStart'
  OBVIOUS
<1>0. TypeOK /\ StartMutex /\ NothingBeforeStart
  BY DEF ClientInv
<1> USE <1>0 DEF NothingBeforeStart, StartMutex, TypeOK, StartPlaces
<1>1. ASSUME NEW c \in Callers,
              \/ StartThrows(c) \/ MakeConsumer(c) \/ WarmUpEnds(c) \/ NotifyRegistered(c)
              \/ ProduceThrows(c) \/ Block(c) \/ Answered(c) \/ TimesOut(c) \/ Unwind(c)
      PROVE  NothingBeforeStart'
  BY <1>1 DEF StartThrows, MakeConsumer, WarmUpEnds, NotifyRegistered, ProduceThrows,
     Block, Answered, TimesOut, Unwind
<1>2. CASE \/ TestStopping \/ PollEnds \/ ConsumeNothing
           \/ (\E m \in replies : Consume(m)) \/ BrokerAssigns
           \/ (\E m \in wire \cup {Foreign} : GatewayReplies(m)) \/ DtorStop \/ DtorJoin
           \/ (\E e \in Errors : DtorClose(e)) \/ DtorNotify \/ DtorDestroys
           \/ UNCHANGED vars
  BY <1>2 DEF TestStopping, PollEnds, ConsumeNothing, Consume, BrokerAssigns,
     GatewayReplies, DtorStop, DtorJoin, DtorClose, DtorNotify, DtorDestroys, vars
<1>3. ASSUME NEW c \in Callers, Enter(c)
      PROVE  NothingBeforeStart'
  BY <1>3 DEF Enter
<1>4. ASSUME NEW c \in Callers, LockStart(c)
      PROVE  NothingBeforeStart'
  BY <1>4 DEF LockStart
<1>5. ASSUME NEW c \in Callers, MakeProducer(c)
      PROVE  NothingBeforeStart'
  BY <1>5 DEF MakeProducer
<1>6. ASSUME NEW c \in Callers, SpawnDispatcher(c)
      PROVE  NothingBeforeStart'
  BY <1>6 DEF SpawnDispatcher
<1>7. ASSUME NEW c \in Callers, NEW i \in Ids, NEW p \in Payloads, RegisterCall(c, i, p)
      PROVE  NothingBeforeStart'
  BY <1>7 DEF RegisterCall
<1>8. ASSUME NEW c \in Callers, Produce(c)
      PROVE  NothingBeforeStart'
  BY <1>8 DEF Produce
<1>9. ASSUME NEW r \in reports, NEW e \in Errors, ServeReport(r, e)
      PROVE  NothingBeforeStart'
  BY <1>9 DEF ServeReport, ReportServed
<1>10. ASSUME NEW m \in outbox, Delivered(m)
       PROVE  NothingBeforeStart'
  BY <1>10 DEF Delivered
<1>11. ASSUME NEW m \in outbox, DeliveryFails(m)
       PROVE  NothingBeforeStart'
  BY <1>11 DEF DeliveryFails
<1>12. ASSUME NEW r \in reports, NEW e \in Errors, DtorServes(r, e)
       PROVE  NothingBeforeStart'
  BY <1>12 DEF DtorServes, ReportServed
<1> QED
  BY <1>1, <1>2, <1>3, <1>4, <1>5, <1>6, <1>7, <1>8, <1>9, <1>10, <1>11, <1>12
  DEF Next, CallerNext, DispatcherNext, BrokerNext, DtorNext

\* Every message has its own tag, and MakeProducer loses none.
LEMMA TagInvStep == ClientInv /\ [Next]_vars => TagInv'
<1> SUFFICES ASSUME ClientInv, [Next]_vars
             PROVE  TagInv'
  OBVIOUS
<1>0. TypeOK /\ StartMutex /\ NothingBeforeStart /\ TagInv /\ CallShape /\
      PendingTypeOK /\ SlotsMatchTickets /\ IdsNameRequests
  BY DEF ClientInv, PendingInv
<1> USE <1>0 DEF TagInv, OneMessagePerTag, TypeOK, PendingTypeOK
<1>1. ASSUME NEW c \in Callers,
              \/ Enter(c) \/ LockStart(c) \/ StartThrows(c) \/ MakeConsumer(c)
              \/ WarmUpEnds(c) \/ SpawnDispatcher(c) \/ ProduceThrows(c)
      PROVE  TagInv'
  BY <1>1 DEF TagOwned, Enter, LockStart, StartThrows, MakeConsumer, WarmUpEnds, SpawnDispatcher,
     ProduceThrows
<1>2. CASE \/ TestStopping \/ PollEnds \/ ConsumeNothing \/ BrokerAssigns
           \/ (\E m \in wire \cup {Foreign} : GatewayReplies(m)) \/ DtorStop \/ DtorJoin
           \/ DtorDestroys \/ UNCHANGED vars
  BY <1>2 DEF TagOwned, TestStopping, PollEnds, ConsumeNothing, BrokerAssigns, GatewayReplies,
     DtorStop, DtorJoin, DtorDestroys, vars
<1>3. ASSUME NEW c \in Callers, MakeProducer(c)
      PROVE  TagInv'
  <2>1. outbox = {} /\ reports = {} /\ tags = {}
    BY <1>3 DEF MakeProducer, StartMutex, NothingBeforeStart, StartPlaces
  <2>2. outbox' = {} /\ reports' = {} /\ tags' = {}
    BY <1>3, <2>1 DEF MakeProducer
  <2>3. \A d \in Callers : at'[d] = "registered" => at[d] = "registered"
    BY <1>3 DEF MakeProducer
  <2> QED
    BY <2>2, <2>3 DEF TagOwned
<1>4. ASSUME NEW c \in Callers, NEW i \in Ids, NEW p \in Payloads, RegisterCall(c, i, p)
      PROVE  TagInv'
  <2>1. /\ spent' = spent \cup {<<i, p>>} /\ \A s \in spent : s[1] # i
        /\ tid' = [tid EXCEPT ![c] = i] /\ at' = [at EXCEPT ![c] = "registered"]
        /\ UNCHANGED <<outbox, reports, tags>>
    BY <1>4 DEF RegisterCall, Register, FreshIds
  <2>2. i \notin tags
    BY <2>1
  <2>3. OneMessagePerTag'
    BY <2>1, <2>2
  <2>4. \A j \in Ids : TagOwned(j)'
    BY <2>1 DEF TagOwned
  <2> QED
    BY <2>3, <2>4
<1>5. ASSUME NEW c \in Callers, NotifyRegistered(c)
      PROVE  TagInv'
  BY <1>5 DEF NotifyRegistered, RegisterNotify, TagOwned
<1>6. ASSUME NEW c \in Callers, Produce(c)
      PROVE  TagInv'
  <2> DEFINE m == [id |-> tid[c], body |-> body[c]]
  <2>1. /\ outbox' = outbox \cup {m} /\ tags' = tags \cup {m.id}
        /\ at' = [at EXCEPT ![c] = "sent"]
        /\ at[c] = "registered" /\ ticket[c] # "none"
        /\ UNCHANGED <<reports, spent, tid>>
    BY <1>6 DEF Produce
  <2>2. m.id = tid[c] /\ m.id \in Ids /\ m.id \notin tags /\ \E s \in spent : s[1] = m.id
    <3>1. <<tid[c], body[c]>> \in spent /\ tid[c] \in Ids
      BY <2>1 DEF IdsNameRequests, SlotsMatchTickets
    <3> QED
      BY <2>1, <3>1
  <2>3. \A d \in Callers \ {c} : at[d] = "registered" => tid[d] # m.id
    BY <2>1, <2>2 DEF CallShape, SlotsMatchTickets
  <2>4. \A n \in outbox : n.id # m.id
    BY <2>2 DEF TagOwned
  <2>5. \A r \in reports : r.id # m.id
    BY <2>2 DEF TagOwned
  <2> HIDE DEF m
  <2>6. OneMessagePerTag'
    BY <2>1, <2>2, <2>3, <2>4, <2>5
  <2>7. \A i \in Ids : TagOwned(i)'
    BY <2>1, <2>2 DEF TagOwned
  <2> QED
    BY <2>6, <2>7
<1>7. ASSUME NEW c \in Callers, Block(c)
      PROVE  TagInv'
  BY <1>7 DEF Block, WaitSleeps, TagOwned
<1>8. ASSUME NEW c \in Callers, Answered(c)
      PROVE  TagInv'
  BY <1>8 DEF Answered, WaitReturns, Settle, TagOwned
<1>9. ASSUME NEW c \in Callers, TimesOut(c)
      PROVE  TagInv'
  BY <1>9 DEF TimesOut, WaitTimer, Settle, TagOwned
<1>10. ASSUME NEW c \in Callers, Unwind(c)
       PROVE  TagInv'
  <2>1. /\ at' = [at EXCEPT ![c] = "idle"] /\ tid' = [tid EXCEPT ![c] = NoId]
        /\ UNCHANGED <<outbox, reports, tags, spent>>
    BY <1>10 DEF Unwind, Remove
  <2> QED
    BY <2>1 DEF TagOwned
<1>11. ASSUME NEW r \in reports, NEW e \in Errors, ServeReport(r, e)
       PROVE  TagInv'
  <2>1. reports' = reports \ {r} /\ tags' = tags \ {r.id}
    BY <1>11 DEF ServeReport, ReportServed
  <2>2. UNCHANGED <<outbox, spent, at, tid>>
    BY <1>11 DEF ServeReport, ReportServed, Fail, Finish
  <2>3. OneMessagePerTag'
    BY <2>1, <2>2
  <2>4. \A i \in Ids : TagOwned(i)'
    BY <2>1, <2>2 DEF TagOwned
  <2> QED
    BY <2>3, <2>4
<1>12. ASSUME NEW m \in replies, Consume(m)
       PROVE  TagInv'
  BY <1>12 DEF Consume, Complete, Finish, TagOwned
<1>13. ASSUME NEW m \in outbox, Delivered(m)
       PROVE  TagInv'
  <2>1. /\ outbox' = outbox \ {m}
        /\ UNCHANGED <<tags, spent, at, tid>>
    BY <1>13 DEF Delivered
  <2>2. PICK new : reports' = reports \cup {new} /\ new.id = m.id
    <3>1. \A b : [id |-> m.id, failed |-> b].id = m.id
      OBVIOUS
    <3> QED
      BY <1>13, <3>1 DEF Delivered
  <2>3. OneMessagePerTag'
    BY <2>1, <2>2
  <2>4. ASSUME NEW i \in Ids
        PROVE  TagOwned(i)'
    <3>1. TagOwned(i)
      OBVIOUS
    <3>2. (\E r \in reports' : r.id = i) <=> i = m.id \/ \E r \in reports : r.id = i
      BY <2>2
    <3>3. (\E n \in outbox : n.id = i) <=> i = m.id \/ \E n \in outbox' : n.id = i
      BY <2>1
    <3> QED
      BY <2>1, <3>1, <3>2, <3>3 DEF TagOwned
  <2> QED
    BY <2>3, <2>4
<1>14. ASSUME NEW m \in outbox, DeliveryFails(m)
       PROVE  TagInv'
  <2>1. /\ outbox' = outbox \ {m}
        /\ UNCHANGED <<tags, spent, at, tid>>
    BY <1>14 DEF DeliveryFails
  <2>2. PICK new : reports' = reports \cup {new} /\ new.id = m.id
    <3>1. \A b : [id |-> m.id, failed |-> b].id = m.id
      OBVIOUS
    <3> QED
      BY <1>14, <3>1 DEF DeliveryFails
  <2>3. OneMessagePerTag'
    BY <2>1, <2>2
  <2>4. ASSUME NEW i \in Ids
        PROVE  TagOwned(i)'
    <3>1. TagOwned(i)
      OBVIOUS
    <3>2. (\E r \in reports' : r.id = i) <=> i = m.id \/ \E r \in reports : r.id = i
      BY <2>2
    <3>3. (\E n \in outbox : n.id = i) <=> i = m.id \/ \E n \in outbox' : n.id = i
      BY <2>1
    <3> QED
      BY <2>1, <3>1, <3>2, <3>3 DEF TagOwned
  <2> QED
    BY <2>3, <2>4
<1>15. ASSUME NEW e \in Errors, DtorClose(e)
       PROVE  TagInv'
  BY <1>15 DEF DtorClose, Close, TagOwned
<1>16. CASE DtorNotify
  BY <1>16 DEF DtorNotify, CloseNotify, TagOwned
<1>17. ASSUME NEW r \in reports, NEW e \in Errors, DtorServes(r, e)
       PROVE  TagInv'
  <2>1. reports' = reports \ {r} /\ tags' = tags \ {r.id}
    BY <1>17 DEF DtorServes, ReportServed
  <2>2. UNCHANGED <<outbox, spent, at, tid>>
    BY <1>17 DEF DtorServes, ReportServed, Fail, Finish
  <2>3. OneMessagePerTag'
    BY <2>1, <2>2
  <2>4. \A i \in Ids : TagOwned(i)'
    BY <2>1, <2>2 DEF TagOwned
  <2> QED
    BY <2>3, <2>4
<1> QED
  BY <1>1, <1>2, <1>3, <1>4, <1>5, <1>6, <1>7, <1>8, <1>9, <1>10, <1>11, <1>12, <1>13,
     <1>14, <1>15, <1>16, <1>17
  DEF Next, CallerNext, DispatcherNext, BrokerNext, DtorNext

\* Fresh ids keep every reply with its own request.
LEMMA IdsNameRequestsStep == ClientInv /\ [Next]_vars => IdsNameRequests'
<1> SUFFICES ASSUME ClientInv, [Next]_vars
             PROVE  IdsNameRequests'
  OBVIOUS
<1>0. TypeOK /\ IdsNameRequests /\ CallShape /\ PendingTypeOK /\ SlotsMatchTickets
  BY DEF ClientInv, PendingInv
<1> USE <1>0 DEF IdsNameRequests, TypeOK, PendingTypeOK, CallShape, Message
<1>1. ASSUME NEW c \in Callers,
              \/ Enter(c) \/ LockStart(c) \/ StartThrows(c) \/ SpawnDispatcher(c)
              \/ ProduceThrows(c)
      PROVE  IdsNameRequests'
  BY <1>1 DEF Enter, LockStart, StartThrows, SpawnDispatcher, ProduceThrows
<1>2. CASE \/ TestStopping \/ PollEnds \/ ConsumeNothing \/ BrokerAssigns \/ DtorStop
           \/ DtorJoin \/ UNCHANGED vars
  BY <1>2 DEF TestStopping, PollEnds, ConsumeNothing, BrokerAssigns, DtorStop, DtorJoin,
     vars
<1>3. ASSUME NEW c \in Callers, MakeProducer(c)
      PROVE  IdsNameRequests'
  BY <1>3 DEF MakeProducer
<1>4. ASSUME NEW c \in Callers, MakeConsumer(c)
      PROVE  IdsNameRequests'
  BY <1>4 DEF MakeConsumer
<1>5. ASSUME NEW c \in Callers, WarmUpEnds(c)
      PROVE  IdsNameRequests'
  BY <1>5 DEF WarmUpEnds
<1>6. ASSUME NEW c \in Callers, NEW i \in Ids, NEW p \in Payloads, RegisterCall(c, i, p)
      PROVE  IdsNameRequests'
  <2>1. /\ spent' = spent \cup {<<i, p>>}
        /\ \A s \in spent : s[1] # i
        /\ UNCHANGED <<outbox, wire, replies>>
    BY <1>6 DEF RegisterCall, FreshIds
  <2>2. \A s, t \in spent' : s[1] = t[1] => s[2] = t[2]
    BY <2>1
  <2>3. /\ tid' = [tid EXCEPT ![c] = i] /\ body' = [body EXCEPT ![c] = p]
        /\ outcome' = [outcome EXCEPT ![c] = "open"]
        /\ ticket' = [ticket EXCEPT ![c] = "notifying"]
    BY <1>6 DEF RegisterCall, Register
  <2>4. ASSUME NEW d \in Callers, ticket'[d] # "none"
        PROVE  /\ <<tid'[d], body'[d]>> \in spent'
               /\ outcome'[d] \in Payloads => outcome'[d] = body'[d]
    <3>1. CASE d = c
      BY <2>1, <2>3, <3>1, PendingAssumption
    <3>2. CASE d # c
      BY <2>1, <2>3, <2>4, <3>2
    <3> QED
      BY <3>1, <3>2
  <2> QED
    BY <2>1, <2>2, <2>4
<1>7. ASSUME NEW c \in Callers, NotifyRegistered(c)
      PROVE  IdsNameRequests'
  BY <1>7 DEF NotifyRegistered, RegisterNotify, NotifyPoller
<1>8. ASSUME NEW c \in Callers, Produce(c)
      PROVE  IdsNameRequests'
  BY <1>8 DEF Produce
<1>9. ASSUME NEW c \in Callers, Block(c)
      PROVE  IdsNameRequests'
  BY <1>9 DEF Block, WaitSleeps
<1>10. ASSUME NEW c \in Callers, Answered(c)
       PROVE  IdsNameRequests'
  BY <1>10 DEF Answered, WaitReturns, Settle
<1>11. ASSUME NEW c \in Callers, TimesOut(c)
       PROVE  IdsNameRequests'
  BY <1>11 DEF TimesOut, WaitTimer, Settle
<1>12. ASSUME NEW c \in Callers, Unwind(c)
       PROVE  IdsNameRequests'
  BY <1>12 DEF Unwind, Remove
<1>13. ASSUME NEW r \in reports, NEW e \in Errors, ServeReport(r, e)
       PROVE  IdsNameRequests'
  <2>1. UNCHANGED <<tid, body, spent, outbox, wire, replies>>
    BY <1>13 DEF ServeReport, ReportServed, Fail, Finish
  <2>2. CASE r.failed
    <3>1. \A c \in Callers :
             /\ outcome'[c] \in {outcome[c], e}
             /\ ticket'[c] # "none" => ticket[c] # "none"
      BY <1>13, <2>2, MarkDoneFacts DEF ServeReport, ReportServed, Fail, Finish
    <3>2. e \notin Payloads
      BY PendingAssumption
    <3> QED
      BY <2>1, <3>1, <3>2
  <2>3. CASE ~r.failed
    BY <1>13, <2>1, <2>3 DEF ServeReport, ReportServed
  <2> QED
    BY <2>2, <2>3
<1>14. ASSUME NEW m \in replies, Consume(m)
       PROVE  IdsNameRequests'
  <2>1. CASE m = Foreign
    BY <1>14, <2>1 DEF Consume
  <2>2. CASE m # Foreign
    <3> DEFINE o == slots[m.id]
    <3>1. m.id \in Ids /\ m.body \in Payloads /\ <<m.id, m.body>> \in spent
      BY <2>2
    <3>2. MarkDone({slots[m.id]} \ {NoCaller}, m.body)
      BY <1>14, <2>2 DEF Consume, Complete, Finish
    <3>3. o \in Callers => tid[o] = m.id /\ ticket[o] # "none"
      BY <3>1, PendingAssumption DEF SlotsMatchTickets
    <3>4. o \in Callers => body[o] = m.body
      <4>1. o \in Callers => <<tid[o], body[o]>> \in spent
        BY <3>3
      <4>2. o \in Callers => <<tid[o], body[o]>>[1] = <<m.id, m.body>>[1]
        BY <3>3
      <4>3. o \in Callers => <<tid[o], body[o]>>[2] = <<m.id, m.body>>[2]
        BY <3>1, <4>1, <4>2
      <4> QED
        BY <4>3
    <3>5. \A c \in Callers :
             /\ outcome'[c] \in {outcome[c], m.body}
             /\ outcome'[c] # outcome[c] => c = o
             /\ ticket'[c] # "none" => ticket[c] # "none"
      BY <3>1, <3>2, MarkDoneFacts
    <3>6. UNCHANGED <<tid, body, spent, outbox, wire>> /\ replies' \subseteq replies
      BY <1>14, <2>2 DEF Consume, Complete, Finish
    <3> QED
      BY <3>4, <3>5, <3>6
  <2> QED
    BY <2>1, <2>2
<1>15. ASSUME NEW m \in outbox, Delivered(m)
       PROVE  IdsNameRequests'
  BY <1>15 DEF Delivered
<1>16. ASSUME NEW m \in outbox, DeliveryFails(m)
       PROVE  IdsNameRequests'
  BY <1>16 DEF DeliveryFails
<1>17. ASSUME NEW m \in wire \cup {Foreign}, GatewayReplies(m)
       PROVE  IdsNameRequests'
  BY <1>17 DEF GatewayReplies
<1>18. ASSUME NEW e \in Errors, DtorClose(e)
       PROVE  IdsNameRequests'
  <2>1. \A c \in Callers :
           /\ outcome'[c] \in {outcome[c], e}
           /\ ticket'[c] # "none" => ticket[c] # "none"
    BY <1>18, MarkDoneFacts DEF DtorClose, Close
  <2>2. UNCHANGED <<tid, body, spent, outbox, wire, replies>>
    BY <1>18 DEF DtorClose, Close
  <2>3. e \notin Payloads
    BY PendingAssumption
  <2> QED
    BY <2>1, <2>2, <2>3
<1>19. CASE DtorNotify
  BY <1>19 DEF DtorNotify, CloseNotify, NotifyPoller
<1>20. ASSUME NEW r \in reports, NEW e \in Errors, DtorServes(r, e)
       PROVE  IdsNameRequests'
  <2>1. UNCHANGED <<tid, body, spent, outbox, wire, replies>>
    BY <1>20 DEF DtorServes, ReportServed, Fail, Finish
  <2>2. CASE r.failed
    <3>1. \A c \in Callers :
             /\ outcome'[c] \in {outcome[c], e}
             /\ ticket'[c] # "none" => ticket[c] # "none"
      BY <1>20, <2>2, MarkDoneFacts DEF DtorServes, ReportServed, Fail, Finish
    <3>2. e \notin Payloads
      BY PendingAssumption
    <3> QED
      BY <2>1, <3>1, <3>2
  <2>3. CASE ~r.failed
    BY <1>20, <2>1, <2>3 DEF DtorServes, ReportServed
  <2> QED
    BY <2>2, <2>3
<1>21. CASE DtorDestroys
  BY <1>21 DEF DtorDestroys
<1> QED
  BY <1>1, <1>2, <1>3, <1>4, <1>5, <1>6, <1>7, <1>8, <1>9, <1>10, <1>11, <1>12, <1>13,
     <1>14, <1>15, <1>16, <1>17, <1>18, <1>19, <1>20, <1>21
  DEF Next, CallerNext, DispatcherNext, BrokerNext, DtorNext

\* Wait returns the reply to the request of its own ticket.
LEMMA OwnReplyStep == ClientInv /\ [Next]_vars => OwnReply'
<1> SUFFICES ASSUME ClientInv, [Next]_vars
             PROVE  OwnReply'
  OBVIOUS
<1>0. TypeOK /\ OwnReply /\ CallShape /\ PendingTypeOK /\ IdsNameRequests
  BY DEF ClientInv, PendingInv
<1> USE <1>0 DEF OwnReply, TypeOK, PendingTypeOK, CallShape
<1>1. ASSUME NEW c \in Callers,
              \/ Enter(c) \/ LockStart(c) \/ StartThrows(c) \/ MakeProducer(c)
              \/ MakeConsumer(c) \/ WarmUpEnds(c) \/ SpawnDispatcher(c) \/ Produce(c)
              \/ ProduceThrows(c)
      PROVE  OwnReply'
  BY <1>1 DEF Enter, LockStart, StartThrows, MakeProducer, MakeConsumer, WarmUpEnds,
     SpawnDispatcher, Produce, ProduceThrows
<1>2. CASE \/ TestStopping \/ PollEnds \/ ConsumeNothing \/ BrokerAssigns
           \/ (\E m \in outbox : Delivered(m)) \/ (\E m \in outbox : DeliveryFails(m))
           \/ (\E m \in wire \cup {Foreign} : GatewayReplies(m)) \/ DtorStop \/ DtorJoin
           \/ DtorDestroys \/ UNCHANGED vars
  BY <1>2 DEF TestStopping, PollEnds, ConsumeNothing, BrokerAssigns, Delivered,
     DeliveryFails, GatewayReplies, DtorStop, DtorJoin, DtorDestroys, vars
<1>3. ASSUME NEW c \in Callers, NEW i \in Ids, NEW p \in Payloads, RegisterCall(c, i, p)
      PROVE  OwnReply'
  BY <1>3 DEF RegisterCall, Register
<1>4. ASSUME NEW c \in Callers, NotifyRegistered(c)
      PROVE  OwnReply'
  BY <1>4 DEF NotifyRegistered, RegisterNotify, NotifyPoller
<1>5. ASSUME NEW c \in Callers, Block(c)
      PROVE  OwnReply'
  BY <1>5 DEF Block, WaitSleeps
<1>6. ASSUME NEW c \in Callers, Answered(c)
      PROVE  OwnReply'
  BY <1>6 DEF Answered, WaitReturns, Settle, IdsNameRequests
<1>7. ASSUME NEW c \in Callers, TimesOut(c)
      PROVE  OwnReply'
  <2>1. result'[c] \in {"timeout", outcome[c]} /\ UNCHANGED <<outcome, body>>
    BY <1>7 DEF TimesOut, WaitTimer, Settle
  <2>2. ticket[c] # "none"
    BY <1>7 DEF TimesOut, WaitTimer
  <2>3. "timeout" \notin Payloads
    BY PendingAssumption
  <2>4. /\ result' = [result EXCEPT ![c] = IF outcome[c] = "open" THEN "timeout"
                                           ELSE outcome[c]]
        /\ ticket' = [ticket EXCEPT ![c] = "settled"]
    BY <1>7 DEF TimesOut, WaitTimer, Settle
  <2>5. result'[c] \in Payloads => result'[c] = body'[c]
    BY <2>1, <2>2, <2>3 DEF IdsNameRequests
  <2> QED
    BY <2>1, <2>4, <2>5
<1>8. ASSUME NEW c \in Callers, Unwind(c)
      PROVE  OwnReply'
  BY <1>8 DEF Unwind, Remove
<1>9. ASSUME NEW r \in reports, NEW e \in Errors, ServeReport(r, e)
      PROVE  OwnReply'
  BY <1>9 DEF ServeReport, ReportServed, Fail, Finish, MarkDone
<1>10. ASSUME NEW m \in replies, Consume(m)
       PROVE  OwnReply'
  BY <1>10 DEF Consume, Complete, Finish, MarkDone
<1>11. ASSUME NEW e \in Errors, DtorClose(e)
       PROVE  OwnReply'
  BY <1>11 DEF DtorClose, Close, MarkDone
<1>12. CASE DtorNotify
  BY <1>12 DEF DtorNotify, CloseNotify, NotifyPoller
<1>13. ASSUME NEW r \in reports, NEW e \in Errors, DtorServes(r, e)
       PROVE  OwnReply'
  BY <1>13 DEF DtorServes, ReportServed, Fail, Finish, MarkDone
<1> QED
  BY <1>1, <1>2, <1>3, <1>4, <1>5, <1>6, <1>7, <1>8, <1>9, <1>10, <1>11, <1>12, <1>13
  DEF Next, CallerNext, DispatcherNext, BrokerNext, DtorNext

-----------------------------------------------------------------------------

\* Every step of the client preserves every conjunct.
LEMMA ClientStep == ClientInv /\ [Next]_vars => ClientInv'
<1> SUFFICES ASSUME ClientInv, [Next]_vars
             PROVE  ClientInv'
  OBVIOUS
<1>1. PendingInv'
  BY ClientUsesPending, PendingStep DEF ClientInv
<1> QED
  BY <1>1, TypeStep, CallShapeStep, StartMutexStep, NothingBeforeStartStep, TagInvStep,
     IdsNameRequestsStep, OwnReplyStep
  DEF ClientInv

\* A new client has no producer, no call and no correlation id.
LEMMA ClientInit == Init => ClientInv
<1> SUFFICES ASSUME Init
             PROVE  ClientInv
  OBVIOUS
<1> USE DEF Init
<1>1. TypeOK /\ PendingInv
  <2>1. PendingTypeOK
    BY DEF PendingInit, PendingTypeOK
  <2>2. SlotsMatchTickets /\ SleepersUnanswered
    BY DEF PendingInit, SlotsMatchTickets, SleepersUnanswered
  <2>3. ClosedAnswersAll /\ PollerAboutToBeNotified
    BY DEF PendingInit, ClosedAnswersAll, PollerAboutToBeNotified
  <2>4. TypeOK
    BY <2>1 DEF TypeOK
  <2> QED
    BY <2>1, <2>2, <2>3, <2>4 DEF PendingInv
<1>2. CallShape /\ StartMutex /\ NothingBeforeStart
  BY DEF CallShape, StartMutex, NothingBeforeStart, StartPlaces, PendingInit
<1>3. TagInv
  BY DEF TagInv, OneMessagePerTag, TagOwned
<1>4. IdsNameRequests /\ OwnReply
  BY DEF IdsNameRequests, OwnReply, PendingInit
<1> QED
  BY <1>1, <1>2, <1>3, <1>4 DEF ClientInv

\* The inductive invariant of call, the dispatcher, librdkafka's reports and the
\* destructor of KafkaClient.cpp together.
THEOREM ClientInvariant == Spec => []ClientInv
BY ClientInit, ClientStep, PTL DEF Spec

\* KafkaClient.cpp keeps its state in the values the model gives it.
THEOREM ClientTypeCorrect == Spec => []TypeOK
<1>1. ClientInv => TypeOK
  BY DEF ClientInv
<1> QED
  BY <1>1, ClientInvariant, PTL

\* However often ensureStarted throws and is run again under racing calls, every
\* deliveryTag in the heap belongs to a message whose report will free it.
THEOREM EveryTagIsOwned == Spec => []TagsHaveOwner
<1>1. ClientInv => TagsHaveOwner
  <2> SUFFICES ASSUME ClientInv
               PROVE  TagsHaveOwner
    OBVIOUS
  <2>1. tags \subseteq Ids /\ outbox \subseteq Message /\ reports \subseteq Report
    BY DEF ClientInv, TypeOK
  <2>2. \A i \in Ids : TagOwned(i)
    BY DEF ClientInv, TagInv
  <2>3. \A m \in outbox : m.id \in Ids
    BY <2>1 DEF Message
  <2>4. \A r \in reports : r.id \in Ids
    BY <2>1 DEF Report
  <2> QED
    BY <2>1, <2>2, <2>3, <2>4 DEF TagsHaveOwner, TagOwned
<1> QED
  BY <1>1, ClientInvariant, PTL

\* Replies to other clients, to earlier calls and second replies reach the same
\* consumer, and yet a call returns only the reply to its own request.
THEOREM RepliesAreOwn == Spec => []OwnReply
<1>1. ClientInv => OwnReply
  BY DEF ClientInv
<1> QED
  BY <1>1, ClientInvariant, PTL

\* The client implements the correlator's specification, hence its contract.
THEOREM ClientImplementsPending == Spec => PendingSpec
<1>1. Init => PendingInit
  BY DEF Init
<1>2. ClientInv => TypeOK
  BY DEF ClientInv
<1> QED
  BY <1>1, <1>2, ClientUsesPending, ClientInvariant, PTL DEF Spec, PendingSpec
=============================================================================
