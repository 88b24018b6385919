----------------------------- MODULE KafkaServer -----------------------------
(***************************************************************************)
(* KafkaServer (kafka/KafkaPlugin/KafkaServer.cpp): start() creates a      *)
(* thread and moves it into worker_, stop() joins worker_.  Nothing but    *)
(* the atomic running_ orders the two: a stop() may overtake a start(),    *)
(* there may be two workers for a while, and two stop()s may join one.     *)
(*                                                                         *)
(* A worker reads one request at a time from its consumer, calls           *)
(* processMessage, hands the reply to its producer, flushes, and commits   *)
(* the request's offset; an exception drops producer and consumer and      *)
(* begins again at the committed offset.  What becomes of a reply that the *)
(* producer has taken is left out: there is no dr_cb, nobody is told.      *)
(*                                                                         *)
(* One partition; requests are their offsets.  The broker, librdkafka and  *)
(* processMessage are external: a connection, a poll, a commit or a        *)
(* delivery may fail, and the partition may be taken from a consumer.      *)
(***************************************************************************)
EXTENDS Naturals

CONSTANTS Controllers,  \* threads that call configure, start and stop
          Workers,      \* threads that start() may create
          NoWorker,     \* a std::thread without a thread
          Last          \* the offset of the last request that is ever sent

ASSUME KafkaServerAssumption == Last \in Nat /\ NoWorker \notin Workers

Requests == 1..Last

VARIABLES
    running,    \* running_
    worker,     \* worker_
    calling,    \* where each controller is in start or stop
    handle,     \* the thread start() has created or stop() waits for
    process,    \* process_ is not null
    loop,       \* where each worker is in loop
    kind,       \* what a request's reply is like
    sent,       \* the requests in the topic
    position,   \* the last request each worker's consumer has read
    committed,  \* the last request the group has committed
    settled     \* refused or skipped, or executed and the reply, if any, handed over

controlVars == <<running, worker, calling, handle>>
queueVars == <<kind, sent>>
readVars == <<process, position, committed, settled, queueVars>>
serverVars == <<controlVars, loop, readVars>>

Handling == {"handling", "replying", "committing"}

ServerTypeOK ==
    /\ running \in BOOLEAN
    /\ worker \in Workers \cup {NoWorker}
    /\ calling \in [Controllers -> {"nothing", "starting", "moving",
                                    "stopping", "joining", "waiting"}]
    /\ handle \in [Controllers -> Workers \cup {NoWorker}]
    /\ process \in BOOLEAN
    /\ loop \in [Workers -> Handling \cup {"none", "testing", "connecting", "polling",
                                           "consuming", "exited"}]
    /\ kind \in [Requests -> {"plain", "oversized", "unanswerable"}]
    /\ sent \in 0..Last
    /\ position \in [Workers -> 0..sent]
    /\ committed \in 0..sent
    /\ settled \subseteq Requests

ServerInit ==
    /\ running = FALSE
    /\ worker = NoWorker
    /\ calling = [c \in Controllers |-> "nothing"]
    /\ handle = [c \in Controllers |-> NoWorker]
    /\ process = FALSE
    /\ loop = [t \in Workers |-> "none"]
    /\ kind \in [Requests -> {"plain", "oversized", "unanswerable"}]
    /\ sent = 0
    /\ position = [t \in Workers |-> 0]
    /\ committed = 0
    /\ settled = {}

-----------------------------------------------------------------------------
(* configure and start.                                                    *)

\* Only processMessage matters here: configure has no test of running_.
Configure(callback) ==
    /\ process' = callback
    /\ UNCHANGED <<controlVars, loop, position, committed, settled, queueVars>>

\* A controller goes from one place in start or stop to another.
Goes(c, from, to) ==
    /\ calling[c] = from
    /\ calling' = [calling EXCEPT ![c] = to]
    /\ UNCHANGED readVars

\* A start() that finds running_ set returns at once and is no step here.
Start(c) ==
    /\ ~running
    /\ running' = TRUE
    /\ Goes(c, "nothing", "starting")
    /\ UNCHANGED <<worker, handle, loop>>

\* The thread runs from here on, though worker_ does not have it yet.
CreateThread(c, t) ==
    /\ loop[t] = "none"
    /\ loop' = [loop EXCEPT ![t] = "testing"]
    /\ handle' = [handle EXCEPT ![c] = t]
    /\ Goes(c, "starting", "moving")
    /\ UNCHANGED <<running, worker>>

\* std::thread throws: running_ stays set.
CreateThreadThrows(c) ==
    /\ Goes(c, "starting", "nothing")
    /\ UNCHANGED <<running, worker, handle, loop>>

\* The process ends, with all that is in its memory.
ProcessEnds ==
    /\ running' = FALSE
    /\ worker' = NoWorker
    /\ calling' = [c \in Controllers |-> "nothing"]
    /\ handle' = [c \in Controllers |-> NoWorker]
    /\ process' = FALSE
    /\ loop' = [t \in Workers |-> "none"]
    /\ position' = [t \in Workers |-> 0]
    /\ UNCHANGED <<committed, settled, queueVars>>

MoveThread(c) ==
    /\ worker = NoWorker
    /\ worker' = handle[c]
    /\ handle' = [handle EXCEPT ![c] = NoWorker]
    /\ Goes(c, "moving", "nothing")
    /\ UNCHANGED <<running, loop>>

\* worker_ still holds the thread of an earlier start(): std::terminate.
MoveTerminates(c) ==
    /\ calling[c] = "moving"
    /\ worker # NoWorker
    /\ ProcessEnds

-----------------------------------------------------------------------------
(* stop: both branches join worker_ if it is joinable.                     *)

Stop(c) ==
    /\ running' = FALSE
    /\ Goes(c, "nothing", "stopping")
    /\ UNCHANGED <<worker, handle, loop>>

\* Mistake: a stop() leaves the join to another that came before it.
TestJoinableAlone(c) ==
    /\ Goes(c, "stopping",
            IF worker = NoWorker \/ \E d \in Controllers : calling[d] \in {"joining", "waiting"}
            THEN "nothing" ELSE "joining")
    /\ UNCHANGED <<running, worker, handle, loop>>

TestJoinable(c) ==
    /\ Goes(c, "stopping", IF worker = NoWorker THEN "nothing" ELSE "joining")
    /\ UNCHANGED <<running, worker, handle, loop>>

\* Another stop() has joined worker_ since joinable(), or is about to: join
\* throws std::system_error, and stop() with it.
JoinThrows(c) ==
    /\ Goes(c, "joining", "nothing")
    /\ worker = NoWorker \/ \E d \in Controllers : calling[d] = "waiting" /\ handle[d] = worker
    /\ UNCHANGED <<running, worker, handle, loop>>

JoinWaits(c) ==
    /\ Goes(c, "joining", "waiting")
    /\ worker # NoWorker
    /\ \A d \in Controllers : calling[d] = "waiting" => handle[d] # worker
    /\ handle' = [handle EXCEPT ![c] = worker]
    /\ UNCHANGED <<running, worker, loop>>

JoinReturns(c) ==
    /\ Goes(c, "waiting", "nothing")
    /\ loop[handle[c]] = "exited"
    /\ loop' = [loop EXCEPT ![handle[c]] = "none"]
    /\ worker' = NoWorker
    /\ handle' = [handle EXCEPT ![c] = NoWorker]
    /\ UNCHANGED running

-----------------------------------------------------------------------------
(* The two loops of a worker.                                              *)

\* A step of a worker from one place to another that leaves the rest alone.
Moves(t, from, to) ==
    /\ loop[t] = from
    /\ loop' = [loop EXCEPT ![t] = to]
    /\ UNCHANGED <<controlVars, process, queueVars>>

TestOuter(t) ==
    /\ Moves(t, "testing", IF running THEN "connecting" ELSE "exited")
    /\ UNCHANGED <<position, committed, settled>>

\* A new consumer begins at the committed offset, or at the earliest.
Connect(t) ==
    /\ Moves(t, "connecting", "polling")
    /\ position' = [position EXCEPT ![t] = committed]
    /\ UNCHANGED <<committed, settled>>

ConnectFails(t) ==
    /\ Moves(t, "connecting", "testing")
    /\ UNCHANGED <<position, committed, settled>>

TestInner(t) ==
    /\ running
    /\ Moves(t, "polling", "consuming")
    /\ UNCHANGED <<position, committed, settled>>

\* The inner loop is left: consumer and producer are closed, and what was read
\* since the last commit with them.  A pause follows if running_ is set.
Leaves(t, from) ==
    /\ Moves(t, from, "testing")
    /\ position' = [position EXCEPT ![t] = 0]
    /\ UNCHANGED <<committed, settled>>

LeaveInner(t) == ~running /\ Leaves(t, "polling")

\* consume times out, reaches the partition's end or fails.
ConsumeNoRequest(t) ==
    /\ Moves(t, "consuming", "polling")
    /\ UNCHANGED <<position, committed, settled>>

\* The group has given the partition to another member and back.
ConsumeRejoins(t) ==
    /\ Moves(t, "consuming", "polling")
    /\ position' = [position EXCEPT ![t] = committed]
    /\ UNCHANGED <<committed, settled>>

ConsumeRequest(t) ==
    /\ position[t] < sent
    /\ Moves(t, "consuming", "handling")
    /\ position' = [position EXCEPT ![t] = @ + 1]
    /\ UNCHANGED <<committed, settled>>

\* No callback, and the request is committed unseen; or processMessage returns
\* false.
SkipOrRefuse(t) ==
    /\ Moves(t, "handling", "committing")
    /\ settled' = settled \cup {position[t]}
    /\ UNCHANGED <<position, committed>>

\* Mistake: the exception is caught in the inner loop, which reads on.
ProcessThrowsInLoop(t) ==
    /\ process
    /\ Moves(t, "handling", "polling")
    /\ UNCHANGED <<position, committed, settled>>

ProcessThrows(t) == process /\ Leaves(t, "handling")

Execute(t) ==
    /\ process /\ loop[t] = "handling"
    /\ IF kind[position[t]] = "unanswerable"
       THEN Moves(t, "handling", "committing") /\ settled' = settled \cup {position[t]}
       ELSE Moves(t, "handling", "replying") /\ UNCHANGED settled
    /\ UNCHANGED <<position, committed>>

\* publishReply; flush(10000) empties the producer or gives up.
Reply(t) ==
    /\ Moves(t, "replying", "committing")
    /\ kind[position[t]] = "plain"
    /\ settled' = settled \cup {position[t]}
    /\ UNCHANGED <<position, committed>>

\* The reply is larger than a message may be, or the producer's queue is full.
ReplyThrows(t) == Leaves(t, "replying")

\* commitSync; its result is ignored.
Commit(t) ==
    /\ Moves(t, "committing", "polling")
    /\ committed' \in {committed, position[t]}
    /\ UNCHANGED <<position, settled>>

-----------------------------------------------------------------------------
(* The clients.                                                            *)

ClientSends ==
    /\ sent < Last
    /\ sent' = sent + 1
    /\ UNCHANGED <<controlVars, process, loop, kind, position, committed, settled>>

-----------------------------------------------------------------------------

WorkerNext(t) ==
    \/ TestOuter(t) \/ Connect(t) \/ ConnectFails(t) \/ TestInner(t) \/ LeaveInner(t)
    \/ ConsumeNoRequest(t) \/ ConsumeRejoins(t) \/ ConsumeRequest(t)
    \/ SkipOrRefuse(t) \/ ProcessThrows(t) \/ Execute(t) \/ Reply(t) \/ ReplyThrows(t)
    \/ Commit(t)

\* The steps of a controller in start or stop.
ControlNext(c) ==
    \/ (\E t \in Workers : CreateThread(c, t)) \/ CreateThreadThrows(c)
    \/ MoveThread(c) \/ MoveTerminates(c)
    \/ TestJoinable(c) \/ JoinThrows(c) \/ JoinWaits(c) \/ JoinReturns(c)

ServerNext ==
    \/ \E callback \in BOOLEAN : Configure(callback)
    \/ \E c \in Controllers : Start(c) \/ Stop(c) \/ ControlNext(c)
    \/ \E t \in Workers : WorkerNext(t)
    \/ ClientSends
    \/ ProcessEnds

ServerSpec == ServerInit /\ [][ServerNext]_serverVars

\* Threads run; librdkafka's calls have timeouts; processMessage returns.
ServerFairness ==
    /\ \A c \in Controllers : WF_serverVars(ControlNext(c))
    /\ \A t \in Workers : WF_serverVars(WorkerNext(t))

FairServerSpec == ServerSpec /\ ServerFairness

\* Besides, whatever may succeed does so in the end: connecting, consuming,
\* executing, handing over the reply, committing.
LuckySpec ==
    /\ FairServerSpec
    /\ \A t \in Workers :
           /\ SF_serverVars(Connect(t))
           /\ SF_serverVars(ConsumeRequest(t))
           /\ SF_serverVars(Execute(t))
           /\ SF_serverVars(Reply(t))
           /\ SF_serverVars(Commit(t) /\ committed' = position[t])

-----------------------------------------------------------------------------
(* Properties                                                              *)

\* The committed offset never passes a request that is not settled, whichever
\* step fails, whenever the process ends and whichever worker commits:
\* commitSync covers every earlier offset, so after an exception the loop must
\* not read on.
CommitSkipsNothing == \A r \in Requests : r <= committed => r \in settled

\* A stop() that returns, and does not throw, leaves no worker behind, whatever
\* other stop()s do meanwhile; but for a start() that is under way: it has set
\* running_, and worker_ does not have its thread yet (KafkaServer.cpp:104).
StopLeavesNoWorker ==
    [][\A c \in Controllers :
           /\ calling[c] \in {"stopping", "waiting"} /\ calling'[c] = "nothing"
           /\ \A d \in Controllers : calling[d] \notin {"starting", "moving"}
           => \A t \in Workers : loop'[t] = "none"]_serverVars

\* KafkaServer.cpp:263: no poison-pill loops.  While the server runs on, with
\* its callback, no request is handled again and again.
NoPoisonPill ==
    \A r \in Requests, t \in Workers :
        <>[](running /\ process) => <>[]~(loop[t] = "handling" /\ position[t] = r)
=============================================================================
