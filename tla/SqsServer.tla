------------------------------ MODULE SqsServer ------------------------------
(***************************************************************************)
(* SqsServer (sqs/SqsPlugin/SqsServer.cpp): start() runs the receive loop  *)
(* on the caller's thread; stop() is called from any other thread, also by *)
(* the destructor, and waits until the loop has ended; configure() may be  *)
(* called while no loop runs.                                              *)
(*                                                                         *)
(* SQS is external: a received request is hidden until it is deleted or    *)
(* its visibility timeout ends, and then it is delivered again.  Every     *)
(* operation may fail.  A client object is named by the thread whose       *)
(* start() made it.                                                        *)
(***************************************************************************)

CONSTANTS Starters,   \* threads that call start
          Stoppers,   \* threads that call stop
          Requests,   \* requests that reach the queue
          NoThread,   \* a null activeClient_
          NoRequest

ASSUME SqsServerAssumption == NoThread \notin Starters /\ NoRequest \notin Requests

VARIABLES
    config,         \* config_ and processMessage_: "rpc", "oneWay" or unset
    running,        \* running_
    stopRequested,  \* stopRequested_
    active,         \* activeClient_
    pc,             \* where each starter is in start
    using,          \* the configuration its loop copied
    disabled,       \* whether its client's requests are disabled
    handling,       \* the request it handles
    spc,            \* where each stopper is in stop
    target,         \* the client the stopper saw
    overtaken,      \* stops that a start() has overtaken since
    queue,          \* the requests in SQS
    proper,         \* the requests with both RPC attributes
    executed,       \* requests processMessage has returned true for
    replied         \* requests whose reply has been sent

startVars == <<pc, using, disabled, handling>>
stopVars == <<spc, target, overtaken>>
stateVars == <<config, running, stopRequested, active>>
requestVars == <<queue, proper, executed, replied>>
serverVars == <<stateVars, startVars, stopVars, requestVars>>

ServerTypeOK ==
    /\ config \in {"unset", "rpc", "oneWay"}
    /\ running \in BOOLEAN
    /\ stopRequested \in BOOLEAN
    /\ active \in Starters \cup {NoThread}
    /\ pc \in [Starters -> {"idle", "claimed", "configured", "created", "looping",
                            "receiving", "backoff", "checking", "processing",
                            "replying", "deleting", "cleanup", "notifying"}]
    /\ using \in [Starters -> {"unset", "rpc", "oneWay"}]
    /\ disabled \in [Starters -> BOOLEAN]
    /\ handling \in [Starters -> Requests \cup {NoRequest}]
    /\ spc \in [Stoppers -> {"idle", "disabling", "waiting", "asleep"}]
    /\ target \in [Stoppers -> Starters \cup {NoThread}]
    /\ overtaken \subseteq Stoppers
    /\ queue \in [Requests -> {"unsent", "visible", "hidden", "deleted"}]
    /\ proper \subseteq Requests
    /\ executed \subseteq Requests
    /\ replied \subseteq Requests

ServerInit ==
    /\ config = "unset"
    /\ running = FALSE
    /\ stopRequested = FALSE
    /\ active = NoThread
    /\ pc = [t \in Starters |-> "idle"]
    /\ using = [t \in Starters |-> "unset"]
    /\ disabled = [t \in Starters |-> FALSE]
    /\ handling = [t \in Starters |-> NoRequest]
    /\ spc = [s \in Stoppers |-> "idle"]
    /\ target = [s \in Stoppers |-> NoThread]
    /\ overtaken = {}
    /\ queue = [r \in Requests |-> "unsent"]
    /\ proper \in SUBSET Requests
    /\ executed = {}
    /\ replied = {}

MovesTo(t, place) == pc' = [pc EXCEPT ![t] = place]

\* The stops that have set the flag and wait for the loop to end.
StopsInProgress == {s \in Stoppers : spc[s] # "idle"}

-----------------------------------------------------------------------------
(* configure and the critical sections of start, under stateMutex_.        *)

Configure(c) ==
    /\ ~running
    /\ config' = c
    /\ UNCHANGED <<running, stopRequested, active, startVars, stopVars, requestVars>>

\* Mistake: start does not test running_.
StartAgain(t) ==
    /\ pc[t] = "idle"
    /\ running' = TRUE
    /\ stopRequested' = FALSE
    /\ MovesTo(t, "claimed")
    /\ overtaken' = overtaken \cup StopsInProgress
    /\ UNCHANGED <<config, active, using, disabled, handling, spc, target, requestVars>>

\* A start() that finds running_ set returns at once and is no step here.
Start(t) ==
    /\ pc[t] = "idle"
    /\ ~running
    /\ running' = TRUE
    /\ stopRequested' = FALSE
    /\ MovesTo(t, "claimed")
    /\ overtaken' = overtaken \cup StopsInProgress
    /\ UNCHANGED <<config, active, using, disabled, handling, spc, target, requestVars>>

CopyConfig(t) ==
    /\ pc[t] = "claimed"
    /\ using' = [using EXCEPT ![t] = config]
    /\ MovesTo(t, "configured")
    /\ UNCHANGED <<stateVars, disabled, handling, stopVars, requestVars>>

\* A client made by an earlier start of t is another object: a stopper that
\* still holds it cannot reach the new one.
CreateClient(t) ==
    /\ pc[t] = "configured"
    /\ using[t] # "unset"
    /\ target' = [s \in Stoppers |-> IF target[s] = t THEN NoThread ELSE target[s]]
    /\ disabled' = [disabled EXCEPT ![t] = FALSE]
    /\ MovesTo(t, "created")
    /\ UNCHANGED <<stateVars, using, handling, spc, overtaken, requestVars>>

\* The configuration is unset or invalid, or the SDK throws.
CreateFails(t) ==
    /\ pc[t] = "configured"
    /\ MovesTo(t, "cleanup")
    /\ UNCHANGED <<stateVars, using, disabled, handling, stopVars, requestVars>>

PublishClient(t) ==
    /\ pc[t] = "created"
    /\ active' = t
    /\ disabled' = [disabled EXCEPT ![t] = stopRequested]
    /\ MovesTo(t, "looping")
    /\ UNCHANGED <<config, running, stopRequested, using, handling, stopVars, requestVars>>

Cleanup(t) ==
    /\ pc[t] = "cleanup"
    /\ active' = NoThread
    /\ running' = FALSE
    /\ MovesTo(t, "notifying")
    /\ UNCHANGED <<config, stopRequested, using, disabled, handling, stopVars, requestVars>>

\* Mistake: the stoppers are not notified.
NotifyNobody(t) ==
    /\ pc[t] = "notifying"
    /\ MovesTo(t, "idle")
    /\ UNCHANGED <<stateVars, using, disabled, handling, stopVars, requestVars>>

\* stoppedCondition_.notify_all, outside the mutex.
NotifyStopped(t) ==
    /\ pc[t] = "notifying"
    /\ MovesTo(t, "idle")
    /\ spc' = [s \in Stoppers |-> IF spc[s] = "asleep" THEN "waiting" ELSE spc[s]]
    /\ UNCHANGED <<stateVars, using, disabled, handling, target, overtaken, requestVars>>

-----------------------------------------------------------------------------
(* The receive loop.                                                       *)

TestStop(t) ==
    /\ pc[t] = "looping"
    /\ MovesTo(t, IF stopRequested THEN "cleanup" ELSE "receiving")
    /\ UNCHANGED <<stateVars, using, disabled, handling, stopVars, requestVars>>

ReceiveRequest(t, r) ==
    /\ pc[t] = "receiving"
    /\ ~disabled[t]
    /\ queue[r] = "visible"
    /\ queue' = [queue EXCEPT ![r] = "hidden"]
    /\ handling' = [handling EXCEPT ![t] = r]
    /\ MovesTo(t, "checking")
    /\ UNCHANGED <<stateVars, using, disabled, stopVars, proper, executed, replied>>

\* The long poll ends empty, or the request fails.
ReceiveNothing(t) ==
    /\ pc[t] = "receiving"
    /\ MovesTo(t, "looping")
    /\ UNCHANGED <<stateVars, using, disabled, handling, stopVars, requestVars>>

ReceiveRequestFails(t) ==
    /\ pc[t] = "receiving"
    /\ MovesTo(t, IF stopRequested THEN "looping" ELSE "backoff")
    /\ UNCHANGED <<stateVars, using, disabled, handling, stopVars, requestVars>>

\* SleepUnlessStopped.
PauseEnds(t) ==
    /\ pc[t] = "backoff"
    /\ MovesTo(t, "looping")
    /\ UNCHANGED <<stateVars, using, disabled, handling, stopVars, requestVars>>

\* The request in hand is left to its visibility timeout.
Leave(t) ==
    /\ handling' = [handling EXCEPT ![t] = NoRequest]
    /\ MovesTo(t, "looping")
    /\ UNCHANGED <<stateVars, using, disabled, stopVars, requestVars>>

\* The loop tests stopRequested_ again, then the request's attributes.
CheckRequest(t) ==
    /\ pc[t] = "checking"
    /\ IF stopRequested \/ (using[t] = "rpc" /\ handling[t] \notin proper)
       THEN Leave(t)
       ELSE /\ MovesTo(t, "processing")
            /\ UNCHANGED <<stateVars, using, disabled, handling, stopVars, requestVars>>

\* The body does not decode, or processMessage returns false or throws.
ProcessFails(t) == pc[t] = "processing" /\ Leave(t)

\* The SDK throws outside the inner try, or processMessage throws something
\* that is no std::exception: the loop ends.
LoopThrows(t) ==
    /\ pc[t] \in {"receiving", "processing"}
    /\ handling' = [handling EXCEPT ![t] = NoRequest]
    /\ MovesTo(t, "cleanup")
    /\ UNCHANGED <<stateVars, using, disabled, stopVars, requestVars>>

Process(t) ==
    /\ pc[t] = "processing"
    /\ executed' = executed \cup {handling[t]}
    /\ MovesTo(t, IF using[t] = "oneWay" THEN "deleting" ELSE "replying")
    /\ UNCHANGED <<stateVars, using, disabled, handling, stopVars, queue, proper, replied>>

Reply(t) ==
    /\ pc[t] = "replying"
    /\ ~disabled[t]
    /\ replied' = replied \cup {handling[t]}
    /\ MovesTo(t, "deleting")
    /\ UNCHANGED <<stateVars, using, disabled, handling, stopVars, queue, proper, executed>>

\* Mistake: a reply that was not sent does not keep the request.
ReplyFailsUnnoticed(t) ==
    /\ pc[t] = "replying"
    /\ MovesTo(t, "deleting")
    /\ UNCHANGED <<stateVars, using, disabled, handling, stopVars, requestVars>>

\* The reply does not encode or is not sent, or the client is disabled.
ReplyFails(t) == pc[t] = "replying" /\ Leave(t)

Delete(t) ==
    /\ pc[t] = "deleting"
    /\ ~disabled[t]
    /\ queue' = [queue EXCEPT ![handling[t]] = "deleted"]
    /\ handling' = [handling EXCEPT ![t] = NoRequest]
    /\ MovesTo(t, "looping")
    /\ UNCHANGED <<stateVars, using, disabled, stopVars, proper, executed, replied>>

DeleteFails(t) == pc[t] = "deleting" /\ Leave(t)

-----------------------------------------------------------------------------
(* stop.                                                                   *)

\* Mistake: stop sets the flag and leaves the client in its long poll.
StopRequestOnlyFlag(s) ==
    /\ spc[s] = "idle"
    /\ stopRequested' = TRUE
    /\ overtaken' = overtaken \ {s}
    /\ spc' = [spc EXCEPT ![s] = "disabling"]
    /\ UNCHANGED <<config, running, active, startVars, target, requestVars>>

StopRequest(s) ==
    /\ spc[s] = "idle"
    /\ stopRequested' = TRUE
    /\ target' = [target EXCEPT ![s] = active]
    /\ overtaken' = overtaken \ {s}
    /\ spc' = [spc EXCEPT ![s] = "disabling"]
    /\ UNCHANGED <<config, running, active, startVars, requestVars>>

DisableClient(s) ==
    /\ spc[s] = "disabling"
    /\ disabled' = [t \in Starters |-> disabled[t] \/ t = target[s]]
    /\ target' = [target EXCEPT ![s] = NoThread]
    /\ spc' = [spc EXCEPT ![s] = "waiting"]
    /\ UNCHANGED <<stateVars, pc, using, handling, overtaken, requestVars>>

\* The predicate of stoppedCondition_.wait, when called and when notified.
StopWaits(s) ==
    /\ spc[s] = "waiting"
    /\ spc' = [spc EXCEPT ![s] = IF running THEN "asleep" ELSE "idle"]
    /\ UNCHANGED <<stateVars, startVars, target, overtaken, requestVars>>

-----------------------------------------------------------------------------
(* The queue.                                                              *)

ClientSends(r) ==
    /\ queue[r] = "unsent"
    /\ queue' = [queue EXCEPT ![r] = "visible"]
    /\ UNCHANGED <<stateVars, startVars, stopVars, proper, executed, replied>>

VisibilityEnds(r) ==
    /\ queue[r] = "hidden"
    /\ queue' = [queue EXCEPT ![r] = "visible"]
    /\ UNCHANGED <<stateVars, startVars, stopVars, proper, executed, replied>>

-----------------------------------------------------------------------------

Handle(t) ==
    \/ CheckRequest(t) \/ Process(t) \/ ProcessFails(t) \/ LoopThrows(t)
    \/ Reply(t) \/ ReplyFails(t) \/ Delete(t) \/ DeleteFails(t)

LoopStep(t) ==
    \/ CopyConfig(t) \/ CreateClient(t) \/ CreateFails(t) \/ PublishClient(t)
    \/ Cleanup(t) \/ NotifyStopped(t) \/ TestStop(t)
    \/ ReceiveNothing(t) \/ ReceiveRequestFails(t) \/ PauseEnds(t) \/ Handle(t)
    \/ \E r \in Requests : ReceiveRequest(t, r)

StopStep(s) == DisableClient(s) \/ StopWaits(s)

ServerNext ==
    \/ \E c \in {"rpc", "oneWay"} : Configure(c)
    \/ \E t \in Starters : Start(t) \/ LoopStep(t)
    \/ \E s \in Stoppers : StopRequest(s) \/ StopStep(s)
    \/ \E r \in Requests : ClientSends(r) \/ VisibilityEnds(r)

ServerSpec == ServerInit /\ [][ServerNext]_serverVars

\* Threads run, SQS calls return within their timeouts, processMessage returns.
ServerFairness ==
    /\ \A t \in Starters : WF_serverVars(LoopStep(t))
    /\ \A s \in Stoppers : WF_serverVars(StopStep(s))

-----------------------------------------------------------------------------
(* Properties                                                              *)

\* start() tests and sets running_ in one critical section: one loop, hence
\* one request in hand, however many threads call start().
OneLoop ==
    \A t, u \in Starters :
        pc[t] \notin {"idle", "notifying"} /\ pc[u] \notin {"idle", "notifying"}
            => t = u

\* start() reads config_ in a second critical section; configure() in between
\* is refused by running_, so a loop always runs on the current configuration.
LoopUsesConfig ==
    \A t \in Starters :
        pc[t] \notin {"idle", "claimed", "notifying"} => using[t] = config

\* SqsServer.cpp:92-93: a stop() that arrives after running_ is published is
\* not lost.
StopNotLost == running /\ StopsInProgress \ overtaken # {} => stopRequested

\* stop() interrupts the long poll: a loop that entered it before the flag was
\* set has published its client by then, and stop() disables that client.
StopInterruptsReceive ==
    \A t \in Starters : pc[t] = "receiving" /\ stopRequested =>
        disabled[t] \/ \E s \in Stoppers : spc[s] = "disabling" /\ target[s] = t

\* What racing calls of start() and configure() may not break.
OneConfiguredLoop == OneLoop /\ LoopUsesConfig

\* What a stop() that comes at any moment is owed.
StopIsHeard == StopNotLost /\ StopInterruptsReceive

\* sqs/Readme.md:16: a request is deleted only after processMessage succeeded
\* and, for RPC, its reply was sent; whatever fails, SQS delivers it again.
DeletedAfterReply ==
    [][\A r \in Requests : queue[r] # "deleted" /\ queue'[r] = "deleted" =>
           /\ r \in executed
           /\ r \in replied \/ config = "oneWay"]_serverVars

\* stop() returns once the loop it interrupts has ended; only a start() that
\* overtakes it can keep it waiting.
StopReturns ==
    \A s \in Stoppers : (spc[s] # "idle") ~> (spc[s] = "idle" \/ s \in overtaken)
=============================================================================
