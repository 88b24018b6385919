---------------------------- MODULE PubSubClient ----------------------------
(***************************************************************************)
(* PubSubClient (pubsub/PubSubPlugin/PubSubClient.cpp): concurrent calls   *)
(* with a session each, a start that may fail and be repeated by the next  *)
(* call, and a dispatcher that acknowledges a batch of replies before it   *)
(* delivers them.  The correlator appears as its contract.                 *)
(***************************************************************************)
EXTENDS PubSubBroker, ReplyContract

\* A reply is told by the request it answers.
ASSUME RepliesAreIds == Payloads = Ids

\* Nor is it an error, or a state of a promise or an answer.
ASSUME ErrorsAreOthers ==
    /\ Errors \cap Ids = {}
    /\ {"unasked", "open", "none", "timeout", "refused"} \cap (Ids \cup Errors) = {}

VARIABLES
    at,               \* where each caller is in Call
    call,             \* the correlation id of its current or last call
    fresh,            \* the ids not used yet
    started,          \* started_
    dispatcher,       \* the dispatcher's place in DispatchReplies
    batch,            \* the replies it has in hand
    life              \* how far ~PubSubClient has got

dispatchVars == <<dispatcher, batch>>
callVars == <<at, call, fresh>>
clientVars == <<contractVars, callVars, started, dispatchVars, life>>

\* Where EnsureStarted holds startMutex_.
Creating == {"requestTopic", "replyTopic", "replySub", "launching"}

ClientTypeOK ==
    /\ ContractTypeOK
    /\ at \in [Callers -> Creating \cup
           {"idle", "starting", "ensured", "publishing", "published", "unwinding"}]
    /\ call \in [Callers -> Ids \cup {"none"}]
    /\ fresh \subseteq Ids
    /\ started \in BOOLEAN
    /\ dispatcher \in {"none", "looping", "polling", "pulling", "acking", "delivering", "exited"}
    /\ batch \subseteq Ids
    /\ life \in {"alive", "stopping", "closed", "gone"}

ClientInit ==
    /\ ContractInit
    /\ at = [c \in Callers |-> "idle"]
    /\ call = [c \in Callers |-> "none"]
    /\ fresh = Ids
    /\ started = FALSE
    /\ dispatcher = "none"
    /\ batch = {}
    /\ life = "alive"

GoTo(c, place) == at' = [at EXCEPT ![c] = place]

-----------------------------------------------------------------------------
(* EnsureStarted: a double-checked start.                                  *)

Enter(c) ==
    /\ life = "alive"
    /\ at[c] = "idle"
    /\ GoTo(c, IF started THEN "ensured" ELSE "starting")
    /\ UNCHANGED <<brokerVars, contractVars, call, fresh, started, dispatchVars, life>>

LockStart(c) ==
    /\ at[c] = "starting"
    /\ \A d \in Callers : at[d] \notin Creating
    /\ GoTo(c, IF started THEN "ensured" ELSE IF autoCreate THEN "requestTopic" ELSE "launching")
    /\ UNCHANGED <<brokerVars, contractVars, call, fresh, started, dispatchVars, life>>

CreatesNext == [requestTopic |-> IF oneWay THEN "launching" ELSE "replyTopic",
                replyTopic |-> "replySub", replySub |-> "launching"]

\* One create-if-absent.  If it throws the call ends, and the next call
\* begins again.
Create(c) ==
    /\ at[c] \in Creating \ {"launching"}
    /\ \E a \in Answers(TRUE) :
           /\ IF at[c] = "replySub" THEN EnsureSubscription(at[c], a) ELSE EnsureTopic(at[c], a)
           /\ GoTo(c, IF a.status = "ok" THEN CreatesNext[at[c]] ELSE "idle")
    /\ UNCHANGED <<contractVars, call, fresh, started, dispatchVars, life>>

Launch(c) ==
    /\ at[c] = "launching"
    /\ dispatcher' = IF oneWay THEN "none" ELSE "looping"
    /\ started' = TRUE
    /\ GoTo(c, "ensured")
    /\ UNCHANGED <<brokerVars, contractVars, call, fresh, batch, life>>

-----------------------------------------------------------------------------
(* Call                                                                    *)

RegisterCall(c, i) ==
    /\ at[c] = "ensured"
    /\ i \in fresh
    /\ fresh' = fresh \ {i}
    /\ call' = [call EXCEPT ![c] = i]
    /\ IF oneWay THEN UNCHANGED contractVars ELSE Ask(c)
    /\ GoTo(c, "publishing")
    /\ UNCHANGED <<brokerVars, started, dispatchVars, life>>

\* 404 is tried again for five seconds; any other failure ends the call.
PublishCall(c) ==
    /\ at[c] = "publishing"
    /\ \E a \in Answers(TRUE) :
           /\ Publish("requestTopic", call[c], a)
           /\ \/ a.status = "ok" /\ GoTo(c, IF oneWay THEN "idle" ELSE "published")
              \/ a.status = "missing" /\ UNCHANGED at
              \/ a.status # "ok" /\ GoTo(c, IF oneWay THEN "idle" ELSE "unwinding")
    /\ UNCHANGED <<contractVars, call, fresh, started, dispatchVars, life>>

Answered(c) ==
    /\ at[c] = "published"
    /\ Tell(c)
    /\ GoTo(c, "unwinding")
    /\ UNCHANGED <<brokerVars, call, fresh, started, dispatchVars, life>>

TimesOut(c) ==
    /\ at[c] = "published"
    /\ GiveUp(c)
    /\ GoTo(c, "unwinding")
    /\ UNCHANGED <<brokerVars, call, fresh, started, dispatchVars, life>>

Unwind(c) ==
    /\ at[c] = "unwinding"
    /\ Forget(c)
    /\ GoTo(c, "idle")
    /\ UNCHANGED <<brokerVars, call, fresh, started, dispatchVars, life>>

-----------------------------------------------------------------------------
(* DispatchReplies                                                         *)

TestStopping ==
    /\ dispatcher = "looping"
    /\ dispatcher' = IF life = "alive" THEN "polling" ELSE "exited"
    /\ UNCHANGED <<brokerVars, contractVars, callVars, started, batch, life>>

\* WaitForPending: a registered call, the end of the client, or 200 ms.
Poll ==
    /\ dispatcher = "polling"
    /\ life \notin {"closed", "gone"}
    /\ \E c \in Callers : promise[c] # "unasked"
    /\ dispatcher' = "pulling"
    /\ UNCHANGED <<brokerVars, contractVars, callVars, started, batch, life>>

PollClosed ==
    /\ dispatcher = "polling"
    /\ life = "closed"
    /\ dispatcher' = "looping"
    /\ UNCHANGED <<brokerVars, contractVars, callVars, started, batch, life>>

PollTimesOut ==
    /\ dispatcher = "polling"
    /\ life # "closed"
    /\ \A c \in Callers : promise[c] = "unasked"
    /\ dispatcher' = "looping"
    /\ UNCHANGED <<brokerVars, contractVars, callVars, started, batch, life>>

\* Mistake: the dispatcher ends when there is nothing to dispatch.
PullRepliesOnce(b) ==
    /\ dispatcher = "pulling"
    /\ \E a \in Answers("replySub" \in exists) :
           a.status \notin {"missing", "refused"} /\ Pull("replySub", b, a)
    /\ batch' = b
    /\ dispatcher' = IF b = {} THEN "exited" ELSE "acking"
    /\ UNCHANGED <<contractVars, callVars, started, life>>

PullReplies(b) ==
    /\ dispatcher = "pulling"
    /\ \E a \in Answers("replySub" \in exists) :
           a.status \notin {"missing", "refused"} /\ Pull("replySub", b, a)
    /\ batch' = b
    /\ dispatcher' = IF b = {} THEN "looping" ELSE "acking"
    /\ UNCHANGED <<contractVars, callVars, started, life>>

\* FailAll: every call that waits gets the error.
PullThrows(e) ==
    /\ dispatcher = "pulling"
    /\ \E a \in Answers("replySub" \in exists) :
           a.status \in {"missing", "refused"} /\ Pull("replySub", {}, a)
    /\ Break({c \in Callers : promise[c] = "open"}, e)
    /\ dispatcher' = "looping"
    /\ UNCHANGED <<callVars, started, batch, life>>

\* Mistake: a failed acknowledgement abandons the batch.
AckRepliesOrDrop ==
    /\ dispatcher = "acking"
    /\ \E a \in Answers(TRUE) :
           /\ Acknowledge("replySub", batch, a)
           /\ dispatcher' = IF a.status = "ok" THEN "delivering" ELSE "looping"
           /\ batch' = IF a.status = "ok" THEN batch ELSE {}
    /\ UNCHANGED <<contractVars, callVars, started, life>>

\* The batch is acknowledged as a whole, and delivered even if that failed.
AckReplies ==
    /\ dispatcher = "acking"
    /\ \E a \in Answers(TRUE) : Acknowledge("replySub", batch, a)
    /\ dispatcher' = "delivering"
    /\ UNCHANGED <<contractVars, callVars, started, batch, life>>

\* Complete: a reply nobody waits for is dropped.
Deliver(m) ==
    /\ dispatcher = "delivering"
    /\ m \in batch
    /\ \/ \E c \in Callers : call[c] = m /\ Keep(c, m)
       \/ /\ \A c \in Callers : call[c] = m => promise[c] # "open"
          /\ UNCHANGED contractVars
    /\ batch' = batch \ {m}
    /\ dispatcher' = IF batch' = {} THEN "looping" ELSE "delivering"
    /\ UNCHANGED <<brokerVars, callVars, started, life>>

-----------------------------------------------------------------------------
(* ~PubSubClient                                                           *)

DtorStop ==
    /\ life = "alive"
    /\ \A c \in Callers : at[c] = "idle"
    /\ life' = "stopping"
    /\ UNCHANGED <<brokerVars, contractVars, callVars, started, dispatchVars>>

DtorClose(e) ==
    /\ life = "stopping"
    /\ Break({c \in Callers : promise[c] = "open"}, e)
    /\ life' = "closed"
    /\ UNCHANGED <<brokerVars, callVars, started, dispatchVars>>

DtorJoin ==
    /\ life = "closed"
    /\ dispatcher \in {"none", "exited"}
    /\ life' = "gone"
    /\ UNCHANGED <<brokerVars, contractVars, callVars, started, dispatchVars>>

CallerNext(c) ==
    \/ Enter(c) \/ LockStart(c) \/ Create(c) \/ Launch(c)
    \/ \E i \in Ids : RegisterCall(c, i)
    \/ PublishCall(c) \/ Answered(c) \/ TimesOut(c) \/ Unwind(c)

DispatcherNext ==
    \/ TestStopping \/ Poll \/ PollClosed \/ PollTimesOut \/ AckReplies
    \/ \E b \in SUBSET held["replySub"] : PullReplies(b)
    \/ \E e \in Errors : PullThrows(e)
    \/ \E m \in batch : Deliver(m)

ClientNext ==
    \/ \E c \in Callers : CallerNext(c)
    \/ DispatcherNext
    \/ DtorStop \/ DtorJoin
    \/ \E e \in Errors : DtorClose(e)
=============================================================================
