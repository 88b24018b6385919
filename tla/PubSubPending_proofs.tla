------------------------ MODULE PubSubPending_proofs ------------------------
(***************************************************************************)
(* The Pub/Sub client with its PendingReplies does what PubSubRpc does     *)
(* with ReplyContract in their place, so what is proved of PubSubRpc holds *)
(* of the client as it is written.                                         *)
(***************************************************************************)
EXTENDS PubSubPending, PendingReplies_proofs

\* PubSubRpc's own invariant and proofs, of the promise the correlator keeps.
R == INSTANCE PubSubRpc_proofs WITH promise <- Promise, answer <- result

\* What PubSubRpc assumes of its constants.
LEMMA RpcAssumptionsHold ==
    /\ Ids \cap Strays = {} /\ "none" \notin Ids \cup Strays
    /\ Payloads = Ids
    /\ Errors \cap Ids = {}
    /\ {"unasked", "open", "none", "timeout", "refused"} \cap (Ids \cup Errors) = {}
BY PendingAssumption, RpcAssumption

\* The destructor closes the correlator, and nobody calls a client that is
\* being destroyed.
ClosedByDtor ==
    /\ closed <=> life \in {"closed", "gone"}
    /\ closing => life = "closed"
    /\ \A c \in Callers : at[c] # "idle" => life = "alive"

\* A caller's ticket is its call's, and follows it through Call.
TicketsFollowCalls ==
    /\ \A c \in Callers : ticket[c] # "none" => ~oneWay /\ tid[c] = call[c]
    /\ \A c \in Callers :
           at[c] \notin {"publishing", "published", "unwinding"} => ticket[c] = "none"
    /\ \A c \in Callers : at[c] = "publishing" =>
           ticket[c] \in IF oneWay THEN {"none"} ELSE {"notifying", "held"}
    /\ \A c \in Callers : at[c] = "published" => ticket[c] \in {"held", "asleep", "awake"}
    /\ \A c \in Callers : at[c] = "unwinding" => ticket[c] \in {"held", "settled"}

ClientInv == PendingInv /\ Untold /\ R!RpcInv /\ ClosedByDtor /\ TicketsFollowCalls

-----------------------------------------------------------------------------
(* PubSubRpc's definitions are the same under both names.                  *)

\* The first states.
LEMMA SameInit == Rpc!Init <=> R!Init
BY DEF
    Rpc!Init, R!Init, Rpc!BrokerInit, R!BrokerInit, Rpc!ClientInit,
    R!ClientInit, Rpc!ServerInit, R!ServerInit, Rpc!ContractInit,
    R!ContractInit, Rpc!Resources, R!Resources, Rpc!SubscriptionOf,
    R!SubscriptionOf, Rpc!TopicOf, R!TopicOf

\* The server's steps.
LEMMA SameServerNext == Rpc!ServerNext <=> R!ServerNext
BY DEF
    Rpc!ServerNext, R!ServerNext, Rpc!HandleNext, R!HandleNext, Rpc!Start,
    R!Start, Rpc!StopRequest, R!StopRequest, Rpc!Leave, R!Leave,
    Rpc!TestSetUp, R!TestSetUp, Rpc!SetUp, R!SetUp, Rpc!TestStop, R!TestStop,
    Rpc!PullNothing, R!PullNothing, Rpc!PullRequest, R!PullRequest,
    Rpc!Reject, R!Reject, Rpc!RejectUnknown, R!RejectUnknown, Rpc!Process,
    R!Process, Rpc!Reply, R!Reply, Rpc!AckRequest, R!AckRequest, Rpc!Crash,
    R!Crash, Rpc!MovesTo, R!MovesTo, Rpc!LeavesUnacked, R!LeavesUnacked,
    Rpc!running, R!running, Rpc!brokerVars, R!brokerVars, Rpc!historyVars,
    R!historyVars, Rpc!Answers, R!Answers, Rpc!Statuses, R!Statuses,
    Rpc!EnsureTopic, R!EnsureTopic, Rpc!EnsureSubscription,
    R!EnsureSubscription, Rpc!Publish, R!Publish, Rpc!Pull, R!Pull,
    Rpc!Acknowledge, R!Acknowledge, Rpc!SubscriptionOf, R!SubscriptionOf,
    Rpc!TopicOf, R!TopicOf

\* The client's.
LEMMA SameClientNext == Rpc!ClientNext <=> R!ClientNext
BY DEF
    Rpc!ClientNext, R!ClientNext, Rpc!CallerNext, R!CallerNext,
    Rpc!DispatcherNext, R!DispatcherNext, Rpc!Enter, R!Enter, Rpc!LockStart,
    R!LockStart, Rpc!Create, R!Create, Rpc!Launch, R!Launch, Rpc!RegisterCall,
    R!RegisterCall, Rpc!PublishCall, R!PublishCall, Rpc!Answered, R!Answered,
    Rpc!TimesOut, R!TimesOut, Rpc!Unwind, R!Unwind, Rpc!TestStopping,
    R!TestStopping, Rpc!Poll, R!Poll, Rpc!PollClosed, R!PollClosed,
    Rpc!PollTimesOut, R!PollTimesOut, Rpc!AckReplies, R!AckReplies,
    Rpc!PullReplies, R!PullReplies, Rpc!PullThrows, R!PullThrows, Rpc!Deliver,
    R!Deliver, Rpc!DtorStop, R!DtorStop, Rpc!DtorJoin, R!DtorJoin,
    Rpc!DtorClose, R!DtorClose, Rpc!GoTo, R!GoTo, Rpc!CreatesNext,
    R!CreatesNext, Rpc!Creating, R!Creating, Rpc!Ask, R!Ask, Rpc!Keep, R!Keep,
    Rpc!Break, R!Break, Rpc!Tell, R!Tell, Rpc!GiveUp, R!GiveUp, Rpc!Forget,
    R!Forget, Rpc!Outcomes, R!Outcomes, Rpc!brokerVars, R!brokerVars,
    Rpc!contractVars, R!contractVars, Rpc!callVars, R!callVars,
    Rpc!dispatchVars, R!dispatchVars, Rpc!Answers, R!Answers, Rpc!Statuses,
    R!Statuses, Rpc!EnsureTopic, R!EnsureTopic, Rpc!EnsureSubscription,
    R!EnsureSubscription, Rpc!Publish, R!Publish, Rpc!Pull, R!Pull,
    Rpc!Acknowledge, R!Acknowledge, Rpc!SubscriptionOf, R!SubscriptionOf,
    Rpc!TopicOf, R!TopicOf

\* All of them.
LEMMA SameNext == [Rpc!Next]_(Rpc!vars) <=> [R!Next]_(R!vars)
<1>1. /\ UNCHANGED Rpc!vars <=> UNCHANGED R!vars
      /\ UNCHANGED Rpc!clientVars <=> UNCHANGED R!clientVars
      /\ UNCHANGED Rpc!serverVars <=> UNCHANGED R!serverVars
  BY DEF
      Rpc!vars, R!vars, Rpc!brokerVars, R!brokerVars, Rpc!clientVars,
      R!clientVars, Rpc!serverVars, R!serverVars, Rpc!contractVars,
      R!contractVars, Rpc!callVars, R!callVars, Rpc!dispatchVars,
      R!dispatchVars, Rpc!historyVars, R!historyVars
<1> QED
  BY <1>1, SameServerNext, SameClientNext DEF Rpc!Next, R!Next

-----------------------------------------------------------------------------
(* The steps                                                               *)

\* What the parts of the invariant say of the client's own variables.
LEMMA ClientFacts ==
    ASSUME ClientInv
    PROVE  /\ PendingTypeOK /\ SlotsMatchTickets
           /\ at \in [Callers -> {"idle", "starting", "requestTopic", "replyTopic", "replySub",
                  "launching", "ensured", "publishing", "published", "unwinding"}]
           /\ call \in [Callers -> Ids \cup {"none"}]
           /\ fresh \subseteq Ids
           /\ life \in {"alive", "stopping", "closed", "gone"}
           /\ batch \subseteq Ids
           /\ \A c \in Callers : call[c] \notin fresh
BY DEF ClientInv, PendingInv, R!RpcInv, R!TypeOK, R!ClientTypeOK, R!Creating, R!CallsHaveIds

\* Each step is the correlator's, or leaves it alone.
LEMMA CorrelatorStep ==
    ASSUME ClientInv, [Next]_vars
    PROVE  [PendingNext]_pendingVars
<1>1. ASSUME NEW c \in Callers, CallerNext(c)
      PROVE  [PendingNext]_pendingVars
  BY <1>1 DEF CallerNext, RegisterCall, NotifyDispatcher, PublishCall, SleepOnTicket, WaitEnds,
              Unwind, PendingNext, CallerStep
<1>2. CASE DispatcherNext
  <2>1. ASSUME NEW m \in batch, Deliver(m)
        PROVE  [PendingNext]_pendingVars
    <3>1. m \in Ids /\ m \in Payloads
      BY ClientFacts, RpcAssumption
    <3> QED
      BY <2>1, <3>1 DEF Deliver, PendingNext
  <2> QED
    BY <1>2, <2>1 DEF DispatcherNext, Poll, PullThrows, PendingNext
<1>3. CASE ClientNext
  BY <1>1, <1>2, <1>3 DEF ClientNext, DtorClose, DtorNotify, DtorJoin, PendingNext
<1> QED
  BY <1>3 DEF Next, vars, clientVars

\* A client with no call on it has no ticket, and the other way round.
LEMMA TicketsWait ==
    ASSUME ClientInv
    PROVE  /\ Waiting = {c \in Callers : ticket[c] # "none"}
           /\ \A c \in Callers : (Promise[c] = "unasked") <=> (ticket[c] = "none")
           /\ \A c \in Callers : ticket[c] # "none" => Promise[c] = outcome[c]
<1>1. Waiting = {c \in Callers : ticket[c] # "none"}
  BY ClientFacts, PendingAssumption DEF Waiting, SlotsMatchTickets, PendingTypeOK
<1>2. \A c \in Callers : outcome[c] # "unasked"
  BY ClientFacts, PendingAssumption DEF PendingTypeOK
<1> QED
  BY <1>1, <1>2 DEF Promise

\* FailAll and Close break every open promise, and no other.
LEMMA AllBroken ==
    ASSUME ClientInv, NEW e \in Errors, FailAll(e) \/ Close(e)
    PROVE  Rpc!Break({c \in Callers : Promise[c] = "open"}, e)
<1>1. MarkDone(Waiting, e) /\ UNCHANGED result
  BY DEF FailAll, Close
<1>2. PendingTypeOK /\ Waiting \in SUBSET Callers /\ \A c \in Waiting : ticket[c] # "none"
  BY ClientFacts, TicketsWait DEF Waiting
<1>3. Promise' = [c \in Callers |->
          IF c \in {d \in Waiting : Promise[d] = "open"} THEN e ELSE Promise[c]]
  BY <1>1, <1>2, MarkDonePromise
<1>4. {d \in Waiting : Promise[d] = "open"} = {c \in Callers : Promise[c] = "open"}
  BY TicketsWait
<1> QED
  BY <1>1, <1>3, <1>4 DEF Rpc!Break

\* A reply finds the call that waits for it, or is dropped.
LEMMA ReplyFinds ==
    ASSUME ClientInv, NEW m \in Ids, Complete(m, m)
    PROVE  \/ \E c \in Callers : call[c] = m /\ Rpc!Keep(c, m)
           \/ /\ \A c \in Callers : call[c] = m => Promise[c] # "open"
              /\ UNCHANGED <<Promise, result>>
<1> USE ClientFacts
<1>1. \A c \in Callers : ticket[c] # "none" /\ call[c] = m => slots[m] = c
  BY DEF SlotsMatchTickets, ClientInv, TicketsFollowCalls
<1>2. \A c \in Callers : slots[m] = c => ticket[c] # "none" /\ call[c] = m
  BY PendingAssumption DEF SlotsMatchTickets, ClientInv, TicketsFollowCalls
<1> DEFINE S == {slots[m]} \ {NoCaller}
<1>3. m \in Payloads /\ MarkDone(S, m) /\ UNCHANGED result
  BY RpcAssumption DEF Complete, Finish
<1>4. S \in SUBSET Callers /\ \A c \in S : ticket[c] # "none"
  BY <1>2 DEF PendingTypeOK
<1>5. Promise' = [c \in Callers |->
          IF c \in {d \in S : Promise[d] = "open"} THEN m ELSE Promise[c]]
  <2> HIDE DEF S
  <2> QED
    BY <1>3, <1>4, MarkDonePromise
<1>6. CASE slots[m] \in Callers /\ Promise[slots[m]] = "open"
  <2>1. Promise' = [Promise EXCEPT ![slots[m]] = m]
    BY <1>4, <1>5, <1>6, PendingAssumption DEF Promise
  <2> QED
    BY <1>2, <1>3, <1>6, <2>1 DEF Rpc!Keep
<1>7. CASE ~(slots[m] \in Callers /\ Promise[slots[m]] = "open")
  <2>1. Promise' = Promise
    BY <1>4, <1>5, <1>7 DEF Promise
  <2>2. \A c \in Callers : call[c] = m => Promise[c] # "open"
    BY <1>1, <1>7, TicketsWait
  <2> QED
    BY <1>3, <2>1, <2>2
<1> QED
  BY <1>6, <1>7

-----------------------------------------------------------------------------
(* Each step is PubSubRpc's, or one that it does not see.                  *)

\* A caller's notification and its sleep are unseen; Wait tells it the outcome
\* or gives up.
LEMMA CallerRefines ==
    ASSUME ClientInv, NEW c \in Callers, CallerNext(c)
    PROVE  Rpc!CallerNext(c) \/ UNCHANGED <<Rpc!brokerVars, Rpc!clientVars>>
<1> USE ClientFacts DEF callVars, dispatchVars, elsewhere, Rpc!callVars, Rpc!dispatchVars,
        Rpc!brokerVars, Rpc!contractVars
<1>1. UNCHANGED pendingVars => UNCHANGED <<Promise, result>>
  BY DEF pendingVars, Promise
<1>2. CASE /\ UNCHANGED pendingVars
           /\ Rpc!Enter(c) \/ Rpc!LockStart(c) \/ Rpc!Create(c) \/ Rpc!Launch(c)
  BY <1>2 DEF Rpc!CallerNext
<1>3. ASSUME NEW i \in Ids, RegisterCall(c, i)
      PROVE  Rpc!RegisterCall(c, i)
  <2>1. CASE oneWay
    BY <1>1, <1>3, <2>1 DEF RegisterCall, Rpc!RegisterCall
  <2>2. CASE ~oneWay
    <3>1. Rpc!Ask(c)
      BY <1>3, <2>2 DEF RegisterCall, Register, Rpc!Ask, Promise, PendingTypeOK
    <3> QED
      BY <1>3, <2>2, <3>1 DEF RegisterCall, Rpc!RegisterCall
  <2> QED
    BY <2>1, <2>2
<1>4. CASE NotifyDispatcher(c) \/ SleepOnTicket(c)
  BY <1>4 DEF NotifyDispatcher, SleepOnTicket, RegisterNotify, WaitSleeps, Promise,
              PendingTypeOK, Rpc!clientVars
<1>5. CASE PublishCall(c)
  BY <1>5 DEF PublishCall, Rpc!CallerNext
<1>6. CASE WaitEnds(c)
  <2>1. Rpc!Tell(c) \/ Rpc!GiveUp(c)
    BY <1>6 DEF WaitEnds, WaitReturns, WaitTimer, Settle, Promise, PendingTypeOK, ClientInv,
                Untold, Rpc!Tell, Rpc!GiveUp, Rpc!Outcomes
  <2> QED
    BY <1>6, <2>1 DEF WaitEnds, Rpc!Answered, Rpc!TimesOut, Rpc!CallerNext
<1>7. CASE Unwind(c)
  <2>1. Rpc!Forget(c)
    BY <1>7, PendingAssumption DEF Unwind, Remove, Promise, PendingTypeOK, Rpc!Forget
  <2> QED
    BY <1>7, <2>1 DEF Unwind, Rpc!Unwind, Rpc!CallerNext
<1> QED
  BY <1>2, <1>3, <1>4, <1>5, <1>6, <1>7 DEF CallerNext, Rpc!CallerNext

\* The dispatcher pulls when there is a promise to keep, and a sleep of
\* WaitForPending is unseen.
LEMMA DispatcherRefines ==
    ASSUME ClientInv, DispatcherNext
    PROVE  Rpc!DispatcherNext \/ UNCHANGED <<Rpc!brokerVars, Rpc!clientVars>>
<1> USE ClientFacts DEF callVars, dispatchVars, elsewhere, Rpc!callVars, Rpc!dispatchVars,
        Rpc!brokerVars, Rpc!contractVars
<1>1. CASE \/ Rpc!TestStopping \/ Rpc!AckReplies
           \/ \E b \in SUBSET held["replySub"] : Rpc!PullReplies(b)
  BY <1>1 DEF Rpc!DispatcherNext
<1>2. CASE Poll
  <2>1. UNCHANGED <<oneWay, autoCreate, exists, held, Promise, result, at, call, fresh, started,
                    batch, life>>
    BY <1>2 DEF Poll, WaitForPending, PollTimer, slotVars, Promise
  <2>2. \/ poller' = "asleep" /\ dispatcher' = "polling"
        \/ /\ poller' = "work" /\ dispatcher' = "pulling"
           /\ ~closed /\ Waiting # {}
        \/ /\ poller' = "idle" /\ dispatcher' = "looping"
           /\ closed \/ Waiting = {}
    BY <1>2 DEF Poll, PlaceAfter, WaitForPending, PollTimer, PollAnswer
  <2>3. dispatcher = "polling"
    BY <1>2 DEF Poll
  <2>4. /\ closed <=> life \in {"closed", "gone"}
        /\ life # "alive" => \A c \in Callers : ticket[c] = "none"
    BY DEF ClientInv, ClosedByDtor, TicketsFollowCalls
  <2>5. CASE poller' = "asleep"
    BY <2>1, <2>2, <2>3, <2>5 DEF Rpc!clientVars
  <2>6. CASE poller' = "work"
    BY <2>1, <2>2, <2>3, <2>4, <2>6, TicketsWait DEF Rpc!Poll, Rpc!DispatcherNext
  <2>7. CASE poller' = "idle"
    BY <2>1, <2>2, <2>3, <2>4, <2>7, TicketsWait
    DEF Rpc!PollClosed, Rpc!PollTimesOut, Rpc!DispatcherNext
  <2> QED
    BY <2>2, <2>5, <2>6, <2>7
<1>3. ASSUME NEW e \in Errors, PullThrows(e)
      PROVE  Rpc!PullThrows(e)
  <2>1. Rpc!Break({c \in Callers : Promise[c] = "open"}, e)
    BY <1>3, AllBroken DEF PullThrows
  <2> QED
    BY <1>3, <2>1 DEF PullThrows, Rpc!PullThrows
<1>4. ASSUME NEW m \in batch, Deliver(m)
      PROVE  Rpc!Deliver(m)
  <2>1. m \in Ids
    OBVIOUS
  <2> QED
    BY <1>4, <2>1, ReplyFinds DEF Deliver, Rpc!Deliver
<1> QED
  BY <1>1, <1>2, <1>3, <1>4 DEF DispatcherNext, Rpc!DispatcherNext

\* Every step, the server's included.
LEMMA StepRefines ==
    ASSUME ClientInv, [Next]_vars
    PROVE  [Rpc!Next]_(Rpc!vars)
<1> USE DEF callVars, dispatchVars, elsewhere, serverVars, Rpc!callVars, Rpc!dispatchVars,
        Rpc!brokerVars, Rpc!contractVars, Rpc!serverVars, Rpc!historyVars
<1>1. UNCHANGED pendingVars => UNCHANGED <<Promise, result>>
  BY DEF pendingVars, Promise
<1>2. ASSUME ClientNext
      PROVE  Rpc!ClientNext \/ UNCHANGED <<Rpc!brokerVars, Rpc!clientVars>>
  <2>1. CASE DtorNotify
    BY <2>1 DEF DtorNotify, CloseNotify, Promise, Rpc!clientVars
  <2>2. ASSUME NEW e \in Errors, DtorClose(e)
        PROVE  Rpc!DtorClose(e)
    BY <2>2, AllBroken DEF DtorClose, Rpc!DtorClose
  <2>3. ASSUME NEW c \in Callers, CallerNext(c)
        PROVE  Rpc!ClientNext \/ UNCHANGED <<Rpc!brokerVars, Rpc!clientVars>>
    BY <2>3, CallerRefines DEF Rpc!ClientNext
  <2> QED
    BY <1>2, <2>1, <2>2, <2>3, DispatcherRefines DEF ClientNext, DtorJoin, Rpc!ClientNext
<1>3. CASE UNCHANGED clientVars /\ Rpc!ServerNext
  BY <1>1, <1>3 DEF clientVars, Rpc!clientVars, Rpc!Next
<1>4. CASE UNCHANGED vars
  BY <1>1, <1>4 DEF vars, clientVars, Rpc!vars, Rpc!clientVars
<1> QED
  BY <1>2, <1>3, <1>4 DEF Next, Rpc!Next, Rpc!vars

-----------------------------------------------------------------------------
(* The invariant                                                           *)

\* Where the callers' steps leave them and their tickets.
LEMMA CallerKeepsMap ==
    ASSUME ClientInv, NEW c \in Callers, CallerNext(c), UNCHANGED serverVars
    PROVE  ClosedByDtor' /\ TicketsFollowCalls'
<1> USE ClientFacts DEF ClientInv, ClosedByDtor, TicketsFollowCalls, PendingTypeOK, callVars,
        dispatchVars, elsewhere, Rpc!GoTo
<1>1. CASE /\ UNCHANGED pendingVars
           /\ Rpc!Enter(c) \/ Rpc!LockStart(c) \/ Rpc!Create(c) \/ Rpc!Launch(c)
  <2>1. /\ UNCHANGED <<pendingVars, oneWay, call, life>>
        /\ \E place \in {"idle", "starting", "requestTopic", "replyTopic", "replySub",
                          "launching", "ensured"} : at' = [at EXCEPT ![c] = place]
        /\ at[c] \notin {"publishing", "published", "unwinding"}
        /\ life = "alive"
    <3>1. CASE Rpc!Enter(c) \/ Rpc!LockStart(c) \/ Rpc!Launch(c)
      BY <1>1, <3>1 DEF Rpc!Enter, Rpc!LockStart, Rpc!Launch, Rpc!brokerVars
    <3>2. CASE Rpc!Create(c)
      <4>1. PICK a \in Rpc!Answers(TRUE) :
                Rpc!GoTo(c, IF a.status = "ok" THEN Rpc!CreatesNext[at[c]] ELSE "idle")
        BY <3>2 DEF Rpc!Create
      <4>2. at[c] \in {"requestTopic", "replyTopic", "replySub"}
        BY <3>2 DEF Rpc!Create, Rpc!Creating
      <4>3. Rpc!CreatesNext[at[c]] \in {"launching", "replyTopic", "replySub"}
        BY <4>2 DEF Rpc!CreatesNext
      <4>4. UNCHANGED <<oneWay, call, life>>
        BY <3>2 DEF Rpc!Create, Rpc!EnsureTopic, Rpc!EnsureSubscription
      <4> QED
        BY <1>1, <4>1, <4>2, <4>3, <4>4
    <3> QED
      BY <1>1, <3>1, <3>2
  <2> QED
    BY <2>1 DEF pendingVars
<1>2. ASSUME NEW i \in Ids, RegisterCall(c, i)
      PROVE  ClosedByDtor' /\ TicketsFollowCalls'
  <2>1. CASE oneWay
    BY <1>2, <2>1 DEF RegisterCall, pendingVars
  <2>2. CASE ~oneWay
    BY <1>2, <2>2 DEF RegisterCall, Register
  <2> QED
    BY <2>1, <2>2
<1>3. CASE NotifyDispatcher(c) \/ SleepOnTicket(c)
  BY <1>3 DEF NotifyDispatcher, SleepOnTicket, RegisterNotify, WaitSleeps
<1>4. CASE PublishCall(c)
  <2>1. /\ UNCHANGED <<pendingVars, oneWay, call, life>>
        /\ at[c] = "publishing" /\ ticket[c] # "notifying"
        /\ at' \in {at, [at EXCEPT ![c] = IF oneWay THEN "idle" ELSE "published"],
                     [at EXCEPT ![c] = IF oneWay THEN "idle" ELSE "unwinding"]}
    BY <1>4 DEF PublishCall, Rpc!PublishCall, Rpc!Publish
  <2> QED
    BY <2>1 DEF pendingVars
<1>5. CASE WaitEnds(c)
  BY <1>5 DEF WaitEnds, WaitReturns, WaitTimer, Settle
<1>6. CASE Unwind(c)
  BY <1>6 DEF Unwind, Remove
<1> QED
  BY <1>1, <1>2, <1>3, <1>4, <1>5, <1>6 DEF CallerNext

\* The dispatcher and the destructor only wake callers.
LEMMA MarkDoneKeepsTickets ==
    ASSUME ClientInv, NEW S, NEW o \in Payloads \cup Errors, MarkDone(S, o),
           UNCHANGED <<oneWay, at, call, tid>>
    PROVE  TicketsFollowCalls'
<1>1. PendingTypeOK
  BY ClientFacts
<1>2. \A c \in Callers :
          ticket'[c] # ticket[c] => ticket[c] = "asleep" /\ ticket'[c] = "awake"
  BY <1>1, MarkDoneFacts
<1> QED
  BY <1>2, ClientFacts DEF ClientInv, TicketsFollowCalls

\* What the dispatcher leaves as it is.
LEMMA DispatcherKeepsMap ==
    ASSUME ClientInv, DispatcherNext
    PROVE  ClosedByDtor' /\ TicketsFollowCalls'
<1> USE ClientFacts DEF ClientInv, ClosedByDtor, callVars, elsewhere
<1>1. ASSUME UNCHANGED pendingVars,
             \/ Rpc!TestStopping \/ Rpc!AckReplies
             \/ \E b \in SUBSET held["replySub"] : Rpc!PullReplies(b)
      PROVE  ClosedByDtor' /\ TicketsFollowCalls'
  <2>1. UNCHANGED <<oneWay, at, call, life>>
    <3>1. CASE Rpc!TestStopping
      BY <3>1 DEF Rpc!TestStopping, Rpc!brokerVars, Rpc!callVars
    <3>2. CASE Rpc!AckReplies
      BY <3>2 DEF Rpc!AckReplies, Rpc!Acknowledge, Rpc!callVars
    <3>3. ASSUME NEW b \in SUBSET held["replySub"], Rpc!PullReplies(b)
          PROVE  UNCHANGED <<oneWay, at, call, life>>
      BY <3>3 DEF Rpc!PullReplies, Rpc!Pull, Rpc!brokerVars, Rpc!callVars
    <3> QED
      BY <1>1, <3>1, <3>2, <3>3
  <2> QED
    BY <1>1, <2>1 DEF TicketsFollowCalls, pendingVars
<1>2. CASE Poll
  BY <1>2 DEF Poll, WaitForPending, PollTimer, slotVars, TicketsFollowCalls
<1>3. ASSUME NEW e \in Errors, PullThrows(e)
      PROVE  ClosedByDtor' /\ TicketsFollowCalls'
  <2>1. UNCHANGED <<oneWay, at, call, tid, life, closed, closing>> /\ MarkDone(Waiting, e)
    BY <1>3 DEF PullThrows, FailAll, Rpc!Pull, Rpc!brokerVars
  <2> QED
    BY <2>1, MarkDoneKeepsTickets
<1>4. ASSUME NEW m \in batch, Deliver(m)
      PROVE  ClosedByDtor' /\ TicketsFollowCalls'
  <2>1. /\ UNCHANGED <<oneWay, at, call, tid, life, closed, closing>>
        /\ MarkDone({slots[m]} \ {NoCaller}, m)
    BY <1>4 DEF Deliver, Complete, Finish
  <2>2. m \in Payloads
    BY RpcAssumption
  <2> QED
    BY <2>1, <2>2, MarkDoneKeepsTickets
<1> QED
  BY <1>1, <1>2, <1>3, <1>4 DEF DispatcherNext

\* What every step leaves as it is.
LEMMA ClientKeepsMap ==
    ASSUME ClientInv, [Next]_vars
    PROVE  ClosedByDtor' /\ TicketsFollowCalls'
<1> USE DEF callVars, elsewhere, dispatchVars
<1>1. CASE DispatcherNext
  BY <1>1, DispatcherKeepsMap
<1>2. ASSUME NEW c \in Callers, CallerNext(c), UNCHANGED serverVars
      PROVE  ClosedByDtor' /\ TicketsFollowCalls'
  BY <1>2, CallerKeepsMap
<1>3. CASE UNCHANGED pendingVars /\ (Rpc!DtorStop \/ DtorJoin)
  BY <1>3 DEF Rpc!DtorStop, Rpc!DtorJoin, DtorJoin, Rpc!brokerVars, Rpc!callVars, pendingVars,
              ClientInv, ClosedByDtor, TicketsFollowCalls
<1>4. ASSUME NEW e \in Errors, DtorClose(e)
      PROVE  ClosedByDtor' /\ TicketsFollowCalls'
  <2>1. ClosedByDtor'
    BY <1>4 DEF DtorClose, Close, ClientInv, ClosedByDtor
  <2> QED
    BY <1>4, <2>1, MarkDoneKeepsTickets DEF DtorClose, Close
<1>5. CASE DtorNotify
  BY <1>5 DEF DtorNotify, CloseNotify, ClientInv, ClosedByDtor, TicketsFollowCalls
<1>6. CASE UNCHANGED clientVars /\ Rpc!ServerNext
  <2>1. UNCHANGED oneWay
    BY <1>6
    DEF Rpc!ServerNext, Rpc!HandleNext, Rpc!Start, Rpc!StopRequest, Rpc!Leave, Rpc!TestSetUp,
        Rpc!SetUp, Rpc!TestStop, Rpc!PullNothing, Rpc!PullRequest, Rpc!Reject,
        Rpc!RejectUnknown, Rpc!Process, Rpc!Reply, Rpc!AckRequest, Rpc!Crash, Rpc!brokerVars,
        Rpc!EnsureTopic, Rpc!EnsureSubscription, Rpc!Publish, Rpc!Pull, Rpc!Acknowledge
  <2> QED
    BY <1>6, <2>1 DEF clientVars, pendingVars, ClientInv, ClosedByDtor, TicketsFollowCalls
<1>7. CASE UNCHANGED vars
  BY <1>7 DEF vars, clientVars, pendingVars, ClientInv, ClosedByDtor, TicketsFollowCalls
<1> QED
  BY <1>1, <1>2, <1>3, <1>4, <1>5, <1>6, <1>7 DEF Next, ClientNext, DtorJoin

\* ClientInv is inductive.
LEMMA ClientInvStep == ClientInv /\ [Next]_vars => ClientInv'
<1> SUFFICES ASSUME ClientInv, [Next]_vars PROVE ClientInv'
  OBVIOUS
<1>1. PendingInv' /\ Untold'
  BY CorrelatorStep, PendingStep, UntoldStep DEF ClientInv, PendingInv
<1>2. R!RpcInv'
  <2>1. [R!Next]_(R!vars)
    BY StepRefines, SameNext
  <2>2. R!RpcInv /\ [R!Next]_(R!vars) => R!RpcInv'
    BY RpcAssumptionsHold, R!RpcStep
  <2> QED
    BY <2>1, <2>2 DEF ClientInv
<1>3. ClosedByDtor' /\ TicketsFollowCalls'
  BY ClientKeepsMap
<1> QED
  BY <1>1, <1>2, <1>3 DEF ClientInv

\* It holds at first.
LEMMA ClientInvInit == Init => ClientInv
<1> SUFFICES ASSUME Init PROVE ClientInv
  OBVIOUS
<1>1. PendingInv /\ Untold
  BY PendingInitSafe DEF Init
<1>2. R!RpcInv
  <2>1. R!Init => R!RpcInv
    BY RpcAssumptionsHold, R!RpcInit
  <2> QED
    BY <2>1, SameInit DEF Init
<1>3. ClosedByDtor /\ TicketsFollowCalls
  BY DEF Init, PendingInit, Rpc!Init, Rpc!ClientInit, ClosedByDtor, TicketsFollowCalls
<1> QED
  BY <1>1, <1>2, <1>3 DEF ClientInv

-----------------------------------------------------------------------------
(* The theorems                                                            *)

\* ClientInv is inductive: for any callers, ids and errors, with the locks,
\* tickets and wake-ups of the correlator between the client's threads.
THEOREM ClientInvariant == Spec => []ClientInv
BY ClientInvInit, ClientInvStep, PTL DEF Spec

\* The Pub/Sub client with its map, tickets and wake-ups does nothing that
\* PubSubRpc does not (PubSubClient.cpp, PendingReplies.h).
THEOREM ClientKeepsRpc == Spec => KeepsRpc
<1>1. Init => Rpc!Init
  BY DEF Init
<1>2. ClientInv /\ [Next]_vars => [Rpc!Next]_(Rpc!vars)
  BY StepRefines
<1> QED
  BY <1>1, <1>2, ClientInvariant, PTL DEF Spec, KeepsRpc, Rpc!Spec

\* PubSubRpc with the promise of the correlator, as its proofs name it.
LEMMA ClientKeepsR == Spec => R!Spec
<1>1. Init => R!Init
  BY SameInit DEF Init
<1>2. ClientInv /\ [Next]_vars => [R!Next]_(R!vars)
  BY StepRefines, SameNext
<1> QED
  BY <1>1, <1>2, ClientInvariant, PTL DEF Spec, R!Spec

\* A call returns only the reply to its own request, which the gateway has
\* executed (PubSubClient::Call, PendingReplies::Complete).
THEOREM ClientsAnswersAreOwn == Spec => []OwnAnswer
<1>1. ClientInv => OwnAnswer
  BY DEF ClientInv, R!RpcInv, R!OwnAnswer, OwnAnswer, Rpc!OwnAnswer
<1> QED
  BY <1>1, ClientInvariant, PTL

\* An executed request's answer is on its way as long as its slot is open
\* (PubSubClient::DispatchReplies, PendingReplies::Complete).
THEOREM ClientLosesNothing == Spec => []NothingIsLost
<1>1. ClientInv => NothingIsLost
  BY DEF ClientInv, R!RpcInv, R!NothingIsLost, NothingIsLost, Rpc!NothingIsLost
<1> QED
  BY <1>1, ClientInvariant, PTL

\* A request leaves its subscription only when it has been executed and, for
\* RPC, answered (PubSubServer's HandleMessage).
THEOREM ServerAcksAfterReply == Spec => AckedAfterReply
<1>1. R!Spec => R!AckedAfterReply
  BY RpcAssumptionsHold, R!RpcAcksAfterReply
<1>2. R!AckedAfterReply <=> AckedAfterReply
  BY DEF AckedAfterReply, Rpc!AckedAfterReply, R!AckedAfterReply,
      Rpc!vars, R!vars, Rpc!brokerVars, R!brokerVars, Rpc!clientVars, R!clientVars,
      Rpc!serverVars, R!serverVars, Rpc!contractVars, R!contractVars, Rpc!callVars,
      R!callVars, Rpc!dispatchVars, R!dispatchVars, Rpc!historyVars, R!historyVars
<1> QED
  BY <1>1, <1>2, ClientKeepsR, PTL

\* Register never throws at Call (PendingReplies::Register, ~PubSubClient).
THEOREM RegisterAccepts == Spec => []CallsAreRegistered
<1>1. ClientInv => CallsAreRegistered
  BY ClientFacts
  DEF ClientInv, ClosedByDtor, TicketsFollowCalls, CallsAreRegistered, SlotsMatchTickets,
      PendingTypeOK
<1> QED
  BY <1>1, ClientInvariant, PTL

\* The correlator's own properties hold in the client: no caller is left asleep
\* beside its reply, and no wake-up of the dispatcher is lost.
THEOREM ClientWakesCallers == Spec => []WakeupsNotLost
<1>1. ClientInv => WakeupsNotLost
  BY DEF ClientInv, PendingInv, WakeupsNotLost
<1> QED
  BY <1>1, ClientInvariant, PTL
=============================================================================
