--------------------------- MODULE PendingReplies ---------------------------
(***************************************************************************)
(* The correlator every client plugin shares                               *)
(* (GraftcodePluginsInterfaces/PendingReplies.h, the same file in the five *)
(* plugins): callers register a correlation id and block on a ticket;      *)
(* dispatcher threads complete or fail the id; one poller thread sleeps    *)
(* until there is something to poll for.                                   *)
(*                                                                         *)
(* One action is one critical section of mutex_.  Register and Close       *)
(* notify after they unlock, so each is two actions and other threads may  *)
(* run in between.  A Slot is shared by the map and by the ticket of the   *)
(* caller that registered it, and a caller has one ticket at a time, so    *)
(* the slot is named by its caller.                                        *)
(***************************************************************************)

CONSTANTS Callers,   \* threads inside Call, one request each at a time
          Ids,       \* correlation ids
          Payloads,  \* reply bodies
          Errors,    \* failure texts
          NoCaller,  \* an id that is not in the map
          NoId       \* the id of a thread without a ticket

ASSUME PendingAssumption ==
    /\ NoCaller \notin Callers
    /\ NoId \notin Ids
    /\ Payloads \cap Errors = {}
    /\ {"open", "unasked", "none", "timeout", "refused"}
           \cap (Payloads \cup Errors) = {}

VARIABLES
    slots,     \* slots_: the caller whose slot an id maps to, or NoCaller
    outcome,   \* the caller's Slot: "open" until done, then payload or error
    ticket,    \* where the caller is between Register and ~Ticket
    tid,       \* the id_ of the caller's ticket
    result,    \* what Register or Wait last told the caller
    closed,    \* closed_
    closing,   \* Close has unlocked and has not notified yet
    poller     \* the thread in WaitForPending, or the answer it last got

slotVars == <<slots, outcome, ticket, tid, result>>
pendingVars == <<slots, outcome, ticket, tid, result, closed, closing, poller>>

PendingTypeOK ==
    /\ slots \in [Ids -> Callers \cup {NoCaller}]
    /\ outcome \in [Callers -> {"open"} \cup Payloads \cup Errors]
    /\ ticket \in [Callers ->
           {"none", "notifying", "held", "asleep", "awake", "settled"}]
    /\ tid \in [Callers -> Ids \cup {NoId}]
    /\ result \in [Callers ->
           {"none", "timeout", "refused"} \cup Payloads \cup Errors]
    /\ closed \in BOOLEAN
    /\ closing \in BOOLEAN
    /\ poller \in {"idle", "asleep", "awake", "work"}

PendingInit ==
    /\ slots = [i \in Ids |-> NoCaller]
    /\ outcome = [c \in Callers |-> "open"]
    /\ ticket = [c \in Callers |-> "none"]
    /\ tid = [c \in Callers |-> NoId]
    /\ result = [c \in Callers |-> "none"]
    /\ closed = FALSE
    /\ closing = FALSE
    /\ poller = "idle"

\* The callers whose slot is in the map.
Waiting == {c \in Callers : \E i \in Ids : slots[i] = c}

\* pendingChanged_.notify_all: a sleeping poller must check its predicate again.
NotifyPoller == poller' = IF poller = "asleep" THEN "awake" ELSE poller

\* Mistakes the runs are known to catch: MarkDone that forgets the slot's
\* notify_one, and MarkDone that does not test slot.done.
MarkDoneSilently(S, o) ==
    /\ outcome' = [c \in Callers |->
           IF c \in S /\ outcome[c] = "open" THEN o ELSE outcome[c]]
    /\ UNCHANGED ticket

MarkDoneAgain(S, o) ==
    /\ outcome' = [c \in Callers |-> IF c \in S THEN o ELSE outcome[c]]
    /\ ticket' = [c \in Callers |->
           IF c \in S /\ ticket[c] = "asleep" THEN "awake" ELSE ticket[c]]

\* MarkDone on the slots of S: the first outcome wins, and wakes the waiter.
MarkDone(S, o) ==
    LET fresh == {c \in S : outcome[c] = "open"}
    IN  /\ outcome' = [c \in Callers |-> IF c \in fresh THEN o ELSE outcome[c]]
        /\ ticket' = [c \in Callers |->
               IF c \in fresh /\ ticket[c] = "asleep" THEN "awake" ELSE ticket[c]]

-----------------------------------------------------------------------------
(* Register: rejected once closed, and for an id that is already waiting.  *)

\* Mistakes: an id that is already waiting is not refused; closed_ is not.
RegisterDuplicate(c, i) ==
    /\ ticket[c] = "none"
    /\ ~closed
    /\ slots' = [slots EXCEPT ![i] = c]
    /\ outcome' = [outcome EXCEPT ![c] = "open"]
    /\ ticket' = [ticket EXCEPT ![c] = "notifying"]
    /\ tid' = [tid EXCEPT ![c] = i]
    /\ result' = [result EXCEPT ![c] = "none"]
    /\ UNCHANGED <<closed, closing, poller>>

RegisterAfterClose(c, i) ==
    /\ ticket[c] = "none"
    /\ slots[i] = NoCaller
    /\ slots' = [slots EXCEPT ![i] = c]
    /\ outcome' = [outcome EXCEPT ![c] = "open"]
    /\ ticket' = [ticket EXCEPT ![c] = "notifying"]
    /\ tid' = [tid EXCEPT ![c] = i]
    /\ result' = [result EXCEPT ![c] = "none"]
    /\ UNCHANGED <<closed, closing, poller>>

Register(c, i) ==
    /\ ticket[c] = "none"
    /\ ~closed
    /\ slots[i] = NoCaller
    /\ slots' = [slots EXCEPT ![i] = c]
    /\ outcome' = [outcome EXCEPT ![c] = "open"]
    /\ ticket' = [ticket EXCEPT ![c] = "notifying"]
    /\ tid' = [tid EXCEPT ![c] = i]
    /\ result' = [result EXCEPT ![c] = "none"]
    /\ UNCHANGED <<closed, closing, poller>>

RegisterThrows(c, i) ==
    /\ ticket[c] = "none"
    /\ closed \/ slots[i] # NoCaller
    /\ result' = [result EXCEPT ![c] = "refused"]
    /\ UNCHANGED <<slots, outcome, ticket, tid, closed, closing, poller>>

\* Mistake: no pendingChanged_.notify_all after Register.
RegisterNotifyNobody(c) ==
    /\ ticket[c] = "notifying"
    /\ ticket' = [ticket EXCEPT ![c] = "held"]
    /\ UNCHANGED <<slots, outcome, tid, result, closed, closing, poller>>

RegisterNotify(c) ==
    /\ ticket[c] = "notifying"
    /\ ticket' = [ticket EXCEPT ![c] = "held"]
    /\ NotifyPoller
    /\ UNCHANGED <<slots, outcome, tid, result, closed, closing>>

-----------------------------------------------------------------------------
(* Ticket::Wait.  wait_for evaluates its predicate under the mutex when it *)
(* starts, after each notification and when the timer fires.               *)

Settle(c, r) ==
    /\ ticket' = [ticket EXCEPT ![c] = "settled"]
    /\ result' = [result EXCEPT ![c] = r]
    /\ UNCHANGED <<slots, outcome, tid, closed, closing, poller>>

WaitReturns(c) ==
    /\ ticket[c] \in {"held", "awake"}
    /\ outcome[c] # "open"
    /\ Settle(c, outcome[c])

WaitSleeps(c) ==
    /\ ticket[c] \in {"held", "awake"}
    /\ outcome[c] = "open"
    /\ ticket' = [ticket EXCEPT ![c] = "asleep"]
    /\ UNCHANGED <<slots, outcome, tid, result, closed, closing, poller>>

WaitTimer(c) ==
    /\ ticket[c] = "asleep"
    /\ Settle(c, IF outcome[c] = "open" THEN "timeout" ELSE outcome[c])

\* ~Ticket calls Remove(id_): after Wait, or when an exception unwinds the
\* caller between Register and Wait.
Remove(c) ==
    /\ ticket[c] \in {"held", "settled"}
    /\ slots' = [slots EXCEPT ![tid[c]] = NoCaller]
    /\ outcome' = [outcome EXCEPT ![c] = "open"]
    /\ ticket' = [ticket EXCEPT ![c] = "none"]
    /\ tid' = [tid EXCEPT ![c] = NoId]
    /\ UNCHANGED <<result, closed, closing, poller>>

-----------------------------------------------------------------------------
(* The dispatchers' side.  An unknown id changes nothing.                  *)

Finish(i, o) ==
    /\ MarkDone({slots[i]} \ {NoCaller}, o)
    /\ UNCHANGED <<slots, tid, result, closed, closing, poller>>

Complete(i, p) == Finish(i, p)

Fail(i, e) == Finish(i, e)

FailAll(e) ==
    /\ MarkDone(Waiting, e)
    /\ UNCHANGED <<slots, tid, result, closed, closing, poller>>

Close(e) ==
    /\ ~closing
    /\ closed' = TRUE
    /\ closing' = TRUE
    /\ MarkDone(Waiting, e)
    /\ UNCHANGED <<slots, tid, result, poller>>

\* Mistake: no pendingChanged_.notify_all after Close.
CloseNotifyNobody ==
    /\ closing
    /\ closing' = FALSE
    /\ UNCHANGED <<slots, outcome, ticket, tid, result, closed, poller>>

CloseNotify ==
    /\ closing
    /\ closing' = FALSE
    /\ NotifyPoller
    /\ UNCHANGED <<slots, outcome, ticket, tid, result, closed>>

-----------------------------------------------------------------------------
(* WaitForPending, called by one polling thread.                           *)

PendingChanged == closed \/ Waiting # {}

PollAnswer == IF ~closed /\ Waiting # {} THEN "work" ELSE "idle"

WaitForPending ==
    /\ poller # "asleep"
    /\ poller' = IF PendingChanged THEN PollAnswer ELSE "asleep"
    /\ UNCHANGED <<slotVars, closed, closing>>

PollTimer ==
    /\ poller = "asleep"
    /\ poller' = PollAnswer
    /\ UNCHANGED <<slotVars, closed, closing>>

-----------------------------------------------------------------------------

CallerStep(c) ==
    \/ RegisterNotify(c) \/ WaitReturns(c) \/ WaitSleeps(c) \/ WaitTimer(c)
    \/ Remove(c)
    \/ \E i \in Ids : Register(c, i) \/ RegisterThrows(c, i)

PendingNext ==
    \/ \E c \in Callers : CallerStep(c)
    \/ \E i \in Ids, p \in Payloads : Complete(i, p)
    \/ \E i \in Ids, e \in Errors : Fail(i, e)
    \/ \E e \in Errors : FailAll(e) \/ Close(e)
    \/ CloseNotify
    \/ WaitForPending
    \/ PollTimer

PendingSpec == PendingInit /\ [][PendingNext]_pendingVars

\* Threads keep running, but no timer is needed: a notified thread runs.
PromptSpec ==
    /\ PendingSpec
    /\ \A c \in Callers :
           /\ WF_pendingVars(RegisterNotify(c))
           /\ WF_pendingVars(WaitReturns(c))
    /\ WF_pendingVars(CloseNotify)
    /\ WF_pendingVars(poller = "awake" /\ WaitForPending)

-----------------------------------------------------------------------------
(* Properties                                                              *)

\* The map and the live tickets are the same thing, for Register, Remove and
\* the duplicate check: an id in the map belongs to exactly the caller whose
\* ticket carries it, no ticket has lost its entry to another's Remove or
\* Register, and a destroyed ticket leaves no entry behind.
SlotsMatchTickets ==
    /\ \A c \in Callers : ticket[c] # "none" =>
           tid[c] \in Ids /\ slots[tid[c]] = c
    /\ \A i \in Ids : slots[i] # NoCaller =>
           ticket[slots[i]] # "none" /\ tid[slots[i]] = i

\* MarkDone never leaves a thread asleep in Ticket::Wait beside a slot that is
\* done: the thread would only find its reply when the timeout fires.
SleepersUnanswered ==
    \A c \in Callers : ticket[c] = "asleep" => outcome[c] = "open"

\* Close reaches every registered request, and Register lets none in behind
\* it: after Close no caller can be left waiting for its timeout.
ClosedAnswersAll ==
    closed => \A c \in Callers : ticket[c] # "none" => outcome[c] # "open"

\* Register and Close notify after unlocking.  A poller asleep in
\* WaitForPending while it has something to see is always about to be
\* notified by a thread between its unlock and its notify_all.
PollerAboutToBeNotified ==
    poller = "asleep" /\ PendingChanged =>
        closing \/ \E c \in Callers : ticket[c] = "notifying"

\* No wake-up is lost, of a caller or of the poller.
WakeupsNotLost == SleepersUnanswered /\ PollerAboutToBeNotified

\* The correlator keeps the contract of ReplyContract: first outcome wins, a
\* reply goes to one caller, a timeout is reported only for an open request.
Promise == [c \in Callers |-> IF ticket[c] = "none" THEN "unasked" ELSE outcome[c]]
Contract == INSTANCE ReplyContract WITH promise <- Promise, answer <- result
KeepsContract == Contract!ContractSpec

\* An answered caller that sleeps in Ticket::Wait gets its answer, and a poller
\* asleep in WaitForPending sees a registration or Close, from the notification
\* alone, whether or not their timers ever fire.
SleepersWake ==
    /\ \A c \in Callers : (ticket[c] \in {"asleep", "awake"} /\ outcome[c] # "open")
                              ~> ticket[c] \in {"settled", "none"}
    /\ (poller = "asleep" /\ PendingChanged) ~> (poller # "asleep")
=============================================================================
