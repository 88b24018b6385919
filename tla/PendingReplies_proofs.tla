----------------------- MODULE PendingReplies_proofs -----------------------
(***************************************************************************)
(* The safety of the correlator, for any number of callers and ids.        *)
(***************************************************************************)
EXTENDS PendingReplies, TLAPS

USE PendingAssumption

\* Every step of the correlator keeps its map, slots and tickets in the values
\* the model gives them.
LEMMA PendingTypeStep == PendingTypeOK /\ [PendingNext]_pendingVars => PendingTypeOK'
<1> SUFFICES ASSUME PendingTypeOK, [PendingNext]_pendingVars
             PROVE  PendingTypeOK'
  OBVIOUS
<1> USE DEF PendingTypeOK
<1>1. ASSUME NEW c \in Callers, CallerStep(c)
      PROVE  PendingTypeOK'
  <2>1. ASSUME NEW i \in Ids, Register(c, i)
        PROVE  PendingTypeOK'
    BY <2>1 DEF Register
  <2>2. ASSUME NEW i \in Ids, RegisterThrows(c, i)
        PROVE  PendingTypeOK'
    BY <2>2 DEF RegisterThrows
  <2>3. CASE RegisterNotify(c)
    BY <2>3 DEF RegisterNotify, NotifyPoller
  <2>4. CASE WaitReturns(c)
    BY <2>4 DEF WaitReturns, Settle
  <2>5. CASE WaitSleeps(c)
    BY <2>5 DEF WaitSleeps
  <2>6. CASE WaitTimer(c)
    BY <2>6 DEF WaitTimer, Settle
  <2>7. CASE Remove(c)
    BY <2>7 DEF Remove
  <2> QED
    BY <1>1, <2>1, <2>2, <2>3, <2>4, <2>5, <2>6, <2>7 DEF CallerStep
<1>2. ASSUME NEW i \in Ids, NEW p \in Payloads, Complete(i, p)
      PROVE  PendingTypeOK'
  BY <1>2 DEF Complete, Finish, MarkDone
<1>3. ASSUME NEW i \in Ids, NEW e \in Errors, Fail(i, e)
      PROVE  PendingTypeOK'
  BY <1>3 DEF Fail, Finish, MarkDone
<1>4. ASSUME NEW e \in Errors, FailAll(e)
      PROVE  PendingTypeOK'
  BY <1>4 DEF FailAll, MarkDone
<1>5. ASSUME NEW e \in Errors, Close(e)
      PROVE  PendingTypeOK'
  BY <1>5 DEF Close, MarkDone
<1>6. CASE CloseNotify
  BY <1>6 DEF CloseNotify, NotifyPoller
<1>7. CASE WaitForPending
  BY <1>7 DEF WaitForPending, PollAnswer, slotVars
<1>8. CASE PollTimer
  BY <1>8 DEF PollTimer, PollAnswer, slotVars
<1>9. CASE UNCHANGED pendingVars
  BY <1>9 DEF pendingVars
<1> QED
  BY <1>1, <1>2, <1>3, <1>4, <1>5, <1>6, <1>7, <1>8, <1>9 DEF PendingNext

\* PendingReplies.h keeps its state in the values the model gives it.
THEOREM PendingTypeCorrect == PendingSpec => []PendingTypeOK
<1>1. PendingInit => PendingTypeOK
  BY DEF PendingInit, PendingTypeOK
<1> QED
  BY <1>1, PendingTypeStep, PTL DEF PendingSpec

-----------------------------------------------------------------------------

\* The inductive invariant.  ClosedAnswersAll needs SlotsMatchTickets, because
\* Close walks the map while the property speaks of the tickets.
PendingInv ==
    /\ PendingTypeOK
    /\ SlotsMatchTickets
    /\ SleepersUnanswered
    /\ ClosedAnswersAll
    /\ PollerAboutToBeNotified

\* What MarkDone does to one caller, marked or not.
LEMMA MarkDoneFacts ==
    ASSUME PendingTypeOK, NEW S, NEW o \in Payloads \cup Errors, MarkDone(S, o),
           NEW c \in Callers
    PROVE  /\ outcome'[c] = IF c \in S /\ outcome[c] = "open" THEN o ELSE outcome[c]
           /\ o # "open"
           /\ ticket'[c] # ticket[c] => ticket[c] = "asleep" /\ ticket'[c] = "awake"
           /\ ticket'[c] = "asleep" => ~(c \in S /\ outcome[c] = "open")
BY DEF MarkDone, PendingTypeOK

\* Every action of a thread that uses the correlator preserves the invariant;
\* the client modules cite this lemma for their own steps.
LEMMA PendingStep == PendingInv /\ [PendingNext]_pendingVars => PendingInv'
<1> SUFFICES ASSUME PendingInv, [PendingNext]_pendingVars
             PROVE  PendingInv'
  OBVIOUS
<1>0. PendingTypeOK /\ PendingTypeOK'
  BY PendingTypeStep DEF PendingInv
<1> USE <1>0
<1>1. ASSUME NEW c \in Callers, NEW i \in Ids, Register(c, i)
      PROVE  PendingInv'
  <2> USE <1>1 DEF Register, PendingInv, PendingTypeOK
  <2>1. SlotsMatchTickets'
    BY DEF SlotsMatchTickets
  <2>2. SleepersUnanswered'
    BY DEF SleepersUnanswered
  <2>3. ClosedAnswersAll'
    BY DEF ClosedAnswersAll
  <2>4. PollerAboutToBeNotified'
    BY DEF PollerAboutToBeNotified
  <2> QED
    BY <2>1, <2>2, <2>3, <2>4
<1>2. ASSUME NEW c \in Callers, NEW i \in Ids, RegisterThrows(c, i)
      PROVE  PendingInv'
  BY <1>2 DEF RegisterThrows, PendingInv, SlotsMatchTickets, SleepersUnanswered,
     ClosedAnswersAll, PollerAboutToBeNotified, PendingChanged, Waiting
<1>3. ASSUME NEW c \in Callers, RegisterNotify(c)
      PROVE  PendingInv'
  BY <1>3 DEF RegisterNotify, NotifyPoller, PendingInv, PendingTypeOK, SlotsMatchTickets,
     SleepersUnanswered, ClosedAnswersAll, PollerAboutToBeNotified
<1>4. ASSUME NEW c \in Callers, NEW r, Settle(c, r),
             ticket[c] \in {"held", "awake", "asleep"}
      PROVE  PendingInv'
  BY <1>4 DEF Settle, PendingInv, PendingTypeOK, SlotsMatchTickets, SleepersUnanswered,
     ClosedAnswersAll, PollerAboutToBeNotified, PendingChanged, Waiting
<1>5. ASSUME NEW c \in Callers, WaitSleeps(c)
      PROVE  PendingInv'
  BY <1>5 DEF WaitSleeps, PendingInv, PendingTypeOK, SlotsMatchTickets, SleepersUnanswered,
     ClosedAnswersAll, PollerAboutToBeNotified, PendingChanged, Waiting
<1>6. ASSUME NEW c \in Callers, Remove(c)
      PROVE  PendingInv'
  <2> USE <1>6 DEF Remove, PendingInv, PendingTypeOK
  <2>1. SlotsMatchTickets'
    BY DEF SlotsMatchTickets
  <2>2. SleepersUnanswered'
    BY DEF SleepersUnanswered
  <2>3. ClosedAnswersAll'
    BY DEF ClosedAnswersAll
  <2>4. Waiting' \subseteq Waiting
    BY DEF Waiting
  <2>5. PollerAboutToBeNotified'
    BY <2>4 DEF PollerAboutToBeNotified, PendingChanged
  <2> QED
    BY <2>1, <2>2, <2>3, <2>5
<1>7. ASSUME NEW S, NEW o \in Payloads \cup Errors, MarkDone(S, o),
             closed' # closed => Waiting \subseteq S /\ closing',
             closed => closed',
             closing => closing',
             UNCHANGED <<slots, tid, result, poller>>
      PROVE  PendingInv'
  <2> USE <1>7
  <2>1. \A c \in Callers :
           /\ outcome'[c] = IF c \in S /\ outcome[c] = "open" THEN o ELSE outcome[c]
           /\ o # "open"
           /\ ticket'[c] # ticket[c] => ticket[c] = "asleep" /\ ticket'[c] = "awake"
           /\ ticket'[c] = "asleep" => ~(c \in S /\ outcome[c] = "open")
    BY MarkDoneFacts
  <2>2. SlotsMatchTickets'
    BY <2>1 DEF SlotsMatchTickets, PendingInv, PendingTypeOK
  <2>3. SleepersUnanswered'
    BY <2>1 DEF SleepersUnanswered, PendingInv, PendingTypeOK
  <2>4. ClosedAnswersAll'
    <3>1. CASE closed
      BY <2>1, <3>1 DEF ClosedAnswersAll, PendingInv, PendingTypeOK
    <3>2. CASE closed' # closed
      <4>1. \A c \in Callers : ticket[c] # "none" => c \in S
        BY <3>2 DEF SlotsMatchTickets, Waiting, PendingInv
      <4> QED
        BY <2>1, <4>1 DEF ClosedAnswersAll, PendingInv, PendingTypeOK
    <3> QED
      BY <3>1, <3>2 DEF ClosedAnswersAll, PendingTypeOK
  <2>5. Waiting' = Waiting
    BY DEF Waiting
  <2>6. PollerAboutToBeNotified'
    BY <2>1, <2>5 DEF PollerAboutToBeNotified, PendingChanged, PendingInv, PendingTypeOK
  <2> QED
    BY <2>2, <2>3, <2>4, <2>6 DEF PendingInv
<1>8. ASSUME CloseNotify \/ WaitForPending \/ PollTimer \/ UNCHANGED pendingVars
      PROVE  PendingInv'
  BY <1>8 DEF CloseNotify, NotifyPoller, WaitForPending, PollTimer, PollAnswer, PendingInv,
     SlotsMatchTickets, SleepersUnanswered, ClosedAnswersAll, PollerAboutToBeNotified,
     PendingChanged, Waiting, slotVars, pendingVars
<1>9. ASSUME NEW i \in Ids, NEW o \in Payloads \cup Errors, Finish(i, o)
      PROVE  PendingInv'
  BY <1>7, <1>9 DEF Finish
<1>10. ASSUME NEW e \in Errors, FailAll(e) \/ Close(e)
       PROVE  PendingInv'
  BY <1>7, <1>10 DEF FailAll, Close, PendingTypeOK
<1> QED
  BY <1>1, <1>2, <1>3, <1>4, <1>5, <1>6, <1>8, <1>9, <1>10
  DEF PendingNext, CallerStep, WaitReturns, WaitTimer, Complete, Fail

\* Until Wait has told the caller something, the result of its call is unset.
Untold ==
    \A c \in Callers :
        ticket[c] \in {"notifying", "held", "asleep", "awake"} => result[c] = "none"

LEMMA PendingInitSafe == PendingInit => PendingInv /\ Untold
<1>1. PendingInit => PendingTypeOK
  BY DEF PendingInit, PendingTypeOK
<1>2. PendingInit => SlotsMatchTickets /\ SleepersUnanswered /\ Untold
  BY DEF PendingInit, SlotsMatchTickets, SleepersUnanswered, Untold
<1>3. PendingInit => ClosedAnswersAll /\ PollerAboutToBeNotified
  BY DEF PendingInit, ClosedAnswersAll, PollerAboutToBeNotified
<1> QED
  BY <1>1, <1>2, <1>3 DEF PendingInv

\* For every set of callers and ids: the map is exactly the live tickets, no
\* answered caller sleeps, Close reaches every request, and no notification to
\* the poller is lost.
THEOREM PendingSafe == PendingSpec => []PendingInv
<1>1. PendingInit => PendingInv
  BY PendingInitSafe
<1> QED
  BY <1>1, PendingStep, PTL DEF PendingSpec

\* slots_ holds exactly the ids of the live tickets, each with its own caller.
THEOREM SlotsAreTickets == PendingSpec => []SlotsMatchTickets
<1>1. PendingInv => SlotsMatchTickets
  BY DEF PendingInv
<1> QED
  BY <1>1, PendingSafe, PTL

\* MarkDone wakes whoever sleeps in Wait on a slot it settles.
THEOREM NoAnsweredSleeper == PendingSpec => []SleepersUnanswered
<1>1. PendingInv => SleepersUnanswered
  BY DEF PendingInv
<1> QED
  BY <1>1, PendingSafe, PTL

\* After Close every ticket has an outcome, those registered while it ran too.
THEOREM CloseReachesAll == PendingSpec => []ClosedAnswersAll
<1>1. PendingInv => ClosedAnswersAll
  BY DEF PendingInv
<1> QED
  BY <1>1, PendingSafe, PTL

\* Notifying pendingChanged_ after the unlock loses no wake-up.
THEOREM NoLostWakeup == PendingSpec => []PollerAboutToBeNotified
<1>1. PendingInv => PollerAboutToBeNotified
  BY DEF PendingInv
<1> QED
  BY <1>1, PendingSafe, PTL

-----------------------------------------------------------------------------

LEMMA UntoldStep ==
    PendingTypeOK /\ Untold /\ [PendingNext]_pendingVars => Untold'
<1> SUFFICES ASSUME PendingTypeOK, Untold, [PendingNext]_pendingVars
             PROVE  Untold'
  OBVIOUS
<1> USE DEF Untold, PendingTypeOK
<1>1. ASSUME NEW c \in Callers, CallerStep(c)
      PROVE  Untold'
  BY <1>1 DEF CallerStep, RegisterNotify, WaitReturns, WaitSleeps, WaitTimer, Settle,
     Remove, Register, RegisterThrows
<1>2. ASSUME NEW i \in Ids, NEW o \in Payloads \cup Errors, Finish(i, o)
      PROVE  Untold'
  BY <1>2 DEF Finish, MarkDone
<1>3. ASSUME NEW e \in Errors, FailAll(e) \/ Close(e)
      PROVE  Untold'
  BY <1>3 DEF FailAll, Close, MarkDone
<1>4. ASSUME CloseNotify \/ WaitForPending \/ PollTimer \/ UNCHANGED pendingVars
      PROVE  Untold'
  BY <1>4 DEF CloseNotify, WaitForPending, PollTimer, slotVars, pendingVars
<1> QED
  BY <1>1, <1>2, <1>3, <1>4 DEF PendingNext, Complete, Fail

\* A step that marks the slots of S done breaks, or keeps, exactly the open
\* promises of S.
LEMMA MarkDonePromise ==
    ASSUME PendingTypeOK, NEW S \in SUBSET Callers, NEW o \in Payloads \cup Errors,
           MarkDone(S, o), \A c \in S : ticket[c] # "none"
    PROVE  Promise' = [c \in Callers |->
               IF c \in {d \in S : Promise[d] = "open"} THEN o ELSE Promise[c]]
<1>1. \A c \in Callers :
         /\ ticket'[c] = "none" <=> ticket[c] = "none"
         /\ outcome'[c] = IF c \in S /\ outcome[c] = "open" THEN o ELSE outcome[c]
  BY DEF MarkDone, PendingTypeOK
<1> QED
  BY <1>1 DEF Promise

LEMMA ContractStep ==
    PendingInv /\ Untold /\ [PendingNext]_pendingVars
        => [Contract!ContractNext]_(Contract!contractVars)
<1> SUFFICES ASSUME PendingInv, Untold, [PendingNext]_pendingVars
             PROVE  Contract!ContractNext \/ UNCHANGED <<Promise, result>>
  BY DEF Contract!contractVars
<1>0. PendingTypeOK /\ SlotsMatchTickets
  BY DEF PendingInv
<1> USE <1>0 DEF PendingTypeOK
<1>1. ASSUME NEW c \in Callers, NEW i \in Ids, Register(c, i)
      PROVE  Contract!Ask(c)
  BY <1>1 DEF Register, Contract!Ask, Promise
<1>2. ASSUME NEW c \in Callers, NEW i \in Ids, RegisterThrows(c, i)
      PROVE  Contract!Refuse(c)
  BY <1>2 DEF RegisterThrows, Contract!Refuse, Promise
<1>3. ASSUME NEW c \in Callers, RegisterNotify(c) \/ WaitSleeps(c)
      PROVE  UNCHANGED <<Promise, result>>
  BY <1>3 DEF RegisterNotify, WaitSleeps, Promise
<1>4. ASSUME NEW c \in Callers, WaitReturns(c) \/ WaitTimer(c)
      PROVE  Contract!Tell(c) \/ Contract!GiveUp(c)
  BY <1>4 DEF WaitReturns, WaitTimer, Settle, Untold, Promise, Contract!Tell,
     Contract!GiveUp, Contract!Outcomes
<1>5. ASSUME NEW c \in Callers, Remove(c)
      PROVE  Contract!Forget(c)
  BY <1>5 DEF Remove, Contract!Forget, Promise
<1>6. ASSUME NEW i \in Ids, NEW p \in Payloads, Complete(i, p)
      PROVE  (\E c \in Callers : Contract!Keep(c, p)) \/ UNCHANGED <<Promise, result>>
  <2> DEFINE S == {slots[i]} \ {NoCaller}
  <2>1. S \in SUBSET Callers /\ \A c \in S : ticket[c] # "none"
    BY DEF SlotsMatchTickets
  <2>2. MarkDone(S, p) /\ UNCHANGED result
    BY <1>6 DEF Complete, Finish
  <2>3. Promise' = [c \in Callers |->
            IF c \in {d \in S : Promise[d] = "open"} THEN p ELSE Promise[c]]
    BY <2>1, <2>2, MarkDonePromise
  <2>4. CASE slots[i] \in Callers /\ Promise[slots[i]] = "open"
    <3>1. Promise' = [Promise EXCEPT ![slots[i]] = p]
      BY <2>3, <2>4 DEF Promise
    <3>2. Contract!Keep(slots[i], p)
      BY <2>2, <2>4, <3>1 DEF Contract!Keep
    <3> QED
      BY <2>4, <3>2
  <2>5. CASE ~(slots[i] \in Callers /\ Promise[slots[i]] = "open")
    BY <2>2, <2>3, <2>5 DEF Promise
  <2> QED
    BY <2>4, <2>5
<1>7. ASSUME NEW S \in SUBSET Callers, NEW e \in Errors, MarkDone(S, e),
             UNCHANGED result, \A c \in S : ticket[c] # "none"
      PROVE  \E T \in SUBSET Callers : Contract!Break(T, e)
  <2> DEFINE T == {d \in S : Promise[d] = "open"}
  <2>1. Promise' = [c \in Callers |-> IF c \in T THEN e ELSE Promise[c]]
    BY <1>7, MarkDonePromise
  <2>2. Contract!Break(T, e)
    BY <1>7, <2>1 DEF Contract!Break
  <2> QED
    BY <2>2
<1>8. ASSUME NEW i \in Ids, NEW e \in Errors, Fail(i, e)
      PROVE  \E T \in SUBSET Callers : Contract!Break(T, e)
  BY <1>7, <1>8 DEF Fail, Finish, SlotsMatchTickets
<1>9. ASSUME NEW e \in Errors, FailAll(e) \/ Close(e)
      PROVE  \E T \in SUBSET Callers : Contract!Break(T, e)
  BY <1>7, <1>9 DEF FailAll, Close, Waiting, SlotsMatchTickets
<1>10. ASSUME CloseNotify \/ WaitForPending \/ PollTimer \/ UNCHANGED pendingVars
       PROVE  UNCHANGED <<Promise, result>>
  BY <1>10 DEF CloseNotify, WaitForPending, PollTimer, slotVars, pendingVars, Promise
<1> QED
  BY <1>1, <1>2, <1>3, <1>4, <1>5, <1>6, <1>8, <1>9, <1>10
  DEF PendingNext, CallerStep, Contract!ContractNext

\* The correlator implements the contract of a correlated request, for every
\* set of callers and ids: the first outcome wins, a reply resolves one call,
\* and a timeout is only ever reported for a request with no outcome.
THEOREM PendingKeepsContract == PendingSpec => KeepsContract
<1>1. PendingInit => Contract!ContractInit /\ Untold
  BY DEF PendingInit, Contract!ContractInit, Promise, Untold
<1>2. PendingInv => PendingTypeOK
  BY DEF PendingInv
<1> QED
  BY <1>1, <1>2, UntoldStep, ContractStep, PendingSafe, PTL
  DEF PendingSpec, KeepsContract, Contract!ContractSpec
\* No wake-up of a caller or of the poller is lost.
THEOREM NoWakeupIsLost == PendingSpec => []WakeupsNotLost
<1>1. SleepersUnanswered /\ PollerAboutToBeNotified => WakeupsNotLost
  BY DEF WakeupsNotLost
<1> QED
  BY <1>1, NoAnsweredSleeper, NoLostWakeup, PTL
=============================================================================
