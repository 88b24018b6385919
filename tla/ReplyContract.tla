--------------------------- MODULE ReplyContract ---------------------------
(***************************************************************************)
(* What a correlated request promises its caller, whatever the transport:  *)
(* a call is asked, its promise is resolved at most once, by a reply meant *)
(* for that call alone or by a failure that may break several calls at     *)
(* once, and the caller is told the resolution, or gives up while there is *)
(* none.  Nothing here knows correlation ids, maps or condition variables. *)
(***************************************************************************)

CONSTANTS Callers,   \* the threads that make calls, one call at a time each
          Payloads,  \* the replies the remote side can give
          Errors     \* the reasons a call can be failed with

VARIABLES promise,   \* what is known of the caller's current call
          answer     \* what the caller was told about its last call

contractVars == <<promise, answer>>

Outcomes == Payloads \cup Errors

ContractTypeOK ==
    /\ promise \in [Callers -> {"unasked", "open"} \cup Outcomes]
    /\ answer \in [Callers -> {"none", "timeout", "refused"} \cup Outcomes]

ContractInit ==
    /\ promise = [c \in Callers |-> "unasked"]
    /\ answer = [c \in Callers |-> "none"]

Ask(c) ==
    /\ promise[c] = "unasked"
    /\ promise' = [promise EXCEPT ![c] = "open"]
    /\ answer' = [answer EXCEPT ![c] = "none"]

Refuse(c) ==
    /\ promise[c] = "unasked"
    /\ answer' = [answer EXCEPT ![c] = "refused"]
    /\ UNCHANGED promise

\* A reply resolves the promise of one caller.
Keep(c, p) ==
    /\ promise[c] = "open"
    /\ promise' = [promise EXCEPT ![c] = p]
    /\ UNCHANGED answer

\* A failure resolves a set of open promises, all with the same error.
Break(S, e) ==
    /\ \A c \in S : promise[c] = "open"
    /\ promise' = [c \in Callers |-> IF c \in S THEN e ELSE promise[c]]
    /\ UNCHANGED answer

\* The caller learns the outcome of its resolved promise, once.
Tell(c) ==
    /\ promise[c] \in Outcomes
    /\ answer[c] = "none"
    /\ answer' = [answer EXCEPT ![c] = promise[c]]
    /\ UNCHANGED promise

GiveUp(c) ==
    /\ promise[c] = "open"
    /\ answer[c] = "none"
    /\ answer' = [answer EXCEPT ![c] = "timeout"]
    /\ UNCHANGED promise

Forget(c) ==
    /\ promise[c] # "unasked"
    /\ promise' = [promise EXCEPT ![c] = "unasked"]
    /\ UNCHANGED answer

ContractNext ==
    \/ \E c \in Callers : Ask(c) \/ Refuse(c) \/ Tell(c) \/ GiveUp(c) \/ Forget(c)
    \/ \E c \in Callers, p \in Payloads : Keep(c, p)
    \/ \E S \in SUBSET Callers, e \in Errors : Break(S, e)

ContractSpec == ContractInit /\ [][ContractNext]_contractVars
=============================================================================
