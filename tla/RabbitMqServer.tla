--------------------------- MODULE RabbitMqServer ---------------------------
(***************************************************************************)
(* RabbitMqServer (rabbitmq/RabbitmqPlugin/RabbitMqServer.cpp): start()    *)
(* connects, consumes with prefetch 1 and handles one request at a time;   *)
(* stop() sets a flag and closes the socket under the loop's hands.  A     *)
(* failed request is neither acknowledged nor rejected: the connection is  *)
(* dropped, and RabbitMQ delivers it again on the next one.                *)
(*                                                                         *)
(* The kernel gives the number of a closed descriptor to whoever opens the *)
(* next one, and closes it for whoever asks: stop() and then the loop      *)
(* close the same number, and the second close may hit another thread's.   *)
(* The connection is a pipe, of which a suffix may be lost.                *)
(***************************************************************************)
EXTENDS Sequences

CONSTANTS Requests,  \* the requests in the queue
          Empty,     \* those without a body
          Silent,    \* those without a reply_to
          Numbers,   \* descriptor numbers
          Others     \* other threads of the process, with a descriptor each

ASSUME RabbitServerAssumption ==
    /\ "none" \notin Numbers
    /\ "server" \notin Others /\ "nobody" \notin Others

VARIABLES
    queue,      \* the requests RabbitMQ holds
    pipe,       \* what the server has sent and RabbitMQ not yet taken
    executed,   \* the requests processMessage has executed
    answered,   \* the requests whose reply is in its reply queue
    consumer,   \* where the thread is in start()
    inHand,     \* the request in onReceived, or "none"
    stopFlag,   \* g_stopRequested
    stopCall,   \* where a thread is in stop()
    holder,     \* whose each descriptor number is by the kernel's account
    held,       \* the number each other thread has opened and will close
    socket,     \* the loop's socket, or "none"
    active,     \* g_activeSocket, or "none"
    robbed      \* history: the loop has closed a number of another's

queueVars == <<queue, pipe, executed, answered>>
socketVars == <<holder, held, socket, active, robbed>>
stopVars == <<stopFlag, stopCall>>
serverVars == <<queueVars, consumer, inHand, stopVars, socketVars>>

ServerTypeOK ==
    /\ queue \subseteq Requests
    /\ pipe \in Seq([kind : {"reply", "ack"}, request : Requests])
    /\ executed \subseteq Requests
    /\ answered \subseteq Requests
    /\ consumer \in {"off", "testing", "connecting", "connected", "consuming",
                     "handling", "replying", "acking", "clearing", "closing"}
    /\ inHand \in Requests \cup {"none"}
    /\ stopFlag \in BOOLEAN
    /\ stopCall \in {"idle", "closing"}
    /\ holder \in [Numbers -> Others \cup {"nobody", "server"}]
    /\ held \in [Others -> Numbers \cup {"none"}]
    /\ socket \in Numbers \cup {"none"}
    /\ active \in Numbers \cup {"none"}
    /\ robbed \in BOOLEAN

ServerInit ==
    /\ queue = Requests
    /\ pipe = <<>>
    /\ executed = {}
    /\ answered = {}
    /\ consumer = "off"
    /\ inHand = "none"
    /\ stopFlag = FALSE
    /\ stopCall = "idle"
    /\ holder = [n \in Numbers |-> "nobody"]
    /\ held = [o \in Others |-> "none"]
    /\ socket = "none"
    /\ active = "none"
    /\ robbed = FALSE

MovesTo(place) == consumer' = place

\* shutdown and close take a number from whoever has it.
CloseNumber(n) == holder' = [holder EXCEPT ![n] = "nobody"]

-----------------------------------------------------------------------------
(* start, the connection, stop                                             *)

\* The flag is reset: a stop() that came first is forgotten.
Start ==
    /\ consumer = "off"
    /\ stopFlag' = FALSE
    /\ MovesTo("testing")
    /\ UNCHANGED <<queueVars, inHand, stopCall, socketVars>>

TestOuter ==
    /\ consumer = "testing"
    /\ MovesTo(IF stopFlag THEN "off" ELSE "connecting")
    /\ UNCHANGED <<queueVars, inHand, stopVars, socketVars>>

ConnectFails ==
    /\ consumer = "connecting"
    /\ MovesTo("testing")
    /\ UNCHANGED <<queueVars, inHand, stopVars, socketVars>>

\* What was left of the old connection is lost by now.
ConnectServer(n) ==
    /\ consumer = "connecting"
    /\ holder[n] = "nobody"
    /\ holder' = [holder EXCEPT ![n] = "server"]
    /\ socket' = n
    /\ pipe' = <<>>
    /\ MovesTo("connected")
    /\ UNCHANGED <<queue, executed, answered, inHand, stopVars, held, active, robbed>>

SetActive ==
    /\ consumer = "connected"
    /\ active' = socket
    /\ MovesTo("consuming")
    /\ UNCHANGED <<queueVars, inHand, stopVars, holder, held, socket, robbed>>

\* The flag is set; or the socket broke, by stop() or by itself; or the set-up
\* of the consumer failed.
LeaveInner ==
    /\ consumer = "consuming"
    /\ MovesTo("clearing")
    /\ UNCHANGED <<queueVars, inHand, stopVars, socketVars>>

\* Mistake: the descriptor is closed before it is forgotten.
CloseFirst ==
    /\ consumer = "clearing"
    /\ CloseNumber(socket)
    /\ MovesTo("closing")
    /\ UNCHANGED <<queueVars, inHand, stopVars, held, socket, active, robbed>>

ClearActive ==
    /\ consumer = "clearing"
    /\ active' = IF active = socket THEN "none" ELSE active
    /\ MovesTo("closing")
    /\ UNCHANGED <<queueVars, inHand, stopVars, holder, held, socket, robbed>>

\* stop() may have closed the number before, and another thread opened it.
CloseSocket ==
    /\ consumer = "closing"
    /\ CloseNumber(socket)
    /\ socket' = "none"
    /\ robbed' = (robbed \/ holder[socket] \in Others)
    /\ MovesTo("testing")
    /\ UNCHANGED <<queueVars, inHand, stopVars, held, active>>

StopRequest ==
    /\ stopCall = "idle"
    /\ stopFlag' = TRUE
    /\ stopCall' = "closing"
    /\ UNCHANGED <<queueVars, consumer, inHand, socketVars>>

CloseActive ==
    /\ stopCall = "closing"
    /\ IF active # "none"
       THEN CloseNumber(active)
       ELSE UNCHANGED holder
    /\ active' = "none"
    /\ stopCall' = "idle"
    /\ UNCHANGED <<queueVars, consumer, inHand, stopFlag, held, socket, robbed>>

-----------------------------------------------------------------------------
(* onReceived: whatever throws here drops the connection                   *)

\* With prefetch 1 RabbitMQ sends nothing while an acknowledgement is out.
Receive(m) ==
    /\ consumer = "consuming"
    /\ holder[socket] = "server"
    /\ pipe = <<>>
    /\ m \in queue
    /\ inHand' = m
    /\ MovesTo(IF m \in Empty THEN "acking" ELSE "handling")
    /\ UNCHANGED <<queueVars, stopVars, socketVars>>

Process ==
    /\ consumer = "handling"
    /\ executed' = executed \cup {inHand}
    /\ MovesTo(IF inHand \in Silent THEN "acking" ELSE "replying")
    /\ UNCHANGED <<queue, pipe, answered, inHand, stopVars, socketVars>>

\* What is sent on a descriptor that another has by now is lost to RabbitMQ.
Send(kind) ==
    /\ holder[socket] # "nobody"
    /\ pipe' = IF holder[socket] = "server"
               THEN Append(pipe, [kind |-> kind, request |-> inHand])
               ELSE pipe

Reply ==
    /\ consumer = "replying"
    /\ Send("reply")
    /\ MovesTo("acking")
    /\ UNCHANGED <<queue, executed, answered, inHand, stopVars, socketVars>>

\* Mistake: a reply that cannot be sent does not keep the request.
AckAnyway ==
    /\ consumer \in {"replying", "acking"}
    /\ Send("ack")
    /\ inHand' = "none"
    /\ MovesTo("consuming")
    /\ UNCHANGED <<queue, executed, answered, stopVars, socketVars>>

Ack ==
    /\ consumer = "acking"
    /\ Send("ack")
    /\ inHand' = "none"
    /\ MovesTo("consuming")
    /\ UNCHANGED <<queue, executed, answered, stopVars, socketVars>>

HandlerThrows ==
    /\ consumer \in {"handling", "replying", "acking"}
    /\ inHand' = "none"
    /\ MovesTo("clearing")
    /\ UNCHANGED <<queueVars, stopVars, socketVars>>

-----------------------------------------------------------------------------
(* RabbitMQ and the rest of the process                                    *)

BrokerTakes ==
    /\ pipe # <<>>
    /\ pipe' = Tail(pipe)
    /\ IF Head(pipe).kind = "ack"
       THEN queue' = queue \ {Head(pipe).request} /\ UNCHANGED answered
       ELSE answered' = answered \cup {Head(pipe).request} /\ UNCHANGED queue
    /\ UNCHANGED <<executed, consumer, inHand, stopVars, socketVars>>

OtherOpens(o, n) ==
    /\ held[o] = "none" /\ holder[n] = "nobody"
    /\ held' = [held EXCEPT ![o] = n]
    /\ holder' = [holder EXCEPT ![n] = o]
    /\ UNCHANGED <<queueVars, consumer, inHand, stopVars, socket, active, robbed>>

\* The thread closes the number it has opened, whoever has it by now.
OtherCloses(o) ==
    /\ held[o] # "none"
    /\ CloseNumber(held[o])
    /\ held' = [held EXCEPT ![o] = "none"]
    /\ UNCHANGED <<queueVars, consumer, inHand, stopVars, socket, active, robbed>>

LoopNext ==
    \/ TestOuter \/ ConnectFails \/ (\E n \in Numbers : ConnectServer(n)) \/ SetActive
    \/ LeaveInner \/ ClearActive \/ CloseSocket
    \/ Process \/ Reply \/ Ack \/ HandlerThrows

ServerNext ==
    \/ Start \/ LoopNext \/ StopRequest \/ CloseActive
    \/ \E m \in Requests : Receive(m)
    \/ BrokerTakes
    \/ \E o \in Others : OtherCloses(o) \/ \E n \in Numbers : OtherOpens(o, n)

ServerSpec == ServerInit /\ [][ServerNext]_serverVars

-----------------------------------------------------------------------------
(* Properties                                                              *)

\* A request leaves the queue only when it has been executed and its reply is
\* in the reply queue: both travel over one connection, in order, and a
\* connection that breaks takes the acknowledgement with it (onReceived).
AckedAfterReply ==
    [][\A m \in queue \ queue' :
           \/ m \in Empty
           \/ m \in executed /\ m \in Silent \cup answered]_serverVars

\* g_activeSocket names the loop's socket of this connection and no earlier one,
\* and it is the server's, so that stop() closes no other thread's: unless the
\* loop's own close (RabbitMqServer.cpp:609, 619) has hit another thread, which
\* may then close a number that is the server's by now.  Either way no failed
\* loop leaves a socket open.
StopClosesOwnSocket ==
    /\ active # "none" =>
           /\ active = socket /\ consumer \notin {"connected", "closing"}
           /\ robbed \/ holder[active] = "server"
    /\ \A n \in Numbers : holder[n] = "server" => n = socket
=============================================================================
