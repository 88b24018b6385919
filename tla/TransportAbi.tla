---------------------------- MODULE TransportAbi ----------------------------
(***************************************************************************)
(* The C functions by which the host drives a transport plugin             *)
(* (TransportPluginAbi.h), as TransportPluginExports.h implements them on  *)
(* the SendCommand of the five Transport*.cpp.                             *)
(*                                                                         *)
(* The plugin allocates what it returns and the host releases it; several  *)
(* threads may be in TransportSendCommand of one channel.  An allocation   *)
(* may always fail.  The host keeps the header's rules: it destroys a      *)
(* channel nobody is in, and frees each buffer it was given once.          *)
(***************************************************************************)
EXTENDS Integers

CONSTANTS
    Threads,        \* the host's threads
    Buffers,        \* what malloc may return
    Null            \* what it returns when it fails

VARIABLES
    channel,        \* the plugin behind the open channel, or Null
    message,        \* the error message CreateTransport has left, or Null
    calls,          \* calls[t]: what t has passed and where its call is
    answers,        \* answers[t]: what t's last call has left
    live            \* the buffers allocated and not freed

abiVars == <<channel, message, calls, answers, live>>

Plugins == {"SQS", "Pub/Sub", "RabbitMQ", "ServiceBus", "Kafka"}

Messages == [null : BOOLEAN, length : {-1, 0, 1}]

\* What a plugin's client brings back, or the exception that leaves it.  An
\* error of the library's is marked by a first byte 255.
Replies == {"empty", "payload", "255 error"}
Thrown == "thrown"

\* Where a call is; its outcome is what the plugin's SendCommand has made of it.
Outside == [at |-> "host", outcome |-> "none"]

\* What *response and *responseLen hold: "bytes" names the copied text.
NoAnswer == [code |-> "none", buffer |-> Null, bytes |-> "none"]

-----------------------------------------------------------------------------
(* SendCommand of the five transports: which messages it refuses, and what *)
(* it makes of the client's reply.                                         *)

SqsRefuses(m) == m.length < 0 \/ (m.length > 0 /\ m.null)
PubSubRefuses(m) == m.length < 0 \/ (m.length > 0 /\ m.null)
RabbitMqRefuses(m) == m.null \/ m.length < 0
ServiceBusRefuses(m) == m.null \/ m.length < 0

\* A negative length reaches KafkaClient::call as a huge size_t: refused there
\* without data, and by librdkafka's size limit with it.
KafkaRefuses(m) == m.length < 0 \/ (m.length > 0 /\ m.null)

Refuses(m) ==
    \/ channel = "SQS" /\ SqsRefuses(m)
    \/ channel = "Pub/Sub" /\ PubSubRefuses(m)
    \/ channel = "RabbitMQ" /\ RabbitMqRefuses(m)
    \/ channel = "ServiceBus" /\ ServiceBusRefuses(m)
    \/ channel = "Kafka" /\ KafkaRefuses(m)

\* Mistake: one of the five copies of the check is missing.
RejectNothing(reply) == IF reply = "255 error" /\ channel # "Kafka" THEN Thrown ELSE reply

RejectGatewayErrorPayload(reply) == IF reply = "255 error" THEN Thrown ELSE reply

-----------------------------------------------------------------------------

Malloc == (Buffers \ live) \cup {Null}

\* The catch clauses: the exception's text is copied, if there is memory.
Fail(t, outcome) ==
    \E b \in Malloc :
        /\ answers' = [answers EXCEPT ![t] =
               [code |-> "error", buffer |-> b,
                bytes |-> IF b = Null THEN "none" ELSE "error text"]]
        /\ live' = live \cup ({b} \ {Null})
        /\ calls' = [calls EXCEPT ![t] = [at |-> "host", outcome |-> outcome]]

Succeed(t, reply) ==
    \E b \in Malloc \ {Null} :
        /\ answers' = [answers EXCEPT ![t] = [code |-> "ok", buffer |-> b, bytes |-> reply]]
        /\ live' = live \cup {b}
        /\ calls' = [calls EXCEPT ![t] = [at |-> "host", outcome |-> reply]]

-----------------------------------------------------------------------------
(* The exported functions                                                  *)

\* Mistake: the message is copied whether or not anybody asked for it.
CreateTransportAlwaysCopies(plugin, wantsMessage) ==
    /\ channel = Null /\ message = Null
    /\ \/ /\ channel' = plugin
          /\ UNCHANGED <<message, live>>
       \/ /\ \E b \in Malloc :
                 /\ message' = IF wantsMessage THEN b ELSE Null
                 /\ live' = live \cup ({b} \ {Null})
          /\ UNCHANGED channel
    /\ UNCHANGED <<calls, answers>>

\* errorMessage may be null, and the message's copy may fail.
CreateTransport(plugin, wantsMessage) ==
    /\ channel = Null /\ message = Null
    /\ \/ /\ channel' = plugin
          /\ UNCHANGED <<message, live>>
       \/ /\ \E b \in IF wantsMessage THEN Malloc ELSE {Null} :
                 /\ message' = b
                 /\ live' = live \cup ({b} \ {Null})
          /\ UNCHANGED channel
    /\ UNCHANGED <<calls, answers>>

DestroyTransport ==
    /\ channel # Null
    /\ \A t \in Threads : calls[t].at = "host"
    /\ channel' = Null
    /\ UNCHANGED <<message, calls, answers, live>>

\* Without places for the answer nothing happens at all.
SendCommandToNowhere(t) ==
    /\ calls[t].at = "host" /\ answers[t].buffer = Null
    /\ answers' = [answers EXCEPT ![t] = [NoAnswer EXCEPT !.code = "error"]]
    /\ calls' = [calls EXCEPT ![t] = [at |-> "host", outcome |-> "refused"]]
    /\ UNCHANGED <<channel, message, live>>

\* The outputs are cleared before anything can fail; the host has freed what
\* they held.  The channel may be null.
SendCommand(t, m) ==
    /\ calls[t].at = "host" /\ answers[t].buffer = Null
    /\ IF channel = Null \/ Refuses(m)
       THEN Fail(t, "refused")
       ELSE /\ calls' = [calls EXCEPT ![t] = [at |-> "client", outcome |-> "none"]]
            /\ answers' = [answers EXCEPT ![t] = NoAnswer]
            /\ UNCHANGED live
    /\ UNCHANGED <<channel, message>>

\* The client's call is over.  A reply for which there is no memory fails too.
SendCommandReturns(t, reply) ==
    /\ calls[t].at = "client"
    /\ LET result == RejectGatewayErrorPayload(reply)
       IN  IF result = Thrown
           THEN Fail(t, reply)
           ELSE Succeed(t, result) \/ Fail(t, "no memory")
    /\ UNCHANGED <<channel, message>>

FreeAnswer(t) ==
    /\ calls[t].at = "host" /\ answers[t].buffer # Null
    /\ live' = live \ {answers[t].buffer}
    /\ answers' = [answers EXCEPT ![t] = NoAnswer]
    /\ calls' = [calls EXCEPT ![t] = Outside]
    /\ UNCHANGED <<channel, message>>

FreeMessage ==
    /\ message # Null
    /\ live' = live \ {message}
    /\ message' = Null
    /\ UNCHANGED <<channel, calls, answers>>

AbiInit ==
    /\ channel = Null
    /\ message = Null
    /\ calls = [t \in Threads |-> Outside]
    /\ answers = [t \in Threads |-> NoAnswer]
    /\ live = {}

AbiNext ==
    \/ \E p \in Plugins, wantsMessage \in BOOLEAN : CreateTransport(p, wantsMessage)
    \/ DestroyTransport
    \/ FreeMessage
    \/ \E t \in Threads :
           \/ SendCommandToNowhere(t)
           \/ FreeAnswer(t)
           \/ \E m \in Messages : SendCommand(t, m)
           \/ \E reply \in Replies \cup {Thrown} : SendCommandReturns(t, reply)

AbiSpec == AbiInit /\ [][AbiNext]_abiVars

-----------------------------------------------------------------------------

\* TransportPluginAbi.h: "Every buffer returned by the plugin is allocated by
\* the plugin and released with TransportFreeBuffer".  On every path, those of
\* failed allocations and null arguments included, the buffers that live are
\* the ones the host knows of, and no two answers share one.
HostHoldsWhatLives ==
    /\ live = ({message} \cup {answers[t].buffer : t \in Threads}) \ {Null}
    /\ \A t \in Threads : answers[t].buffer # Null =>
           /\ answers[t].buffer # message
           /\ \A u \in Threads \ {t} : answers[u].buffer # answers[t].buffer

\* "On TRANSPORT_PLUGIN_OK, *response and *responseLen hold the response.
\* Otherwise they hold an error message": the host is told success exactly when
\* the plugin's client has brought back a reply that is no gateway error.
SuccessMeansReply ==
    \A t \in Threads :
        /\ answers[t].code = "ok" => /\ calls[t].outcome \in {"empty", "payload"}
                                     /\ answers[t].bytes = calls[t].outcome
        /\ answers[t].code = "error" => answers[t].bytes \in {"none", "error text"}
=============================================================================
