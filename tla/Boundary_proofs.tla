--------------------------- MODULE Boundary_proofs --------------------------
(***************************************************************************)
(* What meets the host and the cloud.  For any number of threads and       *)
(* whatever memory there is, no path through the exported functions leaks  *)
(* a buffer, hands one out twice, or reports an error as a reply.          *)
(* Whatever calls are nested and whatever completions fail, the context    *)
(* holds the innermost call's span, the headers name the innermost call    *)
(* that was injected, and calls within a call are in its trace.  The       *)
(* margins of the token cache are enough for every life a server may give  *)
(* a token, though the two exchanges count from different moments.  The    *)
(* halves of a plugin read any object alike, and a search of any document  *)
(* of documented objects ends at its own plugin's.  Whatever the bytes of  *)
(* a payload, what the two codings make of it is decoded to the same.      *)
(***************************************************************************)
EXTENDS TransportAbi, CallSpan, PubSubToken, PluginConfig, ConfigSearch,
        PayloadText, SequenceTheorems, TLAPS

(***************************************************************************)
(* The C ABI                                                               *)
(***************************************************************************)

Answers == [code : {"none", "ok", "error"}, buffer : Buffers \cup {Null},
            bytes : {"none", "empty", "payload", "error text"}]

AbiCalls == [at : {"host", "client"},
          outcome : Replies \cup {Thrown, "none", "refused", "no memory"}]

\* The state has its type, and a call that is inside holds no buffer: the host
\* has freed the last answer, and the outputs were cleared.
AbiType ==
    /\ message \in Buffers \cup {Null}
    /\ calls \in [Threads -> AbiCalls]
    /\ answers \in [Threads -> Answers]
    /\ live \subseteq Buffers \cup {Null}
    /\ \A t \in Threads : calls[t].at = "client" => answers[t].buffer = Null

AbiInv == AbiType /\ HostHoldsWhatLives /\ SuccessMeansReply

\* An answer with a buffer of its own replaces one without: what the host holds
\* grows by just that buffer.
LEMMA NewAnswer ==
    ASSUME AbiInv, NEW t \in Threads, NEW answer \in Answers, NEW call \in AbiCalls,
           answers[t].buffer = Null,
           answer.buffer = Null \/ answer.buffer \in Buffers \ live,
           call.at = "client" => answer.buffer = Null,
           answer.code = "ok" => call.outcome \in {"empty", "payload"}
                                     /\ answer.bytes = call.outcome,
           answer.code = "error" => answer.bytes \in {"none", "error text"},
           answers' = [answers EXCEPT ![t] = answer],
           calls' = [calls EXCEPT ![t] = call],
           live' = live \cup ({answer.buffer} \ {Null}),
           UNCHANGED message
    PROVE  AbiInv'
<1>1. /\ answers'[t] = answer
      /\ calls'[t] = call
      /\ \A u \in Threads \ {t} : answers'[u] = answers[u] /\ calls'[u] = calls[u]
  BY DEF AbiInv, AbiType
<1>2. AbiType'
  BY <1>1 DEF AbiInv, AbiType, Answers
<1>3. HostHoldsWhatLives'
  <2> DEFINE HandedOut == {answers[u].buffer : u \in Threads}
  <2>1. HandedOut' \ {Null} = (HandedOut \cup {answer.buffer}) \ {Null}
    <3>1. ASSUME NEW b \in HandedOut', b # Null
          PROVE  b \in HandedOut \cup {answer.buffer}
      <4>1. PICK u \in Threads : b = answers'[u].buffer
        OBVIOUS
      <4>2. CASE u = t
        BY <1>1, <4>1, <4>2
      <4>3. CASE u # t
        BY <1>1, <4>1, <4>3
      <4> QED
        BY <4>2, <4>3
    <3>2. answer.buffer \in HandedOut'
      BY <1>1
    <3>3. ASSUME NEW b \in HandedOut, b # Null
          PROVE  b \in HandedOut'
      <4>1. PICK u \in Threads : b = answers[u].buffer
        OBVIOUS
      <4>2. u # t
        BY <3>3, <4>1
      <4>3. b = answers'[u].buffer
        BY <1>1, <4>1, <4>2
      <4> QED
        BY <4>3
    <3> HIDE DEF HandedOut
    <3> QED
      BY <3>1, <3>2, <3>3
  <2>2. live = ({message} \cup HandedOut) \ {Null}
    BY DEF AbiInv, HostHoldsWhatLives
  <2>3. live' = ({message'} \cup HandedOut') \ {Null}
    <3> HIDE DEF HandedOut
    <3> QED
      BY <2>1, <2>2
  <2>4. answer.buffer # Null =>
            /\ answer.buffer # message
            /\ \A u \in Threads : answers[u].buffer # answer.buffer
    BY <2>2
  <2>5. \A u \in Threads : answers[u].buffer # Null =>
            /\ answers[u].buffer # message
            /\ \A v \in Threads \ {u} : answers[v].buffer # answers[u].buffer
    BY DEF AbiInv, HostHoldsWhatLives
  <2>6. ASSUME NEW u \in Threads, answers'[u].buffer # Null
        PROVE  /\ answers'[u].buffer # message'
               /\ \A v \in Threads \ {u} : answers'[v].buffer # answers'[u].buffer
    <3> HIDE DEF HandedOut
    <3> message' = message
      OBVIOUS
    <3>1. CASE u = t
      <4>1. answers'[u] = answer /\ answer.buffer # Null
        BY <1>1, <2>6, <3>1
      <4>2. ASSUME NEW v \in Threads \ {u}
            PROVE  answers'[v].buffer # answers'[u].buffer
        <5>1. answers'[v] = answers[v]
          BY <1>1, <3>1
        <5> QED
          BY <2>4, <4>1, <5>1
      <4> QED
        BY <2>4, <4>1, <4>2
    <3>2. CASE u # t
      <4>1. answers'[u] = answers[u] /\ answers[u].buffer # Null
        BY <1>1, <2>6, <3>2
      <4>2. ASSUME NEW v \in Threads \ {u}
            PROVE  answers'[v].buffer # answers'[u].buffer
        <5>1. CASE v = t
          <6>1. answers'[v] = answer
            BY <1>1, <5>1
          <6> QED
            BY <2>4, <4>1, <6>1
        <5>2. CASE v # t
          <6>1. answers'[v] = answers[v]
            BY <1>1, <5>2
          <6> QED
            BY <2>5, <4>1, <6>1
        <5> QED
          BY <5>1, <5>2
      <4> QED
        BY <2>5, <4>1, <4>2
    <3> QED
      BY <3>1, <3>2
  <2> QED
    BY <2>3, <2>6 DEF HostHoldsWhatLives
<1>4. SuccessMeansReply'
  <2> SUFFICES ASSUME NEW u \in Threads
               PROVE  /\ answers'[u].code = "ok" =>
                             /\ calls'[u].outcome \in {"empty", "payload"}
                             /\ answers'[u].bytes = calls'[u].outcome
                      /\ answers'[u].code = "error" =>
                             answers'[u].bytes \in {"none", "error text"}
    BY DEF SuccessMeansReply
  <2>1. CASE u = t
    BY <1>1, <2>1
  <2>2. CASE u # t
    BY <1>1, <2>2 DEF AbiInv, SuccessMeansReply
  <2> QED
    BY <2>1, <2>2
<1> QED
  BY <1>2, <1>3, <1>4 DEF AbiInv

\* A failing call leaves an error's text, or nothing when memory is short.
LEMMA FailKeeps ==
    ASSUME AbiInv, NEW t \in Threads,
           NEW outcome \in Replies \cup {Thrown, "refused", "no memory"},
           answers[t].buffer = Null, Fail(t, outcome), UNCHANGED message
    PROVE  AbiInv'
<1>1. PICK b \in Malloc :
          /\ answers' = [answers EXCEPT ![t] =
                 [code |-> "error", buffer |-> b,
                  bytes |-> IF b = Null THEN "none" ELSE "error text"]]
          /\ live' = live \cup ({b} \ {Null})
          /\ calls' = [calls EXCEPT ![t] = [at |-> "host", outcome |-> outcome]]
  BY DEF Fail
<1> DEFINE answer == [code |-> "error", buffer |-> b,
                      bytes |-> IF b = Null THEN "none" ELSE "error text"]
           call == [at |-> "host", outcome |-> outcome]
<1>2. answer \in Answers /\ (answer.buffer = Null \/ answer.buffer \in Buffers \ live)
  BY DEF Answers, Malloc
<1>3. call \in AbiCalls
  BY DEF AbiCalls
<1>4. answer.code = "error" /\ answer.bytes \in {"none", "error text"} /\ call.at = "host"
  OBVIOUS
<1>5. live' = live \cup ({answer.buffer} \ {Null})
  BY <1>1
<1> HIDE DEF answer, call
<1>6. answers' = [answers EXCEPT ![t] = answer] /\ calls' = [calls EXCEPT ![t] = call]
  BY <1>1 DEF answer, call
<1> QED
  BY <1>2, <1>3, <1>4, <1>5, <1>6, NewAnswer

LEMMA SucceedKeeps ==
    ASSUME AbiInv, NEW t \in Threads, NEW reply \in {"empty", "payload"},
           answers[t].buffer = Null, Succeed(t, reply), UNCHANGED message
    PROVE  AbiInv'
<1>1. PICK b \in Malloc \ {Null} :
          /\ answers' = [answers EXCEPT ![t] = [code |-> "ok", buffer |-> b, bytes |-> reply]]
          /\ live' = live \cup {b}
          /\ calls' = [calls EXCEPT ![t] = [at |-> "host", outcome |-> reply]]
  BY DEF Succeed
<1> DEFINE answer == [code |-> "ok", buffer |-> b, bytes |-> reply]
           call == [at |-> "host", outcome |-> reply]
<1>2. answer \in Answers /\ answer.buffer \in Buffers \ live
  BY DEF Answers, Malloc
<1>3. call \in AbiCalls
  BY DEF AbiCalls, Replies
<1>4. answer.code = "ok" /\ answer.bytes = call.outcome /\ call.outcome = reply /\ call.at = "host"
  OBVIOUS
<1>5. live' = live \cup ({answer.buffer} \ {Null})
  BY <1>1
<1> HIDE DEF answer, call
<1>6. answers' = [answers EXCEPT ![t] = answer] /\ calls' = [calls EXCEPT ![t] = call]
  BY <1>1 DEF answer, call
<1> QED
  BY <1>2, <1>3, <1>4, <1>5, <1>6, NewAnswer

\* An answer without a buffer of its own: the call enters, or has no place to
\* put an answer.
LEMMA NoBufferKeeps ==
    ASSUME AbiInv, NEW t \in Threads, NEW answer \in Answers, NEW call \in AbiCalls,
           answers[t].buffer = Null, answer.buffer = Null, answer.code # "ok",
           answer.bytes = "none",
           answers' = [answers EXCEPT ![t] = answer],
           calls' = [calls EXCEPT ![t] = call],
           UNCHANGED <<live, message>>
    PROVE  AbiInv'
<1>1. live' = live \cup ({answer.buffer} \ {Null})
  OBVIOUS
<1> QED
  BY <1>1, NewAnswer

-----------------------------------------------------------------------------

LEMMA AbiStep == AbiInv /\ [AbiNext]_abiVars => AbiInv'
<1> SUFFICES ASSUME AbiInv, [AbiNext]_abiVars
             PROVE  AbiInv'
  OBVIOUS
<1>1. ASSUME NEW p \in Plugins, NEW wantsMessage \in BOOLEAN,
             CreateTransport(p, wantsMessage)
      PROVE  AbiInv'
  <2>1. CASE UNCHANGED <<message, live, calls, answers>>
    BY <2>1 DEF AbiInv, AbiType, HostHoldsWhatLives, SuccessMeansReply
  <2>2. ASSUME NEW b \in Malloc, message = Null, message' = b,
               live' = live \cup ({b} \ {Null}), UNCHANGED <<calls, answers>>
        PROVE  AbiInv'
    <3>1. AbiType'
      BY <2>2 DEF AbiInv, AbiType, Malloc
    <3>2. HostHoldsWhatLives'
      BY <2>2 DEF AbiInv, HostHoldsWhatLives, Malloc
    <3>3. SuccessMeansReply'
      BY <2>2 DEF AbiInv, SuccessMeansReply
    <3> QED
      BY <3>1, <3>2, <3>3 DEF AbiInv
  <2>3. Null \in Malloc
    BY DEF Malloc
  <2> QED
    BY <1>1, <2>1, <2>2, <2>3 DEF CreateTransport
<1>2. CASE DestroyTransport
  BY <1>2 DEF DestroyTransport, AbiInv, AbiType, HostHoldsWhatLives, SuccessMeansReply
<1>3. CASE FreeMessage
  <2>1. /\ message # Null /\ message' = Null /\ live' = live \ {message}
        /\ UNCHANGED <<calls, answers>>
    BY <1>3 DEF FreeMessage
  <2>2. AbiType'
    BY <2>1 DEF AbiInv, AbiType
  <2>3. HostHoldsWhatLives'
    BY <2>1 DEF AbiInv, HostHoldsWhatLives
  <2>4. SuccessMeansReply'
    BY <2>1 DEF AbiInv, SuccessMeansReply
  <2> QED
    BY <2>2, <2>3, <2>4 DEF AbiInv
<1>4. ASSUME NEW t \in Threads, SendCommandToNowhere(t)
      PROVE  AbiInv'
  <2> DEFINE answer == [NoAnswer EXCEPT !.code = "error"]
             call == [at |-> "host", outcome |-> "refused"]
  <2>1. answer \in Answers /\ answer.buffer = Null /\ answer.code # "ok" /\ answer.bytes = "none"
    BY DEF Answers, NoAnswer
  <2>2. call \in AbiCalls
    BY DEF AbiCalls
  <2>3. /\ answers' = [answers EXCEPT ![t] = answer]
        /\ calls' = [calls EXCEPT ![t] = call]
        /\ answers[t].buffer = Null
        /\ UNCHANGED <<live, message>>
    BY <1>4 DEF SendCommandToNowhere
  <2> HIDE DEF answer, call
  <2> QED
    BY <2>1, <2>2, <2>3, NoBufferKeeps
<1>5. ASSUME NEW t \in Threads, NEW m \in Messages, SendCommand(t, m)
      PROVE  AbiInv'
  <2>1. CASE Fail(t, "refused")
    BY <1>5, <2>1, FailKeeps DEF SendCommand
  <2>2. CASE ~Fail(t, "refused")
    <3> DEFINE call == [at |-> "client", outcome |-> "none"]
    <3>1. NoAnswer \in Answers /\ NoAnswer.buffer = Null /\ NoAnswer.code # "ok"
              /\ NoAnswer.bytes = "none"
      BY DEF Answers, NoAnswer
    <3>2. call \in AbiCalls
      BY DEF AbiCalls
    <3>3. /\ answers' = [answers EXCEPT ![t] = NoAnswer]
          /\ calls' = [calls EXCEPT ![t] = call]
          /\ answers[t].buffer = Null
          /\ UNCHANGED <<live, message>>
      BY <1>5, <2>2 DEF SendCommand
    <3> HIDE DEF call
    <3> QED
      BY <3>1, <3>2, <3>3, NoBufferKeeps
  <2> QED
    BY <2>1, <2>2
<1>6. ASSUME NEW t \in Threads, NEW reply \in Replies \cup {Thrown},
             SendCommandReturns(t, reply)
      PROVE  AbiInv'
  <2>1. answers[t].buffer = Null /\ UNCHANGED message
    BY <1>6 DEF SendCommandReturns, AbiInv, AbiType
  <2>2. CASE Fail(t, reply) \/ Fail(t, "no memory")
    BY <2>1, <2>2, FailKeeps
  <2>3. CASE ~(Fail(t, reply) \/ Fail(t, "no memory"))
    <3>1. reply \in {"empty", "payload"} /\ Succeed(t, reply)
      BY <1>6, <2>3 DEF SendCommandReturns, RejectGatewayErrorPayload, Replies, Thrown
    <3> QED
      BY <2>1, <3>1, SucceedKeeps
  <2> QED
    BY <2>2, <2>3
<1>7. ASSUME NEW t \in Threads, FreeAnswer(t)
      PROVE  AbiInv'
  <2>1. /\ answers'[t] = NoAnswer /\ calls'[t] = Outside
        /\ \A u \in Threads \ {t} : answers'[u] = answers[u] /\ calls'[u] = calls[u]
        /\ live' = live \ {answers[t].buffer} /\ message' = message
    BY <1>7 DEF FreeAnswer, AbiInv, AbiType
  <2>2. AbiType'
    <3>1. NoAnswer \in Answers /\ Outside \in AbiCalls
      BY DEF NoAnswer, Answers, Outside, AbiCalls
    <3> QED
      BY <1>7, <2>1, <3>1 DEF FreeAnswer, AbiInv, AbiType, NoAnswer
  <2>3. HostHoldsWhatLives'
    <3> DEFINE HandedOut == {answers[u].buffer : u \in Threads}
    <3>1. \A u \in Threads : answers[u].buffer # Null =>
              /\ answers[u].buffer # message
              /\ \A v \in Threads \ {u} : answers[v].buffer # answers[u].buffer
      BY DEF AbiInv, HostHoldsWhatLives
    <3>2. answers[t].buffer # Null
      BY <1>7 DEF FreeAnswer
    <3>3. HandedOut' \ {Null} = (HandedOut \ {answers[t].buffer}) \ {Null}
      BY <2>1, <3>1, <3>2 DEF NoAnswer
    <3>4. live = ({message} \cup HandedOut) \ {Null}
      BY DEF AbiInv, HostHoldsWhatLives
    <3>5. live' = ({message'} \cup HandedOut') \ {Null}
      <4>1. message # answers[t].buffer
        BY <3>1, <3>2
      <4> HIDE DEF HandedOut
      <4> QED
        BY <2>1, <3>3, <3>4, <4>1
    <3>6. ASSUME NEW u \in Threads, answers'[u].buffer # Null
          PROVE  /\ answers'[u].buffer # message'
                 /\ \A v \in Threads \ {u} : answers'[v].buffer # answers'[u].buffer
      BY <2>1, <3>1, <3>6 DEF NoAnswer
    <3> QED
      BY <3>5, <3>6 DEF HostHoldsWhatLives
  <2>4. SuccessMeansReply'
    <3>1. NoAnswer.code = "none"
      BY DEF NoAnswer
    <3>2. "none" # "ok" /\ "none" # "error"
      OBVIOUS
    <3> QED
      BY <2>1, <3>1, <3>2 DEF AbiInv, SuccessMeansReply
  <2> QED
    BY <2>2, <2>3, <2>4 DEF AbiInv
<1>8. CASE UNCHANGED abiVars
  BY <1>8 DEF abiVars, AbiInv, AbiType, HostHoldsWhatLives, SuccessMeansReply
<1> QED
  BY <1>1, <1>2, <1>3, <1>4, <1>5, <1>6, <1>7, <1>8 DEF AbiNext

\* The inductive invariant of the C interface.
THEOREM AbiInvariant == AbiSpec => []AbiInv
<1>1. AbiInit => AbiInv
  <2> SUFFICES ASSUME AbiInit PROVE AbiInv
    OBVIOUS
  <2> USE DEF AbiInit
  <2>1. NoAnswer \in Answers /\ Outside \in AbiCalls
    BY DEF NoAnswer, Answers, Outside, AbiCalls
  <2>2. NoAnswer.buffer = Null /\ NoAnswer.code \notin {"ok", "error"}
    BY DEF NoAnswer
  <2>3. AbiType
    BY <2>1, <2>2 DEF AbiType
  <2>4. HostHoldsWhatLives
    BY <2>2 DEF HostHoldsWhatLives
  <2>5. SuccessMeansReply
    BY <2>2 DEF SuccessMeansReply
  <2> QED
    BY <2>3, <2>4, <2>5 DEF AbiInv
<1> QED
  BY <1>1, AbiStep, PTL DEF AbiSpec

\* TransportAbi.tla: no buffer leaks, and none is handed out twice.
THEOREM HostFreesEverything == AbiSpec => []HostHoldsWhatLives
<1>1. AbiInv => HostHoldsWhatLives
  BY DEF AbiInv
<1> QED
  BY <1>1, AbiInvariant, PTL

\* TransportAbi.tla: TRANSPORT_PLUGIN_OK stands for a reply.
THEOREM OkMeansReply == AbiSpec => []SuccessMeansReply
<1>1. AbiInv => SuccessMeansReply
  BY DEF AbiInv
<1> QED
  BY <1>1, AbiInvariant, PTL

(***************************************************************************)
(* The spans of nested calls.  A completion puts back what its call has    *)
(* kept.  So each call must have kept what was right for the calls around  *)
(* it, even while the thread's own headers are wrong because a completion  *)
(* raised: the invariant says of every injected call what the properties   *)
(* say of the thread.                                                      *)
(***************************************************************************)

Spans == Nat \cup {Remote, NoSpan}

Headers == [traceparent : Spans, traceid : Spans]

Calls == [kind : {"invoke", "handle"}, span : Nat, before : Spans,
          injected : BOOLEAN, previous : Headers, stale : BOOLEAN]

\* What a context or a traceparent may name.
Started == (1 .. Len(traces)) \cup {Remote, NoSpan}

SpanType ==
    /\ own \in Given /\ set \in Given
    /\ local \in Headers /\ local.traceparent \in Started
    /\ current \in Started
    /\ nested \in Seq(Calls)
    /\ traces \in Seq(Spans)
    /\ stale \in BOOLEAN /\ autoInject \in BOOLEAN
    /\ \A i \in 1 .. Len(nested) :
           /\ nested[i].span \in 1 .. Len(traces)
           /\ nested[i].before \in Started
           /\ nested[i].previous.traceparent \in Started

\* The context is the innermost call's, and each call keeps that of the call
\* around it.
ContextKept ==
    /\ current = IF Len(nested) = 0 THEN NoSpan ELSE nested[Len(nested)].span
    /\ \A i \in 1 .. Len(nested) :
           nested[i].before = IF i = 1 THEN NoSpan ELSE nested[i - 1].span

\* The headers name the innermost of the first m calls that was injected, or
\* are those given.
Named(headers, m, within, given) ==
    \/ /\ \A i \in 1 .. m : ~within[i].injected
       /\ headers = given
    \/ \E i \in 1 .. m :
           /\ within[i].injected
           /\ \A j \in 1 .. m : j > i => ~within[j].injected
           /\ headers.traceparent = within[i].span

HeadersKept ==
    /\ stale \/ Named(local, Len(nested), nested, set)
    /\ \A k \in 1 .. Len(nested) :
           nested[k].injected =>
               nested[k].stale \/ Named(nested[k].previous, k - 1, nested, set)

\* The first m calls are in one trace, which an outermost invoke began.
OneTrace(m, within, trace) ==
    /\ \A i \in 1 .. m : trace[within[i].span] = trace[within[1].span]
    /\ m > 0 /\ within[1].kind = "invoke" => trace[within[1].span] = within[1].span

\* Calls within stale headers may be in another trace, but they have ended when
\* the headers from before are back.
TracesKept ==
    own = NoHeaders /\ set = NoHeaders =>
        /\ ~stale => OneTrace(Len(nested), nested, traces)
        /\ \A k \in 1 .. Len(nested) :
               nested[k].injected /\ ~nested[k].stale => OneTrace(k - 1, nested, traces)

\* A traceparent of the connection's own is never injected over.
OwnKept ==
    own.traceparent = Remote /\ set.traceparent = NoSpan =>
        /\ local = set /\ ~stale
        /\ \A k \in 1 .. Len(nested) : ~nested[k].injected

SpanInv == SpanType /\ ContextKept /\ HeadersKept /\ TracesKept /\ OwnKept

(***************************************************************************)
(* What the steps do                                                       *)
(***************************************************************************)

\* The headers an invoke goes out with.
LEMMA HeadersSent ==
    ASSUME SpanType
    PROVE  /\ get_headers \in Headers
           /\ get_headers.traceparent \in Started
           /\ get_headers.traceparent =
                  IF local.traceparent # NoSpan THEN local.traceparent ELSE own.traceparent
           /\ own = NoHeaders => get_headers = local
<1> DEFINE parent == IF local.traceparent # NoSpan THEN local.traceparent ELSE own.traceparent
           id == IF local.traceid # NoSpan THEN local.traceid ELSE own.traceid
<1>1. get_headers = [traceparent |-> parent, traceid |-> id]
  BY DEF get_headers, NoHeaders
<1>2. /\ own \in Headers /\ own.traceparent \in {Remote, NoSpan}
      /\ local \in Headers
  BY DEF SpanType, Given, NoHeaders, Headers, Spans
<1>3. parent \in Spans /\ id \in Spans
  BY <1>2 DEF Headers
<1>4. get_headers.traceparent = parent /\ get_headers.traceid = id
  BY <1>1
<1>5. parent \in Started
  BY <1>2 DEF SpanType, Started
<1>6. ASSUME own = NoHeaders PROVE get_headers = local
  <2>1. parent = local.traceparent /\ id = local.traceid
    BY <1>6 DEF NoHeaders
  <2>2. local = [traceparent |-> local.traceparent, traceid |-> local.traceid]
    BY <1>2 DEF Headers
  <2> QED
    BY <1>1, <2>1, <2>2
<1>7. get_headers \in Headers
  BY <1>1, <1>3 DEF Headers
<1> QED
  BY <1>4, <1>5, <1>6, <1>7

\* _start's three ways to a trace.
LEMMA WhichTrace ==
    ASSUME NEW headers \in Headers
    PROVE  /\ headers.traceparent # NoSpan =>
                  TraceOfNew(headers) = TraceOf(headers.traceparent)
           /\ headers.traceparent = NoSpan /\ headers.traceid # NoSpan =>
                  TraceOfNew(headers) = headers.traceid
           /\ headers = NoHeaders =>
                  TraceOfNew(headers) = IF current # NoSpan THEN TraceOf(current) ELSE New
<1>1. headers = NoHeaders <=> headers.traceparent = NoSpan /\ headers.traceid = NoSpan
  BY DEF NoHeaders, Headers
<1>2. CASE headers.traceparent # NoSpan
  BY <1>1, <1>2 DEF TraceOfNew
<1>3. CASE headers.traceparent = NoSpan /\ headers.traceid # NoSpan
  BY <1>1, <1>3 DEF TraceOfNew
<1>4. CASE headers = NoHeaders
  BY <1>1, <1>4 DEF TraceOfNew
<1> QED
  BY <1>1, <1>2, <1>3, <1>4

\* A span's trace is one of the traces there are, or its own.
LEMMA TraceIsSpan ==
    ASSUME SpanType, NEW headers \in Headers, headers.traceparent \in Started
    PROVE  TraceOfNew(headers) \in Spans
<1>1. ASSUME NEW span \in Started PROVE TraceOf(span) \in Spans
  <2>1. CASE span \in {Remote, NoSpan}
    BY <2>1 DEF TraceOf, Spans
  <2>2. CASE span \notin {Remote, NoSpan}
    <3>1. span \in 1 .. Len(traces)
      BY <2>2, <1>1 DEF Started
    <3> QED
      BY <2>2, <3>1, ElementOfSeq DEF TraceOf, SpanType
  <2> QED
    BY <2>1, <2>2
<1>2. Len(traces) \in Nat
  BY LenProperties DEF SpanType
<1>3. New \in Spans
  BY <1>2 DEF New, Spans
<1>4. CASE headers.traceparent # NoSpan
  BY <1>1, <1>4, WhichTrace
<1>5. CASE headers.traceparent = NoSpan /\ headers.traceid # NoSpan
  BY <1>5, WhichTrace DEF Headers
<1>6. CASE headers.traceparent = NoSpan /\ headers.traceid = NoSpan
  <2>1. headers = NoHeaders
    BY <1>6 DEF Headers, NoHeaders
  <2>2. TraceOfNew(headers) = IF current # NoSpan THEN TraceOf(current) ELSE New
    BY <2>1, WhichTrace
  <2> QED
    BY <2>2, <1>1, <1>3 DEF SpanType
<1> QED
  BY <1>4, <1>5, <1>6

\* A call that starts is the innermost, with the next span; those around it
\* and their traces stay.
LEMMA Opened ==
    ASSUME SpanType, NEW headers \in Headers, headers.traceparent \in Started,
           NEW kind \in {"invoke", "handle"}, NEW injected \in BOOLEAN,
           Open(kind, headers, injected)
    PROVE  /\ SpanType'
           /\ Len(nested) \in Nat /\ Len(nested') = Len(nested) + 1
           /\ \A i \in 1 .. Len(nested) : nested'[i] = nested[i]
           /\ nested'[Len(nested) + 1] =
                  [kind |-> kind, span |-> Len(traces) + 1, before |-> current,
                   injected |-> injected, previous |-> local, stale |-> stale]
           /\ Len(traces) \in Nat /\ Len(traces') = Len(traces) + 1
           /\ \A i \in 1 .. Len(traces) : traces'[i] = traces[i]
           /\ traces'[Len(traces) + 1] = TraceOfNew(headers)
<1> DEFINE call == [kind |-> kind, span |-> Len(traces) + 1, before |-> current,
                    injected |-> injected, previous |-> local, stale |-> stale]
<1>1. Len(traces) \in Nat /\ Len(nested) \in Nat
  BY LenProperties DEF SpanType
<1>2. TraceOfNew(headers) \in Spans
  BY TraceIsSpan
<1>3. current \in Spans
  BY <1>1 DEF SpanType, Started, Spans
<1>4. call \in Calls
  BY <1>1, <1>3 DEF SpanType, Calls
<1>5. nested' = Append(nested, call)
  BY DEF Open, New
<1>6. /\ nested' \in Seq(Calls)
      /\ Len(nested') = Len(nested) + 1
      /\ \A i \in 1 .. Len(nested) : nested'[i] = nested[i]
      /\ nested'[Len(nested) + 1] = call
  <2>1. nested \in Seq(Calls)
    BY DEF SpanType
  <2> HIDE DEF call
  <2> QED
    BY <1>4, <1>5, <2>1, AppendProperties
<1>7. /\ traces' \in Seq(Spans)
      /\ Len(traces') = Len(traces) + 1
      /\ \A i \in 1 .. Len(traces) : traces'[i] = traces[i]
      /\ traces'[Len(traces) + 1] = TraceOfNew(headers)
  <2>1. traces \in Seq(Spans) /\ traces' = Append(traces, TraceOfNew(headers))
    BY DEF SpanType, Open
  <2> QED
    BY <1>2, <2>1, AppendProperties
<1>8. Started \subseteq Started' /\ Len(traces) + 1 \in Started'
  BY <1>1, <1>7 DEF Started
<1>9. local' \in Headers /\ local'.traceparent \in Started'
  <2>1. CASE injected
    <3>1. local' = [traceparent |-> Len(traces) + 1, traceid |-> TraceOfNew(headers)]
      BY <2>1 DEF Open, New
    <3>2. Len(traces) + 1 \in Spans
      BY <1>1 DEF Spans
    <3> QED
      BY <3>1, <3>2, <1>2, <1>8 DEF Headers
  <2>2. CASE ~injected
    BY <2>2, <1>8 DEF Open, SpanType
  <2> QED
    BY <2>1, <2>2
<1>10. \A i \in 1 .. Len(nested') :
           /\ nested'[i].span \in 1 .. Len(traces')
           /\ nested'[i].before \in Started'
           /\ nested'[i].previous.traceparent \in Started'
  <2> SUFFICES ASSUME NEW i \in 1 .. Len(nested')
               PROVE  /\ nested'[i].span \in 1 .. Len(traces')
                      /\ nested'[i].before \in Started'
                      /\ nested'[i].previous.traceparent \in Started'
    OBVIOUS
  <2>1. CASE i \in 1 .. Len(nested)
    BY <2>1, <1>1, <1>6, <1>7, <1>8 DEF SpanType
  <2>2. CASE i = Len(nested) + 1
    <3>1. /\ nested'[i].span = Len(traces) + 1
          /\ nested'[i].before = current
          /\ nested'[i].previous = local
      BY <2>2, <1>6
    <3> QED
      BY <3>1, <1>1, <1>7, <1>8 DEF SpanType
  <2> QED
    BY <2>1, <2>2, <1>1, <1>6
<1>11. current' \in Started'
  BY <1>8 DEF Open, New
<1>12. SpanType'
  BY <1>6, <1>7, <1>9, <1>10, <1>11 DEF SpanType, Open
<1> QED
  BY <1>1, <1>6, <1>7, <1>12

\* A call that completes was the innermost; those around it stay.
LEMMA Closed ==
    ASSUME SpanType, Close
    PROVE  /\ Len(nested) \in Nat \ {0} /\ Len(nested') = Len(nested) - 1
           /\ nested' \in Seq(Calls)
           /\ \A i \in 1 .. Len(nested') : nested'[i] = nested[i]
           /\ Last(nested) = nested[Len(nested)]
           /\ Last(nested) \in Calls
<1>1. Len(nested) \in Nat \ {0}
  BY EmptySeq DEF SpanType, Close
<1>2. \A i \in 1 .. Len(nested) : nested[i] \in Calls
  BY ElementOfSeq DEF SpanType
<1>3. nested' = SubSeq(nested, 1, Len(nested) - 1)
  BY DEF Close, Front
<1>4. /\ nested' \in Seq(Calls)
      /\ Len(nested') = Len(nested) - 1
      /\ \A i \in 1 .. Len(nested) - 1 : nested'[i] = nested[i]
  <2>1. /\ 1 \in Int /\ Len(nested) - 1 \in Int
        /\ \A i \in 1 .. Len(nested) - 1 : nested[i] \in Calls
    BY <1>1, <1>2
  <2> DEFINE m == Len(nested) - 1
  <2> HIDE DEF m
  <2>2. /\ SubSeq(nested, 1, m) \in Seq(Calls)
        /\ Len(SubSeq(nested, 1, m)) = IF 1 <= m THEN m - 1 + 1 ELSE 0
        /\ \A i \in 1 .. m - 1 + 1 : SubSeq(nested, 1, m)[i] = nested[1 + i - 1]
    BY <2>1, SubSeqProperties DEF m
  <2>3. m \in Nat
    BY <1>1 DEF m
  <2>4. /\ Len(SubSeq(nested, 1, m)) = m
        /\ \A i \in 1 .. m : SubSeq(nested, 1, m)[i] = nested[i]
    BY <2>2, <2>3
  <2>5. m = Len(nested) - 1
    BY DEF m
  <2> QED
    BY <1>3, <2>2, <2>4, <2>5
<1>5. Last(nested) = nested[Len(nested)]
  BY DEF Last
<1> QED
  BY <1>1, <1>2, <1>4, <1>5

(***************************************************************************)
(* Each step keeps the invariant                                           *)
(***************************************************************************)

\* Whom the headers name depends on the first m calls alone.
LEMMA NamedAlike ==
    ASSUME NEW m \in Nat, NEW c, NEW d, \A i \in 1 .. m : c[i] = d[i],
           NEW headers, NEW given, Named(headers, m, c, given)
    PROVE  Named(headers, m, d, given)
BY DEF Named

\* So does whether they are in one trace.
LEMMA OneTraceAlike ==
    ASSUME NEW m \in Nat, NEW c, NEW d, NEW t, NEW u,
           \A i \in 1 .. m : c[i] = d[i] /\ t[c[i].span] = u[c[i].span],
           OneTrace(m, c, t)
    PROVE  OneTrace(m, d, u)
<1>1. ASSUME NEW i \in 1 .. m PROVE u[d[i].span] = u[d[1].span]
  <2>1. 1 \in 1 .. m
    OBVIOUS
  <2>2. u[d[i].span] = t[c[i].span] /\ u[d[1].span] = t[c[1].span]
    BY <2>1
  <2> QED
    BY <2>2 DEF OneTrace
<1>2. ASSUME m > 0, d[1].kind = "invoke" PROVE u[d[1].span] = d[1].span
  <2>1. 1 \in 1 .. m
    BY <1>2
  <2>2. c[1] = d[1] /\ t[c[1].span] = u[c[1].span]
    BY <2>1
  <2>3. t[c[1].span] = c[1].span
    BY <1>2, <2>2 DEF OneTrace
  <2> QED
    BY <2>2, <2>3
<1> QED
  BY <1>1, <1>2 DEF OneTrace

\* A call may start whose trace is that of the calls around it, and which is
\* not injected over a traceparent of the connection's.
LEMMA OpenKeeps ==
    ASSUME SpanInv, NEW headers \in Headers, headers.traceparent \in Started,
           NEW kind \in {"invoke", "handle"}, NEW injected \in BOOLEAN,
           Open(kind, headers, injected),
           injected => ~(own.traceparent = Remote /\ set.traceparent = NoSpan),
           own = NoHeaders /\ set = NoHeaders /\ ~stale =>
               /\ Len(nested) > 0 => TraceOfNew(headers) = traces[nested[1].span]
               /\ Len(nested) = 0 /\ kind = "invoke" =>
                      TraceOfNew(headers) = Len(traces) + 1
    PROVE  SpanInv'
<1> DEFINE n == Len(nested)
           call == nested'[n + 1]
<1>1. /\ SpanType'
      /\ n \in Nat /\ Len(nested') = n + 1
      /\ \A i \in 1 .. n : nested'[i] = nested[i]
      /\ Len(traces) \in Nat /\ Len(traces') = Len(traces) + 1
      /\ \A i \in 1 .. Len(traces) : traces'[i] = traces[i]
      /\ traces'[Len(traces) + 1] = TraceOfNew(headers)
  BY Opened DEF SpanInv
<1>2. call = [kind |-> kind, span |-> Len(traces) + 1, before |-> current,
              injected |-> injected, previous |-> local, stale |-> stale]
  BY Opened DEF SpanInv
<1>3. /\ call.kind = kind /\ call.span = Len(traces) + 1 /\ call.before = current
      /\ call.injected = injected /\ call.previous = local /\ call.stale = stale
  BY <1>2
<1>4. /\ current' = Len(traces) + 1
      /\ own' = own /\ set' = set /\ stale' = stale
      /\ injected => local'.traceparent = Len(traces) + 1
      /\ ~injected => local' = local
  BY DEF Open, New
<1>5. \A i \in 1 .. n : nested[i].span \in 1 .. Len(traces)
  BY DEF SpanInv, SpanType
<1>6. \A i \in 1 .. n + 1 : i \in 1 .. n \/ i = n + 1
  BY <1>1
<1> HIDE DEF call
<1>7. ContextKept'
  <2>1. current' = nested'[Len(nested')].span
    BY <1>1, <1>3, <1>4 DEF call
  <2>2. ASSUME NEW i \in 1 .. Len(nested')
        PROVE  nested'[i].before = IF i = 1 THEN NoSpan ELSE nested'[i - 1].span
    <3>1. CASE i \in 1 .. n
      <4>1. i # 1 => i - 1 \in 1 .. n
        BY <3>1, <1>1
      <4> QED
        BY <3>1, <4>1, <1>1 DEF SpanInv, ContextKept
    <3>2. CASE i = n + 1
      <4>1. nested'[i].before = current
        BY <3>2, <1>3 DEF call
      <4>2. n # 0 => nested'[n] = nested[n] /\ n + 1 # 1 /\ n + 1 - 1 = n
        BY <1>1
      <4>3. CASE n = 0
        BY <4>1, <4>3, <3>2 DEF SpanInv, ContextKept
      <4>4. CASE n # 0
        BY <4>1, <4>2, <4>4, <3>2 DEF SpanInv, ContextKept
      <4> QED
        BY <4>3, <4>4
    <3> QED
      BY <3>1, <3>2, <1>1, <1>6
  <2>3. Len(nested') # 0
    BY <1>1
  <2> QED
    BY <2>1, <2>2, <2>3 DEF ContextKept
<1>8. HeadersKept'
  <2>1. stale \/ Named(local, n, nested, set)
    BY DEF SpanInv, HeadersKept
  <2>2. ASSUME Named(local, n, nested, set)
        PROVE  Named(local', n + 1, nested', set')
    <3>1. CASE injected
      <4>1. n + 1 \in 1 .. n + 1 /\ nested'[n + 1].injected
        BY <3>1, <1>1, <1>3 DEF call
      <4>2. \A j \in 1 .. n + 1 : j > n + 1 => ~nested'[j].injected
        BY <1>1
      <4>3. local'.traceparent = nested'[n + 1].span
        BY <3>1, <1>3, <1>4 DEF call
      <4> QED
        BY <4>1, <4>2, <4>3 DEF Named
    <3>2. CASE ~injected
      <4>1. ~nested'[n + 1].injected
        BY <3>2, <1>3 DEF call
      <4>2. local' = local /\ set' = set
        BY <3>2, <1>4
      <4>3. CASE (\A i \in 1 .. n : ~nested[i].injected) /\ local = set
        <5>1. \A i \in 1 .. n + 1 : ~nested'[i].injected
          BY <4>1, <4>3, <1>1, <1>6
        <5> QED
          BY <4>2, <4>3, <5>1 DEF Named
      <4>4. CASE \E i \in 1 .. n :
                     /\ nested[i].injected
                     /\ \A j \in 1 .. n : j > i => ~nested[j].injected
                     /\ local.traceparent = nested[i].span
        <5>1. PICK i \in 1 .. n :
                     /\ nested[i].injected
                     /\ \A j \in 1 .. n : j > i => ~nested[j].injected
                     /\ local.traceparent = nested[i].span
          BY <4>4
        <5>2. nested'[i].injected /\ local'.traceparent = nested'[i].span
          BY <5>1, <4>2, <1>1
        <5>3. \A j \in 1 .. n + 1 : j > i => ~nested'[j].injected
          BY <5>1, <4>1, <1>1, <1>6
        <5>4. i \in 1 .. n + 1
          BY <1>1
        <5> QED
          BY <5>2, <5>3, <5>4 DEF Named
      <4> QED
        BY <2>2, <4>3, <4>4 DEF Named
    <3> QED
      BY <3>1, <3>2
  <2>3. ASSUME NEW k \in 1 .. Len(nested'), nested'[k].injected, ~nested'[k].stale
        PROVE  Named(nested'[k].previous, k - 1, nested', set')
    <3>1. k - 1 \in Nat /\ \A i \in 1 .. k - 1 : nested[i] = nested'[i]
      BY <1>1
    <3>2. Named(nested'[k].previous, k - 1, nested, set)
      <4>1. CASE k \in 1 .. n
        BY <4>1, <2>3, <1>1 DEF SpanInv, HeadersKept
      <4>2. CASE k = n + 1
        <5>1. nested'[k].previous = local /\ nested'[k].stale = stale
          BY <4>2, <1>3 DEF call
        <5>2. k - 1 = n
          BY <4>2, <1>1
        <5> QED
          BY <2>1, <2>3, <5>1, <5>2
      <4> QED
        BY <4>1, <4>2, <1>1, <1>6
    <3> QED
      BY <3>1, <3>2, <1>4, NamedAlike
  <2>4. stale' \/ Named(local', Len(nested'), nested', set')
    BY <2>1, <2>2, <1>1, <1>4
  <2> QED
    BY <2>3, <2>4 DEF HeadersKept
<1>9. TracesKept'
  <2> SUFFICES ASSUME own = NoHeaders, set = NoHeaders
               PROVE  /\ ~stale' => OneTrace(Len(nested'), nested', traces')
                      /\ \A k \in 1 .. Len(nested') :
                             nested'[k].injected /\ ~nested'[k].stale =>
                                 OneTrace(k - 1, nested', traces')
    BY <1>4 DEF TracesKept, NoHeaders
  <2>1. \A i \in 1 .. n : traces[nested[i].span] = traces'[nested[i].span]
    BY <1>1, <1>5
  <2>2. ASSUME ~stale PROVE OneTrace(n + 1, nested', traces')
    <3>1. OneTrace(n, nested, traces)
      BY <2>2 DEF SpanInv, TracesKept
    <3>2. OneTrace(n, nested', traces')
      BY <3>1, <2>1, <1>1, OneTraceAlike
    <3>3. CASE n = 0
      <4>1. nested'[1].kind = kind /\ nested'[1].span = Len(traces) + 1
        BY <3>3, <1>3 DEF call
      <4>2. kind = "invoke" => traces'[nested'[1].span] = nested'[1].span
        BY <3>3, <4>1, <2>2, <1>1
      <4>3. \A i \in 1 .. n + 1 : i = 1
        BY <3>3
      <4> QED
        BY <4>1, <4>2, <4>3 DEF OneTrace
    <3>4. CASE n # 0
      <4>1. n > 0 /\ 1 \in 1 .. n
        BY <3>4, <1>1
      <4>2. traces'[nested'[n + 1].span] = traces'[nested'[1].span]
        BY <4>1, <2>1, <2>2, <1>1, <1>3 DEF call
      <4>3. \A i \in 1 .. n + 1 : traces'[nested'[i].span] = traces'[nested'[1].span]
        BY <3>2, <4>2, <1>6 DEF OneTrace
      <4> QED
        BY <3>2, <4>1, <4>3 DEF OneTrace
    <3> QED
      BY <3>3, <3>4
  <2>3. ASSUME NEW k \in 1 .. Len(nested'), nested'[k].injected, ~nested'[k].stale
        PROVE  OneTrace(k - 1, nested', traces')
    <3>1. /\ k - 1 \in Nat
          /\ \A i \in 1 .. k - 1 : /\ nested[i] = nested'[i]
                                  /\ traces[nested[i].span] = traces'[nested[i].span]
      BY <1>1, <2>1
    <3>2. OneTrace(k - 1, nested, traces)
      <4>1. CASE k \in 1 .. n
        BY <4>1, <2>3, <1>1 DEF SpanInv, TracesKept
      <4>2. CASE k = n + 1
        <5>1. nested'[k].stale = stale /\ k - 1 = n
          BY <4>2, <1>1, <1>3 DEF call
        <5> QED
          BY <5>1, <2>3 DEF SpanInv, TracesKept
      <4> QED
        BY <4>1, <4>2, <1>1, <1>6
    <3> QED
      BY <3>1, <3>2, OneTraceAlike
  <2> QED
    BY <2>2, <2>3, <1>1, <1>4
<1>10. OwnKept'
  <2> SUFFICES ASSUME own.traceparent = Remote, set.traceparent = NoSpan
               PROVE  /\ local' = set' /\ ~stale'
                      /\ \A k \in 1 .. Len(nested') : ~nested'[k].injected
    BY <1>4 DEF OwnKept
  <2>1. ~injected
    OBVIOUS
  <2>2. local = set /\ ~stale /\ \A k \in 1 .. n : ~nested[k].injected
    BY DEF SpanInv, OwnKept
  <2>3. ~nested'[n + 1].injected
    BY <2>1, <1>3 DEF call
  <2> QED
    BY <2>1, <2>2, <2>3, <1>1, <1>4, <1>6
<1> QED
  BY <1>1, <1>7, <1>8, <1>9, <1>10 DEF SpanInv

\* A call may complete if it puts back the headers it kept, or leaves them and
\* says so.
LEMMA CloseKeeps ==
    ASSUME SpanInv, Close, stale' \in BOOLEAN,
           ~Last(nested).injected => local' = local /\ stale' = stale,
           Last(nested).injected =>
               \/ local' = Last(nested).previous /\ stale' = Last(nested).stale
               \/ local' = local /\ stale'
    PROVE  SpanInv'
<1> DEFINE n == Len(nested)
           call == nested[n]
<1>1. /\ n \in Nat \ {0} /\ Len(nested') = n - 1
      /\ nested' \in Seq(Calls)
      /\ \A i \in 1 .. n - 1 : nested'[i] = nested[i] /\ i \in 1 .. n
      /\ n \in 1 .. n
  BY Closed DEF SpanInv
<1>2. Last(nested) = call /\ call \in Calls
  BY Closed DEF SpanInv
<1>3. own' = own /\ set' = set /\ traces' = traces /\ autoInject' = autoInject
  BY DEF Close
<1>4. current' = call.before
  BY <1>2 DEF Close
<1>5. n - 1 \in Nat /\ \A i \in 1 .. n : i \in 1 .. n - 1 \/ i = n
  BY <1>1
<1>6. /\ ~call.injected => local' = local /\ stale' = stale
      /\ call.injected => \/ local' = call.previous /\ stale' = call.stale
                          \/ local' = local /\ stale'
  BY <1>2
<1> HIDE DEF call
<1>7. SpanType'
  <2>1. Started' = Started
    BY <1>3 DEF Started
  <2>2. /\ call.previous \in Headers /\ call.previous.traceparent \in Started
        /\ call.before \in Started
    BY <1>1, <1>2 DEF SpanInv, SpanType, Calls, call
  <2>3. local' \in Headers /\ local'.traceparent \in Started
    BY <1>6, <2>2 DEF SpanInv, SpanType
  <2>4. \A i \in 1 .. Len(nested') :
            /\ nested'[i].span \in 1 .. Len(traces')
            /\ nested'[i].before \in Started'
            /\ nested'[i].previous.traceparent \in Started'
    BY <1>1, <1>3, <2>1 DEF SpanInv, SpanType
  <2> QED
    BY <1>1, <1>3, <1>4, <2>1, <2>2, <2>3, <2>4 DEF SpanInv, SpanType
<1>8. ContextKept'
  <2>1. current' = IF n - 1 = 0 THEN NoSpan ELSE nested'[n - 1].span
    <3>1. call.before = IF n = 1 THEN NoSpan ELSE nested[n - 1].span
      BY <1>1 DEF SpanInv, ContextKept, call
    <3>2. n # 1 => n - 1 \in 1 .. n - 1
      BY <1>1
    <3> QED
      BY <1>1, <1>4, <3>1, <3>2
  <2>2. ASSUME NEW i \in 1 .. n - 1
        PROVE  nested'[i].before = IF i = 1 THEN NoSpan ELSE nested'[i - 1].span
    <3>1. i # 1 => i - 1 \in 1 .. n - 1
      BY <1>1
    <3>2. nested[i].before = IF i = 1 THEN NoSpan ELSE nested[i - 1].span
      BY <1>1 DEF SpanInv, ContextKept
    <3> QED
      BY <1>1, <3>1, <3>2
  <2> QED
    BY <1>1, <2>1, <2>2 DEF ContextKept
<1>9. HeadersKept'
  <2>1. ASSUME Named(local, n, nested, set), ~call.injected
        PROVE  Named(local, n - 1, nested, set)
    <3>1. CASE (\A i \in 1 .. n : ~nested[i].injected) /\ local = set
      BY <3>1, <1>1 DEF Named
    <3>2. CASE \E i \in 1 .. n :
                   /\ nested[i].injected
                   /\ \A j \in 1 .. n : j > i => ~nested[j].injected
                   /\ local.traceparent = nested[i].span
      <4>1. PICK i \in 1 .. n :
                   /\ nested[i].injected
                   /\ \A j \in 1 .. n : j > i => ~nested[j].injected
                   /\ local.traceparent = nested[i].span
        BY <3>2
      <4>2. i \in 1 .. n - 1
        BY <4>1, <2>1, <1>5 DEF call
      <4>3. \A j \in 1 .. n - 1 : j > i => ~nested[j].injected
        BY <4>1, <1>1
      <4> QED
        BY <4>1, <4>2, <4>3 DEF Named
    <3> QED
      BY <2>1, <3>1, <3>2 DEF Named
  <2>2. ASSUME ~stale' PROVE Named(local', n - 1, nested, set)
    <3>1. CASE call.injected
      <4>1. local' = call.previous /\ ~call.stale
        BY <2>2, <3>1, <1>6
      <4> QED
        BY <3>1, <4>1, <1>1 DEF SpanInv, HeadersKept, call
    <3>2. CASE ~call.injected
      <4>1. local' = local /\ ~stale
        BY <2>2, <3>2, <1>6
      <4>2. Named(local, n, nested, set)
        BY <4>1 DEF SpanInv, HeadersKept
      <4> QED
        BY <4>1, <4>2, <3>2, <2>1
    <3> QED
      BY <3>1, <3>2
  <2>3. ASSUME ~stale' PROVE Named(local', n - 1, nested', set')
    BY <2>2, <2>3, <1>1, <1>3, <1>5, NamedAlike
  <2>4. ASSUME NEW k \in 1 .. n - 1, nested'[k].injected, ~nested'[k].stale
        PROVE  Named(nested'[k].previous, k - 1, nested', set')
    <3>1. k - 1 \in Nat /\ \A i \in 1 .. k - 1 : nested[i] = nested'[i]
      BY <1>1
    <3>2. Named(nested'[k].previous, k - 1, nested, set)
      BY <1>1, <2>4 DEF SpanInv, HeadersKept
    <3> QED
      BY <1>3, <3>1, <3>2, NamedAlike
  <2> QED
    BY <1>1, <2>3, <2>4 DEF HeadersKept
<1>10. TracesKept'
  <2> SUFFICES ASSUME own = NoHeaders, set = NoHeaders
               PROVE  /\ ~stale' => OneTrace(n - 1, nested', traces')
                      /\ \A k \in 1 .. n - 1 :
                             nested'[k].injected /\ ~nested'[k].stale =>
                                 OneTrace(k - 1, nested', traces')
    BY <1>1, <1>3 DEF TracesKept, NoHeaders
  <2>1. ASSUME ~stale' PROVE OneTrace(n - 1, nested', traces')
    <3>1. OneTrace(n - 1, nested, traces)
      <4>1. CASE call.injected
        <5>1. ~call.stale
          BY <2>1, <4>1, <1>6
        <5> QED
          BY <4>1, <5>1, <1>1 DEF SpanInv, TracesKept, call
      <4>2. CASE ~call.injected
        <5>1. OneTrace(n, nested, traces)
          BY <2>1, <4>2, <1>6 DEF SpanInv, TracesKept
        <5> QED
          BY <5>1, <1>1 DEF OneTrace
      <4> QED
        BY <4>1, <4>2
    <3> QED
      BY <3>1, <1>1, <1>3, <1>5, OneTraceAlike
  <2>2. ASSUME NEW k \in 1 .. n - 1, nested'[k].injected, ~nested'[k].stale
        PROVE  OneTrace(k - 1, nested', traces')
    <3>1. k - 1 \in Nat /\ \A i \in 1 .. k - 1 : nested[i] = nested'[i]
      BY <1>1
    <3>2. OneTrace(k - 1, nested, traces)
      BY <1>1, <2>2 DEF SpanInv, TracesKept
    <3> QED
      BY <1>3, <3>1, <3>2, OneTraceAlike
  <2> QED
    BY <2>1, <2>2
<1>11. OwnKept'
  <2> SUFFICES ASSUME own.traceparent = Remote, set.traceparent = NoSpan
               PROVE  /\ local' = set' /\ ~stale'
                      /\ \A k \in 1 .. n - 1 : ~nested'[k].injected
    BY <1>1, <1>3 DEF OwnKept
  <2>1. local = set /\ ~stale /\ \A k \in 1 .. n : ~nested[k].injected
    BY DEF SpanInv, OwnKept
  <2>2. ~call.injected
    BY <2>1, <1>1 DEF call
  <2> QED
    BY <2>1, <2>2, <1>1, <1>3, <1>6
<1> QED
  BY <1>7, <1>8, <1>9, <1>10, <1>11 DEF SpanInv

\* What goes out with an invoke is in the trace of the calls around it.
LEMMA TraceSent ==
    ASSUME SpanInv, own = NoHeaders, set = NoHeaders, ~stale
    PROVE  /\ Len(nested) > 0 => TraceOfNew(get_headers) = traces[nested[1].span]
           /\ Len(nested) = 0 => TraceOfNew(get_headers) = Len(traces) + 1
<1> DEFINE n == Len(nested)
<1>1. n \in Nat
  BY LenProperties DEF SpanInv, SpanType
<1>2. get_headers = local /\ local \in Headers
  BY HeadersSent DEF SpanInv, SpanType
<1>3. \A i \in 1 .. n : TraceOf(nested[i].span) = traces[nested[1].span]
  <2> SUFFICES ASSUME NEW i \in 1 .. n
               PROVE  TraceOf(nested[i].span) = traces[nested[1].span]
    OBVIOUS
  <2>1. Len(traces) \in Nat /\ nested[i].span \in 1 .. Len(traces)
    BY LenProperties DEF SpanInv, SpanType
  <2>2. nested[i].span \notin {Remote, NoSpan}
    BY <2>1, CallSpanAssumption
  <2>3. traces[nested[i].span] = traces[nested[1].span]
    BY DEF SpanInv, TracesKept, OneTrace
  <2> QED
    BY <2>2, <2>3 DEF TraceOf
<1>4. Named(local, n, nested, set)
  BY DEF SpanInv, HeadersKept
<1>5. CASE local = set
  <2>1. TraceOfNew(local) = IF current # NoSpan THEN TraceOf(current) ELSE New
    BY <1>2, <1>5, WhichTrace
  <2>2. CASE n = 0
    BY <2>1, <2>2, <1>2 DEF SpanInv, ContextKept, New
  <2>3. CASE n # 0
    <3>1. n \in 1 .. n
      BY <1>1, <2>3
    <3>2. current = nested[n].span
      BY <2>3 DEF SpanInv, ContextKept
    <3>3. Len(traces) \in Nat /\ current \in 1 .. Len(traces)
      BY <3>1, <3>2, LenProperties DEF SpanInv, SpanType
    <3>4. current # NoSpan
      BY <3>3, CallSpanAssumption
    <3> QED
      BY <2>1, <2>3, <3>1, <3>2, <3>4, <1>2, <1>3
  <2> QED
    BY <2>2, <2>3
<1>6. CASE local # set
  <2>1. PICK i \in 1 .. n : local.traceparent = nested[i].span
    BY <1>4, <1>6 DEF Named
  <2>2. Len(traces) \in Nat /\ nested[i].span \in 1 .. Len(traces)
    BY LenProperties DEF SpanInv, SpanType
  <2>3. local.traceparent # NoSpan
    BY <2>1, <2>2, CallSpanAssumption
  <2>4. TraceOfNew(local) = TraceOf(nested[i].span)
    BY <2>1, <2>3, <1>2, WhichTrace
  <2>5. n # 0
    BY <2>1
  <2> QED
    BY <2>4, <2>5, <1>1, <1>2, <1>3
<1> QED
  BY <1>5, <1>6

\* The application may set its headers between calls.
LEMMA SetKeeps ==
    ASSUME SpanInv, NEW headers \in Given, SetHeaders(headers)
    PROVE  SpanInv'
<1>1. /\ nested = <<>> /\ nested' = nested /\ Len(nested) = 0
      /\ local' = headers /\ set' = headers /\ stale' = FALSE
      /\ own' = own /\ current' = current /\ traces' = traces
      /\ autoInject' = autoInject
  BY EmptySeq DEF SetHeaders
<1>2. headers \in Headers /\ headers.traceparent \in Started
  BY DEF Given, NoHeaders, Headers, Spans, Started
<1>3. \A i \in 1 .. Len(nested') : FALSE
  BY <1>1
<1>4. SpanType'
  <2>1. Started' = Started
    BY <1>1 DEF Started
  <2> QED
    BY <1>1, <1>2, <1>3, <2>1 DEF SpanInv, SpanType
<1>5. ContextKept'
  BY <1>1, <1>3 DEF SpanInv, ContextKept
<1>6. HeadersKept'
  BY <1>1, <1>3 DEF HeadersKept, Named
<1>7. TracesKept'
  BY <1>1, <1>3 DEF TracesKept, OneTrace
<1>8. OwnKept'
  BY <1>1, <1>3 DEF OwnKept
<1> QED
  BY <1>4, <1>5, <1>6, <1>7, <1>8 DEF SpanInv

LEMMA SpanInvInit == SpanInit => SpanInv
<1> SUFFICES ASSUME SpanInit PROVE SpanInv
  OBVIOUS
<1>1. nested = <<>> /\ traces = <<>> /\ Len(nested) = 0 /\ Len(traces) = 0
  BY EmptySeq DEF SpanInit
<1>2. nested \in Seq(Calls) /\ traces \in Seq(Spans)
  BY <1>1, EmptySeq
<1>3. \A i \in 1 .. Len(nested) : FALSE
  BY <1>1
<1>4. SpanType
  <2>1. NoHeaders \in Given /\ NoHeaders \in Headers /\ NoHeaders.traceparent = NoSpan
    BY DEF Given, NoHeaders, Headers, Spans
  <2> QED
    BY <1>2, <1>3, <2>1 DEF SpanInit, SpanType, Started
<1>5. ContextKept
  BY <1>1, <1>3 DEF SpanInit, ContextKept
<1>6. HeadersKept
  BY <1>1, <1>3 DEF SpanInit, HeadersKept, Named
<1>7. TracesKept
  BY <1>1, <1>3 DEF SpanInit, TracesKept, OneTrace
<1>8. OwnKept
  BY <1>1, <1>3 DEF SpanInit, OwnKept
<1> QED
  BY <1>4, <1>5, <1>6, <1>7, <1>8 DEF SpanInv

LEMMA SpanInvNext == SpanInv /\ [SpanNext]_spanVars => SpanInv'
<1> SUFFICES ASSUME SpanInv, [SpanNext]_spanVars PROVE SpanInv'
  OBVIOUS
<1>1. CASE \E headers \in Given : SetHeaders(headers)
  BY <1>1, SetKeeps
<1>2. CASE start_invoke
  <2>1. get_headers \in Headers /\ get_headers.traceparent \in Started
    BY HeadersSent DEF SpanInv
  <2>2. Injects \in BOOLEAN /\ Open("invoke", get_headers, Injects)
    BY <1>2 DEF start_invoke, Injects, SpanInv, SpanType
  <2>3. Injects => ~(own.traceparent = Remote /\ set.traceparent = NoSpan)
    <3> SUFFICES ASSUME Injects, own.traceparent = Remote, set.traceparent = NoSpan
                 PROVE  FALSE
      OBVIOUS
    <3>1. local = set
      BY DEF SpanInv, OwnKept
    <3>2. get_headers.traceparent = Remote
      BY <3>1, HeadersSent DEF SpanInv
    <3> QED
      BY <3>1, <3>2, CallSpanAssumption DEF Injects
  <2>4. own = NoHeaders /\ set = NoHeaders /\ ~stale =>
            /\ Len(nested) > 0 => TraceOfNew(get_headers) = traces[nested[1].span]
            /\ Len(nested) = 0 => TraceOfNew(get_headers) = Len(traces) + 1
    BY TraceSent
  <2> HIDE DEF Injects, get_headers
  <2> QED
    BY <2>1, <2>2, <2>3, <2>4, OpenKeeps
<1>3. CASE start_handle
  <2>1. CASE nested = <<>> /\ \E headers \in Given : Open("handle", headers, FALSE)
    <3>1. PICK headers \in Given : Open("handle", headers, FALSE)
      BY <2>1
    <3>2. headers \in Headers /\ headers.traceparent \in Started
      BY DEF Given, NoHeaders, Headers, Spans, Started
    <3>3. ~(Len(nested) > 0)
      BY <2>1, EmptySeq
    <3> QED
      BY <3>1, <3>2, <3>3, OpenKeeps
  <2>2. CASE nested # <<>> /\ Open("handle", get_headers, FALSE)
    <3>1. get_headers \in Headers /\ get_headers.traceparent \in Started
      BY HeadersSent DEF SpanInv
    <3>2. own = NoHeaders /\ set = NoHeaders /\ ~stale /\ Len(nested) > 0 =>
              TraceOfNew(get_headers) = traces[nested[1].span]
      BY TraceSent
    <3> HIDE DEF get_headers
    <3> QED
      BY <2>2, <3>1, <3>2, OpenKeeps
  <2> QED
    BY <1>3, <2>1, <2>2 DEF start_handle
<1>4. CASE complete
  <2>1. /\ Close
        /\ Last(nested).injected =>
               local' = Last(nested).previous /\ stale' = Last(nested).stale
        /\ ~Last(nested).injected => local' = local /\ stale' = stale
    BY <1>4 DEF complete
  <2>2. Last(nested) \in Calls
    BY <2>1, Closed DEF SpanInv
  <2>3. stale' \in BOOLEAN
    BY <2>1, <2>2 DEF Calls, SpanInv, SpanType
  <2> QED
    BY <2>1, <2>3, CloseKeeps
<1>5. CASE complete_raises
  <2>1. /\ Close /\ local' = local
        /\ stale' = (stale \/ Last(nested).injected)
    BY <1>5 DEF complete_raises
  <2>2. stale' \in BOOLEAN /\ stale \in BOOLEAN
    BY <2>1 DEF SpanInv, SpanType
  <2>3. /\ Last(nested).injected => stale'
        /\ ~Last(nested).injected => stale' = stale
    BY <2>1, <2>2
  <2> QED
    BY <2>1, <2>2, <2>3, CloseKeeps
<1>6. CASE UNCHANGED spanVars
  <2>1. /\ nested' = nested /\ traces' = traces /\ own' = own /\ set' = set
        /\ local' = local /\ current' = current /\ stale' = stale
        /\ autoInject' = autoInject
    BY <1>6 DEF spanVars
  <2>2. SpanType'
    BY <2>1 DEF SpanInv, SpanType, Started
  <2>3. ContextKept' /\ HeadersKept'
    BY <2>1 DEF SpanInv, ContextKept, HeadersKept
  <2>4. TracesKept' /\ OwnKept'
    BY <2>1 DEF SpanInv, TracesKept, OwnKept, NoHeaders
  <2> QED
    BY <2>2, <2>3, <2>4 DEF SpanInv
<1> QED
  BY <1>1, <1>2, <1>3, <1>4, <1>5, <1>6 DEF SpanNext

\* What the invariant says of the innermost calls are the properties.
LEMMA SpanInvSuffices == SpanInv => SpansFollowCalls
<1> SUFFICES ASSUME SpanInv PROVE SpansFollowCalls
  OBVIOUS
<1>1. /\ Len(nested) \in Nat /\ DOMAIN nested = 1 .. Len(nested)
      /\ nested = <<>> <=> Len(nested) = 0
  BY LenProperties, EmptySeq DEF SpanInv, SpanType
<1>2. ContextFollowsCalls
  BY <1>1 DEF SpanInv, ContextKept, ContextFollowsCalls, Last
<1>3. HeadersFollowCalls
  BY <1>1 DEF SpanInv, HeadersKept, Named, HeadersFollowCalls, HeadersName
<1>4. TracesFollowCalls
  BY <1>1 DEF SpanInv, TracesKept, OneTrace, TracesFollowCalls
<1>5. OwnTraceIsSent
  <2> SUFFICES ASSUME own.traceparent = Remote, set.traceparent = NoSpan
               PROVE  get_headers.traceparent = Remote
    BY DEF OwnTraceIsSent
  <2>1. local = set
    BY DEF SpanInv, OwnKept
  <2> QED
    BY <2>1, HeadersSent DEF SpanInv
<1> QED
  BY <1>2, <1>3, <1>4, <1>5 DEF SpansFollowCalls

-----------------------------------------------------------------------------

\* The calls a thread is in are typed, and name only spans that were started.
THEOREM SpanTypeCorrect == SpanSpec => []SpanType
<1>1. SpanInv => SpanType
  BY DEF SpanInv
<1> QED
  BY SpanInvInit, SpanInvNext, <1>1, PTL DEF SpanSpec

\* Through nested calls, and completions that raise, the context holds the span
\* of the innermost call, the headers name the innermost call that was injected
\* once a raise has been made good, calls within a call are in its trace, and
\* a traceparent of the connection's own goes out unchanged.
THEOREM SpansAreCalls == SpanSpec => []SpansFollowCalls
BY SpanInvInit, SpanInvNext, SpanInvSuffices, PTL DEF SpanSpec

(***************************************************************************)
(* The token cache                                                         *)
(***************************************************************************)

Servers == {"token endpoint", "metadata server"}
Tokens == [from : Servers \cup {"nowhere"}, end : Nat, life : Nat]
Exchanges == [to : Servers \cup {"nobody"}, asked : Nat, token : Tokens]

TokenType ==
    /\ now \in Nat
    /\ expiry \in Nat
    /\ token \in Tokens
    /\ exchange \in Exchanges

\* An exchange is with one of the servers of Google, sees at most one tick, and
\* the life of what it brings has begun no earlier than the exchange.
ExchangeIsShort ==
    exchange # Idle =>
        /\ exchange.to \in Servers
        /\ config.emulatorHost = "none"
        /\ exchange.asked <= now /\ now <= exchange.asked + 1
        /\ exchange.token # None =>
               /\ exchange.token.from = exchange.to
               /\ exchange.asked + exchange.token.life <= exchange.token.end

\* The cache forgets a long-lived token before its end.
CacheEndsFirst == token # None /\ token.life > 3 => expiry + 1 <= token.end

TokenInv == TokenType /\ ExchangeIsShort /\ CacheEndsFirst

Good(to, with) ==
    with.from \in Servers =>
        /\ to = "https://pubsub.googleapis.com"
        /\ with.life > 3 => now + 1 <= with.end

-----------------------------------------------------------------------------

LEMMA NoneIsToken == None \in Tokens /\ Idle \in Exchanges /\ Idle.to = "nobody"
BY DEF None, Tokens, Idle, Exchanges

\* What a step sends is good, if it sends anything.
LEMMA StepSendsGood ==
    ASSUME TokenInv, NEW with, Good(EndpointBase(config), with), Send(with)
    PROVE  TokenIsGoodNow
BY DEF TokenIsGoodNow, Good, Send, Servers

LEMMA TokenStep == TokenInv /\ [Next]_vars => TokenInv' /\ (vars' # vars => TokenIsGoodNow)
<1> SUFFICES ASSUME TokenInv, [Next]_vars
             PROVE  TokenInv' /\ (vars' # vars => TokenIsGoodNow)
  OBVIOUS
<1> USE DEF TokenInv
<1>1. CASE SendAtOnce
  <2>1. TokenInv'
    BY <1>1 DEF SendAtOnce, TokenType, ExchangeIsShort, CacheEndsFirst
  <2>2. ASSUME config.emulatorHost # "none", Send(None)
        PROVE  TokenIsGoodNow
    <3>1. Good(EndpointBase(config), None)
      BY DEF Good, None, Servers
    <3> QED
      BY <2>2, <3>1, StepSendsGood
  <2>3. ASSUME Send([from |-> "configuration", end |-> 0, life |-> 0])
        PROVE  TokenIsGoodNow
    <3> DEFINE given == [from |-> "configuration", end |-> 0, life |-> 0]
    <3>1. Good(EndpointBase(config), given)
      BY DEF Good, Servers
    <3>2. Send(given)
      BY <2>3
    <3> HIDE DEF given
    <3> QED
      BY <3>1, <3>2, StepSendsGood
  <2>4. ASSUME config.emulatorHost = "none", Cached, Send(token)
        PROVE  TokenIsGoodNow
    <3>1. Good(EndpointBase(config), token)
      BY <2>4 DEF Good, EndpointBase, Cached, CacheEndsFirst, TokenType, Tokens
    <3> QED
      BY <2>4, <3>1, StepSendsGood
  <2>5. TokenIsGoodNow
    BY <1>1, <2>2, <2>3, <2>4, Zenon DEF SendAtOnce
  <2> QED
    BY <2>1, <2>5
<1>2. CASE StartExchange
  <2>1. exchange' \in Exchanges /\ exchange'.to \in Servers /\ exchange'.asked = now
            /\ exchange'.token = None
    BY <1>2, NoneIsToken DEF StartExchange, Exchanges, Servers, TokenType
  <2>2. config.emulatorHost = "none" /\ UNCHANGED <<config, now, token, expiry, sent>>
    BY <1>2, Zenon DEF StartExchange
  <2>3. TokenType' /\ CacheEndsFirst'
    BY <2>1, <2>2 DEF TokenType, CacheEndsFirst
  <2>4. ExchangeIsShort'
    BY <2>1, <2>2 DEF ExchangeIsShort, TokenType
  <2> QED
    BY <2>2, <2>3, <2>4 DEF TokenIsGoodNow
<1>3. ASSUME NEW life \in Lives, Issue(life)
      PROVE  TokenInv' /\ (vars' # vars => TokenIsGoodNow)
  <2>1. life \in Nat
    BY LivesAssumption
  <2> DEFINE new == [from |-> exchange.to, end |-> now + life, life |-> life]
  <2>2. exchange.to \in Servers /\ exchange.asked <= now /\ now <= exchange.asked + 1
            /\ config.emulatorHost = "none"
    BY <1>3 DEF Issue, ExchangeIsShort
  <2>3. new \in Tokens
    BY <2>1, <2>2 DEF Tokens, TokenType
  <2>4. exchange' = [exchange EXCEPT !.token = new]
    BY <1>3 DEF Issue
  <2>5. exchange' \in Exchanges /\ exchange'.token = new /\ exchange'.asked = exchange.asked
            /\ exchange'.to = exchange.to
    <3> HIDE DEF new
    <3> QED
      BY <2>3, <2>4 DEF TokenType, Exchanges
  <2>6. TokenType'
    BY <1>3, <2>5 DEF Issue, TokenType
  <2>7. ExchangeIsShort'
    BY <1>3, <2>1, <2>2, <2>5 DEF Issue, ExchangeIsShort, TokenType, Exchanges
  <2> QED
    BY <1>3, <2>6, <2>7 DEF Issue, CacheEndsFirst, TokenIsGoodNow
<1>4. ASSUME exchange.to \in Servers, exchange.token # None,
             NEW counted \in Nat, counted <= exchange.asked + 1,
             expiry' = counted + Shortened(exchange.token.life),
             token' = exchange.token, Send(exchange.token), exchange' = Idle,
             UNCHANGED <<config, now>>
      PROVE  TokenInv' /\ TokenIsGoodNow
  <2> DEFINE new == exchange.token
  <2>1. exchange # Idle
    BY <1>4, NoneIsToken DEF Servers
  <2>2. /\ new \in Tokens /\ new.life \in Nat /\ new.end \in Nat /\ exchange.asked \in Nat
        /\ exchange.asked + new.life <= new.end
        /\ now <= exchange.asked + 1 /\ now \in Nat
        /\ config.emulatorHost = "none"
    BY <1>4, <2>1 DEF ExchangeIsShort, TokenType, Exchanges, Tokens
  <2> HIDE DEF new
  <2>3. expiry' = counted + Shortened(new.life) /\ token' = new /\ Send(new)
    BY <1>4 DEF new
  <2>4. expiry' \in Nat /\ (new.life > 3 => expiry' + 1 <= new.end)
    BY <1>4, <2>2, <2>3 DEF Shortened
  <2>5. TokenInv'
    BY <1>4, <2>2, <2>3, <2>4, NoneIsToken
       DEF TokenType, ExchangeIsShort, CacheEndsFirst
  <2>6. Good(EndpointBase(config), new)
    BY <2>2 DEF Good, EndpointBase
  <2> QED
    BY <2>3, <2>5, <2>6, StepSendsGood
<1>5. CASE RefreshFromServiceAccount
  <2>1. exchange.asked \in Nat /\ exchange.asked <= exchange.asked + 1
    BY DEF TokenType, Exchanges
  <2> QED
    BY <1>4, <1>5, <2>1 DEF RefreshFromServiceAccount, Servers
<1>6. CASE TryMetadataToken
  <2>1. exchange.to \in Servers /\ exchange # Idle
    BY <1>6, NoneIsToken DEF TryMetadataToken, Servers
  <2>2. now \in Nat /\ now <= exchange.asked + 1
    BY <2>1 DEF TokenType, ExchangeIsShort
  <2> QED
    BY <1>4, <1>6, <2>1, <2>2 DEF TryMetadataToken
<1>7. CASE ExchangeFails
  BY <1>7, NoneIsToken
     DEF ExchangeFails, TokenType, ExchangeIsShort, CacheEndsFirst, TokenIsGoodNow
<1>8. CASE Tick
  <2>1. TokenType' /\ CacheEndsFirst'
    BY <1>8 DEF Tick, TokenType, CacheEndsFirst
  <2>2. ExchangeIsShort'
    BY <1>8 DEF Tick, ExchangeIsShort, TokenType, Exchanges
  <2> QED
    BY <1>8, <2>1, <2>2 DEF Tick, TokenIsGoodNow
<1>9. CASE UNCHANGED vars
  BY <1>9 DEF vars, TokenType, ExchangeIsShort, CacheEndsFirst
<1> QED
  BY <1>1, <1>2, <1>3, <1>5, <1>6, <1>7, <1>8, <1>9 DEF Next

\* What the cache and the exchanges keep, whatever lives the servers give.
THEOREM TokenInvariant == Spec => []TokenInv
<1>1. Init => TokenInv
  BY NoneIsToken DEF Init, TokenInv, TokenType, ExchangeIsShort, CacheEndsFirst
<1> QED
  BY <1>1, TokenStep, PTL DEF Spec

\* PubSubToken.tla: a token is sent to Google alone, and while it lives.
THEOREM TokensAreGood == Spec => SentTokenIsGood
<1>1. TokenInv /\ [Next]_vars => [TokenIsGoodNow]_vars
  BY TokenStep
<1> QED
  BY <1>1, TokenInvariant, PTL DEF Spec, SentTokenIsGood

(***************************************************************************)
(* The parsers                                                             *)
(***************************************************************************)

\* A server that has not been configured holds nothing an object could meet.
ConfigInv ==
    /\ HalvesMeet
    /\ plugin \in {"SQS", "Pub/Sub", "RabbitMQ", "ServiceBus", "Kafka"}
    /\ times \in Nat
    /\ times = 0 => server = Refused

\* SQS, Pub/Sub and RabbitMQ: what both halves accept, they read alike.
LEMMA SameReading ==
    ASSUME NEW node
    PROVE  /\ SqsServer(node) = Refused \/ SqsClient(node) = Refused
                \/ SqsServer(node) = SqsClient(node)
           /\ PubSubServer(node) = Refused \/ PubSubClient(node) = Refused
                \/ PubSubServer(node) = PubSubClient(node)
           /\ RabbitMqServer(node) = Refused \/ RabbitMqServer(node) = RabbitMqClient(node)
BY DEF SqsServer, SqsClient, PubSubServer, PubSubClient, RabbitMqServer, RabbitMqClient

\* Service Bus: in the same mode both read the topic, or both the queue.
LEMMA SameMode ==
    ASSUME NEW node
    PROVE  \/ ServiceBusServer(node) = Refused \/ ServiceBusClient(node) = Refused
           \/ /\ "oneWay" \in DOMAIN ServiceBusServer(node)
              /\ ServiceBusServer(node).oneWay # ServiceBusClient(node).oneWay
           \/ ServiceBusServer(node) = ServiceBusClient(node)
<1> DEFINE serves == node.subscription > 0
           sends == node.topic > 0
<1> SUFFICES ASSUME ServiceBusServer(node) # Refused, ServiceBusClient(node) # Refused
             PROVE  \/ /\ "oneWay" \in DOMAIN ServiceBusServer(node)
                       /\ ServiceBusServer(node).oneWay # ServiceBusClient(node).oneWay
                    \/ ServiceBusServer(node) = ServiceBusClient(node)
  OBVIOUS
<1>1. ServiceBusServer(node) =
          [accepted |-> TRUE,
           request |-> Read(node, IF serves THEN "topic" ELSE "queue", Nothing),
           oneWay |-> serves]
  BY DEF ServiceBusServer
<1>2. ServiceBusClient(node) =
          [accepted |-> TRUE,
           request |-> Read(node, IF sends THEN "topic" ELSE "queue", Nothing),
           oneWay |-> sends]
  BY DEF ServiceBusClient, ApplyServiceBusConfig
<1>3. ServiceBusServer(node).oneWay = serves /\ "oneWay" \in DOMAIN ServiceBusServer(node)
  BY <1>1
<1>4. ServiceBusClient(node).oneWay = sends
  BY <1>2
<1>5. CASE serves = sends
  BY <1>1, <1>2, <1>5
<1>6. CASE serves # sends
  BY <1>3, <1>4, <1>6
<1> QED
  BY <1>5, <1>6

\* Kafka: a fresh server reads what the client reads.
LEMMA FreshServerReadsAlike ==
    ASSUME NEW node
    PROVE  KafkaServer(node, FreshKafkaServer) = KafkaClient(node)
BY DEF KafkaServer, KafkaClient, FreshKafkaServer

LEMMA ConfigInvNext == ConfigInv /\ [ConfigNext]_configVars => ConfigInv'
<1> SUFFICES ASSUME ConfigInv, [ConfigNext]_configVars PROVE ConfigInv'
  OBVIOUS
<1>1. CASE UNCHANGED configVars
  BY <1>1 DEF ConfigInv, HalvesMeet, configVars
<1>2. ASSUME NEW node \in Objects[plugin], Configure(node)
      PROVE  ConfigInv'
  <2>1. times \in Nat /\ times' = times + 1 /\ times < 2 /\ plugin' = plugin
    BY <1>2, Zenon DEF Configure, ConfigInv
  <2>2. times' \in Nat /\ times' # 0 /\ (times = 0 \/ times' = 2)
    BY <2>1
  <2>3. CASE ~ServerOf(node).accepted
    <3>1. client' = Refused
      BY <1>2, <2>3 DEF Configure
    <3>2. HalvesMeet'
      BY <3>1 DEF HalvesMeet, Refused
    <3> QED
      BY <2>1, <2>2, <3>2, Zenon DEF ConfigInv
  <2>4. CASE ServerOf(node).accepted
    <3>1. server' = ServerOf(node) /\ client' = ClientOf(node)
      BY <1>2, <2>4 DEF Configure
    <3>2. \/ ServerOf(node) = Refused \/ ClientOf(node) = Refused
          \/ ServerOf(node) = ClientOf(node)
          \/ plugin = "Kafka" /\ times' = 2
          \/ /\ plugin = "ServiceBus" /\ "oneWay" \in DOMAIN ServerOf(node)
             /\ ServerOf(node).oneWay # ClientOf(node).oneWay
      <4>1. CASE plugin \in {"SQS", "Pub/Sub", "RabbitMQ"}
        BY <4>1, SameReading DEF ServerOf, ClientOf
      <4>2. CASE plugin = "ServiceBus"
        BY <4>2, SameMode DEF ServerOf, ClientOf
      <4>3. CASE plugin = "Kafka"
        <5>1. times = 0 => ServerOf(node) = KafkaServer(node, FreshKafkaServer)
          BY <4>3 DEF ServerOf, ConfigInv, Refused
        <5>2. ClientOf(node) = KafkaClient(node)
          BY <4>3 DEF ClientOf
        <5> QED
          BY <4>3, <2>2, <5>1, <5>2, FreshServerReadsAlike
      <4> QED
        BY <4>1, <4>2, <4>3 DEF ConfigInv
    <3>3. HalvesMeet'
      <4>1. CASE server' = Refused \/ client' = Refused
        <5>1. ~server'.accepted \/ ~client'.accepted
          BY <4>1 DEF Refused
        <5> QED
          BY <5>1, Zenon DEF HalvesMeet
      <4>2. CASE server' = client'
        BY <4>2, Zenon DEF HalvesMeet
      <4>3. CASE plugin' = "Kafka" /\ times' = 2
        BY <4>3, Zenon DEF HalvesMeet
      <4>4. CASE /\ plugin' = "ServiceBus" /\ "oneWay" \in DOMAIN server'
                 /\ server'.oneWay # client'.oneWay
        BY <4>4, Zenon DEF HalvesMeet
      <4> QED
        BY <2>1, <3>1, <3>2, <4>1, <4>2, <4>3, <4>4, Zenon
    <3> QED
      BY <2>1, <2>2, <3>3, Zenon DEF ConfigInv
  <2> QED
    BY <2>3, <2>4
<1> QED
  BY <1>1, <1>2 DEF ConfigNext

\* Whatever an object holds, and whether or not it is well-formed, what both
\* halves of a plugin read of it they read from the same key (TransportKafka.cpp
\* with KafkaServer.cpp, and so on).
THEOREM HalvesReadAlike == ConfigSpec => []HalvesMeet
<1>1. ConfigInit => ConfigInv
  <2> SUFFICES ASSUME ConfigInit PROVE ConfigInv
    OBVIOUS
  <2>1. ~server.accepted /\ server = Refused
    BY DEF ConfigInit, Refused
  <2>2. HalvesMeet
    BY <2>1, Zenon DEF HalvesMeet
  <2>3. times \in Nat
    BY DEF ConfigInit
  <2> QED
    BY <2>1, <2>2, <2>3, Zenon DEF ConfigInit, ConfigInv
<1>2. ConfigInv => HalvesMeet
  BY DEF ConfigInv
<1> QED
  BY <1>1, <1>2, ConfigInvNext, PTL DEF ConfigSpec

(***************************************************************************)
(* The search of a shared document                                         *)
(***************************************************************************)

SearchInv == document \in Documents /\ OwnObjectIsFound

\* Of what the Readmes and tests have, SQS's search claims its own objects alone.
LEMMA SqsClaimsItsOwn ==
    ASSUME searcher = "SQS", NEW object \in Catalogue
    PROVE  Claims(object) <=> object.owner = "SQS"
<1> USE DEF Claims, Object, HasAny, NameLooksLike, HasSpecificSqsKeys,
           IsFlatSqsAlias
<1>1. CASE object = SqsAlias
  BY <1>1 DEF SqsAlias
<1>2. CASE object = SqsUrls
  BY <1>2 DEF SqsUrls
<1>3. CASE object = SqsWrapped
  BY <1>3 DEF SqsWrapped
<1>4. CASE object = PubSubTopics
  BY <1>4 DEF PubSubTopics
<1>5. CASE object = PubSubAlias
  BY <1>5 DEF PubSubAlias
<1>6. CASE object = RabbitMqFull
  BY <1>6 DEF RabbitMqFull
<1>7. CASE object = RabbitMqDefault
  BY <1>7 DEF RabbitMqDefault
<1>8. CASE object = BusQueue
  BY <1>8 DEF BusQueue
<1>9. CASE object = BusTopic
  BY <1>9 DEF BusTopic
<1>10. CASE object = KafkaTopics
  BY <1>10 DEF KafkaTopics
<1>11. CASE object = KafkaAlias
  BY <1>11 DEF KafkaAlias
<1> QED
  BY <1>1, <1>2, <1>3, <1>4, <1>5, <1>6,
     <1>7, <1>8, <1>9, <1>10, <1>11 DEF Catalogue

\* Pub/Sub's claims its own, and a Kafka object with a requestTopic.
LEMMA PubSubClaimsItsOwn ==
    ASSUME searcher = "Pub/Sub", NEW object \in Catalogue
    PROVE  /\ object.owner = "Pub/Sub" => Claims(object)
           /\ Claims(object) => object.owner \in {"Pub/Sub", "Kafka"}
<1> USE DEF Claims, Object, HasAny, NameLooksLike, HasSpecificPubSubKeys,
           IsFlatPubSubAlias
<1>1. CASE object = SqsAlias
  BY <1>1 DEF SqsAlias
<1>2. CASE object = SqsUrls
  BY <1>2 DEF SqsUrls
<1>3. CASE object = SqsWrapped
  BY <1>3 DEF SqsWrapped
<1>4. CASE object = PubSubTopics
  BY <1>4 DEF PubSubTopics
<1>5. CASE object = PubSubAlias
  BY <1>5 DEF PubSubAlias
<1>6. CASE object = RabbitMqFull
  BY <1>6 DEF RabbitMqFull
<1>7. CASE object = RabbitMqDefault
  BY <1>7 DEF RabbitMqDefault
<1>8. CASE object = BusQueue
  BY <1>8 DEF BusQueue
<1>9. CASE object = BusTopic
  BY <1>9 DEF BusTopic
<1>10. CASE object = KafkaTopics
  BY <1>10 DEF KafkaTopics
<1>11. CASE object = KafkaAlias
  BY <1>11 DEF KafkaAlias
<1> QED
  BY <1>1, <1>2, <1>3, <1>4, <1>5, <1>6,
     <1>7, <1>8, <1>9, <1>10, <1>11 DEF Catalogue

LEMMA SearchInvInit == SearchInit => SearchInv
BY DEF SearchInit, SearchInv, OwnObjectIsFound

LEMMA SearchInvNext == SearchInv /\ [SearchNext]_searchVars => SearchInv'
<1> SUFFICES ASSUME SearchInv, [SearchNext]_searchVars PROVE SearchInv'
  OBVIOUS
<1>1. CASE UNCHANGED searchVars
  BY <1>1 DEF SearchInv, OwnObjectIsFound, searchVars
<1>2. CASE ParseFails
  BY <1>2 DEF ParseFails, SearchInv, OwnObjectIsFound
<1>3. CASE Search
  <2>1. document' = document /\ searcher' = searcher /\ document \in Documents
    BY <1>3 DEF Search, SearchInv
  <2>2. \A i \in DOMAIN document : document[i] \in Catalogue
    <3>1. PICK n \in 1 .. MaxObjects : document \in [1 .. n -> Catalogue]
      BY <2>1 DEF Documents
    <3> QED
      BY <3>1
  <2> DEFINE owners == {document[i].owner : i \in DOMAIN document}
  <2>3. searcher \in {"SQS", "Pub/Sub"} =>
            \/ found' = IF searcher \in owners THEN searcher ELSE "refused"
            \/ searcher = "Pub/Sub" /\ found' = "Kafka"
    <3> SUFFICES ASSUME searcher \in {"SQS", "Pub/Sub"}
                 PROVE  \/ found' = IF searcher \in owners THEN searcher ELSE "refused"
                        \/ searcher = "Pub/Sub" /\ found' = "Kafka"
      OBVIOUS
    <3>1. ASSUME NEW i \in DOMAIN document, FirstClaimed(i), found' = document[i].owner
          PROVE  \/ found' = searcher /\ searcher \in owners
                 \/ searcher = "Pub/Sub" /\ found' = "Kafka"
      <4>1. document[i] \in Catalogue /\ Claims(document[i])
        BY <2>2, <3>1 DEF FirstClaimed
      <4>2. searcher = "SQS" => document[i].owner = searcher
        BY <4>1, SqsClaimsItsOwn
      <4>3. searcher = "Pub/Sub" => document[i].owner \in {"Pub/Sub", "Kafka"}
        BY <4>1, PubSubClaimsItsOwn
      <4>4. document[i].owner \in owners
        OBVIOUS
      <4> HIDE DEF owners
      <4> QED
        BY <3>1, <4>2, <4>3, <4>4
    <3>2. ASSUME \A i \in DOMAIN document : ~Claims(document[i]), found' = FailureOf
          PROVE  found' = "refused" /\ searcher \notin owners
      <4>1. \A i \in DOMAIN document : document[i].owner # searcher
        BY <2>2, <3>2, SqsClaimsItsOwn, PubSubClaimsItsOwn
      <4> QED
        BY <4>1, <3>2 DEF FailureOf
    <3> QED
      BY <1>3, <3>1, <3>2 DEF Search
  <2> QED
    BY <2>1, <2>3 DEF SearchInv, OwnObjectIsFound
<1> QED
  BY <1>1, <1>2, <1>3 DEF SearchNext

\* A document may have any number of the objects the Readmes and tests show, in
\* any order: the searches of SqsConfig.cpp and PubSubConfig.cpp end at their own
\* plugin's, or fail.
THEOREM OwnObjectsAreFound == SearchSpec => []OwnObjectIsFound
<1>1. SearchInv => OwnObjectIsFound
  BY DEF SearchInv
<1> QED
  BY <1>1, SearchInvInit, SearchInvNext, PTL DEF SearchSpec

(***************************************************************************)
(* The codings of payloads                                                 *)
(***************************************************************************)

\* The characters of a payload without padding.
Sextets(data) ==
    [k \in 1 .. (4 * Len(data) + 2) \div 3 |-> Sextet(Group(data, (k - 1) \div 4), (k - 1) % 4)]

\* What has passed the filter and what has not are the code, but for a blank.
IsFiltered(code) ==
    LET read == Len(filtered)
    IN  /\ filtered \in Seq(Alphabet \cup {Pad})
        /\ unread \in Seq(Alphabet \cup {Pad, Blank})
        /\ read <= Len(code)
        /\ \A k \in 1 .. read : filtered[k] = code[k]
        /\ \/ /\ Len(unread) = Len(code) - read
              /\ \A k \in 1 .. Len(unread) : unread[k] = code[read + k]
           \/ /\ Len(unread) = Len(code) - read + 1
              /\ \E p \in 1 .. Len(unread) : \A k \in 1 .. Len(unread) :
                     unread[k] = IF k < p THEN code[read + k]
                                 ELSE IF k = p THEN Blank ELSE code[read + k - 1]

\* What has been decoded is the payload as far as its sextets have been read,
\* and the last one is still in the accumulator.
IsDecoded(code) ==
    LET read == Len(code) - Len(unread)
    IN  /\ unread \in Seq(Alphabet)
        /\ read >= 0
        /\ \A k \in 1 .. Len(unread) : unread[k] = code[read + k]
        /\ accumulator \in Nat
        /\ read > 0 => accumulator % 64 = code[read]
        /\ bits = (6 * read) % 8
        /\ decoded \in Seq(Bytes)
        /\ Len(decoded) = (6 * read) \div 8
        /\ \A k \in 1 .. Len(decoded) : decoded[k] = payload[k]

TextInv ==
    /\ coding \in Codings
    /\ payload \in Payloads
    /\ stage \in {"encoding", "refused", "sent", "filtering", "decoding", "decoded"}
    /\ stage \in {"encoding", "sent", "filtering"} =>
           accumulator = 0 /\ bits = 0 /\ decoded = <<>>
    /\ stage \in {"encoding", "sent"} => filtered = <<>>
    /\ stage \notin {"encoding", "refused"} =>
           \/ text = Encoded(payload)
           \/ /\ coding = "Pub/Sub"
              /\ \E place \in 1 .. Len(Base64Encode(payload)) + 1 :
                     text = InsertAt(Base64Encode(payload), place, Blank)
    /\ stage = "filtering" => IsFiltered(Encoded(payload))
    /\ stage = "decoding" => IsDecoded(Sextets(payload))
    /\ stage = "decoded" => decoded = payload

\* A byte is cut into its upper and its lower bits.
LEMMA ByteIsCut ==
    ASSUME NEW b \in Bytes
    PROVE  /\ \E h \in 0 .. 63, l \in 0 .. 3 : b = h * 4 + l
           /\ \E h \in 0 .. 15, l \in 0 .. 15 : b = h * 16 + l
           /\ \E h \in 0 .. 3, l \in 0 .. 63 : b = h * 64 + l
<1> USE DEF Bytes
<1>1. \E h \in 0 .. 63, l \in 0 .. 3 : b = h * 4 + l
  BY SMT
<1>2. \E h \in 0 .. 15, l \in 0 .. 15 : b = h * 16 + l
  BY SMT
<1>3. \E h \in 0 .. 3, l \in 0 .. 63 : b = h * 64 + l
  BY SMT
<1> QED
  BY <1>1, <1>2, <1>3

\* The sextets of three bytes give them back, each from two of its sextets.
LEMMA SextetsGiveBytes ==
    ASSUME NEW b1 \in Bytes, NEW b2 \in Bytes, NEW b3 \in Bytes,
           NEW group, group = b1 * 65536 + b2 * 256 + b3
    PROVE  /\ \A place \in 0 .. 3 : Sextet(group, place) \in Alphabet
           /\ ((Sextet(group, 0) * 64 + Sextet(group, 1)) \div 16) % 256 = b1
           /\ ((Sextet(group, 1) * 64 + Sextet(group, 2)) \div 4) % 256 = b2
           /\ (Sextet(group, 2) * 64 + Sextet(group, 3)) % 256 = b3
<1>0. b1 \in 0 .. 255 /\ b2 \in 0 .. 255 /\ b3 \in 0 .. 255
  BY DEF Bytes
<1>1. PICK h1 \in 0 .. 63, l1 \in 0 .. 3 : b1 = h1 * 4 + l1
  BY ByteIsCut
<1>2. PICK h2 \in 0 .. 15, l2 \in 0 .. 15 : b2 = h2 * 16 + l2
  BY ByteIsCut
<1>3. PICK h3 \in 0 .. 3, l3 \in 0 .. 63 : b3 = h3 * 64 + l3
  BY ByteIsCut
<1>4. group = h1 * 262144 + (l1 * 16 + h2) * 4096 + (l2 * 4 + h3) * 64 + l3
  BY <1>0, <1>1, <1>2, <1>3, SMT
<1>5. PICK x2 \in 0 .. 63, x3 \in 0 .. 63 : x2 = l1 * 16 + h2 /\ x3 = l2 * 4 + h3
  BY SMT
<1>6. group \in Nat /\ group = h1 * 262144 + x2 * 4096 + x3 * 64 + l3
  BY <1>4, <1>5, SMT
<1>7. Sextet(group, 0) = h1
  <2>1. Sextet(group, 0) = (group \div 262144) % 64
    BY <1>6, SMT DEF Sextet
  <2>2. group \div 262144 = h1
    BY <1>6, SMT
  <2> QED
    BY <2>1, <2>2, SMT
<1>8. Sextet(group, 1) = x2
  <2>1. Sextet(group, 1) = (group \div 4096) % 64
    BY <1>6, SMT DEF Sextet
  <2>2. group \div 4096 = h1 * 64 + x2
    BY <1>6, SMT
  <2> QED
    BY <2>1, <2>2, SMT
<1>9. Sextet(group, 2) = x3
  <2>1. Sextet(group, 2) = (group \div 64) % 64
    BY <1>6, SMT DEF Sextet
  <2>2. group \div 64 = (h1 * 64 + x2) * 64 + x3
    BY <1>6, SMT
  <2> QED
    BY <2>1, <2>2, SMT
<1>10. Sextet(group, 3) = l3
  <2>1. Sextet(group, 3) = group % 64
    BY <1>6, SMT DEF Sextet
  <2>2. PICK q \in Nat : q = h1 * 4096 + x2 * 64 + x3
    BY SMT
  <2>3. group = q * 64 + l3
    BY <1>6, <2>2, SMT
  <2> QED
    BY <2>1, <2>3, SMT
<1>11. \A place \in 0 .. 3 : Sextet(group, place) \in Alphabet
  BY <1>7, <1>8, <1>9, <1>10, SMT DEF Alphabet
<1>12. ((Sextet(group, 0) * 64 + Sextet(group, 1)) \div 16) % 256 = b1
  <2>1. Sextet(group, 0) * 64 + Sextet(group, 1) = b1 * 16 + h2
    BY <1>0, <1>1, <1>5, <1>7, <1>8, SMT
  <2>2. (b1 * 16 + h2) \div 16 = b1 /\ b1 % 256 = b1
    BY <1>0, SMT
  <2> QED
    BY <2>1, <2>2, SMT
<1>13. ((Sextet(group, 1) * 64 + Sextet(group, 2)) \div 4) % 256 = b2
  <2>1. Sextet(group, 1) * 64 + Sextet(group, 2) = (l1 * 256 + b2) * 4 + h3
    BY <1>0, <1>2, <1>5, <1>8, <1>9, SMT
  <2>2. ((l1 * 256 + b2) * 4 + h3) \div 4 = l1 * 256 + b2
    BY <1>0, SMT
  <2>3. (l1 * 256 + b2) % 256 = b2
    BY <1>0, SMT
  <2> QED
    BY <2>1, <2>2, <2>3, SMT
<1>14. (Sextet(group, 2) * 64 + Sextet(group, 3)) % 256 = b3
  <2>1. Sextet(group, 2) * 64 + Sextet(group, 3) = l2 * 256 + b3
    BY <1>0, <1>3, <1>5, <1>9, <1>10, SMT
  <2>2. (l2 * 256 + b3) % 256 = b3
    BY <1>0, SMT
  <2> QED
    BY <2>1, <2>2
<1> QED
  BY <1>11, <1>12, <1>13, <1>14

\* A group is its three bytes; those beyond the end of the payload are 0.
LEMMA GroupHasBytes ==
    ASSUME NEW data \in Seq(Bytes), NEW g \in Nat
    PROVE  \E b1, b2, b3 \in Bytes :
               /\ Group(data, g) = b1 * 65536 + b2 * 256 + b3
               /\ 3 * g + 1 <= Len(data) => b1 = data[3 * g + 1]
               /\ 3 * g + 2 <= Len(data) => b2 = data[3 * g + 2]
               /\ 3 * g + 3 <= Len(data) => b3 = data[3 * g + 3]
<1> DEFINE Byte(i) == IF i <= Len(data) THEN data[i] ELSE 0
<1>1. \A i \in Nat \ {0} : Byte(i) \in Bytes
  BY LenProperties, ElementOfSeq DEF Bytes
<1>2. Group(data, g) = Byte(3 * g + 1) * 65536 + Byte(3 * g + 2) * 256 + Byte(3 * g + 3)
  BY DEF Group
<1>3. /\ 3 * g + 1 <= Len(data) => Byte(3 * g + 1) = data[3 * g + 1]
      /\ 3 * g + 2 <= Len(data) => Byte(3 * g + 2) = data[3 * g + 2]
      /\ 3 * g + 3 <= Len(data) => Byte(3 * g + 3) = data[3 * g + 3]
  OBVIOUS
<1>4. 3 * g + 1 \in Nat \ {0} /\ 3 * g + 2 \in Nat \ {0} /\ 3 * g + 3 \in Nat \ {0}
  BY SMT
<1> HIDE DEF Byte
<1>5. Byte(3 * g + 1) \in Bytes /\ Byte(3 * g + 2) \in Bytes /\ Byte(3 * g + 3) \in Bytes
  BY <1>1, <1>4
<1> USE <1>5
<1> WITNESS Byte(3 * g + 1) \in Bytes, Byte(3 * g + 2) \in Bytes, Byte(3 * g + 3) \in Bytes
<1> QED
  BY <1>2, <1>3

\* There are (4 n + 2) div 3 sextets in n bytes.
LEMMA SextetsType ==
    ASSUME NEW data \in Seq(Bytes)
    PROVE  /\ Sextets(data) \in Seq(Alphabet)
           /\ Len(Sextets(data)) = (4 * Len(data) + 2) \div 3
           /\ \A k \in 1 .. Len(Sextets(data)) :
                  Sextets(data)[k] = Sextet(Group(data, (k - 1) \div 4), (k - 1) % 4)
<1> DEFINE size == (4 * Len(data) + 2) \div 3
           Value(k) == Sextet(Group(data, (k - 1) \div 4), (k - 1) % 4)
<1>1. size \in Nat
  BY LenProperties, SMT
<1>2. ASSUME NEW k \in 1 .. size
      PROVE  Value(k) \in Alphabet
  <2>1. (k - 1) \div 4 \in Nat /\ (k - 1) % 4 \in 0 .. 3
    BY <1>1, SMT
  <2> DEFINE g == (k - 1) \div 4
             place == (k - 1) % 4
  <2> HIDE DEF g, place
  <2>2. g \in Nat /\ place \in 0 .. 3
    BY <2>1 DEF g, place
  <2>3. PICK b1, b2, b3 \in Bytes : Group(data, g) = b1 * 65536 + b2 * 256 + b3
    BY <2>2, GroupHasBytes
  <2>4. Sextet(Group(data, g), place) \in Alphabet
    BY <2>2, <2>3, SextetsGiveBytes
  <2> QED
    BY <2>4 DEF g, place
<1>3. Sextets(data) = [k \in 1 .. size |-> Value(k)]
  BY DEF Sextets
<1> HIDE DEF size, Value
<1>4. Sextets(data) \in [1 .. size -> Alphabet]
  BY <1>2, <1>3
<1>5. Sextets(data) \in Seq(Alphabet) /\ Len(Sextets(data)) = size
  BY <1>1, <1>4, IsASeq, LenProperties
<1>6. \A k \in 1 .. Len(Sextets(data)) : Sextets(data)[k] = Value(k)
  BY <1>3, <1>5
<1> QED
  BY <1>5, <1>6 DEF size, Value

\* Two neighbours in a group give the byte they share.
LEMMA PairGivesByte ==
    ASSUME NEW data \in Seq(Bytes), NEW k \in 1 .. Len(Sextets(data)) - 1, k % 4 # 0
    PROVE  /\ (6 * k) \div 8 + 1 \in 1 .. Len(data)
           /\ ((Sextets(data)[k] * 64 + Sextets(data)[k + 1])
                   \div ByteAbove((6 * (k + 1)) % 8)) % 256 = data[(6 * k) \div 8 + 1]
<1> DEFINE size == Len(data)
           s == Sextets(data)
<1>1. size \in Nat
  BY LenProperties
<1>2. PICK g \in Nat, place \in 0 .. 2 : k = 4 * g + place + 1
  <2>1. k \in Nat /\ k > 0
    BY SextetsType, SMT
  <2> QED
    BY <2>1, SMT
<1>3. /\ (k - 1) \div 4 = g /\ (k - 1) % 4 = place
      /\ (k + 1 - 1) \div 4 = g /\ (k + 1 - 1) % 4 = place + 1
  BY <1>2, SMT
<1>4. k + 1 <= (4 * size + 2) \div 3
  BY SextetsType, SMT
<1>5. s[k] = Sextet(Group(data, g), place) /\ s[k + 1] = Sextet(Group(data, g), place + 1)
  <2>1. k \in 1 .. Len(s) /\ k + 1 \in 1 .. Len(s)
    BY <1>1, SextetsType, SMT
  <2>2. /\ s[k] = Sextet(Group(data, (k - 1) \div 4), (k - 1) % 4)
        /\ s[k + 1] = Sextet(Group(data, (k + 1 - 1) \div 4), (k + 1 - 1) % 4)
    BY <2>1, SextetsType
  <2> QED
    BY <1>3, <2>2
<1>6. 3 * g + place + 1 <= size
  BY <1>1, <1>2, <1>4, SMT
<1>7. (6 * k) \div 8 = 3 * g + place
  BY <1>2, SMT
<1>8. ByteAbove((6 * (k + 1)) % 8) = <<16, 4, 1>>[place + 1]
  <2>1. (6 * (k + 1)) % 8 = 4 - 2 * place
    BY <1>2, SMT
  <2> QED
    BY <2>1, SMT DEF ByteAbove
<1>9. PICK b1, b2, b3 \in Bytes :
          /\ Group(data, g) = b1 * 65536 + b2 * 256 + b3
          /\ 3 * g + 1 <= Len(data) => b1 = data[3 * g + 1]
          /\ 3 * g + 2 <= Len(data) => b2 = data[3 * g + 2]
          /\ 3 * g + 3 <= Len(data) => b3 = data[3 * g + 3]
  BY GroupHasBytes
<1>10. ((s[k] * 64 + s[k + 1]) \div ByteAbove((6 * (k + 1)) % 8)) % 256 = data[3 * g + place + 1]
  <2> DEFINE group == Group(data, g)
  <2>1. /\ ((Sextet(group, 0) * 64 + Sextet(group, 1)) \div 16) % 256 = b1
        /\ ((Sextet(group, 1) * 64 + Sextet(group, 2)) \div 4) % 256 = b2
        /\ (Sextet(group, 2) * 64 + Sextet(group, 3)) % 256 = b3
    BY <1>9, SextetsGiveBytes
  <2>2. \A p \in 0 .. 3 : Sextet(group, p) \in Int
    <3>1. \A p \in 0 .. 3 : Sextet(group, p) \in Alphabet
      BY <1>9, SextetsGiveBytes
    <3> QED
      BY <3>1 DEF Alphabet
  <2> HIDE DEF group
  <2>3. s[k] = Sextet(group, place) /\ s[k + 1] = Sextet(group, place + 1)
    BY <1>5 DEF group
  <2>4. CASE place = 0
    <3>1. ByteAbove((6 * (k + 1)) % 8) = 16
      BY <1>8, <2>4
    <3>2. s[k] = Sextet(group, 0) /\ s[k + 1] = Sextet(group, 1)
      BY <2>3, <2>4
    <3>3. b1 = data[3 * g + place + 1]
      BY <1>6, <1>9, <2>4
    <3> QED
      BY <2>1, <3>1, <3>2, <3>3
  <2>5. CASE place = 1
    <3>1. ByteAbove((6 * (k + 1)) % 8) = 4
      BY <1>8, <2>5
    <3>2. s[k] = Sextet(group, 1) /\ s[k + 1] = Sextet(group, 2)
      BY <2>3, <2>5
    <3>3. b2 = data[3 * g + place + 1]
      BY <1>6, <1>9, <2>5
    <3> QED
      BY <2>1, <3>1, <3>2, <3>3
  <2>6. CASE place = 2
    <3>1. ByteAbove((6 * (k + 1)) % 8) = 1
      BY <1>8, <2>6
    <3>2. s[k] = Sextet(group, 2) /\ s[k + 1] = Sextet(group, 3)
      BY <2>3, <2>6
    <3>3. b3 = data[3 * g + place + 1]
      BY <1>6, <1>9, <2>6
    <3>4. PICK n \in Int : n = s[k] * 64 + s[k + 1]
      BY <2>2, <3>2
    <3>5. n \div 1 = n
      BY SMT
    <3> QED
      BY <2>1, <3>1, <3>2, <3>3, <3>4, <3>5
  <2> QED
    BY <2>4, <2>5, <2>6
<1> QED
  BY <1>1, <1>2, <1>6, <1>7, <1>10

\* The sextets of a payload, and padding.
IsCode(code, data) ==
    /\ code \in Seq(Alphabet \cup {Pad})
    /\ Len(code) >= Len(Sextets(data))
    /\ \A k \in 1 .. Len(code) :
           code[k] = IF k <= Len(Sextets(data)) THEN Sextets(data)[k] ELSE Pad

\* A sextet is no padding.
LEMMA PadIsNoSextet ==
    ASSUME NEW data \in Seq(Bytes), NEW k \in 1 .. Len(Sextets(data))
    PROVE  Sextets(data)[k] \in Alphabet /\ Sextets(data)[k] # Pad
<1>1. Sextets(data)[k] \in Alphabet
  BY SextetsType, ElementOfSeq
<1>2. Pad \notin Alphabet
  BY DEF Alphabet, Pad
<1> QED
  BY <1>1, <1>2

\* Padding is removed, and nothing else.
LEMMA WithoutPaddingIsSextets ==
    ASSUME NEW data \in Seq(Bytes), NEW code, IsCode(code, data)
    PROVE  WithoutPadding(code) = Sextets(data)
<1> DEFINE s == Sextets(data)
           Right(n) == /\ \A i \in n + 1 .. Len(code) : code[i] = Pad
                       /\ n > 0 => code[n] # Pad
<1>1. Len(s) \in Nat /\ Len(code) \in Nat /\ Len(s) <= Len(code)
  BY SextetsType, LenProperties DEF IsCode
<1>2. Right(Len(s))
  <2>1. ASSUME NEW i \in Len(s) + 1 .. Len(code)
        PROVE  code[i] = Pad
    BY <1>1 DEF IsCode
  <2>2. ASSUME Len(s) > 0
        PROVE  code[Len(s)] # Pad
    <3>1. Len(s) \in 1 .. Len(code) /\ Len(s) \in 1 .. Len(s)
      BY <1>1, <2>2
    <3>2. code[Len(s)] = s[Len(s)]
      BY <1>1, <3>1 DEF IsCode
    <3> QED
      BY <3>1, <3>2, PadIsNoSextet
  <2> QED
    BY <2>1, <2>2
<1>3. ASSUME NEW n \in 0 .. Len(code), Right(n)
      PROVE  n = Len(s)
  <2>1. CASE n < Len(s)
    <3>1. Len(s) \in n + 1 .. Len(code) /\ Len(s) > 0
      BY <1>1, <2>1
    <3> QED
      BY <1>2, <1>3, <3>1
  <2>2. CASE n > Len(s)
    <3>1. n \in Len(s) + 1 .. Len(code) /\ n > 0
      BY <1>1, <2>2
    <3> QED
      BY <1>2, <1>3, <3>1
  <2> QED
    BY <1>1, <2>1, <2>2
<1>4. Unpadded(code) = Len(s)
  <2>1. Unpadded(code) = CHOOSE n \in 0 .. Len(code) : Right(n)
    BY DEF Unpadded
  <2>2. Len(s) \in 0 .. Len(code)
    BY <1>1
  <2> HIDE DEF Right, s
  <2>3. (CHOOSE n \in 0 .. Len(code) : Right(n)) \in 0 .. Len(code)
        /\ Right(CHOOSE n \in 0 .. Len(code) : Right(n))
    BY <1>2, <2>2
  <2> QED
    BY <1>3, <2>1, <2>3
<1>5. \A i \in 1 .. Len(s) : code[i] = s[i] /\ s[i] \in Alphabet
  <2> SUFFICES ASSUME NEW i \in 1 .. Len(s)
               PROVE  code[i] = s[i] /\ s[i] \in Alphabet
    OBVIOUS
  <2>1. i \in 1 .. Len(code) /\ i <= Len(s)
    BY <1>1
  <2> QED
    BY <2>1, PadIsNoSextet DEF IsCode
<1>6. /\ SubSeq(code, 1, Len(s)) \in Seq(Alphabet)
      /\ Len(SubSeq(code, 1, Len(s))) = Len(s)
      /\ \A i \in 1 .. Len(s) : SubSeq(code, 1, Len(s))[i] = s[i]
  <2> HIDE DEF s
  <2>1. 1 \in Int /\ Len(s) \in Int /\ \A i \in 1 .. Len(s) : code[i] \in Alphabet
    BY <1>1, <1>5
  <2>2. /\ SubSeq(code, 1, Len(s)) \in Seq(Alphabet)
        /\ Len(SubSeq(code, 1, Len(s))) = IF 1 <= Len(s) THEN Len(s) - 1 + 1 ELSE 0
        /\ \A i \in 1 .. Len(s) - 1 + 1 : SubSeq(code, 1, Len(s))[i] = code[1 + i - 1]
    BY <2>1, SubSeqProperties
  <2>3. Len(SubSeq(code, 1, Len(s))) = Len(s)
    BY <1>1, <2>2
  <2>4. ASSUME NEW i \in 1 .. Len(s)
        PROVE  SubSeq(code, 1, Len(s))[i] = s[i]
    <3>1. i \in 1 .. Len(s) - 1 + 1 /\ 1 + i - 1 = i
      BY <1>1
    <3>2. SubSeq(code, 1, Len(s))[i] = code[i]
      BY <2>2, <3>1
    <3> QED
      BY <1>5, <3>2
  <2> QED
    BY <2>2, <2>3, <2>4
<1>7. s \in Seq(Alphabet)
  BY SextetsType
<1>8. SubSeq(code, 1, Len(s)) = s
  <2> HIDE DEF s
  <2> QED
    BY <1>6, <1>7, SeqEqual
<1> QED
  BY <1>4, <1>8 DEF WithoutPadding

\* Base64Encode makes whole groups of the sextets and of padding.
LEMMA EncodeIsCode ==
    ASSUME NEW data \in Seq(Bytes)
    PROVE  /\ IsCode(Base64Encode(data), data)
           /\ Len(Base64Encode(data)) = 4 * ((Len(data) + 2) \div 3)
<1> DEFINE s == Sextets(data)
           n == Len(data)
           size == 4 * ((n + 2) \div 3)
           Char(k) == IF (k - 1) % 4 > 1 /\ 3 * ((k - 1) \div 4) + ((k - 1) % 4) > n THEN Pad
                      ELSE Sextet(Group(data, (k - 1) \div 4), (k - 1) % 4)
<1>1. n \in Nat /\ size \in Nat /\ size >= Len(s)
  <2>1. n \in Nat
    BY LenProperties
  <2>2. Len(s) = (4 * n + 2) \div 3
    BY SextetsType
  <2> HIDE DEF n, s
  <2>3. (4 * n + 2) \div 3 <= size /\ size \in Nat
    BY <2>1, SMT
  <2> QED
    BY <2>1, <2>2, <2>3
<1>2. Base64Encode(data) = [k \in 1 .. size |-> Char(k)]
  BY DEF Base64Encode
<1>3. ASSUME NEW k \in 1 .. size
      PROVE  Char(k) = IF k <= Len(s) THEN s[k] ELSE Pad
  <2>1. PICK g \in Nat, place \in 0 .. 3 : k = 4 * g + place + 1
    <3> HIDE DEF n, size, s, Char
    <3>1. PICK m \in Nat : k = m + 1
      BY <1>1
    <3>2. \E g \in Nat, place \in 0 .. 3 : m = 4 * g + place /\ m \div 4 = g /\ m % 4 = place
      BY SMT
    <3> QED
      BY <3>1, <3>2
  <2>2. (k - 1) \div 4 = g /\ (k - 1) % 4 = place
    BY <2>1, SMT
  <2>3. 3 * g + 1 <= n
    BY <1>1, <2>1, SMT
  <2>4. (place > 1 /\ 3 * g + place > n) <=> k > (4 * n + 2) \div 3
    BY <1>1, <2>1, <2>3, SMT
  <2>5. Len(s) = (4 * n + 2) \div 3
    BY SextetsType
  <2>6. ASSUME k <= Len(s)
        PROVE  s[k] = Sextet(Group(data, g), place)
    <3>1. k \in 1 .. Len(s)
      BY <1>1, <2>5, <2>6
    <3>2. s[k] = Sextet(Group(data, (k - 1) \div 4), (k - 1) % 4)
      BY <3>1, SextetsType
    <3> QED
      BY <2>2, <3>2
  <2>7. Char(k) = IF place > 1 /\ 3 * g + place > n THEN Pad ELSE Sextet(Group(data, g), place)
    BY <2>2
  <2> HIDE DEF Char, s, n
  <2>8. k \in Int /\ Len(s) \in Int
    BY <1>1, SextetsType, SMT DEF s, n
  <2> QED
    BY <2>4, <2>5, <2>6, <2>7, <2>8
<1>4. ASSUME NEW k \in 1 .. size
      PROVE  Char(k) \in Alphabet \cup {Pad}
  <2>1. k <= Len(s) => s[k] \in Alphabet
    BY <1>1, PadIsNoSextet, SextetsType
  <2> QED
    BY <1>3, <2>1
<1> HIDE DEF Char, s, size
<1>5. Base64Encode(data) \in [1 .. size -> Alphabet \cup {Pad}]
  BY <1>2, <1>4
<1>6. Base64Encode(data) \in Seq(Alphabet \cup {Pad}) /\ Len(Base64Encode(data)) = size
  BY <1>1, <1>5, IsASeq, LenProperties
<1>7. \A k \in 1 .. Len(Base64Encode(data)) :
          Base64Encode(data)[k] = IF k <= Len(s) THEN s[k] ELSE Pad
  BY <1>2, <1>3, <1>6
<1> QED
  BY <1>1, <1>6, <1>7 DEF IsCode, s, size

\* Whatever travels is the payload's code, which the receiver of SQS accepts.
LEMMA EncodedIsCode ==
    ASSUME NEW data \in Seq(Bytes)
    PROVE  /\ IsCode(Encoded(data), data)
           /\ data = <<>> => Encoded(data) = <<>>
           /\ coding = "SQS" => IsValidBase64(Encoded(data))
<1>1. WithoutPadding(Base64Encode(data)) = Sextets(data)
  BY EncodeIsCode, WithoutPaddingIsSextets
<1>2. IsCode(Sextets(data), data)
  <2>1. Sextets(data) \in Seq(Alphabet) /\ Len(Sextets(data)) \in Nat
    BY SextetsType, LenProperties
  <2>2. Sextets(data) \in Seq(Alphabet \cup {Pad})
    BY <2>1, SeqMonotonic
  <2> QED
    BY <2>1, <2>2 DEF IsCode
<1>3. IsCode(Encoded(data), data)
  BY <1>1, <1>2, EncodeIsCode DEF Encoded, Base64Url
<1>4. ASSUME data = <<>>
      PROVE  Encoded(data) = <<>>
  <2>1. Len(data) = 0
    BY <1>4
  <2>2. Len(Base64Encode(data)) = 0 /\ Len(Sextets(data)) = 0
    <3>1. (0 + 2) \div 3 = 0 /\ (4 * 0 + 2) \div 3 = 0
      BY SMT
    <3>2. /\ Len(Base64Encode(data)) = 4 * ((0 + 2) \div 3)
          /\ Len(Sextets(data)) = (4 * 0 + 2) \div 3
      BY <2>1, EncodeIsCode, SextetsType
    <3> QED
      BY <3>1, <3>2
  <2>3. Base64Encode(data) \in Seq(Alphabet \cup {Pad}) /\ Sextets(data) \in Seq(Alphabet)
    BY EncodeIsCode, SextetsType DEF IsCode
  <2> QED
    BY <1>1, <2>2, <2>3, EmptySeq DEF Encoded, Base64Url
<1>5. ASSUME coding = "SQS"
      PROVE  IsValidBase64(Encoded(data))
  <2> DEFINE code == Base64Encode(data)
             s == Sextets(data)
  <2>1. Encoded(data) = code
    BY <1>5 DEF Encoded
  <2>2. Len(code) % 4 = 0 /\ Len(code) \in Nat /\ Len(s) \in Nat
    <3>1. Len(data) \in Nat /\ Len(s) \in Nat
      BY SextetsType, LenProperties
    <3>2. PICK q \in Nat : q = (Len(data) + 2) \div 3
      BY <3>1, SMT
    <3>3. Len(code) = 4 * q
      BY <3>2, EncodeIsCode
    <3> HIDE DEF code, s
    <3> QED
      BY <3>1, <3>3, SMT
  <2>3. DOMAIN code = 1 .. Len(code)
    BY EncodeIsCode, LenProperties DEF IsCode
  <2>4. \A i \in 1 .. Len(code) : code[i] = IF i <= Len(s) THEN s[i] ELSE Pad
    BY EncodeIsCode DEF IsCode
  <2>5. ASSUME NEW i \in 1 .. Len(code)
        PROVE  code[i] \notin {Blank, Other}
    <3>1. code[i] \in Alphabet \cup {Pad}
      BY EncodeIsCode, ElementOfSeq DEF IsCode
    <3>2. Blank \notin Alphabet \cup {Pad} /\ Other \notin Alphabet \cup {Pad}
      BY DEF Alphabet, Pad, Blank, Other
    <3> QED
      BY <3>1, <3>2
  <2>6. ASSUME NEW i \in 1 .. Len(code), code[i] = Pad, NEW j \in i .. Len(code)
        PROVE  code[j] = Pad
    <3>1. ~ (i <= Len(s))
      BY <2>2, <2>4, <2>6, PadIsNoSextet
    <3>2. j \in 1 .. Len(code) /\ ~ (j <= Len(s))
      BY <2>2, <3>1
    <3> QED
      BY <2>4, <3>2
  <2> HIDE DEF code, s
  <2> QED
    BY <2>1, <2>2, <2>3, <2>5, <2>6 DEF IsValidBase64
<1> QED
  BY <1>3, <1>4, <1>5

\* One element more, at a place of it.
IsInserted(long, code, place, e) ==
    /\ Len(long) = Len(code) + 1
    /\ \A k \in 1 .. Len(code) + 1 :
           long[k] = IF k < place THEN code[k] ELSE IF k = place THEN e ELSE code[k - 1]

\* What stands after the blank moves by one.
LEMMA BlankIsInserted ==
    ASSUME NEW S, NEW code \in Seq(S), NEW e,
           NEW place \in Nat \ {0}, place <= Len(code) + 1
    PROVE  /\ InsertAt(code, place, e) \in Seq(S \cup {e})
           /\ IsInserted(InsertAt(code, place, e), code, place, e)
<1> DEFINE T == S \cup {e}
           left == SubSeq(code, 1, place - 1)
           right == SubSeq(code, place, Len(code))
           both == left \o <<e>>
<1>1. Len(code) \in Nat /\ place \in Int /\ \A i \in 1 .. Len(code) : code[i] \in T
  BY LenProperties, ElementOfSeq
<1>2. /\ left \in Seq(T)
      /\ Len(left) = place - 1
      /\ \A i \in 1 .. place - 1 : left[i] = code[i]
  <2>1. /\ left \in Seq(T)
        /\ Len(left) = IF 1 <= place - 1 THEN place - 1 - 1 + 1 ELSE 0
        /\ \A i \in 1 .. place - 1 - 1 + 1 : left[i] = code[1 + i - 1]
    <3>1. 1 \in Int /\ place - 1 \in Int /\ \A i \in 1 .. place - 1 : code[i] \in T
      BY <1>1
    <3> HIDE DEF T
    <3> QED
      BY <3>1, SubSeqProperties
  <2> HIDE DEF left, T
  <2> QED
    BY <1>1, <2>1
<1>3. /\ right \in Seq(T)
      /\ Len(right) = Len(code) - place + 1
      /\ \A i \in 1 .. Len(code) - place + 1 : right[i] = code[place + i - 1]
  <2>1. /\ right \in Seq(T)
        /\ Len(right) = IF place <= Len(code) THEN Len(code) - place + 1 ELSE 0
        /\ \A i \in 1 .. Len(code) - place + 1 : right[i] = code[place + i - 1]
    <3>1. Len(code) \in Int /\ place \in Int /\ \A i \in place .. Len(code) : code[i] \in T
      BY <1>1
    <3> HIDE DEF T
    <3> QED
      BY <3>1, SubSeqProperties
  <2> HIDE DEF right, T
  <2> QED
    BY <1>1, <2>1
<1>4. <<e>> \in Seq(T) /\ Len(<<e>>) = 1 /\ <<e>>[1] = e
  OBVIOUS
<1> HIDE DEF left, right, T
<1>5. /\ both \in Seq(T)
      /\ Len(both) = place
      /\ \A i \in 1 .. place : both[i] = IF i < place THEN code[i] ELSE e
  <2>1. /\ both \in Seq(T)
        /\ Len(both) = Len(left) + Len(<<e>>)
        /\ \A i \in 1 .. Len(left) + Len(<<e>>) :
               both[i] = IF i <= Len(left) THEN left[i] ELSE <<e>>[i - Len(left)]
    BY <1>2, <1>4, ConcatProperties
  <2> HIDE DEF both
  <2>2. Len(both) = place
    BY <1>1, <1>2, <1>4, <2>1
  <2>3. ASSUME NEW i \in 1 .. place
        PROVE  both[i] = IF i < place THEN code[i] ELSE e
    <3>1. CASE i < place
      BY <1>1, <1>2, <1>4, <2>1, <3>1
    <3>2. CASE i = place
      <4>1. i - Len(left) = 1 /\ i \in 1 .. Len(left) + Len(<<e>>) /\ ~ (i <= Len(left))
        BY <1>1, <1>2, <1>4, <3>2
      <4> QED
        BY <1>1, <1>4, <2>1, <3>2, <4>1
    <3> QED
      BY <1>1, <3>1, <3>2
  <2> QED
    BY <2>1, <2>2, <2>3
<1> HIDE DEF both
<1>6. /\ both \o right \in Seq(T)
      /\ Len(both \o right) = Len(both) + Len(right)
      /\ \A i \in 1 .. Len(both) + Len(right) :
             (both \o right)[i] = IF i <= Len(both) THEN both[i] ELSE right[i - Len(both)]
  BY <1>3, <1>5, ConcatProperties
<1>7. InsertAt(code, place, e) = both \o right
  BY DEF InsertAt, both, left, right
<1>8. ASSUME NEW k \in 1 .. Len(code) + 1
      PROVE  (both \o right)[k] =
                 IF k < place THEN code[k] ELSE IF k = place THEN e ELSE code[k - 1]
  <2>1. CASE k <= place
    BY <1>1, <1>3, <1>5, <1>6, <2>1
  <2>2. CASE k > place
    <3>1. k - place \in 1 .. Len(code) - place + 1 /\ place + (k - place) - 1 = k - 1
      BY <1>1, <2>2
    <3>2. (both \o right)[k] = right[k - place]
      BY <1>1, <1>3, <1>5, <1>6, <2>2
    <3> QED
      BY <1>1, <1>3, <2>2, <3>1, <3>2
  <2>3. k <= place \/ k > place
    BY <1>1
  <2> QED
    BY <2>1, <2>2, <2>3
<1> QED
  BY <1>1, <1>3, <1>5, <1>6, <1>7, <1>8 DEF T, IsInserted

\* What is sent is a sequence of bytes.
LEMMA PayloadHasBytes ==
    ASSUME TextInv
    PROVE  payload \in Seq(Bytes)
  BY PayloadsAreBytes DEF TextInv

\* What the receiver starts to filter is the code, perhaps with a blank.
LEMMA ReceiveFilters ==
    ASSUME TextInv, Receive
    PROVE  TextInv'
<1> DEFINE code == Encoded(payload)
<1>1. /\ UNCHANGED <<coding, payload, text, filtered, shiftVars>>
      /\ unread' = text /\ stage = "sent"
      /\ stage' = IF coding = "SQS" /\ ~IsValidBase64(text) THEN "rejected" ELSE "filtering"
  BY DEF Receive
<1>2. code \in Seq(Alphabet \cup {Pad}) /\ Len(code) \in Nat
  BY PayloadHasBytes, EncodedIsCode, LenProperties DEF IsCode
<1>3. stage' = "filtering"
  <2>1. coding = "SQS" => text = code
    BY <1>1 DEF TextInv
  <2> QED
    BY <1>1, <2>1, PayloadHasBytes, EncodedIsCode
<1>4. code' = code
  BY <1>1 DEF Encoded
<1>5. filtered = <<>> /\ Len(<<>>) = 0 /\ <<>> \in Seq(Alphabet \cup {Pad})
  BY <1>1 DEF TextInv
<1>6. filtered' = <<>> /\ unread' = text
  BY <1>1, <1>5
<1>7. ASSUME text = code
      PROVE  IsFiltered(code)'
  <2>1. text \in Seq(Alphabet \cup {Pad, Blank})
    BY <1>2, <1>7, SeqMonotonic
  <2> HIDE DEF code
  <2>2. \A k \in 1 .. Len(text) : text[k] = code[0 + k]
    BY <1>2, <1>7
  <2>3. Len(text) = Len(code) - 0
    BY <1>2, <1>7
  <2> QED
    BY <1>2, <1>4, <1>5, <1>6, <2>1, <2>2, <2>3 DEF IsFiltered
<1>8. ASSUME coding = "Pub/Sub",
             \E place \in 1 .. Len(Base64Encode(payload)) + 1 :
                 text = InsertAt(Base64Encode(payload), place, Blank)
      PROVE  IsFiltered(code)'
  <2>1. code = Base64Encode(payload)
    BY <1>8 DEF Encoded
  <2>2. PICK place \in 1 .. Len(code) + 1 : text = InsertAt(code, place, Blank)
    BY <1>8, <2>1
  <2> HIDE DEF code
  <2>3. /\ text \in Seq((Alphabet \cup {Pad}) \cup {Blank})
        /\ Len(text) = Len(code) + 1
        /\ \A k \in 1 .. Len(code) + 1 :
               text[k] = IF k < place THEN code[k]
                         ELSE IF k = place THEN Blank ELSE code[k - 1]
    <3>1. place \in Nat \ {0} /\ place <= Len(code) + 1
      BY <1>2
    <3>2. /\ text \in Seq((Alphabet \cup {Pad}) \cup {Blank})
          /\ IsInserted(text, code, place, Blank)
      BY <1>2, <2>2, <3>1, BlankIsInserted
    <3> QED
      BY <3>2 DEF IsInserted
  <2>4. (Alphabet \cup {Pad}) \cup {Blank} = Alphabet \cup {Pad, Blank}
    OBVIOUS
  <2>5. Len(text) = Len(code) - 0 + 1 /\ place \in 1 .. Len(text)
    BY <1>2, <2>3
  <2>6. \A k \in 1 .. Len(text) :
            text[k] = IF k < place THEN code[0 + k]
                      ELSE IF k = place THEN Blank ELSE code[0 + k - 1]
    BY <1>2, <2>3
  <2> QED
    BY <1>2, <1>4, <1>5, <1>6, <2>3, <2>4, <2>5, <2>6 DEF IsFiltered
<1>9. IsFiltered(code)'
  BY <1>1, <1>4, <1>7, <1>8 DEF TextInv
<1> QED
  BY <1>1, <1>3, <1>4, <1>6, <1>9 DEF TextInv, shiftVars

\* The text is the code, or nothing is sent.
LEMMA EncodeSends ==
    ASSUME TextInv, Encode
    PROVE  TextInv'
<1>1. Encoded(payload)' = Encoded(payload)
  BY DEF Encode, Encoded
<1> QED
  BY <1>1 DEF TextInv, Encode, shiftVars

\* The text is the code with a blank.
LEMMA EncodeInLinesSends ==
    ASSUME TextInv, NEW place \in 1 .. Len(Base64Encode(payload)) + 1, EncodeInLines(place)
    PROVE  TextInv'
  BY DEF TextInv, EncodeInLines, shiftVars

\* A character that passes the filter is the code's next; the blank leaves the
\* rest of the code.
LEMMA FilterKeepsCode ==
    ASSUME TextInv, Filter
    PROVE  TextInv'
<1> DEFINE code == Encoded(payload)
           read == Len(filtered)
           Code == Alphabet \cup {Pad}
<1>1. /\ UNCHANGED <<coding, payload, text, shiftVars>>
      /\ stage = "filtering" /\ unread # <<>>
      /\ stage' = IF Head(unread) = Other THEN "rejected" ELSE stage
      /\ filtered' = IF Head(unread) \in {Blank, Other} THEN filtered
                     ELSE Append(filtered, Head(unread))
      /\ unread' = Tail(unread)
  BY DEF Filter
<1>2. code \in Seq(Code) /\ Len(code) \in Nat
  BY PayloadHasBytes, EncodedIsCode, LenProperties DEF IsCode
<1>3. code' = code
  BY <1>1 DEF Encoded
<1>4. IsFiltered(code)
  BY <1>1 DEF TextInv
<1>5. /\ filtered \in Seq(Code) /\ read \in Nat /\ read <= Len(code)
      /\ \A k \in 1 .. read : filtered[k] = code[k]
  BY <1>4, LenProperties DEF IsFiltered
<1>6. unread \in Seq(Alphabet \cup {Pad, Blank}) /\ Len(unread) \in Nat \ {0}
  BY <1>1, <1>4, LenProperties, EmptySeq DEF IsFiltered
<1>7. /\ Head(unread) = unread[1]
      /\ unread' \in Seq(Alphabet \cup {Pad, Blank})
      /\ Len(unread') = Len(unread) - 1
      /\ \A k \in 1 .. Len(unread) - 1 : unread'[k] = unread[k + 1]
  BY <1>1, <1>6, HeadTailProperties
<1>8. Other \notin Alphabet /\ Other # Pad /\ Other # Blank /\ Blank \notin Alphabet /\ Blank # Pad
  BY DEF Alphabet, Pad, Blank, Other
<1>9. Head(unread) # Other
  BY <1>1, <1>6, <1>8, HeadTailProperties
<1>10. stage' = "filtering"
  BY <1>1, <1>9
<1> HIDE DEF code, read, Code
<1>11. ASSUME read < Len(code), Head(unread) = code[read + 1]
       PROVE  /\ filtered' \in Seq(Code)
              /\ Len(filtered') = read + 1
              /\ read + 1 <= Len(code)
              /\ \A k \in 1 .. read + 1 : filtered'[k] = code[k]
  <2>1. code[read + 1] \in Code
    BY <1>2, <1>5, <1>11, ElementOfSeq
  <2>2. filtered' = Append(filtered, code[read + 1])
    BY <1>1, <1>8, <1>11, <2>1 DEF Code
  <2>3. /\ filtered' \in Seq(Code)
        /\ Len(filtered') = read + 1
        /\ \A k \in 1 .. read : filtered'[k] = filtered[k]
        /\ filtered'[read + 1] = code[read + 1]
    BY <1>5, <2>1, <2>2, AppendProperties DEF read
  <2>4. ASSUME NEW k \in 1 .. read + 1
        PROVE  filtered'[k] = code[k]
    <3>1. k \in 1 .. read \/ k = read + 1
      BY <1>5
    <3> QED
      BY <1>5, <2>3, <3>1
  <2> QED
    BY <1>2, <1>5, <1>11, <2>3, <2>4
<1>12. ASSUME Len(unread) = Len(code) - read,
              \A k \in 1 .. Len(unread) : unread[k] = code[read + k]
       PROVE  IsFiltered(code)'
  <2>1. read < Len(code) /\ Head(unread) = code[read + 1]
    BY <1>2, <1>5, <1>6, <1>7, <1>12
  <2>2. \A k \in 1 .. Len(unread') : unread'[k] = code[read + 1 + k]
    <3> SUFFICES ASSUME NEW k \in 1 .. Len(unread')
                 PROVE  unread'[k] = code[read + 1 + k]
      OBVIOUS
    <3>1. k + 1 \in 1 .. Len(unread) /\ k \in 1 .. Len(unread) - 1 /\ read + (k + 1) = read + 1 + k
      BY <1>5, <1>6, <1>7
    <3> QED
      BY <1>7, <1>12, <3>1
  <2>3. Len(unread') = Len(code) - (read + 1)
    BY <1>2, <1>5, <1>6, <1>7, <1>12
  <2> QED
    BY <1>3, <1>7, <1>11, <2>1, <2>2, <2>3 DEF IsFiltered, Code
<1>13. ASSUME Len(unread) = Len(code) - read + 1,
              NEW p \in 1 .. Len(unread),
              \A k \in 1 .. Len(unread) :
                  unread[k] = IF k < p THEN code[read + k]
                              ELSE IF k = p THEN Blank ELSE code[read + k - 1]
       PROVE  IsFiltered(code)'
  <2>1. CASE p = 1
    <3>1. filtered' = filtered
      BY <1>1, <1>6, <1>7, <1>13, <2>1
    <3>2. Len(unread') = Len(code) - read
      BY <1>2, <1>5, <1>6, <1>7, <1>13
    <3>3. ASSUME NEW k \in 1 .. Len(unread')
          PROVE  unread'[k] = code[read + k]
      <4>1. k + 1 \in 1 .. Len(unread) /\ k \in 1 .. Len(unread) - 1 /\ read + (k + 1) - 1 = read + k
            /\ ~ (k + 1 < p) /\ k + 1 # p
        BY <1>5, <1>6, <1>7, <2>1
      <4> QED
        BY <1>7, <1>13, <4>1
    <3>4. /\ Len(filtered') = read /\ filtered' \in Seq(Code)
          /\ \A k \in 1 .. read : filtered'[k] = code[k]
      BY <1>5, <3>1 DEF read
    <3>5. /\ Len(unread') = Len(code) - Len(filtered')
          /\ \A k \in 1 .. Len(unread') : unread'[k] = code[Len(filtered') + k]
          /\ \A k \in 1 .. Len(filtered') : filtered'[k] = code[k]
          /\ Len(filtered') <= Len(code)
      BY <1>5, <3>2, <3>3, <3>4
    <3> QED
      BY <1>3, <1>7, <3>4, <3>5 DEF IsFiltered, Code
  <2>2. CASE p > 1
    <3>1. read < Len(code) /\ Head(unread) = code[read + 1]
      <4>1. read < Len(code) /\ 1 \in 1 .. Len(unread)
        BY <1>2, <1>5, <1>6, <1>13, <2>2
      <4>2. unread[1] = code[read + 1]
        BY <1>13, <2>2, <4>1
      <4> QED
        BY <1>7, <4>1, <4>2
    <3>2. Len(unread') = Len(code) - (read + 1) + 1 /\ p - 1 \in 1 .. Len(unread')
      BY <1>2, <1>5, <1>6, <1>7, <1>13, <2>2
    <3>3. ASSUME NEW k \in 1 .. Len(unread')
          PROVE  unread'[k] = IF k < p - 1 THEN code[read + 1 + k]
                              ELSE IF k = p - 1 THEN Blank ELSE code[read + 1 + k - 1]
      <4>1. k + 1 \in 1 .. Len(unread) /\ k \in 1 .. Len(unread) - 1
        BY <1>6, <1>7
      <4>2. unread'[k] = IF k + 1 < p THEN code[read + (k + 1)]
                         ELSE IF k + 1 = p THEN Blank ELSE code[read + (k + 1) - 1]
        BY <1>7, <1>13, <4>1
      <4>3. /\ read + (k + 1) = read + 1 + k /\ read + (k + 1) - 1 = read + 1 + k - 1
            /\ (k + 1 < p) = (k < p - 1) /\ (k + 1 = p) = (k = p - 1)
        BY <1>5, <1>6, <4>1
      <4> QED
        BY <4>2, <4>3
    <3>4. /\ Len(unread') = Len(code) - Len(filtered') + 1
          /\ \E q \in 1 .. Len(unread') : \A k \in 1 .. Len(unread') :
                 unread'[k] = IF k < q THEN code[Len(filtered') + k]
                              ELSE IF k = q THEN Blank ELSE code[Len(filtered') + k - 1]
      BY <1>11, <3>1, <3>2, <3>3
    <3> QED
      BY <1>3, <1>7, <1>11, <3>1, <3>4 DEF IsFiltered, Code
  <2>3. p = 1 \/ p > 1
    BY <1>6
  <2> QED
    BY <2>1, <2>2, <2>3
<1>14. IsFiltered(code)'
  <2>1. \/ /\ Len(unread) = Len(code) - read
           /\ \A k \in 1 .. Len(unread) : unread[k] = code[read + k]
        \/ /\ Len(unread) = Len(code) - read + 1
           /\ \E p \in 1 .. Len(unread) : \A k \in 1 .. Len(unread) :
                  unread[k] = IF k < p THEN code[read + k]
                              ELSE IF k = p THEN Blank ELSE code[read + k - 1]
    BY <1>4 DEF IsFiltered, read
  <2> QED
    BY <1>12, <1>13, <2>1
<1> QED
  BY <1>1, <1>3, <1>10, <1>14 DEF TextInv, shiftVars, code

\* When all of it has passed, the sextets are what is left of the code.
LEMMA RemovePaddingLeavesSextets ==
    ASSUME TextInv, RemovePadding
    PROVE  TextInv'
<1> DEFINE code == Encoded(payload)
           s == Sextets(payload)
<1>1. /\ UNCHANGED <<coding, payload, text, filtered, shiftVars>>
      /\ stage = "filtering" /\ unread = <<>> /\ stage' = "decoding"
      /\ unread' = WithoutPadding(filtered)
  BY DEF RemovePadding
<1>2. payload \in Seq(Bytes)
  BY PayloadHasBytes
<1>3. code \in Seq(Alphabet \cup {Pad}) /\ IsCode(code, payload) /\ Len(code) \in Nat
  BY <1>2, EncodedIsCode, LenProperties DEF IsCode
<1>4. filtered = code
  <2>1. IsFiltered(code) /\ Len(unread) = 0
    BY <1>1 DEF TextInv
  <2> HIDE DEF code
  <2>2. /\ filtered \in Seq(Alphabet \cup {Pad}) /\ Len(filtered) \in Nat
        /\ Len(filtered) = Len(code)
        /\ \A k \in 1 .. Len(filtered) : filtered[k] = code[k]
    BY <1>3, <2>1, LenProperties DEF IsFiltered
  <2> QED
    BY <1>3, <2>2, SeqEqual
<1>5. unread' = s
  BY <1>1, <1>2, <1>3, <1>4, WithoutPaddingIsSextets
<1>6. s \in Seq(Alphabet) /\ Len(s) \in Nat
  BY <1>2, SextetsType, LenProperties
<1>7. accumulator' = 0 /\ bits' = 0 /\ decoded' = <<>> /\ payload' = payload
  BY <1>1 DEF TextInv, shiftVars
<1>8. s' = s
  BY <1>7 DEF Sextets
<1> HIDE DEF s, code
<1>9. IsDecoded(s)'
  <2>1. Len(s) - Len(s) = 0 /\ \A k \in 1 .. Len(s) : s[k] = s[0 + k]
    BY <1>6
  <2>2. <<>> \in Seq(Bytes) /\ Len(<<>>) = 0
    BY EmptySeq
  <2>3. (6 * 0) % 8 = 0 /\ (6 * 0) \div 8 = 0
    BY SMT
  <2> QED
    BY <1>5, <1>6, <1>7, <1>8, <2>1, <2>2, <2>3 DEF IsDecoded
<1>10. UNCHANGED <<coding, payload, text, filtered>> /\ Encoded(payload)' = Encoded(payload)
  BY <1>1 DEF Encoded
<1> QED
  BY <1>1, <1>9, <1>10 DEF TextInv, s

\* Each sextet brings six bits, and three of four of them complete a byte.
LEMMA BitsLeft ==
    ASSUME NEW n \in Nat
    PROVE  /\ (6 * n) % 8 \in Nat
           /\ n % 4 = 0 <=> ((6 * n) % 8) + 6 < 8
           /\ (6 * (n + 1)) % 8 = IF n % 4 = 0 THEN ((6 * n) % 8) + 6 ELSE ((6 * n) % 8) - 2
           /\ (6 * (n + 1)) \div 8 = IF n % 4 = 0 THEN (6 * n) \div 8 ELSE ((6 * n) \div 8) + 1
<1>1. \E g \in Nat, p \in 0 .. 3 : n = 4 * g + p /\ n \div 4 = g /\ n % 4 = p
  BY SMT
<1>2. PICK g \in Nat, p \in 0 .. 3 : n = 4 * g + p /\ n % 4 = p
  BY <1>1
<1>3. /\ 6 * n = 24 * g + 6 * p
      /\ 6 * (n + 1) = 24 * g + 6 * p + 6
  BY <1>2, SMT
<1>4. CASE p = 0
  BY <1>2, <1>3, <1>4, SMT
<1>5. CASE p = 1
  BY <1>2, <1>3, <1>5, SMT
<1>6. CASE p = 2
  BY <1>2, <1>3, <1>6, SMT
<1>7. CASE p = 3
  BY <1>2, <1>3, <1>7, SMT
<1> QED
  BY <1>4, <1>5, <1>6, <1>7

\* Twelve bits hold the last two sextets.
LEMMA TwelveBits ==
    ASSUME NEW a \in Nat, NEW char \in Alphabet,
           NEW next, next = (a * 64 + char) % 4096
    PROVE  next \in Nat /\ next = (a % 64) * 64 + char /\ next % 64 = char
<1>1. char \in 0 .. 63
  BY DEF Alphabet
<1>2. PICK p \in Nat, q \in 0 .. 63 : a = p * 64 + q
  <2>1. \E p \in Nat, q \in 0 .. 63 : a = p * 64 + q /\ a \div 64 = p /\ a % 64 = q
    BY SMT
  <2> QED
    BY <2>1
<1>3. a % 64 = q
  BY <1>2, SMT
<1>4. PICK r \in 0 .. 4095 : r = q * 64 + char
  BY <1>1, SMT
<1>5. a * 64 + char = p * 4096 + r
  BY <1>1, <1>2, <1>4, SMT
<1>6. (p * 4096 + r) % 4096 = r
  BY SMT
<1>7. r % 64 = char
  BY <1>1, <1>4, SMT
<1>8. next = r
  BY <1>5, <1>6
<1>9. next \in Nat
  <2>1. r \in Nat
    BY SMT
  <2> QED
    BY <1>8, <2>1
<1>10. next % 64 = char
  BY <1>7, <1>8
<1>11. next = (a % 64) * 64 + char
  BY <1>3, <1>4, <1>8
<1> QED
  BY <1>9, <1>10, <1>11

\* A sextet that is shifted in completes a byte, or else none is due.
LEMMA ShiftDecodes ==
    ASSUME TextInv, Shift
    PROVE  TextInv'
<1>1. /\ stage = "decoding" /\ unread # <<>> /\ unread' = Tail(unread)
      /\ UNCHANGED <<coding, payload, text, filtered>>
  BY DEF Shift
<1>2. payload \in Seq(Bytes) /\ Len(payload) \in Nat
  BY PayloadHasBytes, LenProperties
<1>3. PICK s : s = Sextets(payload)
  OBVIOUS
<1>4. s \in Seq(Alphabet) /\ Len(s) \in Nat
  BY <1>2, <1>3, SextetsType, LenProperties
<1>5. IsDecoded(s) /\ Sextets(payload)' = s
  BY <1>1, <1>3 DEF TextInv, Sextets
<1>6. unread \in Seq(Alphabet) /\ Len(unread) \in Nat \ {0}
  BY <1>1, <1>5, LenProperties, EmptySeq DEF IsDecoded
<1>7. PICK read \in Nat :
          /\ read = Len(s) - Len(unread)
          /\ \A k \in 1 .. Len(unread) : unread[k] = s[read + k]
          /\ accumulator \in Nat
          /\ read > 0 => accumulator % 64 = s[read]
          /\ bits = (6 * read) % 8
          /\ decoded \in Seq(Bytes)
          /\ Len(decoded) = (6 * read) \div 8
          /\ \A k \in 1 .. Len(decoded) : decoded[k] = payload[k]
  <2>1. Len(s) - Len(unread) \in Nat
    BY <1>4, <1>5, <1>6 DEF IsDecoded
  <2> QED
    BY <1>5, <2>1 DEF IsDecoded
<1>8. PICK char \in Alphabet :
          /\ char = Head(unread) /\ char = s[read + 1]
          /\ unread' \in Seq(Alphabet)
          /\ Len(unread') = Len(unread) - 1
          /\ \A k \in 1 .. Len(unread) - 1 : unread'[k] = unread[k + 1]
  <2>1. Head(unread) = unread[1]
    OBVIOUS
  <2>2. /\ Head(unread) \in Alphabet /\ unread' \in Seq(Alphabet)
        /\ Len(unread') = Len(unread) - 1
        /\ \A k \in 1 .. Len(unread') : unread'[k] = unread[k + 1]
    BY <1>1, <1>6, HeadTailProperties
  <2>3. Head(unread) = s[read + 1]
    BY <1>6, <1>7, <2>1
  <2> QED
    BY <2>2, <2>3
<1>9. char # Pad
  <2>1. Pad \notin Alphabet
    BY DEF Alphabet, Pad
  <2> QED
    BY <1>8, <2>1
<1>10. /\ accumulator' = (accumulator * 64 + char) % 4096
       /\ bits' = IF bits + 6 < 8 THEN bits + 6 ELSE bits - 2
       /\ decoded' = IF bits + 6 < 8 THEN decoded
                     ELSE Append(decoded, (accumulator' \div ByteAbove(bits')) % 256)
       /\ stage' = stage
  BY <1>8, <1>9 DEF Shift
<1>11. read < Len(s)
  BY <1>4, <1>6, <1>7
<1>12. /\ accumulator' \in Nat
       /\ accumulator' % 64 = char
       /\ accumulator' = (accumulator % 64) * 64 + char
  BY <1>7, <1>10, TwelveBits
<1>13. read > 0 => accumulator' = s[read] * 64 + char
  BY <1>7, <1>12
<1>14. /\ bits + 6 < 8 <=> read % 4 = 0
       /\ bits' = (6 * (read + 1)) % 8
  BY <1>7, <1>10, BitsLeft
<1>15. /\ decoded' \in Seq(Bytes)
       /\ Len(decoded') = (6 * (read + 1)) \div 8
       /\ \A k \in 1 .. Len(decoded') : decoded'[k] = payload[k]
  <2>1. CASE read % 4 = 0
    <3>1. (6 * (read + 1)) \div 8 = (6 * read) \div 8
      BY <1>7, <2>1, BitsLeft
    <3>2. decoded' = decoded
      BY <1>10, <1>14, <2>1
    <3> QED
      BY <1>7, <3>1, <3>2
  <2>2. CASE read % 4 # 0
    <3>1. ~ (bits + 6 < 8)
      BY <1>14, <2>2
    <3>2. (6 * (read + 1)) \div 8 = ((6 * read) \div 8) + 1
      BY <1>7, <2>2, BitsLeft
    <3>3. read > 0 /\ read \in 1 .. Len(s) - 1
      BY <1>4, <1>11, <2>2, SMT
    <3>4. PICK m \in Nat : m = (6 * read) \div 8
      BY <1>7, SMT
    <3>5. /\ m + 1 \in 1 .. Len(payload)
          /\ ((s[read] * 64 + s[read + 1]) \div ByteAbove((6 * (read + 1)) % 8)) % 256
                 = payload[m + 1]
      BY <1>2, <2>2, <3>3, <3>4, <1>3, PairGivesByte
    <3>6. decoded' = Append(decoded, payload[m + 1])
      <4>1. accumulator' = s[read] * 64 + s[read + 1]
        BY <1>8, <1>13, <3>3
      <4>2. (accumulator' \div ByteAbove(bits')) % 256 = payload[m + 1]
        BY <1>14, <3>5, <4>1
      <4> QED
        BY <1>10, <3>1, <4>2
    <3>7. payload[m + 1] \in Bytes
      BY <1>2, <3>5, ElementOfSeq
    <3>8. /\ decoded' \in Seq(Bytes)
          /\ Len(decoded') = m + 1
          /\ \A k \in 1 .. m : decoded'[k] = decoded[k]
          /\ decoded'[m + 1] = payload[m + 1]
      BY <1>7, <3>4, <3>6, <3>7, AppendProperties
    <3>9. ASSUME NEW k \in 1 .. m + 1
          PROVE  decoded'[k] = payload[k]
      <4>1. k \in 1 .. m \/ k = m + 1
        BY <3>4
      <4> QED
        BY <1>7, <3>4, <3>8, <4>1
    <3> QED
      BY <3>2, <3>4, <3>8, <3>9
  <2> QED
    BY <2>1, <2>2
<1>16. IsDecoded(s)'
  <2>1. Len(s) - Len(unread') = read + 1
    BY <1>4, <1>6, <1>7, <1>8
  <2>2. \A k \in 1 .. Len(unread') : unread'[k] = s[read + 1 + k]
    <3> SUFFICES ASSUME NEW k \in 1 .. Len(unread')
                 PROVE  unread'[k] = s[read + 1 + k]
      OBVIOUS
    <3>1. k \in 1 .. Len(unread) - 1 /\ k + 1 \in 1 .. Len(unread) /\ read + (k + 1) = read + 1 + k
      BY <1>6, <1>7, <1>8
    <3> QED
      BY <1>7, <1>8, <3>1
  <2>3. read + 1 >= 0 /\ payload' = payload
    BY <1>1, <1>7
  <2>4. accumulator' % 64 = s[read + 1]
    BY <1>8, <1>12
  <2> QED
    BY <1>8, <1>12, <1>14, <1>15, <2>1, <2>2, <2>3, <2>4 DEF IsDecoded
<1>17. Encoded(payload)' = Encoded(payload)
  BY <1>1 DEF Encoded
<1> QED
  BY <1>1, <1>5, <1>10, <1>16, <1>17 DEF TextInv

\* After the last sextet the payload is complete, and only an empty one had
\* an empty text.
LEMMA ReturnGivesPayload ==
    ASSUME TextInv, Return
    PROVE  TextInv'
<1> DEFINE s == Sextets(payload)
<1>1. /\ UNCHANGED <<coding, payload, text, unread, filtered, shiftVars>>
      /\ stage = "decoding" /\ unread = <<>>
      /\ stage' = IF coding = "SQS" /\ decoded = <<>> /\ text # <<>>
                  THEN "rejected" ELSE "decoded"
  BY DEF Return
<1>2. payload \in Seq(Bytes) /\ Len(payload) \in Nat
  BY PayloadHasBytes, LenProperties
<1>3. Len(s) = (4 * Len(payload) + 2) \div 3 /\ Len(s) \in Nat
  BY <1>2, SextetsType, LenProperties
<1>4. IsDecoded(s) /\ Len(unread) = 0
  BY <1>1 DEF TextInv
<1> HIDE DEF s
<1>5. /\ decoded \in Seq(Bytes)
      /\ Len(decoded) = (6 * Len(s)) \div 8
      /\ \A k \in 1 .. Len(decoded) : decoded[k] = payload[k]
  BY <1>3, <1>4 DEF IsDecoded
<1>6. Len(decoded) = Len(payload)
  BY <1>2, <1>3, <1>5, SMT
<1>7. decoded = payload
  BY <1>2, <1>5, <1>6, SeqEqual
<1>8. coding = "SQS" /\ decoded = <<>> => text = <<>>
  <2>1. coding = "SQS" => text = Encoded(payload)
    BY <1>1 DEF TextInv
  <2> QED
    BY <1>2, <1>7, <2>1, EncodedIsCode
<1>9. stage' = "decoded"
  BY <1>1, <1>8
<1>10. Encoded(payload)' = Encoded(payload)
  BY <1>1 DEF Encoded
<1> QED
  BY <1>1, <1>7, <1>9, <1>10 DEF TextInv, shiftVars

\* The inductive invariant of the codings.
THEOREM TextInvariant == TextSpec => []TextInv
<1>1. TextInit => TextInv
  BY DEF TextInit, TextInv
<1>2. TextInv /\ [TextNext]_textVars => TextInv'
  <2> SUFFICES ASSUME TextInv, [TextNext]_textVars
               PROVE  TextInv'
    OBVIOUS
  <2>1. CASE Encode
    BY <2>1, EncodeSends
  <2>2. CASE \E place \in 1 .. Len(Base64Encode(payload)) + 1 : EncodeInLines(place)
    BY <2>2, EncodeInLinesSends
  <2>3. CASE Receive
    BY <2>3, ReceiveFilters
  <2>4. CASE Filter
    BY <2>4, FilterKeepsCode
  <2>5. CASE RemovePadding
    BY <2>5, RemovePaddingLeavesSextets
  <2>6. CASE Shift
    BY <2>6, ShiftDecodes
  <2>7. CASE Return
    BY <2>7, ReturnGivesPayload
  <2>8. CASE UNCHANGED textVars
    <3>1. UNCHANGED <<coding, payload, text, stage, unread, filtered, accumulator, bits, decoded>>
      BY <2>8 DEF textVars, shiftVars
    <3>2. /\ Encoded(payload)' = Encoded(payload)
          /\ Sextets(payload)' = Sextets(payload)
      BY <3>1 DEF Encoded, Sextets
    <3>3. /\ IsFiltered(Encoded(payload))' <=> IsFiltered(Encoded(payload))
          /\ IsDecoded(Sextets(payload))' <=> IsDecoded(Sextets(payload))
      BY <3>1, <3>2 DEF IsFiltered, IsDecoded
    <3> QED
      BY <3>1, <3>2, <3>3 DEF TextInv
  <2> QED
    BY <2>1, <2>2, <2>3, <2>4, <2>5, <2>6, <2>7, <2>8 DEF TextNext
<1> QED
  BY <1>1, <1>2, PTL DEF TextSpec

\* DecodingInvertsEncoding (Base64Decode, DecodePayload): whatever the bytes
\* and their number, what was encoded is accepted and decoded to the same
\* bytes, with padding or without, wherever a line was broken.
THEOREM PayloadsSurvive == TextSpec => []DecodingInvertsEncoding
<1>1. TextInv => DecodingInvertsEncoding
  BY DEF TextInv, DecodingInvertsEncoding
<1> QED
  BY <1>1, TextInvariant, PTL
=============================================================================
