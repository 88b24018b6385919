------------------------------ MODULE CallSpan ------------------------------
(***************************************************************************)
(* The spans of Graft calls on one thread: CallSpan.py, and the hooks of   *)
(* GraftcodeInstrumentation.py that start and complete them.  A span is    *)
(* attached to the thread's context, and an invoke writes it into the      *)
(* thread-local headers of its connection; both are put back when the call *)
(* completes.  A call in memory is handled on the caller's thread, within  *)
(* the invoke, with the headers the connection has then.                   *)
(*                                                                         *)
(* A span is its number, a trace the number of its first span or Remote.   *)
(* Calls of a thread nest: Hypertube invokes and handles synchronously.    *)
(* Commands that open no span change nothing and are left out.             *)
(***************************************************************************)
EXTENDS Naturals, Sequences, SequencesExt

CONSTANTS
    MaxSpans,   \* the bound on the spans started
    Remote,     \* a span, and the trace, of another process
    NoSpan

ASSUME CallSpanAssumption ==
    /\ MaxSpans \in Nat
    /\ Remote \notin Nat /\ NoSpan \notin Nat /\ Remote # NoSpan

VARIABLES
    autoInject,     \* is_auto_inject_enabled
    own,            \* the headers of the connection itself
    local,          \* its thread-local headers
    set,            \* those the application has set last
    current,        \* the span in the thread's context
    nested,         \* the calls the thread is in, the innermost last
    traces,         \* the trace of each span started
    stale           \* a completion has left the headers of its call behind

spanVars == <<autoInject, own, local, set, current, nested, traces, stale>>

NoHeaders == [traceparent |-> NoSpan, traceid |-> NoSpan]

\* What the application or another process may put into headers.
Given == {NoHeaders, [traceparent |-> Remote, traceid |-> Remote],
          [traceparent |-> NoSpan, traceid |-> Remote]}

SpanInit ==
    /\ autoInject \in BOOLEAN
    /\ own \in Given
    /\ local = NoHeaders
    /\ set = NoHeaders
    /\ current = NoSpan
    /\ nested = <<>>
    /\ traces = <<>>
    /\ stale = FALSE

\* The application calls set_thread_local_headers between calls (external).
SetHeaders(headers) ==
    /\ nested = <<>>
    /\ local' = headers /\ set' = headers /\ stale' = FALSE
    /\ UNCHANGED <<autoInject, own, current, nested, traces>>

-----------------------------------------------------------------------------
(* Starting                                                                *)

\* The thread's headers cover the connection's own (external).
get_headers ==
    [h \in DOMAIN NoHeaders |-> IF local[h] # NoSpan THEN local[h] ELSE own[h]]

TraceOf(span) == IF span \in {Remote, NoSpan} THEN span ELSE traces[span]

New == Len(traces) + 1

\* _start: the new span's parent is the one in the headers, or one made up in
\* the trace they name (unless the context is in it already), or the context's.
TraceOfNew(headers) ==
    CASE headers.traceparent # NoSpan -> TraceOf(headers.traceparent)
      [] headers.traceparent = NoSpan /\ headers.traceid # NoSpan -> headers.traceid
      [] headers = NoHeaders -> IF current # NoSpan THEN TraceOf(current) ELSE New

\* The constructor attaches the span; injected, it also goes into the headers.
Open(kind, headers, injected) ==
    /\ New <= MaxSpans
    /\ traces' = Append(traces, TraceOfNew(headers))
    /\ nested' = Append(nested, [kind |-> kind, span |-> New, before |-> current,
                               injected |-> injected, previous |-> local, stale |-> stale])
    /\ current' = New
    /\ local' = IF injected THEN [traceparent |-> New, traceid |-> TraceOfNew(headers)]
                            ELSE local
    /\ UNCHANGED <<autoInject, own, set, stale>>

\* _inject_into leaves a traceparent of the connection's own alone.
Injects ==
    autoInject /\ (get_headers.traceparent # NoSpan => local.traceparent # NoSpan)

start_invoke == Open("invoke", get_headers, Injects)

\* For another process, or within an invoke in memory.
start_handle ==
    \/ nested = <<>> /\ \E headers \in Given : Open("handle", headers, FALSE)
    \/ /\ nested # <<>> /\ Last(nested).kind = "invoke"
       /\ Open("handle", get_headers, FALSE)

-----------------------------------------------------------------------------
(* Completing                                                              *)

Close ==
    /\ nested # <<>>
    /\ nested' = Front(nested)
    /\ current' = Last(nested).before
    /\ UNCHANGED <<autoInject, own, set, traces>>

\* Mistake: the headers stay.
CompleteOnly == Close /\ UNCHANGED <<local, stale>>

\* complete: the headers are put back, then the context.
complete ==
    /\ Close
    /\ IF Last(nested).injected
           THEN local' = Last(nested).previous /\ stale' = Last(nested).stale
           ELSE UNCHANGED <<local, stale>>

\* str(exception) raises: "finally" puts back the context alone.
complete_raises ==
    /\ Close
    /\ stale' = (stale \/ Last(nested).injected)
    /\ UNCHANGED local

SpanNext ==
    \/ \E headers \in Given : SetHeaders(headers)
    \/ start_invoke \/ start_handle
    \/ complete \/ complete_raises

SpanSpec == SpanInit /\ [][SpanNext]_spanVars

-----------------------------------------------------------------------------
(* Properties                                                              *)

\* The context of the thread holds the span of its innermost call, and none
\* between calls, whatever completions raise.
ContextFollowsCalls ==
    current = IF nested = <<>> THEN NoSpan ELSE Last(nested).span

\* The headers name the innermost of the calls that was injected, or are the
\* application's if none was.
HeadersName(headers, within) ==
    \/ /\ \A i \in DOMAIN within : ~within[i].injected
       /\ headers = set
    \/ \E i \in DOMAIN within :
           /\ within[i].injected
           /\ \A j \in DOMAIN within : j > i => ~within[j].injected
           /\ headers.traceparent = within[i].span

\* The headers that go out name the innermost call that was injected, or are
\* the application's: the span of a call that has ended stays in them only
\* after its completion raised, and until the call around it completes.
HeadersFollowCalls == stale \/ HeadersName(local, nested)

\* Unless headers of the application's say otherwise, the calls within a call
\* are in its trace, and an invoke outside any call begins one of its own.
TracesFollowCalls ==
    own = NoHeaders /\ set = NoHeaders /\ ~stale /\ nested # <<>> =>
        /\ \A i \in DOMAIN nested : traces[nested[i].span] = traces[nested[1].span]
        /\ nested[1].kind = "invoke" => traces[nested[1].span] = nested[1].span

\* A traceparent that the application has set on the connection is what goes
\* out ("is never overwritten", Instrumentation/python/README.md).
OwnTraceIsSent ==
    own.traceparent = Remote /\ set.traceparent = NoSpan /\ ~stale
        => get_headers.traceparent = Remote

\* What nested calls and failed completions leave in the thread.
SpansFollowCalls ==
    ContextFollowsCalls /\ HeadersFollowCalls /\ TracesFollowCalls /\ OwnTraceIsSent
=============================================================================
