---------------------------- MODULE SpanSampling ----------------------------
(***************************************************************************)
(* otel.py: TailSamplingSpanProcessor, which keeps a trace's spans until   *)
(* none of them is open and then exports all of them or none, the flush at *)
(* the end of a request, and the shutdown.  Every section under _lock is   *)
(* one step, and so is a batch handed to the exporter: between the two the *)
(* thread has left the lock with the batch in its hands.                   *)
(*                                                                         *)
(* A request is a thread with a root span and children, all in one trace;  *)
(* two requests may belong to one trace.  Children may outlive the root.   *)
(*                                                                         *)
(* The last section is the process around it: configure_tracing, the chain *)
(* of SIGTERM handlers beside a server that replaces and restores them,    *)
(* the lifespan, and the net at interpreter exit.                          *)
(***************************************************************************)
EXTENDS Integers, FiniteSets, Sequences, SequencesExt

CONSTANTS
  Traces,                 \* trace ids
  TracedRequests,               \* requests, one after the other or at once
  SpansPerRequest,        \* bound: the root and its children
  MaxErrors,              \* bound: spans that signal an error
  MaxLate,                \* bound: spans that end across the shutdown
  MaxSpansPerTrace,       \* max_spans_per_trace
  MaxBufferedTraces       \* max_buffered_traces

Spans == TracedRequests \X (1 .. SpansPerRequest)
Nowhere == "no trace"
Closer == "shutdown"

ASSUME SamplerAssumption ==
  /\ SpansPerRequest \in Nat /\ MaxSpansPerTrace \in Nat /\ MaxBufferedTraces \in Nat
  /\ Nowhere \notin Traces /\ Closer \notin TracedRequests

VARIABLES
  chance,       \* the traces the ratio keeps, and on_overflow
  buffers,      \* _buffers: the trace's ended spans
  order,        \* the order of the keys of _buffers and of _started_at: <<a, b>> where a is b or older
  aged,         \* those started longer ago than max_trace_age_seconds
  openSpans,    \* _open_spans, an absent key counting zero
  marked,       \* _overflowed_keep or _overflowed_drop, whichever on_overflow uses
  request,      \* the requests
  closing,      \* where shutdown is
  late,         \* spans whose on_end read _shutdown before it was set, and has not come to the lock
  outgoing,     \* batches a flush has taken out of the lock to export
  streams,      \* batches an ending span's thread has
  errors,       \* spans that signal an error
  exported,       \* history: how often a span was handed to the exporter
  judgedOut,    \* history: spans of traces the ratio left out
  dropped,      \* history: spans dropped for the cap
  cut,          \* history: traces resolved with spans open: overflowed, or too old
  astride,         \* history: traces a span of which started or ended during the shutdown
  life             \* the process

samplerVars == <<chance, buffers, order, aged, openSpans, marked, request, closing, late, outgoing, streams,
                 errors, exported, judgedOut, dropped, cut, astride, life>>
verdicts == <<exported, judgedOut, dropped>>

Unserved == [at |-> "idle", trace |-> Nowhere, started |-> 0, open |-> {}]

\* A chain of handlers runs from its head; "default" is SIG_DFL, "server" the
\* server's own, which delegates to nobody.
NewLife(wrapped) ==
  [configured |-> FALSE, processor |-> FALSE, net |-> FALSE, handler |-> <<"default">>, hook |-> <<>>, signalled |-> FALSE,
   server |-> "none", restores |-> <<>>, wrapped |-> wrapped, captured |-> FALSE, exit |-> "no",
   shutdowns |-> 0, failed |-> FALSE, loud |-> FALSE, unheard |-> FALSE]

SamplerInit ==
  /\ chance \in [sampled : SUBSET Traces, onOverflow : {"export", "drop"}]
  /\ buffers = [t \in Traces |-> {}] /\ order = {} /\ aged = {}
  /\ openSpans = [t \in Traces |-> 0] /\ marked = {}
  /\ request = [q \in TracedRequests |-> Unserved] /\ closing = "no" /\ late = {}
  /\ outgoing = [q \in TracedRequests \cup {Closer} |-> {}]
  /\ streams = {} /\ errors = {} /\ exported = [s \in Spans |-> 0] /\ judgedOut = {} /\ dropped = {}
  /\ cut = {} /\ astride = {}
  /\ \E wrapped \in BOOLEAN : life = NewLife(wrapped)

Keys(line) == {t \in Traces : <<t, t>> \in line}
Joined(line, t) == line \cup ((Keys(line) \cup {t}) \X {t})
Without(line, gone) == {pair \in line : pair[1] \notin gone /\ pair[2] \notin gone}

\* The first n of some keys.
Oldest(line, keys, n) == {t \in keys : Cardinality({u \in keys : <<u, t>> \in line}) <= n}

Buffered == Keys(order)
Complete(open) == {t \in Buffered : open[t] = 0}
ToExporter(spans) == exported' = [s \in Spans |-> exported[s] + IF s \in spans THEN 1 ELSE 0]

\* The tail decision, and the traces it keeps among those resolved.
ShouldKeep(t, spans, bad) == (spans \cap bad) # {} \/ t \in chance.sampled

-------------------------------------------------------------------------------
\* A root span, or a child while a span of the request is open.
StartSpan(q, t) ==
  /\ \/ request[q].at = "idle"
     \/ request[q].at # "idle" /\ request[q].open # {} /\ t = request[q].trace
  /\ request[q].started < SpansPerRequest
  /\ request' = [request EXCEPT ![q] = [at |-> IF @.at = "idle" THEN "running" ELSE @.at, trace |-> t, started |-> @.started + 1,
                                         open |-> @.open \cup {@.started + 1}]]
  /\ openSpans' = [openSpans EXCEPT ![t] = @ + 1]
  /\ astride' = IF closing = "no" THEN astride ELSE astride \cup {t}
  /\ UNCHANGED <<chance, buffers, order, aged, marked, closing, late, outgoing, streams, errors, verdicts, cut>>

\* Whether the trace just reached zero open spans, and the count that leaves.
StillOpen(t) == IF openSpans[t] = 0 THEN 0 ELSE openSpans[t] - 1
JustComplete(t) == openSpans[t] = 1

\* Which traces an arriving span evicts: those too old, and then, oldest first, as
\* many complete ones as are over the ceiling.  The variant takes open ones too.
Evicted_openToo(line, open) ==
  LET young == Keys(line) \ aged
  IN  (Keys(line) \cap aged) \cup Oldest(line, young, Cardinality(young) - MaxBufferedTraces)

Evicted(line, open) ==
  LET young == Keys(line) \ aged
      whole == {t \in young : open[t] = 0}
  IN  (Keys(line) \cap aged) \cup Oldest(line, whole, Cardinality(young) - MaxBufferedTraces)

\* An ended span is buffered.  The traces it evicts are judged, and exported, at once.
Buffer(s, t, bad) ==
  LET line == IF t \in Buffered THEN order ELSE Joined(order, t)
      open == [openSpans EXCEPT ![t] = StillOpen(t)]
      filled == [buffers EXCEPT ![t] = @ \cup {s}]
      gone == Evicted(line, open)
      kept == {g \in gone : ShouldKeep(g, filled[g], bad)}
  IN  /\ order' = Without(line, gone)
      /\ aged' = aged \ gone
      /\ buffers' = [k \in Traces |-> IF k \in gone THEN {} ELSE filled[k]]
      /\ ToExporter(UNION {filled[g] : g \in kept})
      /\ judgedOut' = judgedOut \cup UNION {filled[g] : g \in gone \ kept}
      /\ cut' = cut \cup {g \in gone \cap aged : open[g] # 0}
      /\ UNCHANGED <<marked, streams, dropped>>

\* The trace hits its cap: it leaves the buffer, whole, without a decision.
Overflow(s, t) ==
  /\ order' = Without(order, {t}) /\ aged' = aged \ {t}
  /\ buffers' = [buffers EXCEPT ![t] = {}]
  /\ marked' = marked \cup {t}
  /\ cut' = cut \cup {t}
  /\ IF chance.onOverflow = "drop"
     THEN dropped' = dropped \cup buffers[t] \cup {s} /\ UNCHANGED streams
     ELSE streams' = streams \cup {buffers[t] \cup {s}} /\ UNCHANGED dropped
  /\ UNCHANGED <<exported, judgedOut>>

\* A later span of such a trace follows it; the last one clears the marker.
FollowMarker(s, t) ==
  /\ marked' = IF JustComplete(t) THEN marked \ {t} ELSE marked
  /\ IF chance.onOverflow = "drop"
     THEN dropped' = dropped \cup {s} /\ UNCHANGED streams
     ELSE streams' = streams \cup {{s}} /\ UNCHANGED dropped
  /\ UNCHANGED <<order, aged, buffers, exported, judgedOut, cut>>

EndSpan(q, n) ==
  LET t == request[q].trace
      s == <<q, n>> IN
  /\ n \in request[q].open
  /\ request' = [request EXCEPT ![q].open = @ \ {n}]
  /\ \E bad \in {errors} \cup {b \in {errors \cup {s}} : Cardinality(b) <= MaxErrors} :
       /\ errors' = bad
       /\ \/ /\ closing = "down" /\ s \notin late
             /\ UNCHANGED <<openSpans, order, aged, buffers, marked, streams, verdicts, cut>>
          \/ /\ closing # "down" \/ s \in late
             /\ openSpans' = [openSpans EXCEPT ![t] = StillOpen(t)]
             /\ \/ t \in marked /\ FollowMarker(s, t)
                \/ t \notin marked /\ Cardinality(buffers[t]) < MaxSpansPerTrace /\ Buffer(s, t, bad)
                \/ t \notin marked /\ Cardinality(buffers[t]) >= MaxSpansPerTrace /\ Overflow(s, t)
  /\ astride' = IF closing = "no" THEN astride ELSE astride \cup {t}
  /\ UNCHANGED <<chance, closing, late, outgoing>>

-------------------------------------------------------------------------------
\* force_flush under the lock: every trace with no span open.
Resolvable == Complete(openSpans)

ForceFlush(who) ==
  LET kept == {t \in Resolvable : ShouldKeep(t, buffers[t], errors)} IN
  /\ order' = Without(order, Resolvable) /\ aged' = aged \ Resolvable
  /\ buffers' = [t \in Traces |-> IF t \in Resolvable THEN {} ELSE buffers[t]]
  /\ marked' = marked \ Resolvable
  /\ outgoing' = [outgoing EXCEPT ![who] = {buffers[t] : t \in kept}]
  /\ judgedOut' = judgedOut \cup UNION {buffers[t] : t \in Resolvable \ kept}
  /\ UNCHANGED <<chance, openSpans, streams, errors, exported, dropped, cut, astride>>

\* The lock is free again, and one batch goes to the exporter.
Export(batch) ==
  /\ \/ batch \in streams /\ streams' = streams \ {batch} /\ UNCHANGED outgoing
     \/ \E who \in TracedRequests \cup {Closer} :
          /\ batch \in outgoing[who] /\ outgoing' = [outgoing EXCEPT ![who] = @ \ {batch}]
          /\ UNCHANGED streams
  /\ ToExporter(batch)
  /\ UNCHANGED <<chance, buffers, order, aged, openSpans, marked, request, closing, late, errors, judgedOut, dropped, cut, astride>>

\* The inner application has returned; the final message waits for the flush.
FlushRequest(q) ==
  /\ request[q].at = "running" /\ 1 \notin request[q].open
  /\ request' = [request EXCEPT ![q].at = "flushing"]
  /\ ForceFlush(q)
  /\ UNCHANGED <<closing, late>>

\* The response is complete: Lambda may freeze the process now.  A child left
\* behind may still end.
Answer(q) ==
  /\ request[q].at = "flushing" /\ outgoing[q] = {}
  /\ request' = [request EXCEPT ![q].at = "answered"]
  /\ UNCHANGED <<chance, buffers, order, aged, openSpans, marked, closing, late, outgoing, streams, errors, verdicts, cut, astride>>

-------------------------------------------------------------------------------
GrowOld ==
  /\ \E t \in Buffered \ aged : /\ \A u \in Buffered \ {t} : <<u, t>> \in order => u \in aged
                                /\ aged' = aged \cup {t}
  /\ UNCHANGED <<chance, buffers, order, openSpans, marked, request, closing, late, outgoing, streams, errors, verdicts, cut, astride>>

\* shutdown forgets which spans are open, so that its flush resolves every trace;
\* the flag on_end reads is set, and the exporter shut, after the flush.
BeginShutdown ==
  /\ closing = "no" /\ closing' = "flush"
  /\ openSpans' = [t \in Traces |-> 0]
  /\ UNCHANGED <<chance, buffers, order, aged, marked, request, late, outgoing, streams, errors, verdicts, cut, astride>>

ShutdownFlush == closing = "flush" /\ closing' = "flag" /\ ForceFlush(Closer) /\ UNCHANGED <<request, late>>

FinishShutdown ==
  /\ closing = "flag" /\ outgoing[Closer] = {} /\ closing' = "down"
  /\ late' \in {l \in SUBSET {s \in Spans : s[2] \in request[s[1]].open} : Cardinality(l) <= MaxLate}
  /\ UNCHANGED <<chance, buffers, order, aged, openSpans, marked, request, outgoing, streams, errors, verdicts, cut, astride>>

SamplerNext ==
  /\ UNCHANGED life
  /\ \/ \E q \in TracedRequests :
          \/ \E t \in Traces : StartSpan(q, t)
          \/ \E n \in 1 .. SpansPerRequest : EndSpan(q, n)
          \/ FlushRequest(q) \/ Answer(q)
     \/ \E batch \in streams \cup UNION {outgoing[who] : who \in TracedRequests \cup {Closer}} : Export(batch)
     \/ GrowOld \/ BeginShutdown \/ ShutdownFlush \/ FinishShutdown

-------------------------------------------------------------------------------
(* The process.                                                            *)

\* _install_sigterm_hook: in front of the handler that is there, unless it is the hook.
Hooked(l) == IF l.handler = l.hook THEN l ELSE [l EXCEPT !.handler = <<"hook">> \o @, !.hook = <<"hook">> \o l.handler]

\* configure_tracing: nothing while configured, or disabled.
ConfigureTracing ==
  /\ life.exit = "no" /\ ~life.configured /\ life.shutdowns = 0
  /\ life' = [Hooked(life) EXCEPT !.configured = TRUE, !.processor = TRUE, !.net = TRUE]

\* note_shutdown_signal, by the hook, by the lifespan on its way out, and at exit.
NoteShutdownSignal(l) == [l EXCEPT !.signalled = TRUE]

\* The signal runs down the chain.
Delivered(l) ==
  LET noted == IF "hook" \in ToSet(l.handler) THEN NoteShutdownSignal(l) ELSE l IN
  IF Last(l.handler) = "server" THEN [noted EXCEPT !.captured = TRUE, !.server = IF @ = "up" THEN "stopping" ELSE @]
  ELSE [noted EXCEPT !.exit = "sigterm"]

Sigterm ==
  /\ life.exit = "no"
  /\ life' = [Delivered(life) EXCEPT !.unheard = @ \/ life.handler = <<"server">>]

\* The server takes the signal over before it starts the application...
ServerStarts ==
  /\ life.exit = "no" /\ life.server = "none"
  /\ life' = [life EXCEPT !.server = "starting", !.restores = life.handler, !.handler = <<"server">>]

\* ...whose lifespan, if it was wrapped, puts the hook back on.
LifespanStarts ==
  /\ life.exit = "no" /\ life.server = "starting"
  /\ life' = [IF life.wrapped THEN Hooked(life) ELSE life EXCEPT !.server = IF life.captured THEN "stopping" ELSE "up"]

ServerStops == life.exit = "no" /\ life.server = "up" /\ life' = [life EXCEPT !.server = "stopping"]

\* shutdown_tracing forgets what it shut down, unless that raised.
ShutdownTracing(l) ==
  IF ~l.processor THEN {l}
  ELSE {[l EXCEPT !.processor = FALSE, !.configured = FALSE, !.shutdowns = @ + 1], [l EXCEPT !.failed = TRUE]}

LifespanEnds ==
  /\ life.exit = "no" /\ life.server = "stopping"
  /\ life' = IF life.wrapped THEN [NoteShutdownSignal(life) EXCEPT !.server = "flushing"] ELSE [life EXCEPT !.server = "stopped"]
TracingEnds ==
  /\ life.exit = "no" /\ life.server = "flushing"
  /\ \E l \in ShutdownTracing(life) : life' = [l EXCEPT !.server = "stopped"]

\* The server restores the handler it found, and raises the signal it took again.
ServerEnds ==
  /\ life.exit = "no" /\ life.server = "stopped"
  /\ LET restored == [life EXCEPT !.server = "over", !.handler = life.restores] IN
     life' = IF life.captured THEN Delivered(restored) ELSE restored

\* The interpreter exits of itself, through the net.
ProcessExits ==
  /\ life.exit = "no" /\ life.server \in {"none", "over"}
  /\ \E l \in IF life.net /\ (life.processor \/ life.configured) THEN ShutdownTracing(NoteShutdownSignal(life)) ELSE {life} :
       life' = [l EXCEPT !.exit = "normal"]

\* A refused export is logged as an error until a shutdown was noted.
ExportRefused ==
  /\ life.exit = "no" /\ life.processor /\ ~life.loud
  /\ life' = [life EXCEPT !.loud = ~life.signalled /\ life.captured]

ProcessNext ==
  /\ \/ ConfigureTracing \/ Sigterm \/ ServerStarts \/ LifespanStarts \/ ServerStops \/ LifespanEnds \/ TracingEnds
     \/ ServerEnds \/ ProcessExits \/ ExportRefused
  /\ UNCHANGED <<chance, buffers, order, aged, openSpans, marked, request, closing, late, outgoing, streams, errors, verdicts, cut, astride>>

-------------------------------------------------------------------------------
(* Properties.                                                             *)

SpansOf(q) == {<<q, n>> : n \in 1 .. request[q].started}
Ended(q) == {<<q, n>> : n \in (1 .. request[q].started) \ request[q].open}
Everywhere == UNION {Ended(q) : q \in TracedRequests}
TraceOf(s) == request[s[1]].trace

Leaving == UNION (streams \cup UNION {outgoing[who] : who \in TracedRequests \cup {Closer}})
Kept(s) == exported[s] > 0 \/ s \in Leaving
Places(s) == exported[s] + Cardinality({i \in 1 .. 4 : s \in <<Leaving, judgedOut, dropped, buffers[TraceOf(s)]>>[i]})

\* Every span that ended is in one place: buffered, on its way, exported, left out
\* or dropped.  Whatever flushes, evictions and overflows cross, none is exported
\* twice or forgotten.  A shutdown leaves nothing in the buffers, of traces that
\* were quiet while it ran.
SpansAreAccountedFor ==
  /\ \A s \in Everywhere : Places(s) <= 1 /\ (Places(s) = 0 => TraceOf(s) \in astride)
  /\ closing = "down" => Buffered \subseteq astride

\* A request whose trace was neither cut by its cap or its age, nor judged by the
\* shutdown, is decided once and whole: when one of its spans has been, all have
\* ended and all share the verdict, so an error keeps the spans before it.
RequestsAreJudgedWhole ==
  closing = "no" =>
    \A q \in TracedRequests : request[q].trace \notin cut =>
      \/ \A s \in SpansOf(q) : ~Kept(s) /\ s \notin judgedOut
      \/ \A s \in SpansOf(q) : Kept(s)
      \/ \A s \in SpansOf(q) : s \in judgedOut \ errors

\* Memory is bounded: a trace holds no more than its cap, and beyond the ceiling on
\* traces only those with a span open stay.
BuffersAreBounded ==
  /\ \A t \in Traces : Cardinality(buffers[t]) <= MaxSpansPerTrace
  /\ closing = "no" /\ Cardinality(Buffered) > MaxBufferedTraces => Complete(openSpans) = {}

\* _install_sigterm_hook chains "rather than replacing": however configuring, the
\* server and the lifespan come in order, a SIGTERM ends the process once the server
\* is done, and no export it interrupts is an error, unless it came while the server
\* had the signal to itself.  The provider is shut once, and is not left up at an
\* ordinary exit by anything but a failure of its own.
TelemetryEndsWithTheProcess ==
  /\ life.captured /\ life.server = "over" => life.exit = "sigterm"
  /\ life.loud /\ life.wrapped => life.unheard
  /\ life.shutdowns <= 1
  /\ life.exit = "normal" /\ life.processor => life.failed

\* What the processor owes the spans it is given.
SamplingIsWhole == SpansAreAccountedFor /\ RequestsAreJudgedWhole /\ BuffersAreBounded /\ TelemetryEndsWithTheProcess

\* tests/test_otel.py, test_an_overflowed_trace_leaves_no_marker_behind: "Repeated
\* overflow drops leave no overflow markers or open-span bookkeeping behind."  A
\* marker stands only while its trace has a span open.
NoMarkerStaysBehind == closing = "no" => \A t \in marked : openSpans[t] > 0
===============================================================================
