------------------------------ MODULE Telemetry ------------------------------
(***************************************************************************)
(* What the server derives from one ingested span: Prometheus series with  *)
(* guarded label values (server/metrics.py), exemplars that point at the   *)
(* trace, and the record handed to the OTLP exporter                       *)
(* (server/otlp_exporter.py), as _process_batch calls them.                *)
(*                                                                         *)
(* Times are in seconds.  A label is identified with its clipped text, and *)
(* the provider label, guarded like the model label, is left out.          *)
(* BatchSpanProcessor, to which the exporter hands its records, is the     *)
(* OpenTelemetry SDK's.                                                    *)
(*                                                                         *)
(* A definition followed by one of nearly the same name is a defect of the *)
(* second: the behaviour used only to see which property it breaks.        *)
(***************************************************************************)
EXTENDS Integers, Sequences, FiniteSets

CONSTANTS Spans,       \* the spans that clients, or the evaluators, send
          Cap,         \* _cardinality_caps: of each dimension, its cap
          CacheLimit,  \* 10_000: entries above which the epoch cache is emptied
          Clock,       \* the values of time.time()
          MaxSpans,    \* bound: spans ingested
          Overflow,    \* _OVERFLOW_SENTINEL
          Blank,       \* an attribute that is not there, and the "" read instead
          UnknownName, \* "unknown"
          NoTime       \* None, for a timestamp or a duration

Dimensions == {"model", "agent", "error_type", "tool_name", "guardrail_id", "pricing_profile"}

ASSUME TelemetryAssumption ==
    /\ Cap \in [Dimensions -> Nat]
    /\ CacheLimit \in Nat
    /\ Clock \subseteq Nat \ {0}
    /\ MaxSpans \in Nat
    /\ NoTime \notin Int
    /\ \A s \in Spans :
          /\ {s.start, s.end} \subseteq Int \union {NoTime}
          /\ s.bad # "duration" => s.duration \in Int \union {NoTime}

VARIABLES format,   \* trace_id_format of the registry and of the exporter
          seen,     \* _seen_models, _seen_agents, ...: per dimension, its values
          epochs,   \* _trace_epoch_cache of the exporter
          cleared,  \* history: times that cache was emptied
          ingested, \* history: the spans given to record_span, in order
          series,   \* history: samples added, with the labels they carry
          exemplars,\* history: trace references attached to samples
          exported  \* history: records handed to BatchSpanProcessor

metrics == <<seen, series, exemplars>>
telemetryVars == <<format, epochs, cleared, ingested, exported, metrics>>

-----------------------------------------------------------------------------
(* MetricsRegistry.record_span as the list of samples it would add.  A     *)
(* value the client sent in the wrong type, span.bad, makes one of them    *)
(* raise; those before it stay, those after it are never added.            *)

When(test, sample) == IF test THEN <<sample>> ELSE <<>>

(* A sample and, where its labels have one, its own guarded label. *)
Sample(metric, dim, value) == [metric |-> metric, dim |-> dim, value |-> value]
Bare(metric) == Sample(metric, "none", Blank)

LlmSamples(s) ==
    <<Bare("llm_calls"), Bare("tokens")>>
    \o When(s.profile # Blank, Sample("cost", "pricing_profile", s.profile))
    \o <<Bare("ttft")>>
    \o When(s.guardrail # Blank, Sample("guardrail_requests", "guardrail_id", s.guardrail))
    \o When(s.intervened, Sample("guardrail_violations", "guardrail_id",
            IF s.guardrail = Blank THEN UnknownName ELSE s.guardrail))

ToolSamples(s) == <<Sample("tool_calls", "tool_name", s.name)>>

RetrievalSamples(s) == <<Bare("retrieval_calls")>>

Samples[s \in Spans] ==
    <<Bare("spans_ingested")>>
    \o When(s.duration # NoTime, Bare("duration"))
    \o When(s.error # Blank, Sample("errors", "error_type", s.error))
    \o CASE s.type = "llm" -> LlmSamples(s)
         [] s.type = "tool" -> ToolSamples(s)
         [] s.type = "retrieval" -> RetrievalSamples(s)
         [] OTHER -> <<>>

(* How many samples are begun, and how many completed, before one raises.  *)
Raising(s) == {i \in 1..Len(Samples[s]) : Samples[s][i].metric = s.bad}
Begun(s) == IF Raising(s) = {} THEN Len(Samples[s]) ELSE CHOOSE i \in Raising(s) : TRUE
Completed(s) == IF Raising(s) = {} THEN Begun(s) ELSE Begun(s) - 1

(* The values guarded while a sample is made: once for the whole span,     *)
(* unless its model is blank; a tool or retrieval span guards its labels   *)
(* again for its own series, and there a blank as well.                    *)
OwnLabels == {"tool_calls", "retrieval_calls"}

AgentOf(s, metric) ==
    IF metric = "tool_calls" /\ s.agent = Blank THEN UnknownName ELSE s.agent

Guards(s, x) ==
    LET own == IF x.dim = "none" THEN {} ELSE {<<x.dim, x.value>>}
    IN  CASE x.metric = "spans_ingested" ->
                {<<"agent", s.agent>>}
                \union IF s.model = Blank THEN {} ELSE {<<"model", s.model>>}
          [] x.metric \in OwnLabels ->
                own \union {<<"agent", AgentOf(s, x.metric)>>, <<"model", s.model>>}
          [] OTHER -> own

(* The values of a dimension guarded in the i-th sample, at most one, and  *)
(* in those before it.                                                     *)
Asked(s, dim, i) == {a[2] : a \in {a \in Guards(s, Samples[s][i]) : a[1] = dim}}
AskedBefore(s, dim, i) == UNION {Asked(s, dim, j) : j \in 1..i - 1}

(* _guard_cardinality: a value not yet seen takes a slot while there is    *)
(* one; the label is the value itself or the sentinel.  A value finds room *)
(* if it would after all the values asked for before it: once one of those *)
(* was refused, the set is and stays full.                                 *)
HasRoomAtCap(values, dim) == Cardinality(values) <= Cap[dim]
HasRoom(values, dim) == Cardinality(values) < Cap[dim]

Guarded(s, dim) ==
    seen[dim] \union
    UNION {Asked(s, dim, i) :
              i \in {i \in 1..Begun(s) : HasRoom(seen[dim] \union AskedBefore(s, dim, i), dim)}}

Label(sets, dim, value) ==
    IF value \in sets[dim] THEN value ELSE Overflow

(* The guarded labels of a sample, each with the value it stands for; a    *)
(* blank model shows as itself where it is not guarded, whether or not it  *)
(* has a slot.  The sets are those at the end of the span: a value refused *)
(* earlier in the span met a full set, which stays full.                   *)
NoSlot(s, metric) == IF metric \notin OwnLabels /\ s.model = Blank THEN {"model"} ELSE {}

Labels(s, x, sets) ==
    LET asked == Guards(s, x)
                 \union IF x.metric \in OwnLabels THEN {} ELSE Guards(s, Bare("spans_ingested"))
    IN  IF x.metric = "spans_ingested" THEN {}
        ELSE {[dim |-> a[1], raw |-> a[2], label |-> Label(sets, a[1], a[2]), slot |-> TRUE] :
                 a \in {a \in asked : x.metric = "ttft" => a[1] # "agent"}}
             \union {[dim |-> d, raw |-> Blank, label |-> Blank, slot |-> FALSE] :
                        d \in NoSlot(s, x.metric)}

(* Trace ids.  A client's is text: head and tail are the first eight and   *)
(* the other 24 digits of the 128 bits it stands for, and more is whatever *)
(* else there is to the text, Blank if it has just these 32 digits: digits *)
(* beyond them, or fewer, read as if zeros stood before.  A backend gets   *)
(* the 128 bits, and X-Ray a time in place of the head.                    *)
TraceId(trace, epoch) ==
    [head |-> IF format = "xray" THEN epoch ELSE trace.head, tail |-> trace.tail, more |-> Blank]

(* The registry writes the time over the head of a 32-digit id only, and   *)
(* shows every other as it came.                                           *)
FormatTraceId(trace, epoch) ==
    IF trace.more = Blank THEN TraceId(trace, epoch) ELSE trace

(* No sender sets start_time_unix_nano, so the time is that of the         *)
(* recording.                                                              *)
Exemplar(s, n, sampled, now) ==
    IF /\ sampled
       /\ s.trace # Blank
       /\ \E i \in 1..Completed(s) :
              Samples[s][i].metric \in {"duration", "errors", "llm_calls", "tool_calls"}
    THEN {[span |-> n, id |-> FormatTraceId(s.trace, now)]}
    ELSE {}

RecordSpan(s, sampled, now) ==
    LET n == Len(ingested) + 1
    IN  /\ ingested' = Append(ingested, s)
        /\ seen' = [dim \in Dimensions |-> Guarded(s, dim)]
        /\ series' = series \union
               {[span |-> n, metric |-> Samples[s][i].metric,
                 labels |-> Labels(s, Samples[s][i], seen')] : i \in 1..Completed(s)}
        /\ exemplars' = exemplars \union Exemplar(s, n, sampled, now)

-----------------------------------------------------------------------------
(* OTLPForwarder.export_span.                                              *)

OrNow(time, now) == IF time = NoTime THEN now ELSE time

(* The timestamps of the record, the right way round.                      *)
TimesAsSent(s, now) ==
    [start |-> OrNow(s.start, now), end |-> OrNow(s.end, now)]
Times(s, now) ==
    LET start == OrNow(s.start, now)
        end == OrNow(s.end, now)
    IN  IF start <= end THEN [start |-> start, end |-> end]
        ELSE IF s.duration # NoTime /\ s.duration > 0
        THEN [start |-> end, end |-> end + s.duration]
        ELSE [start |-> end, end |-> start]

(* The epoch of a trace is the start of its first exported span, and is    *)
(* looked up before anything that may raise.                               *)
With(cache, trace, epoch) ==
    [t \in DOMAIN cache \union {trace} |-> IF t = trace THEN epoch ELSE cache[t]]
EpochsPerSpan(s, now) == With(epochs, s.trace, OrNow(s.start, now))
Epochs(s, now) ==
    IF format # "xray" \/ s.trace \in DOMAIN epochs THEN epochs
    ELSE With(IF Cardinality(DOMAIN epochs) > CacheLimit THEN <<>> ELSE epochs,
              s.trace, OrNow(s.start, now))

(* Ids that are not hexadecimal, and a duration that is no number when it  *)
(* is needed, make the conversion raise: the span is counted as a failure. *)
Converts(s, now) ==
    /\ s.hex
    /\ s.bad = "duration" => OrNow(s.start, now) <= OrNow(s.end, now)

ExportSpan(s, now) ==
    IF s.trace = Blank THEN UNCHANGED <<epochs, cleared, exported>>
    ELSE /\ epochs' = Epochs(s, now)
         /\ cleared' = IF DOMAIN epochs \subseteq DOMAIN epochs' THEN cleared ELSE cleared + 1
         /\ exported' = IF ~Converts(s, now) THEN exported ELSE
                exported \union
                {[span |-> Len(ingested) + 1, trace |-> s.trace, times |-> Times(s, now),
                  cleared |-> cleared',
                  id |-> TraceId(s.trace, IF format = "xray" THEN epochs'[s.trace] ELSE NoTime)]}

-----------------------------------------------------------------------------

TelemetryInit ==
    /\ format \in {"w3c", "xray"}
    /\ seen = [d \in Dimensions |-> {}]
    /\ epochs = <<>>
    /\ cleared = 0
    /\ ingested = <<>>
    /\ series = {}
    /\ exemplars = {}
    /\ exported = {}

(* A span of a batch that sampling keeps and redaction, if it runs, lets   *)
(* pass; the exporter reads the clock after the registry did.              *)
Forward(s, now) ==
    /\ Len(ingested) < MaxSpans
    /\ RecordSpan(s, TRUE, now)
    /\ \E later \in Clock : later >= now /\ ExportSpan(s, later)
    /\ UNCHANGED format

(* A span that sampling drops, or that redaction drops after its metrics.  *)
Drop(s, sampled, now) ==
    /\ Len(ingested) < MaxSpans
    /\ RecordSpan(s, sampled, now)
    /\ UNCHANGED <<format, epochs, cleared, exported>>

TelemetryNext ==
    \E s \in Spans, now \in Clock :
        \/ Forward(s, now)
        \/ \E sampled \in BOOLEAN : Drop(s, sampled, now)

TelemetrySpec == TelemetryInit /\ [][TelemetryNext]_telemetryVars

-----------------------------------------------------------------------------

Shown(d) == {l.label : l \in {l \in UNION {x.labels : x \in series} : l.dim = d /\ l.slot}}

(* A dimension never shows more values than its cap, besides the sentinel  *)
(* and the blank model of the series that do not guard it; and a value     *)
(* shown once as itself by the guard is never later, nor in another series *)
(* of the same span, hidden behind the sentinel, so that a counter keeps   *)
(* its name however many new values arrive.                                *)
LabelsCapped ==
    /\ \A d \in Dimensions : Cardinality(Shown(d) \ {Overflow}) <= Cap[d]
    /\ \A x, y \in series : \A l \in x.labels, m \in y.labels :
          /\ x.span <= y.span
          /\ l.slot /\ m.slot
          /\ l.dim = m.dim
          /\ l.raw = m.raw
          => (l.label = l.raw => m.label = m.raw)

(* The spans that clients send under one trace id are forwarded under one  *)
(* trace id, whenever each of them started, as long as the epoch cache was *)
(* not emptied in between: an X-Ray backend joins the spans of a trace.    *)
OneIdPerTrace ==
    \A x, y \in exported : x.trace = y.trace /\ x.cleared = y.cleared => x.id = y.id

(* A forwarded span never ends before it starts, however far the clock of  *)
(* the client is from the server's and whatever the span leaves out.       *)
TimesOrdered == \A x \in exported : x.times.start <= x.times.end

(* What the comments on the epoch caches say of exemplars: a sample's      *)
(* exemplar names the id under which its span is found in the backend.     *)
(* Neither this nor TracesApart holds of the code.                         *)
ExemplarFindsTrace ==
    \A e \in exemplars, x \in exported : x.span = e.span => x.id = e.id

(* A backend that takes the spans of one id for one trace never joins two. *)
TracesApart == \A x, y \in exported : x.id = y.id => x.trace = y.trace
=============================================================================
