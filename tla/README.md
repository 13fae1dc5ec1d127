# Rastir in TLA+

Rastir is an observability library for LLM applications and the collector server
it reports to. These modules model the parts of both where order, concurrency,
limits and failure decide whether the program is right; TLC checks them on small
instances, and TLAPS proves every safety property that passes, of the server's workers,
stores, metrics and configuration, and the client's span contexts, LLM spans,
exporter, instrumentation and remote tracing, for all sizes.

Paths below are relative to `src/rastir/`; `server/` is the collector.

## 1. The system

```
 application threads and tasks              collector process (one event loop + threads)
 ------------------------------             ------------------------------------------------
 @agent/@llm/@tool decorators,              POST /v1/telemetry --enqueue--> asyncio.Queue
 wrap(), framework decorators                                                  |
      | enqueue_span                                                  consumer task, per batch:
      v                                                               metrics, sampling, redaction
 queue.Queue --daemon thread--> HTTP POST ------------------------>      |         |        |
   (stop(): second sender)                                            TraceStore  OTLP   queue.Queue
                                                                                            |
                                              evaluation spans <-- thread pool <-- drain loop (executor get)
```

| Component | State | Operations | Hard because | Correct when |
|---|---|---|---|---|
| Trace store `server/trace_store.py` | ordered dict of span lists, update times, four counters | insert, get, recent, search, expiry, eviction | three tables updated by hand, two removal policies over one order | bounded; tables agree; only stale or least recently updated traces leave; live traces only grow |
| Ingestion `server/ingestion.py` | bounded queue, consumer task, flags | enqueue with back-pressure, consumer loop, pipeline, stop, final drain | queue limit, sentinel against full queue and in band with the batches, batch in hand at shutdown, spans that raise | every batch has one fate, FIFO into all sinks, stop drains and returns |
| Evaluation `server/evaluation_queue.py`, `evaluation_worker.py` | bounded thread-safe queue, drain loop, pool of threads, jobs | put with drop policy, get in an executor thread, submit, wait, time out, cancel, emit, stop | put is three calls racing the executor; evaluators hang; a timeout is reported before the job is cancelled; a task may raise; cancellation loses what the executor took | one fate per task, policy kept, partial results emitted, loop never hangs |
| Client queue and exporter `queue.py`, `transport.py` | bounded queue, daemon thread, HTTP client, event, counters | enqueue, drain, send with retries, stop, exit handler | daemon and stop() send at once after a join timeout; lost answers; exceptions outside the try | one fate per span, order, stop flushes what came before it, client not used after close |
| Span context and decorators `context.py`, `spans.py`, `decorators.py` | context variables for span, agent, model, provider | start/end span, agent scope, wrappers for sync, async, generators | generators hold spans in the consumer's context; calls that raise before their `try`; model never reset | children have the right parent and agent; every span is queued once |
| Instrumentation `llm_discovery.py`, `framework_base.py`, `*_support.py` | patched methods on shared objects, saved originals | detect, wrap, intercept, restore | overlapping runs patch and restore the same objects without a lock; markers apart from what they mark; objects met twice; objects that refuse, also to be restored | originals come back; a wrapper in place belongs to a run that will remove it |
| Object wrapper `wrapper.py` | proxies, running token totals | wrap, call, generators | totals read before a call, subtracted after it | deltas belong to the call |
| Remote tracing `remote.py` | shared HTTP headers, context variable of the middleware | call_tool, inject, middleware, endpoint | headers written before an await, read by the transport during it | a server span is linked to the call that sent its request |
| Response adapters `adapters/` | the sorted registry | resolve a result, a chunk, a request | overlapping claims, nested framework objects, two ways of counting | model, provider and tokens are those of the response |
| Client config, pricing `config.py`, `pricing.py` | global config, initialised flag, lock, price registry | configure, get_config | published before prices are loaded; read without the lock; auto-configuration | never replaced; prices there once configure() has returned |
| Server lifecycle `server/app.py` | application state, grace periods | start, ingest, shutdown | ordered shutdown under timeouts, results that flow back while it runs | a shutdown in time loses nothing accepted |
| Server configuration `server/config.py`, `app.py` | overrides file, environment, YAML file, configuration in force | load, validate, update, reload | written before validated, torn writes, four sources per setting | what is in force is valid; what was acknowledged survives |
| Rate limiter `server/rate_limiter.py` | a window and a count per address and service | check | window edges, two counters in a row | neither too many nor too few get past |
| Metrics, OTLP `server/metrics.py`, `server/otlp_exporter.py` | label sets, epoch cache | record, guard, export | limits and caches at their edges, clocks apart, values of the wrong type | labels capped and stable, one id per trace, times in order |
| Redaction, evaluators, logging, CLI | none that matters | pure functions, I/O | - | - |

Interactions. The decorators share only the client queue with the exporter. The
exporter reaches the server by HTTP, so a batch may arrive more than once.
Handlers, the consumer task, the evaluation drain loop and the shutdown of the
server run on one event loop: they interleave at awaits only. The evaluation
queue is shared with an executor thread and the pool, which run at any time.
Evaluation puts its result spans back on the ingestion queue.

`PROJECT.json` lists, under `hazards`, what is hard to test in this code, each at
its line, with the properties that would catch it going wrong. Below, a property
is given the name of its definition.

## 2. Modules

| Module | Models | Status |
|---|---|---|
| `TraceStore`, `MCTraceStore` | `server/trace_store.py` | checked, proved |
| `TraceStoreProofs` | theorems about `TraceStore` and about `Telemetry` | proved |
| `Ingestion`, `MCIngestion` | `server/ingestion.py` | checked, proved |
| `BoundedQueue` | what the ingestion queue promises; `Ingestion` implements it | refinement checked; its safety part proved |
| `IngestionProofs` | theorems about `Ingestion`, and the refinement | proved |
| `Evaluation`, `MCEvaluation` | `server/evaluation_queue.py`, `server/evaluation_worker.py` | checked, proved |
| `EvaluationProofs` | theorems about `Evaluation` | proved |
| `Server`, `MCServer` | `server/app.py` (telemetry route, lifespan), `server/rate_limiter.py`; composes the two workers | checked, proved |
| `ServerProofs` | theorems about `Server` and about `ServerConfig` | proved |
| `ServerConfig`, `MCServerConfig` | `server/config.py`, the configuration routes of `server/app.py` | checked, proved |
| `Telemetry`, `MCTelemetry` | `server/metrics.py`, `server/otlp_exporter.py` | checked, proved |
| `SpanExport` | `queue.py`, `transport.py` | checked, proved |
| `SpanExportProofs` | theorems about `SpanExport` and about `LlmSpans` | proved |
| `SpanContext` | `context.py`, `spans.py`, `decorators.py`, and the calls and generators of `wrapper.py` | checked, proved |
| `SpanContextProofs` | theorems about `SpanContext` | proved |
| `Instrumentation`, `MCInstrumentation` | `llm_discovery.py`, `framework_base.py`, the five `*_support.py` | checked, proved |
| `InstrumentationProofs` | theorems about `Instrumentation` | proved |
| `Remote`, `MCRemote` | `remote.py` | checked, proved |
| `RemoteProofs` | theorems about `Remote` | proved |
| `Adapters` | `adapters/`, as operators without state | through `LlmSpans` |
| `ClientConfig` | `config.py`, the loading of `pricing.py` | through `LlmSpans` |
| `LlmSpans`, `MCLlmSpans` | the LLM spans of `decorators.py` and `wrapper.py`; composes `Adapters` and `ClientConfig` | checked, proved |

In each module a definition that is followed by one of nearly the same name is a
defect of the second (`VictimsOffByOne` of `Victims`): put in its place it makes
the property `PROJECT.json` names with it fail. No specification uses it.

### TraceStore

Every method holds the store's lock, so each is one action: `Insert` is
`insert` with everything it calls (`_expire_stale`, eviction, truncation,
`move_to_end`), `Query` is `recent` or `search`, which expire first, `Tick` the
clock. Spans are numbered as they are inserted, and a list of spans is the set of
its numbers: they are appended in that order. The order of the OrderedDict is a
`place` for each key, renewed where the code inserts a key or moves it to the
end; the head is the key with the least place. `get` changes nothing and `clear`
is used by tests only. The fields of a span are left out.

### Ingestion

One event loop: what lies between two awaits is one action. `Enqueue` is
`enqueue` with its three answers. `AwaitItem` is the test of the consumer's loop,
`Take` and `HandleBatch` are the two halves of `await wait_for(queue.get())`: the
item has left the queue but the task has not resumed. `Expire` is that wait giving
up after a second, whereupon the task may find the flag cleared with nothing in
hand. `HandleLast` is the last turn of the loop with the final drain, between
which there is no await. `CallStop` and `Join` are the halves of `stop`.
A request says whether its service is `__stop__`: the sentinel is an item like any
other and is known by that name alone (ingestion.py:178, 192), which a client may
send (app.py:352). Such a batch is accepted, ends the task without a `stop()`, and
is `mistaken` for the sentinel, in the loop or in the drain.
A span is a record of what the pipeline distinguishes: whether its trace is
sampled, whether its redaction is reported as failed, and whether the code outside
the `try` blocks can read it (a span whose ids or attributes are null passes the
route and is not). What redaction makes of a text is not modelled: it reports
success for a text that is no string and leaves it as it is.
That the HTTP server takes no request once the lifespan runs its shutdown is a
guard of `Enqueue`; the evaluation spans put back during shutdown are in `Server`.

`BoundedQueue` says what all this amounts to for those who send: an offer is
answered at once, refused or displacing the oldest only when there is no room;
items are served one at a time in order; an offer may ask the queue to close, and
does so when its turn comes; closing serves what is left, or what stands before an
item that fails. The refinement mapping of `Ingestion` (`Promised`) takes the
batches of the queue without the sentinel for what waits, the item in hand for what
is served, the batches named like the sentinel for the offers to close, and a task
out of its loop for closed.

### SpanExport

Two senders, the daemon `thread` and the `caller` of `stop()`, each with its own
batch. `Get` is one `get_nowait` of `drain_batch`; `Drained` ends it and builds the
payload, which raises for an unserialisable span; `Accepted`, `Transient` and
`Failed` are one attempt of `send_batch`: 2xx, a status or exception that is
retried, and one that is not. A post that is not answered may have arrived.
`CallStop`, `Exit`, `Join`, `Check`, `Close` are `stop()`, called by the application
at most once and by `atexit`. `Join` may end at any time, because the timeout may;
`timedOut` remembers that it did. A `stop()` that raises out of its drain takes the caller to
`raised`; from there an application goes on, while a process whose exit handler
raised is `failed` and no longer `Alive`. Nothing is claimed of how long `stop()`
takes: `_flush_all` (transport.py:235) goes on as long as the queue is not empty, so
application threads that keep finishing spans keep it busy. Not modelled: starting a second exporter after
`stop_exporter()`, and the four counters as integers that two threads increment
without a lock; they are the sets of spans they count.

### Evaluation

`Put`, `PutEvicts` and `PutAppends` are the three calls `put` makes on its queue;
the executor thread (`GetTask`, `GetTimeout`) may come between them. `LoopTop`,
`Resume`, `Collect`, `WaitTimesOut` and `Cancel` are `_drain_loop` and `_process_task`:
a timeout is counted and its span built before `future.cancel()`, and a thread of
the pool may start the job in between. `Resume` and `Fail` have the exceptions that
`_drain_loop` catches, before the jobs are submitted (a timeout that is no number) or
after (times that are none): such a task is `failed`, no span of it is emitted,
and its jobs stay with the pool. `StartJob` and `EndJob` are the thread pool, whose
jobs succeed, fail or never end. `CallStop`,
`JoinLoop`, `PoolDown` and `StopTimesOut` are `stop()` under the `wait_for` of the
server's lifespan. `shutdown(wait=True)` blocks the event loop, which is the guard
`LoopFree`. The scores and the emitted spans are abstracted to a verdict per
evaluation.

### SpanContext

A context is a thread or an asyncio task: it has a value of each context variable
(`cur`, `agent`, `model`) and a stack of the instrumented calls and generator bodies
it is running. `CreateTask` copies the variables, `StartThread` does not. `Trace`,
`Metric`, `Agent`, `Retrieval`, `Llm` and `Wrapped` are what the decorators and the
proxy do up to the call of the wrapped function; sync and async wrappers do the
same. `Return` is the whole `finally` block, after a result or an exception: the
agent token, `_finalize_llm_span`, `end_span`, `enqueue_span`, in which the span of
a wrapped method that returned a generator is handed over instead. `Stream` is the
first step of a decorated generator, which runs in the context of whoever asks for
the first chunk; `Yield` and `Resume` are the chunks, `Resume` from any context, and
`Finish` the end of the body: exhausted, raised or closed. A token is refused
outside the context it was made in; `Finish` then skips what stands after `end_span`.
`Discard` closes a generator whose body never ran.

Between `start_span` and the `try` of `@llm`, of a stream and of a wrapped method
stands code that may raise: interceptors on a client that refuses the attribute
with an exception other than the two that are caught (llm_discovery.py:374), a
method without a `__name__` (wrapper.py:244). `Fragile` names the kinds of call for
which that may happen in an instance. Nobody ends such a span or queues it: it is
`lost`, and `stranded`, that is, still current, until a call around it ends and
puts back its own parent.

The k-th span is the number k, which also stands for the agent or model the call
names. What a span restores is its `parent`: `start_span` takes both from the same
variable. Left out: extracted attributes, statuses (a decorated stream that is
closed early is recorded as an error, a wrapped one as a success), times, trace
ids, and whether `@llm` learns its model before the call, which is a choice
(`known`). A generator whose consumer forgets it is one that is never resumed.

### Instrumentation

A run is one call of a function that `@llm` or a framework decorator wraps. A slot
is a place that is patched: a method of a client, a node's function, an agent's
`llm` or `tools`, a callback. It holds the original or the wrappers of runs around
it, outermost first. `Look` and `Patch` are apart, because the code reads the
slot, tests for its marker and assigns it later, and another thread may come between.
The tools of CrewAI and Strands have their marker in an attribute of its own: there
`Look` tests it, `Read` takes the method, `Patch` assigns it and `Mark` sets the
attribute, and likewise `Restore` and `Unmark` (`Apart`; `tagged` are the tools that
have the attribute). `Restore` is one slot of `restore_originals`, and may be refused:
`RestoreRefused`. LangGraph restores in reverse order and without a `try`, so the
slots it has not come to keep their wrappers, and the exception passes over the
reset of the agent, `end_span` and `enqueue_span` (framework_base.py:185-188): the run
is `failed`. CrewAI, Strands and LlamaIndex go forward, and come to the slot that
refused last; discovery and ADK catch the exception slot by slot.
The six instrumentors differ in what `Styles` says: whether a wrapper in place is
recognised (`marked`), what becomes of the record of an object met again, whether the
saved value or the class's own is put back, whether wrappers stack, whether patching
stands inside the `try`, and how restoring proceeds. They
are `Discovery`, `LangGraph`, `CrewAI`, `Strands`, `ADK` and `LlamaIndex`, and the
initial states choose one; its slots may be of its different kinds: LlamaIndex
recognises its wrapper of an LLM and not its list of wrapped tools. `Refuse` is an
exception out of the patching, `Unpatchable` one that discovery catches; LangGraph has
recorded the slot before it assigns it, and will try to restore what it refused
(`balks`). `crossed`, `forgotten` and `raced` are history: they name the slots for
which the code does not keep what its interface promises, and why.

### Remote

`CallTool`, `RunAgent` and `RunUntraced` begin a call; the first two write the
traceparent of its span into the shared `header`, once. `Send` is the transport
building a request: it reads the header as it is then. `Receive`, `Endpoint` and
`Respond` are the middleware, `@mcp_endpoint` and the `finally` that resets the
context variable; contexts are reused from request to request. An identifier is
two halves, since a traceparent and the OTLP export keep 16 of 32 digits.

### Adapters, ClientConfig, LlmSpans

An adapter is a record: its kind, priority, the objects it claims, what it reads
of them, the chunks, clients and model names it knows. `Registry` lists the fifteen
in the order of their registration; the sort by priority is stable. A result is the
sequence of the objects that wrap each other, the response of the SDK last. `Resolve`
is `resolve`: five rounds of framework adapters, written out, then the first provider
adapter that claims what is left, completed from what the frameworks reported. The
code leaves the loop at the first round that unwraps nothing; another would read the
same object again and change nothing (`RoundsSettle`).
`ClientConfig` has `configure()` cut where other threads can see a difference
(`Configure` takes the lock, `Publish`, `Load`, `Export`) and `get_config()` cut between
its two looks (`FindConfig`, `MissConfig`, `AutoConfig`).
In `LlmSpans` a call is decorated or on a wrapped object. `Enrich` is the whole of
either `_enrich_llm_from_result`, the decorator's and the wrapper's, which differ in
precedence; `Chunk` and `Resume` are the yield and what follows it; `Finalize` and
`Price` the attributes set on the way out, each reading the configuration anew.
Tokens are one number for input and output. Interceptors that set attributes on
the span of the call they were installed for are not composed with these.

### Telemetry

One action is one span through `record_span` and, unless it is dropped before,
`export_span`. `Samples` lists the samples a span adds, in the order of the code,
`Begun` and `Completed` count those reached when a value of the wrong type raises.
The code guards label values one after the other; `Guarded` is the set that comes
out: a value finds room exactly if it would after all values asked for before it,
because the set is full, and stays full, once one was refused. That this is the
same is proved (`GuardedInTurn`). A model left out is shown as an empty label without a
slot in the series all spans share, and guarded in those of tools and retrievals
(`NoSlot`). `Epochs`, `Times` and `TraceId` are the parts of `_dict_to_readable_span`
with a condition in them. A trace id is what the client sent: two halves of the 128
bits it stands for and what else there is to the text. The exporter drops the latter
and, for X-Ray, puts a time in place of the first half (a number of seconds below
2^32); the registry (`FormatTraceId`) writes the time over an id of exactly 32
digits and leaves any other as it is. The clock is read anew by
the exporter.

### Server

`Post` is the telemetry route: rate limiter, then `enqueue`. `Ingest`, `Fetch` and
`Emit` are turns of the two workers, which `Ingestion` and `Evaluation` have in detail.
`Shutdown`, `PoolStopped`, `PoolTimesOut`, `IngestionStopped`, `IngestionTimesOut` and
`CloseExporter` are the lifespan after its `yield`; a stop given up on leaves its task
cancelled or, with a grace period of 0, running. An item that cannot be read makes
the drain raise, and the lifespan with it. Processing a batch is atomic here. A
request of the service `__stop__` is accepted like any other; `Mistake` is the turn
of the ingestion task that takes it for the sentinel, drains the queue and ends,
while the route goes on accepting, and `NothingToStop` the stop of a task that has
ended. A full ingestion queue refuses a result of the pool as it does a request, and
`enqueue`'s answer is not looked at; a full evaluation queue refuses tasks or drops
its oldest, by its policy.

### ServerConfig

A source is a function from the settings it holds to values. `GetFloat` and `GetInt`
are the two readers: the first passes over a value that is no number, the second
takes the first source that has the setting. `UpdateConfig` is PUT /config, whose
write is done whatever comes of the validation after it; `UpdateTorn` a write that
ends early, by a crash or a full disk; `ReloadConfig`, `Start`, `Exit` and `EditBase` are
the rest of what touches a source or the configuration in force. A torn file may
keep the entries that were written, or not parse; that it parses to a number cut
short or to a scalar, which makes the next load raise (config.py:310), is left out. Three settings
stand for all, because a check of `validate_config` is either of one
setting (a range, a list of values) or of two that constrain each other (the
two limits).

## 3. Runs

| Run | Instance | Checks |
|---|---|---|
| `trace_store` | 4 interchangeable traces, 2 kept, 2 spans each, batches to 3, TTL 1, 4 ticks, 6 spans | `Bounded`, `BooksAgree`, `OrderFollowsTime`, `EvictionJustified`, `LiveTracesOnlyGrow`, `NoStaleAfterOperation` |
| `ingestion` | queue of 2, 4 requests, payloads of good, unredactable and unreadable spans, one named like the sentinel, both modes, both redaction settings | `Conservation`, `CleanStopDrains`, `ArrivalOrder`, `ImplementsQueue`, `StopAnswered` |
| `span_export` | queue of 2, batches of 1, 2 attempts, 3 spans | `Conservation`, `Delivery`, `StopFlushes`, `SettledInOrder`, `EventuallySettled` |
| `evaluation` | queue of 1, 1 thread, 2 tasks of 0 or 2 evaluations, both policies | `OneFate`, `PartialEmit`, `StoppedClean`, `TimedOutNeverStarts`, `EventuallyJudged` |
| `span_context` | 2 contexts, 3 spans, all fragile calls may raise before their `try` | `QueuedOnce`, `NearestOpen`, `AgentScoped` |
| `span_context_outside` | 2 contexts, 2 spans, no call raises before its `try` | `NoneOutside` fails |
| `instrumentation` | 3 interchangeable runs, 2 slots, 2 visits each, six instrumentors | `OneOwner`, `OriginalsBack` |
| `remote` | 3 calls, 2 server contexts, 2 requests | `LinkedWhenAlone`, `LinkedByOwnHeader` |
| `llm_spans` | 1 thread that configures, 2 calls at a time, 0 or 1 tokens, 10 answers, 3 kinds of chunk, 3 requests | `ResponseAttributed`, `OwnTokens`, `StreamCounted`, `CostAsConfigured`, `ConfigLocked` |
| `telemetry` | 11 spans to choose from, 3 in a row, 3 trace ids of which two share all the OTLP id keeps, caps of 1 and 2, an epoch cache of 1, 2 clock values, both formats | `LabelsCapped`, `OneIdPerTrace`, `TimesOrdered` |
| `server_config` | 4 environments, 4 YAML files, 10 bodies, with and without the overrides variable | `ValidInForce`, `AcknowledgedSurvives` |
| `server` | 2 clients and 2 services with a limit of 1 each, one of the services named like the sentinel, 2 windows, queue of 2, 1 evaluation task, 4 requests, both modes, both policies | `CleanShutdownLosesNothing`, `LimitsKept` |

What the passing runs show, with the hazard in mind:

- *Trace store.* Any mix of inserts, queries and time keeps both dictionaries and
  the running counter in step, and recency in the dict is recency in time, which
  is what makes evicting the head right. With a batch of 3 and a cap of 2 the
  partly fitting batch occurs, with TTL 1 and 4 ticks a trace expires and comes
  back, with 4 traces and room for 2 eviction meets expiry in one insert.
- *Ingestion.* Queue, consumer and shutdown implement `BoundedQueue`, its fairness
  included: nothing accepted is passed over, served out of turn or refused while a
  slot is free. A batch of the service `__stop__` is where the code departs from what
  one would promise: it is answered 202, never processed, and closes the queue. The
  properties say that this is the only way: a batch is lost otherwise only if the
  drain raises, in which case `worker = "raised"` and the rest is left, and the task
  returns with something queued, or without a `stop()`, only after such a batch
  (`mistaken`). `ArrivalOrder`: all sinks see the batches in the order of acceptance,
  none twice, in the loop and in the drain. A queue of 2 with 4 requests is full with
  one batch in hand, with and without room for the sentinel, and takes batches after
  the task has ended.
- *Span export.* Two senders never take the same span, and nothing finished before
  `stop()` stays queued. The queue outlasts a batch, so that a `stop()` drains in
  several and may raise in between: what it then leaves is excused only because it
  raised, also when an earlier `stop()` had closed the client. Three spans fill the
  queue and have one refused. As long as the daemon was joined in time, no batch
  overtakes another (`SettledInOrder`). `SpanExportWide.cfg`, in no run, has batches of
  two spans, full and partial, in a queue of three (1.8 million states), and checks
  `ClosedClientUnused` too, which is proved. `EventuallySettled` is about spans, not
  about `stop()`: the bound on spans says that producers pause, and while they do
  not, `stop()` need not return.
- *Evaluation.* Cancelling the loop can lose the task the executor took (`abandoned`),
  and only that one or the one in hand. One thread is enough for hung evaluations
  to starve the pool, and two tasks for one to find it occupied by the jobs another
  left. A task that raises leaves no span behind, and the loop goes on (`failed`). An
  evaluation is started after its timeout was reported only if a thread takes it
  before the very next call, the cancel. `EvaluationWide.cfg`, in no run, has a third
  task (1.4 million states, with the same result). `PolicyKept`, in no run, says that the races of the executor
  thread with `put` make more room but never refuse a task under drop_oldest; it is
  proved.
- *Span context.* Every span that ends reaches the queue once, except that of a
  stream whose last step runs in another context than its first, that of a
  generator never started, and that of a call that raises between `start_span` and its
  `try`; these are the three ways in which it is `lost`. The current span is the
  innermost open one as long as spans end in the opposite
  order of their start (`tangled` names the contexts in which one did not); a
  stranded span counts as open until a call around it ends, which is exactly how long
  it stays current. The agent label is right even then: no generator holds an agent,
  and its token is reset in a `finally`. Three spans are
  the least in which a stream, a call that outlives a chunk of it and a third
  span that inherits from either overlap; two contexts let a stream move, a task
  inherit and a thread start empty.
- *Instrumentation.* Where wrappers are recognised there is never more than one in a
  slot, and it is a live run's, though look and assignment are not atomic: a run
  that meets a wrapper takes no responsibility for the slot. The exceptions are in
  the code and in the properties. A record that is lost leaves a wrapper for good: an
  agent listed twice in a crew, tool methods patched before one that refuses, `@llm`
  raising before its `try`, and in LangGraph every slot that was recorded before one
  that refuses to be written. On a tool that two runs tested before either had set
  its marker (`raced`) their wrappers stack, and the one that ends first takes the
  marker away; both are gone when both have ended. Where wrappers are not recognised
  (ADK, the tools of LlamaIndex) runs that end in the order they started put a dead
  wrapper back. Three runs let a third one meet what two crossing ones left behind.
- *Remote.* A server span has the trace and parent of the call that sent the request
  if no other call wrote to the shared headers since; the two truncations of the
  identifier agree. With three calls two may cross and a third, untraced, send
  with what they left.
- *LLM spans.* Precedence and completion give a response the provider that made it
  for nested frameworks, shared classes and Bedrock's vendors. The token difference
  is exact when calls do not overlap on the object, and otherwise too large, never
  too small. A call that asks for its price after `configure()` has returned gets
  one. One token is enough to tell a sum from a maximum over two chunks, and no
  usage from usage of 0.
- *Telemetry.* A label seen as itself is never later an overflow, across spans and
  within one span that guards it three times; a raising sample leaves what came
  before it consistent. The model a span leaves out is the exception: it shows as an
  empty label in the series that do not guard it, besides the values of the cap, and
  as a slot or as the overflow in those of tools and retrievals. All spans of a trace
  are forwarded under one id, by whatever the first of them says of its start. Three spans fill a cap, pass it and return to the first
  value; a cache of one entry is emptied in the middle of a trace, which
  `cleared` then excuses.
- *Server configuration.* The configuration in force stays valid through every write,
  torn or refused, and an acknowledged override survives everything but a torn
  write. The reachable states are finite without a bound.
- *Server.* The order of the shutdown is what it takes: pool, ingestion, exporter,
  and an item in hand is put back before the ingestion task drains. When it is done
  in time, every request and every result offered to the queue is forwarded, or
  refused or dropped by a full queue, or was taken for the sentinel, or waits behind
  one that was: a request of the service `__stop__` loses itself and what is accepted
  after it is consumed, and no more. A queue of 2
  is full when a result comes back, in either mode. The two counters of the
  limiter never let more past than either allows, nor refuse without cause.

`NoneOutside` is violated: it states what `get_current_span` says of itself, and the
run shows a stream finished in another context leave its span current for good.
`SpanContextStranded.cfg`, in no run, violates it with one context and one call that
raises before its `try`.

### Differences not given a run

These statements of a comment or a document do not hold of the code. The
definitions in the first column are in the modules, five of them with a
configuration of their own in which TLC refutes them; they are in no run of
`PROJECT.json`.

| Definition | Says | The code |
|---|---|---|
| `FifoEviction` (`TraceStoreFifo.cfg`) | trace_store.py:31, docs/configuration.md:228: the oldest trace is evicted first | an update moves a trace to the end; the least recently updated one goes |
| `HardLimitRejects` (`IngestionHardLimit.cfg`) | ingestion.py:110, docs/configuration.md:294: at the hard limit requests are refused | only a full queue refuses; `hard_limit_pct` takes no part in admission |
| `ExitDrains` (`SpanExportExit.cfg`) | transport.py:167: the exit handler drains | it returns at once when the daemon has ended, by an exception or an earlier stop |
| `OverallTimeout` (`EvaluationTimeout.cfg`) | evaluation_worker.py:182, 217: one timeout for a task | each evaluation is awaited in turn with a full timeout of its own |
| `ModelWithinAgent` (`SpanContextModel.cfg`) | context.py:31: the current model is that of the current agent | it is set and never reset |
| `UndoesEverything` | framework_base.py:77: restore undoes everything | see the exceptions of `OriginalsBack`: a record lost, a restore that raises, unrecognised wrappers of runs that crossed |
| `EveryRequestLinked` | remote.py:9, docs/mcp-tracing.md:17: every request carries the span of its call | the headers are shared and written before an await |
| `ExemplarFindsTrace` | metrics.py:447: exemplars share the epoch of the exporter | the cache meant for it is never written; the time of recording is used; ids of other than 32 digits are shown unconverted |
| `TracesApart` | otlp_exporter.py:231: in w3c mode the original trace id passes through unchanged | it is cut to its first 32 digits, so that ids longer than that can fall together, as do in X-Ray those that differ in their first 8 |

Others, without a definition: a batch whose service is `__stop__` is answered 202 and
then ends the consumer (ingestion.py:178, 192; the service is not validated,
app.py:352), so that later batches are accepted and wait for ever;
ingestion.py:274 says raw text is never stored where redaction fails, while a text
that is no string counts as redacted and is stored as it is (redaction.py:165, 169);
an exception between `start_span` and the `try` of `@llm`, of a stream or of a wrapped
method leaves the span current and never queues it; docs/configuration.md:254 says a full trace drops its
oldest spans and queue.py:18 the same of a full queue, while both drop the newest;
docs/configuration.md:229 gives `max_queue_size` in spans while the queue counts
batches; docs/configuration.md:224 names the overflow label `__other__`;
docs/metrics.md:214 has all labels guarded, while the evaluation metrics bypass the
guard; a blank agent takes a slot of its cap, and so does a blank model on
tool and retrieval series, while the other series show it as an empty label without
one: with the cap full one tool span shows the same model empty and as overflow, and
the label takes one value more than its cap; `shutdown.drain_queue=false` drains as well, without a timeout; the drain may
create evaluation tasks that nobody will run; PUT /config answers 500 for what it
refuses but has written it, so that the next start may fail; without
`RASTIR_SERVER_RUNTIME_CONFIG` it writes a default file that is never read; a value
that is no number is acknowledged and ignored; components keep the configuration
they were built with; the rate limiter's windows are fixed and not sliding, so
twice the limit may pass in one window's length; evaluation_worker.py:11 says the
pool never blocks, but its shutdown waits on the event loop.

### Bounds

Every bound is a constant of the module or a definition of its MC module:
`MaxClock`, `MaxOffered`, `MaxBatch` (TraceStore), `MaxRequests` and the payload set
(Ingestion, Server), `MaxSpans` (SpanExport, SpanContext, Telemetry), `MaxTasks` and
the request set (Evaluation), `MaxVisits` (Instrumentation), `Fragile` (SpanContext; the program's is all three),
`MaxRequests` (Remote),
`MaxTokens` and the sets of requests, answers and chunks (LlmSpans), the sets of
spans and clock values (Telemetry), the sets of sources and bodies (ServerConfig),
`MaxClock` (Server). The remaining constants are parameters of the program, set
small. `CHECK_DEADLOCK FALSE` stands where the program really stops: after stop, or
when the bounded inputs are used up. Symmetry is used on identifiers the modules
never order or single out: trace ids, runs and slots, calls and contexts, users,
clients. No run with symmetry checks liveness.

### Fairness

Weak fairness of the steps the program itself schedules and of nothing else. The
event loop runs every ready callback (`AwaitItem`, `Take`, the two ways to handle and
`Join` in Ingestion, but not `Expire`; the drain loop of Evaluation);
the operating system runs the daemon thread, the caller of `stop()` and the executor
thread, and each of their waits has a timeout, so one of the outcomes occurs. No
fairness for requests, producers, calls of `stop()`, process exit, evaluators or
the pool's threads: `EventuallyJudged` holds although evaluators never end.
`BoundedQueue` promises weak fairness of `Serve`, of `Finish`, and of closing when the
item in service asks for it, and the fairness of `Ingestion` implies it: that is part of `ImplementsQueue`. The other modules state
safety only.

## 4. Proofs

The theorems hold for every value of the constants the module's assumption
admits, so for any number of traces, spans, tasks, calls or clients and any limits.
The `*Assumption` of a module is all a proof takes as given. Each is evaluated by a
run and says no more than the code does: limits that `validate_config` or the
constructors require to be positive, evaluators asked for once, sources of
configuration that map settings to numbers or junk, markers (`None`, `Malformed`,
`Junk`, `Unparsable`) that differ from the values they stand beside. Two say what the
libraries around the program give it. `TelemetryAssumption`: the times and durations
of a span are numbers or missing, except a duration the span names as its bad value.
`LlmSpansAssumption`: an answer of which it is said who made it is one object of that
SDK, carrying its model, inside at most five objects of frameworks, of which only
LangChain's repeats the model; an answer of which it is said that it reports tokens
has them where an adapter reads them; of the chunks that adapters read, Gemini's and
no others carry running totals. Of all other answers nothing is assumed.

`TraceStoreProofs`, `SpanExportProofs` and `ServerProofs` hold the theorems of two
components each. `Telemetry`, `LlmSpans` and
`ServerConfig` name their specifications `TelemetrySpec`, `LlmSpec` and `ConfigSpec`, so
that they can stand beside another.

Every proof has one shape. The properties are not inductive; `Inv` adds what is
missing. There is one lemma for each action, with one step for each conjunct of `Inv`;
lemmas ending in `Kept` dispose of the conjuncts an action leaves alone.
`Invariance` puts them together, and every other theorem follows from it and, for an
action property, from the actions. TLC checked each `Inv` on the run's instance
before it was proved.

| Module | Theorems | State for all constants |
|---|---|---|
| `TraceStoreProofs` | `TypeCorrect`, `StoreBounded`, `BooksCorrect`, `OrderCorrect`, `EvictionCorrect`, `GrowthCorrect`, `ExpiryCorrect` | types and the six properties of the run |
| `TraceStoreProofs`, of `TelemetrySpec` | `GuardedInTurn`, `LabelsCorrect`, `TraceIdsCorrect`, `TimesCorrect` | `Guarded` as a sequence of guards; `LabelsCapped`, `OneIdPerTrace`, `TimesOrdered` |
| `IngestionProofs` | `TypeCorrect`, `ConservationCorrect`, `ArrivalCorrect`, `DrainCorrect`, `QueueImplemented` | `Conservation`, `ArrivalOrder`, `CleanStopDrains`, the safety part of `ImplementsQueue` |
| `SpanExportProofs` | `TypeCorrect`, `ConservationCorrect`, `DeliveryCorrect`, `FlushCorrect`, `OrderCorrect`, `ClosedClientCorrect` | `Conservation`, `Delivery`, `StopFlushes`, `SettledInOrder`, `ClosedClientUnused` |
| `SpanExportProofs`, of `LlmSpec` | `RoundsSettle`, `AttributionCorrect`, `OwnTokensCorrect`, `StreamCorrect`, `CostCorrect`, `ConfigLockCorrect` | the unrolled loop of `resolve`; `ResponseAttributed`, `OwnTokens`, `StreamCounted`, `CostAsConfigured`, `ConfigLocked` |
| `EvaluationProofs` | `TypeCorrect`, `FateCorrect`, `PolicyCorrect`, `EmitCorrect`, `StopCorrect`, `TimedOutCorrect` | `OneFate`, `PolicyKept`, `PartialEmit`, `StoppedClean`, `TimedOutNeverStarts` |
| `InstrumentationProofs` | `OwnerCorrect`, `OriginalsCorrect` | `OneOwner`, `OriginalsBack` |
| `RemoteProofs` | `OwnHeaderCorrect`, `AloneCorrect` | `LinkedByOwnHeader`, `LinkedWhenAlone` |
| `SpanContextProofs` | `TypeCorrect`, `QueuedCorrect`, `NearestCorrect`, `AgentCorrect` | types and the three properties of the run |
| `ServerProofs` | `LimitsCorrect`, `ShutdownCorrect` | `LimitsKept`, `CleanShutdownLosesNothing` |
| `ServerProofs`, of `ConfigSpec` | `ForceCorrect`, `AcknowledgedCorrect` | `ValidInForce`, `AcknowledgedSurvives` |

### What the invariants add

*Trace store.* `OwnPlaces`: two held traces do not share a place, so the head of the
dict is one trace and eviction removes one. `OwnSpans` and `OnlyStored`: two traces
share no span and a trace that is not held has none, so the counter, which eviction
and expiry lower by the length of lists, stays the cardinality of a disjoint
union. That a new batch is disjoint from all that is stored comes from `TypeOK`: a
stored span's number is at most `offered`. Nothing is assumed of the size of `Traces`:
only finitely many are held at a time.

*Ingestion.* `FirstInFirstOut`: the queue, after what is in hand, is in the order of the
requests, with the sentinel last if it is there. `StoppedByStop` and `EndedByStop`: what
the flags, the sentinel and the place of the task say of each other; the task returns
after a `stop()` with nothing queued, or after a batch taken for the sentinel.
`ServedFirst`: what the sinks hold is of batches that were processed, and those are
older than all that is pending, which makes `ArrivalOrder` hold of each step. Without
the order, taking the head would not be known to leave the rest distinct from what
was served. The refinement has one lemma for each action, which names the abstract
step (`Accept`, `Refuse`, `Displace`, `Serve`, `Finish`, `Close`) it is or shows that it is none;
`QueueImplemented` is `Spec => Promised!Safe`, the initial condition and the steps. The
abstract fairness stays with TLC.

*Span export.* `Attempts`: how often the spans of a batch can have arrived is bounded
by the attempt it is in, so that the last one exhausts the bound of `Delivery`.
`ClosedByStop`, `JoinedInTime`, `FoundEmpty`: which flags each place of the caller in
`stop()` implies; `FoundEmpty` carries the emptiness seen by the last look at the
queue through to the closing of the client, although spans are queued meanwhile.
`OrderInv` adds that, while the daemon was joined in time, only one sender holds
spans. Trying to prove `StopFlushes` showed that it did not hold as it stood: with a
batch smaller than the queue, the exit handler's `stop()` may raise after an earlier
one has closed the client, and leave spans. An instance whose batch is as
large as its queue cannot show that. The model tells a process whose handler
raised from one whose handler returned, and the run has the smaller batch.

*Evaluation.* `Control`: where the drain loop is tells which of it and the executor
thread holds a task, and that it is at most one each. `InTurn`, `Judged`, `Unstarted`,
`NoBacklog`: evaluations are judged in their order, a failed task has no verdict, one
the loop never had no job, and a judged evaluation has no job waiting for a thread,
except the one about to be cancelled, which gives
`TimedOutNeverStarts`. `Room`: after the eviction there is room until the append,
because the executor thread can only take; so drop_oldest refuses nothing.
`OneFate` is handled through a lemma about a family of sets that share out a whole:
each action takes a set of tasks from one of the nine fates to another.

*Instrumentation.* Three kinds of slot, one argument each. `NeverSaved`: a wrapper that
says itself what it is is never read as an original, so never saved, whoever patches
between look and assignment. `Accounted`: where wrappers are not recognised, every
wrapper in place, saved by a run or read by one that is about to patch, is of a run
with a record of the slot, until the slot is forgotten or crossed. `Outermost`, `Tags`,
`Single`: the outermost wrapper of a recognised slot is of a run with a record, a
marker is that of a run that will take it away, and unless two runs raced one run at
most has anything to do with a tool. `Known` restates what the six instrumentors have
in common, `Records` who may have a record. When no run is open there are no records,
so no wrappers.

*Span context.* The stacks and the chain of parents are two views of the same
nesting, and the code goes by the second only. `Single` and `Generators` fix the
first: no span is in two places, a generator is in a stack exactly while it runs,
and a call ends in the context it began in, so its token is accepted. `Accounted`
is `QueuedOnce` in terms of membership instead of cardinality. `Chain` fixes the
second: the parent of an open span is the open span before it in the same context,
so when the last one ends, what its token restores is the next one down. An @llm
stream that has yielded is open and in no stack, which is why `NearestOpen` speaks
of open spans; a context in which spans end out of order is `tangled`, and the
chain is claimed of the others only. A stranded span is a link of the chain as well:
it is open, though in no stack, until what restores the span below it ends. `Scoped`: each @agent call keeps, for its token,
the agent of the calls below it in its stack.

*Remote.* `ContextOwned`: a context variable holds the traceparent of the request
being handled, and nothing between requests. `HeaderOfAlone` and `CarriedByAlone`: a
call that nobody has overwritten has its own traceparent in the shared header, and
so has everything it sent that is on the wire, being handled or linked.

*LLM spans.* Two arguments that do not meet. The first is about the adapters and has
no steps. `FirstIs`: the order of priorities, and of registration where they are
equal, has a first adapter in every set, so the `CHOOSE` of `FirstOf` chooses;
`FrameworkClaims`, `ProviderClaims` and `ChunkModes` then say who is asked for each
kind of object and chunk: of the two that claim Azure's responses Azure, and of
those that read a chunk one that adds exactly if the provider reports differences.
`OnTheWay` is what a round of unwrapping keeps: the maker's object is no deeper than
the rounds that are left can reach, what was read so far names no other model, and
the tokens have been read or still lie on the way. Five applications of `RoundOn`
give `ResolvedAs`, for every answer the assumption admits.
The second is the invariant `LlmInv`. `ConfigInv`: the lock is held by exactly the thread
that is deciding, loading or starting the exporter, there is no configuration while
it decides and there is one afterwards, and whoever has returned with costs enabled
has left prices. So whoever finds the lock free, or has just taken it, and finds
no configuration, replaces none. `UsageGrew`: until its answer is read, the total of
a wrapped object has grown by the call's own tokens, and by more only if the call is
crowded. `ReadSoFar`: what a decorated stream has counted is what its chunks reported up
to the one the consumer is looking at, which `Resume` will add or put in its place.
`PricedLate`: a call that found `configure()` returned is priced when it is final.

*Telemetry.* `SlotsCapped`: the values that have a slot are never more than the cap,
for which `GuardedCapped` looks at the last value of a span that found room.
`LabelsFromSlots`: a guarded label that shows its value has a slot, and slots are never
taken back, so the value is shown as itself ever after. `EpochsFromCache`: a record has
the id that its trace has with the epoch the cache still holds for it, unless the
cache was emptied since.

*Server configuration.* `Written`: what was acknowledged and not written since stands
in the overrides file as a number, where both readers find it before they look
anywhere else; `FileParses` that the file is a source unless a write was torn.

*Server.* `ClientsCounted` and `ServicesCounted`: a counter is the number of requests that
reached it in the last window it was asked about, refused ones included, and no
request is of a later window. The bound follows because what got past in a window
is a subset of what was counted. For the shutdown, `InOrder` says which parts are idle
in each phase, and that the ingestion task ends early only by a mistake, and
`NothingLost` that everything offered to the queue is in it, forwarded, refused,
evicted or taken for the sentinel, as long as no stop was given up on.

### What is only model-checked

- Liveness (`StopAnswered`, `EventuallySettled`, `EventuallyJudged`) and the
  fairness in `ImplementsQueue`: the prover has no rule for fairness and ENABLED.
- In `Server` the type of `tasks`: the list is filtered with an operator given as an
  argument, which the provers cannot expand. No theorem needs it.
- `NoneOutside`, which does not hold, and the definitions of the table above.

## 5. What is left

Every invariant and action property of a passing run is a theorem. What could be
added is more of the system rather than more about the model: the interceptors of
`Instrumentation` and the spans of the wrappers composed with `LlmSpans`, a second
`start_exporter` after `stop_exporter`, the gauges and the redactor.

### Not modelled

Structured logging, the command line, the config UI and the deployment files are
formatting, sequential scripts or data. Within modelled components: redaction
patterns, prompts and score parsing of the evaluators, the walk through the
attributes of provider objects, capture of texts, HTML and Prometheus rendering.
They are pure functions over text without an order of events. That `stop()` of the client
ends is not claimed (transport.py:235), and no run could show more than that a bounded
number of spans is sent. The interceptors
of `Instrumentation`, which set attributes on the span of their call, are not
composed with `LlmSpans`, nor the wrappers' own spans with `SpanContext`.
