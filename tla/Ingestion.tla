------------------------------ MODULE Ingestion ------------------------------
(***************************************************************************)
(* The server's ingestion queue and its consumer task                      *)
(* (server/ingestion.py).  HTTP handlers enqueue span batches on a bounded *)
(* asyncio.Queue; one task takes them off and runs each through metrics,   *)
(* sampling, redaction, the sinks (trace store, OTLP) and the evaluation   *)
(* queue.  Everything runs on one event loop, so what happens between two  *)
(* awaits is one action: a batch is processed whole, and so is the drain   *)
(* that ends the task.                                                     *)
(*                                                                         *)
(* A batch is the number of its request.  The sentinel that stop() puts on *)
(* the queue is item 0.  The task knows it by the name of its service      *)
(* alone, and a request names its service as it likes: a batch whose       *)
(* service bears the name of the sentinel is taken for one.                *)
(*                                                                         *)
(* A definition followed by one of nearly the same name is a defect of the *)
(* second: the behaviour used only to see which property it breaks.        *)
(***************************************************************************)
EXTENDS Naturals, Sequences, FiniteSets

CONSTANTS MaxQueue,     \* limits.max_queue_size
          SoftPct,      \* backpressure.soft_limit_pct
          HardPct,      \* backpressure.hard_limit_pct
          Payloads,     \* what requests carry
          MaxRequests   \* bound: POST /v1/telemetry requests

(* What the pipeline distinguishes in a span: the outcome of trace-level   *)
(* sampling, whether its redaction is reported as failed, and whether the  *)
(* code outside the per-step try blocks can read it.                       *)
Span == [sampled: BOOLEAN, redacted: BOOLEAN, readable: BOOLEAN]

(* A request: whether its service bears the name of the sentinel.          *)
Request == [stop: BOOLEAN, spans: Seq(Span)]

ASSUME IngestionAssumption ==
    /\ MaxQueue \in Nat \ {0}
    /\ SoftPct \in Nat
    /\ HardPct \in Nat
    /\ Payloads \subseteq Request
    /\ MaxRequests \in Nat

VARIABLES mode,       \* backpressure.mode
          dropRaw,    \* redaction.drop_on_failure, with a redactor configured
          queue,      \* _queue
          hand,       \* the item get() returned, until the task resumes
          worker,     \* the task: at the test of its loop, in get(), returned, or raised
          running,    \* _running
          softWarned, \* _soft_warned
          stopper,    \* the caller of stop()
          payload,    \* history: the requests so far
          rejected,   \* history: requests answered 429
          evicted,    \* history: batches dropped to make room
          handled,    \* history: batches given to _process_batch
          mistaken,   \* history: batches taken for the sentinel
          recorded,   \* spans counted by the metrics registry
          kept        \* spans handed to the trace store and the exporter

config == <<mode, dropRaw>>
sinks == <<handled, mistaken, recorded, kept>>
vars == <<config, queue, hand, worker, running, softWarned, stopper,
          payload, rejected, evicted, sinks>>

Stop == 0
Requests == 1..Len(payload)
Nothing == <<>>

(* The batches of a sequence of queue items. *)
Batches(items) == {items[i] : i \in 1..Len(items)} \ {Stop}

(* service == "__stop__", the task's only test for the sentinel.           *)
Named == {b \in Requests : payload[b].stop}
Stops(item) == item \in {Stop} \union Named

-----------------------------------------------------------------------------
(* The pipeline of _process_batch. *)

(* How many spans of a batch are worked on before the first one that makes *)
(* the code outside the try blocks raise; nothing after it is looked at.   *)
Reached(p) ==
    CHOOSE k \in 0..Len(p) :
        /\ \A i \in 1..k : p[i].readable
        /\ k < Len(p) => ~p[k + 1].readable

Broken(p) == Reached(p) < Len(p)

(* Steps 1 to 3: every span is counted, and a sampled one reaches the      *)
(* sinks unless its redaction failed and such spans are to be dropped.     *)
Survives(s) == s.sampled /\ (s.redacted \/ ~dropRaw)
Metered(s) == TRUE

Entries(b, test(_)) ==
    {[batch |-> b, index |-> i] :
        i \in {j \in 1..Reached(payload[b].spans) : test(payload[b].spans[j])}}

(* What the task does with the batches of S: those that look like the      *)
(* sentinel are dropped, the others processed.                             *)
Consume(S) ==
    LET work == {b \in S : ~Stops(b)}
    IN  /\ handled' = handled \union work
        /\ mistaken' = mistaken \union {b \in S : Stops(b)}
        /\ recorded' = recorded \union UNION {Entries(b, Metered) : b \in work}
        /\ kept' = kept \union UNION {Entries(b, Survives) : b \in work}

-----------------------------------------------------------------------------

Init ==
    /\ mode \in {"reject", "drop_oldest"}
    /\ dropRaw \in BOOLEAN
    /\ queue = <<>>
    /\ hand = Nothing
    /\ worker = "test"
    /\ running = TRUE
    /\ softWarned = FALSE
    /\ stopper = "none"
    /\ payload = <<>>
    /\ rejected = {}
    /\ evicted = {}
    /\ handled = {}
    /\ mistaken = {}
    /\ recorded = {}
    /\ kept = {}

(* qsize() / maxsize in percent, compared without division. *)
UsageAtLeast(pct) == Len(queue) * 100 >= pct * MaxQueue

Admit == Len(queue) < MaxQueue

Evict == mode = "drop_oldest" /\ Len(queue) = MaxQueue

(* enqueue, called by the POST handler; requests end before stop().        *)
Enqueue(p) ==
    LET b == Len(payload) + 1
    IN  /\ stopper = "none"
        /\ b <= MaxRequests
        /\ payload' = Append(payload, p)
        /\ softWarned' = UsageAtLeast(SoftPct)
        /\ \/ /\ Admit
              /\ queue' = Append(queue, b)
              /\ UNCHANGED <<rejected, evicted>>
           \/ /\ Evict
              /\ queue' = Append(Tail(queue), b)
              /\ evicted' = evicted \union {Head(queue)}
              /\ UNCHANGED rejected
           \/ /\ ~Admit /\ ~Evict
              /\ rejected' = rejected \union {b}
              /\ UNCHANGED <<queue, evicted>>
        /\ UNCHANGED <<config, hand, worker, running, stopper, sinks>>

(* stop: clear the flag, wake the task with the sentinel if it fits.       *)
CallStop ==
    /\ stopper = "none"
    /\ stopper' = "waiting"
    /\ running' = FALSE
    /\ queue' = IF Len(queue) < MaxQueue THEN Append(queue, Stop) ELSE queue
    /\ UNCHANGED <<config, hand, worker, softWarned, payload, rejected, evicted, sinks>>

(* The test of the loop, before the task waits in get() again.             *)
AwaitItem ==
    /\ worker = "test"
    /\ running
    /\ worker' = "loop"
    /\ UNCHANGED <<config, queue, hand, running, softWarned, stopper, payload,
                   rejected, evicted, sinks>>

(* wait_for gives up after a second with nothing on the queue.  The task   *)
(* comes back to the test of its loop in a later turn of the event loop,   *)
(* after requests or a stop() that came first.                             *)
Expire ==
    /\ worker = "loop"
    /\ hand = Nothing
    /\ queue = <<>>
    /\ worker' = "test"
    /\ UNCHANGED <<config, queue, hand, running, softWarned, stopper, payload,
                   rejected, evicted, sinks>>

(* queue.get() completes inside wait_for; the task resumes with its item   *)
(* in a later turn of the event loop (in the same one from Python 3.12).   *)
TookAndLost ==
    /\ hand' = Nothing
    /\ queue' = Tail(queue)
TookNewest ==
    /\ hand' = <<queue[Len(queue)]>>
    /\ queue' = SubSeq(queue, 1, Len(queue) - 1)
Took ==
    /\ hand' = <<Head(queue)>>
    /\ queue' = Tail(queue)

Take ==
    /\ worker = "loop"
    /\ hand = Nothing
    /\ queue # <<>>
    /\ Took
    /\ UNCHANGED <<config, worker, running, softWarned, stopper, payload,
                   rejected, evicted, sinks>>

(* Whether the task leaves its loop when it runs next: after the item in   *)
(* hand, which looks like the sentinel or finds the flag cleared, or at    *)
(* the test of the loop.                                                   *)
SentinelOnly == hand # Nothing /\ Stops(hand[1])
LastTurn ==
    \/ hand # Nothing /\ (Stops(hand[1]) \/ ~running)
    \/ worker = "test" /\ ~running

(* One turn of the loop: an exception in the batch is logged and dropped.  *)
HandleBatch ==
    /\ hand # Nothing
    /\ ~LastTurn
    /\ Consume(Batches(hand))
    /\ hand' = Nothing
    /\ UNCHANGED <<config, queue, worker, running, softWarned, stopper,
                   payload, rejected, evicted>>

(* The last turn and the final drain, which no other coroutine interrupts  *)
(* and no try protects: it consumes the first k items, where the k-th is   *)
(* the first that raises, or all of them.  An item that looks like the     *)
(* sentinel is skipped.                                                    *)
BreaksDrain(item) == ~Stops(item) /\ Broken(payload[item].spans)

DrainsNone(k) == k = 0
Drains(k) ==
    /\ \A i \in 1..k : BreaksDrain(queue[i]) => i = k
    /\ k < Len(queue) => k > 0 /\ BreaksDrain(queue[k])

HandleLast ==
    /\ LastTurn
    /\ \E k \in 0..Len(queue) :
          /\ Drains(k)
          /\ Consume(Batches(hand) \union Batches(SubSeq(queue, 1, k)))
          /\ queue' = SubSeq(queue, k + 1, Len(queue))
          /\ worker' = IF k > 0 /\ BreaksDrain(queue[k]) THEN "raised" ELSE "returned"
    /\ hand' = Nothing
    /\ UNCHANGED <<config, running, softWarned, stopper, payload, rejected, evicted>>

Ended == worker \in {"returned", "raised"}

(* stop() awaits the task and passes its exception on. *)
Join ==
    /\ stopper = "waiting"
    /\ Ended
    /\ stopper' = worker
    /\ UNCHANGED <<config, queue, hand, worker, running, softWarned, payload,
                   rejected, evicted, sinks>>

Next ==
    \/ \E p \in Payloads : Enqueue(p)
    \/ CallStop
    \/ AwaitItem
    \/ Expire
    \/ Take
    \/ HandleBatch
    \/ HandleLast
    \/ Join

(* The event loop runs every ready task; that requests arrive, that the    *)
(* server is stopped or that a get() expires is not assumed.               *)
Fairness ==
    WF_vars(AwaitItem) /\ WF_vars(Take) /\ WF_vars(HandleBatch) /\ WF_vars(HandleLast) /\ WF_vars(Join)

Spec == Init /\ [][Next]_vars /\ Fairness

-----------------------------------------------------------------------------

Items == 0..Len(payload)
Entry == [batch : Nat, index : Nat]

TypeOK ==
    /\ mode \in {"reject", "drop_oldest"}
    /\ dropRaw \in BOOLEAN
    /\ queue \in Seq(Items) /\ Len(queue) <= MaxQueue
    /\ hand \in {Nothing} \union {<<i>> : i \in Items}
    /\ worker \in {"test", "loop", "returned", "raised"}
    /\ running \in BOOLEAN /\ softWarned \in BOOLEAN
    /\ stopper \in {"none", "waiting", "returned", "raised"}
    /\ payload \in Seq(Payloads)
    /\ rejected \subseteq Requests /\ evicted \subseteq Requests
    /\ handled \subseteq Requests /\ mistaken \subseteq Requests
    /\ recorded \subseteq Entry /\ kept \subseteq Entry

(* The batches the server still holds. *)
Pending == Batches(queue) \union Batches(hand)

(* Every request ends in one place and only one: refused, dropped under    *)
(* pressure, processed, taken for the sentinel, or still held.  No         *)
(* interleaving of requests with the consumer and its shutdown loses an    *)
(* accepted batch in another way, and the only ones taken for the sentinel *)
(* are those whose service bears its name.                                 *)
Conservation ==
    /\ Requests = rejected \union evicted \union handled \union mistaken \union Pending
    /\ rejected \intersect (evicted \union handled \union mistaken \union Pending) = {}
    /\ evicted \intersect (handled \union mistaken \union Pending) = {}
    /\ (handled \union mistaken) \intersect Pending = {}
    /\ handled \intersect Named = {}
    /\ mistaken \subseteq Named

(* The queue and its consumer implement a bounded queue: requests are      *)
(* answered at once, refused or displacing others only when no slot is     *)
(* free, and served one at a time in their order, also while the server    *)
(* stops.  A batch whose service bears the name of the sentinel is an      *)
(* offer to close; the sentinel itself, always the last thing put on the   *)
(* queue, is not an item of it.                                            *)
Requested(items) ==
    IF items # <<>> /\ items[Len(items)] = Stop
    THEN SubSeq(items, 1, Len(items) - 1) ELSE items

Promised == INSTANCE BoundedQueue WITH
    Capacity <- MaxQueue,
    offers <- Len(payload),
    waiting <- Requested(queue),
    serving <- Requested(hand),
    served <- handled,
    spent <- mistaken,
    closers <- Named,
    refused <- rejected,
    displaced <- evicted,
    closed <- Ended

ImplementsQueue == Promised!Spec

(* The metrics, the trace store and the exporter see the batches in the    *)
(* order they were accepted, and each once: what a step adds is newer than *)
(* all they have, whatever was evicted in between, whether the task is in  *)
(* its loop or drains the queue, and however it was told to stop.          *)
ArrivalOrder ==
    [][/\ \A e \in recorded' \ recorded : \A f \in recorded : f.batch < e.batch
       /\ \A e \in kept' \ kept : \A f \in kept : f.batch < e.batch]_vars

(* A task that returns leaves nothing behind: unless a batch was taken for *)
(* the sentinel, it returns after a stop() only, and loses no accepted     *)
(* batch, also when the queue was too full to take the sentinel or get()   *)
(* had just expired.                                                       *)
CleanStopDrains ==
    worker = "returned" /\ mistaken = {} => Pending = {} /\ ~running

(* The caller of stop() gets its answer, whether the task meets the        *)
(* sentinel or, the queue having had no room for it, the cleared flag.     *)
StopAnswered == stopper = "waiting" ~> stopper \in {"returned", "raised"}

(* What the documentation says of hard_limit_pct: from that usage on,      *)
(* reject mode refuses a request.                                          *)
HardLimitRejects ==
    [][mode = "reject" /\ UsageAtLeast(HardPct) /\ payload' # payload
          => rejected' # rejected]_vars
=============================================================================
