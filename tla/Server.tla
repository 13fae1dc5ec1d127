-------------------------------- MODULE Server --------------------------------
(***************************************************************************)
(* The server process (server/app.py) around its two queues: a request     *)
(* passes the rate limiter (server/rate_limiter.py) and is put on the      *)
(* ingestion queue; the ingestion task forwards it and may ask for an      *)
(* evaluation, whose result the evaluation pool puts back on the ingestion *)
(* queue; at shutdown the lifespan stops the pool, then the ingestion      *)
(* task, each within its share of the grace period, and closes the         *)
(* exporter last.                                                          *)
(*                                                                         *)
(* Ingestion and Evaluation hold the detail of the two queues and their    *)
(* workers; here one action is a turn of either.  As there, a request that *)
(* names its service like the sentinel is accepted, and ends the ingestion *)
(* task.                                                                   *)
(*                                                                         *)
(* A definition followed by one of nearly the same name is a defect of the *)
(* second: the behaviour used only to see which property it breaks.        *)
(***************************************************************************)
EXTENDS Naturals, Sequences, FiniteSets, SequencesExt

CONSTANTS Clients,      \* client addresses
          Services,     \* values of the service field; StopName may be one
          ClientLimit,  \* rate_limit.per_ip_rpm
          ServiceLimit, \* rate_limit.per_service_rpm
          Window,       \* clock ticks in a minute
          MaxQueue,     \* limits.max_queue_size
          MaxTasks,     \* evaluation.queue_size
          MaxRequests,  \* bound: requests
          MaxClock      \* bound: clock ticks

ASSUME ServerAssumption ==
    /\ {ClientLimit, ServiceLimit, Window, MaxQueue, MaxTasks} \subseteq Nat \ {0}
    /\ {MaxRequests, MaxClock} \subseteq Nat

VARIABLES mode,      \* backpressure.mode
          policy,    \* evaluation.drop_policy
          clock,     \* time.monotonic()
          perClient, \* _ip_counters: of each address, its window and count
          perService,\* _service_counters
          requests,  \* history: each request, its time and the answer to it
          queue,     \* the ingestion queue
          tasks,     \* the evaluation queue
          hand,      \* the task the pool evaluates
          phase,     \* where the lifespan is
          worker,    \* the ingestion task
          pool,      \* the evaluation drain loop
          offered,   \* history: items given to enqueue
          refused,   \* history: items the full ingestion queue refused
          mistaken,  \* history: items taken for the sentinel
          evicted,   \* history: items dropped to make room
          forwarded, \* history: items handed to the open exporter
          timedOut   \* history: stops given up on

config == <<mode, policy>>
limiter == <<clock, perClient, perService>>
vars == <<config, limiter, requests, queue, tasks, hand, phase, worker, pool,
          offered, refused, mistaken, evicted, forwarded, timedOut>>

StopName == "__stop__"                     \* what stop() puts for a service
Contents == {"spans", "judged", "broken"}  \* what a request carries

-----------------------------------------------------------------------------
(* _WindowCounter.allow: the window the clock is in, and its attempts.     *)

Fresh == [bucket |-> 0, count |-> 0]
Bucket == clock \div Window

CountedFromZero(c) ==
    [bucket |-> Bucket, count |-> IF c.bucket = Bucket THEN c.count + 1 ELSE 0]
Counted(c) ==
    [bucket |-> Bucket, count |-> IF c.bucket = Bucket THEN c.count + 1 ELSE 1]

AllowedClient(a) == Counted(perClient[a]).count <= ClientLimit
AllowedService(s) == Counted(perService[s]).count <= ServiceLimit

(* RateLimiter.check: refused requests count too, and one that the address *)
(* limit refuses is not counted for its service.                           *)
ServiceCounted(a, s) ==
    IF AllowedClient(a) THEN [perService EXCEPT ![s] = Counted(@)] ELSE perService

-----------------------------------------------------------------------------
(* IngestionWorker.enqueue, which requests and evaluation results go       *)
(* through alike.                                                          *)

Full == Len(queue) = MaxQueue

Enqueue(item) ==
    /\ offered' = offered \union {item}
    /\ IF Full /\ mode = "reject"
       THEN /\ refused' = refused \union {item}
            /\ UNCHANGED <<queue, evicted>>
       ELSE /\ queue' = Append(IF Full THEN Tail(queue) ELSE queue, item)
            /\ evicted' = IF Full THEN evicted \union {Head(queue)} ELSE evicted
            /\ UNCHANGED refused

(* What the ingestion task does with a run of items: those named like the  *)
(* sentinel are dropped, the others forwarded, and those that ask for it   *)
(* give an evaluation task, which a full evaluation queue refuses or makes *)
(* room for.                                                               *)
Asks(items) == SelectSeq(items, LAMBDA x : x.is = "judged")

Fitting(ts) ==
    LET over == Len(ts) - MaxTasks
    IN  IF over <= 0 THEN ts
        ELSE IF policy = "drop_new" THEN SubSeq(ts, 1, MaxTasks)
        ELSE SubSeq(ts, over + 1, Len(ts))

Handle(items) ==
    /\ forwarded' = forwarded \union
          (IF phase = "stopped" THEN {}
           ELSE {x \in ToSet(items) : x.is \notin {"stop", "broken"}})
    /\ mistaken' = mistaken \union {x \in ToSet(items) : x.is = "stop"}
    /\ tasks' = Fitting(tasks \o Asks(items))

(* The final drain of the task, up to an item that makes it raise.         *)
Drain(items) ==
    \E k \in 0..Len(items) :
        /\ \A i \in 1..k - 1 : items[i].is # "broken"
        /\ k < Len(items) => k > 0 /\ items[k].is = "broken"
        /\ Handle(SubSeq(items, 1, k))
        /\ queue' = SubSeq(items, k + 1, Len(items))
        /\ worker' = IF k > 0 /\ items[k].is = "broken" THEN "raised" ELSE "ended"

-----------------------------------------------------------------------------

Init ==
    /\ mode \in {"reject", "drop_oldest"}
    /\ policy \in {"drop_new", "drop_oldest"}
    /\ clock = 0
    /\ perClient = [a \in Clients |-> Fresh]
    /\ perService = [s \in Services |-> Fresh]
    /\ requests = <<>>
    /\ queue = <<>>
    /\ tasks = <<>>
    /\ hand = <<>>
    /\ phase = "serving"
    /\ worker = "loop"
    /\ pool = "loop"
    /\ offered = {}
    /\ refused = {}
    /\ mistaken = {}
    /\ evicted = {}
    /\ forwarded = {}
    /\ timedOut = {}

Tick ==
    /\ clock < MaxClock
    /\ clock' = clock + 1
    /\ UNCHANGED <<config, perClient, perService, requests, queue, tasks, hand, phase,
                   worker, pool, offered, refused, mistaken, evicted, forwarded, timedOut>>

(* POST /v1/telemetry, with rate limiting on. *)
Post(a, s, content) ==
    LET n == Len(requests) + 1
        answer == CASE ~AllowedClient(a) -> "ip"
                    [] AllowedClient(a) /\ ~AllowedService(s) -> "service"
                    [] OTHER -> IF Full /\ mode = "reject" THEN "full" ELSE "accepted"
    IN  /\ phase = "serving"
        /\ n <= MaxRequests
        /\ perClient' = [perClient EXCEPT ![a] = Counted(@)]
        /\ perService' = ServiceCounted(a, s)
        /\ requests' = Append(requests,
               [client |-> a, service |-> s, at |-> clock, answer |-> answer])
        /\ IF answer \in {"ip", "service"}
           THEN UNCHANGED <<queue, offered, refused, evicted>>
           ELSE Enqueue([of |-> n, is |-> IF s = StopName THEN "stop" ELSE content])
        /\ UNCHANGED <<config, clock, tasks, hand, phase, worker, pool, mistaken,
                       forwarded, timedOut>>

(* A turn of the ingestion task.  An item named like the sentinel is the   *)
(* last: what comes to the queue after its drain stays there.              *)
Ingest ==
    /\ worker = "loop"
    /\ queue # <<>>
    /\ Head(queue).is # "stop"
    /\ Handle(<<Head(queue)>>)
    /\ queue' = Tail(queue)
    /\ UNCHANGED <<config, limiter, requests, hand, phase, worker, pool, offered,
                   refused, evicted, timedOut>>

Mistake ==
    /\ worker = "loop"
    /\ queue # <<>>
    /\ Head(queue).is = "stop"
    /\ Drain(queue)
    /\ UNCHANGED <<config, limiter, requests, hand, phase, pool, offered,
                   refused, evicted, timedOut>>

(* A turn of the evaluation drain loop: fetch a task, then emit its result *)
(* through enqueue, whose answer it ignores.  A get that was under way     *)
(* when the pool was told to stop may still return a task.                 *)
Fetch ==
    /\ pool = "loop"
    /\ phase \in {"serving", "pool"}
    /\ hand = <<>>
    /\ tasks # <<>>
    /\ hand' = <<Head(tasks)>>
    /\ tasks' = Tail(tasks)
    /\ UNCHANGED <<config, limiter, requests, queue, phase, worker, pool, offered,
                   refused, mistaken, evicted, forwarded, timedOut>>

Emit ==
    /\ pool = "loop"
    /\ hand # <<>>
    /\ Enqueue([of |-> Head(hand).of, is |-> "result"])
    /\ hand' = <<>>
    /\ UNCHANGED <<config, limiter, requests, tasks, phase, worker, pool, mistaken,
                   forwarded, timedOut>>

-----------------------------------------------------------------------------
(* lifespan, once uvicorn has answered the last request.                   *)

(* The phase after each: the pool first, because its results go to the     *)
(* ingestion task, and the exporter, to which that task forwards, last.    *)
IngestionFirst ==
    [serving |-> "ingestion", ingestion |-> "pool", pool |-> "exporter", exporter |-> "stopped"]
Order ==
    [serving |-> "pool", pool |-> "ingestion", ingestion |-> "exporter", exporter |-> "stopped"]

Shutdown ==
    /\ phase = "serving"
    /\ phase' = Order[phase]
    /\ UNCHANGED <<config, limiter, requests, queue, tasks, hand, worker, pool,
                   offered, refused, mistaken, evicted, forwarded, timedOut>>

(* eval_worker.stop() returns: the loop has ended between two tasks; those *)
(* still queued stay there.                                                *)
BetweenTasks == hand = <<>>

PoolStopped ==
    /\ phase = "pool"
    /\ BetweenTasks
    /\ pool' = "ended"
    /\ hand' = <<>>
    /\ phase' = Order[phase]
    /\ UNCHANGED <<config, limiter, requests, queue, tasks, worker, offered, refused,
                   mistaken, evicted, forwarded, timedOut>>

(* A stop() given up on is cancelled, and with it the task it awaits; with *)
(* a grace period of 0 it may not even have begun.                         *)
PoolTimesOut ==
    /\ phase = "pool"
    /\ timedOut' = timedOut \union {"pool"}
    /\ \/ pool' = "cancelled" /\ hand' = <<>>
       \/ UNCHANGED <<pool, hand>>
    /\ phase' = Order[phase]
    /\ UNCHANGED <<config, limiter, requests, queue, tasks, worker, offered, refused,
                   mistaken, evicted, forwarded>>

(* worker.stop() of a task in its loop: it drains the whole queue, or up   *)
(* to an item that makes it raise.  The exception leaves lifespan, which   *)
(* never gets to close the exporter.                                       *)
IngestionStopped ==
    /\ phase = "ingestion"
    /\ worker = "loop"
    /\ Drain(queue)
    /\ phase' = IF worker' = "raised" THEN "raised" ELSE Order[phase]
    /\ UNCHANGED <<config, limiter, requests, hand, pool, offered, refused, evicted, timedOut>>

(* worker.stop() of a task that has ended already: there is nobody to      *)
(* drain the queue, and an exception the task ended with is raised now.    *)
NothingToStop ==
    /\ phase = "ingestion"
    /\ worker # "loop"
    /\ phase' = IF worker = "raised" THEN "raised" ELSE Order[phase]
    /\ UNCHANGED <<config, limiter, requests, queue, tasks, hand, worker, pool,
                   offered, refused, mistaken, evicted, forwarded, timedOut>>

IngestionTimesOut ==
    /\ phase = "ingestion"
    /\ timedOut' = timedOut \union {"ingestion"}
    /\ worker' \in (IF worker = "loop" THEN {"cancelled", "loop"} ELSE {worker})
    /\ phase' = Order[phase]
    /\ UNCHANGED <<config, limiter, requests, queue, tasks, hand, pool, offered, refused,
                   mistaken, evicted, forwarded>>

CloseExporter ==
    /\ phase = "exporter"
    /\ phase' = Order[phase]
    /\ UNCHANGED <<config, limiter, requests, queue, tasks, hand, worker, pool,
                   offered, refused, mistaken, evicted, forwarded, timedOut>>

Next ==
    \/ Tick
    \/ \E a \in Clients, s \in Services, c \in Contents : Post(a, s, c)
    \/ Ingest
    \/ Mistake
    \/ Fetch
    \/ Emit
    \/ Shutdown
    \/ PoolStopped
    \/ PoolTimesOut
    \/ IngestionStopped
    \/ NothingToStop
    \/ IngestionTimesOut
    \/ CloseExporter

Spec == Init /\ [][Next]_vars

-----------------------------------------------------------------------------

(* When every stop returns in time, each item given to the queue, request  *)
(* and evaluation result alike, was forwarded before the exporter closed,  *)
(* refused by a full queue or dropped under pressure, and the pool leaves  *)
(* no evaluation half done.  Only a request named like the sentinel makes  *)
(* an exception: it is dropped, and what the queue accepts after the task  *)
(* it ended stays there.                                                   *)
CleanShutdownLosesNothing ==
    phase = "stopped" /\ timedOut = {} =>
        /\ hand = <<>>
        /\ {x \in offered : x.is # "broken"} \subseteq
               forwarded \union refused \union evicted \union mistaken \union ToSet(queue)
        /\ queue # <<>> => mistaken # {}

AllowedIn(b) ==
    {i \in 1..Len(requests) :
        requests[i].at \div Window = b /\ requests[i].answer \notin {"ip", "service"}}

(* In no window do more requests of an address, or for a service, get past *)
(* the limiter than its limit, whatever the clock and the other senders    *)
(* do; so at most twice the limit in any interval as long as a window.     *)
RateBounded ==
    \A b \in 0..Bucket :
        /\ \A a \in Clients :
              Cardinality({i \in AllowedIn(b) : requests[i].client = a}) <= ClientLimit
        /\ \A s \in Services :
              Cardinality({i \in AllowedIn(b) : requests[i].service = s}) <= ServiceLimit

(* The requests of the same window that came before. *)
Before(i) ==
    {j \in 1..i - 1 : requests[j].at \div Window = requests[i].at \div Window}

(* A request is refused only for what its window saw before it: as many    *)
(* requests of the same address as the limit, or as many for the service   *)
(* from addresses within theirs.  An address over its limit never uses up  *)
(* what others may send.                                                   *)
RefusedForCause ==
    \A i \in 1..Len(requests) :
        /\ requests[i].answer = "ip" =>
              Cardinality({j \in Before(i) : requests[j].client = requests[i].client})
                  >= ClientLimit
        /\ requests[i].answer = "service" =>
              Cardinality({j \in Before(i) : /\ requests[j].service = requests[i].service
                                             /\ requests[j].answer # "ip"}) >= ServiceLimit

(* What the rate limiter promises: it bounds what gets past it, and        *)
(* refuses nothing it should let past.                                     *)
LimitsKept == RateBounded /\ RefusedForCause
=============================================================================
