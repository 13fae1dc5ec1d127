------------------------------ MODULE SpanExport ------------------------------
(***************************************************************************)
(* The client's span queue (rastir/queue.py) and its exporter              *)
(* (rastir/transport.py).  Application threads put finished spans on a     *)
(* bounded queue.Queue; a daemon thread takes them off in batches and      *)
(* posts each batch, with retries, to the collector.  The thread that      *)
(* calls stop(), explicitly or as the atexit handler, waits for the daemon *)
(* at most shutdown_timeout and then sends what is left itself, so two     *)
(* threads may take spans and post at the same time.                       *)
(*                                                                         *)
(* The k-th span put on the queue is the number k.  The queue is FIFO, so  *)
(* it and a batch are sets of numbers and the head is the least.           *)
(*                                                                         *)
(* A definition followed by one of nearly the same name is a defect of the *)
(* second: the behaviour used only to see which property it breaks.        *)
(***************************************************************************)
EXTENDS Naturals, FiniteSets

CONSTANTS MaxQueue,   \* maxsize of _span_queue
          BatchSize,  \* exporter.batch_size
          MaxRetries, \* exporter.max_retries: posts of one batch at most
          MaxSpans    \* bound: spans finished by the application

ASSUME SpanExportAssumption ==
    /\ MaxQueue \in Nat \ {0}
    /\ BatchSize \in Nat \ {0}   \* configure() checks neither of the two;
    /\ MaxRetries \in Nat \ {0}  \* the defaults are 100 and 3
    /\ MaxSpans \in Nat

VARIABLES queue,    \* _span_queue
          made,     \* history: spans given to enqueue_span
          unsound,  \* the spans json.dumps cannot serialise
          pc,       \* where each sender is
          batch,    \* the batch each sender has taken
          attempt,  \* the attempt of send_batch it is in
          stopping, \* _stop_event
          closed,   \* the httpx client is closed
          exiting,  \* the interpreter is running its atexit handlers
          timedOut, \* history: a join ended by its timeout
          before,   \* history: spans made before the last stop() that waited
          refused,  \* history: spans dropped at the full queue
          exported, \* the spans _spans_exported counts
          dropped,  \* the spans _spans_dropped counts
          lost,     \* history: spans of a batch whose payload was not built
          arrivals  \* history: how often the collector got each span

spanVars == <<made, unsound, refused>>
stopVars == <<stopping, closed, exiting, timedOut, before>>
fates == <<exported, dropped, lost, arrivals>>
vars == <<queue, pc, batch, attempt, spanVars, stopVars, fates>>

(* The daemon thread and the thread that calls stop(). *)
Senders == {"thread", "caller"}

Made == 1..made
Oldest(S) == CHOOSE k \in S : \A j \in S : k <= j

(* Where a sender may be.  The caller has exited when the stop() of the    *)
(* atexit handler returned, and failed when it raised.                     *)
Places == [thread |-> {"wait", "drain", "send", "dead"},
           caller |-> {"app", "join", "check", "drain", "send", "close", "raised",
                       "exited", "failed"}]

(* The process exists until the atexit handler of the exporter is through. *)
Alive == pc["caller"] \notin {"exited", "failed"}

Init ==
    /\ queue = {}
    /\ made = 0
    /\ unsound = {}
    /\ pc = [s \in Senders |-> IF s = "thread" THEN "wait" ELSE "app"]
    /\ batch = [s \in Senders |-> {}]
    /\ attempt = [s \in Senders |-> 1]
    /\ stopping = FALSE
    /\ closed = FALSE
    /\ exiting = FALSE
    /\ timedOut = FALSE
    /\ before = 0
    /\ refused = {}
    /\ exported = {}
    /\ dropped = {}
    /\ lost = {}
    /\ arrivals = [k \in 1..MaxSpans |-> 0]

-----------------------------------------------------------------------------
(* enqueue_span: a full queue drops the new span, uncounted.               *)

Fits == Cardinality(queue) < MaxQueue

Enqueue(serialisable) ==
    LET k == made + 1
    IN  /\ Alive
        /\ k <= MaxSpans
        /\ made' = k
        /\ unsound' = IF serialisable THEN unsound ELSE unsound \union {k}
        /\ queue' = IF Fits THEN queue \union {k} ELSE queue
        /\ refused' = IF Fits THEN refused ELSE refused \union {k}
        /\ UNCHANGED <<pc, batch, attempt, stopVars, fates>>

-----------------------------------------------------------------------------
(* _flush_once and send_batch, by either sender.                           *)

(* Where a sender goes after a batch: the daemon's loop tests the event,   *)
(* _flush_all tests the queue.                                             *)
After(s) ==
    IF s = "caller" THEN "check" ELSE IF stopping THEN "dead" ELSE "wait"

(* The event's wait ends, when stop() sets it or after flush_interval.     *)
WokenByStop == stopping
Woken == TRUE

Wake ==
    /\ Alive
    /\ pc["thread"] = "wait"
    /\ Woken
    /\ pc' = [pc EXCEPT !["thread"] = "drain"]
    /\ UNCHANGED <<queue, batch, attempt, spanVars, stopVars, fates>>

(* The queue after get_nowait returned k. *)
LeftBehind(k) == queue
Left(k) == queue \ {k}

(* drain_batch takes one span with each get_nowait ...                     *)
NewestOut == CHOOSE k \in queue : \A j \in queue : j <= k
NextOut == Oldest(queue)

Get(s) ==
    /\ Alive
    /\ pc[s] = "drain"
    /\ queue # {}
    /\ Cardinality(batch[s]) < BatchSize
    /\ batch' = [batch EXCEPT ![s] = @ \union {NextOut}]
    /\ queue' = Left(NextOut)
    /\ UNCHANGED <<pc, attempt, spanVars, stopVars, fates>>

(* ... until the batch is full or the queue empty.  No try protects the    *)
(* building of the payload: its exception ends the daemon thread, or       *)
(* propagates to the caller of stop().                                     *)
Sound(s) == batch[s] \intersect unsound = {}

Drained(s) ==
    /\ Alive
    /\ pc[s] = "drain"
    /\ queue = {} \/ Cardinality(batch[s]) = BatchSize
    /\ \/ /\ batch[s] = {}
          /\ pc' = [pc EXCEPT ![s] = IF s = "caller" THEN "close" ELSE After(s)]
          /\ UNCHANGED <<batch, lost>>
       \/ /\ batch[s] # {} /\ Sound(s)
          /\ pc' = [pc EXCEPT ![s] = "send"]
          /\ UNCHANGED <<batch, lost>>
       \/ /\ ~Sound(s)
          /\ pc' = [pc EXCEPT ![s] = IF s = "caller" THEN "raised" ELSE "dead"]
          /\ lost' = lost \union batch[s]
          /\ batch' = [batch EXCEPT ![s] = {}]
    /\ attempt' = [attempt EXCEPT ![s] = 1]
    /\ UNCHANGED <<queue, spanVars, stopVars, exported, dropped, arrivals>>

Arrive(s) ==
    arrivals' = [k \in DOMAIN arrivals |->
                    IF k \in batch[s] THEN arrivals[k] + 1 ELSE arrivals[k]]

Finish(s) ==
    /\ batch' = [batch EXCEPT ![s] = {}]
    /\ pc' = [pc EXCEPT ![s] = After(s)]
    /\ UNCHANGED attempt

(* A post answered with 2xx. *)
Accepted(s) ==
    /\ Alive
    /\ pc[s] = "send"
    /\ ~closed
    /\ Arrive(s)
    /\ exported' = exported \union batch[s]
    /\ Finish(s)
    /\ UNCHANGED <<queue, spanVars, stopVars, dropped, lost>>

LastAttemptNever(s) == FALSE
LastAttempt(s) == attempt[s] = MaxRetries

(* A retryable status, a timeout or a broken connection.  The collector    *)
(* may have taken the batch and its answer been lost.                      *)
SettledAs(s) ==
    /\ dropped' = dropped \union batch[s]
    /\ Finish(s)
Transient(s) ==
    /\ Alive
    /\ pc[s] = "send"
    /\ ~closed
    /\ Arrive(s) \/ UNCHANGED arrivals
    /\ \/ /\ LastAttempt(s)
          /\ SettledAs(s)
       \/ /\ ~LastAttempt(s)
          /\ attempt' = [attempt EXCEPT ![s] = @ + 1]
          /\ UNCHANGED <<batch, pc, dropped>>
    /\ UNCHANGED <<queue, spanVars, stopVars, exported, lost>>

(* A status that is not retried, or an exception of any other type: a read *)
(* error after the request was written, or the closed client.              *)
Failed(s) ==
    /\ Alive
    /\ pc[s] = "send"
    /\ (~closed /\ Arrive(s)) \/ UNCHANGED arrivals
    /\ SettledAs(s)
    /\ UNCHANGED <<queue, spanVars, stopVars, exported, lost>>

-----------------------------------------------------------------------------
(* stop(), called once by the application and once by atexit.              *)

(* Nothing happens when the daemon thread has ended. *)
EndedNever == FALSE
Ended == pc["thread"] = "dead"

Stop(next) ==
    IF Ended
    THEN /\ pc' = [pc EXCEPT !["caller"] = next]
         /\ UNCHANGED <<stopping, before>>
    ELSE /\ pc' = [pc EXCEPT !["caller"] = "join"]
         /\ stopping' = TRUE
         /\ before' = made

CallStop ==
    /\ pc["caller"] = "app"
    /\ ~stopping
    /\ Stop("app")
    /\ UNCHANGED <<queue, batch, attempt, spanVars, closed, exiting, timedOut, fates>>

Exit ==
    /\ pc["caller"] \in {"app", "raised"}
    /\ ~exiting
    /\ exiting' = TRUE
    /\ Stop("exited")
    /\ UNCHANGED <<queue, batch, attempt, spanVars, closed, timedOut, fates>>

(* The exception of stop() is printed by the atexit machinery. *)
ExitRaised ==
    /\ pc["caller"] = "raised"
    /\ exiting
    /\ pc' = [pc EXCEPT !["caller"] = "failed"]
    /\ UNCHANGED <<queue, batch, attempt, spanVars, stopVars, fates>>

(* thread.join(timeout) *)
Join ==
    /\ pc["caller"] = "join"
    /\ pc' = [pc EXCEPT !["caller"] = "check"]
    /\ timedOut' = (timedOut \/ pc["thread"] # "dead")
    /\ UNCHANGED <<queue, batch, attempt, spanVars, stopping, closed, exiting, before, fates>>

(* The test of _flush_all, and what follows its loop. *)
MoreThanOne == Cardinality(queue) > 1
More == queue # {}

Check ==
    /\ pc["caller"] = "check"
    /\ pc' = [pc EXCEPT !["caller"] = IF More THEN "drain" ELSE "close"]
    /\ UNCHANGED <<queue, batch, attempt, spanVars, stopVars, fates>>

Close ==
    /\ pc["caller"] = "close"
    /\ closed' = TRUE
    /\ pc' = [pc EXCEPT !["caller"] = IF exiting THEN "exited" ELSE "app"]
    /\ UNCHANGED <<queue, batch, attempt, spanVars, stopping, exiting, timedOut, before, fates>>

Send(s) == Get(s) \/ Drained(s) \/ Accepted(s) \/ Transient(s) \/ Failed(s)
Thread == Wake \/ Send("thread")
Caller == Send("caller") \/ Join \/ Check \/ Close \/ ExitRaised

Next ==
    \/ \E serialisable \in BOOLEAN : Enqueue(serialisable)
    \/ Thread
    \/ Caller
    \/ CallStop
    \/ Exit

(* Both threads are scheduled, every wait, join and request has a timeout; *)
(* nobody need finish spans, call stop() or exit.                          *)
Fairness == WF_vars(Thread) /\ WF_vars(Caller)

Spec == Init /\ [][Next]_vars /\ Fairness

-----------------------------------------------------------------------------

(* No queue or batch is larger than configured. *)
TypeOK ==
    /\ made \in 0..MaxSpans
    /\ {queue, unsound, refused, exported, dropped, lost} \subseteq SUBSET Made
    /\ Cardinality(queue) <= MaxQueue
    /\ DOMAIN pc = Senders /\ \A s \in Senders : pc[s] \in Places[s]
    /\ batch \in [Senders -> SUBSET Made]
    /\ \A s \in Senders : Cardinality(batch[s]) <= BatchSize
    /\ attempt \in [Senders -> 1..MaxRetries]
    /\ {stopping, closed, exiting, timedOut} \subseteq BOOLEAN
    /\ before \in 0..made
    /\ arrivals \in [1..MaxSpans -> Nat]

Settled == exported \union dropped \union lost
Pending == queue \union batch["thread"] \union batch["caller"]

(* Every finished span has exactly one fate, also when the daemon and the  *)
(* thread in stop() take spans and post at the same time: none is posted   *)
(* by both, counted twice or dropped uncounted, except at the full queue   *)
(* or with a batch that cannot be serialised.                              *)
Conservation ==
    /\ Made = refused \union Settled \union Pending
    /\ refused \intersect (Settled \union Pending) = {}
    /\ Settled \intersect Pending = {}
    /\ exported \intersect (dropped \union lost) = {}
    /\ dropped \intersect lost = {}
    /\ queue \intersect (batch["thread"] \union batch["caller"]) = {}
    /\ batch["thread"] \intersect batch["caller"] = {}

(* A span counted as exported reached the collector at least once; lost    *)
(* answers make no span arrive more often than max_retries, and one that   *)
(* was refused, or never left its queue, does not arrive at all.           *)
Delivery ==
    /\ \A k \in exported : arrivals[k] >= 1
    /\ \A k \in 1..MaxSpans : arrivals[k] <= MaxRetries
    /\ \A k \in queue \union refused \union lost : arrivals[k] = 0

(* As long as the daemon ends within shutdown_timeout, spans are settled   *)
(* in the order in which they were finished: no batch overtakes another.   *)
SettledInOrder ==
    ~timedOut => /\ \A j \in Settled, k \in Pending : j < k
                 /\ \A s \in Senders : \A j \in batch[s], k \in queue : j < k

(* When a stop() that did not raise has closed the client, nothing         *)
(* finished before the call is still queued; if the daemon ended in time   *)
(* nothing is in flight either.                                            *)
StopFlushes ==
    closed /\ pc["caller"] \in {"app", "exited"} =>
        /\ \A k \in queue : k > before
        /\ ~timedOut => Pending \subseteq queue

(* The daemon uses the client only while it is open, unless stop() gave up *)
(* waiting for it; stop() itself never sends on the client it closed.      *)
ClosedClientUnused ==
    closed /\ ~timedOut => \A s \in Senders : pc[s] \notin {"drain", "send"}

(* A queued span is settled, unless the daemon thread has ended or the     *)
(* process has.                                                            *)
EventuallySettled ==
    \A k \in 1..MaxSpans :
        k \in queue ~> k \in Settled \/ pc["thread"] = "dead" \/ ~Alive

(* What the documentation of the exporter says: on shutdown, via atexit or *)
(* an explicit stop, it performs a final drain.  So an exit that finds     *)
(* spans on the queue does not return from stop() at once.                 *)
ExitDrains ==
    [][exiting' # exiting /\ queue # {} => pc'["caller"] # "exited"]_vars
=============================================================================
