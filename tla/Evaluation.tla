------------------------------ MODULE Evaluation ------------------------------
(***************************************************************************)
(* The server's evaluation queue (server/evaluation_queue.py) and worker   *)
(* pool (server/evaluation_worker.py).  The ingestion task puts evaluation *)
(* tasks on a bounded queue.Queue; the drain loop, a coroutine, fetches    *)
(* them one at a time through an executor thread, submits one job per      *)
(* evaluation type to a thread pool and waits for each job in turn.        *)
(* Evaluators may take for ever.                                           *)
(*                                                                         *)
(* Three kinds of thread interleave: the event loop (put, the drain loop,  *)
(* stop), the executor thread in queue.get and the threads of the pool.    *)
(* The k-th task put is the number k and the queue is FIFO, so it is a set *)
(* of numbers whose head is the least.                                     *)
(*                                                                         *)
(* A definition followed by one of nearly the same name is a defect of the *)
(* second: the behaviour used only to see which property it breaks.        *)
(***************************************************************************)
EXTENDS Naturals, Sequences, FiniteSets

CONSTANTS MaxQueue,    \* evaluation.queue_size
          Concurrency, \* evaluation.worker_concurrency
          Requests,    \* the lists of registered evaluators tasks ask for
          MaxTasks     \* bound: tasks put on the queue

ASSUME EvaluationAssumption ==
    /\ MaxQueue \in Nat \ {0}     \* validate_config rejects 0
    /\ Concurrency \in Nat \ {0}  \* so here
    /\ MaxTasks \in Nat
    /\ \A r \in Requests :
          r \in Seq(STRING) /\ \A i, j \in DOMAIN r : r[i] = r[j] => i = j

VARIABLES policy,    \* _drop_policy
          queue,     \* the tasks of _queue
          made,      \* history: tasks given to put
          wants,     \* the evaluators found for each task (to_run)
          putting,   \* where the event loop is inside put
          refused,   \* history: tasks put refused
          evicted,   \* history: tasks dropped to make room
          getter,    \* the executor thread running queue.get
          taken,     \* the task that thread took, until the loop resumes
          pc,        \* where the drain loop is
          hand,      \* the task in _process_task
          at,        \* which of its futures the loop waits for
          job,       \* the future of each task and position in its list
          verdict,   \* the evaluation span built for each of them
          processed, \* history: tasks whose spans were emitted
          failed,    \* history: tasks whose processing raised
          abandoned, \* history: tasks lost by the cancelled loop
          running,   \* _running
          stopper    \* the caller of stop(), inside wait_for

queueVars == <<policy, queue, made, wants, putting, refused, evicted>>
loopVars == <<pc, hand, at, verdict, processed, failed>>
stopVars == <<running, stopper>>
vars == <<queueVars, getter, taken, loopVars, job, abandoned, stopVars>>

Tasks == 1..MaxTasks
Positions == UNION {DOMAIN r : r \in Requests}

Head1(S) == CHOOSE k \in S : \A j \in S : k <= j

Running == {j \in Tasks \X Positions : job[j[1]][j[2]] = "running"}
Queued == {j \in Tasks \X Positions : job[j[1]][j[2]] = "queued"}

(* pool.shutdown(wait=True) runs on the event loop and stops it, and so do *)
(* put between its calls and _process_task between the report of a timeout *)
(* and the call of cancel.                                                 *)
LoopFree == stopper # "pool" /\ putting = "no" /\ pc # "cancel"

Init ==
    /\ policy \in {"drop_new", "drop_oldest"}
    /\ queue = {}
    /\ made = 0
    /\ wants = [k \in Tasks |-> <<>>]
    /\ putting = "no"
    /\ refused = {}
    /\ evicted = {}
    /\ getter = "idle"
    /\ taken = {}
    /\ pc = "top"
    /\ hand = {}
    /\ at = 0
    /\ job = [k \in Tasks |-> [i \in Positions |-> "none"]]
    /\ verdict = [k \in Tasks |-> [i \in Positions |-> "none"]]
    /\ processed = {}
    /\ failed = {}
    /\ abandoned = {}
    /\ running = TRUE
    /\ stopper = "no"

-----------------------------------------------------------------------------
(* put: full(), get_nowait() and put_nowait() are three calls, between     *)
(* which the executor thread may take a task.                              *)

Put ==
    LET k == made + 1
    IN  /\ LoopFree
        /\ k <= MaxTasks
        /\ made' = k
        /\ \/ /\ Cardinality(queue) < MaxQueue
              /\ putting' = "append"
              /\ UNCHANGED refused
           \/ /\ Cardinality(queue) = MaxQueue
              /\ policy = "drop_oldest"
              /\ putting' = "evict"
              /\ UNCHANGED refused
           \/ /\ Cardinality(queue) = MaxQueue
              /\ policy = "drop_new"
              /\ putting' = "no"
              /\ refused' = refused \union {k}
        /\ UNCHANGED <<policy, queue, wants, evicted, getter, taken, loopVars, job,
                       abandoned, stopVars>>

(* The oldest task, if the executor thread has not emptied the queue. *)
Victim == IF queue = {} THEN {} ELSE {Head1(queue)}

PutEvicts ==
    /\ putting = "evict"
    /\ queue' = queue \ Victim
    /\ evicted' = evicted \union Victim
    /\ putting' = "append"
    /\ UNCHANGED <<policy, made, wants, refused, getter, taken, loopVars, job,
                   abandoned, stopVars>>

PutAppends ==
    /\ putting = "append"
    /\ putting' = "no"
    /\ \/ /\ Cardinality(queue) < MaxQueue
          /\ queue' = queue \union {made}
          /\ UNCHANGED refused
       \/ /\ Cardinality(queue) >= MaxQueue
          /\ refused' = refused \union {made}
          /\ UNCHANGED queue
    /\ UNCHANGED <<policy, made, wants, evicted, getter, taken, loopVars, job,
                   abandoned, stopVars>>

-----------------------------------------------------------------------------
(* _drain_loop, and queue.get(1.0) in the executor thread.                 *)

LoopTop ==
    /\ LoopFree
    /\ pc = "top"
    /\ pc' = IF running THEN "get" ELSE "ended"
    /\ getter' = IF running THEN "waiting" ELSE getter
    /\ UNCHANGED <<queueVars, taken, hand, at, verdict, processed,
                   failed, job, abandoned, stopVars>>

(* A task the cancelled loop no longer waits for is lost. *)
LeftInQueue(k) == queue
OutOfQueue(k) == queue \ {k}

GetTask ==
    /\ getter = "waiting"
    /\ queue # {}
    /\ queue' = OutOfQueue(Head1(queue))
    /\ \/ /\ pc = "get"
          /\ taken' = {Head1(queue)}
          /\ getter' = "returned"
          /\ UNCHANGED abandoned
       \/ /\ pc # "get"
          /\ abandoned' = abandoned \union {Head1(queue)}
          /\ getter' = "idle"
          /\ UNCHANGED taken
    /\ UNCHANGED <<policy, made, wants, putting, refused, evicted, loopVars,
                   job, stopVars>>

GetTimeout ==
    /\ getter = "waiting"
    /\ queue = {}
    /\ getter' = IF pc = "get" THEN "returned" ELSE "idle"
    /\ UNCHANGED <<queueVars, taken, loopVars, job, abandoned, stopVars>>

(* The loop resumes with no task, or with one: it looks up its evaluators, *)
(* submits a job for each and waits for the first; a task without any is   *)
(* done.  One whose timeout is no number raises before it has a job, and   *)
(* the loop goes on to the next.                                           *)
Resume ==
    /\ LoopFree
    /\ pc = "get"
    /\ getter = "returned"
    /\ getter' = "idle"
    /\ taken' = {}
    /\ \/ /\ taken = {}
          /\ pc' = "top"
          /\ UNCHANGED <<wants, hand, at, job, processed, failed>>
       \/ \E k \in taken, r \in Requests :
             /\ wants' = [wants EXCEPT ![k] = r]
             /\ \/ /\ r = <<>>
                   /\ pc' = "top"
                   /\ processed' = processed \union {k}
                   /\ UNCHANGED <<hand, at, job, failed>>
                \/ /\ r # <<>>
                   /\ pc' = "top"
                   /\ failed' = failed \union {k}
                   /\ UNCHANGED <<hand, at, job, processed>>
                \/ /\ r # <<>>
                   /\ pc' = "collect"
                   /\ hand' = {k}
                   /\ at' = 1
                   /\ job' = [job EXCEPT ![k] = [i \in Positions |->
                                  IF i \in DOMAIN r THEN "queued" ELSE "none"]]
                   /\ UNCHANGED <<processed, failed>>
    /\ UNCHANGED <<policy, queue, made, putting, refused, evicted, verdict, abandoned,
                   stopVars>>

-----------------------------------------------------------------------------
(* The thread pool: a free thread takes the job submitted first.  Besides  *)
(* the task in hand those that failed or were abandoned may have jobs that *)
(* wait for a thread.                                                      *)

FreeThread == Cardinality(Running) < Concurrency

StartJob(k, i) ==
    /\ job[k][i] = "queued"
    /\ \A q \in Queued : k < q[1] \/ (k = q[1] /\ i <= q[2])
    /\ FreeThread
    /\ job' = [job EXCEPT ![k][i] = "running"]
    /\ UNCHANGED <<queueVars, getter, taken, loopVars, abandoned, stopVars>>

(* How a job ends matters only while the loop still waits for it. *)
EndJob(k, i) ==
    /\ job[k][i] = "running"
    /\ \E r \in IF k \in hand /\ at <= i THEN {"done", "failed"} ELSE {"done"} :
          job' = [job EXCEPT ![k][i] = r]
    /\ UNCHANGED <<queueVars, getter, taken, loopVars, abandoned, stopVars>>

-----------------------------------------------------------------------------
(* The collecting loop of _process_task, in the order of submission.       *)

(* The loop turns to the next evaluation; after the last one, or already   *)
(* after a late one, the spans are emitted.                                *)
LastOrLate(k) == pc = "cancel" \/ at = Len(wants[k])
Last(k) == at = Len(wants[k])

Advance(k) ==
    \/ /\ Last(k)
       /\ pc' = "top"
       /\ hand' = {}
       /\ at' = 0
       /\ processed' = processed \union {k}
    \/ /\ ~Last(k)
       /\ pc' = "collect"
       /\ at' = at + 1
       /\ UNCHANGED <<hand, processed>>

(* The span of an evaluation is built from the times of its task.  When    *)
(* they are no numbers that raises, for the first evaluation, out of       *)
(* _process_task: nothing is emitted, and the jobs stay with the pool.     *)
Fail(k) ==
    /\ at = 1
    /\ pc' = "top"
    /\ hand' = {}
    /\ at' = 0
    /\ failed' = failed \union {k}
    /\ UNCHANGED <<verdict, processed>>

Collect(k) ==
    /\ LoopFree
    /\ pc = "collect"
    /\ k \in hand
    /\ job[k][at] \in {"done", "failed"}
    /\ \/ /\ verdict' = [verdict EXCEPT ![k][at] =
                            IF job[k][at] = "done" THEN "score" ELSE "error"]
          /\ Advance(k)
          /\ UNCHANGED failed
       \/ Fail(k)
    /\ UNCHANGED <<queueVars, getter, taken, job, abandoned, stopVars>>

(* A wait that times out is counted and its span built ...                 *)
GivesUpNever == FALSE
GivesUp == TRUE

WaitTimesOut(k) ==
    /\ LoopFree
    /\ pc = "collect"
    /\ k \in hand
    /\ job[k][at] \in {"queued", "running"}
    /\ GivesUp
    /\ \/ /\ verdict' = [verdict EXCEPT ![k][at] = "timeout"]
          /\ pc' = "cancel"
          /\ UNCHANGED <<hand, at, processed, failed>>
       \/ Fail(k)
    /\ UNCHANGED <<queueVars, getter, taken, job, abandoned, stopVars>>

(* ... before future.cancel() stops the job, if no thread of the pool has  *)
(* started it by then.                                                     *)
NotCancelled(s) == s
Cancelled(s) == IF s = "queued" THEN "cancelled" ELSE s

Cancel(k) ==
    /\ pc = "cancel"
    /\ k \in hand
    /\ job' = [job EXCEPT ![k][at] = Cancelled(@)]
    /\ Advance(k)
    /\ UNCHANGED <<queueVars, getter, taken, verdict, failed, abandoned, stopVars>>

-----------------------------------------------------------------------------
(* stop(), under the wait_for of the server's shutdown.                    *)

CallStop ==
    /\ LoopFree
    /\ stopper = "no"
    /\ stopper' = "joining"
    /\ running' = FALSE
    /\ UNCHANGED <<queueVars, getter, taken, loopVars, job, abandoned>>

JoinLoop ==
    /\ LoopFree
    /\ stopper = "joining"
    /\ pc = "ended"
    /\ stopper' = "pool"
    /\ UNCHANGED <<queueVars, getter, taken, loopVars, job, abandoned, running>>

(* pool.shutdown(wait=True) *)
NoWaiting == TRUE
PoolIdle == Running \union Queued = {}

PoolDown ==
    /\ stopper = "pool"
    /\ PoolIdle
    /\ stopper' = "returned"
    /\ UNCHANGED <<queueVars, getter, taken, loopVars, job, abandoned, running>>

(* wait_for cancels stop() and, through its await, the drain loop; no      *)
(* except clause of the loop catches that.                                 *)
StopTimesOut ==
    /\ LoopFree
    /\ stopper = "joining"
    /\ pc # "ended"
    /\ stopper' = "timedout"
    /\ pc' = "cancelled"
    /\ abandoned' = abandoned \union hand \union taken
    /\ hand' = {}
    /\ taken' = {}
    /\ getter' = IF getter = "returned" THEN "idle" ELSE getter
    /\ UNCHANGED <<queueVars, at, verdict, processed, failed, job, running>>

DrainLoop ==
    \/ LoopTop
    \/ Resume
    \/ \E k \in Tasks : Collect(k) \/ WaitTimesOut(k) \/ Cancel(k)
PutRest == PutEvicts \/ PutAppends
Getter == GetTask \/ GetTimeout
Stopping == JoinLoop \/ PoolDown \/ StopTimesOut

Next ==
    \/ Put
    \/ PutRest
    \/ DrainLoop
    \/ Getter
    \/ \E k \in Tasks, i \in Positions : StartJob(k, i) \/ EndJob(k, i)
    \/ CallStop
    \/ Stopping

(* The event loop and the executor run; nothing is assumed of evaluators,  *)
(* nor that the pool has a free thread.                                    *)
Fairness ==
    WF_vars(PutRest) /\ WF_vars(DrainLoop) /\ WF_vars(Getter) /\ WF_vars(Stopping)

Spec == Init /\ [][Next]_vars /\ Fairness

-----------------------------------------------------------------------------

Made == 1..made

(* In particular neither the queue nor the pool exceeds its size. *)
TypeOK ==
    /\ policy \in {"drop_new", "drop_oldest"}
    /\ made \in 0..MaxTasks
    /\ {queue, refused, evicted, taken, hand, processed, failed, abandoned} \subseteq SUBSET Made
    /\ Cardinality(queue) <= MaxQueue
    /\ wants \in [Tasks -> Requests \union {<<>>}]
    /\ putting \in {"no", "evict", "append"}
    /\ getter \in {"idle", "waiting", "returned"}
    /\ pc \in {"top", "get", "collect", "cancel", "ended", "cancelled"}
    /\ at \in Nat
    /\ job \in [Tasks -> [Positions ->
            {"none", "queued", "running", "done", "failed", "cancelled"}]]
    /\ Cardinality(Running) <= Concurrency
    /\ verdict \in [Tasks -> [Positions -> {"none", "score", "error", "timeout"}]]
    /\ running \in BOOLEAN
    /\ stopper \in {"no", "joining", "pool", "returned", "timedout"}

(* Every task has exactly one fate, whatever the executor thread does      *)
(* between the calls of put and whenever the loop is cancelled.            *)
Putting == IF putting = "no" THEN {} ELSE {made}
Fates == <<refused, evicted, queue, Putting, taken, hand, processed, abandoned, failed>>
OneFate ==
    /\ Made = UNION {Fates[i] : i \in DOMAIN Fates}
    /\ \A i, j \in DOMAIN Fates : i # j => Fates[i] \intersect Fates[j] = {}

(* Under drop_oldest a task is never refused: the executor thread can only *)
(* make more room between the eviction and the append; under drop_new none *)
(* is evicted.                                                             *)
PolicyKept ==
    /\ policy = "drop_oldest" => refused = {}
    /\ policy = "drop_new" => evicted = {}

(* A timeout or failure of one evaluation costs no other its span: a       *)
(* processed task has one for each evaluation it asked for.  A task whose  *)
(* processing raised has none at all, and one that was dropped not even a  *)
(* job.                                                                    *)
PartialEmit ==
    \A k \in Made :
        /\ k \in processed => \A i \in DOMAIN wants[k] : verdict[k][i] # "none"
        /\ k \in failed => \A i \in Positions : verdict[k][i] = "none"
        /\ k \in refused \union evicted \union queue =>
              \A i \in Positions : job[k][i] = "none"

(* An evaluation reported as timed out is started, if at all, before the   *)
(* loop that reported it comes to cancel it: a hung pool does not work off *)
(* a backlog of them.                                                      *)
TimedOutNeverStarts ==
    [][\A k \in Tasks, i \in Positions :
          job[k][i] = "queued" /\ job'[k][i] = "running" =>
              verdict[k][i] = "none" \/ (pc = "cancel" /\ k \in hand /\ at = i)]_vars

(* When stop() returns in time, the task being fetched or processed was    *)
(* finished and no evaluator is running.                                   *)
StoppedClean ==
    stopper = "returned" =>
        taken \union hand \union abandoned \union Running = {}

(* A task the loop has fetched gets its spans, or raises, although         *)
(* evaluators may hang for ever and hold every thread of the pool, and one *)
(* on the queue is fetched or dropped, unless the loop was stopped.        *)
EventuallyJudged ==
    \A k \in Tasks :
        k \in queue \union taken \union hand ~>
            k \in processed \union failed \union evicted \/ ~running

(* What the comments of _process_task say: results are collected with an   *)
(* overall timeout.  So no task keeps the loop for two timeouts.           *)
OverallTimeout ==
    \A k \in Tasks : Cardinality({i \in Positions : verdict[k][i] = "timeout"}) <= 1
=============================================================================
