------------------------------ MODULE TraceStore ------------------------------
(***************************************************************************)
(* The server's bounded in-memory trace store (server/trace_store.py): an  *)
(* OrderedDict of span lists, a table of last-update times and counters.   *)
(* Every public method runs under one lock, so each is one action.         *)
(*                                                                         *)
(* Spans are numbered in the order they are handed to insert: the k-th is  *)
(* the number k, and a list of them is a set of numbers.  The order of the *)
(* OrderedDict is kept as a place per trace, a number that grows with each *)
(* insertion and each move_to_end; the head is the key with the least.     *)
(*                                                                         *)
(* A definition followed by one of nearly the same name is a defect of the *)
(* second: the behaviour used only to see which property it breaks.        *)
(***************************************************************************)
EXTENDS Naturals, FiniteSets

CONSTANTS Traces,            \* the trace ids clients use
          MaxTraces,         \* limits.max_traces
          MaxSpansPerTrace,  \* trace_store.max_spans_per_trace
          TTL,               \* trace_store.ttl_seconds, 0 = no expiration
          MaxBatch,          \* bound: spans handed to one insert
          MaxClock,          \* bound: the last clock reading
          MaxOffered         \* bound: spans inserted in a behaviour

ASSUME TraceStoreAssumption ==
    /\ MaxTraces \in Nat \ {0}         \* validate_config rejects 0
    /\ MaxSpansPerTrace \in Nat \ {0}  \* so here
    /\ TTL \in Nat
    /\ MaxBatch \in Nat \ {0}          \* the server inserts [span]
    /\ MaxClock \in Nat
    /\ MaxOffered \in Nat

VARIABLES held,       \* the keys of _traces
          spans,      \* _traces[t], {} for a trace that is not stored
          place,      \* the position of t in the OrderedDict
          timed,      \* the keys of _timestamps
          stamp,      \* _timestamps[t]
          totalSpans, \* _total_spans
          evicted,    \* _evicted_traces
          truncated,  \* _spans_truncated
          offered,    \* history: spans handed to insert so far
          clock       \* time.monotonic()

store == <<held, spans, place, timed, stamp, totalSpans, evicted, truncated, offered>>
vars == <<store, clock>>

-----------------------------------------------------------------------------

(* The spans of the traces of S, and what _total_spans loses with them. *)
SpansOf(S) == UNION {spans[t] : t \in S}
NotFreed(S) == 0
Freed(S) == Cardinality(SpansOf(S))

(* The ids _expire_stale selects: last updated strictly before now - ttl.  *)
StaleLate == {t \in timed : TTL > 0 /\ stamp[t] + TTL + 1 < clock}
Stale == {t \in timed : TTL > 0 /\ stamp[t] + TTL < clock}

(* What popitem(last=False) removes to admit t when keys is what expiry    *)
(* left.  The dict never exceeds its bound, so one round makes room.       *)
VictimsOffByOne(t, keys) ==
    {v \in keys : /\ t \notin keys
                  /\ Cardinality(keys) > MaxTraces
                  /\ \A u \in keys : place[v] <= place[u]}
VictimsYoungest(t, keys) ==
    {v \in keys : /\ t \notin keys
                  /\ Cardinality(keys) >= MaxTraces
                  /\ \A u \in keys : place[u] <= place[v]}
Victims(t, keys) ==
    {v \in keys : /\ t \notin keys
                  /\ Cardinality(keys) >= MaxTraces
                  /\ \A u \in keys : place[v] <= place[u]}

(* The list the batch is appended to. *)
BaseRestarted(t, keys) ==
    IF t \in keys /\ Cardinality(spans[t]) < MaxSpansPerTrace THEN spans[t] ELSE {}
Base(t, keys) == IF t \in keys THEN spans[t] ELSE {}

(* spans[:room] of the batch offered+1 .. offered+n. *)
Fitting(n, room) == {k \in offered + 1 .. offered + n : k <= offered + room}

(* The last-update time of a trace, also when none of its batch fitted. *)
RefreshedIfTaken(t, taken) == IF taken = {} THEN stamp ELSE [stamp EXCEPT ![t] = clock]
Refreshed(t, taken) == [stamp EXCEPT ![t] = clock]

-----------------------------------------------------------------------------

Init ==
    /\ held = {}
    /\ spans = [t \in Traces |-> {}]
    /\ place = [t \in Traces |-> 0]
    /\ timed = {}
    /\ stamp = [t \in Traces |-> 0]
    /\ totalSpans = 0
    /\ evicted = 0
    /\ truncated = 0
    /\ offered = 0
    /\ clock = 0

(* insert: expire stale traces, evict the head when t is new and the store *)
(* is full, keep what the cap leaves room for, and move t to the end, even *)
(* when nothing of the batch fits.                                         *)
Insert(t, n) ==
    LET gone  == Stale \union Victims(t, held \ Stale)
        had   == Base(t, held \ gone)
        taken == Fitting(n, MaxSpansPerTrace - Cardinality(had))
    IN  /\ offered + n <= MaxOffered
        /\ held' = (held \ gone) \union {t}
        /\ spans' = [u \in Traces |-> IF u = t THEN had \union taken
                                      ELSE IF u \in gone THEN {} ELSE spans[u]]
        /\ place' = [place EXCEPT ![t] = offered + n]
        /\ timed' = (timed \ gone) \union {t}
        /\ stamp' = Refreshed(t, taken)
        /\ totalSpans' = (totalSpans - Freed(gone)) + Cardinality(taken)
        /\ evicted' = evicted + Cardinality(gone)
        /\ truncated' = truncated + (n - Cardinality(taken))
        /\ offered' = offered + n
        /\ UNCHANGED clock

(* recent and search: expire, then list; get expires nothing. *)
Query ==
    /\ held' = held \ Stale
    /\ spans' = [u \in Traces |-> IF u \in Stale THEN {} ELSE spans[u]]
    /\ timed' = timed \ Stale
    /\ totalSpans' = totalSpans - Freed(Stale)
    /\ evicted' = evicted + Cardinality(Stale)
    /\ UNCHANGED <<place, stamp, truncated, offered, clock>>

Tick ==
    /\ clock < MaxClock
    /\ clock' = clock + 1
    /\ UNCHANGED store

Next ==
    \/ \E t \in Traces, n \in 1..MaxBatch : Insert(t, n)
    \/ Query
    \/ Tick

Spec == Init /\ [][Next]_vars

-----------------------------------------------------------------------------

TypeOK ==
    /\ held \subseteq Traces
    /\ timed \subseteq Traces
    /\ spans \in [Traces -> SUBSET (1..offered)]
    /\ place \in [Traces -> 0..offered]
    /\ stamp \in [Traces -> 0..clock]
    /\ {totalSpans, evicted, truncated, offered, clock} \subseteq Nat

(* The memory bound, whatever the order of inserts, expiries and queries:  *)
(* at most max_traces traces, each with at most max_spans_per_trace spans. *)
Bounded ==
    /\ IsFiniteSet(held)
    /\ Cardinality(held) <= MaxTraces
    /\ \A t \in Traces : Cardinality(spans[t]) <= MaxSpansPerTrace

(* The three tables that insert, eviction and expiry update separately     *)
(* stay in step: both dicts have the same keys and the running counter     *)
(* _total_spans is the number of spans stored.                             *)
BooksAgree ==
    /\ timed = held
    /\ totalSpans = Cardinality(SpansOf(held))

(* Dict order is recency order: a trace nearer the head of the OrderedDict *)
(* was not updated later than one behind it, so the head is always a least *)
(* recently updated trace and the stale ones sit in front.                 *)
OrderFollowsTime ==
    \A u, v \in held : place[u] < place[v] => stamp[u] <= stamp[v]

(* A trace leaves only because its time to live has passed, or because a   *)
(* new trace enters a full store in which no live trace was updated less   *)
(* recently; an operation evicts at most one live trace.                   *)
EvictionJustified ==
    [][\A t \in held \ held' :
          \/ t \in Stale
          \/ /\ Cardinality(held \ Stale) = MaxTraces
             /\ held' \ held # {}
             /\ \A u \in held \ Stale : stamp[t] <= stamp[u]
             /\ held \ held' \subseteq Stale \union {t}]_vars

(* A live trace only grows, at its end: what was accepted for it stays, a  *)
(* span once refused by the cap is never replaced by a later one, and no   *)
(* span moves between traces.                                              *)
LiveTracesOnlyGrow ==
    [][\A t \in (held \intersect held') \ Stale :
          /\ spans[t] \subseteq spans'[t]
          /\ spans'[t] \ spans[t] \subseteq offered + 1 .. offered'
          /\ Cardinality(spans[t]) = MaxSpansPerTrace => spans'[t] = spans[t]]_vars

(* Whatever an operation on the store returns to a reader of recent or     *)
(* search afterwards is live: no operation but the passage of time leaves  *)
(* a trace past its time to live in the store.                             *)
NoStaleAfterOperation ==
    [][clock' = clock /\ TTL > 0 => \A t \in held' : stamp'[t] + TTL >= clock]_vars

(* The eviction order the documentation promises: the trace evicted to     *)
(* make room is the one inserted first.  The first span a trace keeps      *)
(* carries its insertion number.                                           *)
Birth(t) == CHOOSE k \in spans[t] : \A j \in spans[t] : k <= j
FifoEviction ==
    [][\A t \in (held \ held') \ Stale :
          \A u \in held \ Stale : Birth(t) <= Birth(u)]_vars

=============================================================================
