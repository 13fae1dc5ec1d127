-------------------------- MODULE TraceStoreProofs --------------------------
(***************************************************************************)
(* Proofs about what the ingestion worker makes of the spans it takes from *)
(* the queue.  TraceStore: for every number of traces, bound, time to live *)
(* and batch size; the invariant Inv adds to the checked properties that   *)
(* no two stored traces share a place in the dict or a span.  Telemetry,   *)
(* at the end: for all spans, caps and clocks, with the invariant          *)
(* TelemetryInv.                                                           *)
(***************************************************************************)
EXTENDS TraceStore, Telemetry, FiniteSetTheorems, SequenceTheorems, TLAPS

(* A nonempty set of traces has one with the least place. *)
LEMMA LeastPlace ==
    ASSUME NEW S, S # {}, NEW f, \A t \in S : f[t] \in Nat
    PROVE  \E t \in S : \A u \in S : f[t] <= f[u]
<1> DEFINE P == {f[t] : t \in S}
           R == OpToRel(<, Nat)
<1>1. P # {} /\ P \subseteq Nat
  OBVIOUS
<1>2. PICK n \in P : \A m \in P : ~(<<m, n>> \in R)
  <2> HIDE DEF P, R
  <2>1. IsWellFoundedOn(R, Nat)
    BY NatLessThanWellFounded DEF R
  <2> QED BY <1>1, <2>1, WFMin
<1>3. ASSUME NEW m \in P PROVE n <= m
  <2>1. m \in Nat /\ n \in Nat
    BY <1>1
  <2>2. m < n => <<m, n>> \in R
    BY <2>1 DEF OpToRel
  <2> HIDE DEF P, R
  <2> QED BY <1>2, <2>1, <2>2
<1>4. PICK t \in S : n = f[t]
  OBVIOUS
<1> QED BY <1>3, <1>4

(* Sets of span numbers are finite and have a size. *)
LEMMA FiniteSpans ==
    ASSUME NEW n \in Nat, NEW S \in SUBSET (1..n)
    PROVE  IsFiniteSet(S) /\ Cardinality(S) \in Nat
BY FS_Interval, FS_Subset, FS_CardinalityType, 1 \in Int, n \in Int

-----------------------------------------------------------------------------

(* Every stored trace has a place of its own and spans of its own, and     *)
(* nothing is kept for a trace that is not stored.                         *)
OwnPlaces == \A u, v \in held : place[u] = place[v] => u = v
OwnSpans == \A u, v \in Traces : u # v => spans[u] \intersect spans[v] = {}
OnlyStored == \A t \in Traces \ held : spans[t] = {}

Inv ==
    /\ TypeOK
    /\ Bounded
    /\ BooksAgree
    /\ OrderFollowsTime
    /\ OwnPlaces
    /\ OwnSpans
    /\ OnlyStored

(* Removing the traces of G from the store lowers _total_spans by what     *)
(* they held.                                                              *)
LEMMA Removal ==
    ASSUME Inv, NEW G \in SUBSET held
    PROVE  /\ IsFiniteSet(SpansOf(held \ G))
           /\ SpansOf(held \ G) \subseteq 1..offered
           /\ Freed(G) \in Nat /\ Freed(G) <= totalSpans
           /\ Cardinality(SpansOf(held \ G)) = totalSpans - Freed(G)
           /\ IsFiniteSet(G) /\ Cardinality(G) \in Nat
<1> DEFINE A == SpansOf(held \ G)
           B == SpansOf(G)
<1>1. A \union B = SpansOf(held)
  BY DEF SpansOf
<1>2. A \intersect B = {}
  BY DEF SpansOf, Inv, OwnSpans, TypeOK
<1>3. A \subseteq 1..offered /\ B \subseteq 1..offered /\ offered \in Nat
  BY DEF SpansOf, Inv, TypeOK
<1>4. IsFiniteSet(A) /\ IsFiniteSet(B) /\ Cardinality(A) \in Nat /\ Cardinality(B) \in Nat
  <2> HIDE DEF A, B
  <2> QED BY <1>3, FiniteSpans
<1>5. Cardinality(A \union B) = Cardinality(A) + Cardinality(B)
  <2>1. Cardinality(A \union B) = Cardinality(A) + Cardinality(B) - Cardinality(A \intersect B)
    BY <1>4, FS_Union
  <2> HIDE DEF A, B
  <2> QED BY <1>2, <1>4, <2>1, FS_EmptySet
<1>6. totalSpans = Cardinality(A) + Cardinality(B)
  BY <1>1, <1>5 DEF Inv, BooksAgree
<1>7. IsFiniteSet(G) /\ Cardinality(G) \in Nat
  BY FS_Subset, FS_CardinalityType DEF Inv, Bounded
<1>8. Freed(G) = Cardinality(B)
  BY DEF Freed
<1> HIDE DEF A, B
<1>9. /\ Freed(G) \in Nat /\ Freed(G) <= totalSpans
      /\ Cardinality(A) = totalSpans - Freed(G)
  BY <1>4, <1>6, <1>8
<1> QED BY <1>3, <1>4, <1>7, <1>9 DEF A

(* One eviction makes room, since the head of the dict is one trace.       *)
LEMMA Room ==
    ASSUME Inv, NEW t \in Traces, NEW K \in SUBSET held
    PROVE  /\ Victims(t, K) \subseteq K
           /\ IsFiniteSet((K \ Victims(t, K)) \union {t})
           /\ Cardinality((K \ Victims(t, K)) \union {t}) <= MaxTraces
<1>0. Victims(t, K) \subseteq K
  BY DEF Victims
<1>1. /\ IsFiniteSet(K) /\ Cardinality(K) \in Nat
      /\ Cardinality(K) <= Cardinality(held) /\ Cardinality(held) \in Nat
      /\ Cardinality(held) <= MaxTraces
      /\ MaxTraces \in Nat \ {0}
  BY FS_Subset, FS_CardinalityType, TraceStoreAssumption DEF Inv, Bounded, TraceStoreAssumption
<1>2. CASE t \in K
  <2>1. (K \ Victims(t, K)) \union {t} = K
    BY <1>2 DEF Victims
  <2> QED BY <1>0, <1>1, <2>1
<1>3. CASE t \notin K /\ Cardinality(K) < MaxTraces
  <2>1. Victims(t, K) = {}
    BY <1>1, <1>3 DEF Victims
  <2>2. /\ IsFiniteSet(K \union {t})
        /\ Cardinality(K \union {t}) = Cardinality(K) + 1
    BY <1>1, <1>3, FS_AddElement
  <2>3. (K \ Victims(t, K)) \union {t} = K \union {t}
    BY <2>1
  <2> QED BY <1>0, <1>1, <1>3, <2>2, <2>3
<1>4. CASE t \notin K /\ Cardinality(K) >= MaxTraces
  <2>1. K # {}
    BY <1>1, <1>4, FS_EmptySet
  <2>2. \A u \in K : place[u] \in Nat
    BY DEF Inv, TypeOK
  <2>3. PICK v \in K : \A u \in K : place[v] <= place[u]
    BY <2>1, <2>2, LeastPlace
  <2>4. Victims(t, K) = {v}
    <3>1. v \in Victims(t, K)
      BY <1>4, <2>3 DEF Victims
    <3>2. ASSUME NEW w \in Victims(t, K) PROVE w = v
      <4>1. w \in K /\ place[w] <= place[v] /\ place[v] <= place[w]
        BY <2>3 DEF Victims
      <4> QED BY <2>2, <4>1 DEF Inv, OwnPlaces
    <3> QED BY <3>1, <3>2
  <2>5. /\ IsFiniteSet(K \ {v})
        /\ Cardinality(K \ {v}) = Cardinality(K) - 1
    BY <1>1, <2>3, FS_RemoveElement
  <2>6. /\ IsFiniteSet((K \ {v}) \union {t})
        /\ Cardinality((K \ {v}) \union {t}) = Cardinality(K \ {v}) + 1
    BY <1>4, <2>5, FS_AddElement
  <2>7. Cardinality((K \ Victims(t, K)) \union {t}) <= MaxTraces
    BY <1>1, <2>4, <2>5, <2>6
  <2> QED BY <1>0, <2>4, <2>6, <2>7
<1> QED BY <1>1, <1>2, <1>3, <1>4

(* What the cap admits of a batch: new numbers, no more than the room      *)
(* there is.                                                               *)
LEMMA Admitted ==
    ASSUME Inv, NEW n \in Nat, NEW room \in Nat
    PROVE  /\ Fitting(n, room) \subseteq offered + 1 .. offered + n
           /\ IsFiniteSet(Fitting(n, room))
           /\ Cardinality(Fitting(n, room)) \in Nat
           /\ Cardinality(Fitting(n, room)) <= n
           /\ Cardinality(Fitting(n, room)) <= room
<1> DEFINE F == Fitting(n, room)
<1>0. offered \in Nat
  BY DEF Inv, TypeOK
<1>1. F \subseteq offered + 1 .. offered + n /\ F \subseteq offered + 1 .. offered + room
  BY <1>0 DEF Fitting
<1>2. \A m \in Nat : /\ IsFiniteSet(offered + 1 .. offered + m)
                     /\ Cardinality(offered + 1 .. offered + m) = m
  <2> SUFFICES ASSUME NEW m \in Nat
               PROVE  /\ IsFiniteSet(offered + 1 .. offered + m)
                      /\ Cardinality(offered + 1 .. offered + m) = m
    OBVIOUS
  <2>1. offered + 1 \in Int /\ offered + m \in Int
    BY <1>0
  <2> QED BY <1>0, <2>1, FS_Interval
<1>3. IsFiniteSet(F) /\ Cardinality(F) \in Nat
  BY <1>1, <1>2, FS_Subset, FS_CardinalityType
<1> HIDE DEF F
<1>4. ASSUME NEW m \in Nat, F \subseteq offered + 1 .. offered + m
      PROVE  Cardinality(F) <= m
  <2>1. Cardinality(F) <= Cardinality(offered + 1 .. offered + m)
    BY <1>2, <1>4, FS_Subset
  <2> QED BY <1>2, <2>1
<1> QED BY <1>1, <1>3, <1>4 DEF F

(* Initially the store is empty. *)
LEMMA InitInv == Init => Inv
<1> SUFFICES ASSUME Init PROVE Inv
  OBVIOUS
<1>1. IsFiniteSet({}) /\ Cardinality({}) = 0
  BY FS_EmptySet
<1>2. SpansOf(held) = {}
  BY DEF Init, SpansOf
<1>3. TypeOK
  BY DEF Init, TypeOK
<1>4. Bounded
  BY <1>1, TraceStoreAssumption DEF Init, Bounded, TraceStoreAssumption
<1> QED BY <1>1, <1>2, <1>3, <1>4
        DEF Init, Inv, BooksAgree, OrderFollowsTime, OwnPlaces, OwnSpans, OnlyStored

(* Queries only expire. *)
LEMMA QueryInv == Inv /\ Query => Inv'
<1> SUFFICES ASSUME Inv, Query PROVE Inv'
  OBVIOUS
<1>0. Stale \in SUBSET held /\ Stale \in SUBSET Traces
  BY DEF Stale, Inv, BooksAgree, TypeOK
<1>1. /\ Freed(Stale) \in Nat /\ Freed(Stale) <= totalSpans
      /\ Cardinality(SpansOf(held \ Stale)) = totalSpans - Freed(Stale)
      /\ Cardinality(Stale) \in Nat
  BY <1>0, Removal
<1>2. SpansOf(held)' = SpansOf(held \ Stale)
  BY <1>0 DEF SpansOf, Query, Inv, TypeOK
<1>3. TypeOK'
  BY <1>0, <1>1 DEF Query, Inv, TypeOK
<1>4. Bounded'
  <2>1. IsFiniteSet(held') /\ Cardinality(held') <= MaxTraces
    BY <1>0, FS_Subset, FS_CardinalityType, TraceStoreAssumption
       DEF Query, Inv, Bounded, TraceStoreAssumption
  <2>2. ASSUME NEW t \in Traces PROVE Cardinality(spans'[t]) <= MaxSpansPerTrace
    BY FS_EmptySet, TraceStoreAssumption DEF Query, Inv, Bounded, TraceStoreAssumption
  <2> QED BY <2>1, <2>2 DEF Bounded
<1>5. BooksAgree'
  BY <1>1, <1>2 DEF Query, Inv, BooksAgree
<1>6. OrderFollowsTime' /\ OwnPlaces'
  BY DEF Query, Inv, OrderFollowsTime, OwnPlaces
<1>7. OwnSpans' /\ OnlyStored'
  BY DEF Query, Inv, OwnSpans, OnlyStored
<1> QED BY <1>3, <1>4, <1>5, <1>6, <1>7 DEF Inv

(* An insert expires, evicts, appends and moves the trace to the end.      *)
LEMMA InsertInv ==
    ASSUME Inv, NEW t \in Traces, NEW n \in 1..MaxBatch, Insert(t, n)
    PROVE  Inv'
<1> DEFINE K == held \ Stale
           gone == Stale \union Victims(t, K)
           had == Base(t, held \ gone)
           room == MaxSpansPerTrace - Cardinality(had)
           taken == Fitting(n, room)
<1>0. /\ n \in Nat /\ n >= 1 /\ offered \in Nat /\ clock \in Nat
      /\ MaxSpansPerTrace \in Nat
  BY TraceStoreAssumption DEF TraceStoreAssumption, Inv, TypeOK
<1>1. Stale \in SUBSET held /\ K \in SUBSET held /\ Victims(t, K) \subseteq K
  BY Room DEF Stale, Inv, BooksAgree
<1>2. gone \in SUBSET held /\ held \subseteq Traces /\ held \ gone = K \ Victims(t, K)
  BY <1>1 DEF Inv, TypeOK
<1>3. /\ held' = (held \ gone) \union {t}
      /\ spans' = [u \in Traces |-> IF u = t THEN had \union taken
                                    ELSE IF u \in gone THEN {} ELSE spans[u]]
      /\ place' = [place EXCEPT ![t] = offered + n]
      /\ timed' = (timed \ gone) \union {t}
      /\ stamp' = [stamp EXCEPT ![t] = clock]
      /\ totalSpans' = (totalSpans - Freed(gone)) + Cardinality(taken)
      /\ evicted' = evicted + Cardinality(gone)
      /\ truncated' = truncated + (n - Cardinality(taken))
      /\ offered' = offered + n
      /\ clock' = clock
  BY DEF Insert, Refreshed
<1>4. /\ had \in SUBSET (1..offered)
      /\ IsFiniteSet(had) /\ Cardinality(had) \in Nat
      /\ Cardinality(had) <= MaxSpansPerTrace
      /\ t \in held \ gone => had = spans[t]
      /\ t \notin held \ gone => had = {}
  <2>1. had = IF t \in held \ gone THEN spans[t] ELSE {}
    BY DEF Base
  <2>2. had \in SUBSET (1..offered)
    BY <2>1 DEF Inv, TypeOK
  <2>3. Cardinality(had) <= MaxSpansPerTrace
    BY <1>0, <2>1, FS_EmptySet DEF Inv, Bounded
  <2> HIDE DEF had
  <2> QED BY <1>0, <2>1, <2>2, <2>3, FiniteSpans
<1>5. room \in Nat
  <2> HIDE DEF had
  <2> QED BY <1>0, <1>4
<1>6. /\ taken \subseteq offered + 1 .. offered + n
      /\ IsFiniteSet(taken) /\ Cardinality(taken) \in Nat
      /\ Cardinality(taken) <= n /\ Cardinality(taken) <= room
  <2> HIDE DEF room
  <2> QED BY <1>0, <1>5, Admitted
<1>7. /\ IsFiniteSet(SpansOf(held \ gone)) /\ SpansOf(held \ gone) \subseteq 1..offered
      /\ Freed(gone) \in Nat /\ Freed(gone) <= totalSpans
      /\ Cardinality(SpansOf(held \ gone)) = totalSpans - Freed(gone)
      /\ Cardinality(gone) \in Nat
  <2> HIDE DEF gone
  <2> QED BY <1>2, Removal
<1>8. /\ Cardinality(had \union taken) <= MaxSpansPerTrace
      /\ had \union taken \in SUBSET (1..offered')
      /\ IsFiniteSet(had \union taken)
  <2>1. /\ IsFiniteSet(had \union taken)
        /\ Cardinality(had \union taken)
             = Cardinality(had) + Cardinality(taken) - Cardinality(had \intersect taken)
    BY <1>4, <1>6, FS_Union
  <2>2. had \intersect taken = {}
    <3> HIDE DEF had, taken
    <3> QED BY <1>0, <1>4, <1>6
  <2>3. Cardinality(had) + Cardinality(taken) <= MaxSpansPerTrace
    <3> HIDE DEF had, taken
    <3> QED BY <1>0, <1>4, <1>6 DEF room
  <2>4. Cardinality(had \intersect taken) = 0
    BY <2>2, FS_EmptySet
  <2>5. Cardinality(had \union taken) <= MaxSpansPerTrace
    <3> HIDE DEF had, taken
    <3> QED BY <1>0, <1>4, <1>6, <2>1, <2>3, <2>4
  <2>6. had \union taken \in SUBSET (1..offered')
    <3> HIDE DEF had, taken
    <3> QED BY <1>0, <1>3, <1>4, <1>6
  <2> QED BY <2>1, <2>5, <2>6
<1>9. SpansOf(held)' = SpansOf(held \ gone) \union taken
  <2> HIDE DEF had, taken, gone
  <2>1. \A u \in held \ gone : u # t => spans'[u] = spans[u]
    BY <1>2, <1>3
  <2>2. spans'[t] = had \union taken
    BY <1>3
  <2>3. UNION {spans'[u] : u \in held'} = (UNION {spans'[u] : u \in (held \ gone) \ {t}}) \union spans'[t]
    BY <1>3
  <2>4. UNION {spans'[u] : u \in (held \ gone) \ {t}} = UNION {spans[u] : u \in (held \ gone) \ {t}}
    BY <2>1
  <2>5. UNION {spans[u] : u \in held \ gone} = (UNION {spans[u] : u \in (held \ gone) \ {t}}) \union had
    BY <1>4
  <2> QED BY <2>2, <2>3, <2>4, <2>5 DEF SpansOf
<1> HIDE DEF K, gone, had, room, taken
<1>10. TypeOK'
  <2>1. spans' \in [Traces -> SUBSET (1..offered')]
    <3>1. \A u \in Traces : spans[u] \in SUBSET (1..offered')
      BY <1>0, <1>3 DEF Inv, TypeOK
    <3> QED BY <1>3, <1>8, <3>1
  <2>2. place' \in [Traces -> 0..offered']
    BY <1>0, <1>3 DEF Inv, TypeOK
  <2>3. stamp' \in [Traces -> 0..clock']
    BY <1>0, <1>3 DEF Inv, TypeOK
  <2>4. {totalSpans, evicted, truncated, offered, clock}' \subseteq Nat
    BY <1>0, <1>3, <1>6, <1>7 DEF Inv, TypeOK
  <2>5. held' \subseteq Traces /\ timed' \subseteq Traces
    BY <1>3 DEF Inv, TypeOK
  <2> QED BY <2>1, <2>2, <2>3, <2>4, <2>5 DEF TypeOK
<1>11. Bounded'
  <2>1. IsFiniteSet(held') /\ Cardinality(held') <= MaxTraces
    BY <1>1, <1>2, <1>3, Room
  <2>2. ASSUME NEW u \in Traces PROVE Cardinality(spans'[u]) <= MaxSpansPerTrace
    BY <1>0, <1>3, <1>8, FS_EmptySet DEF Inv, Bounded
  <2> QED BY <2>1, <2>2 DEF Bounded
<1>12. BooksAgree'
  <2>1. SpansOf(held \ gone) \intersect taken = {}
    BY <1>0, <1>6, <1>7
  <2>2. Cardinality(SpansOf(held \ gone) \union taken)
          = Cardinality(SpansOf(held \ gone)) + Cardinality(taken)
    <3>1. Cardinality(SpansOf(held \ gone) \union taken)
            = Cardinality(SpansOf(held \ gone)) + Cardinality(taken)
                - Cardinality(SpansOf(held \ gone) \intersect taken)
      BY <1>6, <1>7, FS_Union
    <3>2. Cardinality(SpansOf(held \ gone) \intersect taken) = 0
      BY <2>1, FS_EmptySet
    <3>3. Cardinality(SpansOf(held \ gone)) \in Nat
      BY <1>7, FS_CardinalityType
    <3> QED BY <1>6, <3>1, <3>2, <3>3
  <2>3. totalSpans' = Cardinality(SpansOf(held)')
    <3>1. totalSpans' = Cardinality(SpansOf(held \ gone)) + Cardinality(taken)
      BY <1>3, <1>7
    <3> QED BY <1>9, <2>2, <3>1
  <2> QED BY <1>3, <2>3 DEF Inv, BooksAgree
<1>13. OrderFollowsTime'
  <2>1. \A u \in Traces : place[u] <= offered /\ stamp[u] <= clock
                           /\ place[u] \in Nat /\ stamp[u] \in Nat
    BY DEF Inv, TypeOK
  <2> QED BY <1>0, <1>2, <1>3, <2>1 DEF Inv, TypeOK, OrderFollowsTime
<1>14. OwnPlaces'
  <2>1. \A u \in held : place[u] <= offered /\ place[u] \in Nat
    BY DEF Inv, TypeOK
  <2> QED BY <1>0, <1>2, <1>3, <2>1 DEF Inv, TypeOK, OwnPlaces
<1>15. OwnSpans'
  <2>1. \A u \in Traces : spans[u] \intersect taken = {}
    BY <1>0, <1>6 DEF Inv, TypeOK
  <2>2. had \subseteq spans[t]
    BY <1>4
  <2> QED BY <1>3, <2>1, <2>2 DEF Inv, OwnSpans
<1>16. OnlyStored'
  BY <1>2, <1>3 DEF Inv, OnlyStored
<1> QED BY <1>10, <1>11, <1>12, <1>13, <1>14, <1>15, <1>16 DEF Inv

(* Every step keeps the invariant; so does a step that changes nothing.    *)
LEMMA NextInv == Inv /\ [Next]_vars => Inv'
<1> SUFFICES ASSUME Inv, [Next]_vars PROVE Inv'
  OBVIOUS
<1>1. ASSUME NEW t \in Traces, NEW n \in 1..MaxBatch, Insert(t, n) PROVE Inv'
  BY <1>1, InsertInv
<1>2. CASE Query
  BY <1>2, QueryInv
<1>3. CASE Tick
  <2>1. TypeOK'
    BY <1>3 DEF Tick, store, Inv, TypeOK
  <2>2. Bounded' /\ BooksAgree' /\ OrderFollowsTime'
    BY <1>3 DEF Tick, store, Inv, Bounded, BooksAgree, SpansOf, OrderFollowsTime
  <2>3. OwnPlaces' /\ OwnSpans' /\ OnlyStored'
    BY <1>3 DEF Tick, store, Inv, OwnPlaces, OwnSpans, OnlyStored
  <2> QED BY <2>1, <2>2, <2>3 DEF Inv
<1>4. CASE UNCHANGED vars
  <2>1. TypeOK'
    BY <1>4 DEF vars, store, Inv, TypeOK
  <2>2. Bounded' /\ BooksAgree' /\ OrderFollowsTime'
    BY <1>4 DEF vars, store, Inv, Bounded, BooksAgree, SpansOf, OrderFollowsTime
  <2>3. OwnPlaces' /\ OwnSpans' /\ OnlyStored'
    BY <1>4 DEF vars, store, Inv, OwnPlaces, OwnSpans, OnlyStored
  <2> QED BY <2>1, <2>2, <2>3 DEF Inv
<1> QED BY <1>1, <1>2, <1>3, <1>4 DEF Next

(* The invariant holds in every reachable state. *)
THEOREM Invariance == Spec => []Inv
BY InitInv, NextInv, PTL DEF Spec

(* The variables of the store have the types the code gives them; in       *)
(* particular no counter is ever decremented below zero.                   *)
THEOREM TypeCorrect == Spec => []TypeOK
<1>1. Inv => TypeOK
  BY DEF Inv
<1> QED BY <1>1, Invariance, PTL

(* The store never holds more than max_traces traces, nor more than        *)
(* max_spans_per_trace spans of one.                                       *)
THEOREM StoreBounded == Spec => []Bounded
<1>1. Inv => Bounded
  BY DEF Inv
<1> QED BY <1>1, Invariance, PTL

(* The two dicts have the same keys and _total_spans is the number of      *)
(* spans stored.                                                           *)
THEOREM BooksCorrect == Spec => []BooksAgree
<1>1. Inv => BooksAgree
  BY DEF Inv
<1> QED BY <1>1, Invariance, PTL

(* The dict is ordered by last update. *)
THEOREM OrderCorrect == Spec => []OrderFollowsTime
<1>1. Inv => OrderFollowsTime
  BY DEF Inv
<1> QED BY <1>1, Invariance, PTL

-----------------------------------------------------------------------------

(* A trace leaves only when it is stale, or as the least recently updated  *)
(* of a full store that a new trace enters.                                *)
THEOREM EvictionCorrect == Spec => EvictionJustified
<1> DEFINE A == \A t \in held \ held' :
                  \/ t \in Stale
                  \/ /\ Cardinality(held \ Stale) = MaxTraces
                     /\ held' \ held # {}
                     /\ \A u \in held \ Stale : stamp[t] <= stamp[u]
                     /\ held \ held' \subseteq Stale \union {t}
<1>1. ASSUME Inv, Next PROVE A
  <2> SUFFICES ASSUME NEW v \in held \ held', v \notin Stale
               PROVE  /\ Cardinality(held \ Stale) = MaxTraces
                      /\ held' \ held # {}
                      /\ \A u \in held \ Stale : stamp[v] <= stamp[u]
                      /\ held \ held' \subseteq Stale \union {v}
    OBVIOUS
  <2>1. PICK t \in Traces, n \in 1..MaxBatch : Insert(t, n)
    BY <1>1 DEF Next, Query, Tick, store
  <2> DEFINE K == held \ Stale
  <2>2. held' = (held \ (Stale \union Victims(t, K))) \union {t}
    BY <2>1 DEF Insert
  <2>3. v \in Victims(t, K)
    BY <2>2
  <2>4. t \notin K /\ Cardinality(K) >= MaxTraces /\ \A u \in K : place[v] <= place[u]
    BY <2>3 DEF Victims
  <2>5. K \in SUBSET held /\ \A u \in K : place[u] \in Nat /\ stamp[u] \in Nat
    BY <1>1 DEF Inv, TypeOK
  <2>6. Cardinality(K) = MaxTraces
    <3>1. Cardinality(K) <= Cardinality(held) /\ Cardinality(held) <= MaxTraces
      BY <1>1, <2>5, FS_Subset DEF Inv, Bounded
    <3>2. Cardinality(K) \in Nat /\ Cardinality(held) \in Nat /\ MaxTraces \in Nat
      BY <1>1, <2>5, FS_Subset, FS_CardinalityType, TraceStoreAssumption
         DEF Inv, Bounded, TraceStoreAssumption
    <3> QED BY <2>4, <3>1, <3>2
  <2>7. \A u \in K : stamp[v] <= stamp[u]
    BY <1>1, <2>4, <2>5 DEF Inv, OrderFollowsTime, OwnPlaces
  <2>8. held' \ held # {}
    <3>1. t \notin held
      <4>1. SUFFICES ASSUME t \in held PROVE FALSE
        OBVIOUS
      <4>2. K # held
        BY <2>4, <4>1
      <4>3. Cardinality(held) = MaxTraces
        BY <1>1, <2>5, <2>6, FS_Subset, FS_CardinalityType, TraceStoreAssumption
           DEF Inv, Bounded, TraceStoreAssumption
      <4> QED BY <1>1, <2>5, <2>6, <4>2, <4>3, FS_Subset DEF Inv, Bounded
    <3> QED BY <2>2, <3>1
  <2>9. Victims(t, K) \subseteq {v}
    <3>1. ASSUME NEW w \in Victims(t, K) PROVE w = v
      <4>1. w \in K /\ place[w] <= place[v] /\ place[v] <= place[w]
        BY <2>3, <2>4, <3>1 DEF Victims
      <4> QED BY <1>1, <2>5, <4>1 DEF Inv, OwnPlaces
    <3> QED BY <3>1
  <2> QED BY <2>2, <2>6, <2>7, <2>8, <2>9
<1>2. UNCHANGED vars => A
  BY DEF vars, store
<1>3. Inv /\ [Next]_vars => [A]_vars
  BY <1>1, <1>2
<1> QED BY <1>3, Invariance, PTL DEF Spec, EvictionJustified

(* What a live trace holds is never changed, only appended to, and a full  *)
(* trace takes nothing more.                                               *)
THEOREM GrowthCorrect == Spec => LiveTracesOnlyGrow
<1> DEFINE A == \A t \in (held \intersect held') \ Stale :
                  /\ spans[t] \subseteq spans'[t]
                  /\ spans'[t] \ spans[t] \subseteq offered + 1 .. offered'
                  /\ Cardinality(spans[t]) = MaxSpansPerTrace => spans'[t] = spans[t]
<1>1. ASSUME Inv, NEW t \in Traces, NEW n \in 1..MaxBatch, Insert(t, n) PROVE A
  <2> SUFFICES ASSUME NEW u \in (held \intersect held') \ Stale
               PROVE  /\ spans[u] \subseteq spans'[u]
                      /\ spans'[u] \ spans[u] \subseteq offered + 1 .. offered'
                      /\ Cardinality(spans[u]) = MaxSpansPerTrace => spans'[u] = spans[u]
    OBVIOUS
  <2> DEFINE gone == Stale \union Victims(t, held \ Stale)
             had == Base(t, held \ gone)
             taken == Fitting(n, MaxSpansPerTrace - Cardinality(had))
  <2>1. u \in Traces
    BY <1>1 DEF Inv, TypeOK
  <2>2. CASE u # t
    <3>1. u \notin gone
      BY <1>1, <2>2 DEF Insert
    <3>2. spans'[u] = spans[u]
      BY <1>1, <2>1, <2>2, <3>1 DEF Insert
    <3> QED BY <3>2
  <2>3. CASE u = t
    <3>1. t \notin gone
      BY <2>3 DEF Victims
    <3>2. had = spans[t]
      BY <2>3, <3>1 DEF Base
    <3>3. spans'[t] = had \union taken
      BY <1>1 DEF Insert
    <3>4. taken \subseteq offered + 1 .. offered' /\ offered' = offered + n
      BY <1>1 DEF Insert, Fitting
    <3>5. Cardinality(spans[t]) = MaxSpansPerTrace => taken = {}
      BY <1>1, <3>2, TraceStoreAssumption DEF Fitting, Inv, TypeOK, TraceStoreAssumption
    <3> HIDE DEF taken, had
    <3> QED BY <2>3, <3>2, <3>3, <3>4, <3>5
  <2> QED BY <2>2, <2>3
<1>2. ASSUME Inv, Query PROVE A
  BY <1>2 DEF Query, Inv, TypeOK
<1>3. ASSUME Inv, Tick \/ UNCHANGED vars PROVE A
  BY <1>3 DEF Tick, vars, store
<1>4. Inv /\ [Next]_vars => [A]_vars
  BY <1>1, <1>2, <1>3 DEF Next
<1> QED BY <1>4, Invariance, PTL DEF Spec, LiveTracesOnlyGrow

(* No operation leaves a trace in the store that is past its time to live. *)
THEOREM ExpiryCorrect == Spec => NoStaleAfterOperation
<1> DEFINE A == clock' = clock /\ TTL > 0 => \A t \in held' : stamp'[t] + TTL >= clock
<1>0. TTL \in Nat
  BY TraceStoreAssumption DEF TraceStoreAssumption
<1>1. ASSUME Inv, TTL > 0, NEW u \in held \ Stale PROVE stamp[u] + TTL >= clock
  BY <1>0, <1>1 DEF Stale, Inv, BooksAgree, TypeOK
<1>2. ASSUME Inv, NEW t \in Traces, NEW n \in 1..MaxBatch, Insert(t, n) PROVE A
  <2> SUFFICES ASSUME TTL > 0, NEW u \in held'
               PROVE  stamp'[u] + TTL >= clock
    OBVIOUS
  <2>1. CASE u = t
    BY <1>0, <1>2, <2>1 DEF Insert, Refreshed, Inv, TypeOK
  <2>2. CASE u # t
    <3>1. u \in held \ Stale /\ stamp'[u] = stamp[u]
      BY <1>2, <2>2 DEF Insert, Refreshed, Inv, TypeOK
    <3> QED BY <1>1, <1>2, <3>1
  <2> QED BY <2>1, <2>2
<1>3. ASSUME Inv, Query PROVE A
  BY <1>1, <1>3 DEF Query
<1>4. ASSUME Inv, Tick PROVE A
  BY <1>4 DEF Tick, Inv, TypeOK
<1>5. Inv /\ [Next]_vars => [A]_vars
  BY <1>2, <1>3, <1>4 DEF Next
<1> QED BY <1>5, Invariance, PTL DEF Spec, NoStaleAfterOperation

-----------------------------------------------------------------------------
(* Telemetry: what one span asks of the guards.  Every sample has labels   *)
(* in known dimensions, and guards at most one value in each of them.      *)

(* The samples that a span of these values may add. *)
Names(s) == {Blank, UnknownName, s.profile, s.guardrail, s.name, s.error}
Sampled(s) ==
    {x \in [metric : {"spans_ingested", "duration", "errors", "llm_calls", "tokens", "cost", "ttft",
                      "guardrail_requests", "guardrail_violations", "tool_calls",
                      "retrieval_calls"},
            dim : Dimensions \union {"none"}, value : Names(s)] :
        x.metric \in {"tool_calls", "retrieval_calls"} => x.dim \in {"tool_name", "none"}}

LEMMA WhenSampled ==
    ASSUME NEW S, NEW test, NEW x, test => x \in S
    PROVE  When(test, x) \in Seq(S)
<1>1. CASE test
    BY <1>1 DEF When
<1>2. CASE ~test
    BY <1>2 DEF When
<1> QED
    BY <1>1, <1>2

LEMMA LlmSampled == \A s : LlmSamples(s) \in Seq(Sampled(s))
<1> SUFFICES ASSUME NEW s PROVE LlmSamples(s) \in Seq(Sampled(s))
    OBVIOUS
<1>1. /\ Bare("llm_calls") \in Sampled(s)
      /\ Bare("tokens") \in Sampled(s)
      /\ Bare("ttft") \in Sampled(s)
      /\ Sample("cost", "pricing_profile", s.profile) \in Sampled(s)
      /\ Sample("guardrail_requests", "guardrail_id", s.guardrail) \in Sampled(s)
      /\ Sample("guardrail_violations", "guardrail_id",
                IF s.guardrail = Blank THEN UnknownName ELSE s.guardrail) \in Sampled(s)
    BY DEF Bare, Sample, Sampled, Names, Dimensions
<1> QED
    BY <1>1, WhenSampled DEF LlmSamples

LEMMA SamplesListed ==
    ASSUME NEW s \in Spans
    PROVE  Samples[s] \in Seq(Sampled(s))
<1>1. /\ Bare("spans_ingested") \in Sampled(s)
      /\ Bare("duration") \in Sampled(s)
      /\ Bare("retrieval_calls") \in Sampled(s)
      /\ Sample("errors", "error_type", s.error) \in Sampled(s)
      /\ Sample("tool_calls", "tool_name", s.name) \in Sampled(s)
    BY DEF Bare, Sample, Sampled, Names, Dimensions
<1> DEFINE rest == CASE s.type = "llm" -> LlmSamples(s)
                     [] s.type = "tool" -> ToolSamples(s)
                     [] s.type = "retrieval" -> RetrievalSamples(s)
                     [] OTHER -> <<>>
<1>2. rest \in Seq(Sampled(s))
    <2>1. /\ LlmSamples(s) \in Seq(Sampled(s))
          /\ ToolSamples(s) \in Seq(Sampled(s))
          /\ RetrievalSamples(s) \in Seq(Sampled(s))
          /\ <<>> \in Seq(Sampled(s))
        BY <1>1, LlmSampled DEF ToolSamples, RetrievalSamples
    <2> QED
        BY <2>1
<1>3. /\ When(s.error # Blank, Sample("errors", "error_type", s.error)) \in Seq(Sampled(s))
      /\ When(s.duration # NoTime, Bare("duration")) \in Seq(Sampled(s))
    BY <1>1, WhenSampled
<1>4. Samples[s] = <<Bare("spans_ingested")>>
                   \o When(s.duration # NoTime, Bare("duration"))
                   \o When(s.error # Blank, Sample("errors", "error_type", s.error))
                   \o rest
    BY DEF Samples
<1> QED
    <2> HIDE DEF rest
    <2> QED
        BY <1>1, <1>2, <1>3, <1>4

LEMMA Counts ==
    ASSUME NEW s \in Spans
    PROVE  /\ Begun(s) \in 0..Len(Samples[s])
           /\ Completed(s) \in 0..Begun(s)
           /\ Len(Samples[s]) \in Nat
           /\ \A i \in 1..Begun(s) : Samples[s][i] \in Sampled(s)
<1>1. Len(Samples[s]) \in Nat /\ \A i \in 1..Len(Samples[s]) : Samples[s][i] \in Sampled(s)
    BY SamplesListed
<1>2. Raising(s) # {} => (CHOOSE i \in Raising(s) : TRUE) \in 1..Len(Samples[s])
    BY DEF Raising
<1>3. /\ Begun(s) \in 0..Len(Samples[s])
      /\ Raising(s) # {} => Begun(s) \in 1..Len(Samples[s])
    BY <1>1, <1>2 DEF Begun
<1>4. Completed(s) \in 0..Begun(s)
    BY <1>1, <1>3 DEF Completed
<1> QED
    BY <1>1, <1>3, <1>4

(* At most one value per dimension and sample. *)
LEMMA AskedOnce ==
    ASSUME NEW s \in Spans, NEW i \in 1..Begun(s), NEW dim \in Dimensions
    PROVE  \A v, w \in Asked(s, dim, i) : v = w
<1>1. PICK x \in Sampled(s) : x = Samples[s][i]
    BY Counts
<1>2. \A a, b \in Guards(s, x) : a[1] = b[1] => a[2] = b[2]
    BY <1>1 DEF Guards, Sampled, OwnLabels
<1> QED
    BY <1>1, <1>2 DEF Asked

LEMMA AskedFinite ==
    ASSUME NEW s \in Spans, NEW i \in 1..Begun(s), NEW dim \in Dimensions
    PROVE  /\ IsFiniteSet(AskedBefore(s, dim, i))
           /\ \/ Asked(s, dim, i) = {}
              \/ \E v : Asked(s, dim, i) = {v}
<1>1. /\ i \in Nat
      /\ \A j \in 1..i - 1 : j \in 1..Begun(s)
    BY Counts
<1> DEFINE f == [j \in 1..i - 1 |-> CHOOSE v : v \in Asked(s, dim, j)]
           T == {f[j] : j \in 1..i - 1}
<1>2. IsFiniteSet(1..i - 1)
    BY <1>1, FS_Interval
<1>3. f \in Surjection(1..i - 1, T)
    BY DEF Surjection
<1>4. IsFiniteSet(T)
    <2> HIDE DEF f, T
    <2> QED
        BY <1>2, <1>3, FS_Surjection
<1>5. ASSUME NEW v \in AskedBefore(s, dim, i) PROVE v \in T
    <2>1. PICK j \in 1..i - 1 : v \in Asked(s, dim, j)
        BY DEF AskedBefore
    <2>2. v = CHOOSE w : w \in Asked(s, dim, j)
        BY <1>1, <2>1, AskedOnce
    <2> QED
        BY <2>1, <2>2
<1>6. IsFiniteSet(AskedBefore(s, dim, i))
    <2> HIDE DEF T
    <2> QED
        BY <1>4, <1>5, FS_Subset
<1>7. Asked(s, dim, i) = {} \/ \E v : Asked(s, dim, i) = {v}
    <2>1. PICK A : A = Asked(s, dim, i)
        OBVIOUS
    <2>2. \A v, w \in A : v = w
        BY <2>1, AskedOnce
    <2>3. ASSUME NEW v \in A PROVE A = {v}
        BY <2>2
    <2> QED
        BY <2>1, <2>3
<1> QED
    BY <1>6, <1>7

(* A nonempty set of places has a last one. *)
LEMMA LastPlace ==
    ASSUME NEW n \in Nat, NEW S \in SUBSET (1..n), S # {}
    PROVE  \E k \in S : \A j \in S : j <= k
<1> DEFINE R == OpToRel(<, Nat)
           T == {n - i : i \in S}
<1>1. T \in SUBSET Nat /\ T # {}
    <2>1. \A i \in S : n - i \in Nat
        OBVIOUS
    <2> QED
        BY <2>1
<1>2. PICK m \in T : \A l \in T : ~(<<l, m>> \in R)
    <2>1. IsWellFoundedOn(R, Nat)
        BY NatLessThanWellFounded
    <2> HIDE DEF R, T
    <2> QED
        BY <1>1, <2>1, WFMin
<1>3. PICK i \in S : m = n - i
    OBVIOUS
<1>4. ASSUME NEW j \in S PROVE j <= i
    <2>1. n - j \in T /\ n - j \in Nat /\ m \in Nat
        BY <1>1
    <2>2. n - j < m => <<n - j, m>> \in R
        BY <2>1 DEF OpToRel
    <2> HIDE DEF R, T
    <2>3. ~(n - j < m)
        BY <1>2, <2>1, <2>2
    <2> QED
        BY <1>3, <2>3
<1> QED
    BY <1>4

(* The guards never take a dimension past its cap, however many values one *)
(* span asks for.                                                          *)
LEMMA GuardedCapped ==
    ASSUME NEW s \in Spans, NEW dim \in Dimensions,
           IsFiniteSet(seen[dim]), Cardinality(seen[dim]) <= Cap[dim]
    PROVE  /\ IsFiniteSet(Guarded(s, dim))
           /\ Cardinality(Guarded(s, dim)) <= Cap[dim]
<1> DEFINE roomy == {i \in 1..Begun(s) : HasRoom(seen[dim] \union AskedBefore(s, dim, i), dim)}
<1>0. Begun(s) \in Nat /\ Cap[dim] \in Nat
    BY Counts, TelemetryAssumption
<1>1. CASE roomy = {}
    <2>1. Guarded(s, dim) = seen[dim]
        BY <1>1 DEF Guarded
    <2> QED
        BY <2>1
<1>2. CASE roomy # {}
    <2>1. PICK k \in roomy : \A j \in roomy : j <= k
        <3>1. roomy \in SUBSET (1..Begun(s))
            OBVIOUS
        <3> HIDE DEF roomy
        <3> QED
            BY <1>0, <1>2, <3>1, LastPlace
    <2>2. PICK S : S = seen[dim] \union AskedBefore(s, dim, k)
        OBVIOUS
    <2>3. IsFiniteSet(S) /\ Cardinality(S) \in Nat /\ Cardinality(S) < Cap[dim]
        <3>1. IsFiniteSet(S)
            BY <2>2, AskedFinite, FS_Union
        <3> QED
            BY <2>2, <3>1, FS_CardinalityType DEF HasRoom
    <2>4. PICK T : T = S \union Asked(s, dim, k)
        OBVIOUS
    <2>5. IsFiniteSet(T) /\ Cardinality(T) \in Nat /\ Cardinality(T) <= Cardinality(S) + 1
        <3>1. CASE Asked(s, dim, k) = {}
            <4>1. T = S
                BY <2>4, <3>1
            <4> QED
                BY <2>3, <4>1
        <3>2. ASSUME NEW v, Asked(s, dim, k) = {v}
              PROVE  IsFiniteSet(T) /\ Cardinality(T) \in Nat /\ Cardinality(T) <= Cardinality(S) + 1
            <4>1. T = S \union {v}
                BY <2>4, <3>2
            <4>2. /\ IsFiniteSet(T)
                  /\ Cardinality(T) = IF v \in S THEN Cardinality(S) ELSE Cardinality(S) + 1
                BY <2>3, <4>1, FS_AddElement
            <4> QED
                BY <2>3, <4>2
        <3> QED
            BY <3>1, <3>2, AskedFinite
    <2>6. Guarded(s, dim) \subseteq T
        <3>1. ASSUME NEW j \in roomy, NEW v \in Asked(s, dim, j) PROVE v \in T
            <4>1. CASE j = k
                BY <2>4, <4>1
            <4>2. CASE j # k
                <5>1. j \in 1..k - 1
                    BY <1>0, <2>1, <4>2
                <5> QED
                    BY <2>2, <2>4, <5>1 DEF AskedBefore
            <4> QED
                BY <4>1, <4>2
        <3>2. \A v \in Guarded(s, dim) : v \in seen[dim] \/ \E j \in roomy : v \in Asked(s, dim, j)
            BY DEF Guarded
        <3> QED
            BY <2>2, <2>4, <3>1, <3>2
    <2>7. IsFiniteSet(Guarded(s, dim)) /\ Cardinality(Guarded(s, dim)) <= Cardinality(T)
        BY <2>5, <2>6, FS_Subset
    <2> QED
        BY <1>0, <2>3, <2>5, <2>7, FS_CardinalityType
<1> QED
    BY <1>1, <1>2

(* The values of a dimension that have a slot after n samples of a span.   *)
GuardedUpTo(s, dim, n) ==
    seen[dim] \union
    UNION {Asked(s, dim, i) :
              i \in {i \in 1..n : HasRoom(seen[dim] \union AskedBefore(s, dim, i), dim)}}

LEMMA RoomShrinks ==
    ASSUME NEW s \in Spans, NEW dim \in Dimensions, IsFiniteSet(seen[dim]),
           NEW k \in 1..Begun(s), NEW i \in 1..k,
           HasRoom(seen[dim] \union AskedBefore(s, dim, k), dim)
    PROVE  HasRoom(seen[dim] \union AskedBefore(s, dim, i), dim)
<1> DEFINE S(j) == seen[dim] \union AskedBefore(s, dim, j)
<1>1. i \in Nat /\ k \in Nat /\ i <= k /\ Cap[dim] \in Nat
    BY Counts, TelemetryAssumption
<1>2. S(i) \subseteq S(k)
    <2>1. 1..i - 1 \subseteq 1..k - 1
        BY <1>1
    <2> QED
        BY <2>1 DEF AskedBefore
<1>3. IsFiniteSet(S(k))
    BY AskedFinite, FS_Union
<1>4. IsFiniteSet(S(i)) /\ Cardinality(S(i)) <= Cardinality(S(k))
    <2> HIDE DEF S
    <2> QED
        BY <1>2, <1>3, FS_Subset
<1>5. Cardinality(S(i)) \in Nat /\ Cardinality(S(k)) \in Nat /\ Cardinality(S(k)) < Cap[dim]
    <2>1. Cardinality(S(k)) < Cap[dim]
        BY DEF HasRoom
    <2> HIDE DEF S
    <2> QED
        BY <1>3, <1>4, <2>1, FS_CardinalityType
<1>6. Cardinality(S(i)) < Cap[dim]
    <2> HIDE DEF S
    <2> QED
        BY <1>1, <1>4, <1>5
<1> QED
    BY <1>6 DEF HasRoom

(* Either every value asked for has a slot, or the set is full since the   *)
(* first that found no room.                                               *)
LEMMA AllOrFull ==
    ASSUME NEW s \in Spans, NEW dim \in Dimensions, IsFiniteSet(seen[dim]), NEW n \in 0..Begun(s)
    PROVE  \/ GuardedUpTo(s, dim, n) = seen[dim] \union AskedBefore(s, dim, n + 1)
           \/ \E j \in 1..n :
                 /\ ~HasRoom(seen[dim] \union AskedBefore(s, dim, j), dim)
                 /\ GuardedUpTo(s, dim, n) = seen[dim] \union AskedBefore(s, dim, j)
<1> DEFINE roomless == {i \in 1..n : ~HasRoom(seen[dim] \union AskedBefore(s, dim, i), dim)}
<1>1. n \in Nat /\ Begun(s) \in Nat /\ n <= Begun(s)
    BY Counts
<1>2. CASE roomless = {}
    <2>1. {i \in 1..n : HasRoom(seen[dim] \union AskedBefore(s, dim, i), dim)} = 1..(n + 1) - 1
        BY <1>1, <1>2
    <2> QED
        BY <2>1 DEF GuardedUpTo, AskedBefore
<1>3. CASE roomless # {}
    <2>1. PICK j \in roomless : \A i \in roomless : j <= i
        <3>1. PICK f : f = [i \in 1..n |-> i]
            OBVIOUS
        <3>2. \A i \in roomless : f[i] = i /\ i \in Nat
            BY <1>1, <3>1
        <3> HIDE DEF roomless
        <3>3. PICK j \in roomless : \A i \in roomless : f[j] <= f[i]
            BY <1>3, <3>2, LeastPlace
        <3> QED
            BY <3>2, <3>3
    <2>2. j \in 1..n /\ ~HasRoom(seen[dim] \union AskedBefore(s, dim, j), dim)
        BY <2>1
    <2>3. {i \in 1..n : HasRoom(seen[dim] \union AskedBefore(s, dim, i), dim)} = 1..j - 1
        <3>1. ASSUME NEW i \in 1..n, HasRoom(seen[dim] \union AskedBefore(s, dim, i), dim)
              PROVE  i \in 1..j - 1
            <4>1. SUFFICES ASSUME j <= i PROVE FALSE
                BY <1>1, <2>2
            <4>2. i \in 1..Begun(s) /\ j \in 1..i
                BY <1>1, <2>2, <4>1
            <4> QED
                BY <2>2, <3>1, <4>2, RoomShrinks
        <3>2. ASSUME NEW i \in 1..j - 1
              PROVE  i \in 1..n /\ HasRoom(seen[dim] \union AskedBefore(s, dim, i), dim)
            <4>1. i \in 1..n /\ ~(j <= i)
                BY <1>1, <2>2
            <4> QED
                BY <2>1, <4>1
        <3> QED
            BY <3>1, <3>2
    <2>4. GuardedUpTo(s, dim, n) = seen[dim] \union AskedBefore(s, dim, j)
        BY <2>3 DEF GuardedUpTo, AskedBefore
    <2> QED
        BY <2>2, <2>4
<1> QED
    BY <1>2, <1>3

(* Guarding all values of a span at once, as Guarded does, is guarding     *)
(* them one after the other: each finds a slot exactly if the set as it is *)
(* then has one left, and has its label from then on                       *)
(* (server/metrics.py:800-812).                                            *)
THEOREM GuardedInTurn ==
    ASSUME NEW s \in Spans, NEW dim \in Dimensions, IsFiniteSet(seen[dim])
    PROVE  /\ GuardedUpTo(s, dim, 0) = seen[dim]
           /\ GuardedUpTo(s, dim, Begun(s)) = Guarded(s, dim)
           /\ \A n \in 1..Begun(s) :
                 /\ GuardedUpTo(s, dim, n) =
                       IF Cardinality(GuardedUpTo(s, dim, n - 1)) < Cap[dim]
                         THEN GuardedUpTo(s, dim, n - 1) \union Asked(s, dim, n)
                       ELSE GuardedUpTo(s, dim, n - 1)
                 /\ \A v \in Asked(s, dim, n) :
                       v \in GuardedUpTo(s, dim, n) <=> v \in Guarded(s, dim)
<1> DEFINE Finds(i) == HasRoom(seen[dim] \union AskedBefore(s, dim, i), dim)
           G(i) == GuardedUpTo(s, dim, i)
<1>1. G(0) = seen[dim]
    BY DEF GuardedUpTo
<1>2. G(Begun(s)) = Guarded(s, dim)
    BY DEF GuardedUpTo, Guarded
<1>3. ASSUME NEW n \in 1..Begun(s)
      PROVE  /\ G(n) = IF Cardinality(G(n - 1)) < Cap[dim] THEN G(n - 1) \union Asked(s, dim, n)
                       ELSE G(n - 1)
             /\ \A v \in Asked(s, dim, n) : v \in G(n) <=> v \in Guarded(s, dim)
    <2>1. n \in Nat /\ Begun(s) \in Nat /\ n <= Begun(s) /\ n - 1 \in 0..Begun(s)
          /\ (n - 1) + 1 = n
        BY Counts
    <2>2. G(n) = IF Finds(n) THEN G(n - 1) \union Asked(s, dim, n) ELSE G(n - 1)
        <3>1. \A i : i \in 1..n <=> i \in 1..n - 1 \/ i = n
            BY <2>1
        <3>2. {i \in 1..n : Finds(i)} = {i \in 1..n - 1 : Finds(i)} \union (IF Finds(n) THEN {n} ELSE {})
            <4> HIDE DEF Finds
            <4> QED
                BY <3>1
        <3> QED
            BY <3>2 DEF GuardedUpTo
    <2>3. Finds(n) <=> Cardinality(G(n - 1)) < Cap[dim]
        <3>1. CASE G(n - 1) = seen[dim] \union AskedBefore(s, dim, n)
            BY <3>1 DEF HasRoom
        <3>2. ASSUME NEW j \in 1..n - 1, ~Finds(j),
                     G(n - 1) = seen[dim] \union AskedBefore(s, dim, j)
              PROVE  ~Finds(n) /\ ~(Cardinality(G(n - 1)) < Cap[dim])
            <4>1. j \in 1..n
                BY <2>1
            <4>2. ~Finds(n)
                BY <3>2, <4>1, RoomShrinks
            <4> QED
                BY <3>2, <4>2 DEF HasRoom
        <3>3. \/ G(n - 1) = seen[dim] \union AskedBefore(s, dim, n)
              \/ \E j \in 1..n - 1 :
                    ~Finds(j) /\ G(n - 1) = seen[dim] \union AskedBefore(s, dim, j)
            BY <2>1, AllOrFull
        <3> HIDE DEF Finds, G
        <3> QED
            BY <3>1, <3>2, <3>3
    <2>4. G(n) \subseteq Guarded(s, dim)
        BY <2>1 DEF GuardedUpTo, Guarded
    <2>5. ASSUME NEW v \in Asked(s, dim, n), v \notin G(n) PROVE v \notin Guarded(s, dim)
        <3>1. ~Finds(n)
            <4> HIDE DEF Finds, G
            <4> QED
                BY <2>2, <2>5
        <3>2. ASSUME NEW i \in 1..Begun(s), Finds(i) PROVE i \in 1..n
            <4>1. SUFFICES ASSUME n <= i PROVE FALSE
                BY <2>1
            <4>2. n \in 1..i
                BY <2>1, <4>1
            <4> QED
                BY <3>1, <3>2, <4>2, RoomShrinks
        <3>3. Guarded(s, dim) \subseteq G(n)
            BY <3>2 DEF GuardedUpTo, Guarded
        <3> QED
            BY <2>5, <3>3
    <2> HIDE DEF Finds, G
    <2> QED
        BY <2>2, <2>3, <2>4, <2>5
<1> QED
    BY <1>1, <1>2, <1>3

-----------------------------------------------------------------------------
(* Telemetry: the inductive invariant                                      *)

(* The values that have a slot of their own. *)
SlotsCapped ==
    /\ DOMAIN seen = Dimensions
    /\ \A dim \in Dimensions : IsFiniteSet(seen[dim]) /\ Cardinality(seen[dim]) <= Cap[dim]

(* A guarded label that shows a value shows one that has a slot. *)
LabelsFromSlots ==
    \A x \in series :
        /\ x.span \in 1..Len(ingested)
        /\ \A l \in x.labels : l.slot =>
              /\ l.dim \in Dimensions
              /\ l.label \in {l.raw, Overflow}
              /\ l.label = l.raw => l.raw \in seen[l.dim] \union {Overflow}

NamesKept ==
    \A x, y \in series : \A l \in x.labels, m \in y.labels :
        x.span <= y.span /\ l.slot /\ m.slot /\ l.dim = m.dim /\ l.raw = m.raw
        => (l.label = l.raw => m.label = m.raw)

(* A record carries the epoch that the cache has for its trace, until the  *)
(* cache is emptied.                                                       *)
EpochsFromCache ==
    /\ cleared \in Nat
    /\ \A x \in exported :
          /\ x.cleared \in 0..cleared
          /\ format # "xray" => x.id = TraceId(x.trace, NoTime)
          /\ format = "xray" /\ x.cleared = cleared =>
                x.trace \in DOMAIN epochs /\ x.id = TraceId(x.trace, epochs[x.trace])

TelemetryInv ==
    /\ ingested \in Seq(Spans)
    /\ SlotsCapped
    /\ LabelsFromSlots
    /\ NamesKept
    /\ EpochsFromCache
    /\ OneIdPerTrace
    /\ TimesOrdered

LEMMA LabelsOf ==
    ASSUME NEW s \in Spans, NEW i \in 1..Completed(s), NEW sets,
           NEW l \in Labels(s, Samples[s][i], sets), l.slot
    PROVE  /\ l.dim \in Dimensions
           /\ l.label = Label(sets, l.dim, l.raw)
<1>1. PICK x \in Sampled(s) : x = Samples[s][i]
    BY Counts
<1>2. \A a \in Guards(s, x) \union Guards(s, Bare("spans_ingested")) : a[1] \in Dimensions
    BY <1>1 DEF Guards, Sampled, Dimensions, Bare, Sample, OwnLabels
<1>3. l \in Labels(s, x, sets)
    BY <1>1
<1>4. PICK a \in Guards(s, x) \union Guards(s, Bare("spans_ingested")) :
          l = [dim |-> a[1], raw |-> a[2], label |-> Label(sets, a[1], a[2]), slot |-> TRUE]
    BY <1>3 DEF Labels
<1> QED
    BY <1>2, <1>4

LEMMA RecordKeeps ==
    ASSUME TelemetryInv, NEW s \in Spans, NEW sampled, NEW now, RecordSpan(s, sampled, now)
    PROVE  /\ ingested' \in Seq(Spans)
           /\ SlotsCapped'
           /\ LabelsFromSlots'
           /\ NamesKept'
<1>1. PICK n \in Nat : n = Len(ingested)
    BY DEF TelemetryInv
<1>2. ingested' \in Seq(Spans) /\ Len(ingested') = n + 1
    BY <1>1 DEF TelemetryInv, RecordSpan
<1>3. seen' = [dim \in Dimensions |-> Guarded(s, dim)]
    BY DEF RecordSpan
<1>4. \A dim \in Dimensions : seen[dim] \subseteq seen'[dim]
    BY <1>3 DEF Guarded
<1>5. SlotsCapped'
    <2>1. ASSUME NEW dim \in Dimensions
          PROVE  IsFiniteSet(seen'[dim]) /\ Cardinality(seen'[dim]) <= Cap[dim]
        <3>1. IsFiniteSet(seen[dim]) /\ Cardinality(seen[dim]) <= Cap[dim]
            BY DEF TelemetryInv, SlotsCapped
        <3> QED
            BY <1>3, <3>1, GuardedCapped
    <2> QED
        BY <1>3, <2>1 DEF SlotsCapped
<1>6. ASSUME NEW x \in series'
      PROVE  \/ x \in series /\ x.span \in 1..n
             \/ /\ x.span = n + 1
                /\ \A l \in x.labels : l.slot =>
                      l.dim \in Dimensions /\ l.label = Label(seen', l.dim, l.raw)
    <2>1. CASE x \in series
        BY <1>1, <2>1 DEF TelemetryInv, LabelsFromSlots
    <2>2. ASSUME NEW i \in 1..Completed(s),
                 x = [span |-> Len(ingested) + 1, metric |-> Samples[s][i].metric,
                      labels |-> Labels(s, Samples[s][i], seen')]
          PROVE  /\ x.span = n + 1
                 /\ \A l \in x.labels : l.slot =>
                       l.dim \in Dimensions /\ l.label = Label(seen', l.dim, l.raw)
        BY <1>1, <2>2, LabelsOf
    <2> QED
        BY <1>6, <2>1, <2>2 DEF RecordSpan
<1>7. \A x \in series : \A l \in x.labels : l.slot =>
          /\ l.dim \in Dimensions
          /\ l.label \in {l.raw, Overflow}
          /\ l.label = l.raw => l.raw \in seen'[l.dim] \union {Overflow}
    BY <1>4 DEF TelemetryInv, LabelsFromSlots
<1>8. LabelsFromSlots'
    <2>1. ASSUME NEW x \in series'
          PROVE  /\ x.span \in 1..n + 1
                 /\ \A l \in x.labels : l.slot =>
                       /\ l.dim \in Dimensions
                       /\ l.label \in {l.raw, Overflow}
                       /\ l.label = l.raw => l.raw \in seen'[l.dim] \union {Overflow}
        <3>1. CASE x \in series /\ x.span \in 1..n
            BY <1>7, <3>1
        <3>2. CASE /\ x.span = n + 1
                   /\ \A l \in x.labels : l.slot =>
                         l.dim \in Dimensions /\ l.label = Label(seen', l.dim, l.raw)
            BY <3>2 DEF Label
        <3> QED
            BY <1>6, <3>1, <3>2
    <2> QED
        BY <1>2, <2>1 DEF LabelsFromSlots
<1>9. NamesKept'
    <2> SUFFICES ASSUME NEW x \in series', NEW y \in series', NEW l \in x.labels, NEW m \in y.labels,
                        x.span <= y.span, l.slot, m.slot, l.dim = m.dim, l.raw = m.raw,
                        l.label = l.raw
                 PROVE  m.label = m.raw
        BY DEF NamesKept
    <2>1. l.raw \in seen'[l.dim] \union {Overflow}
        BY <1>8 DEF LabelsFromSlots
    <2>2. CASE /\ y.span = n + 1
               /\ \A k \in y.labels : k.slot =>
                     k.dim \in Dimensions /\ k.label = Label(seen', k.dim, k.raw)
        BY <2>1, <2>2 DEF Label
    <2>3. CASE y \in series /\ y.span \in 1..n
        <3>1. x \in series
            BY <1>6, <2>3
        <3> QED
            BY <2>3, <3>1 DEF TelemetryInv, NamesKept
    <2> QED
        BY <1>6, <2>2, <2>3
<1> QED
    BY <1>2, <1>5, <1>8, <1>9

(* The times of a record are in order, by the time they are read or else   *)
(* by the span's duration.                                                 *)
LEMMA TimesOf ==
    ASSUME NEW s \in Spans, NEW now \in Clock, Converts(s, now)
    PROVE  Times(s, now).start <= Times(s, now).end
<1>1. now \in Int
    BY TelemetryAssumption
<1>2. OrNow(s.start, now) \in Int /\ OrNow(s.end, now) \in Int
    BY <1>1, TelemetryAssumption DEF OrNow
<1>3. PICK a \in Int, b \in Int : a = OrNow(s.start, now) /\ b = OrNow(s.end, now)
    BY <1>2
<1>4. CASE a <= b
    BY <1>3, <1>4 DEF Times
<1>5. CASE ~(a <= b)
    <2>1. s.duration \in Int \union {NoTime}
        BY <1>3, <1>5, TelemetryAssumption DEF Converts
    <2>2. PICK d : d = s.duration
        OBVIOUS
    <2>3. Times(s, now) = IF d # NoTime /\ d > 0 THEN [start |-> b, end |-> b + d]
                          ELSE [start |-> b, end |-> a]
        BY <1>3, <1>5, <2>2 DEF Times
    <2> QED
        BY <1>5, <2>1, <2>2, <2>3
<1> QED
    BY <1>4, <1>5

(* What the cache has for the trace of a record just made. *)
LEMMA EpochOf ==
    ASSUME NEW s \in Spans, NEW now, format = "xray"
    PROVE  /\ s.trace \in DOMAIN Epochs(s, now)
           /\ DOMAIN epochs \subseteq DOMAIN Epochs(s, now) =>
                 \A t \in DOMAIN epochs : Epochs(s, now)[t] = epochs[t]
<1>1. CASE s.trace \in DOMAIN epochs
    BY <1>1 DEF Epochs
<1>2. CASE s.trace \notin DOMAIN epochs
    <2>1. CASE Cardinality(DOMAIN epochs) > CacheLimit
        <3>1. DOMAIN Epochs(s, now) = {s.trace}
            BY <1>2, <2>1 DEF Epochs, With
        <3> QED
            BY <1>2, <3>1
    <2>2. CASE ~(Cardinality(DOMAIN epochs) > CacheLimit)
        BY <1>2, <2>2 DEF Epochs, With
    <2> QED
        BY <2>1, <2>2
<1> QED
    BY <1>1, <1>2

LEMMA ExportKeeps ==
    ASSUME TelemetryInv, NEW s \in Spans, NEW now \in Clock, ExportSpan(s, now), format' = format
    PROVE  /\ EpochsFromCache'
           /\ OneIdPerTrace'
           /\ TimesOrdered'
<1>1. CASE s.trace = Blank
    BY <1>1 DEF ExportSpan, TelemetryInv, EpochsFromCache, TraceId, OneIdPerTrace, TimesOrdered
<1>2. CASE s.trace # Blank
    <2>1. /\ epochs' = Epochs(s, now)
          /\ cleared' = IF DOMAIN epochs \subseteq DOMAIN epochs' THEN cleared ELSE cleared + 1
        BY <1>2 DEF ExportSpan
    <2>2. cleared \in Nat /\ cleared' \in Nat /\ cleared <= cleared'
        BY <2>1 DEF TelemetryInv, EpochsFromCache
    <2>3. PICK e : e = IF format = "xray" THEN epochs'[s.trace] ELSE NoTime
        OBVIOUS
    <2>4. PICK id : id = TraceId(s.trace, e)
        OBVIOUS
    <2>5. ASSUME NEW x \in exported', x \notin exported
          PROVE  /\ x.trace = s.trace
                 /\ x.id = id
                 /\ x.cleared = cleared'
                 /\ x.times.start <= x.times.end
        <3>1. /\ Converts(s, now)
              /\ x = [span |-> Len(ingested) + 1, trace |-> s.trace, times |-> Times(s, now),
                      cleared |-> cleared', id |-> TraceId(s.trace, e)]
            BY <1>2, <2>3, <2>5 DEF ExportSpan
        <3> QED
            BY <2>4, <3>1, TimesOf
    <2>6. ASSUME NEW x \in exported, format = "xray", x.cleared = cleared'
          PROVE  x.trace \in DOMAIN epochs' /\ x.id = TraceId(x.trace, epochs'[x.trace])
        <3>1. x.cleared \in 0..cleared
            BY DEF TelemetryInv, EpochsFromCache
        <3>2. cleared' = cleared /\ DOMAIN epochs \subseteq DOMAIN epochs'
            BY <2>1, <2>2, <2>6, <3>1
        <3>3. x.trace \in DOMAIN epochs /\ x.id = TraceId(x.trace, epochs[x.trace])
            BY <2>6, <3>2 DEF TelemetryInv, EpochsFromCache
        <3>4. x.trace \in DOMAIN epochs' /\ epochs'[x.trace] = epochs[x.trace]
            BY <2>1, <2>6, <3>2, <3>3, EpochOf
        <3> QED
            BY <3>3, <3>4
    <2>7. \A trace, epoch : TraceId(trace, epoch)' = TraceId(trace, epoch)
        BY DEF TraceId
    <2>8. EpochsFromCache'
        <3>1. ASSUME NEW x \in exported'
              PROVE  /\ x.cleared \in 0..cleared'
                     /\ format # "xray" => x.id = TraceId(x.trace, NoTime)
                     /\ format = "xray" /\ x.cleared = cleared' =>
                           x.trace \in DOMAIN epochs' /\ x.id = TraceId(x.trace, epochs'[x.trace])
            <4>1. CASE x \in exported
                BY <2>2, <2>6, <4>1 DEF TelemetryInv, EpochsFromCache
            <4>2. CASE x \notin exported
                <5>1. x.trace = s.trace /\ x.id = TraceId(s.trace, e) /\ x.cleared = cleared'
                    BY <2>4, <2>5, <4>2
                <5>2. format = "xray" => s.trace \in DOMAIN epochs'
                    BY <2>1, EpochOf
                <5> QED
                    BY <2>2, <2>3, <5>1, <5>2
            <4> QED
                BY <4>1, <4>2
        <3> QED
            BY <2>2, <2>7, <3>1 DEF EpochsFromCache, TraceId
    <2>9. OneIdPerTrace'
        <3> SUFFICES ASSUME NEW x \in exported', NEW y \in exported',
                            x.trace = y.trace, x.cleared = y.cleared
                     PROVE  x.id = y.id
            BY DEF OneIdPerTrace
        <3>1. CASE x \in exported /\ y \in exported
            BY <3>1 DEF TelemetryInv, OneIdPerTrace
        <3>2. CASE x \notin exported \/ y \notin exported
            <4>1. x.cleared = cleared' /\ y.cleared = cleared'
                BY <2>5, <3>2
            <4>2. CASE format # "xray"
                <5>1. x.id = TraceId(x.trace, NoTime)' /\ y.id = TraceId(y.trace, NoTime)'
                    BY <2>8, <4>2 DEF EpochsFromCache
                <5> QED
                    BY <5>1 DEF TraceId
            <4>3. CASE format = "xray"
                <5>1. /\ x.id = TraceId(x.trace, epochs[x.trace])'
                      /\ y.id = TraceId(y.trace, epochs[y.trace])'
                    BY <2>8, <4>1, <4>3 DEF EpochsFromCache
                <5> QED
                    BY <5>1 DEF TraceId
            <4> QED
                BY <4>2, <4>3
        <3> QED
            BY <3>1, <3>2
    <2>10. TimesOrdered'
        BY <2>5 DEF TelemetryInv, TimesOrdered
    <2> QED
        BY <2>8, <2>9, <2>10
<1> QED
    BY <1>1, <1>2

LEMMA TelemetryInitInv == TelemetryInit => TelemetryInv
<1> SUFFICES ASSUME TelemetryInit PROVE TelemetryInv
    OBVIOUS
<1>1. /\ seen = [dim \in Dimensions |-> {}]
      /\ cleared = 0 /\ ingested = <<>> /\ series = {} /\ exported = {}
    BY DEF TelemetryInit
<1>2. SlotsCapped
    BY <1>1, FS_EmptySet, TelemetryAssumption DEF SlotsCapped
<1> QED
    BY <1>1, <1>2
    DEF TelemetryInv, LabelsFromSlots, NamesKept, EpochsFromCache, OneIdPerTrace, TimesOrdered

(* The inductive invariant of the registry and the exporter, for any spans *)
(* with any names, caps and clocks: labels show values that have a slot,   *)
(* and records the epoch cached for their trace.                           *)
THEOREM TelemetryInvariance == TelemetrySpec => []TelemetryInv
<1>1. ASSUME TelemetryInv, [TelemetryNext]_telemetryVars PROVE TelemetryInv'
    <2>1. ASSUME NEW s \in Spans, NEW now \in Clock, Forward(s, now) PROVE TelemetryInv'
        <3>1. PICK later \in Clock : ExportSpan(s, later)
            BY <2>1 DEF Forward
        <3>2. RecordSpan(s, TRUE, now) /\ format' = format
            BY <2>1 DEF Forward
        <3> QED
            BY <1>1, <3>1, <3>2, RecordKeeps, ExportKeeps DEF TelemetryInv
    <2>2. ASSUME NEW s \in Spans, NEW now, NEW sampled, Drop(s, sampled, now) PROVE TelemetryInv'
        <3>1. RecordSpan(s, sampled, now) /\ UNCHANGED <<format, epochs, cleared, exported>>
            BY <2>2 DEF Drop
        <3>2. EpochsFromCache' /\ OneIdPerTrace' /\ TimesOrdered'
            BY <1>1, <3>1 DEF TelemetryInv, EpochsFromCache, TraceId, OneIdPerTrace, TimesOrdered
        <3> QED
            BY <1>1, <3>1, <3>2, RecordKeeps DEF TelemetryInv
    <2>3. CASE UNCHANGED telemetryVars
        BY <1>1, <2>3
        DEF telemetryVars, metrics, TelemetryInv, SlotsCapped, LabelsFromSlots, NamesKept,
            EpochsFromCache, TraceId, OneIdPerTrace, TimesOrdered
    <2> QED
        BY <1>1, <2>1, <2>2, <2>3 DEF TelemetryNext
<1> QED
    BY <1>1, TelemetryInitInv, PTL DEF TelemetrySpec

LEMMA InvCapsLabels == TelemetryInv => LabelsCapped
<1> SUFFICES ASSUME TelemetryInv PROVE LabelsCapped
    OBVIOUS
<1>1. ASSUME NEW d \in Dimensions
      PROVE  Cardinality(Shown(d) \ {Overflow}) <= Cap[d]
    <2>1. PICK shown : shown = Shown(d) \ {Overflow}
        OBVIOUS
    <2>2. shown \subseteq seen[d]
        <3> SUFFICES ASSUME NEW x \in series, NEW l \in x.labels, l.dim = d, l.slot,
                            l.label # Overflow
                     PROVE  l.label \in seen[d]
            BY <2>1 DEF Shown
        <3> QED
            BY DEF TelemetryInv, LabelsFromSlots
    <2>3. /\ IsFiniteSet(seen[d])
          /\ Cardinality(seen[d]) <= Cap[d]
        BY DEF TelemetryInv, SlotsCapped
    <2>4. IsFiniteSet(shown) /\ Cardinality(shown) <= Cardinality(seen[d])
        BY <2>2, <2>3, FS_Subset
    <2>5. Cardinality(shown) \in Nat /\ Cardinality(seen[d]) \in Nat /\ Cap[d] \in Nat
        BY <2>3, <2>4, FS_CardinalityType, TelemetryAssumption
    <2> QED
        BY <2>1, <2>3, <2>4, <2>5
<1> QED
    BY <1>1 DEF TelemetryInv, NamesKept, LabelsCapped

(* No dimension ever shows more values than its cap, besides a model left  *)
(* blank, and a value shown under its name by the guard keeps it           *)
(* (metrics.py:497-499, 800-812).                                          *)
THEOREM LabelsCorrect == TelemetrySpec => []LabelsCapped
BY TelemetryInvariance, InvCapsLabels, PTL

(* The records of the spans sent under one trace id carry one id while the *)
(* epoch cache lasts (otlp_exporter.py:38-54, 229-240).                    *)
THEOREM TraceIdsCorrect == TelemetrySpec => []OneIdPerTrace
<1>1. TelemetryInv => OneIdPerTrace
    BY DEF TelemetryInv
<1> QED
    BY <1>1, TelemetryInvariance, PTL

(* No record ends before it starts, for any clocks and whatever the span   *)
(* leaves out (otlp_exporter.py:273-304).                                  *)
THEOREM TimesCorrect == TelemetrySpec => []TimesOrdered
<1>1. TelemetryInv => TimesOrdered
    BY DEF TelemetryInv
<1> QED
    BY <1>1, TelemetryInvariance, PTL

=============================================================================
