--------------------------- MODULE IngestionProofs ---------------------------
(***************************************************************************)
(* Proofs about Ingestion, for every size of the queue, every set of       *)
(* payloads and any number of requests.  The invariant Inv adds to the     *)
(* checked properties that the queue is in the order of the requests and   *)
(* that the sentinel stands last, put there by a stop().                   *)
(***************************************************************************)
EXTENDS Ingestion, SequenceTheorems, NaturalsInduction, WellFoundedInduction, TLAPS

-----------------------------------------------------------------------------
(* The batches of a sequence of queue items. *)

LEMMA BatchesEmpty == Batches(<<>>) = {}
BY DEF Batches

LEMMA BatchesOne == \A i : Batches(<<i>>) = {i} \ {Stop}
BY DEF Batches

LEMMA BatchesAppend ==
    ASSUME NEW s \in Seq(Nat), NEW b \in Nat
    PROVE  Batches(Append(s, b)) = Batches(s) \union ({b} \ {Stop})
<1> DEFINE t == Append(s, b)
<1>1. Len(t) = Len(s) + 1 /\ Len(s) \in Nat /\ t[Len(s) + 1] = b /\ \A i \in 1..Len(s) : t[i] = s[i]
  OBVIOUS
<1> HIDE DEF t
<1>2. 1..Len(t) = 1..Len(s) \union {Len(s) + 1}
  BY <1>1
<1>3. {t[i] : i \in 1..Len(t)} = {s[i] : i \in 1..Len(s)} \union {b}
  BY <1>1, <1>2
<1> QED BY <1>3 DEF Batches, t

(* Cutting a sequence in two. *)
LEMMA BatchesCut ==
    ASSUME NEW s \in Seq(Nat), NEW k \in 0..Len(s)
    PROVE  Batches(s) = Batches(SubSeq(s, 1, k)) \union Batches(SubSeq(s, k + 1, Len(s)))
<1> DEFINE u == SubSeq(s, 1, k)
           v == SubSeq(s, k + 1, Len(s))
<1>0. k \in Nat /\ Len(s) \in Nat /\ k <= Len(s) 
  OBVIOUS
<1>1. Len(u) = k /\ \A i \in 1..k : u[i] = s[i]
  OBVIOUS
<1>2. Len(v) = Len(s) - k /\ \A i \in 1..Len(s) - k : v[i] = s[k + i]
  OBVIOUS
<1> HIDE DEF u, v
<1>3. {u[i] : i \in 1..Len(u)} = {s[i] : i \in 1..k}
  BY <1>1
<1>4. {v[i] : i \in 1..Len(v)} = {s[i] : i \in k + 1..Len(s)}
  <2>1. ASSUME NEW x \in {v[i] : i \in 1..Len(v)} PROVE x \in {s[i] : i \in k + 1..Len(s)}
    <3>1. PICK i \in 1..Len(v) : x = v[i]
      OBVIOUS
    <3>2. k + i \in k + 1..Len(s) /\ v[i] = s[k + i]
      BY <1>0, <1>2
    <3> QED BY <3>1, <3>2
  <2>2. ASSUME NEW x \in {s[i] : i \in k + 1..Len(s)} PROVE x \in {v[i] : i \in 1..Len(v)}
    <3>1. PICK j \in k + 1..Len(s) : x = s[j]
      OBVIOUS
    <3>2. j - k \in 1..Len(v) /\ v[j - k] = s[k + (j - k)] /\ k + (j - k) = j
      BY <1>0, <1>2
    <3> QED BY <3>1, <3>2
  <2> QED BY <2>1, <2>2
<1>5. 1..Len(s) = 1..k \union k + 1..Len(s)
  BY <1>0
<1> QED BY <1>3, <1>4, <1>5 DEF Batches, u, v

(* Taking the head off. *)
LEMMA BatchesHead ==
    ASSUME NEW s \in Seq(Nat), s # <<>>
    PROVE  Batches(s) = ({Head(s)} \ {Stop}) \union Batches(Tail(s))
<1>1. Len(s) \in Nat \ {0}
  BY EmptySeq
<1>2. Tail(s) = SubSeq(s, 2, Len(s)) /\ Head(s) = s[1]
  BY <1>1, TailIsSubSeq
<1>4. Batches(SubSeq(s, 1, 1)) = {Head(s)} \ {Stop}
  <2>1. Len(SubSeq(s, 1, 1)) = 1 /\ SubSeq(s, 1, 1)[1] = Head(s)
    BY <1>1, <1>2
  <2> QED BY <2>1 DEF Batches
<1>3. Batches(s) = Batches(SubSeq(s, 1, 1)) \union Batches(SubSeq(s, 2, Len(s)))
  <2>1. Batches(s) = Batches(SubSeq(s, 1, 1)) \union Batches(SubSeq(s, 1 + 1, Len(s)))
    BY <1>1, BatchesCut
  <2>2. 1 + 1 = 2
    OBVIOUS
  <2> QED BY <2>1, <2>2
<1> QED BY <1>2, <1>3, <1>4

(* Sequences in which the batches come in the order of their requests and  *)
(* the sentinel, if it is there, comes last.                               *)
InOrder(s) ==
    \A i, j \in 1..Len(s) : i < j => s[i] # Stop /\ (s[j] = Stop \/ s[i] < s[j])

(* In such a sequence nothing stands on both sides of a cut. *)
LEMMA CutInOrder ==
    ASSUME NEW s \in Seq(Nat), InOrder(s), NEW k \in 0..Len(s)
    PROVE  /\ Batches(SubSeq(s, 1, k)) \intersect Batches(SubSeq(s, k + 1, Len(s))) = {}
           /\ SubSeq(s, k + 1, Len(s)) \in Seq(Nat)
           /\ Len(SubSeq(s, k + 1, Len(s))) = Len(s) - k
           /\ \A i \in 1..Len(s) - k : SubSeq(s, k + 1, Len(s))[i] = s[k + i]
           /\ InOrder(SubSeq(s, k + 1, Len(s)))
<1> DEFINE u == SubSeq(s, 1, k)
           v == SubSeq(s, k + 1, Len(s))
<1>0. k \in Nat /\ Len(s) \in Nat /\ k <= Len(s) /\ \A i \in 1..Len(s) : s[i] \in Nat
  OBVIOUS
<1>1. Len(u) = k /\ \A i \in 1..k : u[i] = s[i]
  OBVIOUS
<1>2. v \in Seq(Nat) /\ Len(v) = Len(s) - k /\ \A i \in 1..Len(s) - k : v[i] = s[k + i]
  OBVIOUS
<1> HIDE DEF u, v
<1>3. Batches(u) \intersect Batches(v) = {}
  <2> SUFFICES ASSUME NEW i \in 1..Len(u), NEW j \in 1..Len(v), u[i] = v[j], u[i] # Stop
               PROVE  FALSE
    BY DEF Batches
  <2>1. i \in 1..Len(s) /\ k + j \in 1..Len(s) /\ i < k + j /\ s[i] = s[k + j]
    BY <1>0, <1>1, <1>2
  <2>2. s[k + j] = Stop \/ s[i] < s[k + j]
    BY <2>1 DEF InOrder
  <2> QED BY <1>0, <1>1, <2>1, <2>2
<1>4. InOrder(v)
  <2> SUFFICES ASSUME NEW i \in 1..Len(v), NEW j \in 1..Len(v), i < j
               PROVE  v[i] # Stop /\ (v[j] = Stop \/ v[i] < v[j])
    BY DEF InOrder
  <2>1. k + i \in 1..Len(s) /\ k + j \in 1..Len(s) /\ k + i < k + j
    BY <1>0, <1>2
  <2> QED BY <1>2, <2>1 DEF InOrder
<1> QED BY <1>2, <1>3, <1>4 DEF u, v

LEMMA TailInOrder ==
    ASSUME NEW s \in Seq(Nat), InOrder(s), s # <<>>
    PROVE  /\ Tail(s) \in Seq(Nat)
           /\ InOrder(Tail(s))
           /\ Head(s) \in Nat /\ Head(s) = s[1] /\ Len(s) \in Nat \ {0}
           /\ Len(Tail(s)) = Len(s) - 1
           /\ \A i \in 1..Len(Tail(s)) : Tail(s)[i] = s[i + 1]
           /\ Head(s) = Stop => Tail(s) = <<>>
           /\ \A i \in 1..Len(Tail(s)) : Tail(s)[i] = Stop \/ Head(s) < Tail(s)[i]
           /\ Head(s) # Stop => Head(s) \notin Batches(Tail(s))
<1>1. Tail(s) \in Seq(Nat) /\ Len(Tail(s)) = Len(s) - 1 /\ Len(s) \in Nat \ {0}
      /\ Head(s) = s[1] /\ Head(s) \in Nat
  BY EmptySeq, HeadTailProperties
<1>2. \A i \in 1..Len(Tail(s)) : Tail(s)[i] = s[i + 1] /\ i + 1 \in 1..Len(s) /\ i < i + 1
  BY <1>1, HeadTailProperties
<1>3. InOrder(Tail(s))
  BY <1>1, <1>2 DEF InOrder
<1>4. ASSUME Head(s) = Stop PROVE Tail(s) = <<>>
  <2>1. Len(s) = 1
    BY <1>1, <1>4 DEF InOrder
  <2>2. Len(Tail(s)) = 0 /\ Tail(s) \in Seq(Nat)
    BY <1>1, <2>1
  <2> QED BY <2>2, EmptySeq
<1>5. \A i \in 1..Len(Tail(s)) : Tail(s)[i] = Stop \/ Head(s) < Tail(s)[i]
  BY <1>1, <1>2 DEF InOrder
<1>6. ASSUME Head(s) # Stop PROVE Head(s) \notin Batches(Tail(s))
  BY <1>1, <1>5, <1>6 DEF Batches
<1> QED BY <1>1, <1>2, <1>3, <1>4, <1>5, <1>6

-----------------------------------------------------------------------------

(* What the consumer is still to see comes in the order of the requests. *)
FirstInFirstOut ==
    /\ InOrder(queue)
    /\ hand # Nothing =>
          \A j \in 1..Len(queue) : hand[1] # Stop /\ (queue[j] = Stop \/ hand[1] < queue[j])

(* Only stop() sends the sentinel and clears the flag. *)
StoppedByStop ==
    /\ running <=> stopper = "none"
    /\ stopper = "none" => Stop \notin {queue[i] : i \in 1..Len(queue)} /\ hand # <<Stop>>

(* The task has nothing in hand unless it is in its loop.  It returns by a *)
(* stop, and only when nothing is queued, or by a batch taken for one.     *)
EndedByStop ==
    /\ worker # "loop" => hand = Nothing
    /\ worker = "returned" => (stopper # "none" /\ queue = <<>>) \/ mistaken # {}

(* The sinks hold spans of the batches that were processed, and those are  *)
(* older than all that the server still holds.                             *)
ServedFirst ==
    /\ kept \subseteq recorded
    /\ \A e \in recorded : e.batch \in handled
    /\ \A h \in handled : \A b \in Pending : h < b

Inv ==
    /\ TypeOK
    /\ Conservation
    /\ FirstInFirstOut
    /\ StoppedByStop
    /\ EndedByStop
    /\ ServedFirst

(* The batches the task is done with, and the fates of all requests.       *)
Gone == handled \union mistaken

Books(all, no, dropped, done, held) ==
    /\ all = no \union dropped \union done \union held
    /\ no \intersect (dropped \union done \union held) = {}
    /\ dropped \intersect (done \union held) = {}
    /\ done \intersect held = {}

LEMMA ConservationIs ==
    Conservation <=> /\ Books(Requests, rejected, evicted, Gone, Pending)
                     /\ handled \intersect Named = {} /\ mistaken \subseteq Named
BY DEF Conservation, Books, Gone

-----------------------------------------------------------------------------
(* The pipeline. *)

(* How far a batch is worked on is well defined. *)
LEMMA ReachedInside ==
    ASSUME NEW p \in Seq(Span)
    PROVE  Reached(p) \in 0..Len(p)
<1> DEFINE Good(k) == (\A i \in 1..k : p[i].readable) /\ (k < Len(p) => ~p[k + 1].readable)
           P == {i \in 1..Len(p) : ~p[i].readable}
           R == OpToRel(<, Nat)
<1>1. Len(p) \in Nat
  OBVIOUS
<1>2. \E k \in 0..Len(p) : Good(k)
  <2>1. CASE P = {}
    <3>1. Good(Len(p)) /\ Len(p) \in 0..Len(p)
      BY <1>1, <2>1
    <3> QED BY <3>1
  <2>2. CASE P # {}
    <3>1. P \subseteq Nat
      OBVIOUS
    <3>2. PICK n \in P : \A m \in P : ~(<<m, n>> \in R)
      <4> HIDE DEF P, R
      <4>1. IsWellFoundedOn(R, Nat)
        BY NatLessThanWellFounded DEF R
      <4> QED BY <2>2, <3>1, <4>1, WFMin
    <3>3. n \in 1..Len(p) /\ ~p[n].readable
      BY <3>2
    <3>4. \A i \in 1..n - 1 : p[i].readable
      <4> SUFFICES ASSUME NEW i \in 1..n - 1, ~p[i].readable PROVE FALSE
        OBVIOUS
      <4>1. i \in P /\ i < n /\ i \in Nat /\ n \in Nat
        BY <1>1, <3>3
      <4>2. <<i, n>> \in R
        BY <4>1 DEF OpToRel
      <4> HIDE DEF P, R
      <4> QED BY <3>2, <4>1, <4>2
    <3>5. Good(n - 1) /\ n - 1 \in 0..Len(p)
      <4>1. (n - 1) + 1 = n /\ n - 1 \in 0..Len(p)
        BY <1>1, <3>3
      <4> QED BY <3>3, <3>4, <4>1
    <3> QED BY <3>5
  <2> QED BY <2>1, <2>2
<1>3. Reached(p) = CHOOSE k \in 0..Len(p) : Good(k)
  BY DEF Reached
<1> HIDE DEF Good
<1> QED BY <1>2, <1>3

(* What a batch adds to the sinks. *)
LEMMA Sinks ==
    ASSUME TypeOK, NEW b \in Requests
    PROVE  /\ Entries(b, Metered) \subseteq Entry
           /\ Entries(b, Survives) \subseteq Entries(b, Metered)
           /\ \A e \in Entries(b, Metered) : e.batch = b
<1> DEFINE q == payload[b].spans
<1>1. q \in Seq(Span)
  <2>1. payload[b] \in Request
    BY IngestionAssumption DEF TypeOK, Requests, IngestionAssumption
  <2> QED BY <2>1 DEF Request
<1>2. Reached(q) \in Nat
  BY <1>1, ReachedInside
<1>3. b \in Nat
  BY DEF TypeOK, Requests
<1> HIDE DEF q
<1>4. Entries(b, Metered) \subseteq Entry
  BY <1>2, <1>3 DEF Entries, Entry, q
<1>5. Entries(b, Survives) \subseteq Entries(b, Metered)
  BY DEF Entries, Metered
<1>6. \A e \in Entries(b, Metered) : e.batch = b
  BY DEF Entries
<1> QED BY <1>4, <1>5, <1>6

(* What consuming some batches does to what is gone and to the sinks.      *)
LEMMA ConsumeKeeps ==
    ASSUME TypeOK, ServedFirst, handled \intersect Named = {}, mistaken \subseteq Named,
           NEW S \in SUBSET Requests, Consume(S), payload' = payload
    PROVE  /\ Gone' = Gone \union S
           /\ handled' \subseteq Requests /\ mistaken' \subseteq Requests
           /\ handled \subseteq handled' /\ mistaken \subseteq mistaken'
           /\ handled' \subseteq handled \union S
           /\ handled' \intersect Named = {} /\ mistaken' \subseteq Named
           /\ S \intersect Named \subseteq mistaken'
           /\ recorded' \subseteq Entry /\ kept' \subseteq recorded'
           /\ \A e \in recorded' : e.batch \in handled' /\ (e \in recorded \/ e.batch \in S)
           /\ \A e \in kept' : e \in kept \/ e.batch \in S
<1> DEFINE work == {b \in S : ~Stops(b)}
<1>1. /\ handled' = handled \union work /\ mistaken' = mistaken \union {b \in S : Stops(b)}
      /\ recorded' = recorded \union UNION {Entries(b, Metered) : b \in work}
      /\ kept' = kept \union UNION {Entries(b, Survives) : b \in work}
  BY DEF Consume
<1>2. \A b \in S : (Stops(b) <=> b \in Named) /\ b \in Requests
  BY DEF Stops, Stop, Requests
<1>3. handled \subseteq Requests /\ mistaken \subseteq Requests /\ recorded \subseteq Entry
  BY DEF TypeOK
<1>4. Gone' = Gone \union S /\ handled' \subseteq Requests /\ mistaken' \subseteq Requests
  BY <1>1, <1>2, <1>3 DEF Gone
<1>5. handled' \intersect Named = {} /\ mistaken' \subseteq Named /\ S \intersect Named \subseteq mistaken'
  BY <1>1, <1>2
<1>6. work \subseteq Requests /\ work \subseteq S
  BY <1>2
<1> HIDE DEF work
<1>7. \A b \in work : /\ Entries(b, Metered) \subseteq Entry
                      /\ Entries(b, Survives) \subseteq Entries(b, Metered)
                      /\ \A e \in Entries(b, Metered) : e.batch = b
  BY <1>6, Sinks
<1>8. recorded' \subseteq Entry /\ kept' \subseteq recorded'
  BY <1>1, <1>3, <1>7 DEF ServedFirst
<1>9. \A e \in recorded' : e.batch \in handled' /\ (e \in recorded \/ e.batch \in S)
  BY <1>1, <1>6, <1>7 DEF ServedFirst
<1>10. \A e \in kept' : e \in kept \/ e.batch \in S
  BY <1>1, <1>6, <1>7
<1> QED BY <1>1, <1>4, <1>5, <1>6, <1>8, <1>9, <1>10

-----------------------------------------------------------------------------

(* What the types of the variables say, spelled out. *)
LEMMA Types ==
    ASSUME TypeOK
    PROVE  /\ queue \in Seq(Nat) /\ Len(queue) \in Nat /\ Len(queue) <= MaxQueue
           /\ \A i \in 1..Len(queue) : queue[i] \in 0..Len(payload)
           /\ Len(payload) \in Nat /\ payload \in Seq(Payloads)
           /\ hand = Nothing \/ \E i \in 0..Len(payload) : hand = <<i>>
           /\ rejected \subseteq Requests /\ evicted \subseteq Requests
           /\ handled \subseteq Requests /\ mistaken \subseteq Requests
           /\ Batches(queue) \subseteq Requests /\ Batches(hand) \subseteq Requests
<1>1. Len(payload) \in Nat /\ payload \in Seq(Payloads)
  BY DEF TypeOK
<1>2. queue \in Seq(0..Len(payload)) /\ 0..Len(payload) \subseteq Nat
  BY <1>1 DEF TypeOK, Items
<1>3. queue \in Seq(Nat)
  BY <1>2, SeqMonotonic
<1>4. Len(queue) \in Nat /\ \A i \in 1..Len(queue) : queue[i] \in 0..Len(payload)
  BY <1>2
<1>5. hand = Nothing \/ \E i \in 0..Len(payload) : hand = <<i>>
  BY DEF TypeOK, Items
<1>6. Batches(queue) \subseteq Requests
  BY <1>1, <1>4 DEF Batches, Requests, Stop
<1>7. Batches(hand) \subseteq Requests
  <2>1. CASE hand = Nothing
    BY <2>1, BatchesEmpty DEF Nothing
  <2>2. ASSUME NEW i \in 0..Len(payload), hand = <<i>> PROVE Batches(hand) \subseteq Requests
    BY <1>1, <2>2, BatchesOne DEF Requests, Stop
  <2> QED BY <1>5, <2>1, <2>2
<1> QED BY <1>1, <1>3, <1>4, <1>5, <1>6, <1>7 DEF TypeOK

LEMMA InitInv == Init => Inv
<1> SUFFICES ASSUME Init PROVE Inv
  OBVIOUS
<1>0. Len(payload) = 0 /\ Len(queue) = 0 /\ Requests = {} /\ MaxQueue \in Nat
  BY IngestionAssumption DEF Init, Requests, IngestionAssumption
<1>1. TypeOK
  <2>1. queue \in Seq(Items) /\ payload \in Seq(Payloads)
    BY EmptySeq DEF Init
  <2>2. Len(queue) <= MaxQueue
    BY <1>0
  <2> QED BY <2>1, <2>2 DEF Init, TypeOK
<1>2. Conservation
  BY <1>0, BatchesEmpty DEF Init, Conservation, Pending, Nothing
<1>3. ServedFirst
  BY DEF Init, ServedFirst
<1>4. FirstInFirstOut /\ StoppedByStop /\ EndedByStop
  <2>1. hand # <<Stop>>
    BY DEF Init, Nothing
  <2>2. FirstInFirstOut
    BY <1>0 DEF Init, FirstInFirstOut, InOrder
  <2>3. StoppedByStop
    BY <1>0, <2>1 DEF Init, StoppedByStop
  <2>4. EndedByStop
    BY DEF Init, EndedByStop
  <2> QED BY <2>2, <2>3, <2>4
<1> QED BY <1>1, <1>2, <1>3, <1>4 DEF Inv

(* What appending a batch newer than all others does to a sequence. *)
LEMMA AppendNewest ==
    ASSUME NEW n \in Nat, NEW s \in Seq(Nat), InOrder(s),
           \A i \in 1..Len(s) : s[i] \in 0..n /\ s[i] # Stop
    PROVE  /\ Append(s, n + 1) \in Seq(0..n + 1)
           /\ Append(s, n + 1) \in Seq(Nat)
           /\ Len(Append(s, n + 1)) = Len(s) + 1
           /\ \A i \in 1..Len(s) + 1 :
                 /\ Append(s, n + 1)[i] # Stop
                 /\ i <= Len(s) => Append(s, n + 1)[i] = s[i]
                 /\ i = Len(s) + 1 => Append(s, n + 1)[i] = n + 1
           /\ InOrder(Append(s, n + 1))
           /\ Batches(Append(s, n + 1)) = Batches(s) \union {n + 1}
<1> DEFINE t == Append(s, n + 1)
<1>0. Len(s) \in Nat /\ n + 1 # Stop /\ n + 1 \in Nat
  BY DEF Stop
<1>1. /\ t \in Seq(Nat) /\ Len(t) = Len(s) + 1 /\ t[Len(s) + 1] = n + 1
      /\ \A i \in 1..Len(s) : t[i] = s[i]
  BY <1>0
<1>2. Batches(t) = Batches(s) \union {n + 1}
  BY <1>0, BatchesAppend
<1> HIDE DEF t
<1>3. \A i \in 1..Len(t) : t[i] \in 0..n + 1 /\ t[i] # Stop
  BY <1>0, <1>1
<1>4. t \in Seq(0..n + 1)
  BY <1>1, <1>3
<1>5. InOrder(t)
  <2> SUFFICES ASSUME NEW i \in 1..Len(t), NEW j \in 1..Len(t), i < j
               PROVE  t[i] # Stop /\ t[i] < t[j]
    BY DEF InOrder
  <2>1. i \in 1..Len(s) /\ t[i] = s[i] /\ t[i] # Stop
    BY <1>0, <1>1, <1>3
  <2>2. CASE j \in 1..Len(s)
    BY <1>0, <1>1, <2>1, <2>2 DEF InOrder
  <2>3. CASE j = Len(s) + 1
    BY <1>0, <1>1, <2>1, <2>3
  <2> QED BY <1>0, <1>1, <2>2, <2>3
<1> QED BY <1>0, <1>1, <1>2, <1>3, <1>4, <1>5 DEF t

LEMMA EnqueueInv ==
    ASSUME Inv, NEW p \in Payloads, Enqueue(p)
    PROVE  Inv'
<1> DEFINE n == Len(payload)
           b == n + 1
<1>0. TypeOK /\ Conservation /\ FirstInFirstOut /\ StoppedByStop /\ EndedByStop
      /\ ServedFirst
  BY DEF Inv
<1>1. /\ payload' = Append(payload, p)
      /\ stopper = "none" /\ stopper' = stopper /\ running' = running
      /\ hand' = hand /\ worker' = worker /\ mode' = mode /\ dropRaw' = dropRaw
      /\ handled' = handled /\ mistaken' = mistaken /\ recorded' = recorded /\ kept' = kept
      /\ softWarned' = UsageAtLeast(SoftPct)
  BY DEF Enqueue, config, sinks
<1>2. /\ n \in Nat /\ b \in Nat /\ Len(payload') = b /\ payload' \in Seq(Payloads)
      /\ Requests' = Requests \union {b} /\ b \notin Requests /\ b # Stop
  <2>1. n \in Nat /\ payload' \in Seq(Payloads) /\ Len(payload') = b
    BY <1>0, <1>1 DEF TypeOK
  <2>2. 1..n + 1 = 1..n \union {n + 1}
    BY <2>1
  <2> QED BY <2>1, <2>2 DEF Requests, Stop
<1>3. /\ queue \in Seq(Nat) /\ Len(queue) \in Nat /\ Len(queue) <= MaxQueue
      /\ \A i \in 1..Len(queue) : queue[i] \in 0..n /\ queue[i] # Stop
      /\ InOrder(queue)
      /\ Batches(queue) \subseteq Requests /\ Batches(hand) \subseteq Requests
      /\ rejected \subseteq Requests /\ evicted \subseteq Requests /\ handled \subseteq Requests
      /\ mistaken \subseteq Requests /\ Gone \subseteq Requests /\ Gone' = Gone
      /\ Books(Requests, rejected, evicted, Gone, Pending)
  BY <1>0, <1>1, Types, ConservationIs DEF FirstInFirstOut, StoppedByStop, Gone
<1>4. hand = Nothing \/ \E i \in 0..n : hand = <<i>> /\ i # Stop
  BY <1>0, <1>1, Types DEF StoppedByStop
<1>5. hand' \in {Nothing} \union {<<i>> : i \in Items'}
  BY <1>1, <1>2, <1>4 DEF Items
<1>6. \A c \in Requests : c \in Named' <=> c \in Named
  <2>1. \A c \in Requests : payload'[c] = payload[c]
    BY <1>0, <1>1, <1>2 DEF Requests, TypeOK
  <2> QED BY <1>2, <2>1 DEF Named
<1>7. softWarned' \in BOOLEAN
  BY <1>1 DEF UsageAtLeast
(* What is left to show, of the three outcomes. *)
<1>8. ASSUME queue' \in Seq(0..b), Len(queue') <= MaxQueue,
             InOrder(queue'), \A i \in 1..Len(queue') : queue'[i] # Stop,
             hand # Nothing => \A j \in 1..Len(queue') : hand[1] < queue'[j],
             rejected' \subseteq Requests', evicted' \subseteq Requests',
             Books(Requests', rejected', evicted', Gone', Pending'),
             Pending' \subseteq Pending \union {b}
      PROVE  Inv'
  <2>1. TypeOK'
    BY <1>0, <1>1, <1>2, <1>3, <1>5, <1>7, <1>8 DEF TypeOK, Items
  <2>2. ServedFirst'
    <3>1. \A h \in handled : h < b
      BY <1>2, <1>3 DEF Requests
    <3> QED BY <1>0, <1>1, <1>8, <3>1 DEF ServedFirst
  <2>3. FirstInFirstOut'
    BY <1>1, <1>4, <1>8 DEF FirstInFirstOut
  <2>4. StoppedByStop'
    BY <1>0, <1>1, <1>8 DEF StoppedByStop
  <2>5. EndedByStop'
    BY <1>0, <1>1, <1>8 DEF EndedByStop
  <2>6. handled' \intersect Named' = {} /\ mistaken' \subseteq Named'
    BY <1>0, <1>1, <1>3, <1>6 DEF Conservation
  <2>7. Conservation'
    BY <1>8, <2>6 DEF Conservation, Books, Gone
  <2> QED BY <1>8, <2>1, <2>2, <2>3, <2>4, <2>5, <2>7 DEF Inv
<1>9. CASE /\ Admit /\ queue' = Append(queue, b)
           /\ UNCHANGED <<rejected, evicted>>
  <2>1. /\ queue' \in Seq(0..b) /\ Len(queue') = Len(queue) + 1
        /\ \A i \in 1..Len(queue) : queue'[i] = queue[i]
        /\ queue'[Len(queue) + 1] = b
        /\ InOrder(queue') /\ \A i \in 1..Len(queue') : queue'[i] # Stop
        /\ Batches(queue') = Batches(queue) \union {b}
    BY <1>2, <1>3, <1>9, AppendNewest
  <2>2. Len(queue') <= MaxQueue
    BY <1>3, <1>9, <2>1, IngestionAssumption DEF Admit, IngestionAssumption
  <2>3. hand # Nothing => \A j \in 1..Len(queue') : hand[1] < queue'[j]
    BY <1>0, <1>2, <1>3, <1>4, <2>1 DEF FirstInFirstOut
  <2>4. Pending' = Pending \union {b}
    BY <1>1, <2>1 DEF Pending
  <2>5. b \notin Requests /\ rejected \subseteq Requests /\ evicted \subseteq Requests
    BY <1>2, <1>3
  <2>6. Books(Requests', rejected', evicted', Gone', Pending')
    BY <1>2, <1>3, <1>9, <2>4, <2>5 DEF Books
  <2> QED BY <1>2, <1>3, <1>8, <1>9, <2>1, <2>2, <2>3, <2>4, <2>6
<1>10. CASE /\ Evict /\ queue' = Append(Tail(queue), b)
            /\ evicted' = evicted \union {Head(queue)}
            /\ UNCHANGED rejected
  <2>1. queue # <<>>
    BY <1>3, <1>10, IngestionAssumption, EmptySeq DEF Evict, IngestionAssumption
  <2>2. /\ Tail(queue) \in Seq(Nat) /\ InOrder(Tail(queue))
        /\ Len(Tail(queue)) = Len(queue) - 1
        /\ Len(queue) \in Nat \ {0} /\ Head(queue) = queue[1]
        /\ \A i \in 1..Len(Tail(queue)) : Tail(queue)[i] = queue[i + 1]
        /\ Head(queue) # Stop /\ Head(queue) \notin Batches(Tail(queue))
        /\ Batches(queue) = {Head(queue)} \union Batches(Tail(queue))
    <3>1. queue[1] # Stop
      BY <1>3, <2>1, TailInOrder
    <3> QED BY <1>3, <2>1, <3>1, TailInOrder, BatchesHead
  <2>3. \A i \in 1..Len(Tail(queue)) : Tail(queue)[i] \in 0..n /\ Tail(queue)[i] # Stop
    BY <1>3, <2>2
  <2>4. /\ queue' \in Seq(0..b) /\ Len(queue') = Len(queue)
        /\ \A i \in 1..Len(Tail(queue)) : queue'[i] = Tail(queue)[i]
        /\ queue'[Len(queue)] = b
        /\ InOrder(queue') /\ \A i \in 1..Len(queue') : queue'[i] # Stop
        /\ Batches(queue') = Batches(Tail(queue)) \union {b}
    <3> DEFINE T == Tail(queue)
    <3>1. /\ T \in Seq(Nat) /\ InOrder(T) /\ Len(T) = Len(queue) - 1 /\ queue' = Append(T, b)
          /\ \A i \in 1..Len(T) : T[i] \in 0..n /\ T[i] # Stop
      BY <1>10, <2>2, <2>3
    <3> HIDE DEF T
    <3>2. /\ Append(T, b) \in Seq(0..b) /\ Len(Append(T, b)) = Len(T) + 1
          /\ \A i \in 1..Len(T) + 1 :
                 /\ Append(T, b)[i] # Stop
                 /\ i <= Len(T) => Append(T, b)[i] = T[i]
                 /\ i = Len(T) + 1 => Append(T, b)[i] = b
          /\ InOrder(Append(T, b))
          /\ Batches(Append(T, b)) = Batches(T) \union {b}
      BY <1>2, <3>1, AppendNewest
    <3>3. Len(T) \in Nat /\ Len(T) + 1 = Len(queue)
      BY <1>3, <3>1
    <3>4. \A i \in 1..Len(T) : queue'[i] = T[i]
      BY <3>1, <3>2, <3>3
    <3>5. queue'[Len(queue)] = b /\ \A i \in 1..Len(queue') : queue'[i] # Stop
      BY <3>1, <3>2, <3>3
    <3> QED BY <3>1, <3>2, <3>3, <3>4, <3>5 DEF T
  <2>5. hand # Nothing => \A j \in 1..Len(queue') : hand[1] < queue'[j]
    <3> SUFFICES ASSUME hand # Nothing, NEW j \in 1..Len(queue') PROVE hand[1] < queue'[j]
      OBVIOUS
    <3>1. hand[1] \in 0..n
      BY <1>4
    <3>2. CASE j = Len(queue)
      BY <1>2, <2>4, <3>1, <3>2
    <3>3. CASE j # Len(queue)
      <4>1. j \in 1..Len(Tail(queue)) /\ j + 1 \in 1..Len(queue)
        <5>1. /\ Len(queue') = Len(queue) /\ Len(Tail(queue)) = Len(queue) - 1
              /\ Len(queue) \in Nat
          BY <1>3, <2>2, <2>4
        <5> QED BY <3>3, <5>1
      <4>2. queue'[j] = queue[j + 1]
        BY <2>2, <2>4, <4>1
      <4> QED BY <1>0, <1>3, <4>1, <4>2 DEF FirstInFirstOut
    <3> QED BY <3>2, <3>3
  <2>6. Books(Requests', rejected', evicted', Gone', Pending') /\ Pending' \subseteq Pending \union {b}
    <3>1. hand # Nothing => hand[1] < Head(queue)
      BY <1>0, <1>3, <2>2 DEF FirstInFirstOut
    <3>2. Head(queue) \notin Batches(hand)
      <4>1. CASE hand = Nothing
        BY <4>1, BatchesEmpty DEF Nothing
      <4>2. ASSUME NEW i \in 0..n, hand = <<i>> PROVE Head(queue) \notin Batches(hand)
        <5>1. Batches(hand) \subseteq {i} /\ hand[1] = i /\ hand # Nothing
          BY <4>2, BatchesOne DEF Nothing
        <5>2. i < Head(queue) /\ Head(queue) \in 0..n
          BY <1>3, <2>2, <3>1, <5>1
        <5> QED BY <1>2, <5>1, <5>2
      <4> QED BY <1>4, <4>1, <4>2
    <3> DEFINE x == Head(queue)
               T == Batches(Tail(queue))
               H == Batches(hand)
    <3>3. /\ Pending = {x} \union T \union H
          /\ Pending' = T \union {b} \union H
          /\ x \notin T /\ x \notin H /\ b \notin T /\ b \notin H /\ b # x
          /\ x \in Requests /\ b \notin Requests /\ Requests' = Requests \union {b}
      BY <1>1, <1>2, <1>3, <2>2, <2>4, <3>2 DEF Pending
    <3>4. evicted' = evicted \union {x} /\ rejected' = rejected /\ Gone' = Gone
      BY <1>1, <1>3, <1>10
    <3> HIDE DEF x, T, H
    <3>5. Books(Requests', rejected', evicted', Gone', Pending')
      BY <1>3, <3>3, <3>4 DEF Books
    <3> QED BY <3>3, <3>5
  <2>7. evicted' \subseteq Requests'
    BY <1>2, <1>3, <1>10, <2>2
  <2> QED BY <1>2, <1>3, <1>8, <1>10, <2>4, <2>5, <2>6, <2>7
<1>11. CASE /\ ~Admit /\ ~Evict
            /\ rejected' = rejected \union {b}
            /\ UNCHANGED <<queue, evicted>>
  <2>1. queue' \in Seq(0..b)
    <3>1. queue \in Seq(0..n) /\ 0..n \subseteq 0..b
      BY <1>0, <1>2 DEF TypeOK, Items
    <3> QED BY <1>11, <3>1, SeqMonotonic
  <2>4. Pending' = Pending
    BY <1>1, <1>11 DEF Pending
  <2>2. Books(Requests', rejected', evicted', Gone', Pending')
    BY <1>2, <1>3, <1>11, <2>4 DEF Books
  <2>3. hand # Nothing => \A j \in 1..Len(queue') : hand[1] < queue'[j]
    BY <1>0, <1>3, <1>11 DEF FirstInFirstOut
  <2> QED BY <1>2, <1>3, <1>8, <1>11, <2>1, <2>2, <2>3, <2>4
<1> QED BY <1>9, <1>10, <1>11 DEF Enqueue

(* The other actions receive no request: what is left to show of them.     *)
LEMMA NoRequest ==
    ASSUME Inv, UNCHANGED <<mode, dropRaw, softWarned, payload, rejected, evicted>>,
           queue' \in Seq(0..Len(payload)), Len(queue') <= MaxQueue,
           hand' = Nothing \/ \E i \in 0..Len(payload) : hand' = <<i>>,
           worker' \in {"test", "loop", "returned", "raised"}, running' \in BOOLEAN,
           stopper' \in {"none", "waiting", "returned", "raised"},
           handled' \subseteq Requests, mistaken' \subseteq Requests,
           recorded' \subseteq Entry, kept' \subseteq Entry,
           Pending' \union Gone' = Pending \union Gone,
           Gone' \intersect Pending' = {},
           handled' \intersect Named = {}, mistaken' \subseteq Named,
           FirstInFirstOut', StoppedByStop', EndedByStop', ServedFirst'
    PROVE  Inv'
<1>1. Requests' = Requests /\ Named' = Named
  BY DEF Requests, Named
<1>2. TypeOK'
  <2>1. hand' \in {Nothing} \union {<<i>> : i \in Items'}
    BY DEF Items
  <2> QED BY <1>1, <2>1 DEF Inv, TypeOK, Items
<1>3. Conservation'
  <2>1. Books(Requests, rejected, evicted, Gone, Pending)
    BY ConservationIs DEF Inv
  <2>2. rejected' = rejected /\ evicted' = evicted
    OBVIOUS
  <2>3. Books(Requests', rejected', evicted', Gone', Pending')
    BY <1>1, <2>1, <2>2 DEF Books
  <2> QED BY <1>1, <2>3 DEF Conservation, Books, Gone
<1> QED BY <1>2, <1>3 DEF Inv

(* Nor do those that leave the sinks and what is pending as they were.     *)
LEMMA SinksUntouched ==
    ASSUME Inv, UNCHANGED <<handled, mistaken, recorded, kept>>, Pending' = Pending
    PROVE  /\ handled' \subseteq Requests /\ mistaken' \subseteq Requests
           /\ recorded' \subseteq Entry /\ kept' \subseteq Entry
           /\ Pending' \union Gone' = Pending \union Gone
           /\ Gone' \intersect Pending' = {}
           /\ handled' \intersect Named = {} /\ mistaken' \subseteq Named
           /\ ServedFirst'
BY ConservationIs DEF Inv, TypeOK, Gone, Books, ServedFirst

LEMMA CallStopInv == Inv /\ CallStop => Inv'
<1> SUFFICES ASSUME Inv, CallStop PROVE Inv'
  OBVIOUS
<1> DEFINE n == Len(payload)
<1>0. TypeOK /\ Conservation /\ FirstInFirstOut /\ StoppedByStop /\ EndedByStop
      /\ ServedFirst
  BY DEF Inv
<1>1. /\ stopper = "none" /\ stopper' = "waiting" /\ running' = FALSE
      /\ queue' = IF Len(queue) < MaxQueue THEN Append(queue, Stop) ELSE queue
      /\ UNCHANGED <<mode, dropRaw, hand, worker, softWarned, payload, rejected, evicted,
                     handled, mistaken, recorded, kept>>
  BY DEF CallStop, config, sinks
<1>2. /\ queue \in Seq(Nat) /\ Len(queue) \in Nat /\ Len(queue) <= MaxQueue
      /\ \A i \in 1..Len(queue) : queue[i] \in 0..n /\ queue[i] # Stop
      /\ InOrder(queue) /\ n \in Nat /\ queue \in Seq(0..n) /\ handled \subseteq Requests
  BY <1>0, <1>1, Types DEF FirstInFirstOut, StoppedByStop, TypeOK, Items
<1>3. hand = Nothing \/ \E i \in 0..n : hand = <<i>> /\ i # Stop
  BY <1>0, <1>1, Types DEF StoppedByStop
<1>4. /\ queue' \in Seq(0..n) /\ Len(queue') <= MaxQueue
      /\ InOrder(queue')
      /\ \A j \in 1..Len(queue') : queue'[j] = Stop \/ (j \in 1..Len(queue) /\ queue'[j] = queue[j])
      /\ Batches(queue') = Batches(queue)
  <2>1. CASE Len(queue) < MaxQueue
    <3> DEFINE t == Append(queue, Stop)
    <3>1. /\ t \in Seq(0..n) /\ Len(t) = Len(queue) + 1 /\ t[Len(queue) + 1] = Stop
          /\ \A i \in 1..Len(queue) : t[i] = queue[i]
      <4>1. Stop \in 0..n
        BY <1>2 DEF Stop
      <4> QED BY <1>2, <4>1, AppendProperties
    <3>2. Batches(t) = Batches(queue)
      BY <1>2, BatchesAppend DEF Stop
    <3> HIDE DEF t
    <3>3. Len(t) <= MaxQueue
      BY <1>2, <2>1, <3>1, IngestionAssumption DEF IngestionAssumption
    <3>4. \A j \in 1..Len(t) : t[j] = Stop \/ (j \in 1..Len(queue) /\ t[j] = queue[j])
      BY <1>2, <3>1
    <3>5. InOrder(t)
      <4> SUFFICES ASSUME NEW i \in 1..Len(t), NEW j \in 1..Len(t), i < j
                   PROVE  t[i] # Stop /\ (t[j] = Stop \/ t[i] < t[j])
        BY DEF InOrder
      <4>1. i \in 1..Len(queue) /\ t[i] = queue[i] /\ t[i] # Stop
        BY <1>2, <3>1
      <4>2. CASE j \in 1..Len(queue)
        BY <1>2, <3>1, <4>1, <4>2 DEF InOrder
      <4>3. CASE j = Len(queue) + 1
        BY <3>1, <4>1, <4>3
      <4>4. j \in 1..Len(queue) \/ j = Len(queue) + 1
        <5>1. Len(t) = Len(queue) + 1 /\ Len(queue) \in Nat
          BY <1>2, <3>1
        <5> QED BY <5>1
      <4> QED BY <4>2, <4>3, <4>4
    <3>6. queue' = t
      BY <1>1, <2>1 DEF t
    <3> QED BY <3>1, <3>2, <3>3, <3>4, <3>5, <3>6
  <2>2. CASE ~(Len(queue) < MaxQueue)
    BY <1>1, <1>2, <2>2
  <2> QED BY <2>1, <2>2
<1>5. FirstInFirstOut'
  <2>1. hand # Nothing => hand[1] # Stop
    BY <1>3
  <2>2. hand # Nothing => \A j \in 1..Len(queue) : hand[1] < queue[j]
    BY <1>0, <1>2 DEF FirstInFirstOut
  <2>3. hand' = hand
    BY <1>1
  <2> QED BY <1>4, <2>1, <2>2, <2>3 DEF FirstInFirstOut
<1>6. Pending' = Pending
  BY <1>1, <1>4 DEF Pending
<1>7. /\ hand' = Nothing \/ \E i \in 0..n : hand' = <<i>>
      /\ worker' \in {"test", "loop", "returned", "raised"}
  BY <1>0, <1>1, <1>3 DEF TypeOK
<1>8. StoppedByStop' /\ EndedByStop'
  BY <1>0, <1>1 DEF StoppedByStop, EndedByStop
<1> QED BY <1>1, <1>2, <1>4, <1>5, <1>6, <1>7, <1>8, NoRequest, SinksUntouched

(* The task comes to or from the test of its loop. *)
LEMMA WaitInv == Inv /\ (AwaitItem \/ Expire) => Inv'
<1> SUFFICES ASSUME Inv, AwaitItem \/ Expire PROVE Inv'
  OBVIOUS
<1>1. /\ hand = Nothing /\ worker' \in {"test", "loop"}
      /\ UNCHANGED <<mode, dropRaw, queue, hand, running, softWarned, stopper, payload,
                     rejected, evicted, handled, mistaken, recorded, kept>>
  BY DEF AwaitItem, Expire, config, sinks, Inv, EndedByStop
<1>2. TypeOK'
  BY <1>1 DEF Inv, TypeOK, Items, Requests
<1>3. Conservation' /\ ServedFirst'
  BY <1>1 DEF Inv, Conservation, Requests, Named, Pending, ServedFirst
<1>4. FirstInFirstOut' /\ StoppedByStop'
  BY <1>1 DEF Inv, FirstInFirstOut, StoppedByStop
<1>5. EndedByStop'
  BY <1>1 DEF EndedByStop
<1> QED BY <1>2, <1>3, <1>4, <1>5 DEF Inv

LEMMA TakeInv == Inv /\ Take => Inv'
<1> SUFFICES ASSUME Inv, Take PROVE Inv'
  OBVIOUS
<1> DEFINE n == Len(payload)
<1>0. TypeOK /\ Conservation /\ FirstInFirstOut /\ StoppedByStop /\ EndedByStop
      /\ ServedFirst
  BY DEF Inv
<1>1. /\ worker = "loop" /\ hand = Nothing /\ queue # <<>>
      /\ hand' = <<Head(queue)>> /\ queue' = Tail(queue)
      /\ UNCHANGED <<mode, dropRaw, worker, running, softWarned, stopper, payload,
                     rejected, evicted, handled, mistaken, recorded, kept>>
  BY DEF Take, Took, config, sinks
<1>2. /\ queue \in Seq(Nat) /\ Len(queue) \in Nat /\ Len(queue) <= MaxQueue
      /\ \A i \in 1..Len(queue) : queue[i] \in 0..n
      /\ InOrder(queue) /\ n \in Nat /\ queue \in Seq(0..n) /\ handled \subseteq Requests
  BY <1>0, Types DEF FirstInFirstOut, TypeOK, Items
<1>3. /\ InOrder(queue') /\ Len(queue') = Len(queue) - 1
      /\ Head(queue) = queue[1] /\ Head(queue) \in 0..n
      /\ \A i \in 1..Len(queue') : queue'[i] = queue[i + 1] /\ i + 1 \in 1..Len(queue)
      /\ Head(queue) = Stop => queue' = <<>>
      /\ \A i \in 1..Len(queue') : queue'[i] = Stop \/ Head(queue) < queue'[i]
      /\ Batches(queue) = ({Head(queue)} \ {Stop}) \union Batches(queue')
  <2>1. Len(queue) \in Nat \ {0} /\ Head(queue) = queue[1] /\ Len(queue') = Len(queue) - 1
    BY <1>1, <1>2, TailInOrder
  <2>2. 1 \in 1..Len(queue) /\ \A i \in 1..Len(queue') : i + 1 \in 1..Len(queue)
    BY <2>1
  <2> QED BY <1>1, <1>2, <2>1, <2>2, TailInOrder, BatchesHead
<1>4. queue' \in Seq(0..n) /\ Len(queue') <= MaxQueue
  BY <1>1, <1>2, <1>3, HeadTailProperties, IngestionAssumption DEF IngestionAssumption
<1>5. hand'[1] = Head(queue) /\ hand' # Nothing
  BY <1>1 DEF Nothing
<1>6. FirstInFirstOut'
  <2> SUFFICES ASSUME NEW j \in 1..Len(queue')
               PROVE  hand'[1] # Stop /\ (queue'[j] = Stop \/ hand'[1] < queue'[j])
    BY <1>3 DEF FirstInFirstOut
  <2>1. Len(queue') # 0
    <3>1. Len(queue') \in Int
      BY <1>2, <1>3
    <3> QED BY <3>1
  <2>2. queue' # <<>>
    BY <2>1
  <2> QED BY <1>3, <1>5, <2>2
<1>7. Batches(hand) = {} /\ Batches(hand') = {Head(queue)} \ {Stop}
  BY <1>1, BatchesEmpty, BatchesOne DEF Nothing
<1>8. Pending' = Pending
  <2>1. Pending = Batches(queue) \union Batches(hand) /\ Pending' = Batches(queue') \union Batches(hand')
    BY DEF Pending
  <2> QED BY <1>1, <1>3, <1>7, <2>1
<1>9. StoppedByStop'
  <2>1. running' <=> stopper' = "none"
    BY <1>0, <1>1 DEF StoppedByStop
  <2>2. ASSUME stopper' = "none"
        PROVE  Stop \notin {queue'[i] : i \in 1..Len(queue')} /\ hand' # <<Stop>>
    <3>1. \A i \in 1..Len(queue) : queue[i] # Stop
      BY <1>0, <1>1, <2>2 DEF StoppedByStop
    <3>2. hand' # <<Stop>>
      <4>1. Len(queue) \in Nat \ {0}
        BY <1>1, <1>2, EmptySeq
      <4>2. Head(queue) # Stop
        BY <1>3, <3>1, <4>1
      <4> QED BY <1>1, <4>2
    <3> QED BY <1>3, <3>1, <3>2
  <2> QED BY <2>1, <2>2 DEF StoppedByStop
<1>10. EndedByStop'
  BY <1>0, <1>1 DEF EndedByStop
<1>11. /\ hand' = Nothing \/ \E i \in 0..n : hand' = <<i>>
       /\ worker' \in {"test", "loop", "returned", "raised"} /\ running' \in BOOLEAN
       /\ stopper' \in {"none", "waiting", "returned", "raised"}
  BY <1>0, <1>1, <1>3 DEF TypeOK
<1> QED BY <1>1, <1>2, <1>4, <1>6, <1>8, <1>9, <1>10, <1>11, NoRequest, SinksUntouched

LEMMA HandleBatchInv == Inv /\ HandleBatch => Inv'
<1> SUFFICES ASSUME Inv, HandleBatch PROVE Inv'
  OBVIOUS
<1> DEFINE n == Len(payload)
<1>0. TypeOK /\ Conservation /\ FirstInFirstOut /\ StoppedByStop /\ EndedByStop
      /\ ServedFirst
  BY DEF Inv
<1>1. /\ hand # Nothing /\ ~Stops(hand[1]) /\ running
      /\ Consume(Batches(hand)) /\ hand' = Nothing
      /\ UNCHANGED <<mode, dropRaw, queue, worker, running, softWarned, stopper, payload,
                     rejected, evicted>>
  BY DEF HandleBatch, LastTurn, config
<1>2. /\ queue \in Seq(0..n) /\ Len(queue) <= MaxQueue /\ InOrder(queue)
      /\ Batches(hand) \subseteq Requests
      /\ queue \in Seq(Nat) /\ Len(queue) \in Nat /\ n \in Nat
      /\ \A i \in 1..Len(queue) : queue[i] \in 0..n
  BY <1>0, Types DEF FirstInFirstOut, TypeOK, Items
<1>3. PICK h \in 0..n : hand = <<h>>
  BY <1>0, <1>1, Types
<1>4. /\ h # Stop /\ Batches(hand) = {h} /\ Batches(hand') = {} /\ hand[1] = h
  BY <1>1, <1>3, BatchesOne, BatchesEmpty DEF Stops, Nothing
<1>5. \A b \in Batches(queue) : h < b /\ b # h
  <2> SUFFICES ASSUME NEW j \in 1..Len(queue), queue[j] # Stop PROVE h < queue[j] /\ queue[j] # h
    BY DEF Batches
  <2>1. queue[j] = Stop \/ h < queue[j]
    BY <1>0, <1>1, <1>4 DEF FirstInFirstOut
  <2> QED BY <1>2, <1>3, <2>1
<1>6. Pending = Batches(queue) \union {h} /\ Pending' = Batches(queue)
  BY <1>1, <1>4 DEF Pending
<1>7. /\ Gone' = Gone \union {h}
      /\ handled' \subseteq Requests /\ mistaken' \subseteq Requests
      /\ mistaken \subseteq mistaken' /\ handled' \subseteq handled \union {h}
      /\ handled' \intersect Named = {} /\ mistaken' \subseteq Named
      /\ recorded' \subseteq Entry /\ kept' \subseteq recorded'
      /\ \A e \in recorded' : e.batch \in handled'
  BY <1>0, <1>1, <1>2, <1>4, ConsumeKeeps, ConservationIs
<1>8. Pending' \union Gone' = Pending \union Gone
  BY <1>6, <1>7
<1>9. Gone' \intersect Pending' = {}
  BY <1>0, <1>5, <1>6, <1>7, ConservationIs DEF Books
<1>10. FirstInFirstOut' /\ StoppedByStop' /\ EndedByStop'
  <2>1. hand' # <<Stop>>
    BY <1>1 DEF Nothing
  <2>2. FirstInFirstOut'
    BY <1>0, <1>1 DEF FirstInFirstOut
  <2>3. StoppedByStop'
    BY <1>0, <1>1, <2>1 DEF StoppedByStop
  <2>4. EndedByStop'
    BY <1>0, <1>1 DEF EndedByStop
  <2> QED BY <2>2, <2>3, <2>4
<1>11. ServedFirst'
  BY <1>0, <1>5, <1>6, <1>7 DEF ServedFirst
<1>12. /\ worker' \in {"test", "loop", "returned", "raised"} /\ running' \in BOOLEAN
       /\ stopper' \in {"none", "waiting", "returned", "raised"}
       /\ kept' \subseteq Entry
  BY <1>0, <1>1, <1>7 DEF TypeOK
<1> QED BY <1>1, <1>2, <1>7, <1>8, <1>9, <1>10, <1>11, <1>12, NoRequest

LEMMA HandleLastInv == Inv /\ HandleLast => Inv'
<1> SUFFICES ASSUME Inv, HandleLast PROVE Inv'
  OBVIOUS
<1> DEFINE n == Len(payload)
<1>0. TypeOK /\ Conservation /\ FirstInFirstOut /\ StoppedByStop /\ EndedByStop
      /\ ServedFirst
  BY DEF Inv
<1>1. /\ hand # Nothing \/ worker = "test"
      /\ (hand # Nothing /\ Stops(hand[1])) \/ ~running
      /\ hand' = Nothing
      /\ UNCHANGED <<mode, dropRaw, running, softWarned, stopper, payload, rejected, evicted>>
  BY DEF HandleLast, LastTurn, config
<1>2. /\ queue \in Seq(0..n) /\ Len(queue) <= MaxQueue /\ InOrder(queue)
      /\ Batches(hand) \subseteq Requests
      /\ Batches(queue) \subseteq Requests
      /\ queue \in Seq(Nat) /\ Len(queue) \in Nat /\ n \in Nat
      /\ \A i \in 1..Len(queue) : queue[i] \in 0..n
  BY <1>0, Types DEF FirstInFirstOut, TypeOK, Items
<1>3. PICK k \in 0..Len(queue) :
          /\ Drains(k)
          /\ Consume(Batches(hand) \union Batches(SubSeq(queue, 1, k)))
          /\ queue' = SubSeq(queue, k + 1, Len(queue))
          /\ worker' = IF k > 0 /\ BreaksDrain(queue[k]) THEN "raised" ELSE "returned"
  BY DEF HandleLast
<1> DEFINE done == Batches(SubSeq(queue, 1, k))
<1>4. /\ InOrder(queue') /\ Len(queue') = Len(queue) - k /\ queue' \in Seq(Nat)
      /\ \A i \in 1..Len(queue') : queue'[i] = queue[k + i] /\ k + i \in 1..Len(queue)
      /\ Batches(queue) = done \union Batches(queue')
      /\ done \intersect Batches(queue') = {}
  <2>1. \A i \in 1..Len(queue) - k : k + i \in 1..Len(queue)
    BY <1>2
  <2> QED BY <1>2, <1>3, <2>1, CutInOrder, BatchesCut
<1>5. queue' \in Seq(0..n) /\ Len(queue') <= MaxQueue
  <2>1. \A i \in 1..Len(queue') : queue'[i] \in 0..n
    BY <1>2, <1>4
  <2>2. queue' \in Seq(0..n)
    <3>1. queue' \in [1..Len(queue') -> 0..n] /\ Len(queue') \in Nat
      BY <1>4, <2>1, LenProperties
    <3> QED BY <3>1, SeqDef
  <2>3. k \in Nat /\ MaxQueue \in Nat
    BY <1>2, IngestionAssumption DEF IngestionAssumption
  <2>4. Len(queue') <= MaxQueue
    BY <1>2, <1>4, <2>3
  <2> QED BY <2>2, <2>4
<1> HIDE DEF done
<1>6. Batches(hand') = {} /\ done \subseteq Requests
  BY <1>1, <1>2, <1>4, BatchesEmpty DEF Nothing
<1> DEFINE S == Batches(hand) \union done
<1>7. S \in SUBSET Requests /\ Consume(S) /\ payload' = payload
  BY <1>1, <1>2, <1>3, <1>6 DEF done
<1>8. \A b \in S, c \in Batches(queue') : b < c /\ b # c
  <2> SUFFICES ASSUME NEW j \in 1..Len(queue'), queue'[j] # Stop, NEW b \in S
               PROVE  b < queue'[j] /\ b # queue'[j]
    BY DEF Batches
  <2>1. queue'[j] = queue[k + j] /\ k + j \in 1..Len(queue) /\ queue'[j] \in 0..n
    BY <1>2, <1>4
  <2>2. CASE b \in done
    <3>1. PICK i \in 1..k : b = queue[i] /\ i \in 1..Len(queue)
      <4>1. Len(SubSeq(queue, 1, k)) = k /\ \A i \in 1..k : SubSeq(queue, 1, k)[i] = queue[i]
        BY <1>2
      <4>2. \A i \in 1..k : i \in 1..Len(queue)
        BY <1>2
      <4> QED BY <2>2, <4>1, <4>2 DEF done, Batches
    <3>2. i < k + j
      BY <1>2, <3>1
    <3>3. queue[k + j] = Stop \/ queue[i] < queue[k + j]
      BY <1>2, <2>1, <3>1, <3>2 DEF InOrder
    <3> QED BY <1>2, <2>1, <3>1, <3>3
  <2>3. CASE b \in Batches(hand)
    <3>1. hand # Nothing
      BY <2>3, BatchesEmpty DEF Nothing
    <3>2. PICK h \in 0..n : hand = <<h>>
      BY <1>0, <3>1, Types
    <3>3. b = h /\ hand[1] = h
      BY <2>3, <3>2, BatchesOne
    <3>4. queue[k + j] = Stop \/ h < queue[k + j]
      BY <1>0, <2>1, <3>1, <3>3 DEF FirstInFirstOut
    <3> QED BY <1>2, <2>1, <3>2, <3>3, <3>4
  <2> QED BY <2>2, <2>3
<1>9. /\ Gone' = Gone \union S
      /\ handled' \subseteq Requests /\ mistaken' \subseteq Requests
      /\ mistaken \subseteq mistaken' /\ handled' \subseteq handled \union S
      /\ handled' \intersect Named = {} /\ mistaken' \subseteq Named
      /\ S \intersect Named \subseteq mistaken'
      /\ recorded' \subseteq Entry /\ kept' \subseteq recorded'
      /\ \A e \in recorded' : e.batch \in handled'
  BY <1>0, <1>7, ConsumeKeeps, ConservationIs
<1>10. Pending = Batches(queue') \union S /\ Pending' = Batches(queue')
  BY <1>4, <1>6 DEF Pending
<1> HIDE DEF S
<1>11. Pending' \union Gone' = Pending \union Gone
  BY <1>9, <1>10
<1>12. Gone' \intersect Pending' = {}
  BY <1>0, <1>8, <1>9, <1>10, ConservationIs DEF Books
<1>13. ServedFirst'
  BY <1>0, <1>8, <1>9, <1>10 DEF ServedFirst
<1>14. stopper # "none" \/ mistaken' # {}
  <2>1. CASE ~running
    BY <1>0, <2>1 DEF StoppedByStop
  <2>2. CASE hand # Nothing /\ Stops(hand[1])
    <3>1. PICK h \in 0..n : hand = <<h>>
      BY <1>0, <2>2, Types
    <3>2. hand[1] = h /\ Batches(hand) = {h} \ {Stop}
      BY <3>1, BatchesOne
    <3>3. CASE h = Stop
      BY <1>0, <3>1, <3>3 DEF StoppedByStop
    <3>4. CASE h # Stop
      BY <1>9, <2>2, <3>2, <3>4 DEF Stops, S
    <3> QED BY <3>3, <3>4
  <2> QED BY <1>1, <2>1, <2>2
<1>15. FirstInFirstOut' /\ StoppedByStop'
  <2>1. hand' # <<Stop>>
    BY <1>1 DEF Nothing
  <2>2. ASSUME stopper = "none" PROVE Stop \notin {queue'[i] : i \in 1..Len(queue')}
    BY <1>0, <1>4, <2>2 DEF StoppedByStop
  <2> QED BY <1>0, <1>1, <1>4, <2>1, <2>2 DEF FirstInFirstOut, StoppedByStop
<1>16. EndedByStop'
  <2>1. worker' = "returned" => k = Len(queue)
    BY <1>3 DEF Drains
  <2>2. k = Len(queue) => queue' = <<>>
    <3>1. ASSUME k = Len(queue) PROVE Len(queue') = 0
      BY <1>2, <1>4, <3>1
    <3> QED BY <1>4, <3>1, EmptySeq
  <2> QED BY <1>1, <1>14, <2>1, <2>2 DEF EndedByStop
<1>17. /\ worker' \in {"test", "loop", "returned", "raised"} /\ running' \in BOOLEAN
       /\ stopper' \in {"none", "waiting", "returned", "raised"}
       /\ kept' \subseteq Entry
  BY <1>0, <1>1, <1>3, <1>9 DEF TypeOK
<1> QED BY <1>1, <1>5, <1>9, <1>11, <1>12, <1>13, <1>15, <1>16, <1>17, NoRequest

LEMMA JoinInv == Inv /\ Join => Inv'
<1> SUFFICES ASSUME Inv, Join PROVE Inv'
  OBVIOUS
<1>1. /\ stopper = "waiting" /\ stopper' = worker /\ worker \in {"returned", "raised"}
      /\ UNCHANGED <<mode, dropRaw, queue, hand, worker, running, softWarned, payload,
                     rejected, evicted, handled, mistaken, recorded, kept>>
  BY DEF Join, Ended, config, sinks
<1>2. TypeOK'
  BY <1>1 DEF Inv, TypeOK, Items, Requests
<1>3. Conservation' /\ ServedFirst'
  BY <1>1 DEF Inv, Conservation, Requests, Named, Pending, ServedFirst
<1>4. FirstInFirstOut' /\ EndedByStop' /\ StoppedByStop'
  BY <1>1 DEF Inv, FirstInFirstOut, EndedByStop, StoppedByStop
<1> QED BY <1>2, <1>3, <1>4 DEF Inv

(* Every step keeps the invariant; so does a step that changes nothing.    *)
LEMMA NextInv == Inv /\ [Next]_vars => Inv'
<1> SUFFICES ASSUME Inv, [Next]_vars PROVE Inv'
  OBVIOUS
<1>1. ASSUME NEW p \in Payloads, Enqueue(p) PROVE Inv'
  BY <1>1, EnqueueInv
<1>2. CASE CallStop \/ AwaitItem \/ Expire \/ Take \/ HandleBatch \/ HandleLast \/ Join
  BY <1>2, CallStopInv, WaitInv, TakeInv, HandleBatchInv, HandleLastInv, JoinInv
<1>3. CASE UNCHANGED vars
  <2>1. UNCHANGED <<mode, dropRaw, queue, hand, worker, running, softWarned, stopper, payload,
                    rejected, evicted, handled, mistaken, recorded, kept>>
    BY <1>3 DEF vars, config, sinks
  <2>2. TypeOK'
    BY <2>1 DEF Inv, TypeOK, Items, Requests
  <2>3. Conservation' /\ ServedFirst'
    BY <2>1 DEF Inv, Conservation, Requests, Named, Pending, ServedFirst
  <2>4. FirstInFirstOut' /\ StoppedByStop' /\ EndedByStop'
    BY <2>1 DEF Inv, FirstInFirstOut, StoppedByStop, EndedByStop
  <2> QED BY <2>2, <2>3, <2>4 DEF Inv
<1> QED BY <1>1, <1>2, <1>3 DEF Next

(* The invariant holds in every reachable state. *)
THEOREM Invariance == Spec => []Inv
BY InitInv, NextInv, PTL DEF Spec

(* The variables have their types; the queue never exceeds its size.       *)
THEOREM TypeCorrect == Spec => []TypeOK
<1>1. Inv => TypeOK
  BY DEF Inv
<1> QED BY <1>1, Invariance, PTL

(* No batch is lost silently but one that bears the sentinel's name, none  *)
(* is handled twice, or handled after it was refused or dropped, however   *)
(* requests, the consumer and stop() interleave.                           *)
THEOREM ConservationCorrect == Spec => []Conservation
<1>1. Inv => Conservation
  BY DEF Inv
<1> QED BY <1>1, Invariance, PTL

(* A task that returns and took no batch for the sentinel was stopped and  *)
(* has drained the queue, also when the sentinel did not fit on it.        *)
THEOREM DrainCorrect == Spec => []CleanStopDrains
<1>1. Inv => CleanStopDrains
  <2> SUFFICES ASSUME Inv, worker = "returned", mistaken = {} PROVE Pending = {} /\ ~running
    BY DEF CleanStopDrains
  <2>1. queue = <<>> /\ hand = <<>> /\ stopper # "none"
    BY DEF Inv, EndedByStop, Nothing
  <2> QED BY <2>1, BatchesEmpty DEF Inv, StoppedByStop, Pending
<1> QED BY <1>1, Invariance, PTL

(* What consuming some pending batches adds is newer than what was there.  *)
LEMMA NewerThanServed ==
    ASSUME Inv, NEW S \in SUBSET Requests, S \subseteq Pending, Consume(S), payload' = payload
    PROVE  /\ \A e \in recorded' \ recorded : \A f \in recorded : f.batch < e.batch
           /\ \A e \in kept' \ kept : \A f \in kept : f.batch < e.batch
<1>1. /\ \A e \in recorded' : e \in recorded \/ e.batch \in S
      /\ \A e \in kept' : e \in kept \/ e.batch \in S
  BY ConsumeKeeps, ConservationIs DEF Inv
<1>2. /\ \A f \in recorded : f.batch \in handled
      /\ \A f \in kept : f.batch \in handled
      /\ \A h \in handled : \A b \in S : h < b
  BY DEF Inv, ServedFirst
<1> QED BY <1>1, <1>2

(* The metrics, the store and the exporter receive the batches in the      *)
(* order of their acceptance, and each once.                               *)
THEOREM ArrivalCorrect == Spec => ArrivalOrder
<1> DEFINE Later == /\ \A e \in recorded' \ recorded : \A f \in recorded : f.batch < e.batch
                    /\ \A e \in kept' \ kept : \A f \in kept : f.batch < e.batch
<1>1. Inv /\ [Next]_vars => [Later]_vars
  <2> SUFFICES ASSUME Inv, Next PROVE Later
    OBVIOUS
  <2>1. CASE HandleBatch
    <3>1. Batches(hand) \in SUBSET Requests /\ Batches(hand) \subseteq Pending
      BY Types DEF Inv, Pending
    <3> QED BY <2>1, <3>1, NewerThanServed DEF HandleBatch
  <2>2. CASE HandleLast
    <3>1. PICK k \in 0..Len(queue) : Consume(Batches(hand) \union Batches(SubSeq(queue, 1, k)))
      BY <2>2 DEF HandleLast
    <3>2. queue \in Seq(Nat) /\ Batches(hand) \subseteq Requests /\ Batches(queue) \subseteq Requests
      BY Types DEF Inv
    <3>3. Batches(SubSeq(queue, 1, k)) \subseteq Batches(queue)
      BY <3>2, BatchesCut
    <3> DEFINE S == Batches(hand) \union Batches(SubSeq(queue, 1, k))
    <3>4. S \in SUBSET Requests /\ S \subseteq Pending /\ Consume(S) /\ payload' = payload
      BY <2>2, <3>1, <3>2, <3>3 DEF Pending, HandleLast
    <3> HIDE DEF S
    <3> QED BY <3>4, NewerThanServed
  <2>3. CASE (\E p \in Payloads : Enqueue(p)) \/ CallStop \/ AwaitItem \/ Expire \/ Take \/ Join
    <3>1. recorded' = recorded /\ kept' = kept
      BY <2>3 DEF Enqueue, CallStop, AwaitItem, Expire, Take, Join, sinks
    <3> QED BY <3>1
  <2> QED BY <2>1, <2>2, <2>3 DEF Next
<1> QED BY <1>1, Invariance, PTL DEF Spec, ArrivalOrder

-----------------------------------------------------------------------------
(* Ingestion implements BoundedQueue.  What Requested keeps of a sequence  *)
(* of queue items: all but a sentinel at its end.                          *)

LEMMA RequestedAll ==
    ASSUME NEW s \in Seq(Nat), s = <<>> \/ s[Len(s)] # Stop
    PROVE  Requested(s) = s
BY DEF Requested

LEMMA RequestedStopped ==
    ASSUME NEW s \in Seq(Nat), s # <<>>, s[Len(s)] = Stop
    PROVE  /\ Requested(s) = SubSeq(s, 1, Len(s) - 1)
           /\ Requested(s) \in Seq(Nat)
           /\ Len(Requested(s)) = Len(s) - 1
           /\ \A i \in 1..Len(s) - 1 : Requested(s)[i] = s[i]
<1>1. Len(s) \in Nat \ {0}
  BY EmptySeq
<1>2. Requested(s) = SubSeq(s, 1, Len(s) - 1)
  BY DEF Requested
<1>3. \A i \in 1..Len(s) - 1 : s[i] \in Nat
  BY <1>1
<1>4. /\ SubSeq(s, 1, Len(s) - 1) \in Seq(Nat)
      /\ Len(SubSeq(s, 1, Len(s) - 1)) = Len(s) - 1
      /\ \A i \in 1..Len(s) - 1 : SubSeq(s, 1, Len(s) - 1)[i] = s[i]
  <2> DEFINE m == Len(s) - 1
  <2>0. m \in Nat
    BY <1>1
  <2>2. \A i \in 1..m : s[i] \in Nat
    BY <1>3
  <2> HIDE DEF m
  <2>1. (~(1 <= m) => m = 0) /\ (m - 1) + 1 = m /\ \A i \in 1..m : (1 + i) - 1 = i
    BY <2>0
  <2>3. /\ SubSeq(s, 1, m) \in Seq(Nat)
        /\ Len(SubSeq(s, 1, m)) = IF 1 <= m THEN (m - 1) + 1 ELSE 0
        /\ \A i \in 1..(m - 1) + 1 : SubSeq(s, 1, m)[i] = s[(1 + i) - 1]
    BY <2>0, <2>2, SubSeqProperties
  <2>4. /\ SubSeq(s, 1, m) \in Seq(Nat) /\ Len(SubSeq(s, 1, m)) = m
        /\ \A i \in 1..m : SubSeq(s, 1, m)[i] = s[i]
    BY <2>0, <2>1, <2>3
  <2> QED BY <2>4 DEF m
<1> QED BY <1>2, <1>4

(* Appending the sentinel adds nothing, appending a batch adds it.         *)
LEMMA RequestedAppend ==
    ASSUME NEW s \in Seq(Nat), \A i \in 1..Len(s) : s[i] # Stop, NEW b \in Nat
    PROVE  /\ Requested(s) = s
           /\ Requested(Append(s, b)) = IF b = Stop THEN s ELSE Append(s, b)
<1> DEFINE t == Append(s, b)
<1>1. Len(s) \in Nat /\ (s # <<>> => Len(s) \in 1..Len(s))
  BY EmptySeq
<1>2. Requested(s) = s
  BY <1>1, RequestedAll
<1>3. t \in Seq(Nat) /\ Len(t) = Len(s) + 1 /\ t[Len(t)] = b /\ t # <<>>
      /\ \A i \in 1..Len(s) : t[i] = s[i]
  BY <1>1
<1> HIDE DEF t
<1>4. ASSUME b = Stop PROVE Requested(t) = s
  <2>1. /\ Requested(t) \in Seq(Nat) /\ Len(Requested(t)) = Len(t) - 1
        /\ \A i \in 1..Len(t) - 1 : Requested(t)[i] = t[i]
    BY <1>3, <1>4, RequestedStopped
  <2>2. Len(t) - 1 = Len(s)
    BY <1>1, <1>3
  <2> QED BY <1>3, <2>1, <2>2, SeqEqual
<1>5. ASSUME b # Stop PROVE Requested(t) = t
  BY <1>3, <1>5, RequestedAll
<1> QED BY <1>2, <1>4, <1>5 DEF t

(* Taking a batch off takes it off what is requested.                      *)
LEMMA RequestedTail ==
    ASSUME NEW s \in Seq(Nat), s # <<>>, Head(s) # Stop
    PROVE  /\ Requested(s) # <<>>
           /\ Head(Requested(s)) = Head(s)
           /\ Requested(Tail(s)) = Tail(Requested(s))
<1> DEFINE n == Len(s)
<1>1. /\ n \in Nat \ {0} /\ Head(s) = s[1] /\ Tail(s) \in Seq(Nat)
      /\ Len(Tail(s)) = n - 1 /\ \A i \in 1..n - 1 : Tail(s)[i] = s[i + 1]
  BY EmptySeq, HeadTailProperties
<1>2. CASE s[n] # Stop
  <2>1. Requested(s) = s
    BY <1>2, RequestedAll
  <2>2. Tail(s) = <<>> \/ Tail(s)[Len(Tail(s))] # Stop
    <3>1. ASSUME Tail(s) # <<>> PROVE Tail(s)[Len(Tail(s))] = s[n]
      <4>1. n - 1 \in 1..n - 1 /\ (n - 1) + 1 = n
        BY <1>1, <3>1, EmptySeq
      <4> QED BY <1>1, <4>1
    <3> QED BY <1>2, <3>1
  <2>3. Requested(Tail(s)) = Tail(s)
    BY <1>1, <2>2, RequestedAll
  <2> QED BY <2>1, <2>3
<1>3. CASE s[n] = Stop
  <2> DEFINE r == Requested(s)
  <2>1. n # 1
    BY <1>1, <1>3
  <2>2. r \in Seq(Nat) /\ Len(r) = n - 1 /\ \A i \in 1..n - 1 : r[i] = s[i]
    BY <1>3, RequestedStopped
  <2> HIDE DEF r
  <2>3. r # <<>> /\ Head(r) = Head(s)
    BY <1>1, <2>1, <2>2, EmptySeq
  <2>4. Tail(r) \in Seq(Nat) /\ Len(Tail(r)) = n - 2 /\ \A i \in 1..n - 2 : Tail(r)[i] = s[i + 1]
    <3>1. \A i \in 1..n - 2 : i + 1 \in 1..n - 1
      BY <1>1
    <3>2. Tail(r) \in Seq(Nat) /\ Len(Tail(r)) = (n - 1) - 1
          /\ \A i \in 1..Len(Tail(r)) : Tail(r)[i] = r[i + 1]
      BY <2>2, <2>3, HeadTailProperties
    <3>3. (n - 1) - 1 = n - 2
      BY <1>1
    <3> QED BY <2>2, <3>1, <3>2, <3>3
  <2>5. Tail(s) # <<>> /\ Tail(s)[Len(Tail(s))] = Stop
    <3>1. n - 1 \in 1..n - 1 /\ (n - 1) + 1 = n
      BY <1>1, <2>1
    <3>2. Tail(s)[n - 1] = s[n] /\ Len(Tail(s)) # 0
      BY <1>1, <2>1, <3>1
    <3> QED BY <1>1, <1>3, <3>2, EmptySeq
  <2>6. /\ Requested(Tail(s)) \in Seq(Nat)
        /\ Len(Requested(Tail(s))) = n - 2
        /\ \A i \in 1..n - 2 : Requested(Tail(s))[i] = s[i + 1]
    <3>1. Len(Tail(s)) - 1 = n - 2 /\ \A i \in 1..n - 2 : i \in 1..n - 1
      BY <1>1
    <3> QED BY <1>1, <2>5, <3>1, RequestedStopped
  <2>7. Requested(Tail(s)) = Tail(r)
    BY <2>4, <2>6, SeqEqual
  <2> QED BY <2>3, <2>7 DEF r
<1> QED BY <1>2, <1>3

(* Draining the first k items serves the first m of what is requested.     *)
LEMMA RequestedCut ==
    ASSUME NEW s \in Seq(Nat), InOrder(s), NEW k \in 0..Len(s)
    PROVE  \E m \in 0..Len(Requested(s)) :
              /\ Batches(SubSeq(s, 1, k)) = {Requested(s)[i] : i \in 1..m}
              /\ Requested(SubSeq(s, k + 1, Len(s)))
                    = SubSeq(Requested(s), m + 1, Len(Requested(s)))
<1> DEFINE n == Len(s)
           r == Requested(s)
           u == SubSeq(s, 1, k)
           v == SubSeq(s, k + 1, n)
<1>1. n \in Nat /\ k \in Nat /\ k <= n /\ \A i \in 1..n : s[i] \in Nat
  OBVIOUS
<1>2. /\ v \in Seq(Nat) /\ Len(v) = n - k /\ \A i \in 1..n - k : v[i] = s[k + i]
  BY CutInOrder
<1>3. Len(u) = k /\ \A i \in 1..k : u[i] = s[i]
  OBVIOUS
<1>4. Batches(u) = {s[i] : i \in 1..k} \ {Stop}
  BY <1>3 DEF Batches
<1>5. \A i \in 1..n : i < n => s[i] # Stop
  BY <1>1 DEF InOrder
<1>6. v # <<>> => n - k \in 1..n - k /\ k + (n - k) = n /\ n # 0
  BY <1>1, <1>2, EmptySeq
<1>7. v # <<>> => v[Len(v)] = s[n]
  BY <1>2, <1>6
<1> HIDE DEF u, v
<1>8. CASE s = <<>> \/ s[n] # Stop
  <2>1. r = s
    BY <1>8, RequestedAll
  <2>2. \A i \in 1..n : s[i] # Stop
    BY <1>1, <1>5, <1>8
  <2>3. Batches(u) = {s[i] : i \in 1..k}
    BY <1>1, <1>4, <2>2
  <2>4. Requested(v) = v
    <3>1. s # <<>> \/ v = <<>>
      BY <1>6
    <3> QED BY <1>2, <1>7, <1>8, <3>1, RequestedAll
  <2> QED BY <2>1, <2>3, <2>4 DEF u, v
<1>9. CASE s # <<>> /\ s[n] = Stop
  <2>1. n \in Nat \ {0} /\ r \in Seq(Nat) /\ Len(r) = n - 1 /\ \A i \in 1..n - 1 : r[i] = s[i]
    BY <1>9, RequestedStopped, EmptySeq
  <2> HIDE DEF r
  <2>2. CASE k = n
    <3>1. Batches(u) = {r[i] : i \in 1..n - 1}
      <4>1. \A i \in 1..n - 1 : r[i] = s[i] /\ s[i] # Stop /\ i \in 1..k
        BY <1>1, <1>5, <2>1, <2>2
      <4>2. \A i \in 1..k : i \in 1..n - 1 \/ s[i] = Stop
        BY <1>1, <1>9, <2>1, <2>2
      <4> QED BY <1>4, <4>1, <4>2
    <3>2. v = <<>>
      BY <1>1, <1>2, <2>2, EmptySeq
    <3>3. Requested(v) = <<>>
      BY <3>2, EmptySeq DEF Requested
    <3>4. SubSeq(r, (n - 1) + 1, n - 1) = <<>>
      BY <2>1, SubSeqEmpty
    <3>5. n - 1 \in 0..Len(r)
      BY <2>1
    <3> QED BY <2>1, <3>1, <3>3, <3>4, <3>5 DEF u, v, r
  <2>3. CASE k # n
    <3>1. Batches(u) = {r[i] : i \in 1..k}
      <4>1. \A i \in 1..k : i \in 1..n - 1 /\ r[i] = s[i] /\ s[i] # Stop
        BY <1>1, <1>5, <2>1, <2>3
      <4> QED BY <1>4, <4>1
    <3>2. v # <<>>
      BY <1>1, <1>2, <2>3, EmptySeq
    <3>3. v[Len(v)] = Stop
      BY <1>7, <1>9, <3>2
    <3> DEFINE w == SubSeq(r, k + 1, n - 1)
               x == Requested(v)
               l == n - k - 1
    <3>4. x \in Seq(Nat) /\ Len(x) = l /\ \A i \in 1..l : x[i] = s[k + i]
      <4>1. Len(v) - 1 = l /\ \A i \in 1..l : i \in 1..n - k
        BY <1>1, <1>2
      <4> QED BY <1>2, <3>2, <3>3, <4>1, RequestedStopped
    <3>5. w \in Seq(Nat) /\ Len(w) = l /\ \A i \in 1..l : w[i] = s[k + i]
      <4>1. \A i \in k + 1..n - 1 : r[i] \in Nat
        BY <1>1, <2>1
      <4>2. /\ w \in Seq(Nat)
            /\ Len(w) = IF k + 1 <= n - 1 THEN (n - 1) - (k + 1) + 1 ELSE 0
            /\ \A i \in 1..(n - 1) - (k + 1) + 1 : w[i] = r[(k + 1) + i - 1]
        BY <1>1, <2>1, <4>1, SubSeqProperties
      <4>3. (n - 1) - (k + 1) + 1 = l /\ l \in Nat /\ (~(k + 1 <= n - 1) => l = 0)
        BY <1>1, <2>1, <2>3
      <4>4. \A i \in 1..l : (k + 1) + i - 1 = k + i /\ k + i \in 1..n - 1
        BY <1>1, <2>1
      <4> QED BY <2>1, <4>2, <4>3, <4>4
    <3> HIDE DEF w, x, l
    <3>6. x = w
      BY <3>4, <3>5, SeqEqual
    <3>7. k \in 0..Len(r)
      BY <1>1, <2>1, <2>3
    <3> QED BY <2>1, <3>1, <3>6, <3>7 DEF u, v, r, w, x
  <2> QED BY <2>2, <2>3
<1> QED BY <1>8, <1>9

-----------------------------------------------------------------------------
(* Each action is a step of the bounded queue, or leaves it as it is.      *)

(* Before a stop, what is requested is all there is. *)
LEMMA NothingStopped ==
    ASSUME Inv, stopper = "none"
    PROVE  /\ queue \in Seq(Nat) /\ \A i \in 1..Len(queue) : queue[i] # Stop
           /\ Requested(queue) = queue /\ Requested(hand) = hand
<1>1. TypeOK /\ StoppedByStop
  BY DEF Inv
<1>2. queue \in Seq(Nat) /\ \A i \in 1..Len(queue) : queue[i] # Stop
  BY <1>1, Types DEF StoppedByStop
<1>3. Requested(queue) = queue
  BY <1>2, RequestedAppend
<1>4. Requested(hand) = hand
  <2>1. CASE hand = Nothing
    BY <2>1 DEF Requested, Nothing
  <2>2. ASSUME NEW i \in Items, hand = <<i>> PROVE Requested(hand) = hand
    <3>1. i # Stop /\ i \in Nat /\ Len(<<i>>) = 1
      BY <1>1, <2>2 DEF StoppedByStop, Items, TypeOK
    <3> QED BY <2>2, <3>1 DEF Requested
  <2> QED BY <1>1, <2>1, <2>2 DEF TypeOK
<1> QED BY <1>2, <1>3, <1>4

(* A request bears the name of the sentinel or does not. *)
LEMMA NamedGrows ==
    ASSUME TypeOK, NEW p, payload' = Append(payload, p)
    PROVE  Named' = Named \/ Named' = Named \union {Len(payload) + 1}
<1> DEFINE n == Len(payload)
<1>1. /\ n \in Nat /\ Len(payload') = n + 1 /\ payload'[n + 1] = p
      /\ \A c \in 1..n : payload'[c] = payload[c]
  BY DEF TypeOK
<1>2. 1..n + 1 = 1..n \union {n + 1}
  BY <1>1
<1>3. Named = {c \in 1..n : payload[c].stop} /\ Named' = {c \in 1..n + 1 : payload'[c].stop}
  BY <1>1 DEF Named, Requests
<1> HIDE DEF n
<1> QED BY <1>1, <1>2, <1>3 DEF n

LEMMA EnqueueImplements ==
    ASSUME Inv, NEW p \in Payloads, Enqueue(p)
    PROVE  Promised!Accept \/ Promised!Refuse \/ Promised!Displace
<1> DEFINE b == Len(payload) + 1
<1>1. /\ stopper = "none" /\ payload' = Append(payload, p)
      /\ UNCHANGED <<hand, worker, handled, mistaken>>
      /\ \/ /\ Admit
            /\ queue' = Append(queue, b)
            /\ UNCHANGED <<rejected, evicted>>
         \/ /\ Evict
            /\ queue' = Append(Tail(queue), b)
            /\ evicted' = evicted \union {Head(queue)}
            /\ UNCHANGED rejected
         \/ /\ ~Admit /\ ~Evict
            /\ rejected' = rejected \union {b}
            /\ UNCHANGED <<queue, evicted>>
  BY DEF Enqueue, sinks
<1>2. TypeOK
  BY DEF Inv
<1>3. Len(payload') = b /\ b \in Nat /\ b # Stop
  BY <1>1, <1>2 DEF TypeOK, Stop
<1>4. /\ queue \in Seq(Nat) /\ \A i \in 1..Len(queue) : queue[i] # Stop
      /\ Requested(queue) = queue /\ Requested(hand) = hand
  BY <1>1, NothingStopped
<1>8. Promised!Offer
  <2>1. Named' = Named \/ Named' = Named \union {b}
    BY <1>1, <1>2, NamedGrows
  <2> QED BY <1>3, <2>1 DEF Promised!Offer
<1> HIDE DEF b
<1>5. CASE Admit /\ queue' = Append(queue, b) /\ UNCHANGED <<rejected, evicted>>
  <2>1. Requested(queue') = Append(queue, b)
    BY <1>3, <1>4, <1>5, RequestedAppend
  <2>2. Promised!Accept
    BY <1>1, <1>3, <1>4, <1>5, <1>8, <2>1 DEF Promised!Accept, Promised!Room, Admit, Ended, b
  <2> QED BY <2>2
<1>6. CASE /\ Evict /\ queue' = Append(Tail(queue), b)
           /\ evicted' = evicted \union {Head(queue)} /\ UNCHANGED rejected
  <2>1. queue # <<>> /\ ~(Len(queue) < MaxQueue)
    BY <1>4, <1>6, EmptySeq, IngestionAssumption DEF Evict, IngestionAssumption
  <2>2. Tail(queue) \in Seq(Nat) /\ \A i \in 1..Len(Tail(queue)) : Tail(queue)[i] # Stop
    <3>1. \A i \in 1..Len(Tail(queue)) : Tail(queue)[i] = queue[i + 1] /\ i + 1 \in 1..Len(queue)
      BY <1>4, <2>1, EmptySeq, HeadTailProperties
    <3> QED BY <1>4, <2>1, <3>1, HeadTailProperties
  <2>3. Requested(queue') = Append(Tail(queue), b)
    BY <1>3, <1>6, <2>2, RequestedAppend
  <2>4. Promised!Displace
    BY <1>1, <1>3, <1>4, <1>6, <1>8, <2>1, <2>3 DEF Promised!Displace, Promised!Room, Ended, b
  <2> QED BY <2>4
<1>7. CASE ~Admit /\ rejected' = rejected \union {b} /\ UNCHANGED <<queue, evicted>>
  <2>1. Promised!Refuse
    BY <1>1, <1>3, <1>4, <1>7, <1>8 DEF Promised!Refuse, Promised!Room, Admit, Ended, b
  <2> QED BY <2>1
<1> QED BY <1>1, <1>5, <1>6, <1>7 DEF b

LEMMA CallStopImplements ==
    ASSUME Inv, CallStop
    PROVE  UNCHANGED Promised!vars
<1>1. stopper = "none"
      /\ queue' = (IF Len(queue) < MaxQueue THEN Append(queue, Stop) ELSE queue)
      /\ UNCHANGED <<hand, worker, payload, rejected, evicted, handled, mistaken>>
  BY DEF CallStop, sinks
<1>2. Requested(queue') = Requested(queue)
  BY <1>1, NothingStopped, RequestedAppend DEF Stop
<1> QED BY <1>1, <1>2 DEF Promised!vars, Named, Requests, Ended

LEMMA TakeImplements ==
    ASSUME Inv, Take
    PROVE  Promised!Serve \/ UNCHANGED Promised!vars
<1>1. /\ worker = "loop" /\ hand = <<>> /\ queue # <<>>
      /\ hand' = <<Head(queue)>> /\ queue' = Tail(queue)
      /\ UNCHANGED <<worker, payload, rejected, evicted, handled, mistaken>>
      /\ Named' = Named /\ ~Ended /\ Ended' = Ended
  BY DEF Take, Took, Nothing, sinks, Named, Requests, Ended
<1>2. queue \in Seq(Nat) /\ InOrder(queue)
  BY Types DEF Inv, FirstInFirstOut
<1>3. Requested(hand) = <<>>
  BY <1>1 DEF Requested
<1>4. CASE Head(queue) = Stop
  <2>1. queue' = <<>> /\ Len(queue) = 1 /\ queue[1] = Stop
    <3>1. /\ Tail(queue) = <<>> /\ Len(Tail(queue)) = Len(queue) - 1
          /\ Len(queue) \in Nat \ {0} /\ Head(queue) = queue[1]
      BY <1>1, <1>2, <1>4, TailInOrder
    <3>2. Len(queue) - 1 = 0
      BY <3>1
    <3>3. Len(queue) = 1
      BY <3>1, <3>2
    <3> QED BY <1>1, <1>4, <3>1, <3>3
  <2>2. Requested(queue) = <<>> /\ Requested(queue') = <<>>
    <3>1. Requested(queue) \in Seq(Nat) /\ Len(Requested(queue)) = 0
      BY <1>1, <1>2, <2>1, RequestedStopped
    <3> QED BY <2>1, <3>1, EmptySeq DEF Requested
  <2>3. Requested(hand') = <<>>
    <3>1. hand' \in Seq(Nat) /\ hand' # <<>> /\ Len(hand') = 1 /\ hand'[1] = Stop
      BY <1>1, <1>4 DEF Stop
    <3>2. Requested(hand') \in Seq(Nat) /\ Len(Requested(hand')) = 0
      BY <3>1, RequestedStopped
    <3> QED BY <3>2, EmptySeq
  <2> QED BY <1>1, <1>3, <2>2, <2>3 DEF Promised!vars
<1>5. CASE Head(queue) # Stop
  <2>1. /\ Requested(queue) # <<>> /\ Head(Requested(queue)) = Head(queue)
        /\ Requested(queue') = Tail(Requested(queue))
    BY <1>1, <1>2, <1>5, RequestedTail
  <2>2. Requested(hand') = <<Head(queue)>>
    <3>1. Len(hand') = 1 /\ hand'[1] # Stop
      BY <1>1, <1>5
    <3> QED BY <1>1, <3>1 DEF Requested
  <2>3. Promised!Serve
    BY <1>1, <1>3, <2>1, <2>2 DEF Promised!Serve
  <2> QED BY <2>3
<1> QED BY <1>4, <1>5

(* The task has not ended while it has an item in hand, or is to leave its *)
(* loop.                                                                   *)
LEMMA HandImplies ==
    ASSUME Inv
    PROVE  /\ hand # Nothing \/ LastTurn => ~Ended
           /\ Batches(hand) = {Requested(hand)[i] : i \in 1..Len(Requested(hand))}
           /\ hand # Nothing /\ ~Stops(hand[1]) =>
                 /\ Requested(hand) = hand /\ hand # <<>>
                 /\ Batches(hand) = {hand[1]} /\ Head(hand) = hand[1] /\ hand[1] \notin Named
<1>1. TypeOK /\ EndedByStop
  BY DEF Inv
<1>2. hand # Nothing \/ LastTurn => ~Ended
  BY <1>1 DEF EndedByStop, Ended, LastTurn
<1>3. CASE hand = Nothing
  <2>1. Requested(hand) = <<>> /\ Batches(hand) = {}
    BY <1>3, BatchesEmpty DEF Requested, Nothing
  <2> QED BY <1>2, <1>3, <2>1
<1>4. CASE hand # Nothing
  <2>1. PICK h \in 0..Len(payload) : hand = <<h>>
    BY <1>1, <1>4, Types
  <2>2. Batches(hand) = {h} \ {Stop} /\ Len(hand) = 1 /\ hand[1] = h /\ hand # <<>> /\ Head(hand) = h
    BY <2>1, BatchesOne
  <2>3. CASE h = Stop
    <3>1. hand \in Seq(Nat)
      BY <2>1, <2>3 DEF Stop
    <3>2. Len(Requested(hand)) = 0
      BY <2>2, <2>3, <3>1, RequestedStopped
    <3>3. Stops(hand[1])
      BY <2>2, <2>3 DEF Stops
    <3> QED BY <1>2, <2>2, <2>3, <3>2, <3>3
  <2>4. CASE h # Stop
    <3>1. Requested(hand) = hand
      BY <2>2, <2>4 DEF Requested
    <3>2. {hand[i] : i \in 1..Len(hand)} = {h}
      BY <2>2
    <3>3. Batches(hand) = {h}
      BY <2>2, <2>4
    <3>4. ~Stops(hand[1]) => h \notin Named
      BY <2>2 DEF Stops
    <3> QED BY <1>2, <2>2, <3>1, <3>2, <3>3, <3>4
  <2> QED BY <2>3, <2>4
<1> QED BY <1>3, <1>4

(* What consuming does to the items served and spent. *)
LEMMA ConsumeSplits ==
    ASSUME NEW S, S \subseteq Requests, Consume(S)
    PROVE  handled' = handled \union (S \ Named) /\ mistaken' = mistaken \union (S \intersect Named)
<1>1. \A b \in S : Stops(b) <=> b \in Named
  BY DEF Stops, Stop, Requests
<1>2. {b \in S : ~Stops(b)} = S \ Named /\ {b \in S : Stops(b)} = S \intersect Named
  BY <1>1
<1> QED BY <1>2 DEF Consume

LEMMA HandleBatchImplements ==
    ASSUME Inv, HandleBatch
    PROVE  Promised!Finish
<1>1. /\ hand # Nothing /\ ~Stops(hand[1]) /\ hand' = <<>> /\ Consume(Batches(hand))
      /\ UNCHANGED <<queue, worker, payload, rejected, evicted>>
  BY DEF HandleBatch, LastTurn, Nothing
<1>2. /\ ~Ended /\ Requested(hand) = hand /\ hand # <<>>
      /\ Batches(hand) = {Head(hand)} /\ Head(hand) \notin Named
  BY <1>1, HandImplies
<1>3. Batches(hand) \subseteq Requests
  BY Types DEF Inv
<1>4. handled' = handled \union {Head(hand)} /\ mistaken' = mistaken
  <2>1. handled' = handled \union (Batches(hand) \ Named)
        /\ mistaken' = mistaken \union (Batches(hand) \intersect Named)
    BY <1>1, <1>3, ConsumeSplits
  <2>2. Batches(hand) \ Named = {Head(hand)} /\ Batches(hand) \intersect Named = {}
    BY <1>2
  <2> QED BY <2>1, <2>2
<1>5. Requested(hand') = <<>>
  BY <1>1 DEF Requested
<1>6. Named' = Named /\ Ended' = Ended
  BY <1>1 DEF Named, Requests, Ended
<1> QED BY <1>1, <1>2, <1>4, <1>5, <1>6 DEF Promised!Finish

LEMMA HandleLastImplements ==
    ASSUME Inv, HandleLast
    PROVE  Promised!Close
<1>1. /\ LastTurn /\ hand' = <<>>
      /\ UNCHANGED <<payload, rejected, evicted>>
  BY DEF HandleLast, Nothing
<1>2. PICK k \in 0..Len(queue) :
          /\ Consume(Batches(hand) \union Batches(SubSeq(queue, 1, k)))
          /\ queue' = SubSeq(queue, k + 1, Len(queue))
          /\ worker' \in {"returned", "raised"}
  BY DEF HandleLast
<1>3. queue \in Seq(Nat) /\ InOrder(queue)
  BY Types DEF Inv, FirstInFirstOut
<1> DEFINE r == Requested(queue)
           o == Requested(hand)
<1>4. PICK m \in 0..Len(r) :
          /\ Batches(SubSeq(queue, 1, k)) = {r[i] : i \in 1..m}
          /\ Requested(queue') = SubSeq(r, m + 1, Len(r))
  BY <1>2, <1>3, RequestedCut
<1>5. ~Ended /\ Batches(hand) = {o[i] : i \in 1..Len(o)}
  BY <1>1, HandImplies
<1>6. Requested(hand') = <<>>
  BY <1>1 DEF Requested
<1> DEFINE last == {o[i] : i \in 1..Len(o)} \union {r[i] : i \in 1..m}
<1>7. handled' = handled \union (last \ Named) /\ mistaken' = mistaken \union (last \intersect Named)
  <2>1. Batches(hand) \subseteq Requests /\ Batches(queue) \subseteq Requests
    BY Types DEF Inv
  <2>2. Batches(SubSeq(queue, 1, k)) \subseteq Batches(queue)
    BY <1>3, BatchesCut
  <2>3. last \subseteq Requests /\ Consume(last)
    BY <1>2, <1>4, <1>5, <2>1, <2>2
  <2> HIDE DEF last
  <2> QED BY <2>3, ConsumeSplits
<1>8. /\ ~Ended /\ Ended' /\ Len(payload') = Len(payload) /\ Named' = Named
      /\ rejected' = rejected /\ evicted' = evicted
  BY <1>1, <1>2, <1>5 DEF Ended, Named, Requests
<1> HIDE DEF o, r
<1> QED BY <1>4, <1>6, <1>7, <1>8 DEF Promised!Close, o, r

(* The queue and its consumer keep the promise of a bounded queue: an      *)
(* offer is refused or displaces another only when no slot is free, and    *)
(* the items are served one at a time in the order of the offers, also     *)
(* while a stop() sends its sentinel and the task drains the queue; one    *)
(* that bears the sentinel's name is not served but closes the queue.      *)
THEOREM QueueImplemented == Spec => Promised!Safe
<1>1. Init => Promised!Init
  <2> SUFFICES ASSUME Init PROVE Promised!Init
    OBVIOUS
  <2>1. /\ queue = <<>> /\ hand = <<>> /\ ~Ended /\ payload = <<>> /\ Named = {}
        /\ rejected = {} /\ evicted = {} /\ handled = {} /\ mistaken = {}
    BY DEF Init, Nothing, Ended, Named, Requests
  <2>2. Requested(<<>>) = <<>>
    BY DEF Requested
  <2> QED BY <2>1, <2>2 DEF Promised!Init
<1>2. Inv /\ [Next]_vars => [Promised!Next]_(Promised!vars)
  <2> SUFFICES ASSUME Inv, [Next]_vars PROVE Promised!Next \/ UNCHANGED Promised!vars
    OBVIOUS
  <2>1. ASSUME NEW p \in Payloads, Enqueue(p) PROVE Promised!Next
    BY <2>1, EnqueueImplements DEF Promised!Next
  <2>2. CASE CallStop \/ Take \/ HandleBatch \/ HandleLast
    BY <2>2, CallStopImplements, TakeImplements, HandleBatchImplements, HandleLastImplements
       DEF Promised!Next
  <2>3. CASE Join \/ AwaitItem \/ Expire
    <3>1. UNCHANGED <<queue, hand, payload, rejected, evicted, handled, mistaken>> /\ Ended' = Ended
      BY <2>3 DEF Join, AwaitItem, Expire, sinks, Ended
    <3> QED BY <3>1 DEF Promised!vars, Named, Requests
  <2>4. CASE UNCHANGED vars
    <3>1. UNCHANGED <<queue, hand, worker, payload, rejected, evicted, handled, mistaken>>
      BY <2>4 DEF vars, sinks
    <3> QED BY <3>1 DEF Promised!vars, Named, Requests, Ended
  <2> QED BY <2>1, <2>2, <2>3, <2>4 DEF Next
<1> QED BY <1>1, <1>2, Invariance, PTL DEF Spec, Promised!Safe
=============================================================================
