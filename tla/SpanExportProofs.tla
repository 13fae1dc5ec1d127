--------------------------- MODULE SpanExportProofs ---------------------------
(***************************************************************************)
(* Proofs about a span on the client: its way from the queue to the        *)
(* collector (SpanExport), and what a call of an LLM writes on it before   *)
(* that (LlmSpans).                                                        *)
(*                                                                         *)
(* SpanExport, for every size of the queue and of a batch, every number of *)
(* retries and any number of spans: the invariant Inv adds to the checked  *)
(* properties how often the collector can have got the spans of a batch    *)
(* that is being sent, and which steps of stop() the flags and the places  *)
(* of the two senders stand for.                                           *)
(*                                                                         *)
(* LlmSpans, for any calls, threads that configure, answers, requests and  *)
(* chunks: the registry and the unwrapping of results are followed adapter *)
(* by adapter and round by round; the invariant LlmInv says what a call    *)
(* may rely on while others use its object and configure() runs.           *)
(***************************************************************************)
EXTENDS SpanExport, LlmSpans, FiniteSetTheorems, SequenceTheorems, NaturalsInduction,
        WellFoundedInduction, TLAPS

(* A sender holds spans only while it takes or sends them. *)
Idle == \A s \in Senders : pc[s] \notin {"drain", "send"} => batch[s] = {}

(* The attempt a batch is in bounds how often its spans have arrived; a    *)
(* span not finished yet has not.                                          *)
Attempts ==
    /\ \A s \in Senders : \A k \in batch[s] :
          arrivals[k] < IF pc[s] = "send" THEN attempt[s] ELSE 1
    /\ \A k \in 1..MaxSpans : k > made => arrivals[k] = 0

(* The client is closed by a stop(); after that only the handler of the    *)
(* exit stops again.                                                       *)
ClosedByStop ==
    /\ closed => stopping
    /\ pc["caller"] \notin {"app", "exited"} => stopping /\ (closed => exiting)

(* Once the daemon was joined in time it is gone. *)
Flushing == {"check", "drain", "send", "close", "raised"}
JoinedInTime ==
    ~timedOut /\ (closed \/ pc["caller"] \in Flushing) => pc["thread"] = "dead"

(* Once stop() has found the queue empty, what is queued is newer.         *)
FoundEmpty ==
    pc["caller"] = "close" \/ (closed /\ pc["caller"] \in {"app", "exited"}) =>
        \A k \in queue : k > before

Inv ==
    /\ TypeOK
    /\ Conservation
    /\ Delivery
    /\ Attempts
    /\ Idle
    /\ ClosedByStop
    /\ JoinedInTime
    /\ FoundEmpty

-----------------------------------------------------------------------------

(* A nonempty set of numbers has a least element, its head. *)
LEMMA HeadOfSet ==
    ASSUME NEW S \in SUBSET Nat, S # {}
    PROVE  Oldest(S) \in S /\ \A j \in S : Oldest(S) <= j
<1> DEFINE R == OpToRel(<, Nat)
<1>1. PICK n \in S : \A m \in S : ~(<<m, n>> \in R)
  <2>1. IsWellFoundedOn(R, Nat)
    BY NatLessThanWellFounded
  <2> HIDE DEF R
  <2> QED BY <2>1, WFMin
<1>2. ASSUME NEW m \in S PROVE n <= m
  <2>1. m \in Nat /\ n \in Nat
    OBVIOUS
  <2>2. m < n => <<m, n>> \in R
    BY <2>1 DEF OpToRel
  <2> HIDE DEF R
  <2> QED BY <1>1, <2>1, <2>2
<1> QED BY <1>2 DEF Oldest

(* The types, one fact for each variable. *)
LEMMA Types ==
    ASSUME TypeOK
    PROVE  /\ made \in Nat /\ made <= MaxSpans /\ Made \subseteq Nat /\ Made = 1..made
           /\ Made \subseteq 1..MaxSpans
           /\ queue \subseteq Made /\ unsound \subseteq Made /\ refused \subseteq Made
           /\ exported \subseteq Made /\ dropped \subseteq Made /\ lost \subseteq Made
           /\ DOMAIN pc = Senders
           /\ pc["thread"] \in {"wait", "drain", "send", "dead"}
           /\ pc["caller"] \in {"app", "join", "check", "drain", "send", "close", "raised",
                                "exited", "failed"}
           /\ stopping \in BOOLEAN /\ closed \in BOOLEAN /\ exiting \in BOOLEAN
           /\ timedOut \in BOOLEAN
           /\ before \in Nat /\ before <= made
           /\ \A s \in Senders : batch[s] \subseteq Made /\ attempt[s] \in 1..MaxRetries
           /\ "thread" \in Senders /\ "caller" \in Senders
<1>1. made \in 0..MaxSpans /\ MaxSpans \in Nat /\ Made = 1..made
  BY SpanExportAssumption DEF TypeOK, SpanExportAssumption, Made
<1>2. /\ {queue, unsound, refused, exported, dropped, lost} \subseteq SUBSET Made
      /\ {stopping, closed, exiting, timedOut} \subseteq BOOLEAN
      /\ before \in 0..made
      /\ batch \in [Senders -> SUBSET Made] /\ attempt \in [Senders -> 1..MaxRetries]
  BY DEF TypeOK
<1>3. /\ queue \subseteq Made /\ unsound \subseteq Made /\ refused \subseteq Made
      /\ exported \subseteq Made /\ dropped \subseteq Made /\ lost \subseteq Made
      /\ stopping \in BOOLEAN /\ closed \in BOOLEAN /\ exiting \in BOOLEAN
      /\ timedOut \in BOOLEAN
  BY <1>2
<1>4. "thread" \in Senders /\ "caller" \in Senders
  BY DEF Senders
<1>5. /\ DOMAIN pc = Senders
      /\ pc["thread"] \in {"wait", "drain", "send", "dead"}
      /\ pc["caller"] \in {"app", "join", "check", "drain", "send", "close", "raised",
                           "exited", "failed"}
  BY <1>4 DEF TypeOK, Places
<1> QED BY <1>1, <1>2, <1>3, <1>4, <1>5

(* Conversely, what keeps TypeOK in terms of those facts. *)
LEMMA TypesKept ==
    ASSUME made' \in 0..MaxSpans,
           queue' \subseteq Made', unsound' \subseteq Made', refused' \subseteq Made',
           exported' \subseteq Made', dropped' \subseteq Made', lost' \subseteq Made',
           Cardinality(queue') <= MaxQueue,
           DOMAIN pc' = Senders,
           pc'["thread"] \in {"wait", "drain", "send", "dead"},
           pc'["caller"] \in {"app", "join", "check", "drain", "send", "close", "raised",
                              "exited", "failed"},
           batch' \in [Senders -> SUBSET Made'],
           \A s \in Senders : Cardinality(batch'[s]) <= BatchSize,
           attempt' \in [Senders -> 1..MaxRetries],
           stopping' \in BOOLEAN, closed' \in BOOLEAN, exiting' \in BOOLEAN,
           timedOut' \in BOOLEAN,
           before' \in 0..made',
           arrivals' \in [1..MaxSpans -> Nat]
    PROVE  TypeOK'
<1>1. {queue', unsound', refused', exported', dropped', lost'} \subseteq SUBSET Made'
  OBVIOUS
<1>2. {stopping', closed', exiting', timedOut'} \subseteq BOOLEAN
  OBVIOUS
<1>3. \A s \in Senders : pc'[s] \in Places[s]
  BY DEF Senders, Places
<1> QED BY <1>1, <1>2, <1>3 DEF TypeOK

LEMMA FiniteMade ==
    ASSUME made \in Nat, NEW S \in SUBSET Made
    PROVE  IsFiniteSet(S) /\ Cardinality(S) \in Nat
BY FS_Interval, FS_Subset, FS_CardinalityType, 1 \in Int, made \in Int DEF Made

LEMMA InitInv == Init => Inv
<1> SUFFICES ASSUME Init PROVE Inv
  OBVIOUS
<1>1. /\ queue = {} /\ made = 0 /\ unsound = {} /\ refused = {} /\ exported = {}
      /\ dropped = {} /\ lost = {} /\ before = 0
      /\ stopping = FALSE /\ closed = FALSE /\ exiting = FALSE /\ timedOut = FALSE
      /\ arrivals = [k \in 1..MaxSpans |-> 0]
      /\ attempt = [s \in Senders |-> 1] /\ batch = [s \in Senders |-> {}]
  BY DEF Init
<1>2. pc["thread"] = "wait" /\ pc["caller"] = "app" /\ DOMAIN pc = Senders
  BY DEF Init, Senders
<1>3. batch["thread"] = {} /\ batch["caller"] = {} /\ \A s \in Senders : batch[s] = {}
  BY <1>1 DEF Senders
<1>4. /\ MaxQueue \in Nat \ {0} /\ BatchSize \in Nat \ {0} /\ MaxRetries \in Nat \ {0}
      /\ MaxSpans \in Nat
  BY SpanExportAssumption DEF SpanExportAssumption
<1>5. TypeOK
  <2>1. Cardinality({}) = 0
    BY FS_EmptySet
  <2>2. \A s \in Senders : pc[s] \in Places[s]
    BY <1>2 DEF Senders, Places
  <2>3. {queue, unsound, refused, exported, dropped, lost} \subseteq SUBSET Made
    BY <1>1
  <2>4. {stopping, closed, exiting, timedOut} \subseteq BOOLEAN
    BY <1>1
  <2>5. Cardinality(queue) <= MaxQueue /\ \A s \in Senders : Cardinality(batch[s]) <= BatchSize
    BY <1>1, <1>3, <1>4, <2>1
  <2>6. /\ made \in 0..MaxSpans /\ before \in 0..made
        /\ attempt \in [Senders -> 1..MaxRetries] /\ arrivals \in [1..MaxSpans -> Nat]
        /\ batch \in [Senders -> SUBSET Made]
    BY <1>1, <1>4
  <2> QED BY <1>2, <2>2, <2>3, <2>4, <2>5, <2>6 DEF TypeOK
<1>6. Made = {}
  BY <1>1 DEF Made
<1>7. Conservation
  BY <1>1, <1>3, <1>6 DEF Conservation, Settled, Pending
<1>8. Delivery /\ Attempts
  BY <1>1, <1>3, <1>4 DEF Delivery, Attempts
<1> QED BY <1>1, <1>2, <1>3, <1>5, <1>7, <1>8
        DEF Inv, Idle, ClosedByStop, JoinedInTime, FoundEmpty, Flushing

-----------------------------------------------------------------------------
(* What the spans go through depends on where the senders are only in that *)
(* a batch is being sent.                                                  *)
LEMMA SpansKept ==
    ASSUME Conservation, Delivery, Attempts,
           UNCHANGED <<queue, made, batch, attempt, refused, exported, dropped, lost, arrivals>>,
           \A s \in Senders : pc'[s] = "send" <=> pc[s] = "send"
    PROVE  Conservation' /\ Delivery' /\ Attempts'
<1>1. Conservation'
  BY DEF Conservation, Made, Settled, Pending
<1>2. Delivery'
  BY DEF Delivery
<1>3. Attempts'
  BY DEF Attempts
<1> QED BY <1>1, <1>2, <1>3

(* The steps that move a sender from one place to another and change, of   *)
(* the rest, only flags.                                                   *)
LEMMA ControlTypes ==
    ASSUME TypeOK, UNCHANGED <<queue, batch, attempt, spanVars, fates>>,
           DOMAIN pc' = Senders,
           pc'["thread"] \in {"wait", "drain", "send", "dead"},
           pc'["caller"] \in {"app", "join", "check", "drain", "send", "close", "raised",
                              "exited", "failed"},
           stopping' \in BOOLEAN, closed' \in BOOLEAN, exiting' \in BOOLEAN,
           timedOut' \in BOOLEAN, before' \in 0..made
    PROVE  TypeOK'
<1>1. UNCHANGED <<queue, made, unsound, batch, attempt, refused, exported, dropped, lost, arrivals>>
      /\ Made' = Made
  BY DEF spanVars, fates, Made
<1>2. {stopping', closed', exiting', timedOut'} \subseteq BOOLEAN
  OBVIOUS
<1>3. \A s \in Senders : pc'[s] \in Places[s]
  BY DEF Senders, Places
<1> QED BY <1>1, <1>2, <1>3 DEF TypeOK

LEMMA WakeInv == Inv /\ Wake => Inv'
<1> SUFFICES ASSUME Inv, Wake PROVE Inv'
  OBVIOUS
<1>1. /\ pc["thread"] = "wait" /\ pc' = [pc EXCEPT !["thread"] = "drain"]
      /\ UNCHANGED <<queue, batch, attempt, spanVars, stopVars, fates>>
  BY DEF Wake
<1>2. UNCHANGED <<queue, made, batch, attempt, refused, exported, dropped, lost, arrivals,
                  stopping, closed, exiting, timedOut, before>>
  BY <1>1 DEF spanVars, stopVars, fates
<1>3. /\ DOMAIN pc' = Senders /\ pc'["thread"] = "drain" /\ pc'["caller"] = pc["caller"]
      /\ \A s \in Senders : pc'[s] = "send" <=> pc[s] = "send"
  BY <1>1, Types DEF Inv, Senders
<1>4. TypeOK'
  BY <1>1, <1>2, <1>3, Types, ControlTypes DEF Inv
<1>5. Conservation' /\ Delivery' /\ Attempts'
  BY <1>2, <1>3, SpansKept DEF Inv
<1>6. Idle'
  BY <1>1, <1>2, <1>3, Types DEF Inv, Idle, Senders
<1>7. ClosedByStop' /\ JoinedInTime' /\ FoundEmpty'
  BY <1>1, <1>2, <1>3 DEF Inv, ClosedByStop, JoinedInTime, FoundEmpty, Flushing
<1> QED BY <1>4, <1>5, <1>6, <1>7 DEF Inv

LEMMA CallStopInv == Inv /\ CallStop => Inv'
<1> SUFFICES ASSUME Inv, CallStop PROVE Inv'
  OBVIOUS
<1>1. /\ pc["caller"] = "app" /\ ~stopping
      /\ UNCHANGED <<queue, batch, attempt, spanVars, fates, closed, exiting, timedOut>>
      /\ \/ /\ pc["thread"] = "dead" /\ pc' = [pc EXCEPT !["caller"] = "app"]
            /\ UNCHANGED <<stopping, before>>
         \/ /\ pc["thread"] # "dead" /\ pc' = [pc EXCEPT !["caller"] = "join"]
            /\ stopping' = TRUE /\ before' = made
  BY DEF CallStop, Stop, Ended
<1>2. UNCHANGED <<queue, made, batch, attempt, refused, exported, dropped, lost, arrivals>>
  BY <1>1 DEF spanVars, fates
<1>3. /\ DOMAIN pc' = Senders /\ pc'["thread"] = pc["thread"] /\ pc'["caller"] \in {"app", "join"}
      /\ \A s \in Senders : pc'[s] = "send" <=> pc[s] = "send"
      /\ pc'["caller"] = "join" => stopping'
  BY <1>1, Types DEF Inv, Senders
<1>4. ~closed
  BY <1>1 DEF Inv, ClosedByStop
<1>5. TypeOK'
  <2>1. before' \in 0..made
    BY <1>1, Types DEF Inv
  <2>2. stopping' \in BOOLEAN /\ exiting' \in BOOLEAN
    BY <1>1, Types DEF Inv
  <2> QED BY <1>1, <1>3, <2>1, <2>2, Types, ControlTypes DEF Inv
<1>6. Conservation' /\ Delivery' /\ Attempts'
  BY <1>2, <1>3, SpansKept DEF Inv
<1>7. Idle'
  BY <1>1, <1>2, <1>3 DEF Inv, Idle, Senders
<1>8. ClosedByStop' /\ JoinedInTime' /\ FoundEmpty'
  BY <1>1, <1>3, <1>4 DEF ClosedByStop, JoinedInTime, FoundEmpty, Flushing
<1> QED BY <1>5, <1>6, <1>7, <1>8 DEF Inv

LEMMA ExitInv == Inv /\ Exit => Inv'
<1> SUFFICES ASSUME Inv, Exit PROVE Inv'
  OBVIOUS
<1>1. /\ pc["caller"] \in {"app", "raised"} /\ ~exiting /\ exiting' = TRUE
      /\ UNCHANGED <<queue, batch, attempt, spanVars, fates, closed, timedOut>>
      /\ \/ /\ pc["thread"] = "dead" /\ pc' = [pc EXCEPT !["caller"] = "exited"]
            /\ UNCHANGED <<stopping, before>>
         \/ /\ pc["thread"] # "dead" /\ pc' = [pc EXCEPT !["caller"] = "join"]
            /\ stopping' = TRUE /\ before' = made
  BY DEF Exit, Stop, Ended
<1>2. UNCHANGED <<queue, made, batch, attempt, refused, exported, dropped, lost, arrivals>>
  BY <1>1 DEF spanVars, fates
<1>3. /\ DOMAIN pc' = Senders /\ pc'["thread"] = pc["thread"]
      /\ pc'["caller"] \in {"exited", "join"}
      /\ \A s \in Senders : pc'[s] = "send" <=> pc[s] = "send"
      /\ pc'["caller"] = "join" => stopping'
      /\ pc'["caller"] = "exited" => before' = before
  BY <1>1, Types DEF Inv, Senders
<1>4. TypeOK'
  <2>1. before' \in 0..made
    BY <1>1, Types DEF Inv
  <2>2. stopping' \in BOOLEAN /\ exiting' \in BOOLEAN
    BY <1>1, Types DEF Inv
  <2> QED BY <1>1, <1>3, <2>1, <2>2, Types, ControlTypes DEF Inv
<1>5. Conservation' /\ Delivery' /\ Attempts'
  BY <1>2, <1>3, SpansKept DEF Inv
<1>6. Idle'
  BY <1>1, <1>2, <1>3 DEF Inv, Idle, Senders
<1>7. closed => pc["caller"] = "app"
  BY <1>1 DEF Inv, ClosedByStop
<1>8. ClosedByStop' /\ JoinedInTime' /\ FoundEmpty'
  BY <1>1, <1>3, <1>7 DEF Inv, ClosedByStop, JoinedInTime, FoundEmpty, Flushing
<1> QED BY <1>4, <1>5, <1>6, <1>8 DEF Inv

LEMMA ExitRaisedInv == Inv /\ ExitRaised => Inv'
<1> SUFFICES ASSUME Inv, ExitRaised PROVE Inv'
  OBVIOUS
<1>1. /\ pc["caller"] = "raised" /\ exiting /\ pc' = [pc EXCEPT !["caller"] = "failed"]
      /\ UNCHANGED <<queue, batch, attempt, spanVars, stopVars, fates>>
  BY DEF ExitRaised
<1>2. UNCHANGED <<queue, made, batch, attempt, refused, exported, dropped, lost, arrivals,
                  stopping, closed, exiting, timedOut, before>>
  BY <1>1 DEF spanVars, stopVars, fates
<1>3. /\ DOMAIN pc' = Senders /\ pc'["thread"] = pc["thread"] /\ pc'["caller"] = "failed"
      /\ \A s \in Senders : pc'[s] = "send" <=> pc[s] = "send"
  BY <1>1, Types DEF Inv, Senders
<1>4. TypeOK'
  BY <1>1, <1>2, <1>3, Types, ControlTypes DEF Inv
<1>5. Conservation' /\ Delivery' /\ Attempts'
  BY <1>2, <1>3, SpansKept DEF Inv
<1>6. Idle'
  BY <1>1, <1>2, <1>3 DEF Inv, Idle, Senders
<1>7. ClosedByStop' /\ JoinedInTime' /\ FoundEmpty'
  BY <1>1, <1>2, <1>3 DEF Inv, ClosedByStop, JoinedInTime, FoundEmpty, Flushing
<1> QED BY <1>4, <1>5, <1>6, <1>7 DEF Inv

LEMMA JoinInv == Inv /\ Join => Inv'
<1> SUFFICES ASSUME Inv, Join PROVE Inv'
  OBVIOUS
<1>1. /\ pc["caller"] = "join" /\ pc' = [pc EXCEPT !["caller"] = "check"]
      /\ timedOut' = (timedOut \/ pc["thread"] # "dead")
      /\ UNCHANGED <<queue, batch, attempt, spanVars, stopping, closed, exiting, before, fates>>
  BY DEF Join
<1>2. UNCHANGED <<queue, made, batch, attempt, refused, exported, dropped, lost, arrivals>>
  BY <1>1 DEF spanVars, fates
<1>3. /\ DOMAIN pc' = Senders /\ pc'["thread"] = pc["thread"] /\ pc'["caller"] = "check"
      /\ \A s \in Senders : pc'[s] = "send" <=> pc[s] = "send"
  BY <1>1, Types DEF Inv, Senders
<1>4. TypeOK'
  BY <1>1, <1>3, Types, ControlTypes DEF Inv
<1>5. Conservation' /\ Delivery' /\ Attempts'
  BY <1>2, <1>3, SpansKept DEF Inv
<1>6. Idle'
  BY <1>1, <1>2, <1>3 DEF Inv, Idle, Senders
<1>7. ClosedByStop' /\ JoinedInTime' /\ FoundEmpty'
  BY <1>1, <1>3 DEF Inv, ClosedByStop, JoinedInTime, FoundEmpty, Flushing
<1> QED BY <1>4, <1>5, <1>6, <1>7 DEF Inv

LEMMA CheckInv == Inv /\ Check => Inv'
<1> SUFFICES ASSUME Inv, Check PROVE Inv'
  OBVIOUS
<1>1. /\ pc["caller"] = "check"
      /\ pc' = [pc EXCEPT !["caller"] = IF queue # {} THEN "drain" ELSE "close"]
      /\ UNCHANGED <<queue, batch, attempt, spanVars, stopVars, fates>>
  BY DEF Check, More
<1>2. UNCHANGED <<queue, made, batch, attempt, refused, exported, dropped, lost, arrivals,
                  stopping, closed, exiting, timedOut, before>>
  BY <1>1 DEF spanVars, stopVars, fates
<1>3. /\ DOMAIN pc' = Senders /\ pc'["thread"] = pc["thread"]
      /\ pc'["caller"] \in {"drain", "close"} /\ (pc'["caller"] = "close" => queue = {})
      /\ \A s \in Senders : pc'[s] = "send" <=> pc[s] = "send"
  BY <1>1, Types DEF Inv, Senders
<1>4. TypeOK'
  BY <1>1, <1>2, <1>3, Types, ControlTypes DEF Inv
<1>5. Conservation' /\ Delivery' /\ Attempts'
  BY <1>2, <1>3, SpansKept DEF Inv
<1>6. Idle'
  BY <1>1, <1>2, <1>3 DEF Inv, Idle, Senders
<1>7. ClosedByStop' /\ JoinedInTime' /\ FoundEmpty'
  BY <1>1, <1>2, <1>3 DEF Inv, ClosedByStop, JoinedInTime, FoundEmpty, Flushing
<1> QED BY <1>4, <1>5, <1>6, <1>7 DEF Inv

LEMMA CloseInv == Inv /\ Close => Inv'
<1> SUFFICES ASSUME Inv, Close PROVE Inv'
  OBVIOUS
<1>1. /\ pc["caller"] = "close" /\ closed' = TRUE
      /\ pc' = [pc EXCEPT !["caller"] = IF exiting THEN "exited" ELSE "app"]
      /\ UNCHANGED <<queue, batch, attempt, spanVars, stopping, exiting, timedOut, before, fates>>
  BY DEF Close
<1>2. UNCHANGED <<queue, made, batch, attempt, refused, exported, dropped, lost, arrivals>>
  BY <1>1 DEF spanVars, fates
<1>3. /\ DOMAIN pc' = Senders /\ pc'["thread"] = pc["thread"]
      /\ pc'["caller"] \in {"exited", "app"}
      /\ \A s \in Senders : pc'[s] = "send" <=> pc[s] = "send"
  BY <1>1, Types DEF Inv, Senders
<1>4. TypeOK'
  BY <1>1, <1>3, Types, ControlTypes DEF Inv
<1>5. Conservation' /\ Delivery' /\ Attempts'
  BY <1>2, <1>3, SpansKept DEF Inv
<1>6. Idle'
  BY <1>1, <1>2, <1>3 DEF Inv, Idle, Senders
<1>7. ClosedByStop' /\ JoinedInTime' /\ FoundEmpty'
  BY <1>1, <1>2, <1>3 DEF Inv, ClosedByStop, JoinedInTime, FoundEmpty, Flushing
<1> QED BY <1>4, <1>5, <1>6, <1>7 DEF Inv

-----------------------------------------------------------------------------
(* The span queue and the senders. *)

LEMMA EnqueueInv == ASSUME Inv, NEW b \in BOOLEAN, Enqueue(b) PROVE Inv'
<1> DEFINE k == made + 1
<1>1. /\ k <= MaxSpans /\ made' = k
      /\ unsound' \subseteq unsound \union {k}
      /\ queue' = IF Fits THEN queue \union {k} ELSE queue
      /\ refused' = IF Fits THEN refused ELSE refused \union {k}
      /\ UNCHANGED <<pc, batch, attempt, stopVars, fates>>
  BY DEF Enqueue
<1>2. UNCHANGED <<pc, batch, attempt, stopping, closed, exiting, timedOut, before, exported,
                  dropped, lost, arrivals>>
  BY <1>1 DEF stopVars, fates
<1>3. TypeOK /\ Conservation /\ Delivery /\ Attempts
  BY DEF Inv
<1>4. /\ made \in Nat /\ k \in Nat /\ k \notin Made /\ Made' = Made \union {k}
      /\ k \in 1..MaxSpans /\ made' \in 0..MaxSpans
  <2>1. made \in Nat /\ MaxSpans \in Nat /\ Made = 1..made
    BY <1>3, Types, SpanExportAssumption DEF SpanExportAssumption
  <2>2. Made' = 1..k
    BY <1>1 DEF Made
  <2> QED BY <1>1, <2>1, <2>2
<1>5. /\ queue \subseteq Made /\ unsound \subseteq Made /\ refused \subseteq Made
      /\ exported \subseteq Made /\ dropped \subseteq Made /\ lost \subseteq Made
      /\ batch["thread"] \subseteq Made /\ batch["caller"] \subseteq Made
  BY <1>3, Types
<1> HIDE DEF k
<1>6. Cardinality(queue') <= MaxQueue
  <2>1. IsFiniteSet(queue) /\ Cardinality(queue) \in Nat
    BY <1>4, <1>5, FiniteMade
  <2>2. CASE Fits
    <3>1. Cardinality(queue \union {k}) = Cardinality(queue) + 1
      BY <1>4, <1>5, <2>1, FS_AddElement
    <3> QED BY <1>1, <2>1, <2>2, <3>1, SpanExportAssumption DEF Fits, SpanExportAssumption
  <2>3. CASE ~Fits
    BY <1>1, <1>3, <2>3 DEF TypeOK
  <2> QED BY <2>2, <2>3
<1>7. TypeOK'
  <2>1. batch' \in [Senders -> SUBSET Made']
    BY <1>2, <1>3, <1>4 DEF TypeOK
  <2>2. before' \in 0..made'
    <3>1. before \in Nat /\ before <= made
      BY <1>3, Types
    <3>2. before <= made + 1
      BY <1>4, <3>1
    <3> QED BY <1>1, <1>2, <1>4, <3>1, <3>2 DEF k
  <2>3. /\ queue' \subseteq Made' /\ unsound' \subseteq Made' /\ refused' \subseteq Made'
        /\ exported' \subseteq Made' /\ dropped' \subseteq Made' /\ lost' \subseteq Made'
    BY <1>1, <1>2, <1>4, <1>5
  <2>4. /\ \A s \in Senders : Cardinality(batch'[s]) <= BatchSize
        /\ attempt' \in [Senders -> 1..MaxRetries]
        /\ arrivals' \in [1..MaxSpans -> Nat]
    BY <1>2, <1>3 DEF TypeOK
  <2>5. /\ DOMAIN pc' = Senders
        /\ pc'["thread"] \in {"wait", "drain", "send", "dead"}
        /\ pc'["caller"] \in {"app", "join", "check", "drain", "send", "close", "raised",
                              "exited", "failed"}
        /\ stopping' \in BOOLEAN /\ closed' \in BOOLEAN /\ exiting' \in BOOLEAN
        /\ timedOut' \in BOOLEAN
    BY <1>2, <1>3, Types
  <2> QED BY <1>4, <1>6, <2>1, <2>2, <2>3, <2>4, <2>5, TypesKept
<1>8. Conservation'
  <2>1. /\ Settled' = Settled /\ k \notin Settled /\ k \notin Pending /\ k \notin refused
        /\ k \notin batch["thread"] /\ k \notin batch["caller"]
    BY <1>2, <1>4, <1>5 DEF Settled, Pending
  <2>2. CASE Fits
    <3>1. queue' = queue \union {k} /\ refused' = refused
      BY <1>1, <2>2
    <3>2. Pending' = Pending \union {k}
      BY <1>2, <3>1 DEF Pending
    <3> QED BY <1>2, <1>3, <1>4, <2>1, <3>1, <3>2 DEF Conservation
  <2>3. CASE ~Fits
    <3>1. queue' = queue /\ refused' = refused \union {k}
      BY <1>1, <2>3
    <3>2. Pending' = Pending
      BY <1>2, <3>1 DEF Pending
    <3> QED BY <1>2, <1>3, <1>4, <2>1, <3>1, <3>2 DEF Conservation
  <2> QED BY <2>2, <2>3
<1>9. Delivery'
  <2>1. arrivals[k] = 0
    BY <1>3, <1>4 DEF Attempts, k
  <2>2. queue' \union refused' \union lost' \subseteq queue \union refused \union lost \union {k}
    BY <1>1, <1>2
  <2> QED BY <1>2, <1>3, <2>1, <2>2 DEF Delivery
<1>10. Attempts'
  <2>1. \A j \in 1..MaxSpans : j > made' => j > made
    BY <1>1, <1>4 DEF k
  <2> QED BY <1>2, <1>3, <2>1 DEF Attempts
<1>11. Idle' /\ ClosedByStop' /\ JoinedInTime'
  BY <1>2 DEF Inv, Idle, ClosedByStop, JoinedInTime
<1>12. FoundEmpty'
  <2>1. before \in Nat /\ before <= made
    BY <1>3, Types
  <2>2. k > before
    BY <1>4, <2>1 DEF k
  <2>3. queue' \subseteq queue \union {k}
    BY <1>1
  <2> QED BY <1>2, <2>2, <2>3 DEF Inv, FoundEmpty
<1> QED BY <1>7, <1>8, <1>9, <1>10, <1>11, <1>12 DEF Inv

(* get_nowait moves the head of the queue to the batch. *)
LEMMA GetInv == ASSUME Inv, NEW s \in Senders, Get(s) PROVE Inv'
<1> DEFINE k == Oldest(queue)
<1>1. /\ pc[s] = "drain" /\ queue # {} /\ Cardinality(batch[s]) < BatchSize
      /\ batch' = [batch EXCEPT ![s] = batch[s] \union {k}]
      /\ queue' = queue \ {k}
      /\ UNCHANGED <<pc, attempt, spanVars, stopVars, fates>>
  BY DEF Get, NextOut, Left
<1>2. UNCHANGED <<pc, attempt, made, unsound, refused, stopping, closed, exiting, timedOut,
                  before, exported, dropped, lost, arrivals>> /\ Made' = Made
  BY <1>1 DEF spanVars, stopVars, fates, Made
<1>3. TypeOK /\ Conservation /\ Delivery /\ Attempts
  BY DEF Inv
<1>4. /\ queue \subseteq Made /\ Made \subseteq Nat /\ made \in Nat
      /\ batch \in [Senders -> SUBSET Made]
      /\ "thread" \in Senders /\ "caller" \in Senders
  BY <1>3, Types DEF TypeOK
<1>5. k \in queue
  BY <1>1, <1>4, HeadOfSet
<1> HIDE DEF k
<1>6. /\ batch'[s] = batch[s] \union {k}
      /\ \A r \in Senders : r # s => batch'[r] = batch[r]
      /\ batch' \in [Senders -> SUBSET Made]
  BY <1>1, <1>4, <1>5
<1>7. TypeOK'
  <2>1. Cardinality(queue') <= MaxQueue
    <3>1. IsFiniteSet(queue) /\ Cardinality(queue) \in Nat /\ IsFiniteSet(queue')
          /\ Cardinality(queue') <= Cardinality(queue) /\ Cardinality(queue') \in Nat
      BY <1>1, <1>4, FiniteMade, FS_Subset
    <3> QED BY <1>3, <3>1, SpanExportAssumption DEF TypeOK, SpanExportAssumption
  <2>2. \A r \in Senders : Cardinality(batch'[r]) <= BatchSize
    <3>1. Cardinality(batch'[s]) <= BatchSize
      <4>1. IsFiniteSet(batch[s]) /\ Cardinality(batch[s]) \in Nat
        BY <1>4, FiniteMade
      <4>2. Cardinality(batch[s] \union {k}) <= Cardinality(batch[s]) + 1
            /\ Cardinality(batch[s] \union {k}) \in Nat
        BY <4>1, FS_AddElement
      <4> QED BY <1>1, <1>6, <4>1, <4>2, SpanExportAssumption DEF SpanExportAssumption
    <3> QED BY <1>3, <1>6, <3>1 DEF TypeOK
  <2>3. /\ queue' \subseteq Made' /\ unsound' \subseteq Made' /\ refused' \subseteq Made'
        /\ exported' \subseteq Made' /\ dropped' \subseteq Made' /\ lost' \subseteq Made'
        /\ DOMAIN pc' = Senders
        /\ pc'["thread"] \in {"wait", "drain", "send", "dead"}
        /\ pc'["caller"] \in {"app", "join", "check", "drain", "send", "close", "raised",
                              "exited", "failed"}
        /\ stopping' \in BOOLEAN /\ closed' \in BOOLEAN /\ exiting' \in BOOLEAN
        /\ timedOut' \in BOOLEAN
    BY <1>1, <1>2, <1>3, Types
  <2>4. /\ made' \in 0..MaxSpans /\ before' \in 0..made'
        /\ attempt' \in [Senders -> 1..MaxRetries] /\ arrivals' \in [1..MaxSpans -> Nat]
        /\ batch' \in [Senders -> SUBSET Made']
    BY <1>2, <1>3, <1>6 DEF TypeOK
  <2> QED BY <2>1, <2>2, <2>3, <2>4, TypesKept
<1>8. Conservation'
  <2>1. k \notin batch["thread"] /\ k \notin batch["caller"]
    BY <1>3, <1>5 DEF Conservation
  <2>2. \/ batch'["thread"] = batch["thread"] \union {k} /\ batch'["caller"] = batch["caller"]
        \/ batch'["caller"] = batch["caller"] \union {k} /\ batch'["thread"] = batch["thread"]
    BY <1>4, <1>6 DEF Senders
  <2>3. Pending' = Pending
    BY <1>1, <1>5, <2>2 DEF Pending
  <2>4. Settled' = Settled
    BY <1>2 DEF Settled
  <2>5. /\ queue' \intersect (batch'["thread"] \union batch'["caller"]) = {}
        /\ batch'["thread"] \intersect batch'["caller"] = {}
    BY <1>1, <1>3, <2>1, <2>2 DEF Conservation
  <2> QED BY <1>2, <1>3, <2>3, <2>4, <2>5 DEF Conservation
<1>9. Delivery' /\ Attempts'
  <2>1. arrivals[k] = 0 /\ queue' \subseteq queue
    BY <1>1, <1>3, <1>5 DEF Delivery
  <2>2. Delivery'
    BY <1>2, <1>3, <2>1 DEF Delivery
  <2>3. Attempts'
    BY <1>1, <1>2, <1>3, <1>6, <2>1 DEF Attempts
  <2> QED BY <2>2, <2>3
<1>10. Idle'
  BY <1>1, <1>2, <1>6 DEF Inv, Idle
<1>11. ClosedByStop' /\ JoinedInTime' /\ FoundEmpty'
  BY <1>1, <1>2 DEF Inv, ClosedByStop, JoinedInTime, FoundEmpty
<1> QED BY <1>7, <1>8, <1>9, <1>10, <1>11 DEF Inv

(* A sender that leaves its batch, by whatever way, keeps the flags' sense.*)
LEMMA SenderMoves ==
    ASSUME Inv, NEW s \in Senders, pc[s] \in {"drain", "send"}, NEW q,
           s = "thread" => q \in {"wait", "send", "dead"},
           s = "caller" => q \in {"check", "send", "close", "raised"},
           q = "close" => queue = {},
           pc' = [pc EXCEPT ![s] = q],
           UNCHANGED <<queue, stopVars>>
    PROVE  /\ DOMAIN pc' = Senders
           /\ pc'[s] = q /\ \A r \in Senders : r # s => pc'[r] = pc[r]
           /\ pc'["thread"] \in {"wait", "drain", "send", "dead"}
           /\ pc'["caller"] \in {"app", "join", "check", "drain", "send", "close", "raised",
                                 "exited", "failed"}
           /\ ClosedByStop' /\ JoinedInTime' /\ FoundEmpty'
<1>1. UNCHANGED <<queue, stopping, closed, exiting, timedOut, before>>
  BY DEF stopVars
<1>2. DOMAIN pc = Senders /\ pc["thread"] \in {"wait", "drain", "send", "dead"}
      /\ pc["caller"] \in {"app", "join", "check", "drain", "send", "close", "raised",
                           "exited", "failed"}
  BY Types DEF Inv
<1>3. DOMAIN pc' = Senders /\ pc'[s] = q /\ \A r \in Senders : r # s => pc'[r] = pc[r]
  BY <1>2
<1>4. CASE s = "thread"
  <2>1. pc'["thread"] = q /\ pc'["caller"] = pc["caller"]
    BY <1>3, <1>4 DEF Senders
  <2>2. pc["thread"] # "dead"
    BY <1>4
  <2>3. ClosedByStop' /\ JoinedInTime' /\ FoundEmpty'
    BY <1>1, <2>1, <2>2 DEF Inv, ClosedByStop, JoinedInTime, FoundEmpty
  <2> QED BY <1>2, <1>3, <1>4, <2>1, <2>3
<1>5. CASE s = "caller"
  <2>1. pc'["caller"] = q /\ pc'["thread"] = pc["thread"]
    BY <1>3, <1>5 DEF Senders
  <2>2. ClosedByStop' /\ JoinedInTime' /\ FoundEmpty'
    BY <1>1, <1>5, <2>1 DEF Inv, ClosedByStop, JoinedInTime, FoundEmpty, Flushing
  <2> QED BY <1>2, <1>3, <1>5, <2>1, <2>2
<1> QED BY <1>4, <1>5 DEF Senders

(* What of the types a sender's step has to show. *)
LEMMA SenderTypes ==
    ASSUME TypeOK, UNCHANGED <<queue, spanVars, stopVars>>,
           DOMAIN pc' = Senders,
           pc'["thread"] \in {"wait", "drain", "send", "dead"},
           pc'["caller"] \in {"app", "join", "check", "drain", "send", "close", "raised",
                              "exited", "failed"},
           exported' \subseteq Made, dropped' \subseteq Made, lost' \subseteq Made,
           NEW s \in Senders, batch' = batch \/ batch' = [batch EXCEPT ![s] = {}],
           attempt' \in [Senders -> 1..MaxRetries],
           arrivals' \in [1..MaxSpans -> Nat]
    PROVE  TypeOK'
<1>1. UNCHANGED <<queue, made, unsound, refused, stopping, closed, exiting, timedOut, before>>
      /\ Made' = Made
  BY DEF spanVars, stopVars, Made
<1>2. batch \in [Senders -> SUBSET Made]
  BY DEF TypeOK
<1>3. batch' \in [Senders -> SUBSET Made'] /\ \A r \in Senders : batch'[r] \in {batch[r], {}}
  BY <1>1, <1>2
<1>4. \A r \in Senders : Cardinality(batch'[r]) <= BatchSize
  <2>1. Cardinality({}) = 0 /\ 0 <= BatchSize
    BY FS_EmptySet, SpanExportAssumption DEF SpanExportAssumption
  <2> QED BY <1>3, <2>1 DEF TypeOK
<1>5. /\ queue' \subseteq Made' /\ unsound' \subseteq Made' /\ refused' \subseteq Made'
      /\ exported' \subseteq Made' /\ dropped' \subseteq Made' /\ lost' \subseteq Made'
      /\ stopping' \in BOOLEAN /\ closed' \in BOOLEAN /\ exiting' \in BOOLEAN
      /\ timedOut' \in BOOLEAN
  BY <1>1, Types
<1>6. made' \in 0..MaxSpans /\ before' \in 0..made' /\ Cardinality(queue') <= MaxQueue
  BY <1>1 DEF TypeOK
<1> QED BY <1>3, <1>4, <1>5, <1>6, TypesKept

(* A batch whose spans find their fate leaves every other span where it is.*)
LEMMA BatchSettled ==
    ASSUME TypeOK, Conservation, NEW s \in Senders,
           UNCHANGED <<queue, spanVars>>,
           batch' = [batch EXCEPT ![s] = {}],
           \/ exported' = exported \union batch[s] /\ UNCHANGED <<dropped, lost>>
           \/ dropped' = dropped \union batch[s] /\ UNCHANGED <<exported, lost>>
           \/ lost' = lost \union batch[s] /\ UNCHANGED <<exported, dropped>>
    PROVE  Conservation'
<1>1. UNCHANGED <<made, refused>> /\ Made' = Made
  BY DEF spanVars, Made
<1>2. batch \in [Senders -> SUBSET Made]
  BY DEF TypeOK
<1>3. /\ batch'[s] = {} /\ \A r \in Senders : r # s => batch'[r] = batch[r]
      /\ "thread" \in Senders /\ "caller" \in Senders
  BY <1>2 DEF Senders
<1>4. Settled' = Settled \union batch[s]
  BY DEF Settled
<1>5. PICK r \in Senders : r # s /\ Senders = {r, s}
  BY DEF Senders
<1>6. /\ Pending = queue \union batch[s] \union batch[r]
      /\ Pending' = queue \union batch[r]
  BY <1>3, <1>5 DEF Pending, Senders
<1>7. /\ queue \intersect (batch[s] \union batch[r]) = {} /\ batch[s] \intersect batch[r] = {}
      /\ batch[s] \intersect Settled = {}
  BY <1>5, <1>6 DEF Conservation, Senders
<1>8. /\ queue' \intersect (batch'["thread"] \union batch'["caller"]) = {}
      /\ batch'["thread"] \intersect batch'["caller"] = {}
  <2>1. batch'["thread"] \subseteq batch["thread"] /\ batch'["caller"] \subseteq batch["caller"]
    BY <1>3
  <2> QED BY <2>1 DEF Conservation
<1>9. /\ exported' \intersect (dropped' \union lost') = {}
      /\ dropped' \intersect lost' = {}
  <2>1. /\ batch[s] \intersect exported = {} /\ batch[s] \intersect dropped = {}
        /\ batch[s] \intersect lost = {}
    BY <1>7 DEF Settled
  <2> QED BY <2>1 DEF Conservation
<1>10. Made' = refused' \union Settled' \union Pending'
  BY <1>1, <1>4, <1>6 DEF Conservation
<1>11. refused' \intersect (Settled' \union Pending') = {} /\ Settled' \intersect Pending' = {}
  BY <1>1, <1>4, <1>6, <1>7 DEF Conservation
<1> QED BY <1>8, <1>9, <1>10, <1>11 DEF Conservation

(* The end of drain_batch. *)
LEMMA DrainedInv == ASSUME Inv, NEW s \in Senders, Drained(s) PROVE Inv'
<1>1. /\ pc[s] = "drain"
      /\ queue = {} \/ Cardinality(batch[s]) = BatchSize
      /\ attempt' = [attempt EXCEPT ![s] = 1]
      /\ UNCHANGED <<queue, spanVars, stopVars, exported, dropped, arrivals>>
  BY DEF Drained
<1>2. UNCHANGED <<made, refused, stopping, closed, exiting, timedOut, before>>
  BY <1>1 DEF spanVars, stopVars
<1>3. TypeOK /\ Conservation /\ Delivery /\ Attempts
  BY DEF Inv
<1>4. pc[s] = "drain" /\ attempt \in [Senders -> 1..MaxRetries] /\ 1 \in 1..MaxRetries
      /\ batch \in [Senders -> SUBSET Made]
  BY <1>3, SpanExportAssumption DEF Drained, TypeOK, SpanExportAssumption
<1>5. /\ attempt' \in [Senders -> 1..MaxRetries] /\ attempt'[s] = 1
      /\ \A r \in Senders : r # s => attempt'[r] = attempt[r]
  BY <1>1, <1>4
<1>6. /\ lost \subseteq Made /\ batch[s] \subseteq Made
      /\ exported \subseteq Made /\ dropped \subseteq Made
      /\ arrivals \in [1..MaxSpans -> Nat] /\ Made \subseteq 1..MaxSpans
  BY <1>3, Types DEF TypeOK
<1>7. \A k \in batch[s] : arrivals[k] = 0
  <2> SUFFICES ASSUME NEW k \in batch[s] PROVE arrivals[k] = 0
    OBVIOUS
  <2>1. arrivals[k] < 1 /\ arrivals[k] \in Nat
    BY <1>3, <1>4, <1>6 DEF Attempts
  <2> QED BY <2>1
<1>8. batch[s] = {} => queue = {}
  <2>1. Cardinality({}) = 0 /\ BatchSize # 0
    BY FS_EmptySet, SpanExportAssumption DEF SpanExportAssumption
  <2> QED BY <2>1 DEF Drained
<1>9. CASE /\ batch[s] = {}
           /\ pc' = [pc EXCEPT ![s] = IF s = "caller" THEN "close" ELSE After(s)]
           /\ UNCHANGED <<batch, lost>>
  <2> DEFINE q == IF s = "caller" THEN "close" ELSE After(s)
  <2>1. /\ s = "thread" => q \in {"wait", "send", "dead"}
        /\ s = "caller" => q \in {"check", "send", "close", "raised"}
        /\ q = "close" => queue = {}
        /\ q # "send"
    BY <1>8, <1>9 DEF After, Senders
  <2>2. pc' = [pc EXCEPT ![s] = q]
    BY <1>9
  <2> HIDE DEF q
  <2>3. /\ DOMAIN pc' = Senders
        /\ pc'[s] = q /\ \A r \in Senders : r # s => pc'[r] = pc[r]
        /\ pc'["thread"] \in {"wait", "drain", "send", "dead"}
        /\ pc'["caller"] \in {"app", "join", "check", "drain", "send", "close", "raised",
                              "exited", "failed"}
        /\ ClosedByStop' /\ JoinedInTime' /\ FoundEmpty'
    BY <1>1, <1>4, <2>1, <2>2, SenderMoves
  <2>4. TypeOK'
    BY <1>1, <1>3, <1>5, <1>6, <1>9, <2>3, SenderTypes
  <2>5. Conservation'
    BY <1>1, <1>2, <1>3, <1>9 DEF Conservation, Settled, Pending, Made
  <2>6. Delivery'
    BY <1>1, <1>2, <1>3, <1>9 DEF Delivery
  <2>7. Attempts'
    BY <1>1, <1>2, <1>3, <1>5, <1>9, <2>3 DEF Attempts
  <2>8. Idle'
    BY <1>9, <2>3 DEF Inv, Idle
  <2> QED BY <2>3, <2>4, <2>5, <2>6, <2>7, <2>8 DEF Inv
<1>10. CASE batch[s] # {} /\ pc' = [pc EXCEPT ![s] = "send"] /\ UNCHANGED <<batch, lost>>
  <2>1. /\ DOMAIN pc' = Senders
        /\ pc'[s] = "send" /\ \A r \in Senders : r # s => pc'[r] = pc[r]
        /\ pc'["thread"] \in {"wait", "drain", "send", "dead"}
        /\ pc'["caller"] \in {"app", "join", "check", "drain", "send", "close", "raised",
                              "exited", "failed"}
        /\ ClosedByStop' /\ JoinedInTime' /\ FoundEmpty'
    BY <1>1, <1>4, <1>10, SenderMoves
  <2>2. TypeOK'
    BY <1>1, <1>3, <1>5, <1>6, <1>10, <2>1, SenderTypes
  <2>3. Conservation'
    BY <1>1, <1>2, <1>3, <1>10 DEF Conservation, Settled, Pending, Made
  <2>4. Delivery'
    BY <1>1, <1>2, <1>3, <1>10 DEF Delivery
  <2>5. Attempts'
    BY <1>1, <1>2, <1>3, <1>5, <1>7, <1>10, <2>1 DEF Attempts
  <2>6. Idle'
    BY <1>10, <2>1 DEF Inv, Idle
  <2> QED BY <2>1, <2>2, <2>3, <2>4, <2>5, <2>6 DEF Inv
<1>11. CASE /\ pc' = [pc EXCEPT ![s] = IF s = "caller" THEN "raised" ELSE "dead"]
            /\ lost' = lost \union batch[s]
            /\ batch' = [batch EXCEPT ![s] = {}]
  <2> DEFINE q == IF s = "caller" THEN "raised" ELSE "dead"
  <2>1. /\ s = "thread" => q \in {"wait", "send", "dead"}
        /\ s = "caller" => q \in {"check", "send", "close", "raised"}
        /\ q # "close" /\ q # "send"
    OBVIOUS
  <2>2. pc' = [pc EXCEPT ![s] = q]
    BY <1>11
  <2> HIDE DEF q
  <2>3. /\ DOMAIN pc' = Senders
        /\ pc'[s] = q /\ \A r \in Senders : r # s => pc'[r] = pc[r]
        /\ pc'["thread"] \in {"wait", "drain", "send", "dead"}
        /\ pc'["caller"] \in {"app", "join", "check", "drain", "send", "close", "raised",
                              "exited", "failed"}
        /\ ClosedByStop' /\ JoinedInTime' /\ FoundEmpty'
    BY <1>1, <1>4, <2>1, <2>2, SenderMoves
  <2>4. /\ batch'[s] = {} /\ \A r \in Senders : r # s => batch'[r] = batch[r]
        /\ lost' \subseteq Made
    BY <1>4, <1>6, <1>11
  <2>5. TypeOK'
    BY <1>1, <1>3, <1>5, <1>6, <1>11, <2>3, <2>4, SenderTypes
  <2>6. Conservation'
    BY <1>1, <1>3, <1>11, BatchSettled
  <2>7. Delivery'
    BY <1>1, <1>2, <1>3, <1>7, <1>11 DEF Delivery
  <2>8. Attempts'
    BY <1>1, <1>2, <1>3, <1>5, <2>3, <2>4 DEF Attempts
  <2>9. Idle'
    BY <2>3, <2>4 DEF Inv, Idle
  <2> QED BY <2>3, <2>5, <2>6, <2>7, <2>8, <2>9 DEF Inv
<1> QED BY <1>9, <1>10, <1>11 DEF Drained

(* A post may arrive: the spans of its batch once more, no others. *)
LEMMA Posted ==
    ASSUME TypeOK, NEW s \in Senders, Arrive(s) \/ UNCHANGED arrivals
    PROVE  /\ arrivals' \in [1..MaxSpans -> Nat]
           /\ \A k \in 1..MaxSpans : k \notin batch[s] => arrivals'[k] = arrivals[k]
           /\ \A k \in batch[s] : arrivals'[k] \in {arrivals[k], arrivals[k] + 1}
           /\ Arrive(s) => \A k \in batch[s] : arrivals'[k] >= 1
<1>1. arrivals \in [1..MaxSpans -> Nat] /\ batch[s] \subseteq 1..MaxSpans
  BY Types DEF TypeOK
<1>2. CASE Arrive(s)
  <2>1. \A k \in 1..MaxSpans :
            arrivals'[k] = IF k \in batch[s] THEN arrivals[k] + 1 ELSE arrivals[k]
    BY <1>1, <1>2 DEF Arrive
  <2>2. arrivals' \in [1..MaxSpans -> Nat]
    BY <1>1, <1>2 DEF Arrive
  <2>3. \A k \in batch[s] : arrivals'[k] = arrivals[k] + 1 /\ arrivals[k] \in Nat
    BY <1>1, <2>1
  <2> QED BY <1>1, <2>1, <2>2, <2>3
<1>3. CASE UNCHANGED arrivals /\ ~Arrive(s)
  BY <1>1, <1>3
<1> QED BY <1>2, <1>3

(* What a post of the batch of s adds to the arrivals keeps every bound.   *)
LEMMA PostBounds ==
    ASSUME Inv, NEW s \in Senders, pc[s] = "send", Arrive(s) \/ UNCHANGED arrivals
    PROVE  /\ \A k \in 1..MaxSpans : arrivals'[k] <= MaxRetries
           /\ \A k \in queue \union refused \union lost : arrivals'[k] = 0
           /\ \A k \in exported : arrivals'[k] >= 1
           /\ \A r \in Senders : r # s =>
                 \A k \in batch[r] : arrivals'[k] < IF pc[r] = "send" THEN attempt[r] ELSE 1
           /\ \A k \in batch[s] : arrivals'[k] <= attempt[s]
           /\ \A k \in 1..MaxSpans : k > made => arrivals'[k] = 0
<1>1. TypeOK /\ Conservation /\ Delivery /\ Attempts
  BY DEF Inv
<1>2. /\ arrivals' \in [1..MaxSpans -> Nat]
      /\ \A k \in 1..MaxSpans : k \notin batch[s] => arrivals'[k] = arrivals[k]
      /\ \A k \in batch[s] : arrivals'[k] \in {arrivals[k], arrivals[k] + 1}
  BY <1>1, Posted
<1>3. /\ Made \subseteq 1..MaxSpans /\ Made = 1..made /\ made \in Nat
      /\ batch[s] \subseteq Made /\ \A r \in Senders : batch[r] \subseteq Made
      /\ queue \union refused \union lost \subseteq Made /\ exported \subseteq Made
      /\ arrivals \in [1..MaxSpans -> Nat]
      /\ attempt[s] \in 1..MaxRetries /\ MaxRetries \in Nat
  BY <1>1, Types, SpanExportAssumption DEF TypeOK, SpanExportAssumption
<1>4. \A k \in batch[s] : arrivals'[k] <= attempt[s] /\ attempt[s] <= MaxRetries
  <2> SUFFICES ASSUME NEW k \in batch[s] PROVE arrivals'[k] <= attempt[s]
    BY <1>3
  <2>1. arrivals[k] < attempt[s] /\ arrivals[k] \in Nat
    BY <1>1, <1>3 DEF Attempts
  <2> QED BY <1>2, <1>3, <2>1
<1>5. \A k \in 1..MaxSpans : arrivals'[k] <= MaxRetries
  <2> SUFFICES ASSUME NEW k \in 1..MaxSpans PROVE arrivals'[k] <= MaxRetries
    OBVIOUS
  <2>1. CASE k \in batch[s]
    BY <1>2, <1>3, <1>4, <2>1
  <2>2. CASE k \notin batch[s]
    BY <1>1, <1>2, <2>2 DEF Delivery
  <2> QED BY <2>1, <2>2
<1>6. batch[s] \intersect (queue \union refused \union lost) = {}
  BY <1>1 DEF Conservation, Pending, Settled, Senders
<1>7. batch[s] \intersect exported = {}
  BY <1>1 DEF Conservation, Pending, Settled, Senders
<1>8. \A r \in Senders : r # s => batch[s] \intersect batch[r] = {}
  BY <1>1 DEF Conservation, Senders
<1>9. \A k \in queue \union refused \union lost : arrivals'[k] = 0
  BY <1>1, <1>2, <1>3, <1>6 DEF Delivery
<1>10. \A k \in exported : arrivals'[k] >= 1
  BY <1>1, <1>2, <1>3, <1>7 DEF Delivery
<1>11. \A r \in Senders : r # s =>
          \A k \in batch[r] : arrivals'[k] < IF pc[r] = "send" THEN attempt[r] ELSE 1
  BY <1>1, <1>2, <1>3, <1>8 DEF Attempts
<1>12. \A k \in 1..MaxSpans : k > made => arrivals'[k] = 0
  <2>1. \A k \in 1..MaxSpans : k > made => k \notin batch[s]
    BY <1>3
  <2> QED BY <1>1, <1>2, <2>1 DEF Attempts
<1> QED BY <1>4, <1>5, <1>9, <1>10, <1>11, <1>12

(* A sender done with its batch, counted as exported or as dropped.        *)
LEMMA FinishInv ==
    ASSUME Inv, NEW s \in Senders, pc[s] = "send", Finish(s),
           Arrive(s) \/ UNCHANGED arrivals,
           UNCHANGED <<queue, spanVars, stopVars, lost>>,
           \/ Arrive(s) /\ exported' = exported \union batch[s] /\ UNCHANGED dropped
           \/ dropped' = dropped \union batch[s] /\ UNCHANGED exported
    PROVE  Inv'
<1>1. TypeOK /\ Conservation
  BY DEF Inv
<1>2. /\ batch' = [batch EXCEPT ![s] = {}] /\ pc' = [pc EXCEPT ![s] = After(s)]
      /\ attempt' = attempt
      /\ UNCHANGED <<made, refused, lost, queue>>
  BY DEF Finish, spanVars
<1>3. /\ s = "thread" => After(s) \in {"wait", "send", "dead"}
      /\ s = "caller" => After(s) \in {"check", "send", "close", "raised"}
      /\ After(s) # "close" /\ After(s) # "send"
  BY DEF After, Senders
<1>4. /\ DOMAIN pc' = Senders
      /\ pc'[s] = After(s) /\ \A r \in Senders : r # s => pc'[r] = pc[r]
      /\ pc'["thread"] \in {"wait", "drain", "send", "dead"}
      /\ pc'["caller"] \in {"app", "join", "check", "drain", "send", "close", "raised",
                            "exited", "failed"}
      /\ ClosedByStop' /\ JoinedInTime' /\ FoundEmpty'
  BY <1>2, <1>3, SenderMoves
<1>5. /\ batch \in [Senders -> SUBSET Made] /\ attempt \in [Senders -> 1..MaxRetries]
      /\ exported \subseteq Made /\ dropped \subseteq Made /\ lost \subseteq Made
      /\ batch[s] \subseteq Made
  BY <1>1, Types DEF TypeOK
<1>6. batch'[s] = {} /\ \A r \in Senders : r # s => batch'[r] = batch[r]
  BY <1>2, <1>5
<1>7. TypeOK'
  <2>1. arrivals' \in [1..MaxSpans -> Nat]
    BY <1>1, Posted
  <2>2. exported' \subseteq Made /\ dropped' \subseteq Made /\ lost' \subseteq Made
    BY <1>2, <1>5
  <2> QED BY <1>1, <1>2, <1>4, <1>5, <2>1, <2>2, SenderTypes
<1>8. Conservation'
  BY <1>1, <1>2, BatchSettled
<1>9. Delivery'
  <2>1. \A k \in exported' : arrivals'[k] >= 1
    BY <1>1, Posted, PostBounds
  <2> QED BY <1>2, <2>1, PostBounds DEF Delivery
<1>10. Attempts'
  BY <1>2, <1>4, <1>6, PostBounds DEF Attempts
<1>11. Idle'
  BY <1>3, <1>4, <1>6 DEF Inv, Idle
<1> QED BY <1>4, <1>7, <1>8, <1>9, <1>10, <1>11 DEF Inv

LEMMA AcceptedInv == ASSUME Inv, NEW s \in Senders, Accepted(s) PROVE Inv'
BY FinishInv DEF Accepted

LEMMA FailedInv == ASSUME Inv, NEW s \in Senders, Failed(s) PROVE Inv'
BY FinishInv DEF Failed, SettledAs

(* An answer that is retried, unless the attempts are used up. *)
LEMMA TransientInv == ASSUME Inv, NEW s \in Senders, Transient(s) PROVE Inv'
<1>1. /\ pc[s] = "send"
      /\ Arrive(s) \/ UNCHANGED arrivals
      /\ UNCHANGED <<queue, spanVars, stopVars, exported, lost>>
  BY DEF Transient
<1>2. CASE SettledAs(s)
  BY <1>1, <1>2, FinishInv DEF SettledAs
<1>3. CASE /\ attempt[s] # MaxRetries /\ attempt' = [attempt EXCEPT ![s] = attempt[s] + 1]
           /\ UNCHANGED <<batch, pc, dropped>>
  <2>1. TypeOK /\ Conservation
    BY DEF Inv
  <2>2. pc[s] = "send" /\ (Arrive(s) \/ UNCHANGED arrivals)
    BY DEF Transient
  <2>3. UNCHANGED <<queue, pc, batch, made, unsound, refused, stopping, closed, exiting,
                    timedOut, before, exported, dropped, lost>>
    BY <1>1, <1>3 DEF spanVars, stopVars
  <2>4. attempt \in [Senders -> 1..MaxRetries] /\ MaxRetries \in Nat
    BY <2>1, SpanExportAssumption DEF TypeOK, SpanExportAssumption
  <2>5. /\ attempt'[s] = attempt[s] + 1 /\ attempt[s] \in Nat
        /\ \A r \in Senders : r # s => attempt'[r] = attempt[r]
        /\ attempt' \in [Senders -> 1..MaxRetries]
    <3>1. attempt[s] \in 1..MaxRetries /\ attempt[s] # MaxRetries
      BY <1>3, <2>4
    <3>2. attempt[s] + 1 \in 1..MaxRetries
      BY <2>4, <3>1
    <3> QED BY <1>3, <2>4, <3>1, <3>2
  <2>6. TypeOK'
    <3>1. arrivals' \in [1..MaxSpans -> Nat]
      BY <2>1, <2>2, Posted
    <3>2. exported' \subseteq Made /\ dropped' \subseteq Made /\ lost' \subseteq Made
      BY <2>1, <2>3, Types
    <3> QED BY <1>1, <2>1, <2>3, <2>5, <3>1, <3>2, Types, SenderTypes
  <2>7. Conservation'
    BY <2>1, <2>3 DEF Conservation, Settled, Pending, Made
  <2>8. Delivery'
    BY <2>2, <2>3, PostBounds DEF Delivery
  <2>9. Attempts'
    <3>1. \A r \in Senders : \A k \in batch'[r] :
             arrivals'[k] < IF pc'[r] = "send" THEN attempt'[r] ELSE 1
      <4> SUFFICES ASSUME NEW r \in Senders, NEW k \in batch[r]
                   PROVE  arrivals'[k] < IF pc[r] = "send" THEN attempt'[r] ELSE 1
        BY <2>3
      <4>1. CASE r = s
        <5>1. arrivals'[k] <= attempt[s] /\ arrivals'[k] \in Nat
          BY <2>1, <2>2, <4>1, PostBounds, Posted, Types
        <5> QED BY <2>2, <2>5, <4>1, <5>1
      <4>2. CASE r # s
        BY <2>2, <2>5, <4>2, PostBounds
      <4> QED BY <4>1, <4>2
    <3>2. \A k \in 1..MaxSpans : k > made' => arrivals'[k] = 0
      BY <2>2, <2>3, PostBounds
    <3> QED BY <3>1, <3>2 DEF Attempts
  <2>10. Idle' /\ ClosedByStop' /\ JoinedInTime' /\ FoundEmpty'
    BY <2>3 DEF Inv, Idle, ClosedByStop, JoinedInTime, FoundEmpty
  <2> QED BY <2>6, <2>7, <2>8, <2>9, <2>10 DEF Inv
<1> QED BY <1>2, <1>3 DEF Transient, LastAttempt

-----------------------------------------------------------------------------

LEMMA NextInv == Inv /\ [Next]_vars => Inv'
<1> SUFFICES ASSUME Inv, [Next]_vars PROVE Inv'
  OBVIOUS
<1>1. ASSUME NEW b \in BOOLEAN, Enqueue(b) PROVE Inv'
  BY <1>1, EnqueueInv
<1>2. ASSUME NEW s \in Senders, Send(s) PROVE Inv'
  BY <1>2, GetInv, DrainedInv, AcceptedInv, TransientInv, FailedInv DEF Send
<1>3. CASE Thread
  BY <1>2, <1>3, WakeInv DEF Thread, Senders
<1>4. CASE Caller
  BY <1>2, <1>4, JoinInv, CheckInv, CloseInv, ExitRaisedInv DEF Caller, Senders
<1>5. CASE CallStop \/ Exit
  BY <1>5, CallStopInv, ExitInv
<1>6. CASE UNCHANGED vars
  <2>1. UNCHANGED <<queue, pc, batch, attempt, spanVars, stopVars, fates>>
    BY <1>6 DEF vars
  <2>2. UNCHANGED <<queue, made, batch, attempt, refused, exported, dropped, lost, arrivals,
                    stopping, closed, exiting, timedOut, before>>
    BY <2>1 DEF spanVars, stopVars, fates
  <2>3. TypeOK'
    <3>1. before' \in 0..made
      BY <2>2 DEF Inv, TypeOK
    <3> QED BY <2>1, <2>2, <3>1, Types, ControlTypes DEF Inv
  <2>4. Conservation' /\ Delivery' /\ Attempts'
    BY <2>1, <2>2, SpansKept DEF Inv
  <2>5. Idle' /\ ClosedByStop' /\ JoinedInTime' /\ FoundEmpty'
    BY <2>1, <2>2 DEF Inv, Idle, ClosedByStop, JoinedInTime, FoundEmpty
  <2> QED BY <2>3, <2>4, <2>5 DEF Inv
<1> QED BY <1>1, <1>3, <1>4, <1>5, <1>6 DEF Next

(* The invariant holds in every reachable state. *)
THEOREM Invariance == Spec => []Inv
BY InitInv, NextInv, PTL DEF Spec

(* The variables have their types; neither the queue nor a batch exceeds   *)
(* its size.                                                               *)
THEOREM TypeCorrect == Spec => []TypeOK
<1>1. Inv => TypeOK
  BY DEF Inv
<1> QED BY <1>1, Invariance, PTL

(* Every finished span has one fate, however the daemon and the thread in  *)
(* stop() interleave.                                                      *)
THEOREM ConservationCorrect == Spec => []Conservation
<1>1. Inv => Conservation
  BY DEF Inv
<1> QED BY <1>1, Invariance, PTL

(* What is counted as exported has arrived, nothing arrives more often     *)
(* than max_retries, and what was never sent does not arrive.              *)
THEOREM DeliveryCorrect == Spec => []Delivery
<1>1. Inv => Delivery
  BY DEF Inv
<1> QED BY <1>1, Invariance, PTL

(* A stop() that closes the client leaves nothing on the queue that was    *)
(* finished before it, and nothing in flight if the daemon ended in time.  *)
THEOREM FlushCorrect == Spec => []StopFlushes
<1>1. Inv => StopFlushes
  <2> SUFFICES ASSUME Inv, closed, pc["caller"] \in {"app", "exited"}
               PROVE  /\ \A k \in queue : k > before
                      /\ ~timedOut => Pending \subseteq queue
    BY DEF StopFlushes
  <2>1. \A k \in queue : k > before
    BY DEF Inv, FoundEmpty
  <2>2. ASSUME ~timedOut PROVE Pending \subseteq queue
    <3>1. pc["thread"] = "dead"
      BY <2>2 DEF Inv, JoinedInTime
    <3>2. batch["thread"] = {} /\ batch["caller"] = {}
      BY <3>1 DEF Inv, Idle, Senders
    <3> QED BY <3>2 DEF Pending
  <2> QED BY <2>1, <2>2
<1> QED BY <1>1, Invariance, PTL

-----------------------------------------------------------------------------
(* Order.  As long as the daemon was joined in time there is one sender.   *)

Alone == ~timedOut /\ closed => pc["caller"] \in {"app", "exited", "failed"}

OrderInv == SettledInOrder /\ Alone

LEMMA InitOrder == Init => OrderInv
<1> SUFFICES ASSUME Init PROVE OrderInv
  OBVIOUS
<1>1. /\ queue = {} /\ exported = {} /\ dropped = {} /\ lost = {} /\ closed = FALSE
      /\ batch["thread"] = {} /\ batch["caller"] = {}
  BY DEF Init, Senders
<1> QED BY <1>1 DEF OrderInv, SettledInOrder, Alone, Settled, Pending, Senders

(* A step keeps the order if the settled spans, the batches and the queue  *)
(* stay one below the other.                                               *)
LEMMA OrderKept ==
    ASSUME OrderInv, UNCHANGED <<queue, batch, exported, dropped, lost>>,
           timedOut => timedOut'
    PROVE  SettledInOrder'
BY DEF OrderInv, SettledInOrder, Settled, Pending

LEMMA EnqueueOrder ==
    ASSUME Inv, OrderInv, NEW b \in BOOLEAN, Enqueue(b)
    PROVE  OrderInv'
<1> DEFINE k == made + 1
<1>1. /\ queue' \subseteq queue \union {k}
      /\ UNCHANGED <<pc, batch, closed, timedOut, exported, dropped, lost>>
  BY DEF Enqueue, stopVars, fates
<1>2. \A j \in Made : j < k
  BY Types DEF Inv
<1>3. /\ exported \subseteq Made /\ dropped \subseteq Made /\ lost \subseteq Made
      /\ \A s \in Senders : batch[s] \subseteq Made
  BY Types DEF Inv
<1> HIDE DEF k
<1>4. Settled' = Settled /\ Settled \subseteq Made /\ Pending' \subseteq Pending \union {k}
  BY <1>1, <1>3 DEF Settled, Pending
<1>5. SettledInOrder'
  BY <1>1, <1>2, <1>3, <1>4 DEF OrderInv, SettledInOrder
<1>6. Alone'
  BY <1>1 DEF OrderInv, Alone
<1> QED BY <1>5, <1>6 DEF OrderInv

LEMMA GetOrder ==
    ASSUME Inv, OrderInv, NEW s \in Senders, Get(s)
    PROVE  OrderInv'
<1> DEFINE k == Oldest(queue)
<1>1. /\ queue # {} /\ batch' = [batch EXCEPT ![s] = batch[s] \union {k}]
      /\ queue' = queue \ {k} /\ UNCHANGED <<pc, closed, timedOut, exported, dropped, lost>>
  BY DEF Get, NextOut, Left, stopVars, fates
<1>2. queue \subseteq Nat /\ batch \in [Senders -> SUBSET Made]
  BY Types DEF Inv, TypeOK
<1>3. k \in queue /\ \A j \in queue : k <= j
  BY <1>1, <1>2, HeadOfSet
<1> HIDE DEF k
<1>4. /\ batch'[s] = batch[s] \union {k} /\ \A r \in Senders : r # s => batch'[r] = batch[r]
  BY <1>1, <1>2
<1>5. \A j \in queue' : k < j
  BY <1>1, <1>2, <1>3
<1>6. Settled' = Settled /\ Pending' \subseteq Pending
  <2>1. batch'["thread"] \subseteq batch["thread"] \union {k}
        /\ batch'["caller"] \subseteq batch["caller"] \union {k}
    BY <1>4 DEF Senders
  <2> QED BY <1>1, <1>3, <2>1 DEF Settled, Pending
<1>7. ASSUME ~timedOut, NEW r \in Senders, NEW i \in batch'[r], NEW j \in queue' PROVE i < j
  <2>1. i = k \/ i \in batch[r]
    BY <1>4
  <2>2. i \in batch[r] => i < j
    BY <1>1, <1>7 DEF OrderInv, SettledInOrder
  <2> QED BY <1>5, <2>1, <2>2
<1>8. SettledInOrder'
  BY <1>1, <1>6, <1>7 DEF OrderInv, SettledInOrder
<1>9. Alone'
  BY <1>1 DEF OrderInv, Alone
<1> QED BY <1>8, <1>9 DEF OrderInv

(* Before a timeout nobody else holds spans while one sender does. *)
LEMMA OneSender ==
    ASSUME Inv, ~timedOut, NEW s \in Senders, pc[s] \in {"drain", "send"},
           NEW r \in Senders, r # s
    PROVE  batch[r] = {}
<1>1. CASE s = "caller"
  <2>1. pc["thread"] = "dead" /\ r = "thread"
    BY <1>1 DEF Inv, JoinedInTime, Flushing, Senders
  <2> QED BY <2>1 DEF Inv, Idle
<1>2. CASE s = "thread"
  <2>1. pc["caller"] \notin {"drain", "send"} /\ r = "caller"
    BY <1>2 DEF Inv, JoinedInTime, Flushing, Senders
  <2> QED BY <2>1 DEF Inv, Idle
<1> QED BY <1>1, <1>2 DEF Senders

LEMMA SettleOrder ==
    ASSUME Inv, OrderInv, NEW s \in Senders, pc[s] \in {"drain", "send"},
           UNCHANGED <<queue, timedOut>>,
           batch' = [batch EXCEPT ![s] = {}],
           Settled' = Settled \union batch[s]
    PROVE  SettledInOrder'
<1> SUFFICES ASSUME ~timedOut
             PROVE  /\ \A j \in Settled', k \in Pending' : j < k
                    /\ \A r \in Senders : \A j \in batch'[r], k \in queue' : j < k
  BY DEF SettledInOrder
<1>1. batch \in [Senders -> SUBSET Made]
  BY DEF Inv, TypeOK
<1>2. \A r \in Senders : batch'[r] = {}
  <2>1. batch'[s] = {} /\ \A r \in Senders : r # s => batch'[r] = batch[r]
    BY <1>1
  <2> QED BY <2>1, OneSender
<1>3. Pending' = queue
  BY <1>2 DEF Pending, Senders
<1>4. queue \subseteq Pending
  BY DEF Pending
<1> QED BY <1>2, <1>3, <1>4 DEF OrderInv, SettledInOrder

(* A step that moves a sender on its way, to another batch or out of it.   *)
LEMMA AloneKept ==
    ASSUME Inv, OrderInv, NEW s \in Senders, pc[s] \in {"drain", "send"}, NEW q,
           pc' = [pc EXCEPT ![s] = q], UNCHANGED <<closed, timedOut>>
    PROVE  Alone'
<1>1. CASE s = "thread"
  <2>1. pc'["caller"] = pc["caller"]
    BY <1>1, Types DEF Inv, Senders
  <2> QED BY <2>1 DEF OrderInv, Alone
<1>2. CASE s = "caller"
  BY <1>2 DEF OrderInv, Alone
<1> QED BY <1>1, <1>2 DEF Senders

LEMMA SendOrder ==
    ASSUME Inv, OrderInv, NEW s \in Senders, Send(s)
    PROVE  OrderInv'
<1>1. CASE Get(s)
  BY <1>1, GetOrder
<1>2. CASE Drained(s)
  <2>1. /\ pc[s] \in {"drain", "send"} /\ \E q : pc' = [pc EXCEPT ![s] = q]
        /\ UNCHANGED <<queue, closed, timedOut, exported, dropped>>
        /\ UNCHANGED <<batch, lost>>
           \/ (lost' = lost \union batch[s] /\ batch' = [batch EXCEPT ![s] = {}])
    BY <1>2 DEF Drained, stopVars
  <2>2. Alone'
    BY <2>1, AloneKept
  <2>3. SettledInOrder'
    <3>1. CASE UNCHANGED <<batch, lost>>
      BY <2>1, <3>1, OrderKept
    <3>2. CASE lost' = lost \union batch[s] /\ batch' = [batch EXCEPT ![s] = {}]
      <4>1. Settled' = Settled \union batch[s]
        BY <2>1, <3>2 DEF Settled
      <4> QED BY <2>1, <3>2, <4>1, SettleOrder
    <3> QED BY <2>1, <3>1, <3>2
  <2> QED BY <2>2, <2>3 DEF OrderInv
<1>3. ASSUME pc[s] = "send", Finish(s), UNCHANGED <<queue, stopVars, lost>>,
             \/ exported' = exported \union batch[s] /\ UNCHANGED dropped
             \/ dropped' = dropped \union batch[s] /\ UNCHANGED exported
      PROVE  OrderInv'
  <2>1. /\ batch' = [batch EXCEPT ![s] = {}] /\ pc' = [pc EXCEPT ![s] = After(s)]
        /\ UNCHANGED <<closed, timedOut>>
    BY <1>3 DEF Finish, stopVars
  <2>2. Settled' = Settled \union batch[s]
    BY <1>3 DEF Settled
  <2> QED BY <1>3, <2>1, <2>2, SettleOrder, AloneKept DEF OrderInv
<1>4. CASE Accepted(s)
  BY <1>3, <1>4 DEF Accepted
<1>5. CASE Failed(s)
  BY <1>3, <1>5 DEF Failed, SettledAs
<1>6. CASE Transient(s)
  <2>1. CASE SettledAs(s)
    BY <1>3, <1>6, <2>1 DEF Transient, SettledAs
  <2>2. CASE UNCHANGED <<batch, pc, dropped>>
    <3>1. UNCHANGED <<queue, batch, exported, dropped, lost, pc, closed, timedOut>>
      BY <1>6, <2>2 DEF Transient, stopVars
    <3> QED BY <3>1, OrderKept DEF OrderInv, Alone
  <2> QED BY <1>6, <2>1, <2>2 DEF Transient
<1> QED BY <1>1, <1>2, <1>4, <1>5, <1>6 DEF Send

LEMMA ControlOrder ==
    ASSUME Inv, OrderInv,
           Wake \/ CallStop \/ Exit \/ ExitRaised \/ Join \/ Check \/ Close \/ UNCHANGED vars
    PROVE  OrderInv'
<1>1. UNCHANGED <<queue, batch, exported, dropped, lost>> /\ (timedOut => timedOut')
  <2>1. UNCHANGED <<queue, batch, fates>>
    BY DEF Wake, CallStop, Exit, ExitRaised, Join, Check, Close, vars
  <2>2. CASE Join
    BY <2>1, <2>2 DEF Join, fates
  <2>3. CASE Wake \/ CallStop \/ Exit \/ ExitRaised \/ Check \/ Close \/ UNCHANGED vars
    <3>1. timedOut' = timedOut
      BY <2>3 DEF Wake, CallStop, Exit, ExitRaised, Check, Close, vars, stopVars
    <3> QED BY <2>1, <3>1 DEF fates
  <2> QED BY <2>2, <2>3
<1>2. SettledInOrder'
  BY <1>1, OrderKept
<1>3. /\ DOMAIN pc = Senders /\ "caller" \in Senders /\ "thread" \in Senders
  BY Types DEF Inv
<1>4. Alone'
  <2>1. CASE Wake \/ UNCHANGED vars
    BY <1>3, <2>1 DEF Wake, vars, stopVars, OrderInv, Alone
  <2>2. CASE CallStop
    <3>1. ~closed'
      BY <2>2 DEF CallStop, Inv, ClosedByStop
    <3> QED BY <3>1 DEF Alone
  <2>3. CASE Exit
    <3>1. ~timedOut /\ closed => pc["thread"] = "dead"
      BY DEF Inv, JoinedInTime
    <3> QED BY <1>3, <2>3, <3>1 DEF Exit, Stop, Ended, Alone
  <2>4. CASE ExitRaised \/ Close
    BY <1>3, <2>4 DEF ExitRaised, Close, Alone
  <2>5. CASE Join \/ Check
    BY <2>5 DEF Join, Check, stopVars, OrderInv, Alone
  <2> QED BY <2>1, <2>2, <2>3, <2>4, <2>5
<1> QED BY <1>2, <1>4 DEF OrderInv

LEMMA NextOrder == Inv /\ OrderInv /\ [Next]_vars => OrderInv'
<1> SUFFICES ASSUME Inv, OrderInv, [Next]_vars PROVE OrderInv'
  OBVIOUS
<1>1. ASSUME NEW b \in BOOLEAN, Enqueue(b) PROVE OrderInv'
  BY <1>1, EnqueueOrder
<1>2. ASSUME NEW s \in Senders, Send(s) PROVE OrderInv'
  BY <1>2, SendOrder
<1> QED BY <1>1, <1>2, ControlOrder DEF Next, Thread, Caller, Senders

THEOREM OrderInvariance == Spec => []OrderInv
BY InitOrder, NextOrder, Invariance, PTL DEF Spec

(* As long as the daemon ends within shutdown_timeout no batch overtakes   *)
(* another, whichever thread sends it.                                     *)
THEOREM OrderCorrect == Spec => []SettledInOrder
<1>1. OrderInv => SettledInOrder
  BY DEF OrderInv
<1> QED BY <1>1, OrderInvariance, PTL

(* Unless a join timed out, nobody uses the client after it was closed.    *)
THEOREM ClosedClientCorrect == Spec => []ClosedClientUnused
<1>1. Inv /\ OrderInv => ClosedClientUnused
  <2> SUFFICES ASSUME Inv, OrderInv, closed, ~timedOut, NEW s \in Senders
               PROVE  pc[s] \notin {"drain", "send"}
    BY DEF ClosedClientUnused
  <2>1. pc["thread"] = "dead" /\ pc["caller"] \in {"app", "exited", "failed"}
    BY DEF Inv, JoinedInTime, OrderInv, Alone
  <2> QED BY <2>1 DEF Senders
<1> QED BY <1>1, Invariance, OrderInvariance, PTL

-----------------------------------------------------------------------------
(* The registry of adapters, place by place.                               *)

Is(a, kind, priority, claims, label, fields, streams, mode) ==
    /\ DOMAIN a = {"kind", "priority", "claims", "label", "fields", "streams", "mode", "clients",
                   "families"}
    /\ a.kind = kind /\ a.priority = priority /\ a.claims = claims /\ a.label = label
    /\ a.fields = fields /\ a.streams = streams /\ a.mode = mode

LEMMA NativeIs ==
    \A name : Is(Native(name), "provider", 150, {name}, name, "result", {name}, "incremental")
BY DEF Native, BaseAdapter, Is

LEMMA WrapperIs ==
    \A name : Is(Wrapper(name), "framework", 100, {name}, None, "result", {}, "incremental")
BY DEF Wrapper, BaseAdapter, Is

LEMMA AdaptersAre ==
    /\ Is(LangGraph, "framework", 260, {"langgraph"}, None, "none", {"langgraph"}, "incremental")
    /\ Is(LangChain, "framework", 250, {"langchain"}, None, "extras", {}, "incremental")
    /\ Is(LlamaIndex, "framework", 240, {"llamaindex"}, None, "none", {"llamaindex"}, "incremental")
    /\ Is(CrewAI, "framework", 245, {"crewai"}, None, "result", {}, "incremental")
    /\ Is(Azure, "provider", 155, {"azure_openai"}, "azure_openai", "result", {"azure_openai"}, "incremental")
    /\ Is(Groq, "provider", 152, {"groq"}, "groq", "result", {"groq"}, "incremental")
    /\ Is(OpenAI, "provider", 150, {"openai", "azure_openai"}, "openai", "result", {"openai", "azure_openai"}, "incremental")
    /\ Is(Anthropic, "provider", 150, {"anthropic"}, "anthropic", "result", {"anthropic"}, "incremental")
    /\ Is(Gemini, "provider", 150, {"gemini"}, "gemini", "result", {"gemini"}, "cumulative")
    /\ Is(Cohere, "provider", 150, {"cohere"}, "cohere", "result", {"cohere"}, "incremental")
    /\ Is(Mistral, "provider", 150, {"mistral"}, "mistral", "result", {"mistral"}, "incremental")
    /\ Is(Bedrock, "provider", 140, {"bedrock"}, "bedrock", "result", {"bedrock"}, "incremental")
    /\ Is(Retrieval, "provider", 50, {"documents"}, None, "none", {}, "incremental")
    /\ Is(Tool, "provider", 10, {}, None, "result", {}, "incremental")
    /\ Is(Fallback, "fallback", 0, {}, Unknown, "result", {}, "incremental")
<1>1. Is(LangGraph, "framework", 260, {"langgraph"}, None, "none", {"langgraph"}, "incremental")
    BY WrapperIs DEF LangGraph, Is
<1>2. Is(LangChain, "framework", 250, {"langchain"}, None, "extras", {}, "incremental")
    BY WrapperIs DEF LangChain, Is
<1>3. Is(LlamaIndex, "framework", 240, {"llamaindex"}, None, "none", {"llamaindex"}, "incremental")
    BY WrapperIs DEF LlamaIndex, Is
<1>4. Is(CrewAI, "framework", 245, {"crewai"}, None, "result", {}, "incremental")
    BY WrapperIs DEF CrewAI, Is
<1>5. Is(Azure, "provider", 155, {"azure_openai"}, "azure_openai", "result", {"azure_openai"}, "incremental")
    BY NativeIs DEF Azure, Is
<1>6. Is(Groq, "provider", 152, {"groq"}, "groq", "result", {"groq"}, "incremental")
    BY NativeIs DEF Groq, Is
<1>7. Is(OpenAI, "provider", 150, {"openai", "azure_openai"}, "openai", "result", {"openai", "azure_openai"}, "incremental")
    BY NativeIs DEF OpenAI, Is
<1>8. Is(Anthropic, "provider", 150, {"anthropic"}, "anthropic", "result", {"anthropic"}, "incremental")
    BY NativeIs DEF Anthropic, Is
<1>9. Is(Gemini, "provider", 150, {"gemini"}, "gemini", "result", {"gemini"}, "cumulative")
    BY NativeIs DEF Gemini, Is
<1>10. Is(Cohere, "provider", 150, {"cohere"}, "cohere", "result", {"cohere"}, "incremental")
    BY NativeIs DEF Cohere, Is
<1>11. Is(Mistral, "provider", 150, {"mistral"}, "mistral", "result", {"mistral"}, "incremental")
    BY NativeIs DEF Mistral, Is
<1>12. Is(Bedrock, "provider", 140, {"bedrock"}, "bedrock", "result", {"bedrock"}, "incremental")
    BY NativeIs DEF Bedrock, Is
<1>13. /\ Is(Retrieval, "provider", 50, {"documents"}, None, "none", {}, "incremental")
       /\ Is(Tool, "provider", 10, {}, None, "result", {}, "incremental")
       /\ Is(Fallback, "fallback", 0, {}, Unknown, "result", {}, "incremental")
    BY DEF Retrieval, Tool, Fallback, BaseAdapter, Is
<1> QED
    BY <1>1, <1>2, <1>3, <1>4, <1>5, <1>6, <1>7, <1>8, <1>9, <1>10, <1>11, <1>12, <1>13

LEMMA RegistryIs ==
    /\ DOMAIN Registry = 1..15
    /\ Registry[1] = LangGraph /\ Registry[2] = LangChain /\ Registry[3] = LlamaIndex
    /\ Registry[4] = CrewAI /\ Registry[5] = Azure /\ Registry[6] = Groq /\ Registry[7] = OpenAI
    /\ Registry[8] = Anthropic /\ Registry[9] = Gemini /\ Registry[10] = Cohere
    /\ Registry[11] = Mistral /\ Registry[12] = Bedrock /\ Registry[13] = Retrieval
    /\ Registry[14] = Tool /\ Registry[15] = Fallback
BY DEF Registry

(* Some adapter of every set is the first to be asked. *)
LEMMA FirstIs ==
    ASSUME NEW S \in SUBSET (DOMAIN Registry), S # {}
    PROVE  \E i \in S : FirstOf(S) = Registry[i] /\ \A j \in S \ {i} : Before(i, j)
<1> DEFINE Rank(i) == (300 - Registry[i].priority) * 20 + i
           ranks == {Rank(i) : i \in S}
           R == OpToRel(<, Nat)
<1>1. \A i \in DOMAIN Registry : i \in 1..15 /\ Registry[i].priority \in 0..300
    BY RegistryIs, AdaptersAre DEF Is
<1>2. ranks # {} /\ ranks \subseteq Nat
    <2>1. ASSUME NEW i \in S PROVE Rank(i) \in Nat
        <3>1. i \in 1..15 /\ Registry[i].priority \in 0..300
            BY <1>1
        <3>2. PICK p \in 0..300 : p = Registry[i].priority
            BY <3>1
        <3>3. (300 - p) * 20 + i \in Nat
            BY <3>1
        <3> QED
            BY <3>2, <3>3
    <2> QED
        BY <2>1
<1>3. PICK m \in ranks : \A l \in ranks : ~(<<l, m>> \in R)
    <2>1. IsWellFoundedOn(R, Nat)
        BY NatLessThanWellFounded
    <2> HIDE DEF R, ranks
    <2> QED
        BY <1>2, <2>1, WFMin
<1>4. PICK i \in S : m = Rank(i)
    OBVIOUS
<1>5. ASSUME NEW j \in S \ {i} PROVE Before(i, j)
    <2>1. Rank(j) \in ranks /\ Rank(j) \in Nat /\ m \in Nat
        BY <1>2
    <2>2. Rank(j) < m => <<Rank(j), m>> \in R
        BY <2>1 DEF OpToRel
    <2>3. Rank(i) <= Rank(j)
        <3> HIDE DEF R, ranks, Rank
        <3> QED
            BY <1>3, <1>4, <2>1, <2>2
    <2>4. /\ i \in 1..15 /\ j \in 1..15 /\ i # j
          /\ Registry[i].priority \in 0..300 /\ Registry[j].priority \in 0..300
        BY <1>1
    <2>5. PICK p \in 0..300, q \in 0..300 : p = Registry[i].priority /\ q = Registry[j].priority
        BY <2>4
    <2>6. (300 - p) * 20 + i <= (300 - q) * 20 + j
        BY <2>3, <2>5
    <2>7. p > q \/ (p = q /\ i < j)
        BY <2>4, <2>6
    <2> QED
        BY <2>5, <2>7 DEF Before
<1>6. \E i1 \in S : i1 = (CHOOSE k \in S : \A j \in S \ {k} : Before(k, j))
                    /\ \A j \in S \ {i1} : Before(i1, j)
    BY <1>5
<1> QED
    BY <1>6 DEF FirstOf

LEMMA FirstOfOne ==
    ASSUME NEW S \in SUBSET (DOMAIN Registry), NEW i \in S, \A j \in S \ {i} : ~Before(j, i)
    PROVE  FirstOf(S) = Registry[i]
<1>1. PICK k \in S : FirstOf(S) = Registry[k] /\ \A j \in S \ {k} : Before(k, j)
    BY FirstIs
<1> QED
    BY <1>1

(* Which framework adapter claims an object. *)
LEMMA FrameworkClaims ==
    ASSUME NEW object
    PROVE  /\ object.of = "langgraph" => Claimant("framework", object) = LangGraph
           /\ object.of = "langchain" => Claimant("framework", object) = LangChain
           /\ object.of = "llamaindex" => Claimant("framework", object) = LlamaIndex
           /\ object.of = "crewai" => Claimant("framework", object) = CrewAI
           /\ object.of \notin Frameworks => Claimant("framework", object) = None
<1> DEFINE S == {i \in DOMAIN Registry :
                    Registry[i].kind = "framework" /\ object.of \in Registry[i].claims}
<1>1. S = {i \in 1..4 : object.of \in Registry[i].claims}
    BY RegistryIs, AdaptersAre DEF Is
<1>2. /\ 1 \in S <=> object.of = "langgraph"
      /\ 2 \in S <=> object.of = "langchain"
      /\ 3 \in S <=> object.of = "llamaindex"
      /\ 4 \in S <=> object.of = "crewai"
    BY <1>1, RegistryIs, AdaptersAre DEF Is
<1>3. Claimant("framework", object) = FirstOf(S)
    BY DEF Claimant
<1>4. S \subseteq DOMAIN Registry
    OBVIOUS
<1>5. \A i \in S : i \in 1..4
    BY <1>1
<1> HIDE DEF S
<1>6. ASSUME NEW i \in S PROVE FirstOf(S) = Registry[i]
    <2>1. S = {i}
        BY <1>2, <1>5
    <2> QED
        BY <1>4, <2>1, FirstOfOne
<1>7. object.of \notin Frameworks => S = {}
    BY <1>2, <1>5 DEF Frameworks
<1> QED
    BY <1>2, <1>3, <1>6, <1>7, RegistryIs DEF FirstOf

(* The provider adapter that claims an object of an SDK carries its name.  *)
LEMMA ProviderClaims ==
    ASSUME NEW object, object.of \in Makers
    PROVE  /\ Claimant("provider", object) # None
           /\ Claimant("provider", object).label = object.of
           /\ Claimant("provider", object).fields = "result"
<1> DEFINE S == {i \in DOMAIN Registry :
                    Registry[i].kind = "provider" /\ object.of \in Registry[i].claims}
<1>1. Claimant("provider", object) = FirstOf(S)
    BY DEF Claimant
<1>2. S = {i \in 5..12 : object.of \in Registry[i].claims}
    BY RegistryIs, AdaptersAre DEF Is, Makers
<1>3. \A i \in 5..12 : Registry[i].fields = "result" /\ Registry[i] # None
    BY RegistryIs, AdaptersAre, AdaptersAssumption DEF Is
<1>4. CASE object.of = "azure_openai"
    <2>1. S = {5, 7}
        BY <1>2, <1>4, RegistryIs, AdaptersAre DEF Is
    <2>2. ~Before(7, 5)
        BY RegistryIs, AdaptersAre DEF Before, Is
    <2>3. FirstOf(S) = Registry[5]
        <3>1. S \in SUBSET (DOMAIN Registry) /\ 5 \in S /\ \A j \in S \ {5} : ~Before(j, 5)
            BY <2>1, <2>2, RegistryIs
        <3> HIDE DEF S
        <3> QED
            BY <3>1, FirstOfOne
    <2> QED
        BY <1>1, <1>3, <1>4, <2>3, RegistryIs, AdaptersAre DEF Is
<1>5. CASE object.of # "azure_openai"
    <2>1. \A i \in S : i \in 5..12 /\ object.of \in Registry[i].claims
        BY <1>2
    <2>2. \A i \in S : Registry[i].label = object.of
        BY <1>5, <2>1, RegistryIs, AdaptersAre DEF Is
    <2>3. S # {}
        BY <1>2, RegistryIs, AdaptersAre DEF Is, Makers
    <2>4. S \in SUBSET (DOMAIN Registry)
        OBVIOUS
    <2>5. PICK k \in S : FirstOf(S) = Registry[k]
        <3> HIDE DEF S
        <3> QED
            BY <2>3, <2>4, FirstIs
    <2> QED
        BY <1>1, <1>3, <2>1, <2>2, <2>5
<1> QED
    BY <1>4, <1>5

(* Chunks that an adapter reads are taken for a running total if and only  *)
(* if they carry one.                                                      *)
LEMMA ChunkModes ==
    ASSUME NEW k \in Chunks, ResolveStreamChunk(k) # None
    PROVE  ResolveStreamChunk(k).mode = "cumulative" <=> k.of \in Running
<1> DEFINE S == {i \in DOMAIN Registry : k.of \in Registry[i].streams}
<1>1. ResolveStreamChunk(k) = FirstOf(S)
    BY DEF ResolveStreamChunk
<1>2. S # {} /\ S \in SUBSET (DOMAIN Registry)
    BY <1>1 DEF FirstOf
<1>3. PICK i \in S : FirstOf(S) = Registry[i]
    <2> HIDE DEF S
    <2> QED
        BY <1>2, FirstIs
<1>4. i \in 1..15 /\ k.of \in Registry[i].streams
    BY <1>3, RegistryIs
<1>5. k.of \in Makers \union {"langgraph", "llamaindex"}
    BY <1>4, RegistryIs, AdaptersAre DEF Is, Makers
<1>6. k.of \in Running <=> k.of = "gemini"
    BY <1>5, LlmSpansAssumption
<1>7. Registry[i].mode = "cumulative" <=> k.of = "gemini"
    BY <1>4, RegistryIs, AdaptersAre DEF Is
<1> QED
    BY <1>1, <1>3, <1>6, <1>7

-----------------------------------------------------------------------------
(* Unwrapping: with n rounds to go the object of the maker, and one that   *)
(* tells the tokens, is near enough to be read.                            *)

Told(u) == u.tokens = "reported" \/ u.extras.tokens = "reported"

MadeBy(result, a, n) ==
    /\ Len(result) <= n + 1
    /\ Wrapped(result, Len(result))
    /\ \A i \in 1..Len(result) - 1 : result[i].of = "langchain" =>
            result[i].model \in {None, Unknown, a.model}
    /\ result[Len(result)].of \in Makers
    /\ a.maker = IF result[Len(result)].of = "bedrock"
                   THEN OrElse(result[Len(result)].vendor, "bedrock")
                 ELSE result[Len(result)].of
    /\ result[Len(result)].model = a.model
    /\ a.model \notin {None, Unknown}

Telling(result, i, n) ==
    /\ Wrapped(result, i)
    /\ result[i].tokens = "reported"
    /\ \/ result[i].of \in {"langchain", "crewai"} /\ i <= n
       \/ result[i].of \in Makers /\ i <= n + 1

OnTheWay(u, a, n) ==
    /\ u.result \in Seq(Objects) \ {<<>>}
    /\ u.tokens \in {None, "reported"} /\ u.extras.tokens \in {None, "reported"}
    /\ a.maker # None => MadeBy(u.result, a, n) /\ u.extras.model \in {None, a.model}
    /\ a.reports => Told(u) \/ \E i \in 1..Len(u.result) : Telling(u.result, i, n)

LEMMA Named == \A m \in Makers \union {"reported"} : m \notin {None, Unknown}
BY LlmSpansAssumption

LEMMA Reported == \A x : OrElse("reported", x) = "reported" /\ OrElse(None, x) = x
BY Named DEF OrElse

LEMMA Innermost ==
    ASSUME NEW result, NEW i \in Nat \ {0}, result[1].of \notin Frameworks, Wrapped(result, i)
    PROVE  i = 1
<1>1. i > 1 => 1 \in 1..i - 1
    OBVIOUS
<1> QED
    BY <1>1 DEF Wrapped

(* What is left after a round, of a sequence of several. *)
LEMMA TailIs ==
    ASSUME NEW r \in Seq(Objects), Len(r) > 1
    PROVE  /\ Tail(r) \in Seq(Objects) \ {<<>>}
           /\ Len(Tail(r)) = Len(r) - 1
           /\ \A i \in 1..Len(Tail(r)) : Tail(r)[i] = r[i + 1]
<1>1. r # <<>> /\ Len(r) \in Nat
    OBVIOUS
<1>2. /\ Tail(r) \in Seq(Objects)
      /\ Len(Tail(r)) = Len(r) - 1
      /\ \A i \in 1..Len(Tail(r)) : Tail(r)[i] = r[i + 1]
    BY <1>1, HeadTailProperties
<1>3. Tail(r) # <<>>
    <2>1. PICK q : q = Tail(r)
        OBVIOUS
    <2>2. Len(q) # 0
        BY <1>1, <1>2, <2>1
    <2>3. Len(<<>>) = 0
        OBVIOUS
    <2> QED
        BY <2>1, <2>2, <2>3
<1> QED
    BY <1>2, <1>3

LEMMA RoundIs ==
    ASSUME NEW u, NEW object, object = Head(u.result), NEW f, f = Claimant("framework", object)
    PROVE  /\ f = None => Round(u) = u
           /\ f # None => Round(u) = Read(u, object, f)
BY DEF Round

(* A round that finds nothing inside is the last to change anything: the   *)
(* rounds the code leaves out when it breaks out of its loop would read    *)
(* the same object again (adapters/registry.py:61-90).                     *)
THEOREM RoundsSettle ==
    ASSUME NEW u, Inside(u.result) = u.result
    PROVE  Round(Round(u)) = Round(u)
<1>1. PICK object : object = Head(u.result)
    OBVIOUS
<1>2. PICK f : f = Claimant("framework", object)
    OBVIOUS
<1>3. CASE f = None
    BY <1>1, <1>2, <1>3, RoundIs
<1>4. CASE f # None
    <2>1. PICK v : v = Read(u, object, f)
        OBVIOUS
    <2>2. v.result = u.result
        BY <2>1 DEF Read
    <2>3. Round(u) = v
        BY <1>1, <1>2, <1>4, <2>1, RoundIs
    <2>4. Round(v) = Read(v, object, f)
        BY <1>1, <1>2, <1>4, <2>2, RoundIs
    <2>5. \A x, y : OrElse(x, OrElse(x, y)) = OrElse(x, y)
        BY DEF OrElse
    <2>6. /\ v.tokens = IF f.fields = "result" THEN OrElse(object.tokens, u.tokens) ELSE u.tokens
          /\ v.extras = IF f.fields # "extras" THEN u.extras
                        ELSE [model |-> OrElse(object.model, u.extras.model),
                              tokens |-> OrElse(object.tokens, u.extras.tokens)]
        BY <2>1 DEF Read
    <2>7. (IF f.fields = "result" THEN OrElse(object.tokens, v.tokens) ELSE v.tokens) = v.tokens
        BY <2>5, <2>6
    <2>8. (IF f.fields # "extras" THEN v.extras
           ELSE [model |-> OrElse(object.model, v.extras.model),
                 tokens |-> OrElse(object.tokens, v.extras.tokens)]) = v.extras
        BY <2>5, <2>6
    <2>9. v = [result |-> v.result, tokens |-> v.tokens, extras |-> v.extras]
        BY <2>1 DEF Read
    <2>10. Read(v, object, f) = v
        BY <2>2, <2>7, <2>8, <2>9 DEF Read
    <2> QED
        BY <2>3, <2>4, <2>10
<1> QED
    BY <1>3, <1>4

LEMMA RoundOn ==
    ASSUME NEW u, NEW a, NEW n \in 0..4, OnTheWay(u, a, n + 1)
    PROVE  OnTheWay(Round(u), a, n)
<1>1. PICK r \in Seq(Objects) : r = u.result /\ r # <<>>
    BY DEF OnTheWay
<1>2. PICK object \in Objects : object = r[1]
    BY <1>1
<1>3. object = Head(u.result)
    BY <1>1, <1>2
<1>4. Len(r) \in Nat \ {0}
    BY <1>1
<1>5. CASE object.of \notin Frameworks
    <2>1. Round(u) = u
        <3>1. Claimant("framework", object) = None
            BY <1>5, FrameworkClaims
        <3> QED
            BY <1>3, <3>1, RoundIs
    <2>2. MadeBy(r, a, n + 1) => MadeBy(r, a, n)
        <3>1. Wrapped(r, Len(r)) => Len(r) = 1
            BY <1>2, <1>4, <1>5, Innermost
        <3>2. Len(r) = 1 => Len(r) <= n + 1
            OBVIOUS
        <3> QED
            BY <3>1, <3>2 DEF MadeBy
    <2>3. ASSUME NEW i \in 1..Len(r), Telling(r, i, n + 1) PROVE Telling(r, i, n)
        <3>1. i = 1
            BY <1>2, <1>4, <1>5, <2>3, Innermost DEF Telling
        <3>2. r[i].of \notin {"langchain", "crewai"} /\ i <= n + 1
            BY <1>2, <1>5, <3>1 DEF Frameworks
        <3> QED
            BY <2>3, <3>2 DEF Telling
    <2> QED
        BY <1>1, <2>1, <2>2, <2>3 DEF OnTheWay
<1>6. CASE object.of \in Frameworks
    <2>1. PICK f : f = Claimant("framework", object)
        OBVIOUS
    <2>2. /\ f \in {LangGraph, LangChain, LlamaIndex, CrewAI}
          /\ object.of = "langchain" <=> f.fields = "extras"
          /\ object.of = "crewai" <=> f.fields = "result"
          /\ f # None
        <3>1. /\ LangGraph # None /\ LangChain # None /\ LlamaIndex # None /\ CrewAI # None
            BY RegistryIs, AdaptersAssumption
        <3> QED
            BY <1>6, <2>1, <3>1, FrameworkClaims, AdaptersAre DEF Frameworks, Is
    <2>3. PICK s : s = IF Len(r) > 1 THEN Tail(r) ELSE r
        OBVIOUS
    <2>4. PICK tokens : tokens = IF f.fields = "result" THEN OrElse(object.tokens, u.tokens) ELSE u.tokens
        OBVIOUS
    <2>5. PICK extras : extras = IF f.fields # "extras" THEN u.extras
                                 ELSE [model |-> OrElse(object.model, u.extras.model),
                                       tokens |-> OrElse(object.tokens, u.extras.tokens)]
        OBVIOUS
    <2>6. Round(u) = [result |-> s, tokens |-> tokens, extras |-> extras]
        <3>1. Round(u) = Read(u, object, f)
            BY <1>3, <2>1, <2>2, RoundIs
        <3>2. Inside(u.result) = s
            BY <1>1, <2>3 DEF Inside
        <3> QED
            BY <2>4, <2>5, <3>1, <3>2 DEF Read
    <2>7. s \in Seq(Objects) \ {<<>>} /\ (Len(r) > 1 => Len(s) = Len(r) - 1)
        BY <1>1, <1>4, <2>3, TailIs
    <2>8. \A i \in 1..Len(s) : Len(r) > 1 => s[i] = r[i + 1]
        BY <1>1, <1>4, <2>3, TailIs
    <2>9. object.tokens \in {None, "reported"}
        BY DEF Objects
    <2>10. tokens \in {None, "reported"} /\ extras.tokens \in {None, "reported"}
        BY <2>4, <2>5, <2>9 DEF OnTheWay, OrElse
    <2>11. Told(u) => tokens = "reported" \/ extras.tokens = "reported"
        BY <2>4, <2>5, <2>9, Reported DEF Told, OnTheWay
    <2>12. ASSUME a.maker # None PROVE MadeBy(s, a, n) /\ extras.model \in {None, a.model}
        <3>1. MadeBy(r, a, n + 1) /\ u.extras.model \in {None, a.model}
            BY <1>1, <2>12 DEF OnTheWay
        <3>2. Len(r) > 1
            <4>1. object.of \notin Makers
                BY <1>6 DEF Frameworks, Makers
            <4> QED
                BY <1>2, <1>4, <3>1, <4>1 DEF MadeBy
        <3>3. Len(s) = Len(r) - 1 /\ \A i \in 1..Len(s) : s[i] = r[i + 1]
            BY <2>7, <2>8, <3>2
        <3>4. MadeBy(s, a, n)
            <4>1. s[Len(s)] = r[Len(r)]
                BY <1>4, <3>2, <3>3
            <4>2. ASSUME NEW i \in 1..Len(s) - 1
                  PROVE  i + 1 \in 1..Len(r) - 1 /\ s[i] = r[i + 1]
                BY <1>4, <3>2, <3>3
            <4>3. Wrapped(s, Len(s))
                BY <3>1, <4>2 DEF MadeBy, Wrapped
            <4>4. Len(s) <= n + 1
                BY <1>4, <3>1, <3>3 DEF MadeBy
            <4> QED
                BY <3>1, <4>1, <4>2, <4>3, <4>4 DEF MadeBy
        <3>5. object.of = "langchain" => object.model \in {None, Unknown, a.model}
            BY <1>2, <1>4, <3>1, <3>2 DEF MadeBy
        <3>6. extras.model \in {None, a.model}
            BY <2>2, <2>5, <3>1, <3>5 DEF OrElse
        <3> QED
            BY <3>4, <3>6
    <2>13. ASSUME NEW i \in 1..Len(r), Telling(r, i, n + 1)
           PROVE  \/ tokens = "reported" \/ extras.tokens = "reported"
                  \/ \E j \in 1..Len(s) : Telling(s, j, n)
        <3>1. CASE i = 1
            <4>1. object.tokens = "reported" /\ object.of \in {"langchain", "crewai"}
                BY <1>2, <1>6, <2>13, <3>1 DEF Telling, Frameworks, Makers
            <4> QED
                BY <2>2, <2>4, <2>5, <4>1, Reported
        <3>2. CASE i # 1
            <4>1. Len(r) > 1 /\ i - 1 \in 1..Len(s) /\ s[i - 1] = r[i]
                BY <1>4, <2>7, <2>8, <3>2
            <4>2. Wrapped(s, i - 1)
                <5>1. ASSUME NEW j \in 1..(i - 1) - 1 PROVE j + 1 \in 1..i - 1 /\ s[j] = r[j + 1]
                    BY <1>4, <2>7, <2>8, <4>1
                <5> QED
                    BY <2>13, <5>1 DEF Wrapped, Telling
            <4>3. Telling(s, i - 1, n)
                BY <2>13, <4>1, <4>2 DEF Telling
            <4> QED
                BY <4>1, <4>3
        <3> QED
            BY <3>1, <3>2
    <2> QED
        BY <1>1, <2>6, <2>7, <2>10, <2>11, <2>12, <2>13 DEF OnTheWay, Told
<1> QED
    BY <1>5, <1>6

(* What is resolved from an answer: the maker, its model, and the tokens.  *)
LEMMA ResolvedAs ==
    ASSUME NEW a \in Answers
    PROVE  /\ a.maker # None =>
                /\ Resolve(a.result).provider = a.maker /\ a.maker \notin {None, Unknown}
                /\ Resolve(a.result).model = a.model /\ a.model \notin {None, Unknown}
                /\ Resolve(a.result).extras.model \in {None, a.model}
           /\ a.reports =>
                \/ Resolve(a.result).tokens = "reported"
                \/ Resolve(a.result).extras.tokens = "reported"
           /\ Resolve(a.result).tokens \in {None, "reported"}
           /\ Resolve(a.result).extras.tokens \in {None, "reported"}
<1>1. OnTheWay(Untouched(a.result), a, 5)
    <2>1. /\ a.result \in Seq(Objects) \ {<<>>}
          /\ a.maker # None => Attributable(a)
          /\ a.reports => Reports(a)
        BY LlmSpansAssumption
    <2>2. a.maker # None => MadeBy(a.result, a, 5)
        BY <2>1 DEF Attributable, MadeBy
    <2>3. a.reports => \E i \in 1..Len(a.result) : Telling(a.result, i, 5)
        BY <2>1 DEF Reports, Telling
    <2> QED
        BY <2>1, <2>2, <2>3 DEF Untouched, OnTheWay, Told
<1>2. PICK u : u = Unwrapped(a.result) /\ OnTheWay(u, a, 0)
    <2>1. OnTheWay(Round(Untouched(a.result)), a, 4)
        BY <1>1, RoundOn, 4 + 1 = 5
    <2>2. OnTheWay(Round(Round(Untouched(a.result))), a, 3)
        BY <2>1, RoundOn, 3 + 1 = 4
    <2>3. OnTheWay(Round(Round(Round(Untouched(a.result)))), a, 2)
        BY <2>2, RoundOn, 2 + 1 = 3
    <2>4. OnTheWay(Round(Round(Round(Round(Untouched(a.result))))), a, 1)
        BY <2>3, RoundOn, 1 + 1 = 2
    <2>5. OnTheWay(Unwrapped(a.result), a, 0)
        BY <2>4, RoundOn, 0 + 1 = 1 DEF Unwrapped
    <2> QED
        BY <2>5
<1>3. PICK object \in Objects : object = Head(u.result) /\ object = u.result[1]
    BY <1>2 DEF OnTheWay
<1>4. PICK p : p = Claimant("provider", object)
    OBVIOUS
<1>5. object.tokens \in {None, "reported"}
    BY DEF Objects
<1>6. /\ Resolve(a.result).model = IF p # None /\ p.fields = "result" THEN object.model
                                   ELSE IF p = None THEN Unknown ELSE None
      /\ Resolve(a.result).provider = Label(IF p # None THEN p ELSE Fallback, object)
      /\ Resolve(a.result).tokens =
            OrElse(IF p # None /\ p.fields = "result" THEN object.tokens ELSE None, u.tokens)
      /\ Resolve(a.result).extras = u.extras
    BY <1>2, <1>3, <1>4 DEF Resolve
<1>7. object.of \in Makers => p # None /\ p.label = object.of /\ p.fields = "result"
    BY <1>4, ProviderClaims
<1>8. ASSUME a.maker # None
      PROVE  /\ Resolve(a.result).provider = a.maker /\ a.maker \notin {None, Unknown}
             /\ Resolve(a.result).model = a.model /\ a.model \notin {None, Unknown}
             /\ Resolve(a.result).extras.model \in {None, a.model}
    <2>1. MadeBy(u.result, a, 0) /\ u.extras.model \in {None, a.model}
        BY <1>2, <1>8 DEF OnTheWay
    <2>2. Len(u.result) = 1
        <3>1. PICK r \in Seq(Objects) : r = u.result /\ r # <<>>
            BY <1>2 DEF OnTheWay
        <3>2. Len(r) \in Nat \ {0}
            BY <3>1
        <3>3. Len(r) <= 0 + 1
            BY <2>1, <3>1 DEF MadeBy
        <3>4. Len(r) = 1
            <4>1. PICK n : n = Len(r)
                OBVIOUS
            <4> QED
                BY <3>2, <3>3, <4>1
        <3> QED
            BY <3>1, <3>4
    <2>3. /\ object.of \in Makers /\ object.model = a.model /\ a.model \notin {None, Unknown}
          /\ a.maker = IF object.of = "bedrock" THEN OrElse(object.vendor, "bedrock") ELSE object.of
        BY <1>3, <2>1, <2>2 DEF MadeBy
    <2>4. a.maker \notin {None, Unknown}
        BY <2>3, Named DEF OrElse, Makers
    <2> QED
        BY <1>6, <1>7, <2>1, <2>3, <2>4 DEF Label
<1>9. ASSUME a.reports
      PROVE  \/ Resolve(a.result).tokens = "reported"
             \/ Resolve(a.result).extras.tokens = "reported"
    <2>1. CASE Told(u)
        BY <1>2, <1>5, <1>6, <2>1, Reported DEF Told
    <2>2. ASSUME NEW i \in 1..Len(u.result), Telling(u.result, i, 0)
          PROVE  Resolve(a.result).tokens = "reported"
        <3>1. object.of \in Makers /\ object.tokens = "reported"
            BY <1>3, <2>2 DEF Telling
        <3> QED
            BY <1>6, <1>7, <3>1, Reported
    <2> QED
        BY <1>2, <1>9, <2>1, <2>2 DEF OnTheWay
<1>10. /\ Resolve(a.result).tokens \in {None, "reported"}
       /\ Resolve(a.result).extras.tokens \in {None, "reported"}
    BY <1>2, <1>5, <1>6 DEF OnTheWay, OrElse
<1> QED
    BY <1>8, <1>9, <1>10

-----------------------------------------------------------------------------
(* The inductive invariant of LlmSpans                                     *)

(* The lock is held from the decision to configure until configure()       *)
(* returns or raises; only then, and under it, is there no configuration   *)
(* to protect.  One that returned has loaded the prices its configuration  *)
(* asks for.                                                               *)
ConfigInv ==
    /\ config \in Settings \union {Absent}
    /\ pricing \in Starters \union {Absent}
    /\ lock \in Starters \union {Absent}
    /\ step \in [Starters -> {"idle", "refused", "resolving", "loading", "exporting", "returned",
                              "raised"}]
    /\ \A t \in Starters :
          /\ step[t] \in {"resolving", "loading", "exporting"} <=> lock = t
          /\ step[t] = "resolving" => config = Absent
          /\ step[t] \in {"loading", "exporting", "returned", "raised"} => config # Absent
          /\ step[t] \in {"exporting", "returned"} /\ config.cost => pricing # Absent

AttrNames == {"model", "provider", "tokens", "cost"}
Tokens == Nat \union {None}

LlmTypes ==
    /\ phase \in [Users -> {"idle", "starting", "running", "answered", "streaming", "yielded",
                            "ending", "pricing", "final", "done"}]
    /\ path \in [Users -> {"decorated", "wrapped", None}]
    /\ DOMAIN attrs = Users
    /\ \A c \in Users : DOMAIN attrs[c] = AttrNames /\ attrs[c].tokens \in Tokens
    /\ usage \in Nat
    /\ snapshot \in [Users -> Nat]
    /\ DOMAIN chunk = Users
    /\ own \in [Users -> Nat]
    /\ answer \in [Users -> Answers \union Chunks \union {None}]
    /\ crowded \subseteq Users

(* A call has its path while it runs, and no tokens before its answer.     *)
PathKnown(c) ==
    /\ phase[c] \notin {"idle", "done"} => path[c] \in {"decorated", "wrapped"}
    /\ phase[c] \in {"starting", "yielded"} \/ answer[c] \in Chunks => path[c] = "decorated"

NothingYet(c) ==
    /\ phase[c] \in {"idle", "starting", "running", "answered"} =>
          answer[c] = None /\ attrs[c].tokens = None /\ chunk[c] = NoChunk
    /\ phase[c] \in {"idle", "starting", "running"} => own[c] = 0

(* The total has grown by the call's own tokens, and by those of the calls *)
(* that crowd it.                                                          *)
UsageGrew(c) ==
    path[c] = "wrapped" /\ phase[c] \in {"running", "answered"} =>
        /\ usage >= snapshot[c] + own[c]
        /\ c \notin crowded => usage = snapshot[c] + own[c]

Responded(c) == phase[c] \in {"ending", "pricing", "final"} /\ answer[c] \in Answers

OwnCounted(c) ==
    Responded(c) /\ path[c] = "wrapped" =>
        /\ OrElse(attrs[c].tokens, 0) >= own[c]
        /\ c \notin crowded => OrElse(attrs[c].tokens, 0) = own[c]

Attributed(c) ==
    Responded(c) =>
        /\ answer[c].maker # None =>
              attrs[c].provider = answer[c].maker /\ attrs[c].model = answer[c].model
        /\ answer[c].reports => attrs[c].tokens = own[c] \/ (own[c] = 0 /\ c \in crowded)

(* The tokens read from a stream, and those the consumer is looking at.    *)
ReadSoFar(c) ==
    /\ phase[c] \in {"streaming", "yielded"} => answer[c] \in Chunks \union {None}
    /\ phase[c] = "streaming" => chunk[c] = NoChunk
    /\ phase[c] = "streaming" /\ answer[c] = None => own[c] = 0 /\ attrs[c].tokens = None
    /\ phase[c] = "yielded" =>
          /\ answer[c] \in Chunks
          /\ \E n \in Tokens : chunk[c] = <<n>>
    /\ answer[c] \in Chunks /\ ResolveStreamChunk(answer[c]) # None =>
          /\ chunk[c] = NoChunk => OrElse(attrs[c].tokens, 0) = own[c]
          /\ \A n \in Tokens : phase[c] = "yielded" /\ chunk[c] = <<n>> =>
                own[c] = IF answer[c].of \in Running /\ n # None THEN n
                         ELSE OrElse(attrs[c].tokens, 0) + OrElse(n, 0)

CallInv(c) ==
    /\ PathKnown(c)
    /\ NothingYet(c)
    /\ UsageGrew(c)
    /\ OwnCounted(c)
    /\ Attributed(c)
    /\ ReadSoFar(c)

(* A call that asked for the price after configure() has it at the end.    *)
PricedLate(c) ==
    c \in late =>
        /\ Configured
        /\ phase[c] \in {"pricing", "final"}
        /\ phase[c] = "final" /\ config.cost =>
              attrs[c].cost = IF attrs[c].provider \in PriceList THEN "priced" ELSE "missing"

LlmInv ==
    /\ ConfigInv
    /\ LlmTypes
    /\ \A c \in Users : CallInv(c) /\ PricedLate(c)

-----------------------------------------------------------------------------
(* What a step may do to the configuration, and to the calls it is not     *)
(* about.                                                                  *)

ConfigKept ==
    /\ config # Absent => config' = config
    /\ Configured => Configured'

LEMMA SecondLookIs ==
    ASSUME ConfigInv, NEW u \in Users, GetConfig(u)
    PROVE  /\ config' \in Settings /\ (config # Absent => config' = config)
           /\ UNCHANGED <<pricing, lock, step>>
           /\ lock # Absent => config # Absent
<1>1. CASE FindConfig(u)
    BY <1>1 DEF FindConfig, configVars, ConfigInv
<1>2. CASE AutoConfig(u)
    <2>1. config' \in SecondLook /\ lock = Absent /\ UNCHANGED <<pricing, lock, step>>
        BY <1>2 DEF AutoConfig
    <2>2. config # Absent => config \in Settings
        BY DEF ConfigInv
    <2> QED
        BY <2>1, <2>2 DEF SecondLook, FromEnvironment
<1> QED
    BY <1>1, <1>2 DEF GetConfig

LEMMA ConfigGot ==
    ASSUME ConfigInv, NEW u \in Users, GetConfig(u)
    PROVE  ConfigInv' /\ ConfigKept /\ config' \in Settings
<1>1. /\ config' \in Settings /\ (config # Absent => config' = config)
      /\ UNCHANGED <<pricing, lock, step>>
      /\ lock # Absent => config # Absent
    BY SecondLookIs
<1>2. config' # Absent
    BY <1>1, ClientConfigAssumption
<1>3. ASSUME NEW t \in Starters
      PROVE  /\ step[t] \in {"resolving", "loading", "exporting"} <=> lock = t
             /\ step[t] = "resolving" => config' = Absent
             /\ step[t] \in {"exporting", "returned"} /\ config'.cost => pricing # Absent
    <2>1. t # Absent
        BY ClientConfigAssumption
    <2> QED
        BY <1>1, <2>1 DEF ConfigInv
<1>4. ConfigInv'
    BY <1>1, <1>2, <1>3 DEF ConfigInv
<1> QED
    BY <1>1, <1>4 DEF ConfigKept, Configured

LEMMA ConfigStill ==
    ASSUME ConfigInv, UNCHANGED <<config, pricing, lock, step>>
    PROVE  ConfigInv' /\ ConfigKept
BY DEF ConfigInv, ConfigKept, Configured

LEMMA ConfigMoved ==
    ASSUME ConfigInv, ConfigNext
    PROVE  ConfigInv' /\ ConfigKept
<1>1. PICK t \in Starters : Configure(t) \/ Publish(t) \/ Load(t) \/ Export(t)
    BY DEF ConfigNext
<1>2. /\ t # Absent
      /\ \A s \in Starters : s # Absent
    BY ClientConfigAssumption
<1>3. CASE Configure(t)
    <2>1. /\ step[t] = "idle" /\ lock = Absent /\ UNCHANGED <<config, pricing>>
          /\ \/ config # Absent /\ step' = [step EXCEPT ![t] = "refused"] /\ lock' = lock
             \/ config = Absent /\ step' = [step EXCEPT ![t] = "resolving"] /\ lock' = t
        BY <1>3 DEF Configure
    <2>2. CASE step' = [step EXCEPT ![t] = "refused"] /\ lock' = lock
        <3>1. ConfigInv'
            BY <1>2, <2>1, <2>2 DEF ConfigInv
        <3> QED
            BY <1>2, <2>1, <2>2, <3>1 DEF ConfigInv, ConfigKept, Configured
    <2>3. CASE config = Absent /\ step' = [step EXCEPT ![t] = "resolving"] /\ lock' = t
        <3>1. ConfigInv'
            BY <1>2, <2>1, <2>3 DEF ConfigInv
        <3> QED
            BY <1>2, <2>1, <2>3, <3>1 DEF ConfigInv, ConfigKept, Configured
    <2> QED
        BY <2>1, <2>2, <2>3
<1>4. CASE Publish(t)
    <2>1. PICK s \in Settings : s.by = t /\ config' = s
        BY <1>4 DEF Publish
    <2>2. /\ step[t] = "resolving" /\ UNCHANGED <<pricing, lock>>
          /\ step' = [step EXCEPT ![t] = IF s.cost THEN "loading" ELSE "exporting"]
        BY <1>4, <2>1 DEF Publish
    <2>3. s # Absent /\ lock = t /\ config = Absent
        BY <2>2, ClientConfigAssumption DEF ConfigInv
    <2>4. CASE s.cost
        <3>1. ConfigInv'
            BY <1>2, <2>1, <2>2, <2>3, <2>4 DEF ConfigInv
        <3> QED
            BY <1>2, <2>1, <2>2, <2>3, <2>4, <3>1 DEF ConfigInv, ConfigKept, Configured
    <2>5. CASE ~s.cost
        <3>1. ConfigInv'
            BY <1>2, <2>1, <2>2, <2>3, <2>5 DEF ConfigInv
        <3> QED
            BY <1>2, <2>1, <2>2, <2>3, <2>5, <3>1 DEF ConfigInv, ConfigKept, Configured
    <2> QED
        BY <2>4, <2>5
<1>5. CASE Load(t)
    <2>1. /\ step[t] = "loading" /\ lock = t /\ config # Absent /\ config' = config
          /\ \/ pricing' = t /\ step' = [step EXCEPT ![t] = "exporting"] /\ lock' = lock
             \/ pricing' = pricing /\ step' = [step EXCEPT ![t] = "raised"] /\ lock' = Absent
        BY <1>5 DEF Load, Unreadable, ConfigInv
    <2>2. CASE pricing' = t /\ step' = [step EXCEPT ![t] = "exporting"] /\ lock' = lock
        <3>1. ConfigInv'
            BY <1>2, <2>1, <2>2 DEF ConfigInv
        <3> QED
            BY <1>2, <2>1, <2>2, <3>1 DEF ConfigInv, ConfigKept, Configured
    <2>3. CASE pricing' = pricing /\ step' = [step EXCEPT ![t] = "raised"] /\ lock' = Absent
        <3>1. ConfigInv'
            BY <1>2, <2>1, <2>3 DEF ConfigInv
        <3> QED
            BY <1>2, <2>1, <2>3, <3>1 DEF ConfigInv, ConfigKept, Configured
    <2> QED
        BY <2>1, <2>2, <2>3
<1>6. CASE Export(t)
    <2>1. /\ step[t] = "exporting" /\ lock = t /\ config # Absent
          /\ step' = [step EXCEPT ![t] = "returned"] /\ lock' = Absent
          /\ UNCHANGED <<config, pricing>>
        BY <1>6 DEF Export, ConfigInv
    <2>2. ConfigInv'
        BY <1>2, <2>1 DEF ConfigInv
    <2> QED
        BY <1>2, <2>1, <2>2 DEF ConfigInv, ConfigKept, Configured
<1> QED
    BY <1>1, <1>3, <1>4, <1>5, <1>6

(* A call that a step leaves alone, and what other calls do to its object. *)
Apart(c) ==
    /\ phase'[c] = phase[c] /\ path'[c] = path[c] /\ attrs'[c] = attrs[c]
    /\ snapshot'[c] = snapshot[c] /\ chunk'[c] = chunk[c]
    /\ own'[c] = own[c] /\ answer'[c] = answer[c]
    /\ c \in crowded => c \in crowded'
    /\ c \in late' => c \in late
    /\ path[c] = "wrapped" /\ usage' # usage => usage' >= usage /\ c \in crowded'

LEMMA ApartKeeps ==
    ASSUME LlmTypes, usage' \in Nat, NEW c \in Users, CallInv(c), Apart(c)
    PROVE  CallInv(c)'
<1>1. PathKnown(c)' /\ NothingYet(c)'
    BY DEF CallInv, PathKnown, NothingYet, Apart
<1>2. UsageGrew(c)'
    <2>1. usage \in Nat /\ snapshot[c] \in Nat /\ own[c] \in Nat
        BY DEF LlmTypes
    <2> QED
        BY <2>1 DEF CallInv, UsageGrew, Apart
<1>3. OwnCounted(c)' /\ Attributed(c)'
    BY DEF CallInv, OwnCounted, Attributed, Responded, Apart
<1>4. ReadSoFar(c)'
    BY DEF CallInv, ReadSoFar, Apart
<1> QED
    BY <1>1, <1>2, <1>3, <1>4 DEF CallInv

LEMMA ApartPriced ==
    ASSUME ConfigInv, ConfigKept, NEW c \in Users, PricedLate(c), Apart(c)
    PROVE  PricedLate(c)'
<1>1. Configured => config # Absent
    BY DEF Configured, ConfigInv
<1> QED
    BY <1>1 DEF PricedLate, Apart, ConfigKept

(* A step of one call. *)
LEMMA OneCall ==
    ASSUME LlmInv, NEW c \in Users,
           ConfigInv', ConfigKept, LlmTypes', CallInv(c)', PricedLate(c)',
           \A d \in Users \ {c} : Apart(d)
    PROVE  LlmInv'
<1>1. ASSUME NEW d \in Users PROVE CallInv(d)' /\ PricedLate(d)'
    <2>1. CASE d = c
        BY <2>1
    <2>2. CASE d # c
        <3>1. Apart(d) /\ CallInv(d) /\ PricedLate(d) /\ ConfigInv /\ LlmTypes /\ usage' \in Nat
            BY <2>2 DEF LlmInv, LlmTypes
        <3> QED
            BY <3>1, ApartKeeps, ApartPriced
    <2> QED
        BY <2>1, <2>2
<1> QED
    BY <1>1 DEF LlmInv

-----------------------------------------------------------------------------
(* The steps *)

LEMMA Apartness ==
    /\ \A n \in Nat : n \notin {None, Unknown}
    /\ None # Unknown /\ None \notin Answers \union Chunks /\ Answers \intersect Chunks = {}
    /\ MaxTokens \in Nat
BY LlmSpansAssumption

LEMMA LlmInitInv == ASSUME LlmInit PROVE LlmInv
<1>1. ConfigInv
    BY ClientConfigAssumption DEF LlmInit, ConfigInit, ConfigInv
<1>2. LlmTypes
    BY Apartness DEF LlmInit, LlmTypes, NoAttrs, AttrNames, Tokens
<1>3. ASSUME NEW c \in Users PROVE CallInv(c) /\ PricedLate(c)
    <2>1. /\ phase[c] = "idle" /\ path[c] = None /\ attrs[c].tokens = None
          /\ chunk[c] = NoChunk /\ own[c] = 0 /\ answer[c] = None /\ late = {}
        BY <1>3 DEF LlmInit, NoAttrs
    <2> QED
        BY <2>1, Apartness DEF CallInv, PathKnown, NothingYet, UsageGrew, OwnCounted, Attributed,
           Responded, ReadSoFar, PricedLate
<1> QED
    BY <1>1, <1>2, <1>3 DEF LlmInv

LEMMA RunningKeeps ==
    ASSUME NEW c \in Users, phase'[c] \in {"starting", "running"},
           path'[c] \in {"decorated", "wrapped"},
           phase'[c] = "starting" => path'[c] = "decorated",
           answer'[c] = None, attrs'[c].tokens = None, chunk'[c] = NoChunk, own'[c] = 0,
           UsageGrew(c)', c \notin late'
    PROVE  CallInv(c)' /\ PricedLate(c)'
<1>1. None \notin Answers /\ None \notin Chunks
    BY Apartness
<1>2. PathKnown(c)'
    BY <1>1 DEF PathKnown
<1>3. NothingYet(c)'
    BY DEF NothingYet
<1>4. OwnCounted(c)' /\ Attributed(c)' /\ PricedLate(c)'
    BY DEF OwnCounted, Attributed, Responded, PricedLate
<1>5. ReadSoFar(c)'
    BY <1>1 DEF ReadSoFar
<1> QED
    BY <1>2, <1>3, <1>4, <1>5 DEF CallInv

LEMMA StartDecoratedKeeps ==
    ASSUME LlmInv, NEW c \in Users, StartDecorated(c)
    PROVE  LlmInv'
<1>1. PICK a \in Requests, evaluate \in BOOLEAN :
        /\ Goes(c, "idle", IF evaluate THEN "running" ELSE "starting")
        /\ path' = [path EXCEPT ![c] = "decorated"]
        /\ attrs' = [attrs EXCEPT ![c].model = ResolveRequest(a).model,
                                  ![c].provider = OrElse(ResolveRequest(a).provider, a.override)]
        /\ UNCHANGED <<configVars, usage, snapshot, chunk, own, answer, crowded, late>>
    BY DEF StartDecorated
<1>2. PICK next, model, provider :
        /\ next = IF evaluate THEN "running" ELSE "starting"
        /\ model = ResolveRequest(a).model
        /\ provider = OrElse(ResolveRequest(a).provider, a.override)
    OBVIOUS
<1>3. /\ next \in {"running", "starting"}
       /\ phase[c] = "idle" /\ phase' = [phase EXCEPT ![c] = next]
       /\ path' = [path EXCEPT ![c] = "decorated"]
       /\ attrs' = [attrs EXCEPT ![c].model = model, ![c].provider = provider]
       /\ UNCHANGED <<config, pricing, lock, step, usage, snapshot, chunk, own, answer, crowded,
                      late>>
    BY <1>1, <1>2 DEF Goes, configVars
<1>4. ConfigInv' /\ ConfigKept
    BY <1>3, ConfigStill DEF LlmInv
<1>5. /\ phase'[c] = next /\ path'[c] = "decorated" /\ attrs'[c].tokens = attrs[c].tokens
      /\ DOMAIN attrs'[c] = DOMAIN attrs[c]
    BY <1>3 DEF LlmInv, LlmTypes
<1>6. LlmTypes'
    BY <1>3 DEF LlmInv, LlmTypes
<1>7. \A d \in Users \ {c} : Apart(d)
    BY <1>3 DEF LlmInv, LlmTypes, Apart
<1>8. CallInv(c) /\ PricedLate(c) /\ phase[c] = "idle"
    BY <1>3 DEF LlmInv
<1>9. CallInv(c)' /\ PricedLate(c)'
    <2>1. answer[c] = None /\ attrs[c].tokens = None /\ chunk[c] = NoChunk /\ own[c] = 0
        BY <1>8 DEF CallInv, NothingYet
    <2>2. c \notin late
        BY <1>8 DEF PricedLate
    <2>3. UsageGrew(c)'
        BY <1>5 DEF UsageGrew
    <2> QED
        BY <1>3, <1>5, <2>1, <2>2, <2>3, RunningKeeps
<1> QED
    BY <1>4, <1>6, <1>7, <1>9, OneCall

LEMMA BeginDecoratedKeeps ==
    ASSUME LlmInv, NEW c \in Users, BeginDecorated(c)
    PROVE  LlmInv'
<1>1. /\ phase[c] = "starting" /\ phase' = [phase EXCEPT ![c] = "running"]
      /\ UNCHANGED <<path, attrs, usage, snapshot, chunk, own, answer, crowded, late>>
    BY DEF BeginDecorated, Goes
<1>2. ConfigInv' /\ ConfigKept
    BY ConfigGot DEF BeginDecorated, LlmInv
<1>3. phase'[c] = "running"
    BY <1>1 DEF LlmInv, LlmTypes
<1>4. LlmTypes'
    BY <1>1 DEF LlmInv, LlmTypes
<1>5. \A d \in Users \ {c} : Apart(d)
    BY <1>1 DEF LlmInv, LlmTypes, Apart
<1>6. CallInv(c) /\ PricedLate(c)
    BY DEF LlmInv
<1>7. path[c] = "decorated"
    BY <1>1, <1>6 DEF CallInv, PathKnown
<1>8. CallInv(c)' /\ PricedLate(c)'
    <2>1. answer[c] = None /\ attrs[c].tokens = None /\ chunk[c] = NoChunk /\ own[c] = 0
        BY <1>1, <1>6 DEF CallInv, NothingYet
    <2>2. c \notin late
        BY <1>1, <1>6 DEF PricedLate
    <2>3. UsageGrew(c)'
        BY <1>1, <1>7 DEF UsageGrew
    <2> QED
        BY <1>1, <1>3, <1>7, <2>1, <2>2, <2>3, RunningKeeps
<1> QED
    BY <1>2, <1>4, <1>5, <1>8, OneCall

LEMMA StartWrappedKeeps ==
    ASSUME LlmInv, NEW c \in Users, StartWrapped(c)
    PROVE  LlmInv'
<1>1. PICK a \in Requests :
        /\ phase[c] = "idle" /\ phase' = [phase EXCEPT ![c] = "running"]
        /\ path' = [path EXCEPT ![c] = "wrapped"]
        /\ attrs' = [attrs EXCEPT ![c].model = a.model, ![c].provider = a.inside]
        /\ snapshot' = [snapshot EXCEPT ![c] = usage]
        /\ UNCHANGED <<config, pricing, lock, step, usage, chunk, own, answer, crowded, late>>
    BY DEF StartWrapped, Goes, configVars
<1>2. ConfigInv' /\ ConfigKept
    BY <1>1, ConfigStill DEF LlmInv
<1>3. /\ phase'[c] = "running" /\ path'[c] = "wrapped" /\ attrs'[c].tokens = attrs[c].tokens
      /\ snapshot'[c] = usage /\ usage \in Nat
      /\ DOMAIN attrs'[c] = DOMAIN attrs[c]
    BY <1>1 DEF LlmInv, LlmTypes
<1>4. LlmTypes'
    BY <1>1 DEF LlmInv, LlmTypes
<1>5. \A d \in Users \ {c} : Apart(d)
    BY <1>1 DEF LlmInv, LlmTypes, Apart
<1>6. CallInv(c) /\ PricedLate(c) /\ phase[c] = "idle"
    BY <1>1 DEF LlmInv
<1>7. UsageGrew(c)'
    <2>1. own'[c] = 0 /\ usage' = usage
        BY <1>1, <1>6 DEF CallInv, NothingYet
    <2> QED
        BY <1>3, <2>1 DEF UsageGrew
<1>8. CallInv(c)' /\ PricedLate(c)'
    <2>1. answer[c] = None /\ attrs[c].tokens = None /\ chunk[c] = NoChunk /\ own[c] = 0
        BY <1>6 DEF CallInv, NothingYet
    <2>2. c \notin late
        BY <1>6 DEF PricedLate
    <2> QED
        BY <1>1, <1>3, <1>7, <2>1, <2>2, RunningKeeps
<1> QED
    BY <1>2, <1>4, <1>5, <1>8, OneCall

LEMMA AnswerKeeps ==
    ASSUME LlmInv, NEW c \in Users, Answer(c)
    PROVE  LlmInv'
<1>1. PICK n \in 0..MaxTokens :
        /\ phase[c] = "running" /\ phase' = [phase EXCEPT ![c] = "answered"]
        /\ own' = [own EXCEPT ![c] = n]
        /\ IF path[c] = "wrapped"
             THEN /\ usage' = usage + n
                  /\ crowded' = IF n = 0 THEN crowded
                                ELSE crowded \union {d \in Users \ {c} : path[d] = "wrapped"}
             ELSE UNCHANGED <<usage, crowded>>
        /\ UNCHANGED <<config, pricing, lock, step, path, attrs, snapshot, chunk, answer, late>>
    BY DEF Answer, Goes, configVars
<1>2. ConfigInv' /\ ConfigKept
    BY <1>1, ConfigStill DEF LlmInv
<1>3. /\ phase'[c] = "answered" /\ own'[c] = n /\ n \in Nat
      /\ usage \in Nat /\ snapshot[c] \in Nat
    BY <1>1, Apartness DEF LlmInv, LlmTypes
<1>4. usage' \in Nat /\ crowded' \subseteq Users
    BY <1>1, <1>3 DEF LlmInv, LlmTypes
<1>5. LlmTypes'
    BY <1>1, <1>3, <1>4 DEF LlmInv, LlmTypes
<1>6. ASSUME NEW d \in Users \ {c} PROVE Apart(d)
    <2>1. path[d] = "wrapped" /\ usage' # usage => usage' >= usage /\ d \in crowded'
        BY <1>1, <1>3
    <2>2. d \in crowded => d \in crowded'
        BY <1>1
    <2> QED
        BY <1>1, <2>1, <2>2 DEF LlmInv, LlmTypes, Apart
<1>7. /\ CallInv(c) /\ c \notin late
      /\ path[c] \in {"decorated", "wrapped"}
      /\ answer[c] = None /\ attrs[c].tokens = None /\ chunk[c] = NoChunk /\ own[c] = 0
    BY <1>1 DEF LlmInv, CallInv, PathKnown, NothingYet, PricedLate
<1>8. UsageGrew(c)'
    <2>1. SUFFICES ASSUME path[c] = "wrapped"
                   PROVE  /\ usage' >= snapshot[c] + n
                          /\ c \notin crowded' => usage' = snapshot[c] + n
        BY <1>1, <1>3 DEF UsageGrew
    <2>2. usage' = usage + n /\ (c \notin crowded' => c \notin crowded)
        BY <1>1, <2>1
    <2>3. usage >= snapshot[c] + 0 /\ (c \notin crowded => usage = snapshot[c] + 0)
        BY <1>1, <1>7, <2>1 DEF CallInv, UsageGrew
    <2> QED
        BY <1>3, <2>2, <2>3
<1>9. CallInv(c)' /\ PricedLate(c)'
    BY <1>1, <1>3, <1>7, <1>8, Apartness DEF CallInv, PathKnown, NothingYet, OwnCounted,
       Attributed, Responded, ReadSoFar, PricedLate
<1> QED
    BY <1>2, <1>5, <1>6, <1>9, OneCall

(* What a result's tokens become, given what the result says of them. *)
LEMMA Taken ==
    ASSUME NEW c \in Users, NEW r, attrs[c].tokens = None, own[c] \in Nat,
           r.tokens \in {None, "reported"}, r.extras.tokens \in {None, "reported"},
           usage \in Nat, snapshot[c] \in Nat,
           NEW total, total = IF r.tokens = None /\ r.extras.tokens = None THEN None ELSE own[c]
    PROVE  Enriched(c, r).tokens =
              IF path[c] = "decorated" THEN total
              ELSE IF total \in {None, 0} /\ usage > snapshot[c] THEN usage - snapshot[c]
              ELSE total
<1>1. own[c] \notin {None, Unknown} /\ None # Unknown
    BY Apartness
<1>2. /\ OrElse(None, None) = None /\ OrElse(None, own[c]) = own[c]
      /\ OrElse(own[c], None) = own[c] /\ OrElse(own[c], own[c]) = own[c]
    BY <1>1 DEF OrElse
<1> QED
    BY <1>1, <1>2 DEF Enriched, TotalBefore

(* ... and its maker and model. *)
LEMMA Labelled ==
    ASSUME NEW c \in Users, NEW r, NEW maker, NEW model,
           r.provider = maker, maker \notin {None, Unknown},
           r.model = model, model \notin {None, Unknown},
           r.extras.model \in {None, model}
    PROVE  Enriched(c, r).provider = maker /\ Enriched(c, r).model = model
BY DEF Enriched, OrElse

LEMMA EnrichKeeps ==
    ASSUME LlmInv, NEW c \in Users, Enrich(c)
    PROVE  LlmInv'
<1>1. PICK a \in Answers :
        /\ phase[c] = "answered" /\ phase' = [phase EXCEPT ![c] = "ending"]
        /\ answer' = [answer EXCEPT ![c] = a]
        /\ attrs' = [attrs EXCEPT ![c] = Enriched(c, Resolve(a.result))]
        /\ UNCHANGED <<config, pricing, lock, step, path, usage, snapshot, chunk, own, crowded,
                       late>>
    BY DEF Enrich, Goes, configVars
<1>2. PICK r : r = Resolve(a.result)
    OBVIOUS
<1>3. /\ a.maker # None =>
            /\ r.provider = a.maker /\ a.maker \notin {None, Unknown}
            /\ r.model = a.model /\ a.model \notin {None, Unknown}
            /\ r.extras.model \in {None, a.model}
      /\ a.reports => r.tokens = "reported" \/ r.extras.tokens = "reported"
      /\ r.tokens \in {None, "reported"} /\ r.extras.tokens \in {None, "reported"}
    BY <1>2, ResolvedAs
<1>4. PICK new : new = Enriched(c, r)
    OBVIOUS
<1>5. /\ phase'[c] = "ending" /\ answer'[c] = a /\ attrs'[c] = new
      /\ own[c] \in Nat /\ usage \in Nat /\ snapshot[c] \in Nat
    BY <1>1, <1>2, <1>4 DEF LlmInv, LlmTypes
<1>6. CallInv(c) /\ PricedLate(c)
    BY DEF LlmInv
<1>7. attrs[c].tokens = None /\ path[c] \in {"decorated", "wrapped"} /\ c \notin late
    BY <1>1, <1>6 DEF CallInv, NothingYet, PathKnown, PricedLate
<1>8. PICK total : total = IF r.tokens = None /\ r.extras.tokens = None THEN None ELSE own[c]
    OBVIOUS
<1>9. new.tokens = IF path[c] = "decorated" THEN total
                   ELSE IF total \in {None, 0} /\ usage > snapshot[c] THEN usage - snapshot[c]
                   ELSE total
    BY <1>3, <1>4, <1>5, <1>7, <1>8, Taken
<1>10. a.maker # None => new.provider = a.maker /\ new.model = a.model
    BY <1>3, <1>4, Labelled
<1>11. a.reports => total = own[c]
    BY <1>3, <1>8, Named
<1>12. path[c] = "wrapped" =>
        usage >= snapshot[c] + own[c] /\ (c \notin crowded => usage = snapshot[c] + own[c])
    BY <1>1, <1>6 DEF CallInv, UsageGrew
<1>13. total \in {None, own[c]} /\ new.tokens \in Tokens
    BY <1>5, <1>8, <1>9 DEF Tokens
<1>14. a.reports => new.tokens = own[c] \/ (own[c] = 0 /\ c \in crowded)
    BY <1>5, <1>7, <1>9, <1>11, <1>12, Apartness
<1>15. path[c] = "wrapped" =>
        /\ OrElse(new.tokens, 0) >= own[c]
        /\ c \notin crowded => OrElse(new.tokens, 0) = own[c]
    <2>1. SUFFICES ASSUME path[c] = "wrapped"
                   PROVE  /\ OrElse(new.tokens, 0) >= own[c]
                          /\ c \notin crowded => OrElse(new.tokens, 0) = own[c]
        OBVIOUS
    <2>2. CASE total \in {None, 0} /\ usage > snapshot[c]
        <3>1. new.tokens = usage - snapshot[c] /\ new.tokens \in Nat
            BY <1>5, <1>9, <2>1, <2>2
        <3>2. OrElse(new.tokens, 0) = usage - snapshot[c]
            BY <3>1, Apartness DEF OrElse
        <3> QED
            BY <1>5, <1>12, <2>1, <3>2
    <2>3. CASE total \in {None, 0} /\ ~(usage > snapshot[c])
        <3>1. own[c] = 0 /\ new.tokens \in {None, 0}
            BY <1>5, <1>9, <1>12, <2>1, <2>3
        <3>2. OrElse(new.tokens, 0) = 0
            BY <3>1 DEF OrElse
        <3> QED
            BY <3>1, <3>2
    <2>4. CASE total \notin {None, 0}
        <3>1. new.tokens = own[c]
            BY <1>9, <1>13, <2>1, <2>4
        <3>2. OrElse(new.tokens, 0) = own[c]
            BY <1>5, <3>1, Apartness DEF OrElse
        <3> QED
            BY <1>5, <3>2
    <2> QED
        BY <2>2, <2>3, <2>4
<1>16. ConfigInv' /\ ConfigKept
    BY <1>1, ConfigStill DEF LlmInv
<1>17. LlmTypes'
    <2>1. DOMAIN new = AttrNames
        BY <1>4 DEF Enriched, AttrNames
    <2> QED
        BY <1>1, <1>2, <1>4, <1>13, <2>1 DEF LlmInv, LlmTypes
<1>18. \A d \in Users \ {c} : Apart(d)
    BY <1>1 DEF LlmInv, LlmTypes, Apart
<1>19. a # None /\ a \notin Chunks
    BY Apartness
<1>20. PathKnown(c)' /\ NothingYet(c)' /\ UsageGrew(c)' /\ ReadSoFar(c)' /\ PricedLate(c)'
    BY <1>1, <1>5, <1>7, <1>19 DEF PathKnown, NothingYet, UsageGrew, ReadSoFar, PricedLate
<1>21. OwnCounted(c)' /\ Attributed(c)'
    BY <1>1, <1>5, <1>10, <1>14, <1>15 DEF OwnCounted, Attributed
<1> QED
    BY <1>16, <1>17, <1>18, <1>20, <1>21, OneCall DEF CallInv

LEMMA RaiseKeeps ==
    ASSUME LlmInv, NEW c \in Users, Raise(c)
    PROVE  LlmInv'
<1>1. /\ phase[c] \in {"running", "answered", "streaming", "yielded"}
      /\ phase' = [phase EXCEPT ![c] = "ending"]
      /\ UNCHANGED <<config, pricing, lock, step, path, attrs, usage, snapshot, chunk, own, answer,
                     crowded, late>>
    BY DEF Raise, configVars
<1>2. ConfigInv' /\ ConfigKept
    BY <1>1, ConfigStill DEF LlmInv
<1>3. phase'[c] = "ending" /\ LlmTypes'
    BY <1>1 DEF LlmInv, LlmTypes
<1>4. \A d \in Users \ {c} : Apart(d)
    BY <1>1 DEF LlmInv, LlmTypes, Apart
<1>5. CallInv(c) /\ PricedLate(c)
    BY DEF LlmInv
<1>6. answer[c] \in Chunks \union {None}
    BY <1>1, <1>5 DEF CallInv, NothingYet, ReadSoFar
<1>7. answer[c] \notin Answers
    BY <1>6, Apartness
<1>8. PathKnown(c)' /\ NothingYet(c)' /\ UsageGrew(c)' /\ PricedLate(c)'
    BY <1>1, <1>3, <1>5 DEF CallInv, PathKnown, NothingYet, UsageGrew, PricedLate
<1>9. OwnCounted(c)' /\ Attributed(c)'
    BY <1>1, <1>7 DEF OwnCounted, Attributed, Responded
<1>10. ReadSoFar(c)'
    BY <1>1, <1>3, <1>5 DEF CallInv, ReadSoFar
<1> QED
    BY <1>2, <1>3, <1>4, <1>8, <1>9, <1>10, OneCall DEF CallInv

LEMMA FirstChunkKeeps ==
    ASSUME LlmInv, NEW c \in Users, FirstChunk(c)
    PROVE  LlmInv'
<1>1. /\ phase[c] = "running" /\ phase' = [phase EXCEPT ![c] = "streaming"]
      /\ UNCHANGED <<path, attrs, usage, snapshot, chunk, own, answer, crowded, late>>
    BY DEF FirstChunk, Goes
<1>2. ConfigInv' /\ ConfigKept
    BY ConfigGot DEF FirstChunk, LlmInv
<1>3. phase'[c] = "streaming" /\ LlmTypes'
    BY <1>1 DEF LlmInv, LlmTypes
<1>4. \A d \in Users \ {c} : Apart(d)
    BY <1>1 DEF LlmInv, LlmTypes, Apart
<1>5. /\ CallInv(c) /\ c \notin late
      /\ answer[c] = None /\ attrs[c].tokens = None /\ chunk[c] = NoChunk /\ own[c] = 0
    BY <1>1 DEF LlmInv, CallInv, NothingYet, PricedLate
<1>6. CallInv(c)' /\ PricedLate(c)'
    BY <1>1, <1>3, <1>5, Apartness DEF CallInv, PathKnown, NothingYet, UsageGrew, OwnCounted,
       Attributed, Responded, ReadSoFar, PricedLate
<1> QED
    BY <1>2, <1>3, <1>4, <1>6, OneCall

LEMMA ChunkKeeps ==
    ASSUME LlmInv, NEW c \in Users, Chunk(c)
    PROVE  LlmInv'
<1>1. PICK k \in Chunks, n \in (0..MaxTokens) \union {None}, total \in Nat :
        /\ total = IF n = None THEN own[c] ELSE IF k.of \in Running THEN n ELSE own[c] + n
        /\ path[c] = "decorated"
        /\ phase[c] = "streaming" /\ phase' = [phase EXCEPT ![c] = "yielded"]
        /\ answer[c] \in {None, k}
        /\ own' = [own EXCEPT ![c] = total]
        /\ answer' = [answer EXCEPT ![c] = k]
        /\ chunk' = [chunk EXCEPT ![c] = <<n>>]
        /\ UNCHANGED <<config, pricing, lock, step, path, attrs, usage, snapshot, crowded, late>>
    <2>1. own[c] \in Nat
        BY DEF LlmInv, LlmTypes
    <2>2. PICK k, n, total :
            /\ k \in Chunks /\ n \in (0..MaxTokens) \union {None}
            /\ total = IF n = None THEN own[c] ELSE IF k.of \in Running THEN n ELSE own[c] + n
            /\ path[c] = "decorated"
            /\ Goes(c, "streaming", "yielded")
            /\ answer[c] \in {None, k}
            /\ total \in own[c]..MaxTokens
            /\ own' = [own EXCEPT ![c] = total]
            /\ answer' = [answer EXCEPT ![c] = k]
            /\ chunk' = [chunk EXCEPT ![c] = <<n>>]
            /\ UNCHANGED <<configVars, path, attrs, usage, snapshot, crowded, late>>
        BY DEF Chunk
    <2>3. total \in Nat
        BY <2>1, <2>2, Apartness
    <2> QED
        BY <2>2, <2>3 DEF Goes, configVars
<1>2. ConfigInv' /\ ConfigKept
    BY <1>1, ConfigStill DEF LlmInv
<1>3. /\ phase'[c] = "yielded" /\ own'[c] = total /\ answer'[c] = k /\ chunk'[c] = <<n>>
      /\ path'[c] = "decorated" /\ attrs'[c] = attrs[c] /\ own[c] \in Nat
      /\ n \in Tokens
    BY <1>1, Apartness DEF LlmInv, LlmTypes, Tokens
<1>4. LlmTypes'
    BY <1>1 DEF LlmInv, LlmTypes
<1>5. \A d \in Users \ {c} : Apart(d)
    BY <1>1 DEF LlmInv, LlmTypes, Apart
<1>6. CallInv(c) /\ PricedLate(c)
    BY DEF LlmInv
<1>7. k \notin Answers /\ k # None
    BY Apartness
<1>8. PathKnown(c)' /\ NothingYet(c)' /\ UsageGrew(c)' /\ OwnCounted(c)' /\ Attributed(c)'
    BY <1>3, <1>7 DEF PathKnown, NothingYet, UsageGrew, OwnCounted, Attributed, Responded
<1>9. PricedLate(c)'
    BY <1>1, <1>6 DEF PricedLate
<1>10. ResolveStreamChunk(k) # None => OrElse(attrs[c].tokens, 0) = own[c]
    <2>1. CASE answer[c] = None
        BY <1>1, <1>6, <2>1 DEF CallInv, ReadSoFar, OrElse
    <2>2. CASE answer[c] = k
        BY <1>1, <1>6, <2>2 DEF CallInv, ReadSoFar
    <2> QED
        BY <1>1, <2>1, <2>2
<1>11. ResolveStreamChunk(k) # None =>
        total = IF k.of \in Running /\ n # None THEN n
                ELSE OrElse(attrs[c].tokens, 0) + OrElse(n, 0)
    <2>1. n # None => OrElse(n, 0) = n
        BY <1>1, Apartness DEF OrElse
    <2>2. n = None => OrElse(n, 0) = 0
        BY DEF OrElse
    <2> QED
        BY <1>1, <1>3, <1>10, <2>1, <2>2
<1>12. ReadSoFar(c)'
    <2>1. chunk'[c] # NoChunk /\ \A m : chunk'[c] = <<m>> => m = n
        BY <1>3 DEF NoChunk
    <2> QED
        BY <1>3, <1>11, <2>1 DEF ReadSoFar
<1> QED
    BY <1>2, <1>4, <1>5, <1>8, <1>9, <1>12, OneCall DEF CallInv

LEMMA ResumeKeeps ==
    ASSUME LlmInv, NEW c \in Users, Resume(c)
    PROVE  LlmInv'
<1>1. /\ phase[c] = "yielded" /\ phase' = [phase EXCEPT ![c] = "streaming"]
      /\ attrs' = [attrs EXCEPT ![c] = Accumulated(c, answer[c], Head(chunk[c]))]
      /\ chunk' = [chunk EXCEPT ![c] = NoChunk]
      /\ UNCHANGED <<config, pricing, lock, step, path, usage, snapshot, own, answer, crowded,
                     late>>
    BY DEF Resume, Goes, configVars
<1>2. CallInv(c) /\ PricedLate(c)
    BY DEF LlmInv
<1>3. PICK k \in Chunks, n \in Tokens : k = answer[c] /\ chunk[c] = <<n>>
    BY <1>1, <1>2 DEF CallInv, ReadSoFar
<1>4. PICK new : new = Accumulated(c, k, n)
    OBVIOUS
<1>5. Head(chunk[c]) = n
    BY <1>3
<1>6. PICK a : a = ResolveStreamChunk(k)
    OBVIOUS
<1>7. PICK t \in Tokens : t = attrs[c].tokens
    BY DEF LlmInv, LlmTypes
<1>8. DOMAIN attrs[c] = AttrNames /\ own[c] \in Nat
    BY DEF LlmInv, LlmTypes
<1>9. /\ DOMAIN new = AttrNames
      /\ a = None => new.tokens = t
      /\ a # None => new.tokens = IF a.mode = "cumulative" THEN OrElse(n, t)
                                  ELSE OrElse(t, 0) + OrElse(n, 0)
    BY <1>4, <1>6, <1>7, <1>8 DEF Accumulated, AttrNames
<1>10. /\ n = None \/ n \in Nat
       /\ n # None => OrElse(n, 0) = n /\ OrElse(n, t) = n
       /\ n = None => OrElse(n, 0) = 0 /\ OrElse(n, t) = t
       /\ t # None => OrElse(t, 0) = t
       /\ t = None => OrElse(t, 0) = 0
       /\ t = None \/ t \in Nat
    BY Apartness DEF OrElse, Tokens
<1>11. new.tokens \in Tokens
    <2>1. OrElse(t, 0) + OrElse(n, 0) \in Nat
        BY <1>10
    <2> QED
        BY <1>9, <1>10, <2>1 DEF Tokens
<1>12. a # None => OrElse(new.tokens, 0) = own[c]
    <2>1. SUFFICES ASSUME a # None PROVE OrElse(new.tokens, 0) = own[c]
        OBVIOUS
    <2>2. a.mode = "cumulative" <=> k.of \in Running
        BY <1>6, <2>1, ChunkModes
    <2>3. own[c] = IF k.of \in Running /\ n # None THEN n ELSE OrElse(t, 0) + OrElse(n, 0)
        BY <1>1, <1>2, <1>3, <1>6, <1>7, <2>1 DEF CallInv, ReadSoFar
    <2>4. CASE k.of \in Running
        BY <1>9, <1>10, <2>1, <2>2, <2>3, <2>4
    <2>5. CASE k.of \notin Running
        <3>1. new.tokens = own[c]
            BY <1>9, <2>1, <2>2, <2>3, <2>5
        <3> QED
            BY <1>8, <3>1, Apartness DEF OrElse
    <2> QED
        BY <2>4, <2>5
<1>13. attrs' = [attrs EXCEPT ![c] = new]
    BY <1>1, <1>3, <1>4, <1>5
<1>14. phase'[c] = "streaming" /\ attrs'[c] = new /\ chunk'[c] = NoChunk /\ answer'[c] = k
    BY <1>1, <1>3, <1>13 DEF LlmInv, LlmTypes
<1>15. LlmTypes'
    BY <1>1, <1>9, <1>11, <1>13 DEF LlmInv, LlmTypes
<1>16. ConfigInv' /\ ConfigKept
    BY <1>1, ConfigStill DEF LlmInv
<1>17. \A d \in Users \ {c} : Apart(d)
    BY <1>1, <1>13 DEF LlmInv, LlmTypes, Apart
<1>18. k \notin Answers /\ k # None
    BY Apartness
<1>19. path[c] = "decorated"
    BY <1>1, <1>2 DEF CallInv, PathKnown
<1>20. PathKnown(c)' /\ NothingYet(c)' /\ UsageGrew(c)' /\ OwnCounted(c)' /\ Attributed(c)'
    BY <1>1, <1>14, <1>18, <1>19 DEF PathKnown, NothingYet, UsageGrew, OwnCounted, Attributed,
       Responded
<1>21. ReadSoFar(c)'
    <2>1. phase'[c] # "yielded"
        BY <1>14
    <2> QED
        BY <1>1, <1>6, <1>12, <1>14, <1>18, <2>1 DEF ReadSoFar
<1>22. PricedLate(c)'
    BY <1>1, <1>2 DEF PricedLate
<1> QED
    BY <1>15, <1>16, <1>17, <1>20, <1>21, <1>22, OneCall DEF CallInv

LEMMA EndStreamKeeps ==
    ASSUME LlmInv, NEW c \in Users, EndStream(c)
    PROVE  LlmInv'
<1>1. /\ phase[c] = "streaming" /\ phase' = [phase EXCEPT ![c] = "ending"]
      /\ UNCHANGED <<config, pricing, lock, step, path, attrs, usage, snapshot, chunk, own, answer,
                     crowded, late>>
    BY DEF EndStream, Goes, configVars
<1>2. Raise(c)
    BY <1>1 DEF Raise, configVars, EndStream
<1> QED
    BY <1>2, RaiseKeeps

LEMMA FinalizeKeeps ==
    ASSUME LlmInv, NEW c \in Users, Finalize(c)
    PROVE  LlmInv'
<1>1. PICK new, next :
        /\ next \in {"pricing", "final"}
        /\ phase[c] = "ending" /\ phase' = [phase EXCEPT ![c] = next]
        /\ config'.cost => next = "pricing"
        /\ new = Defaults(c) /\ attrs' = [attrs EXCEPT ![c] = new]
        /\ late' = IF Configured THEN late \union {c} ELSE late
        /\ UNCHANGED <<path, usage, snapshot, chunk, own, answer, crowded>>
    <2>1. PICK next : next = IF config'.cost THEN "pricing" ELSE "final"
        OBVIOUS
    <2>2. PICK new : new = Defaults(c)
        OBVIOUS
    <2>3. next \in {"pricing", "final"} /\ (config'.cost => next = "pricing")
        BY <2>1
    <2>4. /\ phase[c] = "ending" /\ phase' = [phase EXCEPT ![c] = next]
          /\ attrs' = [attrs EXCEPT ![c] = new]
          /\ late' = IF Configured THEN late \union {c} ELSE late
          /\ UNCHANGED <<path, usage, snapshot, chunk, own, answer, crowded>>
        BY <2>1, <2>2 DEF Finalize, Goes
    <2> QED
        BY <2>2, <2>3, <2>4
<1>2. ConfigInv' /\ ConfigKept
    BY ConfigGot DEF Finalize, LlmInv
<1>3. DOMAIN attrs[c] = AttrNames
    BY DEF LlmInv, LlmTypes
<1>4. /\ DOMAIN new = AttrNames /\ new.tokens = attrs[c].tokens
      /\ attrs[c].model # None => new.model = attrs[c].model
      /\ attrs[c].provider # None => new.provider = attrs[c].provider
    BY <1>1, <1>3 DEF Defaults, AttrNames
<1>5. phase'[c] = next /\ attrs'[c] = new
    BY <1>1 DEF LlmInv, LlmTypes
<1>6. LlmTypes'
    BY <1>1, <1>4 DEF LlmInv, LlmTypes
<1>7. \A d \in Users \ {c} : Apart(d)
    BY <1>1 DEF LlmInv, LlmTypes, Apart
<1>8. CallInv(c) /\ PricedLate(c)
    BY DEF LlmInv
<1>9. PathKnown(c)' /\ NothingYet(c)' /\ UsageGrew(c)'
    BY <1>1, <1>5, <1>8 DEF CallInv, PathKnown, NothingYet, UsageGrew
<1>10. OwnCounted(c)'
    BY <1>1, <1>4, <1>5, <1>8 DEF CallInv, OwnCounted, Responded
<1>11. Attributed(c)'
    <2>1. ASSUME answer[c] \in Answers, answer[c].maker # None
          PROVE  answer[c].maker # None /\ answer[c].model # None
        <3>1. PICK a \in Answers : a = answer[c]
            BY <2>1
        <3> QED
            BY <2>1, <3>1, ResolvedAs
    <2> QED
        BY <1>1, <1>4, <1>5, <1>8, <2>1 DEF CallInv, Attributed, Responded
<1>12. ReadSoFar(c)'
    BY <1>1, <1>4, <1>5, <1>8 DEF CallInv, ReadSoFar
<1>13. PricedLate(c)'
    <2>1. c \notin late
        BY <1>1, <1>8 DEF PricedLate
    <2>2. c \in late' => Configured'
        BY <1>1, <1>2, <2>1 DEF ConfigKept
    <2> QED
        BY <1>1, <1>5, <2>2 DEF PricedLate
<1> QED
    BY <1>2, <1>6, <1>7, <1>9, <1>10, <1>11, <1>12, <1>13, OneCall DEF CallInv

LEMMA PriceKeeps ==
    ASSUME LlmInv, NEW c \in Users, Price(c)
    PROVE  LlmInv'
<1>1. PICK cost :
        /\ phase[c] = "pricing" /\ phase' = [phase EXCEPT ![c] = "final"]
        /\ attrs' = [attrs EXCEPT ![c].cost = cost]
        /\ pricing # Absent =>
              cost = IF attrs[c].provider \in PriceList THEN "priced" ELSE "missing"
        /\ UNCHANGED <<config, pricing, lock, step, path, usage, snapshot, chunk, own, answer,
                       crowded, late>>
    BY DEF Price, Goes, configVars
<1>2. ConfigInv' /\ ConfigKept
    BY <1>1, ConfigStill DEF LlmInv
<1>3. DOMAIN attrs[c] = AttrNames /\ DOMAIN attrs = Users
    BY DEF LlmInv, LlmTypes
<1>4. /\ phase'[c] = "final" /\ DOMAIN attrs'[c] = AttrNames /\ attrs'[c].cost = cost
      /\ attrs'[c].tokens = attrs[c].tokens /\ attrs'[c].model = attrs[c].model
      /\ attrs'[c].provider = attrs[c].provider
    BY <1>1, <1>3 DEF LlmInv, LlmTypes, AttrNames
<1>5. LlmTypes'
    BY <1>1, <1>4 DEF LlmInv, LlmTypes
<1>6. \A d \in Users \ {c} : Apart(d)
    BY <1>1 DEF LlmInv, LlmTypes, Apart
<1>7. CallInv(c) /\ PricedLate(c)
    BY DEF LlmInv
<1>8. PathKnown(c)' /\ NothingYet(c)' /\ UsageGrew(c)' /\ OwnCounted(c)' /\ Attributed(c)'
    BY <1>1, <1>4, <1>7 DEF CallInv, PathKnown, NothingYet, UsageGrew, OwnCounted, Attributed,
       Responded
<1>9. ReadSoFar(c)'
    BY <1>1, <1>4, <1>7 DEF CallInv, ReadSoFar
<1>10. PricedLate(c)'
    <2>1. SUFFICES ASSUME c \in late
                   PROVE  /\ Configured
                          /\ config.cost =>
                              cost = IF attrs[c].provider \in PriceList THEN "priced" ELSE "missing"
        BY <1>1, <1>4 DEF PricedLate, Configured
    <2>2. Configured
        BY <1>7, <2>1 DEF PricedLate
    <2>3. config.cost => pricing # Absent
        BY <2>2 DEF Configured, LlmInv, ConfigInv
    <2> QED
        BY <1>1, <2>2, <2>3
<1> QED
    BY <1>2, <1>5, <1>6, <1>8, <1>9, <1>10, OneCall DEF CallInv

LEMMA EnqueueSpanKeeps ==
    ASSUME LlmInv, NEW c \in Users, EnqueueSpan(c)
    PROVE  LlmInv'
<1>1. /\ phase[c] = "final" /\ phase' = [phase EXCEPT ![c] = "done"]
      /\ path' = [path EXCEPT ![c] = None]
      /\ attrs' = [attrs EXCEPT ![c] = NoAttrs]
      /\ snapshot' = [snapshot EXCEPT ![c] = 0]
      /\ chunk' = [chunk EXCEPT ![c] = NoChunk]
      /\ own' = [own EXCEPT ![c] = 0]
      /\ answer' = [answer EXCEPT ![c] = None]
      /\ crowded' = crowded \ {c} /\ late' = late \ {c}
      /\ UNCHANGED <<config, pricing, lock, step, usage>>
    BY DEF EnqueueSpan, Goes, configVars
<1>2. ConfigInv' /\ ConfigKept
    BY <1>1, ConfigStill DEF LlmInv
<1>3. /\ phase'[c] = "done" /\ answer'[c] = None /\ c \notin late'
    BY <1>1 DEF LlmInv, LlmTypes
<1>4. LlmTypes'
    BY <1>1 DEF LlmInv, LlmTypes, NoAttrs, AttrNames, Tokens
<1>5. \A d \in Users \ {c} : Apart(d)
    BY <1>1 DEF LlmInv, LlmTypes, Apart
<1>6. CallInv(c)' /\ PricedLate(c)'
    BY <1>3, Apartness DEF CallInv, PathKnown, NothingYet, UsageGrew, OwnCounted, Attributed,
       Responded, ReadSoFar, PricedLate
<1> QED
    BY <1>2, <1>4, <1>5, <1>6, OneCall

(* Steps that leave the calls alone. *)
LEMMA OthersKeep ==
    ASSUME LlmInv, UNCHANGED callVars, ConfigInv', ConfigKept
    PROVE  LlmInv'
<1>1. LlmTypes'
    BY DEF LlmInv, LlmTypes, callVars
<1>2. \A d \in Users : Apart(d)
    BY DEF Apart, callVars
<1>3. ASSUME NEW d \in Users PROVE CallInv(d)' /\ PricedLate(d)'
    <2>1. /\ Apart(d) /\ CallInv(d) /\ PricedLate(d) /\ ConfigInv /\ LlmTypes /\ usage' \in Nat
        BY <1>1, <1>2 DEF LlmInv, LlmTypes
    <2> QED
        BY <2>1, ApartKeeps, ApartPriced
<1> QED
    BY <1>1, <1>3 DEF LlmInv

LEMMA MissKeeps ==
    ASSUME LlmInv, NEW c \in Users, Miss(c)
    PROVE  LlmInv'
<1>1. UNCHANGED callVars /\ UNCHANGED <<config, pricing, lock, step>>
    BY DEF Miss, MissConfig
<1> QED
    BY <1>1, ConfigStill, OthersKeep DEF LlmInv

LEMMA LlmStep ==
    ASSUME LlmInv, [LlmNext]_llmVars
    PROVE  LlmInv' /\ ConfigKept
<1>1. CASE ConfigNext /\ UNCHANGED callVars
    BY <1>1, ConfigMoved, OthersKeep DEF LlmInv
<1>2. ASSUME NEW c \in Users,
             \/ StartDecorated(c) \/ BeginDecorated(c) \/ StartWrapped(c)
             \/ Answer(c) \/ Enrich(c) \/ Raise(c)
             \/ FirstChunk(c) \/ Chunk(c) \/ Resume(c) \/ EndStream(c)
             \/ Finalize(c) \/ Price(c) \/ EnqueueSpan(c) \/ Miss(c)
      PROVE  LlmInv' /\ ConfigKept
    <2>1. LlmInv'
        BY <1>2, StartDecoratedKeeps, BeginDecoratedKeeps, StartWrappedKeeps, AnswerKeeps,
           EnrichKeeps, RaiseKeeps, FirstChunkKeeps, ChunkKeeps, ResumeKeeps, EndStreamKeeps,
           FinalizeKeeps, PriceKeeps, EnqueueSpanKeeps, MissKeeps
    <2>2. GetConfig(c) \/ UNCHANGED <<config, pricing, lock, step>>
        BY <1>2 DEF StartDecorated, BeginDecorated, StartWrapped, Answer, Enrich, Raise, FirstChunk,
           Chunk, Resume, EndStream, Finalize, Price, EnqueueSpan, Miss, MissConfig, configVars
    <2> QED
        BY <2>1, <2>2, ConfigGot, ConfigStill DEF LlmInv
<1>3. CASE UNCHANGED llmVars
    <2>1. UNCHANGED callVars /\ UNCHANGED <<config, pricing, lock, step>>
        BY <1>3 DEF llmVars, configVars
    <2> QED
        BY <2>1, ConfigStill, OthersKeep DEF LlmInv
<1> QED
    BY <1>1, <1>2, <1>3 DEF LlmNext

-----------------------------------------------------------------------------
(* Theorems *)

(* However calls overlap with each other, with the object they share and   *)
(* with configure(), what each call knows of its own answer, its tokens    *)
(* and its price stays what LlmInv says (decorators.py:499-742,            *)
(* wrapper.py:435-783, config.py:160-307).                                 *)
THEOREM LlmInvariance == LlmSpec => []LlmInv
<1>1. LlmInit => LlmInv
    BY LlmInitInv
<1>2. LlmInv /\ [LlmNext]_llmVars => LlmInv'
    BY LlmStep
<1> QED
    BY <1>1, <1>2, PTL DEF LlmSpec

(* A response of any shape that frameworks give it is attributed to its    *)
(* maker and its model, with the tokens it reports: the registry's order   *)
(* puts Azure before OpenAI, whose classes it answers with, and five       *)
(* rounds of unwrapping reach the SDK's object (adapters/registry.py:      *)
(* 59-128, decorators.py:555-602, wrapper.py:533-562).                     *)
THEOREM AttributionCorrect == LlmSpec => []ResponseAttributed
<1>1. ASSUME LlmInv PROVE ResponseAttributed
    <2>1. SUFFICES ASSUME NEW c \in Users, Final(c), Returned(c)
                   PROVE  /\ answer[c].maker # None =>
                               attrs[c].provider = answer[c].maker /\ attrs[c].model = answer[c].model
                          /\ answer[c].reports =>
                               attrs[c].tokens = own[c] \/ (own[c] = 0 /\ c \in crowded)
        BY DEF ResponseAttributed
    <2>2. answer[c] \in Answers
        BY <1>1, <2>1 DEF Returned, LlmInv, LlmTypes
    <2> QED
        BY <1>1, <2>1, <2>2 DEF LlmInv, CallInv, Attributed, Responded, Final
<1> QED
    BY <1>1, LlmInvariance, PTL

(* The difference of an object's running totals is the call's own use if   *)
(* nobody else used the object meanwhile, and never less                   *)
(* (wrapper.py:694-732).                                                   *)
THEOREM OwnTokensCorrect == LlmSpec => []OwnTokens
<1>1. ASSUME LlmInv PROVE OwnTokens
    <2>1. SUFFICES ASSUME NEW c \in Users, Final(c), Returned(c), path[c] = "wrapped"
                   PROVE  /\ OrElse(attrs[c].tokens, 0) >= own[c]
                          /\ c \notin crowded => OrElse(attrs[c].tokens, 0) = own[c]
        BY DEF OwnTokens
    <2>2. answer[c] \in Answers
        BY <1>1, <2>1 DEF Returned, LlmInv, LlmTypes
    <2> QED
        BY <1>1, <2>1, <2>2 DEF LlmInv, CallInv, OwnCounted, Responded, Final
<1> QED
    BY <1>1, LlmInvariance, PTL

(* What the chunks of a stream report adds up to its tokens, whether the   *)
(* provider reports totals or differences (decorators.py:366-367,          *)
(* 605-642).                                                               *)
THEOREM StreamCorrect == LlmSpec => []StreamCounted
<1>1. ASSUME LlmInv PROVE StreamCounted
    BY <1>1 DEF StreamCounted, Streamed, LlmInv, CallInv, ReadSoFar
<1> QED
    BY <1>1, LlmInvariance, PTL

(* A call that asks for its price after configure() has returned gets one  *)
(* (config.py:239-251).                                                    *)
THEOREM CostCorrect == LlmSpec => []CostAsConfigured
<1>1. ASSUME LlmInv PROVE CostAsConfigured
    BY <1>1 DEF CostAsConfigured, Final, LlmInv, PricedLate
<1> QED
    BY <1>1, LlmInvariance, PTL

(* No step replaces the configuration in force: a thread that found none   *)
(* looks again under the lock (config.py:167-172, 284-287).                *)
THEOREM ConfigLockCorrect == LlmSpec => ConfigLocked
<1>1. ASSUME LlmInv, [LlmNext]_llmVars PROVE [config # Absent => config' = config]_config
    BY <1>1, LlmStep DEF ConfigKept
<1> QED
    BY <1>1, LlmInvariance, PTL DEF LlmSpec, ConfigLocked
=============================================================================
