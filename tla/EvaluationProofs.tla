---------------------------- MODULE EvaluationProofs ----------------------------
(***************************************************************************)
(* What is proved of Evaluation: for any sizes of the queue and the pool,  *)
(* any evaluators and any number of tasks, in every interleaving of the    *)
(* event loop, the executor thread and the pool, a task has exactly one    *)
(* fate, a processed one all its spans, and a stop that returned in time   *)
(* leaves nothing half done.                                               *)
(***************************************************************************)
EXTENDS Evaluation, FiniteSetTheorems, NaturalsInduction, WellFoundedInduction, TLAPS

-----------------------------------------------------------------------------
(* The inductive invariant *)

(* Where the loop is tells what it and the executor thread hold.           *)
Control ==
    /\ \A j, k \in taken : j = k
    /\ \A j, k \in hand : j = k
    /\ taken # {} => pc = "get" /\ getter = "returned"
    /\ hand # {} => pc \in {"collect", "cancel"}
    /\ getter = "waiting" => pc \in {"get", "cancelled"}
    /\ pc # "cancelled" => abandoned = {}

(* Past the join the loop has ended, and past the pool's shutdown no job   *)
(* is left to run.                                                         *)
Stopped ==
    /\ stopper \in {"pool", "returned"} => pc = "ended"
    /\ stopper = "returned" => Running \union Queued = {}

(* Of the evaluations of the task in hand those before the one the loop    *)
(* waits for have their spans, and the others have none, but for the one   *)
(* whose job is to be cancelled.  So have all of a processed task, and     *)
(* none of a failed one.                                                   *)
InTurn ==
    \A k \in hand :
        /\ at \in 1..Len(wants[k])
        /\ \A i \in 1..at - 1 : verdict[k][i] # "none"
        /\ pc = "cancel" => verdict[k][at] # "none"
        /\ \A i \in Positions :
              i > at \/ (i = at /\ pc = "collect") => verdict[k][i] = "none"
Judged ==
    /\ \A k \in processed : \A i \in 1..Len(wants[k]) : verdict[k][i] # "none"
    /\ \A k \in failed : \A i \in Positions : verdict[k][i] = "none"

(* Only a task the loop has had in hand has jobs or spans; an evaluation   *)
(* that is judged has no job in the backlog, unless it is being cancelled. *)
Begun == hand \union processed \union failed \union abandoned
Unstarted ==
    \A k \in Tasks \ Begun, i \in Positions :
        job[k][i] = "none" /\ verdict[k][i] = "none"
Cancelling(k, i) == pc = "cancel" /\ k \in hand /\ at = i
NoBacklog ==
    \A k \in Tasks, i \in Positions :
        job[k][i] = "queued" => verdict[k][i] = "none" \/ Cancelling(k, i)

(* Under drop_oldest there is room for what is being appended.             *)
Room ==
    /\ policy = "drop_oldest" =>
          refused = {} /\ (putting = "append" => Cardinality(queue) < MaxQueue)
    /\ policy = "drop_new" => evicted = {} /\ putting # "evict"

Inv ==
    /\ TypeOK
    /\ IsFiniteSet(Running)
    /\ OneFate
    /\ Control
    /\ Stopped
    /\ InTurn
    /\ Judged
    /\ Unstarted
    /\ NoBacklog
    /\ Room

-----------------------------------------------------------------------------
(* Types and counts *)

JobStates == {"none", "queued", "running", "done", "failed", "cancelled"}
Verdicts == {"none", "score", "error", "timeout"}

LEMMA Constants ==
    /\ MaxQueue \in Nat \ {0} /\ Concurrency \in Nat \ {0} /\ MaxTasks \in Nat
    /\ \A r \in Requests : r \in Seq(STRING) /\ 1..Len(r) \subseteq Positions
<1>1. \A r \in Requests : r \in Seq(STRING)
    BY EvaluationAssumption
<1>2. \A r \in Requests : DOMAIN r = 1..Len(r) /\ DOMAIN r \subseteq Positions
    BY <1>1 DEF Positions
<1> QED
    BY <1>1, <1>2, EvaluationAssumption

LEMMA Types ==
    ASSUME TypeOK
    PROVE  /\ policy \in {"drop_new", "drop_oldest"}
           /\ made \in Nat /\ made <= MaxTasks /\ 1..made \subseteq Tasks
           /\ queue \subseteq 1..made /\ refused \subseteq 1..made /\ evicted \subseteq 1..made
           /\ taken \subseteq 1..made /\ hand \subseteq 1..made /\ processed \subseteq 1..made
           /\ abandoned \subseteq 1..made /\ failed \subseteq 1..made
           /\ Cardinality(queue) <= MaxQueue
           /\ wants \in [Tasks -> Requests \union {<<>>}]
           /\ putting \in {"no", "evict", "append"}
           /\ getter \in {"idle", "waiting", "returned"}
           /\ pc \in {"top", "get", "collect", "cancel", "ended", "cancelled"}
           /\ at \in Nat
           /\ job \in [Tasks -> [Positions -> JobStates]]
           /\ Cardinality(Running) <= Concurrency
           /\ verdict \in [Tasks -> [Positions -> Verdicts]]
           /\ running \in BOOLEAN
           /\ stopper \in {"no", "joining", "pool", "returned", "timedout"}
<1>1. made \in Nat /\ made <= MaxTasks /\ 1..made \subseteq Tasks
    BY Constants DEF TypeOK, Tasks
<1>2. /\ queue \subseteq Made /\ refused \subseteq Made /\ evicted \subseteq Made
      /\ taken \subseteq Made /\ hand \subseteq Made /\ processed \subseteq Made
      /\ abandoned \subseteq Made /\ failed \subseteq Made
    BY DEF TypeOK
<1> QED
    BY <1>1, <1>2 DEF TypeOK, Made, JobStates, Verdicts

LEMMA TypesKept ==
    ASSUME policy' \in {"drop_new", "drop_oldest"},
           made' \in Nat, made' <= MaxTasks,
           queue' \subseteq 1..made', refused' \subseteq 1..made', evicted' \subseteq 1..made',
           taken' \subseteq 1..made', hand' \subseteq 1..made', processed' \subseteq 1..made',
           abandoned' \subseteq 1..made', failed' \subseteq 1..made',
           Cardinality(queue') <= MaxQueue,
           wants' \in [Tasks -> Requests \union {<<>>}],
           putting' \in {"no", "evict", "append"},
           getter' \in {"idle", "waiting", "returned"},
           pc' \in {"top", "get", "collect", "cancel", "ended", "cancelled"},
           at' \in Nat,
           job' \in [Tasks -> [Positions -> JobStates]],
           Cardinality(Running') <= Concurrency,
           verdict' \in [Tasks -> [Positions -> Verdicts]],
           running' \in BOOLEAN,
           stopper' \in {"no", "joining", "pool", "returned", "timedout"}
    PROVE  TypeOK'
<1>1. made' \in 0..MaxTasks
    BY Constants
<1>2. {queue, refused, evicted, taken, hand, processed, failed, abandoned}'
          \subseteq SUBSET (1..made')
    OBVIOUS
<1> QED
    BY <1>1, <1>2 DEF TypeOK, Made, JobStates, Verdicts

(* The list of a task fits the positions. *)
LEMMA Listed ==
    ASSUME TypeOK, NEW k \in Tasks
    PROVE  Len(wants[k]) \in Nat /\ 1..Len(wants[k]) \subseteq Positions
               /\ DOMAIN wants[k] = 1..Len(wants[k])
<1>1. wants[k] \in Requests \union {<<>>}
    BY Types
<1>2. CASE wants[k] \in Requests
    BY <1>2, Constants
<1>3. CASE wants[k] = <<>>
    BY <1>3
<1> QED
    BY <1>1, <1>2, <1>3

LEMMA Finite ==
    ASSUME NEW n \in Nat, NEW S \in SUBSET (1..n)
    PROVE  /\ IsFiniteSet(S)
           /\ Cardinality(S) \in Nat
           /\ \A T \in SUBSET S : Cardinality(T) \in Nat /\ Cardinality(T) <= Cardinality(S)
           /\ \A x \in S : Cardinality(S \ {x}) = Cardinality(S) - 1
           /\ \A x : Cardinality(S \union {x}) <= Cardinality(S) + 1
<1>1. IsFiniteSet(S)
    <2>1. IsFiniteSet(1..n)
        BY FS_Interval
    <2> QED
        BY <2>1, FS_Subset
<1>2. \A T \in SUBSET S : Cardinality(T) \in Nat /\ Cardinality(T) <= Cardinality(S)
    BY <1>1, FS_Subset, FS_CardinalityType
<1>3. Cardinality(S) \in Nat
    BY <1>1, FS_CardinalityType
<1>4. \A x \in S : Cardinality(S \ {x}) = Cardinality(S) - 1
    BY <1>1, FS_RemoveElement
<1>5. ASSUME NEW x PROVE Cardinality(S \union {x}) <= Cardinality(S) + 1
    <2>1. Cardinality(S \union {x}) = IF x \in S THEN Cardinality(S) ELSE Cardinality(S) + 1
        BY <1>1, FS_AddElement
    <2> QED
        BY <1>3, <2>1
<1> QED
    BY <1>1, <1>2, <1>3, <1>4, <1>5

(* The oldest task of a queue is one of it. *)
LEMMA OldestQueued ==
    ASSUME NEW S \in SUBSET Nat, S # {}
    PROVE  Head1(S) \in S
<1> DEFINE R == OpToRel(<, Nat)
<1>1. PICK n \in S : \A m \in S : ~(<<m, n>> \in R)
    <2>1. IsWellFoundedOn(R, Nat)
        BY NatLessThanWellFounded
    <2> HIDE DEF R
    <2> QED
        BY <2>1, WFMin
<1>2. ASSUME NEW m \in S PROVE n <= m
    <2>1. m \in Nat /\ n \in Nat
        OBVIOUS
    <2>2. m < n => <<m, n>> \in R
        BY <2>1 DEF OpToRel
    <2> HIDE DEF R
    <2> QED
        BY <1>1, <2>1, <2>2
<1> QED
    BY <1>2 DEF Head1

-----------------------------------------------------------------------------
(* Fates: what goes from one place to another has one fate still.          *)

Apportioned(F, M) ==
    /\ \A x : x \in M <=> \E i \in 1..9 : x \in F[i]
    /\ \A i, j \in 1..9 : i # j => \A x : ~(x \in F[i] /\ x \in F[j])

LEMMA FatesAre ==
    /\ /\ Fates[1] = refused /\ Fates[2] = evicted /\ Fates[3] = queue /\ Fates[4] = Putting
       /\ Fates[5] = taken /\ Fates[6] = hand /\ Fates[7] = processed /\ Fates[8] = abandoned
       /\ Fates[9] = failed
    /\ /\ Fates'[1] = refused' /\ Fates'[2] = evicted' /\ Fates'[3] = queue'
       /\ Fates'[4] = Putting' /\ Fates'[5] = taken' /\ Fates'[6] = hand'
       /\ Fates'[7] = processed' /\ Fates'[8] = abandoned' /\ Fates'[9] = failed'
BY DEF Fates

LEMMA OneFateMeans ==
    /\ OneFate <=> Apportioned(Fates, Made)
    /\ OneFate' <=> Apportioned(Fates', Made')
<1>1. DOMAIN Fates = 1..9 /\ DOMAIN Fates' = 1..9
    BY DEF Fates
<1> QED
    BY <1>1 DEF OneFate, Apportioned

(* A new task has fate i; some tasks go from i to j. *)
Comes(F, G, x, i) ==
    G[i] = F[i] \union {x} /\ \A l \in 1..9 : l # i => G[l] = F[l]
Goes(F, G, S, i, j) ==
    /\ S \subseteq F[i] /\ G[i] = F[i] \ S /\ G[j] = F[j] \union S
    /\ \A l \in 1..9 : l # i /\ l # j => G[l] = F[l]

LEMMA FateAdded ==
    ASSUME NEW F, NEW G, NEW M, NEW x, NEW i \in 1..9,
           Apportioned(F, M), x \notin M, Comes(F, G, x, i)
    PROVE  Apportioned(G, M \union {x})
BY DEF Apportioned, Comes

LEMMA FateMoved ==
    ASSUME NEW F, NEW G, NEW M, NEW S, NEW i \in 1..9, NEW j \in 1..9, i # j,
           Apportioned(F, M), Goes(F, G, S, i, j)
    PROVE  Apportioned(G, M)
<1>1. ASSUME NEW x PROVE x \in M <=> \E l \in 1..9 : x \in G[l]
    <2>1. x \in S => x \in F[i] /\ x \in G[j]
        BY DEF Goes
    <2>2. x \notin S => \A l \in 1..9 : x \in G[l] <=> x \in F[l]
        BY DEF Goes
    <2> QED
        BY <2>1, <2>2 DEF Apportioned
<1>2. ASSUME NEW l \in 1..9, NEW m \in 1..9, l # m, NEW x, x \in G[l], x \in G[m]
      PROVE  FALSE
    <2>1. CASE x \in S
        <3>1. \A n \in 1..9 : x \in G[n] => n = j
            BY <2>1 DEF Apportioned, Goes
        <3> QED
            BY <1>2, <3>1
    <2>2. CASE x \notin S
        <3>1. x \in F[l] /\ x \in F[m]
            BY <1>2, <2>2 DEF Goes
        <3> QED
            BY <1>2, <3>1 DEF Apportioned
    <2> QED
        BY <2>1, <2>2
<1> QED
    BY <1>1, <1>2 DEF Apportioned

(* The tasks whose fates a step does not change. *)
LEMMA FatesKept ==
    ASSUME OneFate,
           UNCHANGED <<made, refused, evicted, queue, putting, taken, hand, processed, failed,
                       abandoned>>
    PROVE  OneFate'
BY DEF OneFate, Fates, Made, Putting

-----------------------------------------------------------------------------
(* Conjuncts that a step leaves alone *)

LEMMA JobsKept ==
    ASSUME Inv, UNCHANGED <<job, verdict>>, Begun \subseteq Begun',
           pc = "cancel" => UNCHANGED <<pc, hand, at>>
    PROVE  /\ (IsFiniteSet(Running) /\ Unstarted /\ NoBacklog)'
           /\ Running' = Running /\ Queued' = Queued
<1>1. Running' = Running /\ Queued' = Queued
    BY DEF Running, Queued
<1>2. Unstarted' /\ NoBacklog'
    BY DEF Inv, Unstarted, NoBacklog, Cancelling
<1> QED
    BY <1>1, <1>2 DEF Inv

LEMMA TurnKept ==
    ASSUME Inv, UNCHANGED <<hand, at, processed, failed, verdict>>,
           pc' = pc \/ hand = {},
           \A k \in hand \union processed : wants'[k] = wants[k]
    PROVE  (InTurn /\ Judged)'
BY DEF Inv, InTurn, Judged

LEMMA RoomKept ==
    ASSUME Inv, UNCHANGED <<policy, putting, refused, evicted>>, queue' \subseteq queue
    PROVE  Room' /\ Cardinality(queue') <= MaxQueue
<1>1. /\ Cardinality(queue') \in Nat /\ Cardinality(queue) \in Nat
      /\ Cardinality(queue') <= Cardinality(queue)
    BY Types, Finite DEF Inv
<1>2. Cardinality(queue) <= MaxQueue
    BY Types DEF Inv
<1> QED
    BY <1>1, <1>2, Constants DEF Inv, Room

LEMMA ControlKept ==
    ASSUME Inv, UNCHANGED <<taken, hand, pc, getter, abandoned, stopper, job>>
    PROVE  (Control /\ Stopped)'
BY DEF Inv, Control, Stopped, Running, Queued

LEMMA InitInv == Init => Inv
<1> SUFFICES ASSUME Init PROVE Inv
    OBVIOUS
<1>1. Running = {} /\ Queued = {}
    BY DEF Init, Running, Queued
<1>2. IsFiniteSet({}) /\ Cardinality({}) = 0
    BY FS_EmptySet
<1>3. TypeOK /\ IsFiniteSet(Running)
    BY <1>1, <1>2, Constants DEF Init, TypeOK, Made
<1>4. OneFate
    <2>1. \A i \in 1..9 : Fates[i] = {}
        BY FatesAre DEF Init, Putting
    <2>2. Made = {}
        BY DEF Init, Made
    <2> QED
        BY <2>1, <2>2, OneFateMeans DEF Apportioned
<1>5. Control /\ Stopped /\ InTurn /\ Judged
    BY DEF Init, Control, Stopped, InTurn, Judged
<1>6. Unstarted /\ NoBacklog /\ Room
    BY DEF Init, Unstarted, NoBacklog, Cancelling, Room
<1> QED
    BY <1>3, <1>4, <1>5, <1>6 DEF Inv

-----------------------------------------------------------------------------
(* put, in its three calls *)

LEMMA PutInv ==
    ASSUME Inv, Put
    PROVE  Inv'
<1> DEFINE k == made + 1
<1>1. /\ LoopFree
      /\ k <= MaxTasks
      /\ made' = k
      /\ wants' = wants
      /\ \/ /\ Cardinality(queue) < MaxQueue
            /\ putting' = "append"
            /\ UNCHANGED refused
         \/ /\ Cardinality(queue) = MaxQueue
            /\ policy = "drop_oldest"
            /\ putting' = "evict"
            /\ UNCHANGED refused
         \/ /\ Cardinality(queue) = MaxQueue
            /\ policy = "drop_new"
            /\ putting' = "no"
            /\ refused' = refused \union {k}
    BY DEF Put
<1>2. /\ UNCHANGED <<policy, queue, evicted, getter, taken, job, abandoned>>
      /\ UNCHANGED <<pc, hand, at, verdict, processed, failed>>
      /\ UNCHANGED <<running, stopper>>
    BY DEF Put, loopVars, stopVars
<1>3. TypeOK /\ putting = "no"
    BY <1>1 DEF Inv, LoopFree
<1>4. made \in Nat /\ Made' = Made \union {k} /\ k \notin Made /\ Made = 1..made
    BY <1>1, <1>3, Types DEF Made
<1>5. (Control /\ Stopped)'
    BY <1>2, ControlKept
<1>6. /\ (IsFiniteSet(Running) /\ Unstarted /\ NoBacklog)'
      /\ Running' = Running
    BY <1>2, JobsKept DEF Begun
<1>7. (InTurn /\ Judged)'
    BY <1>1, <1>2, TurnKept
<1>8. Room'
    BY <1>1, <1>2 DEF Inv, Room
<1>9. TypeOK'
    <2>2. 1..made \subseteq 1..made'
        BY <1>1, <1>4
    <2>3. made' \in Nat /\ made' <= MaxTasks /\ refused' \subseteq 1..made'
        BY <1>1, <1>3, <1>4, <2>2, Types
    <2> QED
        BY <1>1, <1>2, <1>3, <1>6, <2>2, <2>3, Types, TypesKept
<1>10. OneFate'
    <2>1. Apportioned(Fates, Made)
        BY OneFateMeans DEF Inv
    <2> HIDE DEF k
    <2>2. k \notin Made
        BY <1>4
    <2>3. Apportioned(Fates', Made \union {k})
        <3>1. CASE putting' = "no" /\ refused' = refused \union {k}
            <4>1. Comes(Fates, Fates', k, 1)
                BY <1>2, <1>3, <3>1, FatesAre DEF Putting, Comes
            <4> QED
                BY <2>1, <2>2, <4>1, FateAdded
        <3>2. CASE putting' # "no" /\ refused' = refused
            <4>1. Comes(Fates, Fates', k, 4)
                BY <1>1, <1>2, <1>3, <3>2, FatesAre DEF Putting, Comes
            <4> QED
                BY <2>1, <2>2, <4>1, FateAdded
        <3> QED
            BY <1>1, <3>1, <3>2
    <2> QED
        BY <1>4, <2>3, OneFateMeans
<1> QED
    BY <1>5, <1>6, <1>7, <1>8, <1>9, <1>10 DEF Inv

(* The executor thread may have emptied the queue: then there is nothing   *)
(* to evict, and room.                                                     *)
LEMMA PutEvictsInv ==
    ASSUME Inv, PutEvicts
    PROVE  Inv'
<1>1. /\ putting = "evict"
      /\ queue' = queue \ Victim
      /\ evicted' = evicted \union Victim
      /\ putting' = "append"
      /\ UNCHANGED <<policy, made, wants, refused, getter, taken, job, abandoned>>
      /\ UNCHANGED <<pc, hand, at, verdict, processed, failed>>
      /\ UNCHANGED <<running, stopper>>
    BY DEF PutEvicts, loopVars, stopVars
<1>2. TypeOK
    BY DEF Inv
<1>3. Victim \subseteq queue /\ (queue # {} => \E x \in queue : Victim = {x})
    <2>1. queue \subseteq Nat
        BY <1>2, Types
    <2> QED
        BY <2>1, OldestQueued DEF Victim
<1>4. Cardinality(queue') < MaxQueue
    <2>1. Cardinality(queue) \in Nat /\ Cardinality(queue) <= MaxQueue
        BY <1>2, Types, Finite
    <2>2. CASE queue = {}
        BY <1>1, <2>2, FS_EmptySet, Constants
    <2>3. CASE queue # {}
        <3>1. PICK x \in queue : queue' = queue \ {x}
            BY <1>1, <1>3, <2>3
        <3>2. Cardinality(queue') = Cardinality(queue) - 1
            BY <1>2, <3>1, Types, Finite
        <3> QED
            BY <2>1, <3>2, Constants
    <2> QED
        BY <2>2, <2>3
<1>5. (Control /\ Stopped)'
    BY <1>1, ControlKept
<1>6. /\ (IsFiniteSet(Running) /\ Unstarted /\ NoBacklog)'
      /\ Running' = Running
    BY <1>1, JobsKept DEF Begun
<1>7. (InTurn /\ Judged)'
    BY <1>1, TurnKept
<1>8. Room'
    BY <1>1, <1>2, <1>4, Types DEF Inv, Room
<1>9. TypeOK'
    <2>1. queue' \subseteq 1..made' /\ evicted' \subseteq 1..made'
        BY <1>1, <1>2, <1>3, Types
    <2>2. Cardinality(queue') <= MaxQueue
        <3>1. IsFiniteSet(queue)
            BY <1>2, Types, Finite
        <3>2. Cardinality(queue') \in Nat
            BY <1>1, <1>2, Types, Finite
        <3> QED
            BY <1>4, <3>2, Constants
    <2> QED
        BY <1>1, <1>2, <1>6, <2>1, <2>2, Types, TypesKept
<1>10. OneFate'
    <2>1. Apportioned(Fates, Made) /\ Made' = Made
        BY <1>1, OneFateMeans DEF Inv, Made
    <2>2. Goes(Fates, Fates', Victim, 3, 2)
        BY <1>1, <1>3, FatesAre DEF Putting, Goes
    <2>3. Apportioned(Fates', Made)
        BY <2>1, <2>2, FateMoved
    <2> QED
        BY <2>1, <2>3, OneFateMeans
<1> QED
    BY <1>5, <1>6, <1>7, <1>8, <1>9, <1>10 DEF Inv

LEMMA PutAppendsInv ==
    ASSUME Inv, PutAppends
    PROVE  Inv'
<1>1. /\ putting = "append"
      /\ putting' = "no"
      /\ \/ /\ Cardinality(queue) < MaxQueue
            /\ queue' = queue \union {made}
            /\ UNCHANGED refused
         \/ /\ Cardinality(queue) >= MaxQueue
            /\ refused' = refused \union {made}
            /\ UNCHANGED queue
      /\ UNCHANGED <<policy, made, wants, evicted, getter, taken, job, abandoned>>
      /\ UNCHANGED <<pc, hand, at, verdict, processed, failed>>
      /\ UNCHANGED <<running, stopper>>
    BY DEF PutAppends, loopVars, stopVars
<1>2. TypeOK
    BY DEF Inv
<1>3. made \in 1..made
    <2>1. made \in Made
        BY <1>1, OneFateMeans, FatesAre DEF Inv, Apportioned, Putting
    <2> QED
        BY <2>1 DEF Made
<1>4. Cardinality(queue) \in Nat
    BY <1>2, Types, Finite
<1>5. (Control /\ Stopped)'
    BY <1>1, ControlKept
<1>6. /\ (IsFiniteSet(Running) /\ Unstarted /\ NoBacklog)'
      /\ Running' = Running
    BY <1>1, JobsKept DEF Begun
<1>7. (InTurn /\ Judged)'
    BY <1>1, TurnKept
<1>8. Room'
    BY <1>1, <1>4, Constants DEF Inv, Room
<1>9. TypeOK'
    <2>1. queue' \subseteq 1..made' /\ refused' \subseteq 1..made'
        BY <1>1, <1>2, <1>3, Types
    <2>2. Cardinality(queue') <= MaxQueue
        <3>1. CASE queue' = queue
            BY <1>2, <3>1, Types
        <3>2. CASE queue' = queue \union {made} /\ Cardinality(queue) < MaxQueue
            <4>1. Cardinality(queue') <= Cardinality(queue) + 1
                BY <1>2, <3>2, Types, Finite
            <4>2. Cardinality(queue') \in Nat
                BY <1>1, <1>2, <2>1, Types, Finite
            <4> QED
                BY <1>4, <3>2, <4>1, <4>2, Constants
        <3> QED
            BY <1>1, <3>1, <3>2
    <2> QED
        BY <1>1, <1>2, <1>6, <2>1, <2>2, Types, TypesKept
<1>10. OneFate'
    <2>1. Apportioned(Fates, Made) /\ Made' = Made
        BY <1>1, OneFateMeans DEF Inv, Made
    <2>2. Fates'[4] = Fates[4] \ {made} /\ {made} \subseteq Fates[4]
        BY <1>1, FatesAre DEF Putting
    <2>3. Apportioned(Fates', Made)
        <3>1. CASE queue' = queue \union {made} /\ refused' = refused
            <4>1. Goes(Fates, Fates', {made}, 4, 3)
                BY <1>1, <2>2, <3>1, FatesAre DEF Goes
            <4> QED
                BY <2>1, <4>1, FateMoved
        <3>2. CASE queue' = queue /\ refused' = refused \union {made}
            <4>1. Goes(Fates, Fates', {made}, 4, 1)
                BY <1>1, <2>2, <3>2, FatesAre DEF Goes
            <4> QED
                BY <2>1, <4>1, FateMoved
        <3> QED
            BY <1>1, <3>1, <3>2
    <2> QED
        BY <2>1, <2>3, OneFateMeans
<1> QED
    BY <1>5, <1>6, <1>7, <1>8, <1>9, <1>10 DEF Inv

-----------------------------------------------------------------------------
(* The drain loop and the executor thread *)

LEMMA LoopTopInv ==
    ASSUME Inv, LoopTop
    PROVE  Inv'
<1>1. /\ LoopFree
      /\ pc = "top"
      /\ pc' = IF running THEN "get" ELSE "ended"
      /\ getter' = IF running THEN "waiting" ELSE getter
      /\ UNCHANGED <<policy, queue, made, wants, putting, refused, evicted>>
      /\ UNCHANGED <<taken, hand, at, verdict, processed, failed, job, abandoned>>
      /\ UNCHANGED <<running, stopper>>
    BY DEF LoopTop, queueVars, stopVars
<1>2. TypeOK
    BY DEF Inv
<1>3. (IsFiniteSet(Running) /\ Unstarted /\ NoBacklog)' /\ Running' = Running
    BY <1>1, JobsKept DEF Begun
<1>4. (InTurn /\ Judged)' /\ Room' /\ OneFate'
    <2>1. hand = {}
        BY <1>1 DEF Inv, Control
    <2>2. (InTurn /\ Judged)'
        BY <1>1, <2>1, TurnKept
    <2>3. Room' /\ OneFate'
        BY <1>1, RoomKept, FatesKept DEF Inv
    <2> QED
        BY <2>2, <2>3
<1>5. TypeOK'
    BY <1>1, <1>2, <1>3, Types, TypesKept
<1>6. Control'
    BY <1>1 DEF Inv, Control
<1>7. Stopped'
    BY <1>1 DEF Inv, Stopped
<1> QED
    BY <1>3, <1>4, <1>5, <1>6, <1>7 DEF Inv

(* The task that was got goes to the loop, if that still waits for it.     *)
LEMMA GetTaskInv ==
    ASSUME Inv, GetTask
    PROVE  Inv'
<1> DEFINE k == Head1(queue)
<1>1. /\ getter = "waiting"
      /\ queue # {}
      /\ queue' = queue \ {k}
      /\ \/ /\ pc = "get"
            /\ taken' = {k}
            /\ getter' = "returned"
            /\ UNCHANGED abandoned
         \/ /\ pc # "get"
            /\ abandoned' = abandoned \union {k}
            /\ getter' = "idle"
            /\ UNCHANGED taken
      /\ UNCHANGED <<policy, made, wants, putting, refused, evicted, job>>
      /\ UNCHANGED <<pc, hand, at, verdict, processed, failed>>
      /\ UNCHANGED <<running, stopper>>
    BY DEF GetTask, OutOfQueue, loopVars, stopVars
<1>2. TypeOK /\ k \in queue /\ k \in 1..made
    <2>1. TypeOK /\ queue \subseteq 1..made /\ queue \subseteq Nat
        BY Types DEF Inv
    <2> QED
        BY <1>1, <2>1, OldestQueued
<1> HIDE DEF k
<1>3. taken = {}
    BY <1>1 DEF Inv, Control
<1>4. /\ (IsFiniteSet(Running) /\ Unstarted /\ NoBacklog)'
      /\ Running' = Running
    BY <1>1, JobsKept DEF Begun
<1>5. (InTurn /\ Judged)'
    BY <1>1, TurnKept
<1>6. Room' /\ Cardinality(queue') <= MaxQueue
    BY <1>1, RoomKept
<1>7. TypeOK'
    BY <1>1, <1>2, <1>4, <1>6, Types, TypesKept
<1>8. Control'
    BY <1>1 DEF Inv, Control
<1>9. Stopped'
    BY <1>1, <1>4 DEF Inv, Stopped, Queued
<1>10. OneFate'
    <2>1. Apportioned(Fates, Made) /\ Made' = Made
        BY <1>1, OneFateMeans DEF Inv, Made
    <2>2. Fates'[3] = Fates[3] \ {k} /\ {k} \subseteq Fates[3]
        BY <1>1, <1>2, FatesAre
    <2>3. Apportioned(Fates', Made)
        <3>1. CASE taken' = {k} /\ abandoned' = abandoned
            <4>1. Goes(Fates, Fates', {k}, 3, 5)
                BY <1>1, <2>2, <1>3, <3>1, FatesAre DEF Putting, Goes
            <4> QED
                BY <2>1, <4>1, FateMoved
        <3>2. CASE taken' = taken /\ abandoned' = abandoned \union {k}
            <4>1. Goes(Fates, Fates', {k}, 3, 8)
                BY <1>1, <2>2, <3>2, FatesAre DEF Putting, Goes
            <4> QED
                BY <2>1, <4>1, FateMoved
        <3> QED
            BY <1>1, <3>1, <3>2
    <2> QED
        BY <2>1, <2>3, OneFateMeans
<1> QED
    BY <1>4, <1>5, <1>6, <1>7, <1>8, <1>9, <1>10 DEF Inv

LEMMA GetTimeoutInv ==
    ASSUME Inv, GetTimeout
    PROVE  Inv'
<1>1. /\ getter = "waiting"
      /\ getter' = IF pc = "get" THEN "returned" ELSE "idle"
      /\ UNCHANGED <<policy, queue, made, wants, putting, refused, evicted>>
      /\ UNCHANGED <<taken, pc, hand, at, verdict, processed, failed, job, abandoned>>
      /\ UNCHANGED <<running, stopper>>
    BY DEF GetTimeout, queueVars, loopVars, stopVars
<1>2. TypeOK
    BY DEF Inv
<1>3. (IsFiniteSet(Running) /\ Unstarted /\ NoBacklog)' /\ Running' = Running
    BY <1>1, JobsKept DEF Begun
<1>4. (InTurn /\ Judged)' /\ Room' /\ OneFate'
    BY <1>1, TurnKept, RoomKept, FatesKept DEF Inv
<1>5. TypeOK'
    BY <1>1, <1>2, <1>3, Types, TypesKept
<1>6. Control'
    BY <1>1 DEF Inv, Control
<1>7. Stopped'
    BY <1>1, <1>3 DEF Inv, Stopped, Queued
<1> QED
    BY <1>3, <1>4, <1>5, <1>6, <1>7 DEF Inv

(* The loop starts on a task none of whose evaluations has begun.          *)
LEMMA ResumeInv ==
    ASSUME Inv, Resume
    PROVE  Inv'
<1>1. /\ LoopFree
      /\ pc = "get"
      /\ getter = "returned"
      /\ getter' = "idle"
      /\ taken' = {}
      /\ UNCHANGED <<policy, queue, made, putting, refused, evicted>>
      /\ UNCHANGED <<verdict, abandoned, running, stopper>>
    BY DEF Resume, stopVars
<1>2. TypeOK /\ hand = {}
    BY <1>1 DEF Inv, Control
<1>3. Room' /\ Cardinality(queue') <= MaxQueue
    BY <1>1, RoomKept
<1>4. Apportioned(Fates, Made) /\ Made' = Made
    BY <1>1, OneFateMeans DEF Inv, Made
<1>5. stopper' \notin {"pool", "returned"}
    BY <1>1 DEF Inv, Stopped
<1>6. Stopped'
    BY <1>5 DEF Stopped
<1>7. CASE /\ taken = {}
           /\ pc' = "top"
           /\ UNCHANGED <<wants, hand, at, job, processed, failed>>
    <2>1. (IsFiniteSet(Running) /\ Unstarted /\ NoBacklog)' /\ Running' = Running
        BY <1>1, <1>7, JobsKept DEF Begun
    <2>2. (InTurn /\ Judged)' /\ Control'
        BY <1>1, <1>2, <1>7 DEF Inv, InTurn, Judged, Control
    <2>3. TypeOK'
        BY <1>1, <1>2, <1>3, <1>7, <2>1, Types, TypesKept
    <2>4. OneFate'
        BY <1>1, <1>7, FatesKept DEF Inv
    <2> QED
        BY <1>3, <1>6, <2>1, <2>2, <2>3, <2>4 DEF Inv
<1>8. ASSUME NEW k \in taken, NEW r \in Requests,
             wants' = [wants EXCEPT ![k] = r],
             \/ /\ r = <<>>
                /\ pc' = "top"
                /\ processed' = processed \union {k}
                /\ UNCHANGED <<hand, at, job, failed>>
             \/ /\ r # <<>>
                /\ pc' = "top"
                /\ failed' = failed \union {k}
                /\ UNCHANGED <<hand, at, job, processed>>
             \/ /\ r # <<>>
                /\ pc' = "collect"
                /\ hand' = {k}
                /\ at' = 1
                /\ job' = [job EXCEPT ![k] = [i \in Positions |->
                              IF i \in DOMAIN r THEN "queued" ELSE "none"]]
                /\ UNCHANGED <<processed, failed>>
      PROVE  Inv'
    <2>1. taken = {k} /\ k \in 1..made /\ k \in Tasks
        BY <1>2, <1>8, Types DEF Inv, Control
    <2>2. k \notin Begun
        <3>1. Fates[5] = taken /\ k \in Fates[5]
            BY FatesAre
        <3>2. \A j \in 6..9 : k \notin Fates[j]
            BY <1>4, <3>1 DEF Apportioned
        <3>3. k \notin Fates[6] /\ k \notin Fates[7] /\ k \notin Fates[8] /\ k \notin Fates[9]
            BY <3>2
        <3> QED
            BY <3>3, FatesAre DEF Begun
    <2>3. \A i \in Positions : job[k][i] = "none" /\ verdict[k][i] = "none"
        BY <1>2, <2>1, <2>2 DEF Inv, Unstarted
    <2>4. /\ wants' \in [Tasks -> Requests \union {<<>>}]
          /\ wants'[k] = r
          /\ \A j \in Tasks : j # k => wants'[j] = wants[j]
        BY <1>2, <1>8, <2>1, Types
    <2>5. /\ processed \subseteq Tasks /\ failed \subseteq Tasks /\ k \notin processed
          /\ \A j \in processed : wants'[j] = wants[j]
        BY <1>2, <2>2, <2>4, Types DEF Begun
    <2>6. CASE hand' = hand
        <3>1. /\ job' = job /\ at' = at /\ pc' = "top"
              /\ \/ r = <<>> /\ processed' = processed \union {k} /\ failed' = failed
                 \/ failed' = failed \union {k} /\ processed' = processed
            BY <1>2, <1>8, <2>6
        <3>2. (IsFiniteSet(Running) /\ Unstarted /\ NoBacklog)' /\ Running' = Running
            BY <1>1, <2>6, <3>1, JobsKept DEF Begun
        <3>3. InTurn' /\ Control'
            BY <1>1, <1>2, <2>6, <3>1 DEF Inv, InTurn, Control
        <3>4. Judged'
            <4>1. r = <<>> => 1..Len(wants'[k]) = {}
                BY <2>4
            <4>2. \A j \in processed' : \A i \in 1..Len(wants'[j]) : verdict'[j][i] # "none"
                BY <1>1, <2>5, <3>1, <4>1 DEF Inv, Judged
            <4>3. \A j \in failed' : \A i \in Positions : verdict'[j][i] = "none"
                BY <1>1, <2>3, <3>1 DEF Inv, Judged
            <4> QED
                BY <4>2, <4>3 DEF Judged
        <3>5. TypeOK'
            BY <1>1, <1>2, <1>3, <2>1, <2>4, <2>6, <3>1, <3>2, Types, TypesKept
        <3>6. OneFate'
            <4>1. Goes(Fates, Fates', {k}, 5, 7) \/ Goes(Fates, Fates', {k}, 5, 9)
                BY <1>1, <2>1, <2>6, <3>1, FatesAre DEF Goes, Putting
            <4>2. Apportioned(Fates', Made)
                BY <1>4, <4>1, FateMoved
            <4> QED
                BY <1>4, <4>2, OneFateMeans
        <3> QED
            BY <1>3, <1>6, <3>2, <3>3, <3>4, <3>5, <3>6 DEF Inv
    <2>7. CASE /\ r # <<>>
               /\ pc' = "collect"
               /\ hand' = {k}
               /\ at' = 1
               /\ job' = [job EXCEPT ![k] = [i \in Positions |->
                             IF i \in DOMAIN r THEN "queued" ELSE "none"]]
               /\ UNCHANGED <<processed, failed>>
        <3>1. /\ job' \in [Tasks -> [Positions -> JobStates]]
              /\ \A j \in Tasks : j # k => job'[j] = job[j]
              /\ \A i \in Positions : job'[k][i] \in {"queued", "none"}
            BY <1>2, <2>1, <2>7, Types DEF JobStates
        <3>2. Running' = Running
            <4>1. \A j \in Tasks, i \in Positions : job'[j][i] = "running" <=> job[j][i] = "running"
                BY <2>3, <3>1
            <4> QED
                BY <4>1 DEF Running
        <3>3. Unstarted'
            BY <1>1, <1>2, <2>7, <3>1 DEF Inv, Unstarted, Begun
        <3>4. NoBacklog'
            BY <1>1, <2>3, <3>1 DEF Inv, NoBacklog, Cancelling
        <3>5. InTurn'
            <4>1. r \in Seq(STRING) /\ r # <<>>
                BY <2>7, Constants
            <4>2. Len(r) \in Nat /\ Len(r) # 0
                BY <4>1
            <4> QED
                BY <1>1, <2>3, <2>4, <2>7, <4>2 DEF InTurn
        <3>6. Judged'
            BY <1>1, <2>5, <2>7 DEF Inv, Judged
        <3>7. Control'
            BY <1>1, <2>7 DEF Inv, Control
        <3>8. TypeOK'
            BY <1>1, <1>2, <1>3, <2>1, <2>4, <2>7, <3>1, <3>2, Types, TypesKept
        <3>9. OneFate'
            <4>1. Goes(Fates, Fates', {k}, 5, 6)
                BY <1>1, <1>2, <2>1, <2>7, FatesAre DEF Goes, Putting
            <4>2. Apportioned(Fates', Made)
                BY <1>4, <4>1, FateMoved
            <4> QED
                BY <1>4, <4>2, OneFateMeans
        <3>10. IsFiniteSet(Running')
            BY <3>2 DEF Inv
        <3> QED
            BY <1>3, <1>6, <3>3, <3>4, <3>5, <3>6, <3>7, <3>8, <3>9, <3>10 DEF Inv
    <2> QED
        BY <1>8, <2>6, <2>7
<1>9. \/ /\ taken = {}
         /\ pc' = "top"
         /\ UNCHANGED <<wants, hand, at, job, processed, failed>>
      \/ \E k \in taken, r \in Requests :
             /\ wants' = [wants EXCEPT ![k] = r]
             /\ \/ /\ r = <<>>
                   /\ pc' = "top"
                   /\ processed' = processed \union {k}
                   /\ UNCHANGED <<hand, at, job, failed>>
                \/ /\ r # <<>>
                   /\ pc' = "top"
                   /\ failed' = failed \union {k}
                   /\ UNCHANGED <<hand, at, job, processed>>
                \/ /\ r # <<>>
                   /\ pc' = "collect"
                   /\ hand' = {k}
                   /\ at' = 1
                   /\ job' = [job EXCEPT ![k] = [i \in Positions |->
                                 IF i \in DOMAIN r THEN "queued" ELSE "none"]]
                   /\ UNCHANGED <<processed, failed>>
    BY DEF Resume
<1> QED
    BY <1>7, <1>8, <1>9

-----------------------------------------------------------------------------
(* The thread pool *)

LEMMA StartJobInv ==
    ASSUME Inv, NEW k \in Tasks, NEW i \in Positions, StartJob(k, i)
    PROVE  Inv'
<1>1. /\ job[k][i] = "queued"
      /\ Cardinality(Running) < Concurrency
      /\ job' = [job EXCEPT ![k][i] = "running"]
      /\ UNCHANGED <<policy, queue, made, wants, putting, refused, evicted>>
      /\ UNCHANGED <<pc, hand, at, verdict, processed, failed>>
      /\ UNCHANGED <<getter, taken, abandoned, running, stopper>>
    BY DEF StartJob, FreeThread, queueVars, loopVars, stopVars
<1>2. TypeOK
    BY DEF Inv
<1>3. /\ job' \in [Tasks -> [Positions -> JobStates]]
      /\ job'[k][i] = "running"
      /\ \A j \in Tasks, p \in Positions : j # k \/ p # i => job'[j][p] = job[j][p]
    BY <1>1, <1>2, Types DEF JobStates
<1>4. Running' = Running \union {<<k, i>>}
    <2>1. \A j \in Tasks \X Positions : job'[j[1]][j[2]] = "running" <=>
              job[j[1]][j[2]] = "running" \/ j = <<k, i>>
        BY <1>3
    <2> QED
        BY <2>1 DEF Running
<1>5. IsFiniteSet(Running') /\ Cardinality(Running') <= Concurrency
    <2>1. IsFiniteSet(Running) /\ Cardinality(Running) \in Nat
        BY FS_CardinalityType DEF Inv
    <2>2. IsFiniteSet(Running') /\ Cardinality(Running') \in {Cardinality(Running), Cardinality(Running) + 1}
        BY <1>4, <2>1, FS_AddElement
    <2> QED
        BY <1>1, <2>1, <2>2, Constants
<1>6. TypeOK'
    BY <1>1, <1>2, <1>3, <1>5, Types, TypesKept
<1>7. (InTurn /\ Judged)' /\ Room' /\ OneFate'
    BY <1>1, TurnKept, RoomKept, FatesKept DEF Inv
<1>8. Control'
    BY <1>1 DEF Inv, Control
<1>9. Stopped'
    <2>1. <<k, i>> \in Queued
        BY <1>1 DEF Queued
    <2> QED
        BY <1>1, <2>1 DEF Inv, Stopped
<1>10. Unstarted'
    BY <1>1, <1>3 DEF Inv, Unstarted, Begun
<1>11. NoBacklog'
    BY <1>1, <1>3 DEF Inv, NoBacklog, Cancelling
<1> QED
    BY <1>5, <1>6, <1>7, <1>8, <1>9, <1>10, <1>11 DEF Inv

LEMMA EndJobInv ==
    ASSUME Inv, NEW k \in Tasks, NEW i \in Positions, EndJob(k, i)
    PROVE  Inv'
<1>1. /\ job[k][i] = "running"
      /\ UNCHANGED <<policy, queue, made, wants, putting, refused, evicted>>
      /\ UNCHANGED <<pc, hand, at, verdict, processed, failed>>
      /\ UNCHANGED <<getter, taken, abandoned, running, stopper>>
    BY DEF EndJob, queueVars, loopVars, stopVars
<1>2. PICK r \in {"done", "failed"} : job' = [job EXCEPT ![k][i] = r]
    BY DEF EndJob
<1>3. TypeOK
    BY DEF Inv
<1>4. /\ job' \in [Tasks -> [Positions -> JobStates]]
      /\ job'[k][i] = r
      /\ \A j \in Tasks, p \in Positions : j # k \/ p # i => job'[j][p] = job[j][p]
    BY <1>2, <1>3, Types DEF JobStates
<1>5. Running' \subseteq Running /\ Queued' \subseteq Queued
    <2>1. \A j \in Tasks \X Positions :
              /\ job'[j[1]][j[2]] = "running" => job[j[1]][j[2]] = "running"
              /\ job'[j[1]][j[2]] = "queued" => job[j[1]][j[2]] = "queued"
        BY <1>4
    <2> QED
        BY <2>1 DEF Running, Queued
<1>6. IsFiniteSet(Running') /\ Cardinality(Running') <= Concurrency
    <2>1. IsFiniteSet(Running) /\ Cardinality(Running) \in Nat /\ Cardinality(Running) <= Concurrency
        BY <1>3, Types, FS_CardinalityType DEF Inv
    <2>2. IsFiniteSet(Running') /\ Cardinality(Running') <= Cardinality(Running)
        BY <1>5, <2>1, FS_Subset
    <2>3. Cardinality(Running') \in Nat
        BY <2>2, FS_CardinalityType
    <2> QED
        BY <2>1, <2>2, <2>3, Constants
<1>7. TypeOK'
    BY <1>1, <1>3, <1>4, <1>6, Types, TypesKept
<1>8. (InTurn /\ Judged)' /\ Room' /\ OneFate'
    BY <1>1, TurnKept, RoomKept, FatesKept DEF Inv
<1>9. Control'
    BY <1>1 DEF Inv, Control
<1>10. Stopped'
    BY <1>1, <1>5 DEF Inv, Stopped
<1>11. Unstarted'
    BY <1>1, <1>4 DEF Inv, Unstarted, Begun
<1>12. NoBacklog'
    BY <1>1, <1>4 DEF Inv, NoBacklog, Cancelling
<1> QED
    BY <1>6, <1>7, <1>8, <1>9, <1>10, <1>11, <1>12 DEF Inv

-----------------------------------------------------------------------------
(* The collecting loop *)

(* The parts of the invariant that no step of the loop on its task         *)
(* disturbs.                                                               *)
LEMMA HandIs ==
    ASSUME Inv, NEW k \in hand
    PROVE  /\ TypeOK /\ hand = {k} /\ k \in Tasks /\ k \in 1..made
           /\ pc \in {"collect", "cancel"}
           /\ Len(wants[k]) \in Nat /\ 1..Len(wants[k]) \subseteq Positions
           /\ at \in 1..Len(wants[k]) /\ at \in Positions
           /\ taken = {} /\ abandoned = {} /\ getter # "waiting"
           /\ k \notin processed /\ k \notin failed
           /\ Positions \subseteq Nat \ {0}
<1>1. TypeOK /\ hand = {k} /\ k \in Tasks /\ k \in 1..made /\ pc \in {"collect", "cancel"}
    BY Types DEF Inv, Control
<1>2. /\ Len(wants[k]) \in Nat /\ 1..Len(wants[k]) \subseteq Positions
      /\ at \in 1..Len(wants[k]) /\ at \in Positions
    BY <1>1, Listed DEF Inv, InTurn
<1>3. taken = {} /\ abandoned = {} /\ getter # "waiting"
    BY <1>1 DEF Inv, Control
<1>4. k \notin processed /\ k \notin failed
    <2>1. Apportioned(Fates, Made) /\ k \in Fates[6]
        BY OneFateMeans, FatesAre DEF Inv
    <2>2. k \notin Fates[7] /\ k \notin Fates[9]
        BY <2>1 DEF Apportioned
    <2> QED
        BY <2>2, FatesAre
<1>5. Positions \subseteq Nat \ {0}
    <2>1. \A r \in Requests : DOMAIN r \subseteq Nat \ {0}
        <3>1. ASSUME NEW r \in Requests PROVE DOMAIN r \subseteq Nat \ {0}
            <4>1. r \in Seq(STRING)
                BY EvaluationAssumption
            <4>2. DOMAIN r = 1..Len(r) /\ Len(r) \in Nat
                BY <4>1
            <4> QED
                BY <4>2
        <3> QED
            BY <3>1
    <2> QED
        BY <2>1 DEF Positions
<1> QED
    BY <1>1, <1>2, <1>3, <1>4, <1>5

(* The loop turns to the next evaluation, when the one it waits for has a  *)
(* verdict and no job in the backlog.                                      *)
LEMMA AdvanceInv ==
    ASSUME Inv, NEW k \in hand, Advance(k), NEW v \in {"score", "error", "timeout"},
           verdict' = [verdict EXCEPT ![k][at] = v],
           \/ job' = job /\ job[k][at] # "queued"
           \/ job' = [job EXCEPT ![k][at] = Cancelled(job[k][at])],
           UNCHANGED <<policy, queue, made, wants, putting, refused, evicted>>,
           UNCHANGED <<getter, taken, failed, abandoned, running, stopper>>
    PROVE  Inv'
<1>1. \/ /\ at = Len(wants[k])
         /\ pc' = "top"
         /\ hand' = {}
         /\ at' = 0
         /\ processed' = processed \union {k}
      \/ /\ at # Len(wants[k])
         /\ pc' = "collect"
         /\ at' = at + 1
         /\ UNCHANGED <<hand, processed>>
    BY DEF Advance, Last
<1>2. TypeOK /\ hand = {k} /\ k \in Tasks /\ k \in 1..made
    BY HandIs
<1>3. /\ Len(wants[k]) \in Nat /\ 1..Len(wants[k]) \subseteq Positions
      /\ at \in 1..Len(wants[k]) /\ at \in Positions /\ Positions \subseteq Nat
    BY HandIs
<1>4. /\ verdict' \in [Tasks -> [Positions -> Verdicts]]
      /\ verdict'[k][at] = v
      /\ \A j \in Tasks, p \in Positions : j # k \/ p # at => verdict'[j][p] = verdict[j][p]
    BY <1>2, <1>3, Types DEF Verdicts
<1>5. /\ job' \in [Tasks -> [Positions -> JobStates]]
      /\ \A j \in Tasks, p \in Positions : j # k \/ p # at => job'[j][p] = job[j][p]
      /\ job'[k][at] # "queued"
      /\ job'[k][at] = "running" <=> job[k][at] = "running"
    <2>1. /\ job \in [Tasks -> [Positions -> JobStates]]
          /\ k \in Tasks /\ at \in Positions
        BY <1>2, <1>3, Types
    <2>2. CASE job' = job /\ job[k][at] # "queued"
        BY <2>1, <2>2
    <2>3. CASE job' = [job EXCEPT ![k][at] = Cancelled(job[k][at])]
        <3>1. /\ Cancelled(job[k][at]) \in JobStates
              /\ Cancelled(job[k][at]) # "queued"
              /\ Cancelled(job[k][at]) = "running" <=> job[k][at] = "running"
            BY <2>1 DEF Cancelled, JobStates
        <3>2. /\ job' \in [Tasks -> [Positions -> JobStates]]
              /\ \A j \in Tasks, p \in Positions : j # k \/ p # at => job'[j][p] = job[j][p]
              /\ job'[k][at] = Cancelled(job[k][at])
            BY <2>1, <2>3, <3>1
        <3> QED
            BY <3>1, <3>2
    <2> QED
        BY <2>2, <2>3
<1>6. Running' = Running /\ Queued' \subseteq Queued
    <2>1. \A j \in Tasks \X Positions :
              /\ job'[j[1]][j[2]] = "running" <=> job[j[1]][j[2]] = "running"
              /\ job'[j[1]][j[2]] = "queued" => job[j[1]][j[2]] = "queued"
        BY <1>5
    <2> QED
        BY <2>1 DEF Running, Queued
<1>7. taken = {} /\ abandoned = {} /\ getter # "waiting" /\ pc \in {"collect", "cancel"}
    BY HandIs
<1>8. Room' /\ Cardinality(queue') <= MaxQueue
    BY RoomKept
<1>9. TypeOK'
    <2>1. at' \in Nat /\ hand' \subseteq 1..made' /\ processed' \subseteq 1..made'
        BY <1>1, <1>2, Types
    <2>2. pc' \in {"top", "get", "collect", "cancel", "ended", "cancelled"}
        BY <1>1
    <2> QED
        BY <1>2, <1>4, <1>5, <1>6, <1>8, <2>1, <2>2, Types, TypesKept
<1>10. IsFiniteSet(Running')
    BY <1>6 DEF Inv
<1>11. Stopped'
    BY <1>1, <1>6, <1>7 DEF Inv, Stopped
<1>12. Control'
    BY <1>1, <1>7 DEF Inv, Control
<1>13. \A p \in 1..Len(wants[k]) : p <= at => verdict'[k][p] # "none"
    <2> SUFFICES ASSUME NEW p \in 1..Len(wants[k]), p <= at PROVE verdict'[k][p] # "none"
        OBVIOUS
    <2>1. CASE p = at
        BY <1>4, <2>1
    <2>2. CASE p # at
        <3>1. p \in 1..at - 1
            BY <1>3, <2>2
        <3> QED
            BY <1>2, <1>3, <1>4, <2>2, <3>1 DEF Inv, InTurn
    <2> QED
        BY <2>1, <2>2
<1>14. InTurn'
    <2>1. CASE hand' = {}
        BY <2>1 DEF InTurn
    <2>2. CASE hand' = hand /\ at # Len(wants[k]) /\ at' = at + 1 /\ pc' = "collect"
        <3>1. at' \in 1..Len(wants[k]) /\ \A p \in 1..at' - 1 : p \in 1..Len(wants[k]) /\ p <= at
            BY <1>3, <2>2
        <3>2. \A i \in Positions : i > at \/ (i = at /\ pc = "collect") => verdict[k][i] = "none"
            BY DEF Inv, InTurn
        <3>3. \A i \in Positions : i > at' \/ i = at' => verdict'[k][i] = "none"
            <4> SUFFICES ASSUME NEW i \in Positions, i > at' \/ i = at'
                         PROVE  verdict'[k][i] = "none"
                OBVIOUS
            <4>1. i > at /\ i # at
                BY <1>3, <2>2
            <4> QED
                BY <1>2, <1>4, <3>2, <4>1
        <3> QED
            BY <1>2, <1>13, <2>2, <3>1, <3>3 DEF InTurn
    <2> QED
        BY <1>1, <2>1, <2>2
<1>15. k \notin processed /\ k \notin failed
    BY HandIs
<1>16. Judged'
    <2>1. ASSUME NEW j \in processed', NEW p \in 1..Len(wants[j])
          PROVE  verdict'[j][p] # "none"
        <3>1. CASE j \in processed
            <4>1. j # k /\ j \in Tasks /\ p \in Positions
                BY <1>2, <1>15, <3>1, Types, Listed
            <4> QED
                BY <1>4, <3>1, <4>1 DEF Inv, Judged
        <3>2. CASE j \notin processed
            <4>1. j = k /\ at = Len(wants[k])
                BY <1>1, <2>1, <3>2
            <4> QED
                BY <1>3, <1>13, <4>1
        <3> QED
            BY <3>1, <3>2
    <2>2. ASSUME NEW j \in failed', NEW p \in Positions
          PROVE  verdict'[j][p] = "none"
        <3>1. j \in failed /\ j # k /\ j \in Tasks
            BY <1>2, <1>15, Types
        <3> QED
            BY <1>4, <3>1 DEF Inv, Judged
    <2> QED
        BY <2>1, <2>2 DEF Judged
<1>17. Unstarted'
    <2>1. k \in Begun' /\ Begun \subseteq Begun'
        BY <1>1, <1>2 DEF Begun
    <2> QED
        BY <1>2, <1>4, <1>5, <2>1 DEF Inv, Unstarted
<1>18. NoBacklog'
    <2> SUFFICES ASSUME NEW j \in Tasks, NEW p \in Positions, job'[j][p] = "queued"
                 PROVE  verdict'[j][p] = "none"
        BY DEF NoBacklog
    <2>1. j # k \/ p # at
        BY <1>5
    <2>2. ~Cancelling(j, p)
        BY <1>2, <2>1 DEF Cancelling
    <2> QED
        BY <1>4, <1>5, <2>1, <2>2 DEF Inv, NoBacklog
<1>19. OneFate'
    <2>1. Apportioned(Fates, Made) /\ Made' = Made
        BY <1>1, OneFateMeans DEF Inv, Made
    <2>2. CASE hand' = {} /\ processed' = processed \union {k}
        <3>1. Goes(Fates, Fates', {k}, 6, 7)
            BY <1>1, <1>2, <2>2, FatesAre DEF Goes, Putting
        <3>2. Apportioned(Fates', Made)
            BY <2>1, <3>1, FateMoved
        <3> QED
            BY <2>1, <3>2, OneFateMeans
    <2>3. CASE UNCHANGED <<hand, processed>>
        BY <2>3, FatesKept DEF Inv
    <2> QED
        BY <1>1, <2>2, <2>3
<1> QED
    BY <1>8, <1>9, <1>10, <1>11, <1>12, <1>14, <1>16, <1>17, <1>18, <1>19 DEF Inv

(* The processing of a task that has no verdict yet raises: its jobs stay. *)
LEMMA FailInv ==
    ASSUME Inv, NEW k \in hand, Fail(k), pc = "collect",
           UNCHANGED <<policy, queue, made, wants, putting, refused, evicted>>,
           UNCHANGED <<getter, taken, job, abandoned, running, stopper>>
    PROVE  Inv'
<1>1. /\ at = 1 /\ pc' = "top" /\ hand' = {} /\ at' = 0
      /\ failed' = failed \union {k}
      /\ UNCHANGED <<verdict, processed>>
    BY DEF Fail
<1>2. /\ TypeOK /\ hand = {k} /\ k \in Tasks /\ k \in 1..made
      /\ taken = {} /\ abandoned = {} /\ getter # "waiting"
      /\ Positions \subseteq Nat \ {0}
    BY HandIs
<1>3. (IsFiniteSet(Running) /\ Unstarted /\ NoBacklog)' /\ Running' = Running
    BY <1>1, <1>2, JobsKept DEF Begun
<1>4. Room' /\ Cardinality(queue') <= MaxQueue
    BY RoomKept
<1>5. InTurn'
    BY <1>1 DEF InTurn
<1>6. \A i \in Positions : verdict[k][i] = "none"
    <2>1. \A i \in Positions : i > at \/ (i = at /\ pc = "collect") => verdict[k][i] = "none"
        BY DEF Inv, InTurn
    <2>2. \A i \in Positions : i > 1 \/ i = 1
        BY <1>2
    <2> QED
        BY <1>1, <2>1, <2>2
<1>7. Judged'
    BY <1>1, <1>6 DEF Inv, Judged
<1>8. Control' /\ Stopped'
    BY <1>1, <1>2 DEF Inv, Control, Stopped
<1>9. TypeOK'
    <2>1. failed' \subseteq 1..made'
        BY <1>1, <1>2, Types
    <2> QED
        BY <1>1, <1>2, <1>3, <1>4, <2>1, Types, TypesKept
<1>10. OneFate'
    <2>1. Apportioned(Fates, Made) /\ Made' = Made
        BY OneFateMeans DEF Inv, Made
    <2>2. Goes(Fates, Fates', {k}, 6, 9)
        BY <1>1, <1>2, FatesAre DEF Goes, Putting
    <2>3. Apportioned(Fates', Made)
        BY <2>1, <2>2, FateMoved
    <2> QED
        BY <2>1, <2>3, OneFateMeans
<1> QED
    BY <1>3, <1>4, <1>5, <1>7, <1>8, <1>9, <1>10 DEF Inv

LEMMA CollectInv ==
    ASSUME Inv, NEW k \in Tasks, Collect(k)
    PROVE  Inv'
<1>1. /\ k \in hand /\ pc = "collect" /\ job[k][at] \in {"done", "failed"}
      /\ UNCHANGED <<policy, queue, made, wants, putting, refused, evicted>>
      /\ UNCHANGED <<getter, taken, job, abandoned, running, stopper>>
    BY DEF Collect, queueVars, stopVars
<1>2. CASE Fail(k)
    BY <1>1, <1>2, FailInv
<1>3. CASE /\ verdict' = [verdict EXCEPT ![k][at] =
                             IF job[k][at] = "done" THEN "score" ELSE "error"]
           /\ Advance(k)
           /\ UNCHANGED failed
    <2>1. PICK v \in {"score", "error", "timeout"} : verdict' = [verdict EXCEPT ![k][at] = v]
        BY <1>3
    <2> QED
        BY <1>1, <1>3, <2>1, AdvanceInv
<1> QED
    BY <1>2, <1>3 DEF Collect

(* The timeout is reported; its job may still be in the backlog.           *)
LEMMA WaitTimesOutInv ==
    ASSUME Inv, NEW k \in Tasks, WaitTimesOut(k)
    PROVE  Inv'
<1>1. /\ k \in hand /\ pc = "collect"
      /\ UNCHANGED <<policy, queue, made, wants, putting, refused, evicted>>
      /\ UNCHANGED <<getter, taken, job, abandoned, running, stopper>>
    BY DEF WaitTimesOut, queueVars, stopVars
<1>2. CASE Fail(k)
    BY <1>1, <1>2, FailInv
<1>3. CASE /\ verdict' = [verdict EXCEPT ![k][at] = "timeout"]
           /\ pc' = "cancel"
           /\ UNCHANGED <<hand, at, processed, failed>>
    <2>1. /\ TypeOK /\ hand = {k} /\ k \in 1..made
          /\ at \in 1..Len(wants[k]) /\ at \in Positions /\ Positions \subseteq Nat
          /\ taken = {} /\ abandoned = {} /\ getter # "waiting"
          /\ k \notin processed /\ k \notin failed
        BY <1>1, HandIs
    <2>2. /\ verdict' \in [Tasks -> [Positions -> Verdicts]]
          /\ verdict'[k][at] = "timeout"
          /\ \A j \in Tasks, p \in Positions : j # k \/ p # at => verdict'[j][p] = verdict[j][p]
        BY <1>3, <2>1, Types DEF Verdicts
    <2>3. Running' = Running /\ Queued' = Queued /\ IsFiniteSet(Running')
        BY <1>1 DEF Running, Queued, Inv
    <2>4. Unstarted'
        <3>1. Begun' = Begun /\ k \in Begun
            BY <1>1, <1>3 DEF Begun
        <3> QED
            BY <1>1, <2>1, <2>2, <3>1 DEF Inv, Unstarted
    <2>5. NoBacklog'
        <3> SUFFICES ASSUME NEW j \in Tasks, NEW p \in Positions, job'[j][p] = "queued"
                     PROVE  verdict'[j][p] = "none" \/ Cancelling(j, p)'
            BY DEF NoBacklog
        <3>1. CASE j = k /\ p = at
            BY <1>1, <1>3, <3>1 DEF Cancelling
        <3>2. CASE ~(j = k /\ p = at)
            BY <1>1, <2>2, <3>2 DEF Inv, NoBacklog, Cancelling
        <3> QED
            BY <3>1, <3>2
    <2>6. InTurn'
        <3>1. /\ \A i \in 1..at - 1 : verdict[k][i] # "none"
              /\ \A i \in Positions : i > at => verdict[k][i] = "none"
            BY <1>1 DEF Inv, InTurn
        <3>2. \A i \in 1..at - 1 : i \in Positions /\ i # at
            BY <2>1, HandIs, <1>1
        <3>3. \A i \in Positions : i > at => i # at
            BY <2>1
        <3> QED
            BY <1>1, <1>3, <2>1, <2>2, <3>1, <3>2, <3>3 DEF InTurn
    <2>7. Judged'
        <3>1. ASSUME NEW j \in processed, NEW p \in 1..Len(wants[j]) PROVE verdict'[j][p] # "none"
            <4>1. j # k /\ j \in Tasks /\ p \in Positions
                BY <2>1, Types, Listed
            <4> QED
                BY <2>2, <4>1 DEF Inv, Judged
        <3>2. ASSUME NEW j \in failed, NEW p \in Positions PROVE verdict'[j][p] = "none"
            <4>1. j # k /\ j \in Tasks
                BY <2>1, Types
            <4> QED
                BY <2>2, <4>1 DEF Inv, Judged
        <3> QED
            BY <1>1, <1>3, <3>1, <3>2 DEF Judged
    <2>8. Control' /\ Stopped'
        BY <1>1, <1>3, <2>1, <2>3 DEF Inv, Control, Stopped
    <2>9. Room' /\ Cardinality(queue') <= MaxQueue
        BY <1>1, RoomKept
    <2>10. TypeOK'
        BY <1>1, <1>3, <2>1, <2>2, <2>3, <2>9, Types, TypesKept
    <2>11. OneFate'
        BY <1>1, <1>3, FatesKept DEF Inv
    <2> QED
        BY <2>3, <2>4, <2>5, <2>6, <2>7, <2>8, <2>9, <2>10, <2>11 DEF Inv
<1> QED
    BY <1>2, <1>3 DEF WaitTimesOut

(* The evaluation being cancelled has its verdict, and leaves the backlog. *)
LEMMA CancelInv ==
    ASSUME Inv, NEW k \in Tasks, Cancel(k)
    PROVE  Inv'
<1>1. /\ k \in hand /\ pc = "cancel" /\ Advance(k)
      /\ job' = [job EXCEPT ![k][at] = Cancelled(job[k][at])]
      /\ verdict' = verdict
      /\ UNCHANGED <<policy, queue, made, wants, putting, refused, evicted>>
      /\ UNCHANGED <<getter, taken, failed, abandoned, running, stopper>>
    BY DEF Cancel, queueVars, stopVars
<1>2. verdict \in [Tasks -> [Positions -> Verdicts]] /\ at \in Positions
    BY <1>1, HandIs, Types
<1>3. verdict[k][at] # "none"
    BY <1>1 DEF Inv, InTurn
<1>4. verdict[k][at] \in {"score", "error", "timeout"}
    BY <1>2, <1>3 DEF Verdicts
<1>5. verdict' = [verdict EXCEPT ![k][at] = verdict[k][at]]
    BY <1>1, <1>2
<1> QED
    BY <1>1, <1>4, <1>5, AdvanceInv

-----------------------------------------------------------------------------
(* stop() *)

LEMMA StopMoveInv ==
    ASSUME Inv, CallStop \/ JoinLoop \/ PoolDown
    PROVE  Inv'
<1>1. /\ UNCHANGED <<policy, queue, made, wants, putting, refused, evicted>>
      /\ UNCHANGED <<pc, hand, at, verdict, processed, failed>>
      /\ UNCHANGED <<getter, taken, job, abandoned>>
    BY DEF CallStop, JoinLoop, PoolDown, queueVars, loopVars
<1>2. TypeOK
    BY DEF Inv
<1>3. /\ (IsFiniteSet(Running) /\ Unstarted /\ NoBacklog)'
      /\ Running' = Running /\ Queued' = Queued
    BY <1>1, JobsKept DEF Begun
<1>4. (InTurn /\ Judged)' /\ Room' /\ OneFate'
    BY <1>1, TurnKept, RoomKept, FatesKept DEF Inv
<1>5. /\ running' \in BOOLEAN
      /\ stopper' \in {"no", "joining", "pool", "returned", "timedout"}
    BY <1>2, Types DEF CallStop, JoinLoop, PoolDown
<1>6. TypeOK'
    BY <1>1, <1>2, <1>3, <1>5, Types, TypesKept
<1>7. Control'
    BY <1>1 DEF Inv, Control
<1>8. Stopped'
    <2>1. CASE CallStop
        BY <2>1 DEF CallStop, Stopped
    <2>2. CASE JoinLoop
        BY <2>2, <1>1 DEF JoinLoop, Stopped
    <2>3. CASE PoolDown
        BY <2>3, <1>1, <1>3 DEF PoolDown, PoolIdle, Inv, Stopped
    <2> QED
        BY <2>1, <2>2, <2>3
<1> QED
    BY <1>3, <1>4, <1>6, <1>7, <1>8 DEF Inv

(* What the cancelled loop had in hand, and what the executor thread had   *)
(* for it, is lost.                                                        *)
LEMMA StopTimesOutInv ==
    ASSUME Inv, StopTimesOut
    PROVE  Inv'
<1>1. /\ stopper' = "timedout"
      /\ pc # "cancel"
      /\ pc' = "cancelled"
      /\ abandoned' = abandoned \union hand \union taken
      /\ hand' = {}
      /\ taken' = {}
      /\ getter' = IF getter = "returned" THEN "idle" ELSE getter
      /\ UNCHANGED <<policy, queue, made, wants, putting, refused, evicted>>
      /\ UNCHANGED <<at, verdict, processed, failed, job, running>>
    BY DEF StopTimesOut, LoopFree, queueVars
<1>2. TypeOK
    BY DEF Inv
<1>3. /\ (IsFiniteSet(Running) /\ Unstarted /\ NoBacklog)'
      /\ Running' = Running
    BY <1>1, JobsKept DEF Begun
<1>4. InTurn' /\ Judged'
    BY <1>1 DEF Inv, InTurn, Judged
<1>5. Room' /\ Cardinality(queue') <= MaxQueue
    BY <1>1, RoomKept
<1>6. TypeOK'
    BY <1>1, <1>2, <1>3, <1>5, Types, TypesKept
<1>7. Control'
    BY <1>1 DEF Inv, Control
<1>8. Stopped'
    BY <1>1 DEF Stopped
<1>9. OneFate'
    <2> DEFINE mid == <<refused, evicted, queue, Putting, taken, {}, processed,
                        abandoned \union hand, failed>>
    <2>1. Apportioned(Fates, Made) /\ Made' = Made
        BY <1>1, OneFateMeans DEF Inv, Made
    <2>2. Goes(Fates, mid, hand, 6, 8)
        BY FatesAre DEF Goes
    <2>3. Goes(mid, Fates', taken, 5, 8)
        BY <1>1, FatesAre DEF Goes, Putting
    <2> HIDE DEF mid
    <2>4. Apportioned(mid, Made)
        BY <2>1, <2>2, FateMoved
    <2>5. Apportioned(Fates', Made)
        BY <2>3, <2>4, FateMoved
    <2> QED
        BY <2>1, <2>5, OneFateMeans
<1> QED
    BY <1>3, <1>4, <1>5, <1>6, <1>7, <1>8, <1>9 DEF Inv

-----------------------------------------------------------------------------
(* Results *)

LEMMA NextInv == ASSUME Inv, [Next]_vars PROVE Inv'
<1>1. CASE UNCHANGED vars
    <2>1. /\ UNCHANGED <<policy, queue, made, wants, putting, refused, evicted>>
          /\ UNCHANGED <<pc, hand, at, verdict, processed, failed>>
          /\ UNCHANGED <<getter, taken, job, abandoned, running, stopper>>
        BY <1>1 DEF vars, queueVars, loopVars, stopVars
    <2>2. (IsFiniteSet(Running) /\ Unstarted /\ NoBacklog)' /\ Running' = Running
        BY <2>1, JobsKept DEF Begun
    <2>3. (InTurn /\ Judged)' /\ Room' /\ OneFate' /\ (Control /\ Stopped)'
        BY <2>1, TurnKept, RoomKept, FatesKept, ControlKept DEF Inv
    <2>4. TypeOK'
        BY <2>1, <2>2, Types, TypesKept DEF Inv
    <2> QED
        BY <2>2, <2>3, <2>4 DEF Inv
<1>2. CASE Put
    BY <1>2, PutInv
<1>3. CASE PutRest
    BY <1>3, PutEvictsInv, PutAppendsInv DEF PutRest
<1>4. CASE DrainLoop
    BY <1>4, LoopTopInv, ResumeInv, CollectInv, WaitTimesOutInv, CancelInv DEF DrainLoop
<1>5. CASE Getter
    BY <1>5, GetTaskInv, GetTimeoutInv DEF Getter
<1>6. ASSUME NEW k \in Tasks, NEW i \in Positions, StartJob(k, i) \/ EndJob(k, i) PROVE Inv'
    BY <1>6, StartJobInv, EndJobInv
<1>7. CASE CallStop \/ Stopping
    BY <1>7, StopMoveInv, StopTimesOutInv DEF Stopping
<1> QED
    BY <1>1, <1>2, <1>3, <1>4, <1>5, <1>6, <1>7 DEF Next

(* The inductive invariant holds in every reachable state.                 *)
THEOREM Invariance == Spec => []Inv
<1> QED
    BY InitInv, NextInv, PTL DEF Spec

(* In particular neither the queue nor the pool exceeds its size.          *)
THEOREM TypeCorrect == Spec => []TypeOK
<1>1. Inv => TypeOK
    BY DEF Inv
<1> QED
    BY <1>1, Invariance, PTL

(* Every task has exactly one fate, whatever the executor thread does      *)
(* between the calls of put and whenever the loop is cancelled             *)
(* (evaluation_queue.py, evaluation_worker.py).                            *)
THEOREM FateCorrect == Spec => []OneFate
<1>1. Inv => OneFate
    BY DEF Inv
<1> QED
    BY <1>1, Invariance, PTL

(* Under drop_oldest put refuses nothing, under drop_new it evicts nothing *)
(* (evaluation_queue.py, put).                                             *)
THEOREM PolicyCorrect == Spec => []PolicyKept
<1>1. Inv => PolicyKept
    BY DEF Inv, Room, PolicyKept
<1> QED
    BY <1>1, Invariance, PTL

(* A processed task has a span for each evaluation it asked for, a failed  *)
(* one has none, and one that was dropped no job (evaluation_worker.py,    *)
(* _process_task).                                                         *)
THEOREM EmitCorrect == Spec => []PartialEmit
<1>1. Inv => PartialEmit
    <2> SUFFICES ASSUME Inv, NEW k \in Made
                 PROVE  /\ k \in processed => \A i \in DOMAIN wants[k] : verdict[k][i] # "none"
                        /\ k \in failed => \A i \in Positions : verdict[k][i] = "none"
                        /\ k \in refused \union evicted \union queue =>
                              \A i \in Positions : job[k][i] = "none"
        BY DEF PartialEmit
    <2>1. k \in Tasks
        BY Types DEF Inv, Made
    <2>2. k \in processed => \A i \in DOMAIN wants[k] : verdict[k][i] # "none"
        BY <2>1, Listed DEF Inv, Judged
    <2>3. ASSUME k \in refused \union evicted \union queue
          PROVE  k \notin Begun
        <3>1. Apportioned(Fates, Made)
            BY OneFateMeans DEF Inv
        <3>2. PICK j \in 1..3 : k \in Fates[j]
            BY <2>3, FatesAre
        <3>3. \A l \in 6..9 : k \notin Fates[l]
            BY <3>1, <3>2 DEF Apportioned
        <3>4. k \notin Fates[6] /\ k \notin Fates[7] /\ k \notin Fates[8] /\ k \notin Fates[9]
            BY <3>3
        <3> QED
            BY <3>4, FatesAre DEF Begun
    <2>4. k \in failed => \A i \in Positions : verdict[k][i] = "none"
        BY DEF Inv, Judged
    <2> QED
        BY <2>1, <2>2, <2>3, <2>4 DEF Inv, Unstarted
<1> QED
    BY <1>1, Invariance, PTL

(* When stop() returned in time nothing is half done and no evaluator runs *)
(* (evaluation_worker.py, stop).                                           *)
THEOREM StopCorrect == Spec => []StoppedClean
<1>1. Inv => StoppedClean
    BY DEF Inv, Control, Stopped, StoppedClean
<1> QED
    BY <1>1, Invariance, PTL

(* An evaluation reported as timed out is started, if at all, before the   *)
(* loop comes to cancel it (evaluation_worker.py, _process_task).          *)
THEOREM TimedOutCorrect == Spec => TimedOutNeverStarts
<1>1. ASSUME Inv
      PROVE  \A k \in Tasks, i \in Positions :
                 job[k][i] = "queued" /\ job'[k][i] = "running" =>
                     verdict[k][i] = "none" \/ (pc = "cancel" /\ k \in hand /\ at = i)
    BY <1>1 DEF Inv, NoBacklog, Cancelling
<1> QED
    BY <1>1, Invariance, PTL DEF TimedOutNeverStarts
=============================================================================
