------------------------------ MODULE ServerProofs ------------------------------
(***************************************************************************)
(* What is proved of Server: for any limits, windows, queue sizes, numbers *)
(* of clients and services, the rate limiter keeps its limits and refuses  *)
(* nothing without cause, and a shutdown that gives up on nothing loses    *)
(* nothing given to the ingestion queue; and of ServerConfig, for any      *)
(* environments, YAML files and updates, that the configuration in force   *)
(* is valid and keeps what was acknowledged.                               *)
(***************************************************************************)
EXTENDS Server, ServerConfig, FiniteSetTheorems, SequenceTheorems, TLAPS

-----------------------------------------------------------------------------
(* The rate limiter: its inductive invariant                               *)

Answers == {"ip", "service", "full", "accepted"}
Counter == [bucket : Nat, count : Nat]
Records == [client : Clients, service : Services, at : Nat, answer : Answers]

LimiterTypes ==
    /\ clock \in Nat
    /\ perClient \in [Clients -> Counter]
    /\ perService \in [Services -> Counter]
    /\ requests \in Seq(Records)

(* Of some requests, those of an address in a window, those for a service  *)
(* from addresses within their limit, and those of either that got past.   *)
InWindow(rs, b) == {i \in 1..Len(rs) : rs[i].at \div Window = b}
Asked(rs, a, b) == {i \in InWindow(rs, b) : rs[i].client = a}
AskedFor(rs, s, b) == {i \in InWindow(rs, b) : rs[i].service = s /\ rs[i].answer # "ip"}
Got(rs, a, b) == {i \in Asked(rs, a, b) : rs[i].answer \notin {"ip", "service"}}
GotFor(rs, s, b) == {i \in AskedFor(rs, s, b) : rs[i].answer # "service"}

(* A counter counts the requests of the last window it was asked about.    *)
ClientsCounted ==
    /\ \A a \in Clients :
          /\ perClient[a].bucket <= Bucket
          /\ perClient[a].count = Cardinality(Asked(requests, a, perClient[a].bucket))
    /\ \A i \in 1..Len(requests) :
          requests[i].at \div Window <= perClient[requests[i].client].bucket
ServicesCounted ==
    /\ \A s \in Services :
          /\ perService[s].bucket <= Bucket
          /\ perService[s].count = Cardinality(AskedFor(requests, s, perService[s].bucket))
    /\ \A i \in 1..Len(requests) : requests[i].answer # "ip" =>
          requests[i].at \div Window <= perService[requests[i].service].bucket

LimiterInv ==
    /\ LimiterTypes
    /\ ClientsCounted
    /\ ServicesCounted
    /\ RateBounded
    /\ RefusedForCause

-----------------------------------------------------------------------------
(* The shutdown: its inductive invariant                                   *)

(* What the queue was given is in it, refused, dropped under pressure,     *)
(* forwarded or taken for the sentinel.                                    *)
Whole(items) == {x \in items : x.is # "broken"}
Settled == forwarded \union refused \union evicted \union mistaken
NothingLost == Whole(offered) \subseteq Settled \union ToSet(queue)

(* Every stop that returned has left its part behind it; the ingestion     *)
(* task ends before its stop only by mistake.                              *)
PoolDone == pool = "ended" /\ hand = <<>>
InOrder ==
    /\ phase \in {"serving", "pool", "ingestion", "exporter", "stopped", "raised"}
    /\ phase \in {"ingestion", "exporter", "stopped", "raised"} => PoolDone
    /\ worker # "loop" /\ phase \in {"serving", "pool", "ingestion"} => mistaken # {}
    /\ phase \in {"exporter", "stopped"} =>
          worker # "loop" /\ (queue # <<>> => mistaken # {})

ShutdownInv ==
    /\ queue \in Seq(offered)
    /\ timedOut = {} => NothingLost /\ InOrder

-----------------------------------------------------------------------------
(* Windows and counts *)

LEMMA Limits ==
    /\ ClientLimit \in Nat \ {0}
    /\ ServiceLimit \in Nat \ {0}
    /\ Window \in Nat \ {0}
BY ServerAssumption

LEMMA WindowsOrdered ==
    ASSUME NEW t \in Nat
    PROVE  /\ t \div Window \in Nat
           /\ (t + 1) \div Window \in Nat
           /\ t \div Window <= (t + 1) \div Window
<1>1. Window \in Nat \ {0}
    BY Limits
<1> QED
    BY <1>1

(* Sets of requests are finite, and grow by one. *)
LEMMA Counts ==
    ASSUME NEW n \in Nat, NEW S \in SUBSET (1..n)
    PROVE  /\ IsFiniteSet(S)
           /\ Cardinality(S) \in Nat
           /\ Cardinality(S \union {n + 1}) = Cardinality(S) + 1
           /\ \A T \in SUBSET S : Cardinality(T) \in Nat /\ Cardinality(T) <= Cardinality(S)
<1>1. IsFiniteSet(S)
    <2>1. IsFiniteSet(1..n)
        BY FS_Interval
    <2> QED
        BY <2>1, FS_Subset
<1>2. n + 1 \notin S
    OBVIOUS
<1>3. \A T \in SUBSET S : Cardinality(T) \in Nat /\ Cardinality(T) <= Cardinality(S)
    BY <1>1, FS_Subset, FS_CardinalityType
<1> QED
    BY <1>1, <1>2, <1>3, FS_CardinalityType, FS_AddElement

LEMMA Selections ==
    ASSUME NEW rs \in Seq(Records), NEW x, NEW b
    PROVE  /\ Asked(rs, x, b) \in SUBSET (1..Len(rs))
           /\ AskedFor(rs, x, b) \in SUBSET (1..Len(rs))
           /\ Got(rs, x, b) \in SUBSET Asked(rs, x, b)
           /\ GotFor(rs, x, b) \in SUBSET AskedFor(rs, x, b)
BY DEF Asked, AskedFor, Got, GotFor, InWindow

(* One more request. *)
LEMMA OneMore ==
    ASSUME NEW rs \in Seq(Records), NEW r \in Records, NEW x, NEW b
    PROVE  LET n == Len(rs) + 1
               here == r.at \div Window = b
               passes == r.answer \notin {"ip", "service"}
               with == Append(rs, r)
           IN  /\ Asked(with, x, b) =
                     IF here /\ r.client = x THEN Asked(rs, x, b) \union {n} ELSE Asked(rs, x, b)
               /\ AskedFor(with, x, b) =
                     IF here /\ r.service = x /\ r.answer # "ip"
                     THEN AskedFor(rs, x, b) \union {n} ELSE AskedFor(rs, x, b)
               /\ Got(with, x, b) =
                     IF here /\ r.client = x /\ passes
                     THEN Got(rs, x, b) \union {n} ELSE Got(rs, x, b)
               /\ GotFor(with, x, b) =
                     IF here /\ r.service = x /\ passes
                     THEN GotFor(rs, x, b) \union {n} ELSE GotFor(rs, x, b)
<1> DEFINE n == Len(rs) + 1
           with == Append(rs, r)
<1>1. /\ Len(with) = n
      /\ with[n] = r
      /\ \A i \in 1..Len(rs) : with[i] = rs[i]
      /\ 1..n = (1..Len(rs)) \union {n}
      /\ n \notin 1..Len(rs)
    OBVIOUS
<1> HIDE DEF n, with
<1>2. InWindow(with, b) =
          IF r.at \div Window = b THEN InWindow(rs, b) \union {n} ELSE InWindow(rs, b)
    BY <1>1 DEF InWindow
<1>3. Asked(with, x, b) =
          IF r.at \div Window = b /\ r.client = x THEN Asked(rs, x, b) \union {n} ELSE Asked(rs, x, b)
    BY <1>1, <1>2 DEF Asked, InWindow
<1>4. AskedFor(with, x, b) =
          IF r.at \div Window = b /\ r.service = x /\ r.answer # "ip"
          THEN AskedFor(rs, x, b) \union {n} ELSE AskedFor(rs, x, b)
    BY <1>1, <1>2 DEF AskedFor, InWindow
<1>5. Got(with, x, b) =
          IF r.at \div Window = b /\ r.client = x /\ r.answer \notin {"ip", "service"}
          THEN Got(rs, x, b) \union {n} ELSE Got(rs, x, b)
    BY <1>1, <1>3 DEF Got, Asked, InWindow
<1>6. GotFor(with, x, b) =
          IF r.at \div Window = b /\ r.service = x /\ r.answer \notin {"ip", "service"}
          THEN GotFor(rs, x, b) \union {n} ELSE GotFor(rs, x, b)
    BY <1>1, <1>4 DEF GotFor, AskedFor, InWindow
<1> QED
    BY <1>3, <1>4, <1>5, <1>6 DEF n, with

(* What the two properties say of a sequence of requests.                  *)
BoundedIn(rs, top) ==
    \A b \in 0..top :
        /\ \A a \in Clients : Cardinality(Got(rs, a, b)) <= ClientLimit
        /\ \A s \in Services : Cardinality(GotFor(rs, s, b)) <= ServiceLimit
CauseIn(rs) ==
    \A i \in 1..Len(rs) :
        LET b == rs[i].at \div Window
            before == 1..i - 1
        IN  /\ rs[i].answer = "ip" =>
                  Cardinality(Asked(rs, rs[i].client, b) \intersect before) >= ClientLimit
            /\ rs[i].answer = "service" =>
                  Cardinality(AskedFor(rs, rs[i].service, b) \intersect before) >= ServiceLimit

LEMMA BoundedMeans ==
    /\ RateBounded <=> BoundedIn(requests, Bucket)
    /\ RateBounded' <=> BoundedIn(requests', Bucket')
<1>1. \A a, b : {i \in AllowedIn(b) : requests[i].client = a} = Got(requests, a, b)
    BY DEF AllowedIn, Got, Asked, InWindow
<1>2. \A s, b : {i \in AllowedIn(b) : requests[i].service = s} = GotFor(requests, s, b)
    BY DEF AllowedIn, GotFor, AskedFor, InWindow
<1>3. \A a, b : {i \in AllowedIn(b)' : requests'[i].client = a} = Got(requests', a, b)
    BY DEF AllowedIn, Got, Asked, InWindow
<1>4. \A s, b : {i \in AllowedIn(b)' : requests'[i].service = s} = GotFor(requests', s, b)
    BY DEF AllowedIn, GotFor, AskedFor, InWindow
<1>5. RateBounded <=> BoundedIn(requests, Bucket)
    BY <1>1, <1>2 DEF RateBounded, BoundedIn
<1>6. RateBounded' <=> BoundedIn(requests', Bucket')
    BY <1>3, <1>4 DEF RateBounded, BoundedIn
<1> QED
    BY <1>5, <1>6

LEMMA CauseMeans ==
    ASSUME requests \in Seq(Records), requests' \in Seq(Records)
    PROVE  /\ RefusedForCause <=> CauseIn(requests)
           /\ RefusedForCause' <=> CauseIn(requests')
<1>1. \A i \in 1..Len(requests) :
          /\ {j \in Before(i) : requests[j].client = requests[i].client} =
                Asked(requests, requests[i].client, requests[i].at \div Window) \intersect 1..i - 1
          /\ {j \in Before(i) : /\ requests[j].service = requests[i].service
                               /\ requests[j].answer # "ip"} =
                AskedFor(requests, requests[i].service, requests[i].at \div Window)
                    \intersect 1..i - 1
    BY DEF Before, Asked, AskedFor, InWindow
<1>2. \A i \in 1..Len(requests') :
          /\ {j \in Before(i)' : requests'[j].client = requests'[i].client} =
                Asked(requests', requests'[i].client, requests'[i].at \div Window)
                    \intersect 1..i - 1
          /\ {j \in Before(i)' : /\ requests'[j].service = requests'[i].service
                                /\ requests'[j].answer # "ip"} =
                AskedFor(requests', requests'[i].service, requests'[i].at \div Window)
                    \intersect 1..i - 1
    BY DEF Before, Asked, AskedFor, InWindow
<1>3. RefusedForCause <=> CauseIn(requests)
    BY <1>1 DEF RefusedForCause, CauseIn
<1>4. RefusedForCause' <=> CauseIn(requests')
    BY <1>2 DEF RefusedForCause, CauseIn
<1> QED
    BY <1>3, <1>4

-----------------------------------------------------------------------------
(* The rate limiter: steps                                                 *)

LEMMA LimiterInit == Init => LimiterInv
<1> SUFFICES ASSUME Init PROVE LimiterInv
    OBVIOUS
<1>1. /\ clock = 0
      /\ perClient = [a \in Clients |-> Fresh]
      /\ perService = [s \in Services |-> Fresh]
      /\ requests = <<>>
    BY DEF Init
<1>2. Bucket \in Nat /\ Fresh = [bucket |-> 0, count |-> 0]
    BY <1>1, Limits DEF Bucket, Fresh
<1>3. \A x, b : /\ Asked(requests, x, b) = {} /\ AskedFor(requests, x, b) = {}
                /\ Got(requests, x, b) = {} /\ GotFor(requests, x, b) = {}
    BY <1>1 DEF Asked, AskedFor, Got, GotFor, InWindow
<1>4. Cardinality({}) = 0
    BY FS_EmptySet
<1>5. LimiterTypes
    BY <1>1, <1>2 DEF LimiterTypes, Counter
<1>6. ClientsCounted /\ ServicesCounted
    <2>1. \A x, b : /\ Cardinality(Asked(requests, x, b)) = 0
                    /\ Cardinality(AskedFor(requests, x, b)) = 0
        BY <1>3, <1>4
    <2>2. 1..Len(requests) = {}
        BY <1>1
    <2>3. /\ \A a \in Clients : perClient[a].bucket = 0 /\ perClient[a].count = 0
          /\ \A s \in Services : perService[s].bucket = 0 /\ perService[s].count = 0
        BY <1>1, <1>2
    <2> QED
        BY <1>2, <2>1, <2>2, <2>3 DEF ClientsCounted, ServicesCounted
<1>7. RateBounded
    <2>1. \A x, b : Cardinality(Got(requests, x, b)) = 0 /\ Cardinality(GotFor(requests, x, b)) = 0
        BY <1>3, <1>4
    <2> QED
        BY <2>1, BoundedMeans, Limits DEF BoundedIn
<1>8. RefusedForCause
    BY <1>1 DEF RefusedForCause
<1> QED
    BY <1>5, <1>6, <1>7, <1>8 DEF LimiterInv

LEMMA LimiterKept ==
    ASSUME LimiterInv, UNCHANGED <<clock, perClient, perService, requests>>
    PROVE  LimiterInv'
<1>1. LimiterTypes' /\ ClientsCounted' /\ ServicesCounted'
    BY DEF LimiterInv, LimiterTypes, ClientsCounted, ServicesCounted, Bucket
<1>2. RateBounded' /\ RefusedForCause'
    BY DEF LimiterInv, RateBounded, AllowedIn, RefusedForCause, Before, Bucket
<1> QED
    BY <1>1, <1>2 DEF LimiterInv

(* A window that begins has seen no request. *)
LEMMA LimiterTick ==
    ASSUME LimiterInv, Tick
    PROVE  LimiterInv'
<1>1. clock' = clock + 1 /\ UNCHANGED <<perClient, perService, requests>>
    BY DEF Tick
<1>2. LimiterTypes
    BY DEF LimiterInv
<1>3. /\ Bucket \in Nat /\ Bucket' \in Nat
      /\ Bucket <= Bucket'
    BY <1>1, <1>2, WindowsOrdered DEF LimiterTypes, Bucket
<1>4. LimiterTypes'
    BY <1>1, <1>2 DEF LimiterTypes
<1>5. ClientsCounted' /\ ServicesCounted'
    <2>1. \A a \in Clients : perClient[a].bucket \in Nat
        BY <1>2 DEF LimiterTypes, Counter
    <2>2. \A s \in Services : perService[s].bucket \in Nat
        BY <1>2 DEF LimiterTypes, Counter
    <2>3. ClientsCounted'
        BY <1>1, <1>3, <2>1 DEF LimiterInv, ClientsCounted
    <2>4. ServicesCounted'
        BY <1>1, <1>3, <2>2 DEF LimiterInv, ServicesCounted
    <2> QED
        BY <2>3, <2>4
<1>6. RateBounded'
    <2> SUFFICES ASSUME NEW b \in 0..Bucket'
                 PROVE  /\ \A a \in Clients : Cardinality(Got(requests, a, b)) <= ClientLimit
                        /\ \A s \in Services : Cardinality(GotFor(requests, s, b)) <= ServiceLimit
        BY <1>1, BoundedMeans DEF BoundedIn
    <2>1. CASE b \in 0..Bucket
        BY <2>1, BoundedMeans DEF LimiterInv, BoundedIn
    <2>2. CASE b > Bucket
        <3>1. \A i \in 1..Len(requests) : requests[i].at \div Window # b \/ requests[i].answer = "ip"
            <4> SUFFICES ASSUME NEW i \in 1..Len(requests)
                         PROVE  requests[i].at \div Window # b
                OBVIOUS
            <4>1. requests[i] \in Records
                BY <1>2 DEF LimiterTypes
            <4>2. requests[i].client \in Clients /\ requests[i].at \in Nat
                BY <4>1 DEF Records
            <4>3. perClient[requests[i].client].bucket \in Nat
                BY <1>2, <4>2 DEF LimiterTypes, Counter
            <4>4. /\ requests[i].at \div Window <= perClient[requests[i].client].bucket
                  /\ perClient[requests[i].client].bucket <= Bucket
                BY <4>2 DEF LimiterInv, ClientsCounted
            <4>5. requests[i].at \div Window \in Nat
                BY <4>2, WindowsOrdered
            <4> QED
                BY <1>3, <2>2, <4>3, <4>4, <4>5
        <3>2. \A x : Got(requests, x, b) = {} /\ GotFor(requests, x, b) = {}
            BY <3>1 DEF Got, GotFor, Asked, AskedFor, InWindow
        <3> QED
            BY <3>2, FS_EmptySet, Limits
    <2> QED
        BY <1>3, <2>1, <2>2
<1>7. RefusedForCause'
    BY <1>1 DEF LimiterInv, RefusedForCause, Before
<1> QED
    BY <1>4, <1>5, <1>6, <1>7 DEF LimiterInv

(* A request counted in the current window, and the counts of the others.  *)
LEMMA CountedRight ==
    ASSUME clock \in Nat,
           NEW c \in Counter, NEW n \in Nat, NEW T \in SUBSET (1..n),
           c.bucket # Bucket => T = {},
           c.bucket = Bucket => c.count = Cardinality(T)
    PROVE  /\ Counted(c) \in Counter
           /\ Counted(c).bucket = Bucket
           /\ Counted(c).count = Cardinality(T) + 1
           /\ Cardinality(T \union {n + 1}) = Cardinality(T) + 1
<1>1. Bucket \in Nat
    BY WindowsOrdered DEF Bucket
<1>2. Cardinality(T \union {n + 1}) = Cardinality(T) + 1 /\ Cardinality(T) \in Nat
    BY Counts
<1>3. T = {} => Cardinality(T) = 0
    BY FS_EmptySet
<1> QED
    BY <1>1, <1>2, <1>3 DEF Counted, Counter

LEMMA LimiterPost ==
    ASSUME LimiterInv, NEW a \in Clients, NEW s \in Services, NEW content \in Contents,
           Post(a, s, content)
    PROVE  LimiterInv'
<1> DEFINE n == Len(requests)
           answer == CASE ~AllowedClient(a) -> "ip"
                       [] AllowedClient(a) /\ ~AllowedService(s) -> "service"
                       [] OTHER -> IF Full /\ mode = "reject" THEN "full" ELSE "accepted"
           r == [client |-> a, service |-> s, at |-> clock, answer |-> answer]
<1>1. /\ perClient' = [perClient EXCEPT ![a] = Counted(perClient[a])]
      /\ perService' = ServiceCounted(a, s)
      /\ requests' = Append(requests, r)
      /\ clock' = clock
    BY DEF Post
<1>2. /\ answer \in Answers
      /\ answer = "ip" <=> ~AllowedClient(a)
      /\ answer = "service" <=> AllowedClient(a) /\ ~AllowedService(s)
    BY DEF Answers
<1>3. LimiterTypes /\ n \in Nat
    BY DEF LimiterInv, LimiterTypes
<1>4. /\ r \in Records
      /\ r.client = a /\ r.service = s /\ r.at \div Window = Bucket /\ r.answer = answer
    BY <1>2, <1>3 DEF LimiterTypes, Records, Bucket
<1> HIDE DEF answer, r
<1>5. Bucket' = Bucket /\ Bucket \in Nat
    BY <1>1, <1>3, WindowsOrdered DEF LimiterTypes, Bucket
<1>6. /\ requests \in Seq(Records) /\ requests' \in Seq(Records)
      /\ Len(requests') = n + 1
      /\ requests'[n + 1] = r
      /\ \A i \in 1..n : requests'[i] = requests[i] /\ requests[i] \in Records
      /\ 1..Len(requests') = (1..n) \union {n + 1}
    BY <1>1, <1>3, <1>4 DEF LimiterTypes
<1>7. \A x, b :
          /\ Asked(requests', x, b) =
                IF b = Bucket /\ x = a
                THEN Asked(requests, x, b) \union {n + 1} ELSE Asked(requests, x, b)
          /\ AskedFor(requests', x, b) =
                IF b = Bucket /\ x = s /\ answer # "ip"
                THEN AskedFor(requests, x, b) \union {n + 1} ELSE AskedFor(requests, x, b)
          /\ Got(requests', x, b) =
                IF b = Bucket /\ x = a /\ answer \notin {"ip", "service"}
                THEN Got(requests, x, b) \union {n + 1} ELSE Got(requests, x, b)
          /\ GotFor(requests', x, b) =
                IF b = Bucket /\ x = s /\ answer \notin {"ip", "service"}
                THEN GotFor(requests, x, b) \union {n + 1} ELSE GotFor(requests, x, b)
    BY <1>1, <1>4, <1>6, OneMore
<1>8. \A i \in 1..n : /\ requests[i].client \in Clients /\ requests[i].service \in Services
                       /\ requests[i].at \div Window \in Nat
    BY <1>6, WindowsOrdered DEF Records
<1>9. \A x \in Clients : perClient[x] \in Counter /\ perClient[x].bucket \in Nat
    BY <1>3 DEF LimiterTypes, Counter
<1>10. \A x \in Services : perService[x] \in Counter /\ perService[x].bucket \in Nat
    BY <1>3 DEF LimiterTypes, Counter
<1>11. /\ Counted(perClient[a]) \in Counter
       /\ Counted(perClient[a]).bucket = Bucket
       /\ Counted(perClient[a]).count = Cardinality(Asked(requests', a, Bucket))
       /\ Counted(perClient[a]).count = Cardinality(Asked(requests, a, Bucket)) + 1
    <2> DEFINE T == Asked(requests, a, Bucket)
               S == Asked(requests', a, Bucket)
    <2>1. T \in SUBSET (1..n) /\ S = T \union {n + 1}
        BY <1>6, <1>7, Selections
    <2>2. perClient[a].bucket # Bucket => T = {}
        <3> SUFFICES ASSUME perClient[a].bucket # Bucket, NEW i \in T PROVE FALSE
            OBVIOUS
        <3>1. /\ i \in 1..n /\ requests[i].at \div Window = Bucket /\ requests[i].client = a
            BY DEF Asked, InWindow
        <3>2. Bucket <= perClient[a].bucket /\ perClient[a].bucket <= Bucket
            BY <3>1 DEF LimiterInv, ClientsCounted
        <3> QED
            BY <1>5, <1>9, <3>2
    <2>3. perClient[a].bucket = Bucket => perClient[a].count = Cardinality(T)
        BY DEF LimiterInv, ClientsCounted
    <2>4. clock \in Nat
        BY <1>3 DEF LimiterTypes
    <2> HIDE DEF S, T
    <2> HIDE DEF n
    <2>5. /\ Counted(perClient[a]) \in Counter
          /\ Counted(perClient[a]).bucket = Bucket
          /\ Counted(perClient[a]).count = Cardinality(T) + 1
          /\ Cardinality(T \union {n + 1}) = Cardinality(T) + 1
        BY <1>3, <1>9, <2>1, <2>2, <2>3, <2>4, CountedRight
    <2> QED
        BY <2>1, <2>5 DEF S, T
<1>12. /\ Counted(perService[s]) \in Counter
       /\ Counted(perService[s]).bucket = Bucket
       /\ Counted(perService[s]).count = Cardinality(AskedFor(requests, s, Bucket)) + 1
       /\ answer # "ip" =>
             Counted(perService[s]).count = Cardinality(AskedFor(requests', s, Bucket))
    <2> DEFINE T == AskedFor(requests, s, Bucket)
               S == T \union {n + 1}
    <2>1. T \in SUBSET (1..n) /\ (answer # "ip" => S = AskedFor(requests', s, Bucket))
        BY <1>6, <1>7, Selections
    <2>2. perService[s].bucket # Bucket => T = {}
        <3> SUFFICES ASSUME perService[s].bucket # Bucket, NEW i \in T PROVE FALSE
            OBVIOUS
        <3>1. /\ i \in 1..n /\ requests[i].at \div Window = Bucket /\ requests[i].service = s
              /\ requests[i].answer # "ip"
            BY DEF AskedFor, InWindow
        <3>2. Bucket <= perService[s].bucket /\ perService[s].bucket <= Bucket
            BY <3>1 DEF LimiterInv, ServicesCounted
        <3> QED
            BY <1>5, <1>10, <3>2
    <2>3. perService[s].bucket = Bucket => perService[s].count = Cardinality(T)
        BY DEF LimiterInv, ServicesCounted
    <2>4. clock \in Nat /\ S = T \union {n + 1}
        BY <1>3 DEF LimiterTypes
    <2> HIDE DEF S, T
    <2> HIDE DEF n
    <2>5. /\ Counted(perService[s]) \in Counter
          /\ Counted(perService[s]).bucket = Bucket
          /\ Counted(perService[s]).count = Cardinality(T) + 1
          /\ Cardinality(T \union {n + 1}) = Cardinality(T) + 1
        BY <1>3, <1>10, <2>1, <2>2, <2>3, <2>4, CountedRight
    <2> QED
        BY <2>1, <2>4, <2>5 DEF T
<1>13. /\ AllowedClient(a) <=> Counted(perClient[a]).count <= ClientLimit
       /\ AllowedService(s) <=> Counted(perService[s]).count <= ServiceLimit
    BY DEF AllowedClient, AllowedService
<1>14. /\ perClient' \in [Clients -> Counter]
       /\ perClient'[a] = Counted(perClient[a])
       /\ \A x \in Clients : x # a => perClient'[x] = perClient[x]
    BY <1>1, <1>3, <1>11 DEF LimiterTypes
<1>15. /\ perService' \in [Services -> Counter]
       /\ perService'[s] = IF answer # "ip" THEN Counted(perService[s]) ELSE perService[s]
       /\ \A x \in Services : x # s => perService'[x] = perService[x]
    BY <1>1, <1>2, <1>3, <1>12 DEF LimiterTypes, ServiceCounted
<1>16. LimiterTypes'
    BY <1>1, <1>3, <1>6, <1>14, <1>15 DEF LimiterTypes
<1>17. ClientsCounted'
    <2>1. ASSUME NEW x \in Clients
          PROVE  /\ perClient'[x].bucket <= Bucket
                 /\ perClient'[x].count =
                        Cardinality(Asked(requests', x, perClient'[x].bucket))
        <3>1. CASE x = a
            <4>1. perClient'[x] = Counted(perClient[a])
                BY <1>14, <3>1
            <4>2. perClient'[x].bucket = Bucket
                BY <1>11, <4>1
            <4>3. perClient'[x].bucket <= Bucket
                BY <1>5, <4>2
            <4>4. Asked(requests', x, perClient'[x].bucket) = Asked(requests', a, Bucket)
                BY <3>1, <4>2
            <4>5. perClient'[x].count = Cardinality(Asked(requests', a, Bucket))
                BY <1>11, <4>1
            <4> QED
                BY <4>3, <4>4, <4>5
        <3>2. CASE x # a
            <4>1. Asked(requests', x, perClient'[x].bucket) =
                    Asked(requests, x, perClient[x].bucket)
                BY <1>7, <1>14, <3>2
            <4> QED
                BY <1>14, <3>2, <4>1 DEF LimiterInv, ClientsCounted
        <3> QED
            BY <3>1, <3>2
    <2>2. ASSUME NEW i \in 1..Len(requests')
          PROVE  requests'[i].at \div Window <= perClient'[requests'[i].client].bucket
        <3>1. CASE i = n + 1
            BY <1>4, <1>5, <1>6, <1>11, <1>14, <3>1
        <3>2. CASE i \in 1..n
            <4>1. requests[i].at \div Window <= perClient[requests[i].client].bucket
                BY <3>2 DEF LimiterInv, ClientsCounted
            <4>2. perClient[requests[i].client].bucket <= Bucket
                BY <1>8, <3>2 DEF LimiterInv, ClientsCounted
            <4>3. perClient'[requests[i].client].bucket \in
                    {perClient[requests[i].client].bucket, Bucket}
                BY <1>8, <1>11, <1>14, <3>2
            <4> QED
                BY <1>5, <1>6, <1>8, <1>9, <3>2, <4>1, <4>2, <4>3
        <3> QED
            BY <1>6, <3>1, <3>2
    <2> QED
        BY <1>5, <2>1, <2>2 DEF ClientsCounted
<1>18. ServicesCounted'
    <2>1. ASSUME NEW x \in Services
          PROVE  /\ perService'[x].bucket <= Bucket
                 /\ perService'[x].count =
                        Cardinality(AskedFor(requests', x, perService'[x].bucket))
        <3>1. CASE x = s /\ answer # "ip"
            BY <1>5, <1>12, <1>15, <3>1
        <3>2. CASE ~(x = s /\ answer # "ip")
            <4>1. AskedFor(requests', x, perService'[x].bucket) =
                    AskedFor(requests, x, perService[x].bucket)
                BY <1>7, <1>15, <3>2
            <4> QED
                BY <1>15, <3>2, <4>1 DEF LimiterInv, ServicesCounted
        <3> QED
            BY <3>1, <3>2
    <2>2. ASSUME NEW i \in 1..Len(requests'), requests'[i].answer # "ip"
          PROVE  requests'[i].at \div Window <= perService'[requests'[i].service].bucket
        <3>1. CASE i = n + 1
            BY <1>4, <1>5, <1>6, <1>12, <1>15, <2>2, <3>1
        <3>2. CASE i \in 1..n
            <4>1. requests[i].at \div Window <= perService[requests[i].service].bucket
                BY <1>6, <2>2, <3>2 DEF LimiterInv, ServicesCounted
            <4>2. perService[requests[i].service].bucket <= Bucket
                BY <1>8, <3>2 DEF LimiterInv, ServicesCounted
            <4>3. perService'[requests[i].service].bucket \in
                    {perService[requests[i].service].bucket, Bucket}
                BY <1>8, <1>12, <1>15, <3>2
            <4> QED
                BY <1>5, <1>6, <1>8, <1>10, <3>2, <4>1, <4>2, <4>3
        <3> QED
            BY <1>6, <3>1, <3>2
    <2> QED
        BY <1>5, <2>1, <2>2 DEF ServicesCounted
<1>19. RateBounded'
    <2> SUFFICES ASSUME NEW b \in 0..Bucket
                 PROVE  /\ \A x \in Clients : Cardinality(Got(requests', x, b)) <= ClientLimit
                        /\ \A x \in Services : Cardinality(GotFor(requests', x, b)) <= ServiceLimit
        BY <1>5, BoundedMeans DEF BoundedIn
    <2>1. /\ \A x \in Clients : Cardinality(Got(requests, x, b)) <= ClientLimit
          /\ \A x \in Services : Cardinality(GotFor(requests, x, b)) <= ServiceLimit
        BY BoundedMeans DEF LimiterInv, BoundedIn
    <2>2. CASE b = Bucket /\ answer \notin {"ip", "service"}
        <3>1. Cardinality(Got(requests', a, b)) <= ClientLimit
            <4>1. /\ Asked(requests', a, b) \in SUBSET (1..Len(requests'))
                  /\ Got(requests', a, b) \in SUBSET Asked(requests', a, b)
                BY <1>6, Selections
            <4>2. Len(requests') \in Nat
                BY <1>6
            <4>3. Cardinality(Got(requests', a, b)) <= Cardinality(Asked(requests', a, b))
                BY <4>1, <4>2, Counts
            <4>4. Counted(perClient[a]).count <= ClientLimit
                BY <1>2, <1>13, <2>2
            <4>5. Cardinality(Asked(requests', a, b)) = Counted(perClient[a]).count
                BY <1>11, <2>2
            <4>6. /\ Cardinality(Asked(requests', a, b)) \in Nat
                  /\ Cardinality(Got(requests', a, b)) \in Nat
                BY <4>1, <4>2, Counts
            <4> QED
                BY <4>3, <4>4, <4>5, <4>6, Limits
        <3>2. Cardinality(GotFor(requests', s, b)) <= ServiceLimit
            <4>1. /\ AskedFor(requests', s, b) \in SUBSET (1..Len(requests'))
                  /\ GotFor(requests', s, b) \in SUBSET AskedFor(requests', s, b)
                BY <1>6, Selections
            <4>2. Len(requests') \in Nat
                BY <1>6
            <4>3. Cardinality(GotFor(requests', s, b)) <= Cardinality(AskedFor(requests', s, b))
                BY <4>1, <4>2, Counts
            <4>4. Counted(perService[s]).count <= ServiceLimit
                BY <1>2, <1>13, <2>2
            <4>5. Cardinality(AskedFor(requests', s, b)) = Counted(perService[s]).count
                BY <1>12, <2>2
            <4>6. /\ Cardinality(AskedFor(requests', s, b)) \in Nat
                  /\ Cardinality(GotFor(requests', s, b)) \in Nat
                BY <4>1, <4>2, Counts
            <4> QED
                BY <4>3, <4>4, <4>5, <4>6, Limits
        <3>3. /\ \A x : x # a => Got(requests', x, b) = Got(requests, x, b)
              /\ \A x : x # s => GotFor(requests', x, b) = GotFor(requests, x, b)
            BY <1>7
        <3> QED
            BY <2>1, <3>1, <3>2, <3>3
    <2>3. CASE ~(b = Bucket /\ answer \notin {"ip", "service"})
        <3>1. \A x : /\ Got(requests', x, b) = Got(requests, x, b)
                     /\ GotFor(requests', x, b) = GotFor(requests, x, b)
            BY <1>7, <2>3
        <3> QED
            BY <2>1, <3>1
    <2> QED
        BY <2>2, <2>3
<1>20. RefusedForCause'
    <2> SUFFICES ASSUME NEW i \in 1..(n + 1)
                 PROVE  LET b == requests'[i].at \div Window
                            before == 1..i - 1
                        IN  /\ requests'[i].answer = "ip" =>
                                  Cardinality(Asked(requests', requests'[i].client, b)
                                              \intersect before) >= ClientLimit
                            /\ requests'[i].answer = "service" =>
                                  Cardinality(AskedFor(requests', requests'[i].service, b)
                                              \intersect before) >= ServiceLimit
        BY <1>6, CauseMeans DEF CauseIn
    <2> DEFINE before == 1..i - 1
    <2>1. n + 1 \notin before /\ (i = n + 1 => before = 1..n)
        BY <1>3
    <2> HIDE DEF before
    <2>2. \A x, b : /\ Asked(requests', x, b) \intersect before =
                           Asked(requests, x, b) \intersect before
                    /\ AskedFor(requests', x, b) \intersect before =
                           AskedFor(requests, x, b) \intersect before
        BY <1>7, <2>1
    <2>3. CASE i \in 1..n
        <3>1. /\ requests[i].answer = "ip" =>
                    Cardinality(Asked(requests, requests[i].client, requests[i].at \div Window)
                                \intersect before) >= ClientLimit
              /\ requests[i].answer = "service" =>
                    Cardinality(AskedFor(requests, requests[i].service, requests[i].at \div Window)
                                \intersect before) >= ServiceLimit
            BY <1>6, <2>3, CauseMeans DEF LimiterInv, CauseIn, before
        <3>2. requests'[i] = requests[i]
            BY <1>6, <2>3
        <3> QED
            BY <2>2, <3>1, <3>2 DEF before
    <2>4. CASE i = n + 1
        <3>1. /\ Asked(requests, a, Bucket) \intersect before = Asked(requests, a, Bucket)
              /\ AskedFor(requests, s, Bucket) \intersect before = AskedFor(requests, s, Bucket)
            BY <1>6, <2>1, <2>4, Selections
        <3>2. /\ Cardinality(Asked(requests, a, Bucket)) \in Nat
              /\ Cardinality(AskedFor(requests, s, Bucket)) \in Nat
            BY <1>3, <1>6, Selections, Counts
        <3>3. answer = "ip" => Cardinality(Asked(requests, a, Bucket)) >= ClientLimit
            BY <1>2, <1>11, <1>13, <3>2, Limits
        <3>4. answer = "service" => Cardinality(AskedFor(requests, s, Bucket)) >= ServiceLimit
            BY <1>2, <1>12, <1>13, <3>2, Limits
        <3>5. /\ requests'[i].client = a /\ requests'[i].service = s
              /\ requests'[i].at \div Window = Bucket /\ requests'[i].answer = answer
            BY <1>4, <1>6, <2>4
        <3> QED
            BY <2>2, <3>1, <3>3, <3>4, <3>5 DEF before
    <2> QED
        BY <1>3, <2>3, <2>4
<1> QED
    BY <1>16, <1>17, <1>18, <1>19, <1>20 DEF LimiterInv

-----------------------------------------------------------------------------
(* The shutdown: the contents of sequences                                 *)

LEMMA Contained ==
    ASSUME NEW S, NEW T, S \subseteq T, NEW q \in Seq(S)
    PROVE  q \in Seq(T)
<1>1. q \in [1..Len(q) -> T] /\ Len(q) \in Nat
    OBVIOUS
<1> QED
    BY <1>1

LEMMA AppendContents ==
    ASSUME NEW S, NEW q \in Seq(S), NEW x \in S
    PROVE  Append(q, x) \in Seq(S) /\ ToSet(Append(q, x)) = ToSet(q) \union {x}
<1> DEFINE a == Append(q, x)
<1>1. /\ a \in Seq(S) /\ DOMAIN a = 1..Len(q) + 1 /\ DOMAIN q = 1..Len(q)
      /\ a[Len(q) + 1] = x /\ Len(q) \in Nat
      /\ \A i \in 1..Len(q) : a[i] = q[i]
    OBVIOUS
<1> HIDE DEF a
<1>2. DOMAIN a = DOMAIN q \union {Len(q) + 1}
    BY <1>1
<1>3. ToSet(a) = ToSet(q) \union {x}
    BY <1>1, <1>2 DEF ToSet
<1> QED
    BY <1>1, <1>3 DEF a

LEMMA TailContents ==
    ASSUME NEW S, NEW q \in Seq(S), q # <<>>
    PROVE  /\ Tail(q) \in Seq(S) /\ Head(q) \in S
           /\ ToSet(q) \subseteq ToSet(Tail(q)) \union {Head(q)}
           /\ ToSet(<<Head(q)>>) = {Head(q)}
<1> DEFINE t == Tail(q)
<1>1. /\ t \in Seq(S) /\ Head(q) \in S /\ Head(q) = q[1]
      /\ Len(t) = Len(q) - 1 /\ Len(q) \in Nat
      /\ \A i \in 1..Len(t) : t[i] = q[i + 1]
    OBVIOUS
<1> HIDE DEF t
<1>2. ASSUME NEW i \in DOMAIN q
      PROVE  q[i] \in ToSet(t) \union {Head(q)}
    <2>1. i = 1 \/ (i - 1 \in DOMAIN t /\ t[i - 1] = q[i])
        BY <1>1
    <2> QED
        BY <1>1, <2>1 DEF ToSet
<1>3. ToSet(<<Head(q)>>) = {Head(q)}
    BY DEF ToSet
<1> QED
    BY <1>1, <1>2, <1>3 DEF ToSet, t

LEMMA CutContents ==
    ASSUME NEW S, NEW q \in Seq(S), NEW k \in 1..Len(q)
    PROVE  /\ SubSeq(q, k + 1, Len(q)) \in Seq(S)
           /\ ToSet(q) \subseteq ToSet(SubSeq(q, 1, k)) \union ToSet(SubSeq(q, k + 1, Len(q)))
<1> DEFINE l == SubSeq(q, 1, k)
           r == SubSeq(q, k + 1, Len(q))
<1>1. Len(q) \in Nat /\ k \in Nat
    OBVIOUS
<1>2. Len(l) = k /\ \A i \in 1..k : l[i] = q[i]
    BY <1>1, SubSeqProperties
<1>3. /\ r \in Seq(S) /\ Len(r) = Len(q) - k
      /\ \A i \in 1..Len(q) - k : r[i] = q[k + i]
    BY <1>1, SubSeqProperties
<1>4. l \in Seq(S)
    BY <1>1, SubSeqProperties
<1> HIDE DEF l, r
<1>5. ASSUME NEW i \in DOMAIN q
      PROVE  q[i] \in ToSet(l) \union ToSet(r)
    <2>1. CASE i <= k
        <3>1. i \in DOMAIN l /\ l[i] = q[i]
            BY <1>1, <1>2, <1>4, <2>1
        <3> QED
            BY <3>1 DEF ToSet
    <2>2. CASE i > k
        <3>1. i - k \in DOMAIN r /\ r[i - k] = q[i]
            BY <1>1, <1>3, <2>2
        <3> QED
            BY <3>1 DEF ToSet
    <2> QED
        BY <1>1, <2>1, <2>2
<1> QED
    BY <1>3, <1>5 DEF ToSet, l, r

-----------------------------------------------------------------------------
(* The shutdown: steps                                                     *)

LEMMA ShutdownInit == Init => ShutdownInv
<1> SUFFICES ASSUME Init PROVE ShutdownInv
    OBVIOUS
<1>1. /\ queue = <<>> /\ phase = "serving" /\ worker = "loop" /\ offered = {}
    BY DEF Init
<1>2. NothingLost /\ InOrder
    BY <1>1 DEF NothingLost, Whole, InOrder
<1> QED
    BY <1>1, <1>2 DEF ShutdownInv

(* What is offered is on the queue or refused; what makes room for it is   *)
(* evicted.                                                                *)
LEMMA Enqueued ==
    ASSUME queue \in Seq(offered), NEW item, Enqueue(item),
           UNCHANGED <<forwarded, mistaken>>
    PROVE  /\ queue' \in Seq(offered')
           /\ NothingLost => NothingLost'
<1>0. offered' = offered \union {item}
    BY DEF Enqueue
<1>1. CASE Full /\ mode = "reject"
    <2>1. refused' = refused \union {item} /\ UNCHANGED <<queue, evicted>>
        BY <1>1 DEF Enqueue
    <2>2. queue' \in Seq(offered')
        BY <1>0, <2>1, Contained
    <2> QED
        BY <1>0, <2>1, <2>2 DEF NothingLost, Settled, Whole
<1>2. CASE ~(Full /\ mode = "reject")
    <2> DEFINE q == IF Full THEN Tail(queue) ELSE queue
    <2>1. /\ queue' = Append(q, item)
          /\ evicted' = IF Full THEN evicted \union {Head(queue)} ELSE evicted
          /\ refused' = refused
        BY <1>2 DEF Enqueue
    <2>2. Full => queue # <<>>
        BY ServerAssumption DEF Full
    <2>3. q \in Seq(offered) /\ ToSet(queue) \subseteq ToSet(q) \union evicted'
        <3>1. CASE Full
            BY <2>1, <2>2, <3>1, TailContents
        <3>2. CASE ~Full
            BY <3>2
        <3> QED
            BY <3>1, <3>2
    <2>4. evicted \subseteq evicted'
        BY <2>1
    <2> HIDE DEF q
    <2>5. q \in Seq(offered')
        BY <1>0, <2>3, Contained
    <2>6. queue' \in Seq(offered') /\ ToSet(queue') = ToSet(q) \union {item}
        BY <1>0, <2>1, <2>5, AppendContents
    <2> QED
        BY <1>0, <2>1, <2>3, <2>4, <2>6 DEF NothingLost, Settled, Whole
<1> QED
    BY <1>1, <1>2

LEMMA ShutdownPost ==
    ASSUME ShutdownInv, NEW a \in Clients, NEW s \in Services, NEW content \in Contents,
           Post(a, s, content)
    PROVE  ShutdownInv'
<1>1. /\ phase = "serving"
      /\ UNCHANGED <<hand, phase, worker, pool, mistaken, forwarded, timedOut>>
    BY DEF Post
<1>2. \/ UNCHANGED <<queue, offered, refused, evicted>>
      \/ Enqueue([of |-> Len(requests) + 1, is |-> IF s = StopName THEN "stop" ELSE content])
    BY DEF Post
<1>3. /\ queue' \in Seq(offered')
      /\ NothingLost => NothingLost'
    BY <1>1, <1>2, Enqueued DEF ShutdownInv, NothingLost, Settled, Whole
<1>4. InOrder => InOrder'
    BY <1>1 DEF InOrder
<1> QED
    BY <1>1, <1>3, <1>4 DEF ShutdownInv

LEMMA ShutdownEmit ==
    ASSUME ShutdownInv, Emit
    PROVE  ShutdownInv'
<1>1. /\ pool = "loop"
      /\ hand # <<>>
      /\ Enqueue([of |-> Head(hand).of, is |-> "result"])
      /\ UNCHANGED <<phase, worker, pool, mistaken, forwarded, timedOut>>
    BY DEF Emit
<1>2. /\ queue' \in Seq(offered')
      /\ NothingLost => NothingLost'
    BY <1>1, Enqueued DEF ShutdownInv
<1>3. InOrder => InOrder'
    BY <1>1 DEF InOrder, PoolDone
<1> QED
    BY <1>1, <1>2, <1>3 DEF ShutdownInv

(* What is consumed before the exporter closes is settled. *)
LEMMA Handled ==
    ASSUME NEW items, Handle(items), phase # "stopped"
    PROVE  /\ forwarded \subseteq forwarded' /\ mistaken \subseteq mistaken'
           /\ Whole(ToSet(items)) \subseteq forwarded' \union mistaken'
           /\ \A x \in ToSet(items) : x.is = "stop" => mistaken' # {}
BY DEF Handle, Whole

(* An item is on the queue until the open exporter has it. *)
LEMMA ShutdownIngest ==
    ASSUME ShutdownInv, Ingest
    PROVE  ShutdownInv'
<1>1. /\ worker = "loop"
      /\ queue # <<>>
      /\ Handle(<<Head(queue)>>)
      /\ queue' = Tail(queue)
      /\ UNCHANGED <<hand, phase, worker, pool, offered, refused, evicted, timedOut>>
    BY DEF Ingest
<1>2. queue \in Seq(offered)
    BY DEF ShutdownInv
<1>3. /\ queue' \in Seq(offered')
      /\ ToSet(queue) \subseteq ToSet(queue') \union {Head(queue)}
      /\ ToSet(<<Head(queue)>>) = {Head(queue)}
    BY <1>1, <1>2, TailContents
<1>4. NothingLost /\ InOrder => NothingLost'
    <2> SUFFICES ASSUME NothingLost, InOrder PROVE NothingLost'
        OBVIOUS
    <2>1. phase # "stopped"
        BY <1>1 DEF InOrder
    <2>2. /\ forwarded \subseteq forwarded' /\ mistaken \subseteq mistaken'
          /\ Whole({Head(queue)}) \subseteq forwarded' \union mistaken'
        BY <1>1, <1>3, <2>1, Handled
    <2> QED
        BY <1>1, <1>3, <2>2 DEF NothingLost, Settled, Whole
<1>5. mistaken \subseteq mistaken'
    BY <1>1 DEF Handle
<1>6. InOrder => InOrder'
    BY <1>1, <1>5 DEF InOrder, PoolDone
<1> QED
    BY <1>1, <1>3, <1>4, <1>6 DEF ShutdownInv

(* The drain settles the queue, or what precedes the item that raises.     *)
LEMMA Drained ==
    ASSUME queue \in Seq(offered), Drain(queue), phase # "stopped",
           UNCHANGED <<offered, refused, evicted>>
    PROVE  /\ queue' \in Seq(offered')
           /\ NothingLost => NothingLost'
           /\ worker' \in {"ended", "raised"}
           /\ worker' = "ended" => queue' = <<>>
           /\ mistaken \subseteq mistaken'
           /\ queue # <<>> /\ Head(queue).is = "stop" => mistaken' # {}
<1>1. PICK k \in 0..Len(queue) :
          /\ k < Len(queue) => k > 0 /\ queue[k].is = "broken"
          /\ Handle(SubSeq(queue, 1, k))
          /\ queue' = SubSeq(queue, k + 1, Len(queue))
          /\ worker' = IF k > 0 /\ queue[k].is = "broken" THEN "raised" ELSE "ended"
    BY DEF Drain
<1>2. Len(queue) \in Nat /\ k \in Nat /\ k <= Len(queue)
    OBVIOUS
<1>3. CASE k = 0
    <2>1. Len(queue) = 0
        BY <1>1, <1>2, <1>3
    <2>2. queue = <<>>
        BY <2>1
    <2>3. queue' = <<>> /\ worker' = "ended"
        BY <1>1, <1>3, <2>2
    <2>4. /\ forwarded \subseteq forwarded' /\ mistaken \subseteq mistaken'
        BY <1>1, Handled
    <2>5. ToSet(queue) = ToSet(queue')
        BY <2>2, <2>3
    <2> QED
        BY <2>2, <2>3, <2>4, <2>5 DEF NothingLost, Settled, Whole
<1>4. CASE k > 0
    <2>1. k \in 1..Len(queue)
        BY <1>2, <1>4
    <2>2. /\ queue' \in Seq(offered')
          /\ ToSet(queue) \subseteq ToSet(SubSeq(queue, 1, k)) \union ToSet(queue')
        BY <1>1, <2>1, CutContents
    <2>3. /\ forwarded \subseteq forwarded' /\ mistaken \subseteq mistaken'
          /\ Whole(ToSet(SubSeq(queue, 1, k))) \subseteq forwarded' \union mistaken'
          /\ \A x \in ToSet(SubSeq(queue, 1, k)) : x.is = "stop" => mistaken' # {}
        BY <1>1, Handled
    <2>4. NothingLost => NothingLost'
        BY <2>2, <2>3 DEF NothingLost, Settled, Whole
    <2>5. worker' = "ended" => queue' = <<>>
        <3>1. SUFFICES ASSUME worker' = "ended" PROVE queue' = <<>>
            OBVIOUS
        <3>2. k = Len(queue)
            BY <1>1, <1>2, <1>4, <3>1
        <3> QED
            BY <1>1, <1>2, <3>2
    <2>6. ASSUME queue # <<>>, Head(queue).is = "stop" PROVE mistaken' # {}
        <3> DEFINE l == SubSeq(queue, 1, k)
        <3>1. Len(l) = k /\ l \in Seq(offered) /\ l[1] = queue[1]
            BY <1>2, <2>1, SubSeqProperties
        <3> HIDE DEF l
        <3>2. 1 \in DOMAIN l
            BY <1>2, <1>4, <3>1
        <3>3. Head(queue) \in ToSet(l)
            BY <2>6, <3>1, <3>2 DEF ToSet
        <3> QED
            BY <2>3, <2>6, <3>3 DEF l
    <2> QED
        BY <1>1, <2>2, <2>3, <2>4, <2>5, <2>6
<1> QED
    BY <1>2, <1>3, <1>4

LEMMA ShutdownMistake ==
    ASSUME ShutdownInv, Mistake
    PROVE  ShutdownInv'
<1>1. /\ worker = "loop" /\ queue # <<>> /\ Head(queue).is = "stop"
      /\ Drain(queue)
      /\ UNCHANGED <<hand, phase, pool, offered, refused, evicted, timedOut>>
    BY DEF Mistake
<1>2. queue \in Seq(offered)
    BY DEF ShutdownInv
<1>3. CASE timedOut # {}
    <2>1. queue' \in Seq(offered')
        <3>1. PICK k \in 0..Len(queue) : queue' = SubSeq(queue, k + 1, Len(queue))
            BY <1>1 DEF Drain
        <3>2. Len(queue) \in Nat /\ k \in Nat /\ k <= Len(queue)
            BY <1>2
        <3> QED
            BY <1>1, <1>2, <3>1, <3>2, SubSeqProperties
    <2> QED
        BY <1>1, <1>3, <2>1 DEF ShutdownInv
<1>4. CASE timedOut = {}
    <2>1. NothingLost /\ InOrder
        BY <1>4 DEF ShutdownInv
    <2>2. phase # "stopped"
        BY <1>1, <2>1 DEF InOrder
    <2>3. /\ queue' \in Seq(offered') /\ NothingLost'
          /\ worker' \in {"ended", "raised"} /\ mistaken' # {}
        BY <1>1, <1>2, <2>1, <2>2, Drained
    <2>4. InOrder'
        BY <1>1, <2>1, <2>3 DEF InOrder, PoolDone
    <2> QED
        BY <2>3, <2>4 DEF ShutdownInv
<1> QED
    BY <1>3, <1>4

LEMMA ShutdownIngestion ==
    ASSUME ShutdownInv, IngestionStopped
    PROVE  ShutdownInv'
<1>1. /\ phase = "ingestion"
      /\ Drain(queue)
      /\ phase' = IF worker' = "raised" THEN "raised" ELSE Order[phase]
      /\ UNCHANGED <<hand, pool, offered, refused, evicted, timedOut>>
    BY DEF IngestionStopped
<1>2. queue \in Seq(offered)
    BY DEF ShutdownInv
<1>3. /\ queue' \in Seq(offered')
      /\ NothingLost => NothingLost'
      /\ worker' \in {"ended", "raised"}
      /\ worker' = "ended" => queue' = <<>>
      /\ mistaken \subseteq mistaken'
    BY <1>1, <1>2, Drained
<1>4. phase' \in {"exporter", "raised"} /\ (phase' = "exporter" => worker' = "ended")
    BY <1>1, <1>3 DEF Order
<1>5. InOrder => InOrder'
    BY <1>1, <1>3, <1>4 DEF InOrder, PoolDone
<1> QED
    BY <1>1, <1>3, <1>5 DEF ShutdownInv

(* Steps that leave the queue and its history alone.                       *)
Moves ==
    \/ Tick \/ Fetch \/ Shutdown \/ PoolStopped \/ PoolTimesOut \/ NothingToStop
    \/ IngestionTimesOut \/ CloseExporter

LEMMA ShutdownMove ==
    ASSUME ShutdownInv, Moves
    PROVE  ShutdownInv'
<1>1. UNCHANGED <<queue, offered, refused, mistaken, evicted, forwarded>>
    BY DEF Moves, Tick, Fetch, Shutdown, PoolStopped, PoolTimesOut, NothingToStop,
           IngestionTimesOut, CloseExporter
<1>2. timedOut \subseteq timedOut'
    BY DEF Moves, Tick, Fetch, Shutdown, PoolStopped, PoolTimesOut, NothingToStop,
           IngestionTimesOut, CloseExporter
<1>3. NothingLost => NothingLost'
    BY <1>1 DEF NothingLost, Settled, Whole
<1>4. timedOut' = {} /\ InOrder => InOrder'
    <2> SUFFICES ASSUME timedOut' = {}, InOrder PROVE InOrder'
        OBVIOUS
    <2>1. CASE Tick
        BY <1>1, <2>1 DEF Tick, InOrder, PoolDone
    <2>2. CASE Fetch
        BY <1>1, <2>2 DEF Fetch, InOrder, PoolDone
    <2>3. CASE Shutdown
        BY <1>1, <2>3 DEF Shutdown, InOrder, PoolDone, Order
    <2>4. CASE PoolStopped
        BY <1>1, <2>4 DEF PoolStopped, InOrder, PoolDone, BetweenTasks, Order
    <2>5. CASE PoolTimesOut
        BY <2>5 DEF PoolTimesOut
    <2>6. CASE IngestionTimesOut
        BY <2>6 DEF IngestionTimesOut
    <2>7. CASE CloseExporter
        BY <1>1, <2>7 DEF CloseExporter, InOrder, PoolDone, Order
    <2>8. CASE NothingToStop
        BY <1>1, <2>8 DEF NothingToStop, InOrder, PoolDone, Order
    <2> QED
        BY <2>1, <2>2, <2>3, <2>4, <2>5, <2>6, <2>7, <2>8 DEF Moves
<1>5. queue' \in Seq(offered')
    BY <1>1 DEF ShutdownInv
<1> QED
    BY <1>2, <1>3, <1>4, <1>5 DEF ShutdownInv

-----------------------------------------------------------------------------
(* Results *)

(* The inductive invariant of the rate limiter holds in every reachable    *)
(* state, whatever the queues and the shutdown do.                         *)
THEOREM LimiterInvariance == Spec => []LimiterInv
<1>1. ASSUME LimiterInv, [Next]_vars PROVE LimiterInv'
    <2>1. CASE UNCHANGED vars
        BY <1>1, <2>1, LimiterKept DEF vars, limiter
    <2>2. CASE Tick
        BY <1>1, <2>2, LimiterTick
    <2>3. ASSUME NEW a \in Clients, NEW s \in Services, NEW c \in Contents, Post(a, s, c)
          PROVE  LimiterInv'
        BY <1>1, <2>3, LimiterPost
    <2>4. CASE Ingest \/ Mistake \/ Fetch \/ Emit
        BY <1>1, <2>4, LimiterKept DEF Ingest, Mistake, Fetch, Emit, limiter
    <2>5. CASE Shutdown \/ PoolStopped \/ PoolTimesOut \/ CloseExporter
        BY <1>1, <2>5, LimiterKept DEF Shutdown, PoolStopped, PoolTimesOut, CloseExporter, limiter
    <2>6. CASE IngestionStopped \/ NothingToStop \/ IngestionTimesOut
        BY <1>1, <2>6, LimiterKept DEF IngestionStopped, NothingToStop, IngestionTimesOut, limiter
    <2> QED
        BY <1>1, <2>1, <2>2, <2>3, <2>4, <2>5, <2>6 DEF Next
<1> QED
    BY <1>1, LimiterInit, PTL DEF Spec

(* The inductive invariant of the shutdown holds in every reachable state. *)
THEOREM ShutdownInvariance == Spec => []ShutdownInv
<1>1. ASSUME ShutdownInv, [Next]_vars PROVE ShutdownInv'
    <2>1. CASE UNCHANGED vars
        BY <1>1, <2>1 DEF vars, limiter, ShutdownInv, NothingLost, Settled, Whole, InOrder, PoolDone
    <2>2. ASSUME NEW a \in Clients, NEW s \in Services, NEW c \in Contents, Post(a, s, c)
          PROVE  ShutdownInv'
        BY <1>1, <2>2, ShutdownPost
    <2>3. CASE Ingest \/ Mistake
        BY <1>1, <2>3, ShutdownIngest, ShutdownMistake
    <2>4. CASE Emit
        BY <1>1, <2>4, ShutdownEmit
    <2>5. CASE IngestionStopped
        BY <1>1, <2>5, ShutdownIngestion
    <2>6. CASE Moves
        BY <1>1, <2>6, ShutdownMove
    <2> QED
        BY <1>1, <2>1, <2>2, <2>3, <2>4, <2>5, <2>6 DEF Next, Moves
<1> QED
    BY <1>1, ShutdownInit, PTL DEF Spec

(* In no window does more than the limit of an address or a service get    *)
(* past the limiter, and nothing is refused that its window did not bring  *)
(* about (rate_limiter.py).                                                *)
THEOREM LimitsCorrect == Spec => []LimitsKept
<1>1. LimiterInv => LimitsKept
    BY DEF LimiterInv, LimitsKept
<1> QED
    BY <1>1, LimiterInvariance, PTL

(* A shutdown whose stops return in time has forwarded, refused or dropped *)
(* under pressure whatever the ingestion queue was given, unless a request *)
(* was taken for the sentinel (app.py, lifespan).                          *)
THEOREM ShutdownCorrect == Spec => []CleanShutdownLosesNothing
<1>1. ShutdownInv => CleanShutdownLosesNothing
    <2> SUFFICES ASSUME ShutdownInv, phase = "stopped", timedOut = {}
                 PROVE  /\ hand = <<>>
                        /\ {x \in offered : x.is # "broken"} \subseteq
                               Settled \union ToSet(queue)
                        /\ queue # <<>> => mistaken # {}
        BY DEF CleanShutdownLosesNothing, Settled
    <2> QED
        BY DEF ShutdownInv, InOrder, PoolDone, NothingLost, Whole
<1> QED
    BY <1>1, ShutdownInvariance, PTL

-----------------------------------------------------------------------------
(* The configuration: its inductive invariant.  It adds to the two checked *)
(* properties that what was acknowledged stands in the overrides file as a *)
(* number, where a load finds it before it looks anywhere else.            *)

(* The overrides file is a source, if it parses. *)
FileParses == file # Unparsable => IsSource(file)

Written ==
    \A s \in DOMAIN promised :
        /\ named /\ file # Unparsable
        /\ s \in Settings /\ s \in DOMAIN file
        /\ file[s] = promised[s] /\ file[s] # Junk

ConfigInv ==
    /\ ValidInForce
    /\ AcknowledgedSurvives
    /\ FileParses
    /\ Written

-----------------------------------------------------------------------------
(* Sources *)

LEMMA SourceHas ==
    ASSUME NEW c, IsSource(c)
    PROVE  DOMAIN c \subseteq Settings /\ c \in [DOMAIN c -> Int \union {Junk}]
BY DEF IsSource

LEMMA SourceIs ==
    ASSUME NEW D \in SUBSET Settings, NEW c \in [D -> Int \union {Junk}]
    PROVE  IsSource(c) /\ c # Unparsable
BY ServerConfigAssumption DEF IsSource, ServerConfigAssumption

LEMMA NothingHas == DOMAIN Nothing = {} /\ IsSource(Nothing) /\ Nothing # Unparsable
<1>1. DOMAIN Nothing = {} /\ Nothing \in [{} -> Int \union {Junk}]
  BY DEF Nothing
<1> QED BY <1>1, SourceIs

(* The new file has the settings of the body and of the old one, and where *)
(* both have one, that of the body.                                        *)
LEMMA MergedIs ==
    ASSUME IsSource(file), NEW body \in Bodies
    PROVE  /\ IsSource(Merged(body)) /\ Merged(body) # Unparsable
           /\ DOMAIN Merged(body) = DOMAIN body \union DOMAIN file
           /\ \A s \in DOMAIN body : Merged(body)[s] = body[s]
           /\ \A s \in DOMAIN file \ DOMAIN body : Merged(body)[s] = file[s]
<1>1. /\ DOMAIN file \subseteq Settings /\ file \in [DOMAIN file -> Int \union {Junk}]
      /\ DOMAIN body \subseteq Settings /\ body \in [DOMAIN body -> Int \union {Junk}]
  BY SourceHas, ServerConfigAssumption DEF ServerConfigAssumption
<1>2. Merged(body) = [s \in DOMAIN body \union DOMAIN file |->
                         IF s \in DOMAIN body THEN body[s] ELSE file[s]]
  BY DEF Merged, Over
<1>3. Merged(body) \in [DOMAIN body \union DOMAIN file -> Int \union {Junk}]
  BY <1>1, <1>2
<1>4. IsSource(Merged(body)) /\ Merged(body) # Unparsable
  BY <1>1, <1>3, SourceIs
<1> QED BY <1>2, <1>4

-----------------------------------------------------------------------------
(* A load takes a number from the overrides file if it is there. *)
LEMMA LoadsOverride ==
    ASSUME NEW f, named, f # Unparsable, NEW s \in Settings, s \in DOMAIN f, f[s] # Junk
    PROVE  Load(f)[s] = f[s]
<1>1. Overrides(f) = f
  BY DEF Overrides
<1>2. GetFloat(s, f) = f[s] /\ GetInt(s, f) = f[s]
  BY <1>1 DEF GetFloat, GetInt, HasNumber
<1> QED BY <1>2 DEF Load

(* With the sources other than the file as they were, a load after a step  *)
(* is a load of the new file.                                              *)
LEMMA LoadAfter ==
    ASSUME UNCHANGED <<named, env, base>>
    PROVE  Load(file)' = Load(file')
BY DEF Load, GetFloat, GetInt, HasNumber, Overrides

-----------------------------------------------------------------------------

LEMMA ConfigInitInv == ConfigInit => ConfigInv
<1> SUFFICES ASSUME ConfigInit PROVE ConfigInv
  OBVIOUS
<1>1. file = Nothing /\ live = Nothing /\ promised = Nothing /\ touched = TRUE
  BY DEF ConfigInit
<1>2. DOMAIN promised = {}
  BY <1>1, NothingHas
<1> QED BY <1>1, <1>2, NothingHas
        DEF ConfigInv, ValidInForce, AcknowledgedSurvives, FileParses, Written, Up

(* A load that succeeds, of a file in which all promises stand, brings     *)
(* them into force.                                                        *)
LEMMA LoadInForce ==
    ASSUME UNCHANGED <<named, env, base>>,
           FileParses', Written', Valid(Load(file')), live' = Load(file'), touched' = FALSE
    PROVE  ConfigInv'
<1>1. Load(file)' = Load(file')
  BY LoadAfter
<1>2. ValidInForce'
  BY <1>1 DEF ValidInForce, Valid
<1>3. AcknowledgedSurvives'
  <2>1. \A s \in DOMAIN promised' : Load(file')[s] = promised'[s]
    BY LoadsOverride DEF Written
  <2> QED BY <2>1 DEF AcknowledgedSurvives
<1> QED BY <1>2, <1>3 DEF ConfigInv

LEMMA UpdateConfigInv == ASSUME ConfigInv, NEW body \in Bodies, UpdateConfig(body) PROVE ConfigInv'
<1>1. /\ Up /\ file # Unparsable /\ file' = Merged(body) /\ UNCHANGED <<named, env, base>>
  BY DEF UpdateConfig
<1>2. /\ IsSource(file') /\ file' # Unparsable
      /\ DOMAIN file' = DOMAIN body \union DOMAIN file
      /\ \A s \in DOMAIN body : file'[s] = body[s]
      /\ \A s \in DOMAIN file \ DOMAIN body : file'[s] = file[s]
  BY <1>1, MergedIs DEF ConfigInv, FileParses
<1>3. DOMAIN body \subseteq Settings
  BY SourceHas, ServerConfigAssumption DEF ServerConfigAssumption
<1>4. FileParses'
  BY <1>2 DEF FileParses
<1> DEFINE old == Without(promised, body)
           new == Promises(body)
<1>5. /\ DOMAIN old = DOMAIN promised \ DOMAIN body
      /\ \A s \in DOMAIN old : old[s] = promised[s]
  BY DEF Without
<1>6. /\ DOMAIN new \subseteq DOMAIN body
      /\ \A s \in DOMAIN new : new[s] = body[s] /\ named /\ body[s] # Junk
  BY DEF Promises
<1>7. \A s \in DOMAIN old : /\ named /\ s \in Settings /\ s \in DOMAIN file'
                           /\ file'[s] = old[s] /\ file'[s] # Junk
  BY <1>2, <1>5 DEF ConfigInv, Written
<1>8. \A s \in DOMAIN new : /\ named /\ s \in Settings /\ s \in DOMAIN file'
                           /\ file'[s] = new[s] /\ file'[s] # Junk
  BY <1>2, <1>3, <1>6
<1> HIDE DEF old, new
<1>9. CASE /\ Valid(Load(file')) /\ live' = Load(file')
           /\ promised' = Over(new, old) /\ touched' = FALSE
  <2>1. /\ DOMAIN promised' = DOMAIN new \union DOMAIN old
        /\ \A s \in DOMAIN new : promised'[s] = new[s]
        /\ \A s \in DOMAIN old \ DOMAIN new : promised'[s] = old[s]
    BY <1>9 DEF Over
  <2>2. Written'
    BY <1>1, <1>2, <1>7, <1>8, <2>1 DEF Written
  <2> QED BY <1>1, <1>4, <1>9, <2>2, LoadInForce
<1>10. CASE promised' = old /\ touched' = TRUE /\ UNCHANGED live
  <2>1. Written'
    BY <1>1, <1>2, <1>7, <1>10 DEF Written
  <2>2. AcknowledgedSurvives'
    BY <1>5, <1>10 DEF ConfigInv, AcknowledgedSurvives, Up
  <2>3. ValidInForce'
    BY <1>10 DEF ConfigInv, ValidInForce, Up, Valid
  <2> QED BY <1>4, <2>1, <2>2, <2>3 DEF ConfigInv
<1> QED BY <1>9, <1>10 DEF UpdateConfig, Publish, old, new

(* What is left of a file after a torn write. *)
LEMMA PrefixIs ==
    ASSUME NEW c, IsSource(c), NEW S
    PROVE  IsSource([s \in DOMAIN c \intersect S |-> c[s]])
<1>1. DOMAIN c \subseteq Settings /\ c \in [DOMAIN c -> Int \union {Junk}]
  BY SourceHas
<1>2. [s \in DOMAIN c \intersect S |-> c[s]] \in [DOMAIN c \intersect S -> Int \union {Junk}]
  BY <1>1
<1> QED BY <1>1, <1>2, SourceIs

LEMMA UpdateTornInv == ASSUME ConfigInv, NEW body \in Bodies, UpdateTorn(body) PROVE ConfigInv'
<1>1. /\ file # Unparsable /\ live' \in {live, Nothing} /\ promised' = Nothing
      /\ touched' = TRUE /\ UNCHANGED <<named, env, base>>
  BY DEF UpdateTorn
<1>2. DOMAIN promised' = {}
  BY <1>1, NothingHas
<1>3. FileParses'
  <2>1. CASE file' = Unparsable
    BY <2>1 DEF FileParses
  <2>2. ASSUME NEW k \in 0..Len(Sorted) - 1,
               file' = [s \in DOMAIN Merged(body) \intersect ToSet(SubSeq(Sorted, 1, k)) |->
                           Merged(body)[s]]
        PROVE  FileParses'
    <3>1. IsSource(Merged(body))
      BY <1>1, MergedIs DEF ConfigInv, FileParses
    <3> QED BY <2>2, <3>1, PrefixIs DEF FileParses
  <2> QED BY <2>1, <2>2 DEF UpdateTorn
<1>4. ValidInForce'
  BY <1>1 DEF ConfigInv, ValidInForce, Up, Valid
<1> QED BY <1>2, <1>3, <1>4 DEF ConfigInv, AcknowledgedSurvives, Written

LEMMA ConfigNextInv == ConfigInv /\ [ConfigNext]_configVars => ConfigInv'
<1> SUFFICES ASSUME ConfigInv, [ConfigNext]_configVars PROVE ConfigInv'
  OBVIOUS
<1>1. ASSUME NEW body \in Bodies, UpdateConfig(body) \/ UpdateTorn(body) PROVE ConfigInv'
  BY <1>1, UpdateConfigInv, UpdateTornInv
<1>2. CASE ReloadConfig \/ Start
  <2>1. /\ UNCHANGED <<named, env, base, file, promised>>
        /\ Valid(Load(file)) /\ live' = Load(file) /\ touched' = FALSE
    BY <1>2 DEF ReloadConfig, Start, Publish
  <2>2. FileParses' /\ Written'
    BY <2>1 DEF ConfigInv, FileParses, Written
  <2> QED BY <2>1, <2>2, LoadInForce
<1>3. CASE Exit \/ UNCHANGED configVars
  <2>1. /\ UNCHANGED <<named, env, base, file, promised, touched>>
        /\ live' = Nothing \/ live' = live
    BY <1>3 DEF Exit, configVars
  <2>2. FileParses' /\ Written' /\ AcknowledgedSurvives'
    BY <2>1 DEF ConfigInv, FileParses, Written, AcknowledgedSurvives, Up
  <2>3. Load(file)' = Load(file)
    BY <2>1, LoadAfter
  <2>4. ValidInForce'
    BY <2>1, <2>3 DEF ConfigInv, ValidInForce, Valid, Up
  <2> QED BY <2>2, <2>4 DEF ConfigInv
<1>4. CASE EditBase
  <2>1. UNCHANGED <<named, file, live, promised>> /\ touched' = TRUE
    BY <1>4 DEF EditBase
  <2> QED BY <2>1 DEF ConfigInv, FileParses, Written, AcknowledgedSurvives, ValidInForce, Valid, Up
<1> QED BY <1>1, <1>2, <1>3, <1>4 DEF ConfigNext

(* The invariant holds in every reachable state. *)
THEOREM ConfigInvariance == ConfigSpec => []ConfigInv
BY ConfigInitInv, ConfigNextInv, PTL DEF ConfigSpec

(* The configuration in force is valid whatever was written, torn or       *)
(* refused, and is what the sources say unless one of them changed.        *)
THEOREM ForceCorrect == ConfigSpec => []ValidInForce
<1>1. ConfigInv => ValidInForce
  BY DEF ConfigInv
<1> QED BY <1>1, ConfigInvariance, PTL

(* An acknowledged override stays in force until it is written again or a  *)
(* write is torn.                                                          *)
THEOREM AcknowledgedCorrect == ConfigSpec => []AcknowledgedSurvives
<1>1. ConfigInv => AcknowledgedSurvives
  BY DEF ConfigInv
<1> QED BY <1>1, ConfigInvariance, PTL
=============================================================================
