---------------------------- MODULE SpanContextProofs ----------------------------
(***************************************************************************)
(* What is proved of SpanContext: for any number of contexts and spans, in *)
(* every interleaving of calls, generators, tasks and threads, a span that *)
(* ends is queued once, the current span is the last open one as long as   *)
(* spans end in order, and a span has the agent of the call it is made in. *)
(***************************************************************************)
EXTENDS SpanContext, FiniteSetTheorems, NaturalsInduction, WellFoundedInduction, TLAPS

-----------------------------------------------------------------------------
(* The inductive invariant *)

(* The span k is in the stack of c, or in any; no span is in two places.   *)
Frame(st, c, k) == \E i \in 1..Len(st[c]) : st[c][i] = k
On(st, k) == \E c \in Contexts : Frame(st, c, k)
Single(st) ==
    \A c, d \in Contexts : \A i \in 1..Len(st[c]), j \in 1..Len(st[d]) :
        st[c][i] = st[d][j] => c = d /\ i = j

(* What does not exist yet has not done anything. *)
Unborn ==
    /\ \A k \in Spans : k > made => gen[k] = "none" /\ queued[k] = 0
    /\ \A k \in Made : kind[k] \in Kinds /\ home[k] \in alive
    /\ \A d \in Contexts \ alive :
          /\ stack[d] = <<>>
          /\ cur[d] = inherited[d].span
          /\ agent[d] = inherited[d].agent

(* A generator is in a stack when it runs and only then, and only streams  *)
(* and wrapped calls have one; a call stays in the context it began in.    *)
Generators ==
    \A k \in Made :
        /\ gen[k] = "running" => On(stack, k)
        /\ gen[k] \in {"fresh", "suspended", "done"} => ~On(stack, k)
        /\ gen[k] = "fresh" => kind[k] = "wrapped"
        /\ gen[k] # "none" => kind[k] \in {"stream", "wrapped"}
        /\ kind[k] = "stream" => gen[k] # "none"
        /\ gen[k] = "none" => \A c \in Contexts : Frame(stack, c, k) => home[k] = c

(* QueuedOnce, in terms of the stacks. *)
Over(k) == ~On(stack, k) /\ gen[k] \notin {"fresh", "suspended"}
Accounted ==
    \A k \in Made :
        /\ queued[k] = IF Over(k) /\ k \notin lost THEN 1 ELSE 0
        /\ k \in lost => Over(k) /\ kind[k] \in {"stream", "wrapped"} \union Fragile

(* An open span of a context that is not tangled has the open span before  *)
(* it as its parent, to which the current span falls back.                 *)
Nearest(S, base) == IF S = {} THEN base ELSE Newest(S)
Below(S, k) == {j \in S : j < k}
Chain ==
    \A c \in alive \ tangled : \A k \in Open(c) :
        parent[k] = Nearest(Below(Open(c), k), inherited[c].span)

(* The agent of the first n calls of a stack; each @agent call keeps that  *)
(* of the calls below it.                                                  *)
Agents(st, kd, n) == {i \in 1..n : kd[st[i]] = "agent"}
Scope(st, kd, base, n) ==
    IF Agents(st, kd, n) = {} THEN base ELSE st[Newest(Agents(st, kd, n))]
Scoped ==
    \A c \in Contexts :
        /\ agent[c] = Scope(stack[c], kind, inherited[c].agent, Len(stack[c]))
        /\ \A i \in 1..Len(stack[c]) : kind[stack[c][i]] = "agent" =>
              outer[stack[c][i]] = Scope(stack[c], kind, inherited[c].agent, i - 1)

Inv ==
    /\ TypeOK
    /\ Unborn
    /\ Single(stack)
    /\ Generators
    /\ Accounted
    /\ NearestOpen
    /\ Chain
    /\ Scoped

-----------------------------------------------------------------------------
(* The last of some numbers *)

LEMMA NewestIs ==
    ASSUME NEW n \in Nat, NEW S \in SUBSET (1..n), S # {}
    PROVE  Newest(S) \in S /\ \A j \in S : j <= Newest(S)
<1> DEFINE R == OpToRel(<, Nat)
           T == {n - i : i \in S}
<1>1. T \in SUBSET Nat /\ T # {}
    <2>1. \A i \in S : n - i \in Nat
        OBVIOUS
    <2>2. \E i \in S : n - i \in T
        OBVIOUS
    <2> QED
        BY <2>1, <2>2
<1>2. PICK m \in T : \A l \in T : ~(<<l, m>> \in R)
    <2>1. IsWellFoundedOn(R, Nat)
        BY NatLessThanWellFounded
    <2> HIDE DEF R, T
    <2> QED
        BY <1>1, <2>1, WFMin
<1>3. PICK i \in S : m = n - i
    OBVIOUS
<1>4. ASSUME NEW j \in S PROVE j <= i
    <2>1. n - j \in T /\ n - j \in Nat /\ m \in Nat
        BY <1>1
    <2>2. n - j < m => <<n - j, m>> \in R
        BY <2>1 DEF OpToRel
    <2> HIDE DEF R, T
    <2>3. ~(n - j < m)
        BY <1>2, <2>1, <2>2
    <2> QED
        BY <1>3, <2>3
<1> QED
    BY <1>4 DEF Newest

LEMMA NewestUnique ==
    ASSUME NEW S \in SUBSET Nat, NEW k \in S, \A j \in S : j <= k
    PROVE  Newest(S) = k
<1>1. \A l \in S : (\A j \in S : j <= l) => l = k
    OBVIOUS
<1> QED
    BY <1>1 DEF Newest

-----------------------------------------------------------------------------
(* The open spans of one context, and where the current span falls back to *)

Linked(O, p, now, base) ==
    /\ now = Nearest(O, base)
    /\ \A k \in O : p[k] = Nearest(Below(O, k), base)

LEMMA LinkedMeans ==
    /\ NearestOpen /\ Chain <=>
          \A c \in alive \ tangled : Linked(Open(c), parent, cur[c], inherited[c].span)
    /\ (NearestOpen /\ Chain)' <=>
          \A c \in alive' \ tangled' :
              Linked(Open(c)', parent', cur'[c], inherited'[c].span)
BY DEF NearestOpen, Chain, Linked, Nearest

(* A span that begins has the current one as its parent ... *)
LEMMA Opened ==
    ASSUME NEW O \in SUBSET Nat, NEW p, NEW q, NEW now, NEW base, NEW k \in Nat,
           Linked(O, p, now, base),
           \A j \in O : j < k /\ q[j] = p[j],
           q[k] = now
    PROVE  Linked(O \union {k}, q, k, base)
<1> DEFINE N == O \union {k}
<1>1. k = Nearest(N, base)
    <2>1. Newest(N) = k
        BY NewestUnique
    <2> QED
        BY <2>1 DEF Nearest
<1>2. ASSUME NEW j \in N PROVE q[j] = Nearest(Below(N, j), base)
    <2>1. CASE j = k
        <3>1. Below(N, j) = O
            BY <2>1 DEF Below
        <3> QED
            BY <2>1, <3>1 DEF Linked
    <2>2. CASE j # k
        <3>1. j \in O /\ Below(N, j) = Below(O, j)
            <4>1. j \in O /\ j \in Nat /\ j < k
                BY <2>2
            <4>2. \A l \in N : l < j => l \in O
                BY <4>1
            <4> QED
                BY <4>1, <4>2 DEF Below
        <3> QED
            BY <3>1 DEF Linked
    <2> QED
        BY <2>1, <2>2
<1> QED
    BY <1>1, <1>2 DEF Linked

(* ... and when it ends that is current again, with those before it.       *)
LEMMA Closed ==
    ASSUME NEW O \in SUBSET Nat, NEW p, NEW now, NEW base, NEW k \in O,
           Linked(O, p, now, base)
    PROVE  Linked(Below(O, k), p, p[k], base)
<1>1. ASSUME NEW j \in Below(O, k) PROVE Below(Below(O, k), j) = Below(O, j)
    <2>1. j \in Nat /\ k \in Nat /\ j < k
        BY DEF Below
    <2>2. \A l \in O : l < j => l < k
        BY <2>1
    <2> QED
        BY <2>2 DEF Below
<1>2. Below(O, k) \subseteq O
    BY DEF Below
<1> QED
    BY <1>1, <1>2 DEF Linked

-----------------------------------------------------------------------------
(* The agents of one stack *)

ScopedIn(st, kd, ou, now, base) ==
    /\ now = Scope(st, kd, base, Len(st))
    /\ \A i \in 1..Len(st) : kd[st[i]] = "agent" => ou[st[i]] = Scope(st, kd, base, i - 1)

LEMMA ScopedMeans ==
    /\ Scoped <=> \A c \in Contexts :
                      ScopedIn(stack[c], kind, outer, agent[c], inherited[c].agent)
    /\ Scoped' <=> \A c \in Contexts :
                      ScopedIn(stack'[c], kind', outer', agent'[c], inherited'[c].agent)
BY DEF Scoped, ScopedIn

(* Only the first n calls count. *)
LEMMA ScopeSame ==
    ASSUME NEW st, NEW su, NEW kd, NEW ke, NEW base, NEW n \in Nat,
           \A i \in 1..n : su[i] = st[i] /\ ke[st[i]] = kd[st[i]]
    PROVE  Scope(su, ke, base, n) = Scope(st, kd, base, n)
<1>1. Agents(su, ke, n) = Agents(st, kd, n)
    BY DEF Agents
<1>2. Agents(st, kd, n) # {} => Newest(Agents(st, kd, n)) \in 1..n
    <2> SUFFICES ASSUME Agents(st, kd, n) # {}
                 PROVE  Newest(Agents(st, kd, n)) \in 1..n
        OBVIOUS
    <2>1. Agents(st, kd, n) \in SUBSET (1..n)
        BY DEF Agents
    <2>2. Newest(Agents(st, kd, n)) \in Agents(st, kd, n)
        BY <2>1, NewestIs
    <2> QED
        BY <2>1, <2>2
<1> QED
    BY <1>1, <1>2 DEF Scope

LEMMA ScopeStep ==
    ASSUME NEW st, NEW kd, NEW base, NEW n \in Nat
    PROVE  Scope(st, kd, base, n + 1) =
               IF kd[st[n + 1]] = "agent" THEN st[n + 1] ELSE Scope(st, kd, base, n)
<1>1. CASE kd[st[n + 1]] = "agent"
    <2>1. /\ Agents(st, kd, n + 1) \in SUBSET Nat
          /\ n + 1 \in Agents(st, kd, n + 1)
          /\ \A j \in Agents(st, kd, n + 1) : j <= n + 1
        BY <1>1 DEF Agents
    <2>2. Newest(Agents(st, kd, n + 1)) = n + 1
        BY <2>1, NewestUnique
    <2> QED
        BY <1>1, <2>1, <2>2 DEF Scope
<1>2. CASE kd[st[n + 1]] # "agent"
    <2>1. \A i \in 1..n + 1 : i # n + 1 => i \in 1..n
        OBVIOUS
    <2>2. 1..n \subseteq 1..n + 1
        OBVIOUS
    <2>3. Agents(st, kd, n + 1) = Agents(st, kd, n)
        BY <1>2, <2>1, <2>2 DEF Agents
    <2> QED
        BY <1>2, <2>3 DEF Scope
<1> QED
    BY <1>1, <1>2

(* Nothing changes for a stack when other spans get a kind. *)
LEMMA ScopeKept ==
    ASSUME NEW S, NEW st \in Seq(S), NEW kd, NEW ke, NEW ou, NEW ov, NEW now, NEW base,
           ScopedIn(st, kd, ou, now, base),
           \A k \in S : ke[k] = kd[k] /\ ov[k] = ou[k]
    PROVE  ScopedIn(st, ke, ov, now, base)
<1>1. Len(st) \in Nat /\ \A i \in 1..Len(st) : st[i] \in S
    OBVIOUS
<1>2. \A n \in 0..Len(st) : Scope(st, ke, base, n) = Scope(st, kd, base, n)
    <2> SUFFICES ASSUME NEW n \in 0..Len(st)
                 PROVE  Scope(st, ke, base, n) = Scope(st, kd, base, n)
        OBVIOUS
    <2>1. n \in Nat /\ \A i \in 1..n : st[i] = st[i] /\ ke[st[i]] = kd[st[i]]
        BY <1>1
    <2> QED
        BY <2>1, ScopeSame
<1>3. Len(st) \in 0..Len(st) /\ \A i \in 1..Len(st) : i - 1 \in 0..Len(st)
    BY <1>1
<1> QED
    BY <1>1, <1>2, <1>3 DEF ScopedIn

(* A call begins: an @agent call becomes the agent and keeps the former.   *)
LEMMA ScopePush ==
    ASSUME NEW st, NEW su, NEW kd, NEW ou, NEW now, NEW new, NEW base, NEW n \in Nat,
           Len(st) = n, Len(su) = n + 1, \A i \in 1..n : su[i] = st[i],
           ScopedIn(st, kd, ou, now, base),
           IF kd[su[n + 1]] = "agent" THEN new = su[n + 1] /\ ou[su[n + 1]] = now
                                      ELSE new = now
    PROVE  ScopedIn(su, kd, ou, new, base)
<1>1. \A m \in 0..n : Scope(su, kd, base, m) = Scope(st, kd, base, m)
    <2> SUFFICES ASSUME NEW m \in 0..n
                 PROVE  Scope(su, kd, base, m) = Scope(st, kd, base, m)
        OBVIOUS
    <2>1. m \in Nat /\ \A i \in 1..m : su[i] = st[i] /\ kd[st[i]] = kd[st[i]]
        OBVIOUS
    <2> QED
        BY <2>1, ScopeSame
<1>2. Scope(su, kd, base, n) = now
    BY <1>1 DEF ScopedIn
<1>3. new = Scope(su, kd, base, n + 1)
    BY <1>2, ScopeStep
<1>4. ASSUME NEW i \in 1..n + 1, kd[su[i]] = "agent"
      PROVE  ou[su[i]] = Scope(su, kd, base, i - 1)
    <2>1. CASE i = n + 1
        <3>1. i - 1 = n
            BY <2>1
        <3> QED
            BY <1>2, <1>4, <2>1, <3>1
    <2>2. CASE i # n + 1
        <3>1. i \in 1..n /\ i - 1 \in 0..n
            BY <2>2
        <3> QED
            BY <1>1, <1>4, <3>1 DEF ScopedIn
    <2> QED
        BY <2>1, <2>2
<1> QED
    BY <1>3, <1>4 DEF ScopedIn

(* The last one ends: what an @agent call kept is the agent again.         *)
LEMMA ScopePop ==
    ASSUME NEW st, NEW su, NEW kd, NEW ou, NEW now, NEW new, NEW base, NEW n \in Nat,
           Len(su) = n, Len(st) = n + 1, \A i \in 1..n : su[i] = st[i],
           ScopedIn(st, kd, ou, now, base),
           new = IF kd[st[n + 1]] = "agent" THEN ou[st[n + 1]] ELSE now
    PROVE  ScopedIn(su, kd, ou, new, base)
<1>1. \A m \in 0..n : Scope(su, kd, base, m) = Scope(st, kd, base, m)
    <2> SUFFICES ASSUME NEW m \in 0..n
                 PROVE  Scope(su, kd, base, m) = Scope(st, kd, base, m)
        OBVIOUS
    <2>1. m \in Nat /\ \A i \in 1..m : su[i] = st[i] /\ kd[st[i]] = kd[st[i]]
        OBVIOUS
    <2> QED
        BY <2>1, ScopeSame
<1>2. n + 1 \in 1..Len(st) /\ (n + 1) - 1 = n
    OBVIOUS
<1>3. new = Scope(st, kd, base, n)
    BY <1>2, ScopeStep DEF ScopedIn
<1>4. \A i \in 1..n : i \in 1..n + 1 /\ i - 1 \in 0..n
    OBVIOUS
<1> QED
    BY <1>1, <1>3, <1>4 DEF ScopedIn

-----------------------------------------------------------------------------
(* Stacks *)

PushedOn(st, su, c, k) ==
    /\ Len(su[c]) = Len(st[c]) + 1
    /\ su[c][Len(st[c]) + 1] = k
    /\ \A i \in 1..Len(st[c]) : su[c][i] = st[c][i]
    /\ \A d \in Contexts : d # c => su[d] = st[d]
PoppedOff(st, su, c) ==
    /\ Len(st[c]) = Len(su[c]) + 1
    /\ \A i \in 1..Len(su[c]) : su[c][i] = st[c][i]
    /\ \A d \in Contexts : d # c => su[d] = st[d]
Stacks(st) == \A d \in Contexts : Len(st[d]) \in Nat

LEMMA PushFrames ==
    ASSUME NEW st, NEW su, NEW c \in Contexts, NEW k, Stacks(st), PushedOn(st, su, c, k)
    PROVE  /\ \A d \in Contexts : \A j : Frame(su, d, j) <=> Frame(st, d, j) \/ (d = c /\ j = k)
           /\ \A j : On(su, j) <=> On(st, j) \/ j = k
           /\ Single(st) /\ ~On(st, k) => Single(su)
<1> DEFINE n == Len(st[c])
<1>0. /\ n \in Nat /\ Len(su[c]) = n + 1 /\ su[c][n + 1] = k
      /\ \A i \in 1..n : su[c][i] = st[c][i]
      /\ \A d \in Contexts : d # c => su[d] = st[d]
    BY DEF Stacks, PushedOn
<1> HIDE DEF n
<1>1. 1..n + 1 = 1..n \union {n + 1}
    BY <1>0
<1>2. ASSUME NEW d \in Contexts, NEW j
      PROVE  Frame(su, d, j) <=> Frame(st, d, j) \/ (d = c /\ j = k)
    <2>1. CASE d = c
        BY <1>0, <1>1, <2>1 DEF Frame, n
    <2>2. CASE d # c
        BY <1>0, <2>2 DEF Frame
    <2> QED
        BY <2>1, <2>2
<1>3. \A j : On(su, j) <=> On(st, j) \/ j = k
    BY <1>2 DEF On
<1>4. ASSUME Single(st), ~On(st, k) PROVE Single(su)
    <2> SUFFICES ASSUME NEW d \in Contexts, NEW e \in Contexts,
                        NEW i \in 1..Len(su[d]), NEW j \in 1..Len(su[e]),
                        su[d][i] = su[e][j]
                 PROVE  d = e /\ i = j
        BY DEF Single
    <2>0. ASSUME NEW f \in Contexts, NEW l \in 1..Len(su[f])
          PROVE  \/ l \in 1..Len(st[f]) /\ su[f][l] = st[f][l]
                 \/ f = c /\ l = n + 1 /\ su[f][l] = k
        <3>1. CASE f = c
            BY <1>0, <1>1, <3>1 DEF n
        <3>2. CASE f # c
            BY <1>0, <3>2
        <3> QED
            BY <3>1, <3>2
    <2>1. /\ \/ i \in 1..Len(st[d]) /\ su[d][i] = st[d][i]
             \/ d = c /\ i = n + 1 /\ su[d][i] = k
          /\ \/ j \in 1..Len(st[e]) /\ su[e][j] = st[e][j]
             \/ e = c /\ j = n + 1 /\ su[e][j] = k
        BY <2>0
    <2>2. /\ i \in 1..Len(st[d]) => st[d][i] # k
          /\ j \in 1..Len(st[e]) => st[e][j] # k
        BY <1>4 DEF On, Frame
    <2> QED
        BY <1>4, <2>1, <2>2 DEF Single
<1> QED
    BY <1>2, <1>3, <1>4

LEMMA PopFrames ==
    ASSUME NEW st, NEW su, NEW c \in Contexts, Stacks(su), PoppedOff(st, su, c), Single(st),
           NEW k, k = st[c][Len(st[c])]
    PROVE  /\ Frame(st, c, k)
           /\ \A d \in Contexts : \A j : Frame(su, d, j) <=> Frame(st, d, j) /\ j # k
           /\ \A j : On(su, j) <=> On(st, j) /\ j # k
           /\ Single(su)
<1> DEFINE n == Len(su[c])
<1>0. /\ n \in Nat /\ Len(st[c]) = n + 1 /\ st[c][n + 1] = k
      /\ \A i \in 1..n : su[c][i] = st[c][i]
      /\ \A d \in Contexts : d # c => su[d] = st[d]
    BY DEF Stacks, PoppedOff
<1>1. n + 1 \in 1..Len(st[c]) /\ 1..n \subseteq 1..Len(st[c]) /\ n + 1 \notin 1..n
    BY <1>0
<1>2. 1..Len(st[c]) = 1..n \union {n + 1}
    BY <1>0
<1> HIDE DEF n
<1>3. \A d \in Contexts : \A i \in 1..Len(st[d]) : st[d][i] = k => d = c /\ i = n + 1
    BY <1>0, <1>1 DEF Single
<1>4. ASSUME NEW d \in Contexts, NEW j
      PROVE  Frame(su, d, j) <=> Frame(st, d, j) /\ j # k
    <2>1. CASE d = c
        BY <1>0, <1>1, <1>2, <1>3, <2>1 DEF Frame, n
    <2>2. CASE d # c
        BY <1>0, <1>3, <2>2 DEF Frame
    <2> QED
        BY <2>1, <2>2
<1>5. \A j : On(su, j) <=> On(st, j) /\ j # k
    BY <1>4 DEF On
<1>6. Frame(st, c, k)
    BY <1>0, <1>1 DEF Frame
<1>7. Single(su)
    <2>1. ASSUME NEW d \in Contexts, NEW i \in 1..Len(su[d])
          PROVE  i \in 1..Len(st[d]) /\ su[d][i] = st[d][i]
        <3>1. CASE d = c
            BY <1>0, <1>1, <3>1 DEF n
        <3>2. CASE d # c
            BY <1>0, <3>2
        <3> QED
            BY <3>1, <3>2
    <2> QED
        BY <2>1 DEF Single
<1> QED
    BY <1>4, <1>5, <1>6, <1>7

-----------------------------------------------------------------------------
(* Types *)

Generations == {"none", "fresh", "running", "suspended", "done"}
Labels == [agent : 0..made, model : 0..made]
Inheritances == [span : 0..made, agent : 0..made, model : 0..made]

LEMMA Types ==
    ASSUME TypeOK
    PROVE  /\ alive \subseteq Contexts
           /\ made \in Nat /\ made \in 0..MaxSpans /\ MaxSpans \in Nat
           /\ Made \subseteq Spans /\ Made \subseteq Nat
           /\ inherited \in [Contexts -> Inheritances]
           /\ cur \in [Contexts -> 0..made]
           /\ agent \in [Contexts -> 0..made]
           /\ model \in [Contexts -> 0..made]
           /\ stack \in [Contexts -> Seq(Made)]
           /\ kind \in [Spans -> Kinds \union {"none"}]
           /\ home \in [Spans -> Contexts]
           /\ parent \in [Spans -> 0..made]
           /\ outer \in [Spans -> 0..made]
           /\ label \in [Spans -> Labels]
           /\ gen \in [Spans -> Generations]
           /\ queued \in [Spans -> Nat]
           /\ lost \subseteq Made /\ stranded \subseteq lost
           /\ tangled \subseteq alive
           /\ Stacks(stack)
<1>1. MaxSpans \in Nat /\ made \in 0..MaxSpans
    BY SpanContextAssumption DEF TypeOK
<1>2. /\ cur \in [Contexts -> 0..made]
      /\ agent \in [Contexts -> 0..made]
      /\ model \in [Contexts -> 0..made]
      /\ parent \in [Spans -> 0..made]
      /\ outer \in [Spans -> 0..made]
    BY DEF TypeOK
<1>3. Made \subseteq Spans /\ Made \subseteq Nat
    BY <1>1 DEF Made, Spans
<1>4. stack \in [Contexts -> Seq(Made)]
    BY DEF TypeOK
<1>5. Stacks(stack)
    BY <1>4 DEF Stacks
<1>6. lost \subseteq Made /\ stranded \subseteq lost /\ tangled \subseteq alive
    BY DEF TypeOK
<1>7. /\ alive \subseteq Contexts
      /\ inherited \in [Contexts -> Inheritances]
      /\ label \in [Spans -> Labels]
    BY DEF TypeOK, Labels, Inheritances
<1>8. /\ kind \in [Spans -> Kinds \union {"none"}]
      /\ home \in [Spans -> Contexts]
      /\ gen \in [Spans -> Generations]
      /\ queued \in [Spans -> Nat]
    BY DEF TypeOK, Generations
<1> QED
    BY <1>1, <1>2, <1>3, <1>4, <1>5, <1>6, <1>7, <1>8

LEMMA TypesKept ==
    ASSUME alive' \subseteq Contexts,
           made' \in 0..MaxSpans,
           inherited' \in [Contexts -> Inheritances'],
           cur' \in [Contexts -> 0..made'],
           agent' \in [Contexts -> 0..made'],
           model' \in [Contexts -> 0..made'],
           stack' \in [Contexts -> Seq(Made')],
           kind' \in [Spans -> Kinds \union {"none"}],
           home' \in [Spans -> Contexts],
           parent' \in [Spans -> 0..made'],
           outer' \in [Spans -> 0..made'],
           label' \in [Spans -> Labels'],
           gen' \in [Spans -> Generations],
           queued' \in [Spans -> Nat],
           lost' \subseteq Made', stranded' \subseteq lost',
           tangled' \subseteq alive'
    PROVE  TypeOK'
BY DEF TypeOK, Labels, Inheritances, Generations

(* A stack of these spans is one of more spans. *)
LEMMA SeqMono ==
    ASSUME NEW S, NEW T, S \subseteq T, NEW s \in Seq(S)
    PROVE  s \in Seq(T)
<1>1. Len(s) \in Nat /\ s \in [1..Len(s) -> S]
    OBVIOUS
<1>2. s \in [1..Len(s) -> T]
    BY <1>1
<1> QED
    BY <1>1, <1>2

(* Only spans that were made are in a stack. *)
LEMMA FramesMade ==
    ASSUME TypeOK
    PROVE  /\ \A c \in Contexts : \A j : Frame(stack, c, j) => j \in Made
           /\ \A j : On(stack, j) => j \in Made
<1>1. stack \in [Contexts -> Seq(Made)]
    BY Types
<1>2. \A c \in Contexts : \A i \in 1..Len(stack[c]) : stack[c][i] \in Made
    BY <1>1
<1> QED
    BY <1>2 DEF Frame, On

LEMMA Pushes ==
    ASSUME TypeOK, NEW c \in Contexts, NEW k,
           stack' = [stack EXCEPT ![c] = Append(stack[c], k)]
    PROVE  PushedOn(stack, stack', c, k)
<1>1. stack \in [Contexts -> Seq(Made)]
    BY Types
<1>2. stack[c] \in Seq(Made) /\ stack'[c] = Append(stack[c], k)
    BY <1>1
<1>3. /\ Len(stack'[c]) = Len(stack[c]) + 1
      /\ stack'[c][Len(stack[c]) + 1] = k
      /\ \A i \in 1..Len(stack[c]) : stack'[c][i] = stack[c][i]
    BY <1>2
<1>4. \A d \in Contexts : d # c => stack'[d] = stack[d]
    BY <1>1
<1> QED
    BY <1>3, <1>4 DEF PushedOn

LEMMA Pops ==
    ASSUME TypeOK, NEW c \in Contexts, stack[c] # <<>>,
           stack' = [stack EXCEPT ![c] = Popped(c)]
    PROVE  /\ PoppedOff(stack, stack', c)
           /\ Stacks(stack')
           /\ stack' \in [Contexts -> Seq(Made)]
           /\ Top(c) = stack[c][Len(stack[c])]
           /\ Top(c) \in Made
<1>1. stack \in [Contexts -> Seq(Made)]
    BY Types
<1>2. stack[c] \in Seq(Made) /\ Len(stack[c]) \in Nat /\ Len(stack[c]) > 0
    BY <1>1
<1>3. /\ Popped(c) \in Seq(Made)
      /\ Len(Popped(c)) = Len(stack[c]) - 1
      /\ \A i \in 1..Len(stack[c]) - 1 : Popped(c)[i] = stack[c][i]
    BY <1>2 DEF Popped
<1>4. stack'[c] = Popped(c) /\ \A d \in Contexts : d # c => stack'[d] = stack[d]
    BY <1>1
<1>5. PoppedOff(stack, stack', c)
    BY <1>2, <1>3, <1>4 DEF PoppedOff
<1>6. stack' \in [Contexts -> Seq(Made)]
    BY <1>1, <1>3
<1>7. Stacks(stack')
    BY <1>6 DEF Stacks
<1>8. Top(c) = stack[c][Len(stack[c])] /\ Top(c) \in Made
    BY <1>2 DEF Top
<1> QED
    BY <1>5, <1>6, <1>7, <1>8

-----------------------------------------------------------------------------
(* What becomes of whole conjuncts *)

LEMMA LinksKept ==
    ASSUME TypeOK, NearestOpen, Chain,
           UNCHANGED <<alive, inherited, parent, cur>>,
           tangled \subseteq tangled',
           \A c \in Contexts : Open(c)' = Open(c)
    PROVE  (NearestOpen /\ Chain)'
<1>1. \A c \in alive \ tangled : Linked(Open(c), parent, cur[c], inherited[c].span)
    BY LinkedMeans
<1>2. \A c \in alive' \ tangled' :
          Linked(Open(c)', parent', cur'[c], inherited'[c].span)
    BY <1>1, Types
<1> QED
    BY <1>2, LinkedMeans

LEMMA ScopedPushed ==
    ASSUME TypeOK, Scoped, NEW c \in Contexts, NEW k, PushedOn(stack, stack', c, k),
           inherited' = inherited,
           \A j \in Made : kind'[j] = kind[j] /\ outer'[j] = outer[j],
           \A d \in Contexts : d # c => agent'[d] = agent[d],
           IF kind'[k] = "agent" THEN agent'[c] = k /\ outer'[k] = agent[c]
                                 ELSE agent'[c] = agent[c]
    PROVE  Scoped'
<1>1. \A d \in Contexts : stack[d] \in Seq(Made)
    BY Types
<1>2. ASSUME NEW d \in Contexts
      PROVE  ScopedIn(stack[d], kind', outer', agent[d], inherited[d].agent)
    <2>1. ScopedIn(stack[d], kind, outer, agent[d], inherited[d].agent)
        BY ScopedMeans
    <2> QED
        BY <1>1, <2>1, ScopeKept
<1>3. ASSUME NEW d \in Contexts
      PROVE  ScopedIn(stack'[d], kind', outer', agent'[d], inherited'[d].agent)
    <2>1. CASE d # c
        BY <1>2, <2>1 DEF PushedOn
    <2>2. CASE d = c
        <3> DEFINE n == Len(stack[c])
        <3>1. /\ n \in Nat /\ Len(stack'[c]) = n + 1 /\ stack'[c][n + 1] = k
              /\ \A i \in 1..n : stack'[c][i] = stack[c][i]
            BY <1>1 DEF PushedOn
        <3>2. ScopedIn(stack[c], kind', outer', agent[c], inherited[c].agent)
            BY <1>2
        <3> HIDE DEF n
        <3>3. Len(stack[c]) = n
            BY DEF n
        <3>4. ScopedIn(stack'[c], kind', outer', agent'[c], inherited[c].agent)
            BY <3>1, <3>2, <3>3, ScopePush
        <3> QED
            BY <2>2, <3>4
    <2> QED
        BY <2>1, <2>2
<1> QED
    BY <1>3, ScopedMeans

LEMMA ScopedPopped ==
    ASSUME Scoped, NEW c \in Contexts, PoppedOff(stack, stack', c), Stacks(stack'),
           UNCHANGED <<inherited, kind, outer>>,
           \A d \in Contexts : d # c => agent'[d] = agent[d],
           Top(c) = stack[c][Len(stack[c])],
           agent'[c] = IF kind[Top(c)] = "agent" THEN outer[Top(c)] ELSE agent[c]
    PROVE  Scoped'
<1>1. \A d \in Contexts : ScopedIn(stack[d], kind, outer, agent[d], inherited[d].agent)
    BY ScopedMeans
<1>2. ASSUME NEW d \in Contexts
      PROVE  ScopedIn(stack'[d], kind', outer', agent'[d], inherited'[d].agent)
    <2>1. CASE d # c
        BY <1>1, <2>1 DEF PoppedOff
    <2>2. CASE d = c
        <3> DEFINE n == Len(stack'[c])
        <3>1. /\ n \in Nat /\ Len(stack[c]) = n + 1
              /\ \A i \in 1..n : stack'[c][i] = stack[c][i]
            BY DEF PoppedOff, Stacks
        <3>2. ScopedIn(stack[c], kind, outer, agent[c], inherited[c].agent)
            BY <1>1
        <3>3. agent'[c] = IF kind[stack[c][n + 1]] = "agent" THEN outer[stack[c][n + 1]]
                                                             ELSE agent[c]
            BY <3>1
        <3> HIDE DEF n
        <3>4. Len(stack'[c]) = n
            BY DEF n
        <3>5. ScopedIn(stack'[c], kind, outer, agent'[c], inherited[c].agent)
            BY <3>1, <3>2, <3>3, <3>4, ScopePop
        <3> QED
            BY <2>2, <3>5
    <2> QED
        BY <2>1, <2>2
<1> QED
    BY <1>2, ScopedMeans

(* A span of a context ends, the last one open but for stranded ones. *)
LEMMA LinksClosed ==
    ASSUME TypeOK, NearestOpen, Chain, NEW c \in Contexts, NEW k \in Open(c),
           home[k] = c, Note(c, k),
           UNCHANGED <<alive, inherited, parent>>,
           cur' = [cur EXCEPT ![c] = parent[k]],
           Open(c)' = Open(c) \ ({k} \union Inside(k)),
           \A d \in Contexts : d # c => Open(d)' = Open(d)
    PROVE  (NearestOpen /\ Chain)'
<1>1. \A d \in alive \ tangled : Linked(Open(d), parent, cur[d], inherited[d].span)
    BY LinkedMeans
<1>2. /\ tangled \subseteq tangled'
      /\ c \in tangled' \/ \A j \in Open(c) \ stranded : j <= k
    BY DEF Note
<1>3. cur'[c] = parent[k] /\ \A d \in Contexts : d # c => cur'[d] = cur[d]
    BY Types
<1>4. ASSUME NEW d \in alive' \ tangled'
      PROVE  Linked(Open(d)', parent', cur'[d], inherited'[d].span)
    <2>0. d \in alive \ tangled /\ d \in Contexts
        BY <1>2, Types
    <2>1. CASE d # c
        BY <1>1, <1>3, <2>0, <2>1
    <2>2. CASE d = c
        <3>1. Linked(Open(c), parent, cur[c], inherited[c].span)
            BY <1>1, <2>0, <2>2
        <3>2. Open(c) \in SUBSET Nat /\ \A j \in Open(c) \ stranded : j <= k
            BY <1>2, <2>2, Types DEF Open
        <3>3. Open(c)' = Below(Open(c), k)
            <4>1. \A j \in Open(c) : home[j] = c
                BY DEF Open
            <4>2. \A j \in Open(c) : j \in {k} \union Inside(k) <=> ~(j < k)
                BY <3>2, <4>1 DEF Inside
            <4> QED
                BY <4>2 DEF Below
        <3>4. Linked(Below(Open(c), k), parent, parent[k], inherited[c].span)
            BY <3>1, <3>2, Closed
        <3> QED
            BY <1>3, <2>2, <3>3, <3>4
    <2> QED
        BY <2>1, <2>2
<1> QED
    BY <1>4, LinkedMeans

(* What a call or a body that leaves its stack is.                         *)
LEMMA Popping ==
    ASSUME Inv, NEW c \in Contexts, stack[c] # <<>>,
           stack' = [stack EXCEPT ![c] = Popped(c)]
    PROVE  /\ c \in alive
           /\ Top(c) \in Made /\ Top(c) \in Spans
           /\ On(stack, Top(c)) /\ Frame(stack, c, Top(c))
           /\ queued[Top(c)] = 0 /\ Top(c) \notin lost
           /\ \A j : On(stack', j) <=> On(stack, j) /\ j # Top(c)
           /\ \A d \in Contexts : \A j : Frame(stack', d, j) <=> Frame(stack, d, j) /\ j # Top(c)
           /\ Single(stack)'
           /\ stack' \in [Contexts -> Seq(Made)]
           /\ \A d \in Contexts : d # c => stack'[d] = stack[d]
<1>1. TypeOK /\ Single(stack)
    BY DEF Inv
<1>2. /\ PoppedOff(stack, stack', c)
      /\ Stacks(stack')
      /\ stack' \in [Contexts -> Seq(Made)]
      /\ Top(c) = stack[c][Len(stack[c])]
      /\ Top(c) \in Made
    BY <1>1, Pops
<1>k. PICK k, st, su : k = Top(c) /\ st = stack /\ su = stack'
    OBVIOUS
<1>3. /\ Frame(stack, c, Top(c))
      /\ \A d \in Contexts : \A j : Frame(stack', d, j) <=> Frame(stack, d, j) /\ j # Top(c)
      /\ \A j : On(stack', j) <=> On(stack, j) /\ j # Top(c)
      /\ Single(stack')
    <2>1. Single(st) /\ PoppedOff(st, su, c) /\ Stacks(su) /\ k = st[c][Len(st[c])]
        BY <1>1, <1>2, <1>k
    <2>2. /\ Frame(st, c, k)
          /\ \A d \in Contexts : \A j : Frame(su, d, j) <=> Frame(st, d, j) /\ j # k
          /\ \A j : On(su, j) <=> On(st, j) /\ j # k
          /\ Single(su)
        BY <2>1, PopFrames
    <2> QED
        BY <1>k, <2>2
<1>4. On(stack, Top(c))
    BY <1>3 DEF On
<1>5. queued[Top(c)] = 0 /\ Top(c) \notin lost
    BY <1>2, <1>4 DEF Inv, Accounted, Over
<1>6. c \in alive
    BY DEF Inv, Unborn
<1> QED
    BY <1>1, <1>2, <1>3, <1>4, <1>5, <1>6, Types DEF PoppedOff

-----------------------------------------------------------------------------
(* The initial state, tasks and threads *)

LEMMA InitInv == Init => Inv
<1> SUFFICES ASSUME Init PROVE Inv
    OBVIOUS
<1>1. /\ made = 0 /\ Made = {} /\ lost = {} /\ tangled = {} /\ alive = {Main}
      /\ MaxSpans \in Nat /\ Main \in Contexts
    BY SpanContextAssumption DEF Init, Made
<1>2. \A c \in Contexts :
          /\ stack[c] = <<>> /\ cur[c] = None /\ agent[c] = None
          /\ inherited[c] = [span |-> None, agent |-> None, model |-> None]
    BY DEF Init
<1>3. TypeOK
    <2>1. stack \in [Contexts -> Seq(Made)]
        BY DEF Init
    <2> QED
        BY <1>1, <2>1 DEF Init, TypeOK, None, NoLabel, Kinds
<1>4. Unborn
    BY <1>1, <1>2 DEF Init, Unborn
<1>5. Single(stack)
    BY <1>2 DEF Single
<1>6. Generators /\ Accounted
    BY <1>1 DEF Generators, Accounted
<1>7. \A c \in Contexts : Open(c) = {}
    BY <1>1 DEF Open
<1>8. NearestOpen /\ Chain
    BY <1>1, <1>2, <1>7 DEF NearestOpen, Chain
<1>9. Scoped
    <2>1. \A c \in Contexts : Agents(stack[c], kind, 0) = {} /\ Len(stack[c]) = 0
        BY <1>2 DEF Agents
    <2> QED
        BY <1>2, <2>1 DEF Scoped, Scope
<1> QED
    BY <1>3, <1>4, <1>5, <1>6, <1>8, <1>9 DEF Inv

(* A context that comes to be starts with what it inherits. *)
LEMMA BornInv ==
    ASSUME Inv, NEW d \in Contexts \ alive,
           alive' = alive \union {d},
           NEW h \in Inheritances,
           inherited' = [inherited EXCEPT ![d] = h],
           cur' = [cur EXCEPT ![d] = h.span],
           agent' = [agent EXCEPT ![d] = h.agent],
           NEW x \in 0..made, model' = [model EXCEPT ![d] = x],
           UNCHANGED <<stack, spanVars, gen, queued, lost, stranded, tangled>>
    PROVE  Inv'
<1>1. TypeOK /\ Made' = Made /\ UNCHANGED <<made, kind, home, parent, outer, label>>
    BY DEF Inv, spanVars, Made
<1>2. h.span \in 0..made /\ h.agent \in 0..made /\ Inheritances' = Inheritances /\ Labels' = Labels
    BY <1>1 DEF Inheritances, Labels
<1>3. TypeOK'
    <2>1. /\ inherited' \in [Contexts -> Inheritances]
          /\ cur' \in [Contexts -> 0..made]
          /\ agent' \in [Contexts -> 0..made]
          /\ model' \in [Contexts -> 0..made]
        BY <1>1, <1>2, Types
    <2> QED
        BY <1>1, <1>2, <2>1, Types, TypesKept
<1>4. /\ inherited'[d] = h /\ cur'[d] = h.span /\ agent'[d] = h.agent
      /\ \A c \in Contexts : c # d =>
            inherited'[c] = inherited[c] /\ cur'[c] = cur[c] /\ agent'[c] = agent[c]
    BY <1>1, Types
<1>5. Unborn'
    BY <1>1, <1>4 DEF Inv, Unborn
<1>6. Single(stack)'
    BY DEF Inv
<1>7. Generators' /\ Accounted'
    BY <1>1 DEF Inv, Generators, Accounted, Over
<1>8. \A c \in Contexts : Open(c)' = Open(c)
    BY <1>1 DEF Open
<1>9. (NearestOpen /\ Chain)'
    <2>1. \A c \in alive \ tangled : Linked(Open(c), parent, cur[c], inherited[c].span)
        BY LinkedMeans DEF Inv
    <2>2. Open(d) = {}
        BY DEF Inv, Unborn, Open
    <2>3. Linked(Open(d)', parent', cur'[d], inherited'[d].span)
        BY <1>4, <1>8, <2>2 DEF Linked, Nearest
    <2>4. \A c \in alive' \ tangled' :
              Linked(Open(c)', parent', cur'[c], inherited'[c].span)
        BY <1>1, <1>4, <1>8, <2>1, <2>3, Types
    <2> QED
        BY <2>4, LinkedMeans
<1>10. Scoped'
    <2>1. \A c \in Contexts : ScopedIn(stack[c], kind, outer, agent[c], inherited[c].agent)
        BY ScopedMeans DEF Inv
    <2>2. stack[d] = <<>>
        BY DEF Inv, Unborn
    <2>3. ScopedIn(stack[d], kind, outer, h.agent, h.agent)
        <3>1. Agents(stack[d], kind, 0) = {} /\ Len(stack[d]) = 0
            BY <2>2 DEF Agents
        <3> QED
            BY <3>1 DEF ScopedIn, Scope
    <2>4. \A c \in Contexts :
              ScopedIn(stack'[c], kind', outer', agent'[c], inherited'[c].agent)
        BY <1>1, <1>4, <2>1, <2>3
    <2> QED
        BY <2>4, ScopedMeans
<1> QED
    BY <1>3, <1>5, <1>6, <1>7, <1>9, <1>10 DEF Inv

LEMMA CreateTaskInv ==
    ASSUME Inv, NEW c \in Contexts, NEW d \in Contexts, CreateTask(c, d)
    PROVE  Inv'
<1> DEFINE h == [span |-> cur[c], agent |-> agent[c], model |-> model[c]]
<1>1. /\ d \in Contexts \ alive
      /\ alive' = alive \union {d}
      /\ inherited' = [inherited EXCEPT ![d] = h]
      /\ cur' = [cur EXCEPT ![d] = h.span]
      /\ agent' = [agent EXCEPT ![d] = h.agent]
      /\ model' = [model EXCEPT ![d] = h.model]
      /\ UNCHANGED <<stack, spanVars, gen, queued, lost, stranded, tangled>>
    BY DEF CreateTask
<1>2. h \in Inheritances /\ h.model \in 0..made
    BY Types DEF Inv, Inheritances
<1> HIDE DEF h
<1> QED
    BY <1>1, <1>2, BornInv

LEMMA StartThreadInv ==
    ASSUME Inv, NEW d \in Contexts, StartThread(d)
    PROVE  Inv'
<1> DEFINE h == inherited[d]
           x == model[d]
<1>1. /\ d \in Contexts \ alive
      /\ alive' = alive \union {d}
      /\ UNCHANGED <<inherited, cur, agent, model>>
      /\ UNCHANGED <<stack, spanVars, gen, queued, lost, stranded, tangled>>
    BY DEF StartThread, contextVars
<1>2. h \in Inheritances /\ x \in 0..made /\ cur[d] = h.span /\ agent[d] = h.agent
    BY <1>1, Types DEF Inv, Unborn
<1>3. /\ inherited' = [inherited EXCEPT ![d] = h]
      /\ cur' = [cur EXCEPT ![d] = h.span]
      /\ agent' = [agent EXCEPT ![d] = h.agent]
      /\ model' = [model EXCEPT ![d] = x]
    BY <1>1, <1>2, Types DEF Inv
<1> HIDE DEF h, x
<1> QED
    BY <1>1, <1>2, <1>3, BornInv

-----------------------------------------------------------------------------
(* The instrumented calls begin *)

LEMMA StartInv ==
    ASSUME Inv, NEW c \in Contexts, NEW type \in Kinds, NEW attributes \in Labels,
           StartSpan(c, type, attributes),
           NEW begun \in BOOLEAN,
           IF begun THEN Body(c) ELSE Raises(type),
           gen' = IF type = "stream"
                  THEN [gen EXCEPT ![made'] = IF begun THEN "running" ELSE "done"]
                  ELSE gen,
           model' \in {model, [model EXCEPT ![c] = made']},
           IF type = "agent"
           THEN /\ agent' = [agent EXCEPT ![c] = made']
                /\ outer' = [outer EXCEPT ![made'] = agent[c]]
           ELSE UNCHANGED <<agent, outer>>
    PROVE  Inv'
<1>0. PICK k \in Nat : k = made + 1
    BY Types DEF Inv
<1>1. /\ c \in alive /\ k \in Spans /\ made' = k
      /\ kind' = [kind EXCEPT ![k] = type]
      /\ home' = [home EXCEPT ![k] = c]
      /\ parent' = [parent EXCEPT ![k] = cur[c]]
      /\ label' = [label EXCEPT ![k] = attributes]
      /\ cur' = [cur EXCEPT ![c] = k]
      /\ UNCHANGED <<alive, inherited, queued, tangled>>
    BY <1>0 DEF StartSpan
<1>b. IF begun
      THEN /\ stack' = [stack EXCEPT ![c] = Append(stack[c], k)]
           /\ UNCHANGED <<lost, stranded>>
      ELSE /\ type \in Fragile
           /\ lost' = lost \union {k}
           /\ stranded' = stranded \union {k}
           /\ UNCHANGED stack
    BY <1>1 DEF Body, Raises
<1>2. TypeOK
    BY DEF Inv
<1>3. /\ k \in Nat /\ made \in Nat /\ Made' = Made \union {k} /\ k \notin Made
      /\ \A j \in Made : j < k /\ j \in Spans
      /\ 0..made \subseteq 0..k /\ k \in 0..k /\ k \in 0..MaxSpans
    <2>1. made \in Nat /\ MaxSpans \in Nat /\ k \in 1..MaxSpans /\ Made \subseteq Spans
        BY <1>1, <1>2, Types DEF Spans
    <2>2. 1..k = 1..made \union {k} /\ k \notin 1..made /\ \A j \in 1..made : j < k
        BY <1>0, <2>1
    <2>3. Made' = 1..k /\ Made = 1..made
        BY <1>1 DEF Made
    <2>4. 0..made \subseteq 0..k /\ k \in 0..k /\ k \in 0..MaxSpans
        BY <1>0, <2>1
    <2> QED
        BY <2>1, <2>2, <2>3, <2>4
<1>4. /\ \A j \in Spans : j # k =>
            /\ kind'[j] = kind[j] /\ home'[j] = home[j] /\ parent'[j] = parent[j]
            /\ outer'[j] = outer[j] /\ gen'[j] = gen[j]
      /\ kind'[k] = type /\ home'[k] = c /\ parent'[k] = cur[c]
      /\ type = "agent" => outer'[k] = agent[c] /\ agent'[c] = k
      /\ type # "agent" => agent'[c] = agent[c]
      /\ gen'[k] = IF type # "stream" THEN "none" ELSE IF begun THEN "running" ELSE "done"
      /\ cur'[c] = k
      /\ \A d \in Contexts : d # c => cur'[d] = cur[d] /\ agent'[d] = agent[d]
    <2>1. gen[k] = "none"
        BY <1>0, <1>1, <1>3 DEF Inv, Unborn
    <2> QED
        BY <1>1, <1>2, <2>1, Types
<1>5. TypeOK'
    <2>1. /\ inherited \in [Contexts -> Inheritances']
          /\ label \in [Spans -> Labels'] /\ attributes \in Labels'
        BY <1>1, <1>2, <1>3, Types DEF Inheritances, Labels
    <2>2. cur \in [Contexts -> 0..k] /\ agent \in [Contexts -> 0..k] /\ model \in [Contexts -> 0..k]
          /\ parent \in [Spans -> 0..k] /\ outer \in [Spans -> 0..k]
        BY <1>2, <1>3, Types
    <2>3. /\ cur' \in [Contexts -> 0..k]
          /\ agent' \in [Contexts -> 0..k]
          /\ model' \in [Contexts -> 0..k]
          /\ outer' \in [Spans -> 0..k]
        BY <1>1, <1>3, <2>2
    <2>4. cur[c] \in 0..k
        BY <2>2
    <2>5. parent' \in [Spans -> 0..k] /\ label' \in [Spans -> Labels']
        BY <1>1, <2>1, <2>2, <2>4
    <2>6. stack' \in [Contexts -> Seq(Made')]
        <3>1. stack \in [Contexts -> Seq(Made)] /\ Made \subseteq Made' /\ k \in Made'
            BY <1>2, <1>3, Types
        <3>2. \A d \in Contexts : stack[d] \in Seq(Made')
            BY <3>1, SeqMono
        <3>3. Append(stack[c], k) \in Seq(Made')
            BY <3>1, <3>2
        <3>4. stack \in [Contexts -> Seq(Made')]
            BY <3>1, <3>2
        <3>5. CASE begun
            BY <1>b, <3>3, <3>4, <3>5
        <3>6. CASE ~begun
            BY <1>b, <3>4, <3>6
        <3> QED
            BY <3>5, <3>6
    <2>7. /\ gen' \in [Spans -> Generations]
          /\ kind' \in [Spans -> Kinds \union {"none"}]
          /\ home' \in [Spans -> Contexts]
        BY <1>1, <1>2, Types DEF Generations
    <2>8. inherited' \in [Contexts -> Inheritances']
        BY <1>1, <2>1
    <2>9. lost' \subseteq Made' /\ stranded' \subseteq lost'
        <3>1. lost \subseteq Made /\ stranded \subseteq lost
            BY <1>2, Types
        <3> QED
            BY <1>b, <1>3, <3>1
    <2> QED
        BY <1>1, <1>2, <1>3, <2>3, <2>5, <2>6, <2>7, <2>8, <2>9, Types, TypesKept
<1>6. /\ begun => PushedOn(stack, stack', c, k) /\ Stacks(stack)
      /\ ~begun => stack' = stack
    BY <1>b, <1>2, Types, Pushes
<1>7. /\ \A d \in Contexts : \A j : Frame(stack', d, j) <=>
            Frame(stack, d, j) \/ (begun /\ d = c /\ j = k)
      /\ \A j : On(stack', j) <=> On(stack, j) \/ (begun /\ j = k)
      /\ Single(stack)'
      /\ ~On(stack, k) /\ \A d \in Contexts : ~Frame(stack, d, k)
    <2>1. ~On(stack, k) /\ \A d \in Contexts : ~Frame(stack, d, k)
        BY <1>2, <1>3, FramesMade
    <2>2. CASE begun
        BY <1>6, <2>1, <2>2, PushFrames DEF Inv
    <2>3. CASE ~begun
        BY <1>6, <2>1, <2>3 DEF Inv
    <2> QED
        BY <2>2, <2>3
<1>l. /\ queued'[k] = 0 /\ k \notin lost
      /\ \A j \in Made : (j \in lost' <=> j \in lost) /\ (j \in stranded' <=> j \in stranded)
      /\ k \in lost' => k \in stranded' /\ ~begun /\ type \in Fragile
      /\ begun => k \notin lost'
      /\ ~begun => k \in lost'
    <2>1. queued[k] = 0 /\ k \notin lost
        BY <1>0, <1>1, <1>2, <1>3, Types DEF Inv, Unborn
    <2> QED
        BY <1>b, <1>1, <1>3, <2>1
<1>8. Unborn'
    <2>1. \A j \in Spans : j > made' => j > made /\ j # k
        BY <1>0, <1>1, <1>3 DEF Spans
    <2>2. \A d \in Contexts \ alive : stack'[d] = stack[d] /\ d # c
        BY <1>1, <1>b, <1>2, Types
    <2>3. \A j \in Spans : j > made' => gen'[j] = "none" /\ queued'[j] = 0
        BY <1>1, <1>4, <2>1 DEF Inv, Unborn
    <2>4. \A j \in Made' : kind'[j] \in Kinds /\ home'[j] \in alive'
        BY <1>1, <1>3, <1>4 DEF Inv, Unborn
    <2>5. \A d \in Contexts \ alive' :
              stack'[d] = <<>> /\ cur'[d] = inherited'[d].span /\ agent'[d] = inherited'[d].agent
        BY <1>1, <1>4, <2>2 DEF Inv, Unborn
    <2> QED
        BY <2>3, <2>4, <2>5 DEF Unborn
<1>9. Generators'
    BY <1>3, <1>4, <1>7 DEF Inv, Generators, Kinds
<1>10. Accounted'
    <2>1. \A j \in Made : j # k /\ Over(j)' = Over(j)
        BY <1>3, <1>4, <1>7 DEF Over
    <2>2. Over(k)' <=> ~begun
        BY <1>4, <1>7 DEF Over
    <2>3. /\ queued'[k] = IF Over(k)' /\ k \notin lost' THEN 1 ELSE 0
          /\ k \in lost' => Over(k)' /\ kind'[k] \in {"stream", "wrapped"} \union Fragile
        BY <1>4, <1>l, <2>2
    <2> QED
        BY <1>1, <1>3, <1>4, <1>l, <2>1, <2>3 DEF Inv, Accounted
<1>11. (NearestOpen /\ Chain)'
    <2>1. ASSUME NEW d \in Contexts
          PROVE  /\ Open(d) \subseteq Made
                 /\ Open(d)' = IF d = c THEN Open(d) \union {k} ELSE Open(d)
        <3>1. Open(d) \subseteq Made
            BY DEF Open
        <3>2. \A j \in Made : j \in Open(d)' <=> j \in Open(d)
            BY <1>1, <1>3, <1>4, <1>l DEF Open
        <3>3. k \in Open(d)' <=> d = c
            <4>1. queued'[k] = 0 /\ (k \in lost' => k \in stranded')
                BY <1>l
            <4>2. kind'[k] = "wrapped" => gen'[k] = "none"
                BY <1>4
            <4> QED
                BY <1>3, <1>4, <4>1, <4>2 DEF Open
        <3>4. Open(d)' \subseteq Made \union {k}
            BY <1>3 DEF Open
        <3> QED
            BY <3>1, <3>2, <3>3, <3>4
    <2>2. \A d \in alive \ tangled : Linked(Open(d), parent, cur[d], inherited[d].span)
        BY LinkedMeans DEF Inv
    <2>3. ASSUME NEW d \in alive' \ tangled'
          PROVE  Linked(Open(d)', parent', cur'[d], inherited'[d].span)
        <3>0. d \in alive \ tangled /\ d \in Contexts
            BY <1>1, <1>2, Types
        <3>1. CASE d = c
            <4>1. Linked(Open(c), parent, cur[c], inherited[c].span)
                BY <2>2, <3>0, <3>1
            <4>2. /\ Open(c) \in SUBSET Nat /\ k \in Nat
                  /\ \A j \in Open(c) : j < k /\ parent'[j] = parent[j]
                  /\ parent'[k] = cur[c]
                BY <1>2, <1>3, <1>4, <2>1, Types
            <4>3. Linked(Open(c) \union {k}, parent', k, inherited[c].span)
                BY <4>1, <4>2, Opened
            <4> QED
                BY <1>1, <1>4, <2>1, <3>1, <4>3
        <3>2. CASE d # c
            <4>1. Linked(Open(d), parent, cur[d], inherited[d].span)
                BY <2>2, <3>0
            <4>2. \A j \in Open(d) : parent'[j] = parent[j]
                BY <1>3, <1>4, <2>1, <3>0
            <4> QED
                BY <1>1, <1>4, <2>1, <3>0, <3>2, <4>1, <4>2 DEF Linked
        <3> QED
            BY <3>1, <3>2
    <2> QED
        BY <2>3, LinkedMeans
<1>12. Scoped'
    <2>1. \A j \in Made : kind'[j] = kind[j] /\ outer'[j] = outer[j]
        BY <1>3, <1>4
    <2>2. CASE begun
        <3>1. IF kind'[k] = "agent" THEN agent'[c] = k /\ outer'[k] = agent[c]
                                    ELSE agent'[c] = agent[c]
            BY <1>4
        <3> QED
            BY <1>1, <1>2, <1>4, <1>6, <2>1, <2>2, <3>1, ScopedPushed DEF Inv
    <2>3. CASE ~begun
        <3>1. agent' = agent
            BY <1>b, <2>3, SpanContextAssumption
        <3>2. \A d \in Contexts : ScopedIn(stack[d], kind, outer, agent[d], inherited[d].agent)
            BY ScopedMeans DEF Inv
        <3>3. \A d \in Contexts : ScopedIn(stack[d], kind', outer', agent[d], inherited[d].agent)
            <4> SUFFICES ASSUME NEW d \in Contexts
                         PROVE  ScopedIn(stack[d], kind', outer', agent[d], inherited[d].agent)
                OBVIOUS
            <4>1. stack[d] \in Seq(Made)
                BY <1>2, Types
            <4> QED
                BY <2>1, <3>2, <4>1, ScopeKept
        <3> QED
            BY <1>1, <1>6, <2>3, <3>1, <3>3, ScopedMeans
    <2> QED
        BY <2>2, <2>3
<1> QED
    BY <1>5, <1>7, <1>8, <1>9, <1>10, <1>11, <1>12 DEF Inv

LEMMA BeginInv ==
    ASSUME Inv, NEW c \in Contexts, Begin(c)
    PROVE  Inv'
<1>1. /\ NoLabel \in Labels /\ AgentLabel(c) \in Labels /\ ContextLabel(c) \in Labels
    BY Types DEF Inv, NoLabel, AgentLabel, ContextLabel, Labels, None
<1>2. CASE Trace(c) \/ Metric(c)
    <2>1. /\ StartSpan(c, "plain", NoLabel) /\ UNCHANGED <<agent, model, outer, gen>>
          /\ IF TRUE THEN Body(c) ELSE Raises("plain")
        BY <1>2 DEF Trace, Metric, Plain
    <2> QED
        BY <1>1, <2>1, StartInv DEF Kinds
<1>3. CASE Agent(c)
    <2>1. IF TRUE THEN Body(c) ELSE Raises("agent")
        BY <1>3 DEF Agent
    <2> QED
        BY <1>1, <1>3, <2>1, StartInv DEF Kinds, Agent
<1>4. CASE Retrieval(c)
    <2>1. IF TRUE THEN Body(c) ELSE Raises("retrieval")
        BY <1>4 DEF Retrieval
    <2> QED
        BY <1>1, <1>4, <2>1, StartInv DEF Kinds, Retrieval
<1>5. CASE Wrapped(c)
    <2>1. PICK begun \in BOOLEAN : IF begun THEN Body(c) ELSE Raises("wrapped")
        BY <1>5 DEF Wrapped
    <2> QED
        BY <1>1, <1>5, <2>1, StartInv DEF Kinds, Wrapped
<1>6. CASE Stream(c)
    <2>1. PICK begun \in BOOLEAN :
              /\ IF begun THEN Body(c) ELSE Raises("stream")
              /\ gen' = [gen EXCEPT ![made'] = IF begun THEN "running" ELSE "done"]
        BY <1>6 DEF Stream
    <2> QED
        BY <1>1, <1>6, <2>1, StartInv DEF Kinds, Stream
<1>7. ASSUME NEW known \in BOOLEAN, Llm(c, known) PROVE Inv'
    <2>1. PICK begun \in BOOLEAN : IF begun THEN Body(c) ELSE Raises("llm")
        BY <1>7 DEF Llm
    <2> QED
        BY <1>1, <1>7, <2>1, StartInv DEF Kinds, Llm
<1> QED
    BY <1>2, <1>3, <1>4, <1>5, <1>6, <1>7 DEF Begin
-----------------------------------------------------------------------------
(* The instrumented calls end *)

LEMMA ReturnInv ==
    ASSUME Inv, NEW c \in Contexts, NEW delegated \in BOOLEAN, Return(c, delegated)
    PROVE  Inv'
<1>0. PICK k : k = Top(c)
    OBVIOUS
<1>1. /\ stack[c] # <<>> /\ gen[k] = "none"
      /\ stack' = [stack EXCEPT ![c] = Popped(c)]
      /\ cur' = [cur EXCEPT ![c] = parent[k]]
      /\ agent' = [agent EXCEPT ![c] = AgentRestored(c, k)]
      /\ model' = [model EXCEPT ![c] = ModelAfter(c, k)]
      /\ stranded' = stranded \ Inside(k)
      /\ Note(c, k)
      /\ UNCHANGED <<alive, inherited, made, kind, home, parent, outer, label, lost>>
    BY <1>0 DEF Return, Restored, spanVars
<1>2. TypeOK /\ Made' = Made
    BY <1>1 DEF Inv, Made
<1>3. /\ c \in alive /\ k \in Made /\ k \in Spans
      /\ On(stack, k) /\ Frame(stack, c, k) /\ queued[k] = 0 /\ k \notin lost
      /\ \A j : On(stack', j) <=> On(stack, j) /\ j # k
      /\ \A d \in Contexts : \A j : Frame(stack', d, j) <=> Frame(stack, d, j) /\ j # k
      /\ Single(stack)'
      /\ stack' \in [Contexts -> Seq(Made)]
      /\ \A d \in Contexts : d # c => stack'[d] = stack[d]
    BY <1>0, <1>1, Popping
<1>g. PICK g \in {"none", "fresh"}, q \in {0, 1} :
          /\ gen' = [gen EXCEPT ![k] = g]
          /\ queued' = [queued EXCEPT ![k] = q]
          /\ \/ g = "fresh" /\ q = 0 /\ kind[k] = "wrapped"
             \/ g = "none" /\ q = 1
    <2>1. CASE delegated
        BY <1>0, <1>3, <2>1 DEF Return, QueuedUnlessDelegated
    <2>2. CASE ~delegated
        BY <1>0, <1>3, <2>2 DEF Return, QueuedUnlessDelegated
    <2> QED
        BY <2>1, <2>2
<1>4. home[k] = c
    BY <1>1, <1>3 DEF Inv, Generators
<1>5. /\ \A j \in Spans : j # k => gen'[j] = gen[j] /\ queued'[j] = queued[j]
      /\ gen'[k] = g /\ queued'[k] = q
      /\ agent'[c] = AgentRestored(c, k)
      /\ \A d \in Contexts : d # c => cur'[d] = cur[d] /\ agent'[d] = agent[d]
    BY <1>1, <1>2, <1>3, <1>g, Types
<1>6. TypeOK'
    <2>1. /\ parent[k] \in 0..made /\ AgentRestored(c, k) \in 0..made
          /\ ModelAfter(c, k) \in 0..made
        BY <1>2, <1>3, Types DEF AgentRestored, ModelAfter, Made
    <2>2. /\ cur' \in [Contexts -> 0..made]
          /\ agent' \in [Contexts -> 0..made]
          /\ model' \in [Contexts -> 0..made]
        BY <1>1, <1>2, <2>1, Types
    <2>3. gen' \in [Spans -> Generations] /\ queued' \in [Spans -> Nat]
        <3>1. gen \in [Spans -> Generations] /\ queued \in [Spans -> Nat]
            BY <1>2, Types
        <3>2. g \in Generations /\ q \in Nat
            BY DEF Generations
        <3> QED
            BY <1>g, <3>1, <3>2
    <2>4. tangled' \subseteq alive
        BY <1>1, <1>2, <1>3, <1>4, Types DEF Note
    <2>5. Inheritances' = Inheritances /\ Labels' = Labels
        BY <1>1 DEF Inheritances, Labels
    <2>6. lost' \subseteq Made /\ stranded' \subseteq lost'
        BY <1>1, <1>2, Types
    <2> QED
        BY <1>1, <1>2, <1>3, <2>2, <2>3, <2>4, <2>5, <2>6, Types, TypesKept
<1>7. Unborn'
    <2>1. \A j \in Spans : j > made => j # k
        BY <1>2, <1>3, Types DEF Made
    <2>2. \A d \in Contexts \ alive : d # c
        BY <1>3
    <2> QED
        BY <1>1, <1>2, <1>3, <1>5, <2>1, <2>2 DEF Inv, Unborn
<1>8. Generators'
    <2>1. ASSUME NEW j \in Made, j # k
          PROVE  /\ gen'[j] = gen[j] /\ kind'[j] = kind[j] /\ home'[j] = home[j]
                 /\ On(stack', j) <=> On(stack, j)
                 /\ \A d \in Contexts : Frame(stack', d, j) <=> Frame(stack, d, j)
        BY <1>1, <1>2, <1>3, <1>5, <2>1, Types
    <2>2. /\ ~On(stack', k) /\ gen'[k] = g /\ kind'[k] = kind[k]
          /\ kind[k] = "stream" => FALSE
          /\ \A d \in Contexts : ~Frame(stack', d, k)
        BY <1>1, <1>3, <1>5 DEF Inv, Generators
    <2> QED
        BY <1>2, <1>g, <2>1, <2>2 DEF Inv, Generators
<1>9. Accounted'
    <2>1. \A j \in Made : j # k => Over(j)' = Over(j)
        BY <1>2, <1>3, <1>5, Types DEF Over
    <2>2. Over(k)' <=> g = "none"
        BY <1>3, <1>5, <1>g DEF Over
    <2>3. ASSUME NEW j \in Made, j # k
          PROVE  /\ queued'[j] = IF Over(j)' /\ j \notin lost' THEN 1 ELSE 0
                 /\ j \in lost' => Over(j)' /\ kind'[j] \in {"stream", "wrapped"} \union Fragile
        <3>1. queued'[j] = queued[j]
            BY <1>2, <1>5, <2>3, Types
        <3> QED
            BY <1>1, <2>1, <2>3, <3>1 DEF Inv, Accounted
    <2>4. queued'[k] = IF Over(k)' THEN 1 ELSE 0
        BY <1>5, <1>g, <2>2
    <2> QED
        BY <1>1, <1>2, <1>3, <2>3, <2>4 DEF Accounted
<1>10. (NearestOpen /\ Chain)'
    <2>1. k \in Open(c)
        BY <1>1, <1>3, <1>4 DEF Open
    <2>2. Open(c)' = Open(c) \ ({k} \union Inside(k))
        <3>1. k \notin Open(c)'
            BY <1>1, <1>5, <1>g DEF Open
        <3>0. Inside(k) \subseteq lost
            BY <1>2, Types DEF Inside
        <3>2. \A j \in Made : j # k => (j \in Open(c)' <=> j \in Open(c) /\ j \notin Inside(k))
            BY <1>1, <1>2, <1>5, <3>0, Types DEF Open
        <3>3. Open(c) \subseteq Made /\ Open(c)' \subseteq Made
            BY <1>2 DEF Open
        <3> QED
            BY <3>1, <3>2, <3>3
    <2>3. ASSUME NEW d \in Contexts, d # c PROVE Open(d)' = Open(d)
        <3>0. \A j \in Inside(k) : home[j] = c
            BY <1>4 DEF Inside
        <3>1. \A j \in Made : j \in Open(d)' <=> j \in Open(d)
            BY <1>1, <1>2, <1>4, <1>5, <2>3, <3>0, Types DEF Open
        <3>2. Open(d) \subseteq Made /\ Open(d)' \subseteq Made
            BY <1>2 DEF Open
        <3> QED
            BY <3>1, <3>2
    <2> QED
        BY <1>1, <1>2, <1>4, <2>1, <2>2, <2>3, LinksClosed DEF Inv
<1>11. Scoped'
    <2>1. /\ PoppedOff(stack, stack', c) /\ Stacks(stack')
          /\ Top(c) = stack[c][Len(stack[c])]
        BY <1>1, <1>2, Pops
    <2> QED
        BY <1>0, <1>1, <1>5, <2>1, ScopedPopped DEF Inv, AgentRestored
<1> QED
    BY <1>3, <1>6, <1>7, <1>8, <1>9, <1>10, <1>11 DEF Inv

-----------------------------------------------------------------------------
(* Generators *)

LEMMA YieldInv ==
    ASSUME Inv, NEW c \in Contexts, Yield(c)
    PROVE  Inv'
<1>0. PICK k : k = Top(c)
    OBVIOUS
<1>1. /\ stack[c] # <<>> /\ gen[k] = "running"
      /\ gen' = [gen EXCEPT ![k] = "suspended"]
      /\ stack' = [stack EXCEPT ![c] = Popped(c)]
      /\ UNCHANGED <<alive, inherited, cur, agent, model, made, kind, home, parent, outer, label,
                     queued, lost, stranded, tangled>>
    BY <1>0 DEF Yield, spanVars, contextVars
<1>2. TypeOK /\ Made' = Made
    BY <1>1 DEF Inv, Made
<1>3. /\ c \in alive /\ k \in Made /\ k \in Spans
      /\ On(stack, k) /\ queued[k] = 0 /\ k \notin lost
      /\ \A j : On(stack', j) <=> On(stack, j) /\ j # k
      /\ \A d \in Contexts : \A j : Frame(stack', d, j) <=> Frame(stack, d, j) /\ j # k
      /\ Single(stack)'
      /\ stack' \in [Contexts -> Seq(Made)]
      /\ \A d \in Contexts : d # c => stack'[d] = stack[d]
    BY <1>0, <1>1, Popping
<1>4. /\ \A j \in Spans : j # k => gen'[j] = gen[j]
      /\ gen'[k] = "suspended"
      /\ kind[k] \in {"stream", "wrapped"}
    BY <1>1, <1>2, <1>3, Types DEF Inv, Generators
<1>5. TypeOK'
    <2>1. Inheritances' = Inheritances /\ Labels' = Labels
        BY <1>1 DEF Inheritances, Labels
    <2>2. gen' \in [Spans -> Generations]
        <3>1. gen \in [Spans -> Generations] /\ "suspended" \in Generations
            BY <1>2, Types DEF Generations
        <3> QED
            BY <1>1, <3>1
    <2> QED
        BY <1>1, <1>2, <1>3, <2>1, <2>2, Types, TypesKept
<1>6. Unborn'
    <2>1. \A j \in Spans : j > made => j # k
        BY <1>2, <1>3, Types DEF Made
    <2>2. \A d \in Contexts \ alive : d # c
        BY <1>3
    <2> QED
        BY <1>1, <1>2, <1>3, <1>4, <2>1, <2>2 DEF Inv, Unborn
<1>7. Generators'
    <2>1. ASSUME NEW j \in Made, j # k
          PROVE  /\ gen'[j] = gen[j]
                 /\ On(stack', j) <=> On(stack, j)
                 /\ \A d \in Contexts : Frame(stack', d, j) <=> Frame(stack, d, j)
        BY <1>2, <1>3, <1>4, <2>1, Types
    <2> QED
        BY <1>1, <1>2, <1>3, <1>4, <2>1 DEF Inv, Generators
<1>8. Accounted'
    <2>1. \A j \in Made : j # k => Over(j)' = Over(j)
        BY <1>2, <1>3, <1>4, Types DEF Over
    <2>2. ~Over(k)'
        BY <1>4 DEF Over
    <2> QED
        BY <1>1, <1>2, <1>3, <2>1, <2>2 DEF Inv, Accounted
<1>9. (NearestOpen /\ Chain)'
    <2>1. ASSUME NEW d \in Contexts PROVE Open(d)' = Open(d)
        <3>1. \A j \in Made : j \in Open(d)' <=> j \in Open(d)
            BY <1>1, <1>2, <1>4, Types DEF Open
        <3>2. Open(d) \subseteq Made /\ Open(d)' \subseteq Made
            BY <1>2 DEF Open
        <3> QED
            BY <3>1, <3>2
    <2> QED
        BY <1>1, <1>2, <2>1, LinksKept DEF Inv
<1>10. Scoped'
    <2>1. /\ PoppedOff(stack, stack', c) /\ Stacks(stack')
          /\ Top(c) = stack[c][Len(stack[c])]
        BY <1>1, <1>2, Pops
    <2> QED
        BY <1>0, <1>1, <1>4, <2>1, ScopedPopped DEF Inv
<1> QED
    BY <1>3, <1>5, <1>6, <1>7, <1>8, <1>9, <1>10 DEF Inv

LEMMA ResumeInv ==
    ASSUME Inv, NEW c \in Contexts, NEW k \in Spans, Resume(c, k)
    PROVE  Inv'
<1>1. /\ c \in alive /\ gen[k] \in {"fresh", "suspended"}
      /\ gen' = [gen EXCEPT ![k] = "running"]
      /\ stack' = [stack EXCEPT ![c] = Append(stack[c], k)]
      /\ UNCHANGED <<alive, inherited, cur, agent, model, made, kind, home, parent, outer, label,
                     queued, lost, stranded, tangled>>
    BY DEF Resume, Resumable, spanVars, contextVars
<1>2. TypeOK /\ Made' = Made
    BY <1>1 DEF Inv, Made
<1>3. k \in Made
    <2>1. ~(k > made) /\ k \in 1..MaxSpans /\ made \in Nat /\ MaxSpans \in Nat
        BY <1>1, <1>2, Types DEF Inv, Unborn, Spans
    <2> QED
        BY <2>1 DEF Made
<1>4. /\ \A j \in Spans : j # k => gen'[j] = gen[j]
      /\ gen'[k] = "running"
      /\ ~On(stack, k)
      /\ kind[k] \in {"stream", "wrapped"}
      /\ queued[k] = 0 /\ k \notin lost
    BY <1>1, <1>2, <1>3, Types DEF Inv, Generators, Accounted, Over
<1>5. /\ PushedOn(stack, stack', c, k) /\ Stacks(stack)
      /\ \A d \in Contexts : d # c => stack'[d] = stack[d]
    BY <1>1, <1>2, Types, Pushes
<1>6. /\ \A d \in Contexts : \A j : Frame(stack', d, j) <=> Frame(stack, d, j) \/ (d = c /\ j = k)
      /\ \A j : On(stack', j) <=> On(stack, j) \/ j = k
      /\ Single(stack)'
    BY <1>4, <1>5, PushFrames DEF Inv
<1>7. TypeOK'
    <2>1. Inheritances' = Inheritances /\ Labels' = Labels
        BY <1>1 DEF Inheritances, Labels
    <2>2. gen' \in [Spans -> Generations]
        <3>1. gen \in [Spans -> Generations] /\ "running" \in Generations
            BY <1>2, Types DEF Generations
        <3> QED
            BY <1>1, <3>1
    <2>3. stack' \in [Contexts -> Seq(Made)]
        <3>1. stack \in [Contexts -> Seq(Made)]
            BY <1>2, Types
        <3>2. Append(stack[c], k) \in Seq(Made)
            BY <1>3, <3>1
        <3> QED
            BY <1>1, <3>1, <3>2
    <2> QED
        BY <1>1, <1>2, <2>1, <2>2, <2>3, Types, TypesKept
<1>8. Unborn'
    <2>1. \A j \in Spans : j > made => j # k
        BY <1>2, <1>3, Types DEF Made
    <2>2. \A d \in Contexts \ alive : d # c
        BY <1>1
    <2> QED
        BY <1>1, <1>2, <1>4, <1>5, <2>1, <2>2 DEF Inv, Unborn
<1>9. Generators'
    <2>1. ASSUME NEW j \in Made, j # k
          PROVE  /\ gen'[j] = gen[j]
                 /\ On(stack', j) <=> On(stack, j)
                 /\ \A d \in Contexts : Frame(stack', d, j) <=> Frame(stack, d, j)
        BY <1>2, <1>4, <1>6, <2>1, Types
    <2>2. On(stack', k)
        BY <1>6
    <2> QED
        BY <1>1, <1>2, <1>4, <2>1, <2>2 DEF Inv, Generators
<1>10. Accounted'
    <2>1. \A j \in Made : j # k => Over(j)' = Over(j)
        BY <1>2, <1>4, <1>6, Types DEF Over
    <2>2. ~Over(k)'
        BY <1>6 DEF Over
    <2> QED
        BY <1>1, <1>2, <1>4, <2>1, <2>2 DEF Inv, Accounted
<1>11. (NearestOpen /\ Chain)'
    <2>1. ASSUME NEW d \in Contexts PROVE Open(d)' = Open(d)
        <3>1. \A j \in Made : j \in Open(d)' <=> j \in Open(d)
            BY <1>1, <1>2, <1>4, Types DEF Open
        <3>2. Open(d) \subseteq Made /\ Open(d)' \subseteq Made
            BY <1>2 DEF Open
        <3> QED
            BY <3>1, <3>2
    <2> QED
        BY <1>1, <1>2, <2>1, LinksKept DEF Inv
<1>12. Scoped'
    BY <1>1, <1>2, <1>4, <1>5, ScopedPushed DEF Inv
<1> QED
    BY <1>6, <1>7, <1>8, <1>9, <1>10, <1>11, <1>12 DEF Inv

(* The body of a generator ends; what it keeps whatever the context is.    *)
LEMMA FinishInv ==
    ASSUME Inv, NEW c \in Contexts, Finish(c)
    PROVE  Inv'
<1>0. PICK k : k = Top(c)
    OBVIOUS
<1>1. /\ stack[c] # <<>> /\ gen[k] = "running"
      /\ gen' = [gen EXCEPT ![k] = "done"]
      /\ stack' = [stack EXCEPT ![c] = Popped(c)]
      /\ model' = [model EXCEPT ![c] = ModelAfter(c, k)]
      /\ UNCHANGED <<alive, inherited, agent, made, kind, home, parent, outer, label>>
    BY <1>0 DEF Finish, spanVars
<1>w. \/ /\ kind[k] = "wrapped"
         /\ queued' = [queued EXCEPT ![k] = @ + 1]
         /\ UNCHANGED <<cur, lost, stranded, tangled>>
      \/ /\ kind[k] = "stream" /\ home[k] = c
         /\ queued' = [queued EXCEPT ![k] = @ + 1]
         /\ cur' = [cur EXCEPT ![c] = parent[k]]
         /\ stranded' = stranded \ Inside(k)
         /\ Note(c, k)
         /\ UNCHANGED lost
      \/ /\ kind[k] = "stream" /\ home[k] # c
         /\ lost' = lost \union {k}
         /\ Note(c, k)
         /\ UNCHANGED <<cur, queued, stranded>>
    BY <1>0 DEF Finish, Restored
<1>2. TypeOK /\ Made' = Made
    BY <1>1 DEF Inv, Made
<1>3. /\ c \in alive /\ k \in Made /\ k \in Spans
      /\ On(stack, k) /\ queued[k] = 0 /\ k \notin lost
      /\ \A j : On(stack', j) <=> On(stack, j) /\ j # k
      /\ \A d \in Contexts : \A j : Frame(stack', d, j) <=> Frame(stack, d, j) /\ j # k
      /\ Single(stack)'
      /\ stack' \in [Contexts -> Seq(Made)]
      /\ \A d \in Contexts : d # c => stack'[d] = stack[d]
    BY <1>0, <1>1, Popping
<1>q. \/ queued' = [queued EXCEPT ![k] = 1] /\ lost' = lost
      \/ queued' = queued /\ lost' = lost \union {k} /\ kind[k] = "stream"
    <2>1. queued[k] + 1 = 1
        BY <1>3
    <2> QED
        BY <1>w, <2>1
<1>4. /\ \A j \in Spans : j # k => gen'[j] = gen[j] /\ queued'[j] = queued[j]
      /\ gen'[k] = "done"
      /\ \A j : j # k => (j \in lost' <=> j \in lost)
      /\ \/ queued'[k] = 1 /\ k \notin lost'
         \/ queued'[k] = 0 /\ k \in lost' /\ kind[k] = "stream"
    <2>1. gen \in [Spans -> Generations] /\ queued \in [Spans -> Nat]
        BY <1>2, Types
    <2>2. gen'[k] = "done" /\ \A j \in Spans : j # k => gen'[j] = gen[j]
        BY <1>1, <1>3, <2>1
    <2>3. \A j \in Spans : j # k => queued'[j] = queued[j]
        BY <1>q, <2>1
    <2>4. \A j : j # k => (j \in lost' <=> j \in lost)
        BY <1>q
    <2>5. \/ queued'[k] = 1 /\ k \notin lost'
          \/ queued'[k] = 0 /\ k \in lost' /\ kind[k] = "stream"
        BY <1>3, <1>q, <2>1
    <2> QED
        BY <2>2, <2>3, <2>4, <2>5
<1>5. TypeOK'
    <2>1. Inheritances' = Inheritances /\ Labels' = Labels
        BY <1>1 DEF Inheritances, Labels
    <2>2. gen' \in [Spans -> Generations]
        <3>1. gen \in [Spans -> Generations] /\ "done" \in Generations
            BY <1>2, Types DEF Generations
        <3> QED
            BY <1>1, <3>1
    <2>3. queued' \in [Spans -> Nat]
        <3>1. queued \in [Spans -> Nat] /\ 1 \in Nat
            BY <1>2, Types
        <3> QED
            BY <1>q, <3>1
    <2>4. model' \in [Contexts -> 0..made]
        <3>1. ModelAfter(c, k) \in 0..made
            BY <1>2, <1>3, Types DEF ModelAfter, Made
        <3> QED
            BY <1>1, <1>2, <3>1, Types
    <2>5. cur' \in [Contexts -> 0..made]
        <3>1. parent[k] \in 0..made /\ cur \in [Contexts -> 0..made]
            BY <1>2, <1>3, Types
        <3> QED
            BY <1>w, <3>1
    <2>6. tangled' \subseteq alive
        <3>1. home[k] \in alive /\ tangled \subseteq alive
            BY <1>2, <1>3, Types DEF Inv, Unborn
        <3> QED
            BY <1>w, <3>1 DEF Note
    <2>7. lost' \subseteq Made /\ stranded' \subseteq lost'
        <3>1. lost \subseteq Made /\ stranded \subseteq lost
            BY <1>2, Types
        <3> QED
            BY <1>w, <1>3, <3>1
    <2> QED
        BY <1>1, <1>2, <1>3, <2>1, <2>2, <2>3, <2>4, <2>5, <2>6, <2>7, Types, TypesKept
<1>6. Unborn'
    <2>1. \A j \in Spans : j > made => j # k
        BY <1>2, <1>3, Types DEF Made
    <2>2. \A d \in Contexts \ alive : d # c
        BY <1>3
    <2>3. \A d \in Contexts : d # c => cur'[d] = cur[d]
        <3>1. cur \in [Contexts -> 0..made]
            BY <1>2, Types
        <3> QED
            BY <1>w, <3>1
    <2> QED
        BY <1>1, <1>2, <1>3, <1>4, <2>1, <2>2, <2>3 DEF Inv, Unborn
<1>7. Generators'
    <2>1. ASSUME NEW j \in Made, j # k
          PROVE  /\ gen'[j] = gen[j]
                 /\ On(stack', j) <=> On(stack, j)
                 /\ \A d \in Contexts : Frame(stack', d, j) <=> Frame(stack, d, j)
        BY <1>2, <1>3, <1>4, <2>1, Types
    <2>2. ~On(stack', k)
        BY <1>3
    <2> QED
        BY <1>1, <1>w, <1>2, <1>3, <1>4, <2>1, <2>2 DEF Inv, Generators
<1>8. Accounted'
    <2>1. \A j \in Made : j # k => Over(j)' = Over(j)
        BY <1>2, <1>3, <1>4, Types DEF Over
    <2>2. Over(k)'
        BY <1>3, <1>4 DEF Over
    <2>3. ASSUME NEW j \in Made, j # k
          PROVE  /\ queued'[j] = IF Over(j)' /\ j \notin lost' THEN 1 ELSE 0
                 /\ j \in lost' => Over(j)' /\ kind'[j] \in {"stream", "wrapped"} \union Fragile
        <3>1. queued'[j] = queued[j] /\ (j \in lost' <=> j \in lost)
            BY <1>2, <1>4, <2>3, Types
        <3> QED
            BY <1>1, <2>1, <2>3, <3>1 DEF Inv, Accounted
    <2>4. /\ queued'[k] = IF Over(k)' /\ k \notin lost' THEN 1 ELSE 0
          /\ k \in lost' => Over(k)' /\ kind'[k] \in {"stream", "wrapped"} \union Fragile
        BY <1>1, <1>4, <2>2
    <2> QED
        BY <1>2, <2>3, <2>4 DEF Accounted
<1>9. (NearestOpen /\ Chain)'
    <2>1. \A d \in Contexts : Open(d) \subseteq Made /\ Open(d)' \subseteq Made
        BY <1>2 DEF Open
    <2>2. ASSUME NEW d \in Contexts, NEW j \in Made, j # k,
                 j \in lost => (j \in stranded' <=> j \in stranded)
          PROVE  j \in Open(d)' <=> j \in Open(d)
        BY <1>1, <1>2, <1>4, <2>2, Types DEF Open
    <2>3. CASE kind[k] = "wrapped"
        <3>1. \A d \in Contexts : k \notin Open(d) /\ k \notin Open(d)'
            BY <1>1, <1>4, <2>3 DEF Open
        <3>2. \A d \in Contexts : Open(d)' = Open(d)
            <4>1. stranded' = stranded
                BY <1>w, <2>3
            <4>2. \A d \in Contexts : \A j \in Made : j \in Open(d)' <=> j \in Open(d)
                BY <2>2, <3>1, <4>1
            <4> QED
                BY <2>1, <4>2
        <3>3. UNCHANGED <<cur, tangled>>
            BY <1>w, <2>3
        <3> QED
            BY <1>1, <1>2, <3>2, <3>3, LinksKept DEF Inv
    <2>4. CASE kind[k] = "stream" /\ home[k] = c
        <3>1. k \in Open(c) /\ \A d \in Contexts : d # c => k \notin Open(d)
            BY <1>1, <1>3, <2>4 DEF Open
        <3>2. /\ queued'[k] = 1 /\ cur' = [cur EXCEPT ![c] = parent[k]] /\ Note(c, k)
              /\ stranded' = stranded \ Inside(k)
            BY <1>w, <1>4, <1>2, <1>3, <2>4, Types
        <3>3. \A d \in Contexts : k \notin Open(d)'
            BY <3>2 DEF Open
        <3>i. Inside(k) \subseteq lost /\ \A j \in Inside(k) : home[j] = c
            BY <1>2, <2>4, Types DEF Inside
        <3>o. ASSUME NEW j \in Inside(k), NEW d \in Contexts
              PROVE  j \notin Open(d)' /\ (j \in Open(d) => d = c)
            <4>1. j \in lost' /\ j \notin stranded'
                BY <1>w, <2>4, <3>i, <3>2
            <4> QED
                BY <3>i, <4>1 DEF Open
        <3>4. /\ Open(c)' = Open(c) \ ({k} \union Inside(k))
              /\ \A d \in Contexts : d # c => Open(d)' = Open(d)
            <4>1. ASSUME NEW d \in Contexts, NEW j \in Made, j # k, j \notin Inside(k)
                  PROVE  j \in Open(d)' <=> j \in Open(d)
                BY <2>2, <3>2, <4>1
            <4>2. \A j \in Made : j \in Open(c)' <=> j \in Open(c) \ ({k} \union Inside(k))
                BY <3>1, <3>3, <3>o, <4>1
            <4>3. \A d \in Contexts : d # c =>
                      \A j \in Made : j \in Open(d)' <=> j \in Open(d)
                BY <3>1, <3>3, <3>o, <4>1
            <4> QED
                BY <2>1, <4>2, <4>3
        <3> QED
            BY <1>1, <1>2, <2>4, <3>1, <3>2, <3>4, LinksClosed DEF Inv
    <2>5. CASE kind[k] = "stream" /\ home[k] # c
        <3>1. /\ UNCHANGED <<cur, stranded>> /\ home[k] \in tangled'
              /\ tangled \subseteq tangled' /\ k \in lost'
            BY <1>w, <2>5 DEF Note
        <3>2. \A d \in Contexts : k \notin Open(d)' /\ (k \in Open(d) => d = home[k])
            BY <1>2, <1>3, <3>1, Types DEF Open
        <3>3. ASSUME NEW d \in Contexts, d # home[k] PROVE Open(d)' = Open(d)
            <4>1. k \notin Open(d) /\ k \notin Open(d)'
                BY <3>2, <3>3
            <4> QED
                <5>1. \A j \in Made : j \in Open(d)' <=> j \in Open(d)
                    BY <2>2, <3>1, <4>1
                <5> QED
                    BY <2>1, <5>1
        <3>4. \A d \in alive \ tangled : Linked(Open(d), parent, cur[d], inherited[d].span)
            BY LinkedMeans DEF Inv
        <3>5. \A d \in alive' \ tangled' :
                  Linked(Open(d)', parent', cur'[d], inherited'[d].span)
            BY <1>1, <1>2, <3>1, <3>3, <3>4, Types
        <3> QED
            BY <3>5, LinkedMeans
    <2> QED
        BY <1>w, <2>3, <2>4, <2>5
<1>10. Scoped'
    <2>1. /\ PoppedOff(stack, stack', c) /\ Stacks(stack')
          /\ Top(c) = stack[c][Len(stack[c])]
        BY <1>1, <1>2, Pops
    <2>2. kind[Top(c)] # "agent"
        BY <1>0, <1>w
    <2> QED
        BY <1>1, <2>1, <2>2, ScopedPopped DEF Inv
<1> QED
    BY <1>3, <1>5, <1>6, <1>7, <1>8, <1>9, <1>10 DEF Inv

LEMMA DiscardInv ==
    ASSUME Inv, NEW k \in Spans, Discard(k)
    PROVE  Inv'
<1>1. /\ gen[k] = "fresh"
      /\ gen' = [gen EXCEPT ![k] = "done"]
      /\ lost' = lost \union {k}
      /\ UNCHANGED <<alive, inherited, cur, agent, model, stack, made, kind, home, parent, outer,
                     label, queued, stranded, tangled>>
    BY DEF Discard, spanVars, contextVars
<1>2. TypeOK /\ Made' = Made
    BY <1>1 DEF Inv, Made
<1>3. k \in Made
    <2>1. ~(k > made) /\ k \in 1..MaxSpans /\ made \in Nat /\ MaxSpans \in Nat
        BY <1>1, <1>2, Types DEF Inv, Unborn, Spans
    <2> QED
        BY <2>1 DEF Made
<1>4. /\ \A j \in Spans : j # k => gen'[j] = gen[j]
      /\ gen'[k] = "done"
      /\ ~On(stack, k)
      /\ kind[k] = "wrapped"
      /\ queued[k] = 0
    BY <1>1, <1>2, <1>3, Types DEF Inv, Generators, Accounted, Over
<1>5. TypeOK'
    <2>1. Inheritances' = Inheritances /\ Labels' = Labels
        BY <1>1 DEF Inheritances, Labels
    <2>2. gen' \in [Spans -> Generations]
        <3>1. gen \in [Spans -> Generations] /\ "done" \in Generations
            BY <1>2, Types DEF Generations
        <3> QED
            BY <1>1, <3>1
    <2>3. lost' \subseteq Made /\ stranded' \subseteq lost'
        BY <1>1, <1>2, <1>3, Types
    <2> QED
        BY <1>1, <1>2, <2>1, <2>2, <2>3, Types, TypesKept
<1>6. Unborn'
    <2>1. \A j \in Spans : j > made => j # k
        BY <1>2, <1>3, Types DEF Made
    <2> QED
        BY <1>1, <1>2, <1>4, <2>1 DEF Inv, Unborn
<1>7. Single(stack)'
    BY <1>1 DEF Inv, Single
<1>8. Generators'
    BY <1>1, <1>2, <1>4, Types DEF Inv, Generators
<1>9. Accounted'
    <2>1. \A j \in Made : j # k => Over(j)' = Over(j)
        BY <1>1, <1>2, <1>4, Types DEF Over
    <2>2. Over(k)'
        BY <1>1, <1>4 DEF Over
    <2> QED
        BY <1>1, <1>2, <1>4, <2>1, <2>2 DEF Inv, Accounted
<1>10. (NearestOpen /\ Chain)'
    <2>1. ASSUME NEW d \in Contexts PROVE Open(d)' = Open(d)
        <3>1. \A j \in Made : j # k => (j \in Open(d)' <=> j \in Open(d))
            BY <1>1, <1>2, <1>4, Types DEF Open
        <3>2. k \notin Open(d) /\ k \notin Open(d)'
            BY <1>1, <1>4 DEF Open
        <3>3. Open(d) \subseteq Made /\ Open(d)' \subseteq Made
            BY <1>2 DEF Open
        <3> QED
            BY <3>1, <3>2, <3>3
    <2> QED
        BY <1>1, <1>2, <2>1, LinksKept DEF Inv
<1>11. Scoped'
    BY <1>1 DEF Inv, Scoped
<1> QED
    BY <1>5, <1>6, <1>7, <1>8, <1>9, <1>10, <1>11 DEF Inv

LEMMA NextInv == Inv /\ [Next]_vars => Inv'
<1> SUFFICES ASSUME Inv, [Next]_vars PROVE Inv'
    OBVIOUS
<1>1. ASSUME NEW c \in Contexts, NEW d \in Contexts, CreateTask(c, d) PROVE Inv'
    BY <1>1, CreateTaskInv
<1>2. ASSUME NEW d \in Contexts, StartThread(d) PROVE Inv'
    BY <1>2, StartThreadInv
<1>3. ASSUME NEW c \in Contexts, Begin(c) PROVE Inv'
    BY <1>3, BeginInv
<1>4. ASSUME NEW c \in Contexts, NEW delegated \in BOOLEAN, Return(c, delegated) PROVE Inv'
    BY <1>4, ReturnInv
<1>5. ASSUME NEW c \in Contexts, Yield(c) PROVE Inv'
    BY <1>5, YieldInv
<1>6. ASSUME NEW c \in Contexts, Finish(c) PROVE Inv'
    BY <1>6, FinishInv
<1>7. ASSUME NEW c \in Contexts, NEW k \in Spans, Resume(c, k) PROVE Inv'
    BY <1>7, ResumeInv
<1>8. ASSUME NEW k \in Spans, Discard(k) PROVE Inv'
    BY <1>8, DiscardInv
<1>9. ASSUME UNCHANGED vars PROVE Inv'
    <2>1. UNCHANGED <<alive, inherited, cur, agent, model, stack, made, kind, home, parent, outer,
                      label, gen, queued, lost, stranded, tangled>>
        BY <1>9 DEF vars, contextVars, spanVars
    <2>2. Made' = Made /\ \A d \in Contexts : Open(d)' = Open(d)
        BY <2>1 DEF Made, Open
    <2>3. TypeOK'
        BY <2>1, <2>2 DEF Inv, TypeOK
    <2>4. Unborn' /\ Single(stack)'
        BY <2>1, <2>2 DEF Inv, Unborn, Single
    <2>5. Generators'
        BY <2>1, <2>2 DEF Inv, Generators
    <2>6. Accounted'
        BY <2>1, <2>2 DEF Inv, Accounted, Over
    <2>7. (NearestOpen /\ Chain)'
        BY <2>1, <2>2, LinksKept DEF Inv
    <2>8. Scoped'
        BY <2>1 DEF Inv, Scoped
    <2> QED
        BY <2>3, <2>4, <2>5, <2>6, <2>7, <2>8 DEF Inv
<1> QED
    BY <1>1, <1>2, <1>3, <1>4, <1>5, <1>6, <1>7, <1>8, <1>9 DEF Next

-----------------------------------------------------------------------------
(* The theorems *)

(* The invariant holds in every reachable state. *)
LEMMA Invariance == Spec => []Inv
<1>1. Init => Inv
    BY InitInv
<1>2. Inv /\ [Next]_vars => Inv'
    BY NextInv
<1> QED
    BY <1>1, <1>2, PTL DEF Spec

(* The variables of context.py, the decorators and the proxy have the      *)
(* values they should, for any number of contexts and spans.               *)
THEOREM TypeCorrect == Spec => []TypeOK
<1>1. Inv => TypeOK
    BY DEF Inv
<1> QED
    BY <1>1, Invariance, PTL

(* The places of a span in the stacks are none or one.                     *)
LEMMA FramesAre ==
    ASSUME NEW k
    PROVE  /\ Frames(k) = {} <=> ~On(stack, k)
           /\ Single(stack) => Cardinality(Frames(k)) <= 1
<1>1. \A f : f \in Frames(k) <=>
          \E c \in Contexts : \E i \in 1..Len(stack[c]) : stack[c][i] = k /\ f = <<c, i>>
    BY DEF Frames
<1>2. Frames(k) = {} <=> ~On(stack, k)
    <2>1. ASSUME NEW f \in Frames(k) PROVE On(stack, k)
        BY <1>1 DEF On, Frame
    <2>2. ASSUME On(stack, k) PROVE Frames(k) # {}
        <3>1. PICK c \in Contexts : \E i \in 1..Len(stack[c]) : stack[c][i] = k
            BY <2>2 DEF On, Frame
        <3>2. \E i \in 1..Len(stack[c]) : <<c, i>> \in Frames(k)
            BY <1>1, <3>1
        <3> QED
            BY <3>2
    <2> QED
        BY <2>1, <2>2
<1>3. ASSUME Single(stack) PROVE Cardinality(Frames(k)) <= 1
    <2>1. CASE Frames(k) = {}
        BY <2>1, FS_EmptySet
    <2>2. CASE Frames(k) # {}
        <3>1. PICK f : f \in Frames(k)
            BY <2>2
        <3>2. \A g \in Frames(k) : g = f
            <4> SUFFICES ASSUME NEW g \in Frames(k) PROVE g = f
                OBVIOUS
            <4>1. PICK c \in Contexts : \E i \in 1..Len(stack[c]) : stack[c][i] = k /\ f = <<c, i>>
                BY <1>1, <3>1
            <4>c. PICK i \in 1..Len(stack[c]) : stack[c][i] = k /\ f = <<c, i>>
                BY <4>1
            <4>2. PICK d \in Contexts : \E j \in 1..Len(stack[d]) : stack[d][j] = k /\ g = <<d, j>>
                BY <1>1
            <4>d. PICK j \in 1..Len(stack[d]) : stack[d][j] = k /\ g = <<d, j>>
                BY <4>2
            <4>3. c = d /\ i = j
                BY <1>3, <4>c, <4>d DEF Single
            <4> QED
                BY <4>c, <4>d, <4>3
        <3>3. Frames(k) = {f}
            BY <3>1, <3>2
        <3> QED
            BY <3>3, FS_Singleton
    <2> QED
        BY <2>1, <2>2
<1> QED
    BY <1>2, <1>3

(* Every span that ends is put on the span queue exactly once, whatever    *)
(* calls, generators, tasks and threads are interleaved; only the span of  *)
(* a generator discarded unstarted or finished elsewhere is lost, and that *)
(* of a call which raises before its try.                                  *)
THEOREM QueuedCorrect == Spec => []QueuedOnce
<1>1. Inv => QueuedOnce
    <2> SUFFICES ASSUME Inv, NEW k \in Made
                 PROVE  /\ queued[k] = IF Ended(k) /\ k \notin lost THEN 1 ELSE 0
                        /\ k \in lost => Ended(k) /\ kind[k] \in {"stream", "wrapped"} \union Fragile
                        /\ Cardinality(Frames(k)) <= 1
        BY DEF QueuedOnce
    <2>1. Ended(k) <=> Over(k)
        BY FramesAre DEF Ended, Over
    <2>2. Cardinality(Frames(k)) <= 1
        BY FramesAre DEF Inv
    <2> QED
        BY <2>1, <2>2 DEF Inv, Accounted
<1> QED
    BY <1>1, Invariance, PTL

(* In a context whose spans end in the order opposite to that in which     *)
(* they started, the current span is the last one still open, counting the *)
(* stranded spans inside the calls around them.                            *)
THEOREM NearestCorrect == Spec => []NearestOpen
<1>1. Inv => NearestOpen
    BY DEF Inv
<1> QED
    BY <1>1, Invariance, PTL

(* A new span is labelled with the agent of the innermost @agent call its  *)
(* context is in, or of the call in which its task was created.            *)
THEOREM AgentCorrect == Spec => AgentScoped
<1> DEFINE Step == \A k \in 1..made' \ Made :
                       kind'[k] \in {"llm", "stream", "retrieval", "wrapped"} =>
                           label'[k].agent = InnermostAgent(home'[k])
<1>1. ASSUME Inv, [Next]_vars PROVE [Step]_vars
    <2>1. ASSUME NEW c \in Contexts, NEW type \in Kinds, NEW attributes \in Labels,
                 StartSpan(c, type, attributes),
                 type \in {"llm", "stream", "retrieval", "wrapped"} => attributes.agent = agent[c]
          PROVE  Step
        <3>1. PICK k \in Nat : k = made + 1
            BY <1>1, Types DEF Inv
        <3>2. /\ made' = k /\ k \in Spans
              /\ kind' = [kind EXCEPT ![k] = type]
              /\ home' = [home EXCEPT ![k] = c]
              /\ label' = [label EXCEPT ![k] = attributes]
            BY <2>1, <3>1 DEF StartSpan
        <3>3. kind'[k] = type /\ home'[k] = c /\ label'[k] = attributes
            BY <1>1, <3>2, Types DEF Inv
        <3>4. \A j \in 1..made' \ Made : j = k
            <4>1. made \in Nat
                BY <1>1, Types DEF Inv
            <4> QED
                BY <3>1, <3>2, <4>1 DEF Made
        <3>5. InnermostAgent(c) = agent[c]
            BY <1>1 DEF Inv, Scoped, Scope, Agents, InnermostAgent, AgentCalls
        <3> QED
            BY <2>1, <3>3, <3>4, <3>5
    <2>2. ASSUME made' = made PROVE Step
        BY <2>2 DEF Made
    <2>3. /\ NoLabel \in Labels
          /\ \A c \in Contexts :
                /\ AgentLabel(c) \in Labels /\ ContextLabel(c) \in Labels
                /\ AgentLabel(c).agent = agent[c] /\ ContextLabel(c).agent = agent[c]
        BY <1>1, Types DEF Inv, NoLabel, AgentLabel, ContextLabel, Labels, None
    <2> HIDE DEF Step
    <2>4. ASSUME NEW c \in Contexts, Begin(c) PROVE Step
        <3>1. CASE Trace(c) \/ Metric(c)
            BY <2>1, <2>3, <3>1 DEF Trace, Metric, Plain, Kinds
        <3>2. CASE Agent(c)
            BY <2>1, <2>3, <3>2 DEF Agent, Kinds
        <3>3. CASE Retrieval(c)
            BY <2>1, <2>3, <3>3 DEF Retrieval, Kinds
        <3>4. CASE Wrapped(c)
            BY <2>1, <2>3, <3>4 DEF Wrapped, Kinds
        <3>5. CASE Stream(c)
            BY <2>1, <2>3, <3>5 DEF Stream, Kinds
        <3>6. ASSUME NEW known \in BOOLEAN, Llm(c, known) PROVE Step
            BY <2>1, <2>3, <3>6 DEF Llm, Kinds
        <3> QED
            BY <2>4, <3>1, <3>2, <3>3, <3>4, <3>5, <3>6 DEF Begin
    <2>5. CASE \E c \in Contexts : Begin(c)
        BY <2>4, <2>5
    <2>6. CASE ~ \E c \in Contexts : Begin(c)
        BY <1>1, <2>2, <2>6 DEF Next, CreateTask, StartThread, Return, Yield, Finish, Resume,
                                Discard, spanVars, vars
    <2> QED
        BY <2>5, <2>6
<1>2. Spec => [][Step]_vars
    BY <1>1, Invariance, PTL DEF Spec
<1> QED
    BY <1>2 DEF AgentScoped

=============================================================================
