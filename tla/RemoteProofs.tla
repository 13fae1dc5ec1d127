------------------------------ MODULE RemoteProofs ------------------------------
(***************************************************************************)
(* What is proved of Remote: for any number of calls, contexts and         *)
(* requests, in any order of writing, sending and handling, the span of a  *)
(* tool is linked by the header of its own request, and to the call that   *)
(* made the request where no other call wrote to the shared headers.       *)
(***************************************************************************)
EXTENDS Remote, TLAPS

-----------------------------------------------------------------------------
(* The inductive invariant *)

(* A context that handles no request holds no traceparent; one that does   *)
(* holds that of the request, and will hold none again.                    *)
ContextOwned ==
    \A x \in Contexts :
        /\ serving[x] = None => incoming[x] = None
        /\ serving[x] # None =>
              /\ incoming[x] = Parsed(serving[x].request.header)
              /\ serving[x].set <=> Parsed(serving[x].request.header) # None
              /\ serving[x].before = None

(* The header is that of a call nobody has overwritten. *)
HeaderOfAlone ==
    \A c \in alone : phase[c] # "idle" /\ header = Traceparent(c)

(* ... and so is the header of every request it sends, and of its span.    *)
FromAlone(r) ==
    r.alone => r.from \in Calls /\ phase[r.from] # "idle" /\ r.header = Traceparent(r.from)
CarriedByAlone ==
    /\ \A r \in wire : FromAlone(r)
    /\ \A x \in Contexts : serving[x] # None => FromAlone(serving[x].request)
    /\ \A s \in spans : FromAlone(s)

Inv ==
    /\ TypeOK
    /\ ContextOwned
    /\ HeaderOfAlone
    /\ CarriedByAlone
    /\ LinkedByOwnHeader

-----------------------------------------------------------------------------
(* Headers *)

LEMMA TracePlain == \A c \in Calls : trace[c] \in Calls => Traceparent(c) \in Traceparents
BY DEF Traceparent, SpanId, Traceparents

(* A traceparent is taken as it is. *)
LEMMA ParsedPlain ==
    /\ Parsed(None) = None
    /\ \A h \in Traceparents : Parsed(h) = h /\ h # None
    /\ \A h \in Traceparents \union {None, Malformed} : Parsed(h) \in Traceparents \union {None}
BY RemoteAssumption DEF Parsed

(* What a context handles. *)
LEMMA Handled ==
    ASSUME TypeOK, NEW x \in Contexts, serving[x] # None
    PROVE  /\ serving[x] \in Handlings
           /\ serving[x].request \in Requests
BY DEF TypeOK, Handlings

LEMMA InitInv == Init => Inv
<1> SUFFICES ASSUME Init PROVE Inv
    OBVIOUS
<1>1. TypeOK
    BY RemoteAssumption DEF Init, TypeOK
<1>2. ContextOwned /\ HeaderOfAlone /\ CarriedByAlone /\ LinkedByOwnHeader
    BY DEF Init, ContextOwned, HeaderOfAlone, CarriedByAlone, LinkedByOwnHeader
<1> QED
    BY <1>1, <1>2 DEF Inv

-----------------------------------------------------------------------------
(* Steps of the client *)

(* A span that begins leaves alone what is known of the calls before it.   *)
LEMMA BeginInv ==
    ASSUME Inv, NEW c \in Calls, NEW k \in {"tool", "agent", "untraced"}, Begin(c, k),
           \/ header' = Traceparent(c)' /\ alone' = {c}
           \/ UNCHANGED <<header, alone>>
    PROVE  Inv'
<1>1. /\ phase[c] = "idle"
      /\ phase' = [phase EXCEPT ![c] = "open"]
      /\ kind' = [kind EXCEPT ![c] = k]
      /\ UNCHANGED <<sent, wire, incoming, serving, spans>>
    BY DEF Begin
<1>2. PICK t \in {c} \union {trace[p] : p \in {p \in Calls : phase[p] = "open"}} :
          trace' = [trace EXCEPT ![c] = t]
    BY DEF Begin
<1>3. TypeOK
    BY DEF Inv
<1>4. /\ trace' \in [Calls -> Calls]
      /\ phase' \in [Calls -> {"idle", "open", "done"}]
      /\ kind' \in [Calls -> {"tool", "agent", "untraced"}]
    BY <1>1, <1>2, <1>3 DEF TypeOK
<1>5. Traceparent(c)' \in Traceparents
    BY <1>4 DEF Traceparent, SpanId, Traceparents
<1>6. \A p \in Calls : phase[p] # "idle" => phase'[p] # "idle" /\ Traceparent(p)' = Traceparent(p)
    BY <1>1, <1>2, <1>3 DEF TypeOK, Traceparent
<1>7. TypeOK'
    BY <1>1, <1>3, <1>4, <1>5 DEF TypeOK
<1>8. ContextOwned'
    BY <1>1 DEF Inv, ContextOwned
<1>9. HeaderOfAlone'
    <2>1. CASE header' = Traceparent(c)' /\ alone' = {c}
        BY <1>1, <1>3, <2>1 DEF TypeOK, HeaderOfAlone, Traceparent
    <2>2. CASE UNCHANGED <<header, alone>>
        BY <1>3, <1>6, <2>2 DEF Inv, TypeOK, HeaderOfAlone
    <2> QED
        BY <2>1, <2>2
<1>10. CarriedByAlone'
    BY <1>1, <1>6 DEF Inv, CarriedByAlone, FromAlone
<1>11. LinkedByOwnHeader'
    BY <1>1 DEF Inv, LinkedByOwnHeader
<1> QED
    BY <1>7, <1>8, <1>9, <1>10, <1>11 DEF Inv

(* A request under way, its call's or another client's.                    *)
LEMMA SendingInv ==
    ASSUME Inv, NEW r \in Requests, FromAlone(r), wire' = wire \union {r},
           sent < MaxRequests, sent' = sent + 1,
           UNCHANGED <<phase, kind, trace, header, incoming, serving, spans, alone>>
    PROVE  Inv'
<1>1. TypeOK'
    BY RemoteAssumption DEF Inv, TypeOK
<1>2. ContextOwned' /\ HeaderOfAlone' /\ LinkedByOwnHeader'
    BY DEF Inv, ContextOwned, HeaderOfAlone, LinkedByOwnHeader, Traceparent
<1>3. CarriedByAlone'
    BY DEF Inv, CarriedByAlone, FromAlone, Traceparent
<1> QED
    BY <1>1, <1>2, <1>3 DEF Inv

LEMMA SendInv ==
    ASSUME Inv, NEW c \in Calls, Send(c)
    PROVE  Inv'
<1> DEFINE r == [n |-> sent + 1, from |-> c, header |-> header, alone |-> c \in alone]
<1>1. /\ phase[c] = "open"
      /\ sent < MaxRequests
      /\ sent' = sent + 1
      /\ wire' = wire \union {r}
      /\ UNCHANGED <<phase, kind, trace, header, incoming, serving, spans, alone>>
    BY DEF Send
<1>2. sent + 1 \in 1..MaxRequests /\ header \in Traceparents \union {None, Malformed}
    BY <1>1, RemoteAssumption DEF Inv, TypeOK
<1>3. (c \in alone) \in BOOLEAN
    OBVIOUS
<1>4. r \in Requests
    BY <1>2, <1>3 DEF Requests
<1>5. FromAlone(r)
    BY DEF Inv, HeaderOfAlone, FromAlone
<1> QED
    BY <1>1, <1>4, <1>5, SendingInv

LEMMA SendForeignInv ==
    ASSUME Inv, SendForeign
    PROVE  Inv'
<1>1. /\ sent < MaxRequests
      /\ sent' = sent + 1
      /\ UNCHANGED <<phase, kind, trace, header, incoming, serving, spans, alone>>
    BY DEF SendForeign
<1>2. PICK h \in {None, Malformed} :
          wire' = wire \union {[n |-> sent + 1, from |-> None, header |-> h, alone |-> FALSE]}
    BY DEF SendForeign
<1> DEFINE r == [n |-> sent + 1, from |-> None, header |-> h, alone |-> FALSE]
<1>3. sent + 1 \in 1..MaxRequests
    BY <1>1, RemoteAssumption DEF Inv, TypeOK
<1>4. r \in Requests /\ FromAlone(r)
    BY <1>3 DEF Requests, FromAlone
<1> QED
    BY <1>1, <1>2, <1>4, SendingInv

LEMMA EndInv ==
    ASSUME Inv, NEW c \in Calls, End(c)
    PROVE  Inv'
<1>1. /\ phase' = [phase EXCEPT ![c] = "done"]
      /\ UNCHANGED <<kind, trace, header, sent, wire, incoming, serving, spans, alone>>
    BY DEF End
<1>2. TypeOK'
    BY <1>1 DEF Inv, TypeOK
<1>3. \A p \in Calls : phase[p] # "idle" => phase'[p] # "idle"
    BY <1>1 DEF Inv, TypeOK
<1>4. \A p \in Calls : Traceparent(p)' = Traceparent(p)
    BY <1>1 DEF Traceparent
<1>5. ContextOwned' /\ LinkedByOwnHeader'
    BY <1>1 DEF Inv, ContextOwned, LinkedByOwnHeader
<1>6. HeaderOfAlone'
    BY <1>1, <1>3, <1>4 DEF Inv, TypeOK, HeaderOfAlone
<1>7. CarriedByAlone'
    BY <1>1, <1>3, <1>4 DEF Inv, CarriedByAlone, FromAlone
<1> QED
    BY <1>2, <1>5, <1>6, <1>7 DEF Inv

-----------------------------------------------------------------------------
(* Steps of the server *)

LEMMA ReceiveInv ==
    ASSUME Inv, NEW x \in Contexts, NEW r \in wire, Receive(x, r)
    PROVE  Inv'
<1> DEFINE h == [request |-> r, set |-> Parsed(r.header) # None,
                 before |-> incoming[x], span |-> None]
<1>1. /\ serving[x] = None
      /\ wire' = wire \ {r}
      /\ serving' = [serving EXCEPT ![x] = h]
      /\ incoming' = IF Parsed(r.header) # None
                       THEN [incoming EXCEPT ![x] = Parsed(r.header)] ELSE incoming
      /\ UNCHANGED <<phase, kind, trace, header, sent, spans, alone>>
    BY DEF Receive
<1>2. TypeOK /\ r \in Requests /\ r.header \in Traceparents \union {None, Malformed}
    BY DEF Inv, TypeOK, Requests
<1>3. incoming[x] = None
    BY <1>1 DEF Inv, ContextOwned
<1>4. (Parsed(r.header) # None) \in BOOLEAN
    OBVIOUS
<1>5. h \in Handlings /\ h # None
    <2>1. h \in Handlings
        BY <1>2, <1>3, <1>4 DEF Handlings
    <2> QED
        BY <2>1, RemoteAssumption
<1>6. h.request = r /\ h.before = None /\ (h.set <=> Parsed(r.header) # None)
    BY <1>3
<1> HIDE DEF h
<1>7. /\ incoming' = [incoming EXCEPT ![x] = Parsed(r.header)]
      /\ Parsed(r.header) \in Traceparents \union {None}
    BY <1>1, <1>2, <1>3, ParsedPlain DEF TypeOK
<1>8. TypeOK'
    BY <1>1, <1>2, <1>5, <1>7 DEF TypeOK
<1>9. ContextOwned'
    BY <1>1, <1>2, <1>5, <1>6, <1>7 DEF Inv, TypeOK, ContextOwned
<1>10. HeaderOfAlone' /\ LinkedByOwnHeader'
    BY <1>1 DEF Inv, HeaderOfAlone, LinkedByOwnHeader, Traceparent
<1>11. CarriedByAlone'
    BY <1>1, <1>2, <1>6 DEF Inv, TypeOK, CarriedByAlone, FromAlone, Traceparent
<1> QED
    BY <1>8, <1>9, <1>10, <1>11 DEF Inv

LEMMA EndpointInv ==
    ASSUME Inv, NEW x \in Contexts, Endpoint(x)
    PROVE  Inv'
<1> DEFINE r == serving[x].request
           s == [n |-> r.n, from |-> r.from, header |-> r.header, alone |-> r.alone,
                 link |-> Link(x)]
<1>1. /\ serving[x] # None
      /\ serving' = [serving EXCEPT ![x].span = "open"]
      /\ spans' = spans \union {s}
      /\ UNCHANGED <<phase, kind, trace, header, sent, wire, incoming, alone>>
    BY DEF Endpoint
<1>2. TypeOK /\ serving[x] \in Handlings /\ r \in Requests
    BY <1>1, Handled DEF Inv
<1>3. /\ serving'[x] \in Handlings
      /\ serving'[x].request = r
      /\ serving'[x].set = serving[x].set
      /\ serving'[x].before = serving[x].before
      /\ \A y \in Contexts : y # x => serving'[y] = serving[y]
      /\ serving' \in [Contexts -> Handlings \union {None}]
    BY <1>1, <1>2 DEF TypeOK, Handlings
<1>4. Link(x) = Parsed(r.header) /\ Link(x) \in Traceparents \union {None}
    BY <1>1, <1>2 DEF Inv, TypeOK, ContextOwned, Link
<1>5. s \in ToolSpans /\ s.link = Parsed(s.header)
    BY <1>2, <1>4 DEF ToolSpans, Requests
<1>6. FromAlone(s)
    <2>1. FromAlone(r)
        BY <1>1 DEF Inv, CarriedByAlone
    <2> QED
        BY <2>1 DEF FromAlone
<1> HIDE DEF r, s
<1>7. TypeOK'
    BY <1>1, <1>2, <1>3, <1>5 DEF TypeOK
<1>8. ContextOwned'
    BY <1>1, <1>2, <1>3, RemoteAssumption DEF Inv, ContextOwned, r
<1>9. HeaderOfAlone'
    BY <1>1 DEF Inv, HeaderOfAlone, Traceparent
<1>10. CarriedByAlone'
    BY <1>1, <1>3, <1>6 DEF Inv, CarriedByAlone, FromAlone, Traceparent, r
<1>11. LinkedByOwnHeader'
    BY <1>1, <1>5 DEF Inv, LinkedByOwnHeader
<1> QED
    BY <1>7, <1>8, <1>9, <1>10, <1>11 DEF Inv

LEMMA RespondInv ==
    ASSUME Inv, NEW x \in Contexts, Respond(x)
    PROVE  Inv'
<1>1. /\ serving[x] # None
      /\ incoming' = [incoming EXCEPT ![x] = AfterRequest(x)]
      /\ serving' = [serving EXCEPT ![x] = None]
      /\ UNCHANGED <<phase, kind, trace, header, sent, wire, spans, alone>>
    BY DEF Respond
<1>2. AfterRequest(x) = None
    BY <1>1 DEF Inv, ContextOwned, AfterRequest
<1>3. TypeOK'
    BY <1>1, <1>2 DEF Inv, TypeOK
<1>4. ContextOwned'
    BY <1>1, <1>2 DEF Inv, TypeOK, ContextOwned
<1>5. HeaderOfAlone' /\ LinkedByOwnHeader'
    BY <1>1 DEF Inv, HeaderOfAlone, LinkedByOwnHeader, Traceparent
<1>6. CarriedByAlone'
    BY <1>1 DEF Inv, TypeOK, CarriedByAlone, FromAlone, Traceparent
<1> QED
    BY <1>3, <1>4, <1>5, <1>6 DEF Inv

-----------------------------------------------------------------------------
(* Results *)

(* The inductive invariant holds in every reachable state.                 *)
THEOREM Invariance == Spec => []Inv
<1>1. ASSUME Inv, [Next]_vars PROVE Inv'
    <2>1. CASE UNCHANGED vars
        BY <1>1, <2>1 DEF vars, Inv, TypeOK, ContextOwned, HeaderOfAlone, CarriedByAlone,
                          FromAlone, LinkedByOwnHeader, Traceparent
    <2>2. ASSUME NEW c \in Calls, CallTool(c) \/ RunAgent(c) \/ RunUntraced(c) PROVE Inv'
        BY <1>1, <2>2, BeginInv DEF CallTool, RunAgent, RunUntraced
    <2>3. ASSUME NEW c \in Calls, Send(c) PROVE Inv'
        BY <1>1, <2>3, SendInv
    <2>4. ASSUME NEW c \in Calls, End(c) PROVE Inv'
        BY <1>1, <2>4, EndInv
    <2>5. CASE SendForeign
        BY <1>1, <2>5, SendForeignInv
    <2>6. ASSUME NEW x \in Contexts, NEW r \in wire, Receive(x, r) PROVE Inv'
        BY <1>1, <2>6, ReceiveInv
    <2>7. ASSUME NEW x \in Contexts, Endpoint(x) PROVE Inv'
        BY <1>1, <2>7, EndpointInv
    <2>8. ASSUME NEW x \in Contexts, Respond(x) PROVE Inv'
        BY <1>1, <2>8, RespondInv
    <2> QED
        BY <1>1, <2>1, <2>2, <2>3, <2>4, <2>5, <2>6, <2>7, <2>8 DEF Next
<1> QED
    BY <1>1, InitInv, PTL DEF Spec

(* A tool's span takes its link from the header of its own request: the    *)
(* context variable is reset after every request (remote.py:343-358).      *)
THEOREM OwnHeaderCorrect == Spec => []LinkedByOwnHeader
<1>1. Inv => LinkedByOwnHeader
    BY DEF Inv
<1> QED
    BY <1>1, Invariance, PTL

(* Where no other call wrote to the shared headers in between, a tool's    *)
(* span is linked to the call that made the request (remote.py:300-309).   *)
THEOREM AloneCorrect == Spec => []LinkedWhenAlone
<1>1. Inv => LinkedWhenAlone
    <2> SUFFICES ASSUME Inv, NEW s \in spans, s.alone
                 PROVE  /\ s.link # None
                        /\ s.link.trace = trace[s.from]
                        /\ Exported(s.link.parent) = Exported(SpanId(s.from))
        BY DEF LinkedWhenAlone
    <2>1. s.from \in Calls /\ s.header = Traceparent(s.from)
        BY DEF Inv, CarriedByAlone, FromAlone
    <2>2. Traceparent(s.from) \in Traceparents
        BY <2>1, TracePlain DEF Inv, TypeOK
    <2>3. s.link = Traceparent(s.from) /\ s.link # None
        BY <2>1, <2>2, ParsedPlain DEF Inv, LinkedByOwnHeader
    <2> QED
        BY <2>3 DEF Traceparent, SpanId, Exported
<1> QED
    BY <1>1, Invariance, PTL
=============================================================================
