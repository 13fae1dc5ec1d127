--------------------------------- MODULE Remote ---------------------------------
(***************************************************************************)
(* Tracing across MCP tool servers (rastir/remote.py).  The client writes   *)
(* the traceparent of a span into the headers of the HTTP client that the  *)
(* transport shares between all of its calls; the transport reads them     *)
(* when it builds a request, which may be after another call has written.  *)
(* On the server a middleware keeps the header of a request in a context   *)
(* variable for as long as the request is handled, and @mcp_endpoint links *)
(* the span of the tool to it.                                             *)
(*                                                                         *)
(* A call is a `call_tool` of a wrapped session, a run of a framework      *)
(* decorator that found MCP clients, or code that is not traced but uses   *)
(* the same HTTP client.  A span identifier has a first and a second half: *)
(* a traceparent has room for the first, and so has the OTLP export.       *)
(*                                                                         *)
(* A definition followed by one of nearly the same name is a defect of the *)
(* second: the behaviour used only to see which property it breaks.        *)
(***************************************************************************)
EXTENDS Naturals, FiniteSets

CONSTANTS Calls,        \* what the client does, each once
          Contexts,     \* contexts in which the server handles requests
          MaxRequests,  \* bound: requests sent
          Malformed,    \* a header that is not a traceparent
          None          \* no value

(* What the client writes into the headers. *)
Traceparents == [trace : Calls, parent : [first : Calls, second : {None}]]

(* A request, and what the middleware knows while it is handled.           *)
Requests ==
    [n : 1..MaxRequests, from : Calls \union {None},
     header : Traceparents \union {None, Malformed}, alone : BOOLEAN]
Handlings ==
    [request : Requests, set : BOOLEAN, before : Traceparents \union {None},
     span : {None, "open"}]

ASSUME RemoteAssumption ==
    /\ MaxRequests \in Nat
    /\ None \notin Calls \union Traceparents \union Handlings
    /\ Malformed \notin Traceparents \union {None}

VARIABLES
    \* the client
    phase,     \* "idle", "open", "done"
    kind,      \* "tool", "agent", "untraced"
    trace,     \* the trace of each call's span: the call at its root
    header,    \* the traceparent in the headers of the shared HTTP client
    \* the network
    sent,      \* number of requests sent
    wire,      \* requests under way
    \* the server
    incoming,  \* the context variable, per context
    serving,   \* what each context is handling
    spans,     \* the spans of the tools
    \* history
    alone      \* calls whose header nobody has overwritten

vars == <<phase, kind, trace, header, sent, wire, incoming, serving, spans, alone>>

SpanId(c) == [first |-> c, second |-> c]

(* The traceparent of the span of c. *)
TraceparentTail(c) ==
    [trace |-> trace[c], parent |-> [first |-> None, second |-> SpanId(c).second]]
Traceparent(c) ==
    [trace |-> trace[c], parent |-> [first |-> SpanId(c).first, second |-> None]]

(* What the middleware makes of a header. *)
Parsed(value) == IF value = Malformed THEN None ELSE value

(* What a trace backend sees of a span identifier. *)
Exported(id) == id.first

-----------------------------------------------------------------------------

Init ==
    /\ phase = [c \in Calls |-> "idle"]
    /\ kind = [c \in Calls |-> "untraced"]
    /\ trace = [c \in Calls |-> c]
    /\ header = None
    /\ sent = 0
    /\ wire = {}
    /\ incoming = [x \in Contexts |-> None]
    /\ serving = [x \in Contexts |-> None]
    /\ spans = {}
    /\ alone = {}

(* The span begins, in the trace of a call that is open where it begins,   *)
(* or in a trace of its own; nothing is awaited between its start and the  *)
(* write to the headers.                                                   *)
Begin(c, k) ==
    /\ phase[c] = "idle"
    /\ phase' = [phase EXCEPT ![c] = "open"]
    /\ kind' = [kind EXCEPT ![c] = k]
    /\ \E t \in {c} \union {trace[p] : p \in {p \in Calls : phase[p] = "open"}} :
          trace' = [trace EXCEPT ![c] = t]
    /\ UNCHANGED <<sent, wire, incoming, serving, spans>>

(* `call_tool` of a session wrapped with its HTTP client.                  *)
CallTool(c) ==
    /\ Begin(c, "tool")
    /\ header' = Traceparent(c)'
    /\ alone' = {c}

(* A framework decorator: the header is written once, before the function. *)
RunAgent(c) ==
    /\ Begin(c, "agent")
    /\ header' = Traceparent(c)'
    /\ alone' = {c}

(* Code whose HTTP client was neither given to wrap_mcp nor discovered.    *)
RunUntraced(c) ==
    /\ Begin(c, "untraced")
    /\ UNCHANGED <<header, alone>>

(* The transport builds a request: one for a `call_tool`, any number       *)
(* during a run.                                                           *)
Send(c) ==
    /\ phase[c] = "open"
    /\ sent < MaxRequests
    /\ kind[c] = "tool" =>
          \A r \in wire \union {serving[x].request : x \in {x \in Contexts : serving[x] # None}}
                        \union spans : r.from # c
    /\ sent' = sent + 1
    /\ wire' = wire \union
          {[n |-> sent + 1, from |-> c, header |-> header, alone |-> c \in alone]}
    /\ UNCHANGED <<phase, kind, trace, header, incoming, serving, spans, alone>>

(* A client that is not this one. *)
SendForeign ==
    /\ sent < MaxRequests
    /\ sent' = sent + 1
    /\ \E h \in {None, Malformed} :
          wire' = wire \union {[n |-> sent + 1, from |-> None, header |-> h, alone |-> FALSE]}
    /\ UNCHANGED <<phase, kind, trace, header, incoming, serving, spans, alone>>

(* A call returns, raises or is cancelled: its header stays.               *)
End(c) ==
    /\ phase[c] = "open"
    /\ phase' = [phase EXCEPT ![c] = "done"]
    /\ UNCHANGED <<kind, trace, header, sent, wire, incoming, serving, spans, alone>>

(* The middleware. *)
Receive(x, r) ==
    /\ serving[x] = None
    /\ wire' = wire \ {r}
    /\ serving' = [serving EXCEPT ![x] =
          [request |-> r, set |-> Parsed(r.header) # None, before |-> incoming[x], span |-> None]]
    /\ incoming' = IF Parsed(r.header) # None
                     THEN [incoming EXCEPT ![x] = Parsed(r.header)] ELSE incoming
    /\ UNCHANGED <<phase, kind, trace, header, sent, spans, alone>>

(* The link of a span made in x: the trace and parent it takes over, or    *)
(* its own trace.                                                          *)
Link(x) == incoming[x]

(* @mcp_endpoint around the tool; a request need not reach one.            *)
Endpoint(x) ==
    /\ serving[x] # None
    /\ serving[x].span = None
    /\ serving' = [serving EXCEPT ![x].span = "open"]
    /\ spans' = spans \union
          {[n |-> serving[x].request.n, from |-> serving[x].request.from,
            header |-> serving[x].request.header, alone |-> serving[x].request.alone,
            link |-> Link(x)]}
    /\ UNCHANGED <<phase, kind, trace, header, sent, wire, incoming, alone>>

(* What the context variable holds once the request has been handled.      *)
AfterRequestNoReset(x) == incoming[x]
AfterRequest(x) == IF serving[x].set THEN serving[x].before ELSE incoming[x]

Respond(x) ==
    /\ serving[x] # None
    /\ incoming' = [incoming EXCEPT ![x] = AfterRequest(x)]
    /\ serving' = [serving EXCEPT ![x] = None]
    /\ UNCHANGED <<phase, kind, trace, header, sent, wire, spans, alone>>

Next ==
    \/ \E c \in Calls : CallTool(c) \/ RunAgent(c) \/ RunUntraced(c) \/ Send(c) \/ End(c)
    \/ SendForeign
    \/ \E x \in Contexts :
          \/ \E r \in wire : Receive(x, r)
          \/ Endpoint(x)
          \/ Respond(x)

Spec == Init /\ [][Next]_vars

-----------------------------------------------------------------------------
(* Properties *)

(* A span of a tool keeps what is known of its request. *)
ToolSpans ==
    [n : 1..MaxRequests, from : Calls \union {None},
     header : Traceparents \union {None, Malformed}, alone : BOOLEAN,
     link : Traceparents \union {None}]

TypeOK ==
    /\ phase \in [Calls -> {"idle", "open", "done"}]
    /\ kind \in [Calls -> {"tool", "agent", "untraced"}]
    /\ trace \in [Calls -> Calls]
    /\ header \in Traceparents \union {None}
    /\ sent \in 0..MaxRequests
    /\ wire \subseteq Requests
    /\ incoming \in [Contexts -> Traceparents \union {None}]
    /\ serving \in [Contexts -> Handlings \union {None}]
    /\ spans \subseteq ToolSpans
    /\ alone \subseteq Calls

(* A server span is linked to the span of the call that made the request,  *)
(* as a trace backend sees it, whenever no other call wrote to the shared  *)
(* headers after that call did (remote.py:300-309 writes, and awaits the   *)
(* transport that reads).  The identifiers differ in the trace store, which *)
(* keeps whole ones.                                                       *)
LinkedWhenAlone ==
    \A s \in spans : s.alone =>
        /\ s.link # None
        /\ s.link.trace = trace[s.from]
        /\ Exported(s.link.parent) = Exported(SpanId(s.from))

(* The link of a server span comes from the header of its own request and  *)
(* from no request handled earlier in the same context: a request without  *)
(* a usable header makes a span of its own trace (remote.py:343-358).      *)
LinkedByOwnHeader == \A s \in spans : s.link = Parsed(s.header)

(* Refuted: every request of a call carries the traceparent of that call.  *)
EveryRequestLinked ==
    \A s \in spans : s.from # None /\ kind[s.from] # "untraced" =>
        s.link = Traceparent(s.from)
=============================================================================
