------------------------------ MODULE SpanContext ------------------------------
(***************************************************************************)
(* How spans are linked on the client (rastir/context.py), by the          *)
(* decorators (rastir/decorators.py) and the object proxy                  *)
(* (rastir/wrapper.py).  Three context variables say which span, agent and *)
(* model are current.  An instrumented call makes its span current and     *)
(* puts the former one back when it ends.                                  *)
(*                                                                         *)
(* A context is a thread or an asyncio task.  Contexts run concurrently; a *)
(* task starts with a copy of the variables of the one that created it.    *)
(* Generators are bodies that a context runs for a while, and possibly     *)
(* another the next time.                                                  *)
(*                                                                         *)
(* The k-th span started is the number k; it also stands for the agent or  *)
(* the model its call names.  0 is None.                                   *)
(*                                                                         *)
(* A definition followed by one of nearly the same name is a defect of the *)
(* second: the behaviour used only to see which property it breaks.        *)
(***************************************************************************)
EXTENDS Naturals, Sequences, FiniteSets

CONSTANTS Contexts,  \* threads and tasks
          Main,      \* the one that is there from the start
          Fragile,   \* calls that may raise between start_span and their try
          MaxSpans   \* bound: instrumented calls

ASSUME SpanContextAssumption ==
    /\ Main \in Contexts
    /\ Fragile \subseteq {"llm", "stream", "wrapped"}
    /\ MaxSpans \in Nat

VARIABLES alive,      \* the contexts that exist
          inherited,  \* what each context started with
          cur,        \* _current_span in each context
          agent,      \* _current_agent
          model,      \* _current_model, set together with _current_provider
          stack,      \* the spans of the calls and generators each context runs
          made,       \* how many spans were started
          kind,       \* the operation that started each span
          home,       \* the context it was started in
          parent,     \* its parent, also what its token restores
          outer,      \* what the agent token of an @agent span restores
          label,      \* its agent and model attributes
          gen,        \* the state of the generator that ends the span
          queued,     \* how often it was put on the span queue
          lost,       \* spans that can no longer be put on it
          stranded,   \* those of them that nothing has taken from current yet
          tangled     \* history: contexts in which spans ended out of order

contextVars == <<cur, agent, model>>
spanVars == <<made, kind, home, parent, outer, label>>
vars == <<alive, inherited, contextVars, stack, spanVars, gen, queued, lost, stranded, tangled>>

None == 0
Spans == 1..MaxSpans
Made == 1..made
NoLabel == [agent |-> None, model |-> None]
Top(c) == stack[c][Len(stack[c])]
Popped(c) == SubSeq(stack[c], 1, Len(stack[c]) - 1)

-----------------------------------------------------------------------------

Init ==
    /\ alive = {Main}
    /\ inherited = [c \in Contexts |-> [span |-> None, agent |-> None, model |-> None]]
    /\ cur = [c \in Contexts |-> None]
    /\ agent = [c \in Contexts |-> None]
    /\ model = [c \in Contexts |-> None]
    /\ stack = [c \in Contexts |-> <<>>]
    /\ made = 0
    /\ kind = [k \in Spans |-> "none"]
    /\ home = [k \in Spans |-> Main]
    /\ parent = [k \in Spans |-> None]
    /\ outer = [k \in Spans |-> None]
    /\ label = [k \in Spans |-> NoLabel]
    /\ gen = [k \in Spans |-> "none"]
    /\ queued = [k \in Spans |-> 0]
    /\ lost = {}
    /\ stranded = {}
    /\ tangled = {}

(* create_task copies the variables of the context that calls it ...       *)
CreateTask(c, d) ==
    LET now == [span |-> cur[c], agent |-> agent[c], model |-> model[c]]
    IN  /\ c \in alive
        /\ d \notin alive
        /\ alive' = alive \union {d}
        /\ inherited' = [inherited EXCEPT ![d] = now]
        /\ cur' = [cur EXCEPT ![d] = now.span]
        /\ agent' = [agent EXCEPT ![d] = now.agent]
        /\ model' = [model EXCEPT ![d] = now.model]
        /\ UNCHANGED <<stack, spanVars, gen, queued, lost, stranded, tangled>>

(* ... and a new thread starts with none of them. *)
StartThread(d) ==
    /\ d \notin alive
    /\ alive' = alive \union {d}
    /\ UNCHANGED <<inherited, contextVars, stack, spanVars, gen, queued, lost, stranded, tangled>>

-----------------------------------------------------------------------------
(* start_span, and the call or generator body that begins after it.        *)

StartSpan(c, type, attributes) ==
    LET k == made + 1
    IN  /\ c \in alive
        /\ k \in Spans
        /\ made' = k
        /\ kind' = [kind EXCEPT ![k] = type]
        /\ home' = [home EXCEPT ![k] = c]
        /\ parent' = [parent EXCEPT ![k] = cur[c]]
        /\ label' = [label EXCEPT ![k] = attributes]
        /\ cur' = [cur EXCEPT ![c] = k]
        /\ UNCHANGED <<alive, inherited, queued, tangled>>

Body(c) ==
    /\ stack' = [stack EXCEPT ![c] = Append(@, made')]
    /\ UNCHANGED <<lost, stranded>>

(* What precedes the try raises, a client that refuses the interceptor or  *)
(* a method without a name: no one ends the span or queues it.             *)
Raises(type) ==
    /\ type \in Fragile
    /\ lost' = lost \union {made'}
    /\ stranded' = stranded \union {made'}
    /\ UNCHANGED stack

AgentLabel(c) == [agent |-> agent[c], model |-> None]
ContextLabel(c) == [agent |-> agent[c], model |-> model[c]]

(* @trace and @metric, which touch no variable but the current span. *)
Plain(c) ==
    /\ StartSpan(c, "plain", NoLabel)
    /\ Body(c)
    /\ UNCHANGED <<agent, model, outer, gen>>

Trace(c) == Plain(c)
Metric(c) == Plain(c)

(* @agent *)
Agent(c) ==
    /\ StartSpan(c, "agent", NoLabel)
    /\ Body(c)
    /\ agent' = [agent EXCEPT ![c] = made']
    /\ outer' = [outer EXCEPT ![made'] = agent[c]]
    /\ UNCHANGED <<model, gen>>

(* @retrieval *)
Retrieval(c) ==
    /\ StartSpan(c, "retrieval", ContextLabel(c))
    /\ Body(c)
    /\ UNCHANGED <<agent, model, outer, gen>>

(* @llm; the model may be known from the decorator or the arguments, and   *)
(* is then set for the calls made inside.                                  *)
Llm(c, known) ==
    /\ StartSpan(c, "llm", AgentLabel(c))
    /\ Body(c) \/ Raises("llm")
    /\ model' = IF known THEN [model EXCEPT ![c] = made'] ELSE model
    /\ UNCHANGED <<agent, outer, gen>>

(* A method of a wrapped object. *)
Wrapped(c) ==
    /\ StartSpan(c, "wrapped", AgentLabel(c))
    /\ Body(c) \/ Raises("wrapped")
    /\ UNCHANGED <<agent, model, outer, gen>>

(* @llm on a generator function: the wrapper is a generator itself, and    *)
(* its body starts with the first chunk a consumer asks for.               *)
Stream(c) ==
    /\ StartSpan(c, "stream", AgentLabel(c))
    /\ \/ Body(c) /\ gen' = [gen EXCEPT ![made'] = "running"]
       \/ Raises("stream") /\ gen' = [gen EXCEPT ![made'] = "done"]
    /\ UNCHANGED <<agent, model, outer>>

-----------------------------------------------------------------------------
(* The end of a call, by its result or an exception.                       *)

(* end_span resets the variable with the token of start_span. *)
ResetToNone(k) == None
Restored(k) == parent[k]

(* reset_current_agent, for the spans that set it. *)
AgentCleared(c, k) == IF kind[k] = "agent" THEN None ELSE agent[c]
AgentRestored(c, k) == IF kind[k] = "agent" THEN outer[k] ELSE agent[c]

(* _finalize_llm_span makes the model of an @llm span, which is then known *)
(* or "unknown", the current one; nothing ever resets it.                  *)
ModelAfter(c, k) == IF kind[k] \in {"llm", "stream"} THEN k ELSE model[c]

(* The spans of c that are current or may be again: those whose token is   *)
(* still to be used, and the stranded ones, until a call around them ends. *)
Open(c) ==
    {k \in Made : /\ home[k] = c
                  /\ queued[k] = 0
                  /\ k \in lost => k \in stranded
                  /\ kind[k] = "wrapped" => gen[k] = "none"}
Inside(k) == {j \in stranded : home[j] = home[k] /\ j > k}
Note(c, k) ==
    tangled' = IF c = home[k] /\ \A j \in Open(c) \ stranded : j <= k THEN tangled
               ELSE tangled \union {home[k]}

(* What a wrapped method returned is a generator, which is given the span. *)
QueuedAlways(k, delegated) == queued[k] + 1
QueuedUnlessDelegated(k, delegated) == IF delegated THEN queued[k] ELSE queued[k] + 1

Return(c, delegated) ==
    LET k == Top(c)
    IN  /\ stack[c] # <<>>
        /\ gen[k] = "none"
        /\ delegated => kind[k] = "wrapped"
        /\ stack' = [stack EXCEPT ![c] = Popped(c)]
        /\ cur' = [cur EXCEPT ![c] = Restored(k)]
        /\ agent' = [agent EXCEPT ![c] = AgentRestored(c, k)]
        /\ model' = [model EXCEPT ![c] = ModelAfter(c, k)]
        /\ gen' = [gen EXCEPT ![k] = IF delegated THEN "fresh" ELSE "none"]
        /\ queued' = [queued EXCEPT ![k] = QueuedUnlessDelegated(k, delegated)]
        /\ stranded' = stranded \ Inside(k)
        /\ Note(c, k)
        /\ UNCHANGED <<alive, inherited, spanVars, lost>>

-----------------------------------------------------------------------------
(* Generators, those of @llm and those a wrapped method returned.          *)

(* A chunk goes to the consumer; the variables stay as they are.           *)
Yield(c) ==
    /\ stack[c] # <<>>
    /\ gen[Top(c)] = "running"
    /\ gen' = [gen EXCEPT ![Top(c)] = "suspended"]
    /\ stack' = [stack EXCEPT ![c] = Popped(c)]
    /\ UNCHANGED <<alive, inherited, contextVars, spanVars, queued, lost, stranded, tangled>>

(* A consumer asks for the next chunk, or closes the generator; a          *)
(* generator that runs refuses it.                                         *)
Resumable(k) == gen[k] \in {"fresh", "suspended"}

Resume(c, k) ==
    /\ c \in alive
    /\ Resumable(k)
    /\ gen' = [gen EXCEPT ![k] = "running"]
    /\ stack' = [stack EXCEPT ![c] = Append(@, k)]
    /\ UNCHANGED <<alive, inherited, contextVars, spanVars, queued, lost, stranded, tangled>>

(* The body ends: exhausted, by an exception, or by GeneratorExit.  A      *)
(* token is valid only in the context it was made in: anywhere else the    *)
(* reset raises, and what follows it, the enqueueing, is skipped.          *)
Finish(c) ==
    LET k == Top(c)
    IN  /\ stack[c] # <<>>
        /\ gen[k] = "running"
        /\ gen' = [gen EXCEPT ![k] = "done"]
        /\ stack' = [stack EXCEPT ![c] = Popped(c)]
        /\ model' = [model EXCEPT ![c] = ModelAfter(c, k)]
        /\ \/ /\ kind[k] = "wrapped"
              /\ queued' = [queued EXCEPT ![k] = @ + 1]
              /\ UNCHANGED <<cur, lost, stranded, tangled>>
           \/ /\ kind[k] = "stream" /\ home[k] = c
              /\ queued' = [queued EXCEPT ![k] = @ + 1]
              /\ cur' = [cur EXCEPT ![c] = Restored(k)]
              /\ stranded' = stranded \ Inside(k)
              /\ Note(c, k)
              /\ UNCHANGED lost
           \/ /\ kind[k] = "stream" /\ home[k] # c
              /\ lost' = lost \union {k}
              /\ Note(c, k)
              /\ UNCHANGED <<cur, queued, stranded>>
        /\ UNCHANGED <<alive, inherited, agent, spanVars>>

(* A generator that was never started is closed without running its body.  *)
Discard(k) ==
    /\ gen[k] = "fresh"
    /\ gen' = [gen EXCEPT ![k] = "done"]
    /\ lost' = lost \union {k}
    /\ UNCHANGED <<alive, inherited, contextVars, stack, spanVars, queued, stranded, tangled>>

Begin(c) ==
    \/ Trace(c) \/ Metric(c) \/ Agent(c) \/ Retrieval(c) \/ Wrapped(c) \/ Stream(c)
    \/ \E known \in BOOLEAN : Llm(c, known)

Next ==
    \/ \E c, d \in Contexts : CreateTask(c, d)
    \/ \E d \in Contexts : StartThread(d)
    \/ \E c \in Contexts : Begin(c)
    \/ \E c \in Contexts, delegated \in BOOLEAN : Return(c, delegated)
    \/ \E c \in Contexts : Yield(c) \/ Finish(c)
    \/ \E c \in Contexts, k \in Spans : Resume(c, k)
    \/ \E k \in Spans : Discard(k)

Spec == Init /\ [][Next]_vars

-----------------------------------------------------------------------------

Kinds == {"plain", "agent", "retrieval", "llm", "wrapped", "stream"}

TypeOK ==
    /\ alive \subseteq Contexts
    /\ made \in 0..MaxSpans
    /\ inherited \in [Contexts -> [span : 0..made, agent : 0..made, model : 0..made]]
    /\ {cur, agent, model} \subseteq [Contexts -> 0..made]
    /\ stack \in [Contexts -> Seq(Made)]
    /\ kind \in [Spans -> Kinds \union {"none"}]
    /\ home \in [Spans -> Contexts]
    /\ {parent, outer} \subseteq [Spans -> 0..made]
    /\ label \in [Spans -> [agent : 0..made, model : 0..made]]
    /\ gen \in [Spans -> {"none", "fresh", "running", "suspended", "done"}]
    /\ queued \in [Spans -> Nat]
    /\ lost \subseteq Made
    /\ stranded \subseteq lost
    /\ tangled \subseteq alive

(* Where the span k is in a call stack. *)
Frames(k) == UNION {{c} \X {i \in 1..Len(stack[c]) : stack[c][i] = k} : c \in Contexts}
Newest(S) == CHOOSE k \in S : \A j \in S : j <= k
Ended(k) == Frames(k) = {} /\ gen[k] \notin {"fresh", "suspended"}

(* Every span that ends is put on the span queue, once, whatever calls,    *)
(* generators, tasks and exceptions are interleaved; except that of a      *)
(* generator that was never started, or whose last step ran in another     *)
(* context than its first, and that of a call which raises before its try. *)
QueuedOnce ==
    \A k \in Made :
        /\ queued[k] = IF Ended(k) /\ k \notin lost THEN 1 ELSE 0
        /\ k \in lost => Ended(k) /\ kind[k] \in {"stream", "wrapped"} \union Fragile
        /\ Cardinality(Frames(k)) <= 1

(* The agent a span is labelled with is that of the innermost @agent call  *)
(* its context is in, or of the call the task was created in, also after   *)
(* calls that raised and around generators.                                *)
AgentCalls(c) == {i \in 1..Len(stack[c]) : kind[stack[c][i]] = "agent"}
InnermostAgent(c) ==
    IF AgentCalls(c) = {} THEN inherited[c].agent ELSE stack[c][Newest(AgentCalls(c))]
AgentScoped ==
    [][\A k \in 1..made' \ Made :
          kind'[k] \in {"llm", "stream", "retrieval", "wrapped"} =>
              label'[k].agent = InnermostAgent(home'[k])]_vars

(* As long as the spans of a context end in the order opposite to that in  *)
(* which they started, each where it started, the current span is the last *)
(* one that is still open: nesting is exact with calls that raise, nested  *)
(* streams, generators of wrapped methods and other contexts around it.  A *)
(* span whose call raises before its try stays current beyond that call,   *)
(* but not beyond the one around it.                                       *)
NearestOpen ==
    \A c \in alive \ tangled :
        cur[c] = IF Open(c) = {} THEN inherited[c].span ELSE Newest(Open(c))

(* What get_current_span says it returns: None outside a traced context.   *)
(* So a context that started with no span, is in no instrumented call and  *)
(* has no stream under way has no current span.                            *)
NoneOutside ==
    \A c \in alive :
        inherited[c].span = None /\ Open(c) \subseteq stranded => cur[c] = None

(* What the comment on _current_model says: it is the model of the most    *)
(* recent LLM call within the current agent context.  So a retrieval in an *)
(* agent's call is never labelled with the model of an LLM call made       *)
(* before that agent was entered.                                          *)
ModelWithinAgent ==
    [][\A k \in 1..made' \ Made :
          label'[k].model # None /\ AgentCalls(home'[k]) # {}
              => label'[k].model > InnermostAgent(home'[k])]_vars
=============================================================================
