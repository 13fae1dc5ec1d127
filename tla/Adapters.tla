-------------------------------- MODULE Adapters --------------------------------
(***************************************************************************)
(* The client's response adapters (rastir/adapters).  An adapter says what *)
(* it claims, where it stands, and what it reads; the registry takes a     *)
(* result through the framework adapters, which unwrap it, to a provider   *)
(* adapter, which labels it, and otherwise to the fallback.                *)
(*                                                                         *)
(* A result is what a call returns, as far as adapters tell results apart: *)
(* a sequence of objects, each wrapping the next, and of each whose it is, *)
(* the model and token usage it carries and the vendor before the dot of a *)
(* Bedrock model id.  A chunk of a stream has an origin and a usage, and   *)
(* the arguments of a call a client object, the provider of the model in a *)
(* framework's object, and the family that a `model` argument belongs to.  *)
(*                                                                         *)
(* A definition followed by one of nearly the same name is a defect of the *)
(* second: the behaviour used only to see which property it breaks.        *)
(***************************************************************************)
EXTENDS Naturals, Sequences, FiniteSets

CONSTANTS None,    \* absent
          Unknown  \* the label of what no adapter knows

(* What adapters do without. *)
BaseAdapter ==
    [kind |-> "provider", priority |-> 100, claims |-> {}, label |-> None, fields |-> "result",
     streams |-> {}, mode |-> "incremental", clients |-> {}, families |-> {}]
Native(name) ==
    [BaseAdapter EXCEPT !.priority = 150, !.claims = {name}, !.label = name,
                        !.streams = {name}, !.clients = {name}]
Wrapper(name) == [BaseAdapter EXCEPT !.kind = "framework", !.claims = {name}]

LangGraph == [Wrapper("langgraph") EXCEPT !.priority = 260, !.fields = "none",
                                          !.streams = {"langgraph"}, !.clients = {"langgraph"}]
LangChain == [Wrapper("langchain") EXCEPT !.priority = 250, !.fields = "extras",
                                          !.clients = {"langchain"}]
CrewAI == [Wrapper("crewai") EXCEPT !.priority = 245]
LlamaIndex == [Wrapper("llamaindex") EXCEPT !.priority = 240, !.fields = "none",
                                            !.streams = {"llamaindex"}]
AzureLate == [Native("azure_openai") EXCEPT !.priority = 145]
Azure == [Native("azure_openai") EXCEPT !.priority = 155]
Groq == [Native("groq") EXCEPT !.priority = 152]
(* Azure answers with the classes of the openai package. *)
OpenAI == [Native("openai") EXCEPT !.claims = {"openai", "azure_openai"}, !.families = {"gpt"},
                                   !.streams = {"openai", "azure_openai"}]
Anthropic == [Native("anthropic") EXCEPT !.families = {"claude"}]
GeminiSummed == [Native("gemini") EXCEPT !.families = {"gemini"}]
Gemini == [Native("gemini") EXCEPT !.mode = "cumulative", !.families = {"gemini"}]
Cohere == [Native("cohere") EXCEPT !.families = {"command"}]
Mistral == [Native("mistral") EXCEPT !.families = {"mistral"}]
Bedrock == [Native("bedrock") EXCEPT !.priority = 140, !.clients = {"modelId"}]
Retrieval == [BaseAdapter EXCEPT !.priority = 50, !.claims = {"documents"}, !.fields = "none"]
Tool == [BaseAdapter EXCEPT !.priority = 10]
Fallback == [BaseAdapter EXCEPT !.kind = "fallback", !.priority = 0, !.label = Unknown]

(* In the order of registration. *)
Registry ==
    <<LangGraph, LangChain, LlamaIndex, CrewAI, Azure, Groq, OpenAI, Anthropic, Gemini,
      Cohere, Mistral, Bedrock, Retrieval, Tool, Fallback>>

ASSUME AdaptersAssumption == \A i \in DOMAIN Registry : Registry[i] # None

(* The sort is stable. *)
Before(i, j) ==
    \/ Registry[i].priority > Registry[j].priority
    \/ Registry[i].priority = Registry[j].priority /\ i < j

(* The adapters at the places S, in the order in which they are asked; no  *)
(* adapter if S is empty.                                                  *)
FirstOf(S) ==
    IF S = {} THEN None
    ELSE Registry[CHOOSE i \in S : \A j \in S \ {i} : Before(i, j)]

Claimant(kind, object) ==
    FirstOf({i \in DOMAIN Registry :
                Registry[i].kind = kind /\ object.of \in Registry[i].claims})

-----------------------------------------------------------------------------
(* Results *)

OrElse(x, y) == IF x \in {None, Unknown} THEN y ELSE x

(* One round of unwrapping: a framework adapter takes the outermost object *)
(* off, if there is one inside, and reads it as fields of an AdapterResult *)
(* or as extra attributes; what is read later replaces what was read       *)
(* before.                                                                 *)
Inside(result) == IF Len(result) > 1 THEN Tail(result) ELSE result

Read(u, object, a) ==
    [result |-> Inside(u.result),
     tokens |-> IF a.fields = "result" THEN OrElse(object.tokens, u.tokens) ELSE u.tokens,
     extras |-> IF a.fields # "extras" THEN u.extras
                ELSE [model |-> OrElse(object.model, u.extras.model),
                      tokens |-> OrElse(object.tokens, u.extras.tokens)]]

Round(u) ==
    IF Claimant("framework", Head(u.result)) = None THEN u
    ELSE Read(u, Head(u.result), Claimant("framework", Head(u.result)))

(* max_unwrap is 5. *)
Untouched(result) ==
    [result |-> result, tokens |-> None, extras |-> [model |-> None, tokens |-> None]]
Unwrapped(result) == Round(Round(Round(Round(Round(Untouched(result))))))

(* The provider in the model id of Bedrock. *)
Label(a, object) ==
    IF a.label = "bedrock" THEN OrElse(object.vendor, "bedrock") ELSE a.label

(* A provider adapter or the fallback, its result completed from the       *)
(* frameworks'.                                                            *)
Resolve(result) ==
    LET u == Unwrapped(result)
        object == Head(u.result)
        p == Claimant("provider", object)
        a == IF p # None THEN p ELSE Fallback
        reads == p # None /\ a.fields = "result"
    IN  [model    |-> IF reads THEN object.model ELSE IF p = None THEN Unknown ELSE None,
         provider |-> Label(a, object),
         tokens   |-> OrElse(IF reads THEN object.tokens ELSE None, u.tokens),
         extras   |-> u.extras]

-----------------------------------------------------------------------------
(* Chunks and requests *)

ResolveStreamChunk(chunk) ==
    FirstOf({i \in DOMAIN Registry : chunk.of \in Registry[i].streams})

(* The adapter that recognises the arguments of a call. *)
RequestAdapter(args) ==
    FirstOf({i \in DOMAIN Registry :
                \/ args.client # None /\ args.client \in Registry[i].clients
                \/ args.model # None /\ args.model \in Registry[i].families})

(* The scan for a model by the usual names when none does. *)
ResolveRequest(args) ==
    LET a == RequestAdapter(args)
    IN  [provider |-> IF a = None THEN None
                      ELSE IF a.kind = "framework" THEN OrElse(args.inside, Unknown)
                      ELSE IF a.label = "bedrock" THEN OrElse(args.inside, "bedrock")
                      ELSE a.label,
         model |-> IF a # None /\ a.kind = "framework" THEN OrElse(args.model, Unknown)
                   ELSE args.model]
=============================================================================
