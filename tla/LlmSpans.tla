-------------------------------- MODULE LlmSpans --------------------------------
(***************************************************************************)
(* What ends up on the span of an LLM call: the @llm decorator             *)
(* (rastir/decorators.py) and the wrapper of an LLM object                 *)
(* (rastir/wrapper.py), with the adapters and the configuration they       *)
(* consult.  Calls overlap with each other, with configure(), and on the   *)
(* wrapped object, which keeps a running total of the tokens it has used.  *)
(*                                                                         *)
(* Tokens are one number, for input and output alike.  Prompt and          *)
(* completion texts and evaluation attributes are left out.                *)
(*                                                                         *)
(* A definition followed by one of nearly the same name is a defect of the *)
(* second: the behaviour used only to see which property it breaks.        *)
(***************************************************************************)
EXTENDS Adapters, ClientConfig

CONSTANTS Requests,   \* arguments of calls
          Answers,    \* what calls return: a result, and who really made it
          Chunks,     \* origins of chunks of streams
          Running,    \* providers whose chunks carry a running total
          PriceList,  \* providers in the pricing file
          MaxTokens   \* bound: tokens of a call

(* What responses look like: objects of frameworks around one of an SDK,   *)
(* which tells its model; only LangChain repeats that.  An object of       *)
(* Bedrock tells the vendor of the model as well.                          *)
Frameworks == {"langgraph", "langchain", "llamaindex", "crewai"}
Makers == {"azure_openai", "groq", "openai", "anthropic", "gemini", "cohere", "mistral", "bedrock"}

Objects == [of : STRING, model : STRING \union {None, Unknown},
            tokens : {None, "reported"}, vendor : STRING \union {None, Unknown}]

Wrapped(result, i) == \A j \in 1..i - 1 : result[j].of \in Frameworks

Attributable(a) ==
    LET n == Len(a.result)
        inmost == a.result[n]
    IN  /\ n <= 6
        /\ Wrapped(a.result, n)
        /\ \A i \in 1..n - 1 : a.result[i].of = "langchain" =>
                a.result[i].model \in {None, Unknown, a.model}
        /\ inmost.of \in Makers
        /\ a.maker = IF inmost.of = "bedrock" THEN OrElse(inmost.vendor, "bedrock") ELSE inmost.of
        /\ inmost.model = a.model
        /\ a.model \notin {None, Unknown}

(* Tokens are told by the SDK's object, or by one of LangChain or CrewAI.  *)
Reports(a) ==
    \E i \in 1..Len(a.result) :
        /\ Wrapped(a.result, i)
        /\ a.result[i].tokens = "reported"
        /\ \/ a.result[i].of \in {"langchain", "crewai"} /\ i <= 5
           \/ a.result[i].of \in Makers /\ i <= 6

ASSUME LlmSpansAssumption ==
    /\ MaxTokens \in Nat
    /\ {None, Unknown} \intersect (Makers \union {"reported"}) = {}
    /\ None \notin Nat /\ Unknown \notin Nat /\ None # Unknown
    /\ None \notin Answers \union Chunks
    /\ Answers \intersect Chunks = {}
    /\ \A a \in Answers :
          /\ a.result \in Seq(Objects) \ {<<>>}
          /\ a.maker # None => Attributable(a)
          /\ a.reports => Reports(a)
    \* of the chunks that adapters read, Gemini's carry a running total
    /\ Running \intersect (Makers \union {"langgraph", "llamaindex"}) = {"gemini"}

VARIABLES
    phase,     \* what each call is doing
    path,      \* "decorated" or "wrapped"
    attrs,     \* the attributes of its span
    usage,     \* the running total of the wrapped object
    snapshot,  \* that total when the call began
    chunk,     \* usage in the chunk the consumer of the stream is looking at
    \* history
    own,       \* tokens the call has really used, or its stream reported
    answer,    \* what the call returned
    crowded,   \* wrapped calls during which another used the object
    late       \* calls that asked for the price when configure() had returned

callVars == <<phase, path, attrs, usage, snapshot, chunk, own, answer, crowded, late>>
llmVars == <<configVars, callVars>>

NoChunk == <<>>
NoAttrs == [model |-> None, provider |-> None, tokens |-> None, cost |-> None]

LlmInit ==
    /\ ConfigInit
    /\ phase = [c \in Users |-> "idle"]
    /\ path = [c \in Users |-> None]
    /\ attrs = [c \in Users |-> NoAttrs]
    /\ usage = 0
    /\ snapshot = [c \in Users |-> 0]
    /\ chunk = [c \in Users |-> NoChunk]
    /\ own = [c \in Users |-> 0]
    /\ answer = [c \in Users |-> None]
    /\ crowded = {}
    /\ late = {}

Goes(c, from, to) ==
    /\ phase[c] = from
    /\ phase' = [phase EXCEPT ![c] = to]

-----------------------------------------------------------------------------
(* The request *)

(* The decorator's arguments, then what the adapters see in the call's;    *)
(* evaluation of its own or of the configuration.                          *)
StartDecorated(c) ==
    \E a \in Requests, evaluate \in BOOLEAN :
        LET r == ResolveRequest(a)
        IN  /\ Goes(c, "idle", IF evaluate THEN "running" ELSE "starting")
            /\ path' = [path EXCEPT ![c] = "decorated"]
            /\ attrs' = [attrs EXCEPT ![c].model = r.model,
                                      ![c].provider = OrElse(r.provider, a.override)]
            /\ UNCHANGED <<configVars, usage, snapshot, chunk, own, answer, crowded, late>>

(* get_config() for the evaluation attributes has returned.                *)
BeginDecorated(c) ==
    /\ Goes(c, "starting", "running")
    /\ GetConfig(c)
    /\ UNCHANGED <<path, attrs, usage, snapshot, chunk, own, answer, crowded, late>>

(* The object's model and the provider of its module; the snapshot.        *)
StartWrapped(c) ==
    \E a \in Requests :
        /\ Goes(c, "idle", "running")
        /\ path' = [path EXCEPT ![c] = "wrapped"]
        /\ attrs' = [attrs EXCEPT ![c].model = a.model, ![c].provider = a.inside]
        /\ snapshot' = [snapshot EXCEPT ![c] = usage]
        /\ UNCHANGED <<configVars, usage, chunk, own, answer, crowded, late>>

-----------------------------------------------------------------------------
(* The response *)

(* The model answers; an object that keeps a total adds to it.             *)
Answer(c) ==
    \E n \in 0..MaxTokens :
        /\ Goes(c, "running", "answered")
        /\ own' = [own EXCEPT ![c] = n]
        /\ IF path[c] = "wrapped"
             THEN /\ usage' = usage + n
                  /\ crowded' = IF n = 0 THEN crowded
                                ELSE crowded \union {d \in Users \ {c} : path[d] = "wrapped"}
             ELSE UNCHANGED <<usage, crowded>>
        /\ UNCHANGED <<configVars, path, attrs, snapshot, chunk, answer, late>>

(* The difference is taken from a copy of the total.                       *)
TotalItself(c) == usage
TotalBefore(c) == snapshot[c]

(* The attributes a call has after its result r has been resolved: the     *)
(* decorator lets extra attributes replace what is there, the wrapper only *)
(* adds them, and takes the difference of the totals for missing tokens.   *)
Enriched(c, r) ==
    LET old == attrs[c]
        said(t) == IF t = None THEN None ELSE own[c]
        decorated == path[c] = "decorated"
        model == OrElse(r.model, old.model)
        tokens == OrElse(said(r.tokens), old.tokens)
        total == OrElse(tokens, said(r.extras.tokens))
    IN  [model    |-> IF decorated THEN OrElse(r.extras.model, OrElse(model, Unknown))
                      ELSE IF model = None THEN r.extras.model ELSE model,
         provider |-> LET p == OrElse(r.provider, old.provider)
                      IN  IF decorated THEN OrElse(p, Unknown) ELSE p,
         tokens   |-> IF decorated THEN OrElse(said(r.extras.tokens), tokens)
                      ELSE IF total \in {None, 0} /\ usage > TotalBefore(c)
                             THEN usage - TotalBefore(c)
                           ELSE total,
         cost     |-> old.cost]

Enrich(c) ==
    \E a \in Answers :
        /\ Goes(c, "answered", "ending")
        /\ answer' = [answer EXCEPT ![c] = a]
        /\ attrs' = [attrs EXCEPT ![c] = Enriched(c, Resolve(a.result))]
        /\ UNCHANGED <<configVars, path, usage, snapshot, chunk, own, crowded, late>>

(* The call raises, before or after it has used tokens.                    *)
Raise(c) ==
    /\ phase[c] \in {"running", "answered", "streaming", "yielded"}
    /\ phase' = [phase EXCEPT ![c] = "ending"]
    /\ UNCHANGED <<configVars, path, attrs, usage, snapshot, chunk, own, answer, crowded, late>>

-----------------------------------------------------------------------------
(* Streams *)

(* The time to the first token is recorded if the configuration says so.   *)
FirstChunk(c) ==
    /\ Goes(c, "running", "streaming")
    /\ GetConfig(c)
    /\ UNCHANGED <<path, attrs, usage, snapshot, chunk, own, answer, crowded, late>>

(* What the decorator makes of a chunk from k with n tokens, or without    *)
(* usage.                                                                  *)
Accumulated(c, k, n) ==
    LET a == ResolveStreamChunk(k)
        old == attrs[c]
    IN  IF a = None THEN old
        ELSE [old EXCEPT
                !.tokens = IF a.mode = "cumulative" THEN OrElse(n, @)
                           ELSE OrElse(@, 0) + OrElse(n, 0),
                !.provider = IF @ = None /\ a.kind # "framework" /\ a.label # "bedrock"
                               THEN a.label ELSE @]

(* A chunk is yielded first and read when the consumer asks for the next:  *)
(* one that closes the stream instead leaves its last chunk unread.  The   *)
(* wrapper passes chunks on and reads none.                                *)
Chunk(c) ==
    \E k \in Chunks, n \in (0..MaxTokens) \union {None} :
        LET total == IF n = None THEN own[c]
                     ELSE IF k.of \in Running THEN n ELSE own[c] + n
        IN  /\ path[c] = "decorated"
            /\ Goes(c, "streaming", "yielded")
            /\ answer[c] \in {None, k}
            /\ total \in own[c]..MaxTokens
            /\ own' = [own EXCEPT ![c] = total]
            /\ answer' = [answer EXCEPT ![c] = k]
            /\ chunk' = [chunk EXCEPT ![c] = <<n>>]
            /\ UNCHANGED <<configVars, path, attrs, usage, snapshot, crowded, late>>

Resume(c) ==
    /\ Goes(c, "yielded", "streaming")
    /\ attrs' = [attrs EXCEPT ![c] = Accumulated(c, answer[c], Head(chunk[c]))]
    /\ chunk' = [chunk EXCEPT ![c] = NoChunk]
    /\ UNCHANGED <<configVars, path, usage, snapshot, own, answer, crowded, late>>

EndStream(c) ==
    /\ Goes(c, "streaming", "ending")
    /\ UNCHANGED <<configVars, path, attrs, usage, snapshot, chunk, own, answer, crowded, late>>

-----------------------------------------------------------------------------
(* The end *)

Defaults(c) ==
    [attrs[c] EXCEPT !.model = IF @ = None THEN Unknown ELSE @,
                     !.provider = IF @ = None THEN Unknown ELSE @]

Finalize(c) ==
    /\ GetConfig(c)
    /\ Goes(c, "ending", IF config'.cost THEN "pricing" ELSE "final")
    /\ attrs' = [attrs EXCEPT ![c] = Defaults(c)]
    /\ late' = IF Configured THEN late \union {c} ELSE late
    /\ UNCHANGED <<path, usage, snapshot, chunk, own, answer, crowded>>

(* Without a registry the decorator says that the price is missing, and    *)
(* the wrapper says nothing.                                               *)
Price(c) ==
    /\ Goes(c, "pricing", "final")
    /\ attrs' = [attrs EXCEPT ![c].cost =
          IF pricing = Absent THEN IF path[c] = "decorated" THEN "missing" ELSE None
          ELSE IF attrs[c].provider \in PriceList THEN "priced" ELSE "missing"]
    /\ UNCHANGED <<configVars, path, usage, snapshot, chunk, own, answer, crowded, late>>

(* The span goes to the queue. *)
EnqueueSpan(c) ==
    /\ Goes(c, "final", "done")
    /\ path' = [path EXCEPT ![c] = None]
    /\ attrs' = [attrs EXCEPT ![c] = NoAttrs]
    /\ snapshot' = [snapshot EXCEPT ![c] = 0]
    /\ chunk' = [chunk EXCEPT ![c] = NoChunk]
    /\ own' = [own EXCEPT ![c] = 0]
    /\ answer' = [answer EXCEPT ![c] = None]
    /\ crowded' = crowded \ {c}
    /\ late' = late \ {c}
    /\ UNCHANGED <<configVars, usage>>

(* get_config() finds nothing. *)
Miss(c) ==
    /\ phase[c] \in {"starting", "running", "ending"}
    /\ MissConfig(c)
    /\ UNCHANGED callVars

LlmNext ==
    \/ ConfigNext /\ UNCHANGED callVars
    \/ \E c \in Users :
          \/ StartDecorated(c) \/ BeginDecorated(c) \/ StartWrapped(c)
          \/ Answer(c) \/ Enrich(c) \/ Raise(c)
          \/ FirstChunk(c) \/ Chunk(c) \/ Resume(c) \/ EndStream(c)
          \/ Finalize(c) \/ Price(c) \/ EnqueueSpan(c) \/ Miss(c)

LlmSpec == LlmInit /\ [][LlmNext]_llmVars

-----------------------------------------------------------------------------
(* Properties *)

Final(c) == phase[c] = "final"
Returned(c) == answer[c] # None /\ answer[c] \notin Chunks
Streamed(c) == answer[c] \in Chunks

(* A response is attributed to who made it, whatever frameworks wrapped it *)
(* and whatever the request looked like, and its tokens are the ones it    *)
(* reports: adapters of more than one SDK claim some classes, and those of *)
(* a framework hide the response (adapters/registry.py:59-89).  A wrapped  *)
(* call that reports none may be given those of an overlapping one.        *)
ResponseAttributed ==
    \A c \in Users : Final(c) /\ Returned(c) =>
        LET a == answer[c]
        IN  /\ a.maker # None =>
                 attrs[c].provider = a.maker /\ attrs[c].model = a.model
            /\ a.reports => attrs[c].tokens = own[c] \/ (own[c] = 0 /\ c \in crowded)

(* The tokens of a wrapped call taken from the object's running total are  *)
(* its own as long as no other call used the object meanwhile, and never   *)
(* fewer (wrapper.py:694-732 reads the total before and after the call).   *)
OwnTokens ==
    \A c \in Users : Final(c) /\ Returned(c) /\ path[c] = "wrapped" =>
        /\ OrElse(attrs[c].tokens, 0) >= own[c]
        /\ c \notin crowded => OrElse(attrs[c].tokens, 0) = own[c]

(* The tokens of a decorated stream are those its chunks have reported,    *)
(* although some providers report a running total and others differences;  *)
(* only the last chunk of a stream that is closed early does not count     *)
(* (decorators.py:366-367, 605-642).                                       *)
StreamCounted ==
    \A c \in Users :
        /\ Final(c) /\ Streamed(c)
        /\ ResolveStreamChunk(answer[c]) # None
        /\ chunk[c] = NoChunk
        => OrElse(attrs[c].tokens, 0) = own[c]

(* A call that asks for its price when a configure() that enables costs    *)
(* has returned gets one from the price list, on both paths; only calls    *)
(* that overlap with configure(), or follow one that raised, do without    *)
(* (config.py:239-251 publishes the configuration before the prices).      *)
CostAsConfigured ==
    \A c \in Users : Final(c) /\ c \in late /\ config.cost =>
        attrs[c].cost = IF attrs[c].provider \in PriceList THEN "priced" ELSE "missing"

(* The configuration in force is never replaced: not by a get_config() that *)
(* found none and waited for the lock, nor by another configure()          *)
(* (config.py:167-172, 284-287).                                                    *)
ConfigLocked == [][config # Absent => config' = config]_config
=============================================================================
