---------------------------- MODULE Instrumentation ----------------------------
(***************************************************************************)
(* How the client patches objects it does not own: the interceptors that   *)
(* @llm installs on LLM clients (rastir/llm_discovery.py), and what the    *)
(* framework decorators do (rastir/framework_base.py) to LangGraph graphs, *)
(* CrewAI crews, Strands, ADK and LlamaIndex agents (rastir/..._support.py)*)
(*                                                                         *)
(* A run is one call of a decorated function.  It patches the places it    *)
(* finds, calls the function, and puts back what it saved.  Runs overlap,  *)
(* in threads or in tasks, on the same objects, without a lock.            *)
(*                                                                         *)
(* A slot is a place that is patched: a method, an attribute, a key.  What *)
(* it holds is the sequence of the runs whose wrappers are around the      *)
(* original, the outermost first: <<>> is the original.                    *)
(*                                                                         *)
(* A definition followed by one of nearly the same name is a defect of the *)
(* second: the behaviour used only to see which property it breaks.        *)
(***************************************************************************)
EXTENDS Naturals, Sequences, FiniteSets

CONSTANTS Runs,      \* calls of decorated functions
          Slots,     \* places that are patched
          MaxVisits  \* bound: slots a run comes across, repetitions counted

ASSUME InstrumentationAssumption == MaxVisits \in Nat \ {0}

VARIABLES
    \* the program
    style,      \* how each slot is patched
    at,         \* what it holds
    phase,      \* what each run is doing
    todo,       \* the slots it is still to visit, the one in hand first
    looked,     \* what it has read from the slot it is patching
    visited,    \* the objects it has a record of
    holds,      \* the slots it is going to restore ...
    saved,      \* ... and to what
    balks,      \* those of them that refused its wrapper
    tagged,     \* the tools that have the attribute that says they are patched
    \* history
    crossed,    \* slots restored while another run held the wrapper removed
    forgotten,  \* slots of which a run lost its record without restoring them
    raced       \* tools found unpatched by a run while another was patching them

vars == <<style, at, phase, todo, looked, visited, holds, saved, balks, tagged,
          crossed, forgotten, raced>>

Original == <<>>

(* How an object is patched.                                               *)
(*   marked   a wrapper that is in place is recognised and left alone      *)
(*   record   "keep": what was saved is kept when the run comes across the *)
(*            object again; "once": the object is then passed over;        *)
(*            "reset": the record of it is started anew                    *)
(*   undo     "saved": what was saved is put back; "original": the         *)
(*            instance's own attribute is deleted, and so is the marker,   *)
(*            which is an attribute of its own                             *)
(*   stacks   a new wrapper goes around the one that was read              *)
(*   guarded  the patching is inside the try whose finally restores        *)
(*   restore  the records are gone through "forward" or "backward", up to  *)
(*            the first that cannot be put back, or that one is "caught"   *)
Styles ==
    [marked : BOOLEAN, record : {"keep", "once", "reset"}, undo : {"saved", "original"},
     stacks : BOOLEAN, guarded : BOOLEAN, restore : {"forward", "backward", "caught"}]
Marked ==
    [marked |-> TRUE, record |-> "keep", undo |-> "saved", stacks |-> FALSE,
     guarded |-> TRUE, restore |-> "forward"]
Tool == [Marked EXCEPT !.undo = "original", !.stacks = TRUE]

(* What each of them patches: of a crew and of a Strands agent the LLM and *)
(* the tools; of a LlamaIndex agent the LLM, which is recognised, and the  *)
(* list of tools, which is saved and written back whatever is in it.       *)
Discovery  == {[Marked EXCEPT !.guarded = FALSE, !.restore = "caught"]}
LangGraph  == {[Marked EXCEPT !.restore = "backward"]}
CrewAI     == {[Marked EXCEPT !.record = "reset"], [Tool EXCEPT !.record = "reset"]}
Strands    == {[Marked EXCEPT !.record = "once"], [Tool EXCEPT !.record = "once"]}
ADK        == {[Marked EXCEPT !.marked = FALSE, !.record = "once", !.stacks = TRUE,
                              !.restore = "caught"]}
LlamaIndex == {[Marked EXCEPT !.record = "reset"],
               [Marked EXCEPT !.record = "reset", !.marked = FALSE]}

(* The marker of a tool is apart from the method that is patched.          *)
Apart(s) == style[s].undo = "original"

Frameworks == {Discovery, LangGraph, CrewAI, Strands, ADK, LlamaIndex}

(* The objects a run comes across: discovery and the walk through a graph  *)
(* keep a set of those seen; the agents of a crew and the arguments of a   *)
(* call may name one twice.                                                *)
Distinct(order) == \A i, j \in DOMAIN order : order[i] = order[j] => i = j
Orders ==
    {order \in UNION {[1..n -> Slots] : n \in 1..MaxVisits} :
        (\E i \in DOMAIN order : style[order[i]].record = "keep") => Distinct(order)}

-----------------------------------------------------------------------------

Init ==
    /\ \E f \in Frameworks : style \in [Slots -> f]
    /\ at = [s \in Slots |-> Original]
    /\ phase = [r \in Runs |-> "idle"]
    /\ todo = [r \in Runs |-> <<>>]
    /\ looked = [r \in Runs |-> Original]
    /\ visited = [r \in Runs |-> {}]
    /\ holds = [r \in Runs |-> {}]
    /\ saved = [r \in Runs |-> [s \in Slots |-> Original]]
    /\ balks = [r \in Runs |-> {}]
    /\ tagged = {}
    /\ crossed = {}
    /\ forgotten = {}
    /\ raced = {}

(* The wrapper of a decorated function collects what it is going to patch. *)
Start(r) ==
    /\ phase[r] = "idle"
    /\ \E order \in Orders : todo' = [todo EXCEPT ![r] = order]
    /\ phase' = [phase EXCEPT ![r] = "looking"]
    /\ UNCHANGED <<style, at, looked, visited, holds, saved, balks, tagged,
                   crossed, forgotten, raced>>

(* The records of a run after it has come to s again.                      *)
Recorded(r, s) ==
    IF style[s].record = "reset" THEN holds[r] \ {s} ELSE holds[r]

(* What is passed over. *)
SkipsNever(r, s) == s \in visited[r] /\ style[s].record = "once"
Skips(r, s) ==
    \/ s \in visited[r] /\ style[s].record = "once"
    \/ style[s].marked /\ IF Apart(s) THEN s \in tagged ELSE at[s] # Original

(* The slot in hand, from the test on: a tool is tested, read, patched and *)
(* marked, and later restored and unmarked, one after the other.           *)
Handles(r, s) ==
    phase[r] \in {"reading", "patching", "marking", "unmarking"} /\ s = Head(todo[r])

(* Runs, other than r, that have found s unpatched and not yet marked it.  *)
Patching(r, s) == {q \in Runs \ {r} : phase[q] # "unmarking" /\ Handles(q, s)}

(* A run looks at the slot.  Where the wrapper itself says what it is, the *)
(* value tested is the one that is saved; another run may change the slot  *)
(* before it is written.                                                   *)
Look(r) ==
    LET s == Head(todo[r])
    IN  /\ phase[r] = "looking"
        /\ todo[r] # <<>>
        /\ visited' = [visited EXCEPT ![r] = @ \union {s}]
        /\ holds' = [holds EXCEPT ![r] = Recorded(r, s)]
        /\ forgotten' = forgotten \union (holds[r] \ Recorded(r, s))
        /\ \/ /\ Skips(r, s)
              /\ todo' = [todo EXCEPT ![r] = Tail(@)]
              /\ UNCHANGED <<phase, looked, raced>>
           \/ /\ ~Skips(r, s) /\ ~Apart(s)
              /\ looked' = [looked EXCEPT ![r] = at[s]]
              /\ phase' = [phase EXCEPT ![r] = "patching"]
              /\ UNCHANGED <<todo, raced>>
           \/ /\ ~Skips(r, s) /\ Apart(s)
              /\ phase' = [phase EXCEPT ![r] = "reading"]
              /\ raced' = IF Patching(r, s) = {} THEN raced ELSE raced \union {s}
              /\ UNCHANGED <<todo, looked>>
        /\ UNCHANGED <<style, at, saved, balks, tagged, crossed>>

(* The method of a tool is read after its marker was tested ...            *)
Read(r) ==
    /\ phase[r] = "reading"
    /\ looked' = [looked EXCEPT ![r] = at[Head(todo[r])]]
    /\ phase' = [phase EXCEPT ![r] = "patching"]
    /\ UNCHANGED <<style, at, todo, visited, holds, saved, balks, tagged,
                   crossed, forgotten, raced>>

(* The value written over what was read. *)
Layered(r, s) ==
    IF style[s].stacks \/ looked[r] = Original THEN <<r>> \o looked[r] ELSE looked[r]

Patch(r) ==
    LET s == Head(todo[r])
    IN  /\ phase[r] = "patching"
        /\ at' = [at EXCEPT ![s] = Layered(r, s)]
        /\ holds' = [holds EXCEPT ![r] = @ \union {s}]
        /\ saved' = [saved EXCEPT ![r][s] = looked[r]]
        /\ phase' = [phase EXCEPT ![r] = IF Apart(s) THEN "marking" ELSE "looking"]
        /\ todo' = [todo EXCEPT ![r] = IF Apart(s) THEN @ ELSE Tail(@)]
        /\ looked' = [looked EXCEPT ![r] = Original]
        /\ UNCHANGED <<style, visited, balks, tagged, crossed, forgotten, raced>>

(* ... and the marker is set after the method was written.                 *)
Mark(r) ==
    /\ phase[r] = "marking"
    /\ tagged' = tagged \union {Head(todo[r])}
    /\ todo' = [todo EXCEPT ![r] = Tail(@)]
    /\ phase' = [phase EXCEPT ![r] = "looking"]
    /\ UNCHANGED <<style, at, looked, visited, holds, saved, balks,
                   crossed, forgotten, raced>>

(* The object refuses the wrapper with an exception that is not caught.    *)
(* Frameworks patch inside the try whose finally restores, and save before *)
(* they assign what they will put back; but the methods of an agent's      *)
(* tools are on record only once all of them are patched.  @llm installs   *)
(* its interceptors before its try: what it saved is gone.                 *)
Refuse(r) ==
    LET s == Head(todo[r])
        own == IF style[s].guarded /\ style[s].undo = "saved" THEN {s} ELSE {}
        tools == {t \in holds[r] : style[s].undo = "original" /\ style[t].undo = "original"}
    IN  /\ phase[r] = "patching"
        /\ phase' = [phase EXCEPT ![r] = IF style[s].guarded THEN "undoing" ELSE "failed"]
        /\ todo' = [todo EXCEPT ![r] = <<>>]
        /\ looked' = [looked EXCEPT ![r] = Original]
        /\ saved' = [saved EXCEPT ![r][s] = IF own = {} THEN @ ELSE looked[r]]
        /\ balks' = [balks EXCEPT ![r] = own]
        /\ \E lost \in IF style[s].guarded THEN SUBSET tools ELSE {holds[r]} :
              /\ holds' = [holds EXCEPT ![r] = (@ \ lost) \union own]
              /\ forgotten' = forgotten \union lost
        /\ UNCHANGED <<style, at, visited, tagged, crossed, raced>>

(* ... or it is caught: discovery goes on without that method.             *)
Unpatchable(r) ==
    /\ phase[r] = "patching"
    /\ ~style[Head(todo[r])].guarded
    /\ todo' = [todo EXCEPT ![r] = Tail(@)]
    /\ phase' = [phase EXCEPT ![r] = "looking"]
    /\ looked' = [looked EXCEPT ![r] = Original]
    /\ UNCHANGED <<style, at, visited, holds, saved, balks, tagged,
                   crossed, forgotten, raced>>

(* The decorated function is called. *)
Enter(r) ==
    /\ phase[r] = "looking"
    /\ todo[r] = <<>>
    /\ phase' = [phase EXCEPT ![r] = "running"]
    /\ UNCHANGED <<style, at, todo, looked, visited, holds, saved, balks, tagged,
                   crossed, forgotten, raced>>

(* It returns or raises: what was saved is put back, slot by slot.         *)
Leave(r) ==
    /\ phase[r] = "running"
    /\ phase' = [phase EXCEPT ![r] = "undoing"]
    /\ UNCHANGED <<style, at, todo, looked, visited, holds, saved, balks, tagged,
                   crossed, forgotten, raced>>

Open(r) == phase[r] \notin {"idle", "ended", "failed"}

(* Runs, other than r, that are going to put a wrapper of r back.          *)
Holding(r, s) ==
    {q \in Runs \ {r} :
        \/ s \in holds[q] /\ \E i \in DOMAIN saved[q][s] : saved[q][s][i] = r
        \/ /\ phase[q] = "patching" /\ s = Head(todo[q])
           /\ \E i \in DOMAIN looked[q] : looked[q][i] = r}

UndoneAsFound(r, s) == at[s]
Undone(r, s) == IF style[s].undo = "saved" THEN saved[r][s] ELSE Original

(* The slot that refused the wrapper was the last to be recorded.          *)
InTurn(r, s) ==
    /\ phase[r] = "undoing"
    /\ s \in holds[r]
    /\ balks[r] # {} =>
          IF style[s].restore = "backward" THEN s \in balks[r]
          ELSE s \in balks[r] => holds[r] = {s}

(* The method of a tool is deleted first, then its marker.                 *)
Restore(r, s) ==
    /\ InTurn(r, s)
    /\ at' = [at EXCEPT ![s] = Undone(r, s)]
    /\ holds' = [holds EXCEPT ![r] = @ \ {s}]
    /\ balks' = [balks EXCEPT ![r] = @ \ {s}]
    /\ crossed' = IF Holding(r, s) = {} THEN crossed ELSE crossed \union {s}
    /\ saved' = [saved EXCEPT ![r][s] = Original]
    /\ phase' = [phase EXCEPT ![r] = IF Apart(s) THEN "unmarking" ELSE "undoing"]
    /\ todo' = [todo EXCEPT ![r] = IF Apart(s) THEN <<s>> ELSE <<>>]
    /\ UNCHANGED <<style, looked, visited, tagged, forgotten, raced>>

Unmark(r) ==
    /\ phase[r] = "unmarking"
    /\ tagged' = tagged \ {Head(todo[r])}
    /\ todo' = [todo EXCEPT ![r] = <<>>]
    /\ phase' = [phase EXCEPT ![r] = "undoing"]
    /\ UNCHANGED <<style, at, looked, visited, holds, saved, balks,
                   crossed, forgotten, raced>>

(* An object that refused the wrapper may refuse what was there as well.   *)
(* Where that is not caught the records that are left are lost, the agent  *)
(* and the span of the run stay current, and its span is never queued.     *)
RestoreRefused(r, s) ==
    LET lost == IF style[s].restore = "caught" THEN {s} ELSE holds[r]
    IN  /\ InTurn(r, s)
        /\ s \in balks[r]
        /\ holds' = [holds EXCEPT ![r] = @ \ lost]
        /\ balks' = [balks EXCEPT ![r] = {}]
        /\ forgotten' = forgotten \union lost
        /\ phase' = [phase EXCEPT ![r] =
                         IF style[s].restore = "caught" THEN "undoing" ELSE "failed"]
        /\ UNCHANGED <<style, at, todo, looked, visited, saved, tagged, crossed, raced>>

(* All is restored: the agent is reset and the span is ended and queued.   *)
End(r) ==
    /\ phase[r] = "undoing"
    /\ holds[r] = {}
    /\ phase' = [phase EXCEPT ![r] = "ended"]
    /\ UNCHANGED <<style, at, todo, looked, visited, holds, saved, balks, tagged,
                   crossed, forgotten, raced>>

Next ==
    \/ \E r \in Runs : Start(r) \/ Look(r) \/ Patch(r) \/ Refuse(r) \/ Unpatchable(r)
    \/ \E r \in Runs : Read(r) \/ Mark(r) \/ Unmark(r)
    \/ \E r \in Runs : Enter(r) \/ Leave(r) \/ End(r)
    \/ \E r \in Runs, s \in Slots : Restore(r, s) \/ RestoreRefused(r, s)

Spec == Init /\ [][Next]_vars

-----------------------------------------------------------------------------

Phases ==
    {"idle", "looking", "reading", "patching", "marking", "running", "undoing", "unmarking",
     "ended", "failed"}

TypeOK ==
    /\ style \in [Slots -> Styles]
    /\ at \in [Slots -> Seq(Runs)]
    /\ phase \in [Runs -> Phases]
    /\ todo \in [Runs -> Seq(Slots)]
    /\ \A r \in Runs :
          phase[r] \in {"reading", "patching", "marking", "unmarking"} => todo[r] # <<>>
    /\ looked \in [Runs -> Seq(Runs)]
    /\ {visited, holds, balks} \subseteq [Runs -> SUBSET Slots]
    /\ saved \in [Runs -> [Slots -> Seq(Runs)]]
    /\ {tagged, crossed, forgotten, raced} \subseteq SUBSET Slots

(* Where wrappers are recognised, the outermost wrapper in a slot is of a  *)
(* run that will take it away: whatever the order in which overlapping     *)
(* runs, in threads or tasks, look, patch and restore, no response is      *)
(* attributed to a call that has ended alone.  And it is the only one,     *)
(* except on a tool that two runs found unpatched: its marker is tested    *)
(* long before it is set.  Only a run that lost its record of the slot, to *)
(* an agent named twice or an object that refuses, leaves one behind.      *)
OneOwner ==
    \A s \in Slots : style[s].marked =>
        \/ at[s] = Original
        \/ s \in forgotten
        \/ \E r \in Runs :
              s \in holds[r] /\ IF s \in raced THEN at[s][1] = r ELSE at[s] = <<r>>

(* When no run is open every slot holds the original again, and no tool is *)
(* left with the marker that would hide it from every later run, except    *)
(* where a record was lost, and where wrappers are not recognised and runs *)
(* did not end in the opposite order of their start.                       *)
OriginalsBack ==
    (\A r \in Runs : ~Open(r)) =>
        \A s \in Slots :
            \/ at[s] = Original /\ s \notin tagged
            \/ s \in forgotten
            \/ ~style[s].marked /\ s \in crossed

(* What the interface of the instrumentors promises: restore undoes        *)
(* everything done by wrap.  So when no run is open no wrapper is left.    *)
UndoesEverything ==
    (\A r \in Runs : ~Open(r)) => \A s \in Slots : at[s] = Original
=============================================================================
