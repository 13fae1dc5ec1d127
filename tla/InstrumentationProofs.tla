-------------------------- MODULE InstrumentationProofs --------------------------
(***************************************************************************)
(* What is proved of Instrumentation: for any number of runs and slots, in *)
(* every interleaving, the outermost wrapper of those that are recognised  *)
(* belongs to a run that will take it away, it is the only one where no    *)
(* two runs patched the same tool at once, and the originals are back when *)
(* no run is open.                                                         *)
(***************************************************************************)
EXTENDS Instrumentation, SequenceTheorems, TLAPS

-----------------------------------------------------------------------------
(* The inductive invariant *)

(* How slots are patched is settled at the start: where wrappers are not   *)
(* recognised, what was read is put back and no record is kept unchanged;  *)
(* tools are recognised, patched inside the try, and wrappers stack.       *)
Known ==
    \A s \in Slots :
        /\ ~style[s].marked => style[s].undo = "saved" /\ style[s].record # "keep"
        /\ Apart(s) => style[s].marked /\ style[s].stacks /\ style[s].guarded

(* What a run is doing with the slot in hand.                              *)
Reading(r, s) == phase[r] = "patching" /\ s = Head(todo[r])
Testing(r, s) == phase[r] \in {"reading", "patching"} /\ s = Head(todo[r])
Marking(r, s) == phase[r] = "marking" /\ s = Head(todo[r])
Unmarking(r, s) == phase[r] = "unmarking" /\ s = Head(todo[r])

(* Whose wrappers are around the original. *)
Owners(w) == {w[i] : i \in DOMAIN w}

(* Only a run that has come across a slot has a record of it, and only an  *)
(* open one; only tools are read and marked in steps of their own.         *)
Records ==
    \A r \in Runs :
        /\ holds[r] \subseteq visited[r]
        /\ \A s \in Slots :
              /\ Handles(r, s) => s \in visited[r] /\ (Apart(s) \/ Reading(r, s))
              /\ Marking(r, s) => s \in holds[r]
        /\ ~Open(r) => holds[r] = {}

(* A wrapper that says itself what it is is never saved.                   *)
NeverSaved(s) ==
    style[s].marked /\ ~Apart(s) =>
        \A r \in Runs :
            /\ saved[r][s] = Original
            /\ Reading(r, s) => looked[r] = Original

(* While a slot whose wrappers are not recognised is neither forgotten nor *)
(* crossed, each wrapper in it, and each that will be put back into it, is *)
(* of a run with a record of it.                                           *)
Accounted(s) ==
    ~style[s].marked /\ s \notin forgotten \union crossed =>
        /\ \A q \in Owners(at[s]) : s \in holds[q]
        /\ \A r \in Runs : s \in holds[r] =>
              \A q \in Owners(saved[r][s]) : q # r /\ s \in holds[q]
        /\ \A r \in Runs : Reading(r, s) =>
              \A q \in Owners(looked[r]) : q # r /\ s \in holds[q]

(* The outermost wrapper is of a run with a record of the slot.            *)
Outermost(s) ==
    style[s].marked =>
        \/ at[s] = Original
        \/ s \in forgotten
        \/ \E r \in Runs :
              s \in holds[r] /\ IF Apart(s) THEN at[s][1] = r ELSE at[s] = <<r>>

(* A marker is that of a run that will take it away.                       *)
Tags(s) ==
    s \in tagged /\ s \notin forgotten =>
        Apart(s) /\ \E r \in Runs : s \in holds[r] \/ Unmarking(r, s)

(* The runs that have anything to do with a tool; unless two raced to      *)
(* patch it, there is one at most, and method and marker agree.            *)
Engaged(r, s) == s \in holds[r] \/ Handles(r, s)
Single(s) ==
    Apart(s) /\ s \notin forgotten \union raced =>
        /\ \A q, r \in Runs : Engaged(q, s) /\ Engaged(r, s) => q = r
        /\ \A r \in Runs :
              /\ Testing(r, s) => at[s] = Original /\ s \notin tagged
              /\ Reading(r, s) => looked[r] = Original
              /\ s \in holds[r] => at[s] = <<r>> /\ (s \in tagged \/ Marking(r, s))
              /\ Unmarking(r, s) => at[s] = Original /\ s \in tagged
        /\ (\A r \in Runs : ~Engaged(r, s)) => at[s] = Original

SlotInv(s) == NeverSaved(s) /\ Accounted(s) /\ Outermost(s) /\ Tags(s) /\ Single(s)

Inv == TypeOK /\ Known /\ Records /\ \A s \in Slots : SlotInv(s)

-----------------------------------------------------------------------------
(* Types *)

LEMMA Types ==
    ASSUME TypeOK
    PROVE  /\ style \in [Slots -> Styles]
           /\ at \in [Slots -> Seq(Runs)]
           /\ phase \in [Runs -> Phases]
           /\ todo \in [Runs -> Seq(Slots)]
           /\ \A r \in Runs :
                 phase[r] \in {"reading", "patching", "marking", "unmarking"} => todo[r] # <<>>
           /\ looked \in [Runs -> Seq(Runs)]
           /\ visited \in [Runs -> SUBSET Slots]
           /\ holds \in [Runs -> SUBSET Slots]
           /\ balks \in [Runs -> SUBSET Slots]
           /\ saved \in [Runs -> [Slots -> Seq(Runs)]]
           /\ tagged \subseteq Slots
           /\ crossed \subseteq Slots
           /\ forgotten \subseteq Slots
           /\ raced \subseteq Slots
BY DEF TypeOK

LEMMA TypesKept ==
    ASSUME style' \in [Slots -> Styles],
           at' \in [Slots -> Seq(Runs)],
           phase' \in [Runs -> Phases],
           todo' \in [Runs -> Seq(Slots)],
           \A r \in Runs :
               phase'[r] \in {"reading", "patching", "marking", "unmarking"} => todo'[r] # <<>>,
           looked' \in [Runs -> Seq(Runs)],
           visited' \in [Runs -> SUBSET Slots],
           holds' \in [Runs -> SUBSET Slots],
           balks' \in [Runs -> SUBSET Slots],
           saved' \in [Runs -> [Slots -> Seq(Runs)]],
           tagged' \subseteq Slots,
           crossed' \subseteq Slots,
           forgotten' \subseteq Slots,
           raced' \subseteq Slots
    PROVE  TypeOK'
BY DEF TypeOK

(* The slots a run comes across, in the order in which it does.            *)
LEMMA OrdersAreSequences == \A order \in Orders : order \in Seq(Slots)
<1> SUFFICES ASSUME NEW order \in Orders
             PROVE  order \in Seq(Slots)
    OBVIOUS
<1>1. PICK n \in 1..MaxVisits : order \in [1..n -> Slots]
    BY DEF Orders
<1>2. n \in Nat
    BY <1>1, InstrumentationAssumption
<1> QED
    BY <1>1, <1>2

(* What is written over a slot: the wrapper of the run, or what it read.   *)
LEMMA LayeredOwners ==
    ASSUME NEW r \in Runs, NEW s \in Slots, looked[r] \in Seq(Runs)
    PROVE  /\ Layered(r, s) \in Seq(Runs)
           /\ Owners(Layered(r, s)) \subseteq {r} \union Owners(looked[r])
           /\ looked[r] = Original => Layered(r, s) = <<r>>
<1>1. /\ <<r>> \o looked[r] \in Seq(Runs)
      /\ Owners(<<r>> \o looked[r]) \subseteq {r} \union Owners(looked[r])
    <2> DEFINE w == <<r>> \o looked[r]
    <2>1. w \in Seq(Runs) /\ Len(w) = 1 + Len(looked[r])
        OBVIOUS
    <2>2. ASSUME NEW i \in DOMAIN w
          PROVE  w[i] \in {r} \union Owners(looked[r])
        <3>1. i \in 1..(1 + Len(looked[r]))
            BY <2>1, <2>2
        <3>2. CASE i = 1
            BY <3>2
        <3>3. CASE i # 1
            <4>1. i - 1 \in DOMAIN looked[r] /\ w[i] = looked[r][i - 1]
                BY <3>1, <3>3
            <4> QED
                BY <4>1 DEF Owners
        <3> QED
            BY <3>2, <3>3
    <2> QED
        BY <2>1, <2>2 DEF Owners
<1>2. looked[r] = Original => <<r>> \o looked[r] = <<r>>
    BY DEF Original
<1> QED
    BY <1>1, <1>2 DEF Layered

LEMMA OriginalUnowned == Owners(Original) = {}
BY DEF Owners, Original

LEMMA Unowned ==
    ASSUME NEW w \in Seq(Runs), Owners(w) = {}
    PROVE  w = Original
BY DEF Owners, Original

(* The slot in hand, and those after it. *)
LEMMA AtHead ==
    ASSUME TypeOK, NEW r \in Runs, todo[r] # <<>>
    PROVE  Head(todo[r]) \in Slots /\ Tail(todo[r]) \in Seq(Slots)
BY Types

(* A wrapper around nothing is one wrapper, and not the original.          *)
LEMMA OneWrapper ==
    ASSUME NEW r \in Runs
    PROVE  <<r>> # Original /\ <<r>>[1] = r
BY DEF Original

-----------------------------------------------------------------------------
(* Initial states *)

LEMMA InitInv == Init => Inv
<1> SUFFICES ASSUME Init PROVE Inv
    OBVIOUS
<1>1. PICK f \in Frameworks : style \in [Slots -> f]
    BY DEF Init
<1>2. /\ \A g \in f : g \in Styles
      /\ \A g \in f : ~g.marked => g.undo = "saved" /\ g.record # "keep"
      /\ \A g \in f : g.undo = "original" => g.marked /\ g.stacks /\ g.guarded
    <2>1. CASE f = Discovery
        BY <2>1 DEF Discovery, Marked, Styles
    <2>2. CASE f = CrewAI
        BY <2>2 DEF CrewAI, Tool, Marked, Styles
    <2>3. CASE f = Strands
        BY <2>3 DEF Strands, Tool, Marked, Styles
    <2>4. CASE f = ADK
        BY <2>4 DEF ADK, Marked, Styles
    <2>5. CASE f = LlamaIndex
        BY <2>5 DEF LlamaIndex, Marked, Styles
    <2>6. CASE f = LangGraph
        BY <2>6 DEF LangGraph, Marked, Styles
    <2> QED
        BY <1>1, <2>1, <2>2, <2>3, <2>4, <2>5, <2>6 DEF Frameworks
<1>3. /\ at = [s \in Slots |-> Original]
      /\ phase = [r \in Runs |-> "idle"]
      /\ todo = [r \in Runs |-> <<>>]
      /\ looked = [r \in Runs |-> Original]
      /\ visited = [r \in Runs |-> {}]
      /\ holds = [r \in Runs |-> {}]
      /\ saved = [r \in Runs |-> [s \in Slots |-> Original]]
      /\ balks = [r \in Runs |-> {}]
      /\ tagged = {} /\ crossed = {} /\ forgotten = {} /\ raced = {}
    BY DEF Init
<1>4. TypeOK
    BY <1>1, <1>2, <1>3 DEF TypeOK, Original, Phases
<1>5. Known
    BY <1>1, <1>2 DEF Known, Apart
<1>6. Records
    BY <1>3 DEF Records, Handles, Marking
<1>7. ASSUME NEW s \in Slots PROVE SlotInv(s)
    <2>1. NeverSaved(s) /\ Outermost(s) /\ Tags(s)
        BY <1>3 DEF NeverSaved, Outermost, Tags, Reading
    <2>2. Accounted(s)
        BY <1>3, OriginalUnowned DEF Accounted, Reading
    <2>3. Single(s)
        BY <1>3 DEF Single, Engaged, Handles, Testing, Reading, Unmarking
    <2> QED
        BY <2>1, <2>2, <2>3 DEF SlotInv
<1> QED
    BY <1>4, <1>5, <1>6, <1>7 DEF Inv

-----------------------------------------------------------------------------
(* Slots a step leaves alone *)

(* The step of a run changes what is known of that run only.               *)
Alone(r) ==
    /\ style' = style
    /\ \A q \in Runs : q # r =>
          /\ phase'[q] = phase[q] /\ todo'[q] = todo[q] /\ looked'[q] = looked[q]
          /\ holds'[q] = holds[q] /\ saved'[q] = saved[q]
    /\ forgotten \subseteq forgotten' /\ crossed \subseteq crossed' /\ raced \subseteq raced'

LEMMA OthersKept ==
    ASSUME NEW r \in Runs, Alone(r), NEW q \in Runs, q # r, NEW s \in Slots
    PROVE  /\ Handles(q, s)' <=> Handles(q, s)
           /\ Reading(q, s)' <=> Reading(q, s)
           /\ Testing(q, s)' <=> Testing(q, s)
           /\ Marking(q, s)' <=> Marking(q, s)
           /\ Unmarking(q, s)' <=> Unmarking(q, s)
           /\ Engaged(q, s)' <=> Engaged(q, s)
           /\ s \in holds'[q] <=> s \in holds[q]
           /\ saved'[q][s] = saved[q][s] /\ looked'[q] = looked[q]
           /\ phase'[q] = phase[q]
<1>1. /\ phase'[q] = phase[q] /\ todo'[q] = todo[q] /\ looked'[q] = looked[q]
      /\ holds'[q] = holds[q] /\ saved'[q] = saved[q]
    BY DEF Alone
<1> QED
    BY <1>1 DEF Handles, Reading, Testing, Marking, Unmarking, Engaged

LEMMA ApartKept ==
    ASSUME style' = style, NEW s \in Slots
    PROVE  Apart(s)' <=> Apart(s)
BY DEF Apart

(* What a run may have in hand. *)
LEMMA InHand ==
    ASSUME NEW r, NEW s
    PROVE  /\ Handles(r, s) <=> Testing(r, s) \/ Marking(r, s) \/ Unmarking(r, s)
           /\ Reading(r, s) => Testing(r, s)
           /\ ~(Testing(r, s) /\ Marking(r, s))
           /\ ~(Testing(r, s) /\ Unmarking(r, s))
           /\ ~(Marking(r, s) /\ Unmarking(r, s))
           /\ Handles(r, s) => Engaged(r, s)
BY DEF Handles, Testing, Marking, Unmarking, Reading, Engaged

LEMMA InHandNext ==
    ASSUME NEW r, NEW s
    PROVE  /\ Testing(r, s)' \/ Marking(r, s)' \/ Unmarking(r, s)' => Handles(r, s)'
           /\ Reading(r, s)' => Testing(r, s)'
           /\ Handles(r, s)' => Engaged(r, s)'
           /\ s \in holds'[r] => Engaged(r, s)'
BY DEF Handles, Testing, Marking, Unmarking, Reading, Engaged

(* A slot that the run has not in hand, and of which it neither gains nor  *)
(* loses a record.                                                         *)
LEMMA Elsewhere ==
    ASSUME Inv, NEW r \in Runs, Alone(r), NEW s \in Slots,
           ~Handles(r, s), ~Handles(r, s)',
           at'[s] = at[s],
           saved'[r][s] = saved[r][s],
           s \in tagged' <=> s \in tagged,
           s \in holds'[r] <=> s \in holds[r]
    PROVE  SlotInv(s)'
<1>1. SlotInv(s) /\ style' = style
    BY DEF Inv, Alone
<1>2. \A q \in Runs :
          /\ Handles(q, s)' <=> Handles(q, s)
          /\ Reading(q, s)' <=> Reading(q, s)
          /\ Testing(q, s)' <=> Testing(q, s)
          /\ Marking(q, s)' <=> Marking(q, s)
          /\ Unmarking(q, s)' <=> Unmarking(q, s)
          /\ Engaged(q, s)' <=> Engaged(q, s)
          /\ s \in holds'[q] <=> s \in holds[q]
          /\ saved'[q][s] = saved[q][s]
          /\ Reading(q, s) => looked'[q] = looked[q]
    <2> SUFFICES ASSUME NEW q \in Runs
                 PROVE  /\ Handles(q, s)' <=> Handles(q, s)
                        /\ Reading(q, s)' <=> Reading(q, s)
                        /\ Testing(q, s)' <=> Testing(q, s)
                        /\ Marking(q, s)' <=> Marking(q, s)
                        /\ Unmarking(q, s)' <=> Unmarking(q, s)
                        /\ Engaged(q, s)' <=> Engaged(q, s)
                        /\ s \in holds'[q] <=> s \in holds[q]
                        /\ saved'[q][s] = saved[q][s]
                        /\ Reading(q, s) => looked'[q] = looked[q]
        OBVIOUS
    <2>1. CASE q # r
        BY <2>1, OthersKept
    <2>2. CASE q = r
        BY <2>2 DEF Handles, Reading, Testing, Marking, Unmarking, Engaged
    <2> QED
        BY <2>1, <2>2
<1>3. /\ s \in forgotten => s \in forgotten'
      /\ s \in crossed => s \in crossed'
      /\ s \in raced => s \in raced'
      /\ Apart(s)' <=> Apart(s)
    BY ApartKept DEF Alone
<1>4. NeverSaved(s)'
    BY <1>1, <1>2, <1>3 DEF SlotInv, NeverSaved
<1>5. Accounted(s)'
    <2> SUFFICES ASSUME ~style[s].marked, s \notin forgotten', s \notin crossed'
                 PROVE  /\ \A q \in Owners(at'[s]) : s \in holds'[q]
                        /\ \A p \in Runs : s \in holds'[p] =>
                              \A q \in Owners(saved'[p][s]) : q # p /\ s \in holds'[q]
                        /\ \A p \in Runs : Reading(p, s)' =>
                              \A q \in Owners(looked'[p]) : q # p /\ s \in holds'[q]
        BY <1>1 DEF Accounted
    <2>1. /\ Owners(at[s]) \subseteq Runs
          /\ \A p \in Runs : Owners(saved[p][s]) \subseteq Runs /\ Owners(looked[p]) \subseteq Runs
        BY Types DEF Inv, Owners
    <2>2. s \notin forgotten \union crossed
        BY <1>3
    <2> QED
        BY <1>1, <1>2, <2>1, <2>2 DEF SlotInv, Accounted
<1>6. Outermost(s)'
    BY <1>1, <1>2, <1>3 DEF SlotInv, Outermost
<1>7. Tags(s)'
    BY <1>1, <1>2, <1>3 DEF SlotInv, Tags
<1>8. Single(s)'
    <2>1. Apart(s) /\ s \notin forgotten' \union raced' =>
             /\ \A q, p \in Runs : Engaged(q, s) /\ Engaged(p, s) => q = p
             /\ \A q \in Runs :
                   /\ Testing(q, s) => at[s] = Original /\ s \notin tagged
                   /\ Reading(q, s) => looked[q] = Original
                   /\ s \in holds[q] => at[s] = <<q>> /\ (s \in tagged \/ Marking(q, s))
                   /\ Unmarking(q, s) => at[s] = Original /\ s \in tagged
             /\ (\A q \in Runs : ~Engaged(q, s)) => at[s] = Original
        BY <1>1, <1>3 DEF SlotInv, Single
    <2> QED
        BY <1>2, <1>3, <2>1 DEF Single
<1> QED
    BY <1>4, <1>5, <1>6, <1>7, <1>8 DEF SlotInv

(* A slot that is forgotten: only that nothing recognised was saved.       *)
LEMMA Lost ==
    ASSUME NEW s \in Slots, s \in forgotten', NeverSaved(s)'
    PROVE  SlotInv(s)'
BY DEF SlotInv, Accounted, Outermost, Tags, Single

-----------------------------------------------------------------------------
(* Steps *)

(* A step that has no slot in hand and changes no slot, no record and no   *)
(* marker.                                                                 *)
LEMMA Moved ==
    ASSUME Inv, NEW r \in Runs, Alone(r), TypeOK',
           UNCHANGED <<at, visited, holds, saved, tagged>>,
           ~Open(r)' => holds[r] = {},
           \A s \in Slots : ~Handles(r, s) /\ ~Handles(r, s)'
    PROVE  Inv'
<1>1. Known'
    BY DEF Inv, Known, Alone, Apart
<1>2. Records'
    <2> SUFFICES ASSUME NEW q \in Runs
                 PROVE  /\ holds'[q] \subseteq visited'[q]
                        /\ \A s \in Slots :
                              /\ Handles(q, s)' => s \in visited'[q] /\ (Apart(s)' \/ Reading(q, s)')
                              /\ Marking(q, s)' => s \in holds'[q]
                        /\ ~Open(q)' => holds'[q] = {}
        BY DEF Records
    <2>1. CASE q = r
        BY <2>1 DEF Inv, Records, Marking, Handles
    <2>2. CASE q # r
        <3>1. \A s \in Slots : /\ Handles(q, s)' <=> Handles(q, s)
                               /\ Reading(q, s)' <=> Reading(q, s)
                               /\ Marking(q, s)' <=> Marking(q, s)
                               /\ Apart(s)' <=> Apart(s)
            BY <2>2, OthersKept DEF Alone, Apart
        <3>2. Open(q)' <=> Open(q)
            BY <2>2 DEF Open, Alone
        <3> QED
            BY <3>1, <3>2 DEF Inv, Records
    <2> QED
        BY <2>1, <2>2
<1>3. \A s \in Slots : SlotInv(s)'
    BY Elsewhere
<1> QED
    BY <1>1, <1>2, <1>3 DEF Inv

LEMMA StartInv ==
    ASSUME Inv, NEW r \in Runs, Start(r)
    PROVE  Inv'
<1>1. /\ phase[r] = "idle"
      /\ phase' = [phase EXCEPT ![r] = "looking"]
      /\ UNCHANGED <<style, at, looked, visited, holds, saved, balks, tagged,
                     crossed, forgotten, raced>>
    BY DEF Start
<1>2. PICK order \in Orders : todo' = [todo EXCEPT ![r] = order]
    BY DEF Start
<1>3. TypeOK /\ order \in Seq(Slots)
    BY OrdersAreSequences DEF Inv
<1>4. TypeOK'
    BY <1>1, <1>2, <1>3, Types, TypesKept DEF Phases
<1>5. Alone(r) /\ phase'[r] = "looking"
    BY <1>1, <1>2, <1>3, Types DEF Alone
<1> QED
    BY <1>1, <1>4, <1>5, Moved DEF Open, Handles

LEMMA MoveInv ==
    ASSUME Inv, NEW r \in Runs, Enter(r) \/ Leave(r) \/ End(r)
    PROVE  Inv'
<1>1. /\ UNCHANGED <<style, at, visited, holds, saved, crossed, forgotten>>
      /\ UNCHANGED <<todo, looked, balks, tagged, raced>>
      /\ phase[r] \in {"looking", "running", "undoing"}
    BY DEF Enter, Leave, End
<1>2. PICK p \in {"running", "undoing", "ended"} :
          /\ phase' = [phase EXCEPT ![r] = p]
          /\ p = "ended" => holds[r] = {}
    BY DEF Enter, Leave, End
<1>3. TypeOK
    BY DEF Inv
<1>4. TypeOK'
    BY <1>1, <1>2, <1>3, Types, TypesKept DEF Phases
<1>5. Alone(r) /\ phase'[r] = p
    BY <1>1, <1>2, <1>3, Types DEF Alone
<1> QED
    BY <1>1, <1>2, <1>4, <1>5, Moved DEF Open, Handles

(* Every other lemma about a step has a slot in hand: this is what does    *)
(* not depend on it.                                                       *)
LEMMA Bookkept ==
    ASSUME Inv, NEW r \in Runs, Alone(r), NEW s \in Slots,
           \A q \in Runs : q # r => visited'[q] = visited[q],
           visited[r] \subseteq visited'[r],
           holds'[r] \subseteq visited'[r],
           ~Open(r)' => holds'[r] = {},
           \A t \in Slots : Handles(r, t)' => t = s,
           Handles(r, s)' => s \in visited'[r] /\ (Apart(s) \/ Reading(r, s)'),
           Marking(r, s)' => s \in holds'[r]
    PROVE  Known' /\ Records'
<1>1. Known'
    BY DEF Inv, Known, Alone, Apart
<1>2. Records'
    <2> SUFFICES ASSUME NEW q \in Runs
                 PROVE  /\ holds'[q] \subseteq visited'[q]
                        /\ \A t \in Slots :
                              /\ Handles(q, t)' => t \in visited'[q] /\ (Apart(t)' \/ Reading(q, t)')
                              /\ Marking(q, t)' => t \in holds'[q]
                        /\ ~Open(q)' => holds'[q] = {}
        BY DEF Records
    <2>1. \A t \in Slots : Apart(t)' <=> Apart(t)
        BY DEF Alone, Apart
    <2>2. CASE q = r
        BY <2>1, <2>2 DEF Marking, Handles
    <2>3. CASE q # r
        <3>1. \A t \in Slots : /\ Handles(q, t)' <=> Handles(q, t)
                               /\ Reading(q, t)' <=> Reading(q, t)
                               /\ Marking(q, t)' <=> Marking(q, t)
            BY <2>3, OthersKept
        <3>2. (Open(q)' <=> Open(q)) /\ holds'[q] = holds[q]
            BY <2>3 DEF Open, Alone
        <3> QED
            BY <2>1, <2>3, <3>1, <3>2 DEF Inv, Records
    <2> QED
        BY <2>2, <2>3
<1> QED
    BY <1>1, <1>2

LEMMA UnpatchableInv ==
    ASSUME Inv, NEW r \in Runs, Unpatchable(r)
    PROVE  Inv'
<1>0. TypeOK /\ phase[r] = "patching" /\ todo[r] # <<>>
    BY Types DEF Inv, Unpatchable
<1>1. PICK s \in Slots : s = Head(todo[r])
    BY <1>0, AtHead
<1>2. /\ phase[r] = "patching"
      /\ ~style[s].guarded
      /\ todo' = [todo EXCEPT ![r] = Tail(todo[r])]
      /\ phase' = [phase EXCEPT ![r] = "looking"]
      /\ looked' = [looked EXCEPT ![r] = Original]
      /\ UNCHANGED <<style, at, visited, holds, saved, balks, tagged,
                     crossed, forgotten, raced>>
    BY <1>1 DEF Unpatchable
<1>3. TypeOK'
    <2>1. Tail(todo[r]) \in Seq(Slots) /\ Original \in Seq(Runs)
        BY <1>0, AtHead DEF Original
    <2> QED
        BY <1>0, <1>2, <2>1, Types, TypesKept DEF Phases
<1>4. Alone(r) /\ phase'[r] = "looking"
    BY <1>0, <1>2, Types DEF Alone
<1>5. (\A t \in Slots : Handles(r, t) => t = s) /\ (\A t \in Slots : ~Handles(r, t)')
    BY <1>1, <1>4 DEF Handles
<1>6. Known' /\ Records'
    BY <1>2, <1>4, <1>5, Bookkept DEF Open, Handles, Marking, Inv, Records
<1>7. \A t \in Slots : t # s => SlotInv(t)'
    BY <1>2, <1>4, <1>5, Elsewhere
<1>8. SlotInv(s)'
    <2>1. /\ ~Apart(s) /\ SlotInv(s) /\ (Apart(s)' <=> Apart(s))
        BY <1>2, ApartKept DEF Inv, Known
    <2>2. \A q \in Runs : /\ Reading(q, s)' => Reading(q, s) /\ looked'[q] = looked[q]
                          /\ Unmarking(q, s)' <=> Unmarking(q, s)
        <3>1. ASSUME NEW q \in Runs, q # r
              PROVE  /\ Reading(q, s)' => Reading(q, s) /\ looked'[q] = looked[q]
                     /\ Unmarking(q, s)' <=> Unmarking(q, s)
            BY <1>4, <3>1, OthersKept
        <3>2. /\ ~Reading(r, s)'
              /\ ~Unmarking(r, s)' /\ ~Unmarking(r, s)
            BY <1>2, <1>4 DEF Reading, Unmarking
        <3> QED
            BY <3>1, <3>2
    <2>3. NeverSaved(s)' /\ Outermost(s)' /\ Tags(s)' /\ Single(s)'
        BY <1>2, <2>1, <2>2 DEF SlotInv, NeverSaved, Outermost, Tags, Single
    <2>4. Accounted(s)'
        BY <1>2, <2>1, <2>2 DEF SlotInv, Accounted
    <2> QED
        BY <2>3, <2>4 DEF SlotInv
<1> QED
    BY <1>3, <1>6, <1>7, <1>8 DEF Inv

LEMMA LookInv ==
    ASSUME Inv, NEW r \in Runs, Look(r)
    PROVE  Inv'
<1>0. TypeOK /\ phase[r] = "looking" /\ todo[r] # <<>>
    BY DEF Inv, Look
<1>1. PICK s \in Slots : s = Head(todo[r])
    BY <1>0, AtHead
<1>2. /\ visited' = [visited EXCEPT ![r] = visited[r] \union {s}]
      /\ holds' = [holds EXCEPT ![r] = Recorded(r, s)]
      /\ forgotten' = forgotten \union (holds[r] \ Recorded(r, s))
      /\ UNCHANGED <<style, at, saved, balks, tagged, crossed>>
    BY <1>1 DEF Look
<1>3. \/ /\ Skips(r, s)
         /\ todo' = [todo EXCEPT ![r] = Tail(todo[r])]
         /\ UNCHANGED <<phase, looked, raced>>
      \/ /\ ~Skips(r, s) /\ ~Apart(s)
         /\ looked' = [looked EXCEPT ![r] = at[s]]
         /\ phase' = [phase EXCEPT ![r] = "patching"]
         /\ UNCHANGED <<todo, raced>>
      \/ /\ ~Skips(r, s) /\ Apart(s)
         /\ phase' = [phase EXCEPT ![r] = "reading"]
         /\ raced' = IF Patching(r, s) = {} THEN raced ELSE raced \union {s}
         /\ UNCHANGED <<todo, looked>>
    BY <1>1 DEF Look
<1>4. /\ Recorded(r, s) \subseteq holds[r]
      /\ holds[r] \subseteq Recorded(r, s) \union {s}
      /\ style[s].record = "reset" => s \notin Recorded(r, s)
    BY DEF Recorded
<1>5. TypeOK'
    <2>1. Tail(todo[r]) \in Seq(Slots)
        BY <1>0, AtHead
    <2> QED
        BY <1>0, <1>2, <1>3, <1>4, <2>1, Types, TypesKept DEF Phases
<1>6. /\ Alone(r)
      /\ holds'[r] = Recorded(r, s)
      /\ visited'[r] = visited[r] \union {s}
      /\ \A q \in Runs : q # r => visited'[q] = visited[q]
    BY <1>0, <1>2, <1>3, Types DEF Alone
<1>7. (\A t \in Slots : ~Handles(r, t)) /\ (\A t \in Slots : Handles(r, t)' => t = s)
    BY <1>0, <1>1, <1>3, Types DEF Handles
<1>8. Known' /\ Records'
    <2>1. Open(r) /\ Open(r)'
        BY <1>0, <1>3, Types DEF Open
    <2>2. Handles(r, s)' => Apart(s) \/ Reading(r, s)'
        BY <1>0, <1>3, <1>1, Types DEF Handles, Reading
    <2>3. ~Marking(r, s)'
        BY <1>0, <1>3, Types DEF Marking
    <2>4. holds[r] \subseteq visited[r]
        BY DEF Inv, Records
    <2> QED
        BY <1>4, <1>6, <1>7, <2>1, <2>2, <2>3, <2>4, Bookkept
<1>9. \A t \in Slots : t # s => SlotInv(t)'
    BY <1>2, <1>4, <1>6, <1>7, Elsewhere
<1>10. SlotInv(s)'
    <2>1. SlotInv(s) /\ (Apart(s)' <=> Apart(s)) /\ style' = style
        BY <1>2, ApartKept DEF Inv
    <2>2. \A q \in Runs : q # r =>
              /\ Handles(q, s)' <=> Handles(q, s)
              /\ Reading(q, s)' <=> Reading(q, s)
              /\ Testing(q, s)' <=> Testing(q, s)
              /\ Marking(q, s)' <=> Marking(q, s)
              /\ Unmarking(q, s)' <=> Unmarking(q, s)
              /\ Engaged(q, s)' <=> Engaged(q, s)
              /\ s \in holds'[q] <=> s \in holds[q]
              /\ looked'[q] = looked[q]
        BY <1>6, OthersKept
    <2>3. Reading(r, s)' => looked'[r] = at[s] /\ ~Skips(r, s) /\ ~Apart(s)
        BY <1>0, <1>3, Types DEF Reading
    <2>4. NeverSaved(s)'
        <3>1. style[s].marked /\ Reading(r, s)' => looked'[r] = Original
            BY <2>3 DEF Skips
        <3> QED
            BY <1>2, <2>1, <2>2, <3>1 DEF SlotInv, NeverSaved
    <2>5. CASE s \in forgotten'
        BY <2>4, <2>5, Lost
    <2>6. CASE s \notin forgotten' /\ Skips(r, s)
        <3>2. ~Handles(r, s)'
            BY <1>0, <1>3, <2>6 DEF Handles
        <3>3. s \in holds'[r] <=> s \in holds[r]
            BY <1>2, <1>4, <1>6, <2>6
        <3> QED
            BY <1>2, <1>6, <1>7, <3>2, <3>3, Elsewhere
    <2>7. CASE s \notin forgotten' /\ ~Skips(r, s) /\ ~Apart(s)
        <3>1. Outermost(s)' /\ Tags(s)' /\ Single(s)'
            <4>1. /\ s \notin forgotten
                  /\ \A q \in Runs : s \in holds'[q] <=> s \in holds[q]
                BY <1>2, <1>4, <1>6, <2>2, <2>7
            <4> QED
                BY <1>2, <2>1, <2>7, <4>1 DEF SlotInv, Outermost, Tags, Single
        <3>2. Accounted(s)'
            <4> SUFFICES ASSUME ~style[s].marked, s \notin crossed
                         PROVE  /\ \A q \in Owners(at[s]) : s \in holds'[q]
                                /\ \A p \in Runs : s \in holds'[p] =>
                                      \A q \in Owners(saved[p][s]) : q # p /\ s \in holds'[q]
                                /\ \A p \in Runs : Reading(p, s)' =>
                                      \A q \in Owners(looked'[p]) : q # p /\ s \in holds'[q]
                BY <1>2, <2>1 DEF Accounted
            <4>1. /\ s \notin forgotten
                  /\ \A q \in Runs : s \in holds'[q] <=> s \in holds[q]
                BY <1>2, <1>4, <1>6, <2>2, <2>7
            <4>2. Owners(at[s]) \subseteq Runs /\ \A p \in Runs :
                      Owners(saved[p][s]) \subseteq Runs /\ Owners(looked[p]) \subseteq Runs
                BY <1>0, Types DEF Owners
            <4>3. /\ \A q \in Owners(at[s]) : s \in holds[q]
                  /\ \A p \in Runs : s \in holds[p] =>
                        \A q \in Owners(saved[p][s]) : q # p /\ s \in holds[q]
                  /\ \A p \in Runs : Reading(p, s) =>
                        \A q \in Owners(looked[p]) : q # p /\ s \in holds[q]
                BY <2>1, <4>1 DEF SlotInv, Accounted
            <4>4. r \notin Owners(at[s])
                <5> SUFFICES ASSUME s \in holds[r] PROVE FALSE
                    BY <4>3
                <5>1. s \in visited[r]
                    BY DEF Inv, Records
                <5>2. style[s].record \in {"keep", "once", "reset"} /\ style[s].record # "keep"
                    BY <1>0, Types DEF Styles, Inv, Known
                <5>3. style[s].record = "reset"
                    BY <2>7, <5>1, <5>2 DEF Skips
                <5> QED
                    BY <1>4, <1>6, <4>1, <5>3
            <4>5. \A p \in Runs : Reading(p, s)' =>
                      \A q \in Owners(looked'[p]) : q # p /\ s \in holds'[q]
                <5>1. ASSUME NEW p \in Runs, Reading(p, s)', p # r
                      PROVE  \A q \in Owners(looked'[p]) : q # p /\ s \in holds'[q]
                    BY <2>2, <4>1, <4>2, <4>3, <5>1
                <5>2. ASSUME Reading(r, s)'
                      PROVE  \A q \in Owners(looked'[r]) : q # r /\ s \in holds'[q]
                    BY <2>3, <4>1, <4>2, <4>3, <4>4, <5>2
                <5> QED
                    BY <5>1, <5>2
            <4> QED
                BY <4>1, <4>2, <4>3, <4>5
        <3> QED
            BY <2>4, <3>1, <3>2 DEF SlotInv
    <2>8. CASE s \notin forgotten' /\ ~Skips(r, s) /\ Apart(s)
        <3>1. /\ s \notin forgotten /\ style[s].marked /\ s \notin tagged
              /\ \A q \in Runs : s \in holds'[q] <=> s \in holds[q]
              /\ phase'[r] = "reading"
            BY <1>0, <1>2, <1>3, <1>4, <1>6, <2>2, <2>8, Types DEF Skips, Inv, Known
        <3>2. Accounted(s)' /\ Outermost(s)' /\ Tags(s)'
            BY <1>2, <2>1, <3>1 DEF SlotInv, Accounted, Outermost, Tags
        <3>3. Single(s)'
            <4> SUFFICES ASSUME s \notin raced'
                         PROVE  Single(s)'
                BY DEF Single
            <4>1. Patching(r, s) = {} /\ s \notin raced
                BY <1>3, <2>8
            <4>2. \A q \in Runs :
                      /\ s \in holds[q] => Marking(q, s)
                      /\ ~Unmarking(q, s)
                BY <2>1, <2>8, <3>1, <4>1 DEF SlotInv, Single
            <4>3. ASSUME NEW q \in Runs PROVE ~Engaged(q, s)
                <5>1. CASE q = r
                    BY <1>7, <4>2, <5>1, InHand DEF Engaged
                <5>2. CASE q # r
                    <6>1. ~Handles(q, s)
                        BY <4>1, <4>2, <5>2 DEF Patching, Handles, Unmarking
                    <6> QED
                        BY <4>2, <6>1, InHand DEF Engaged
                <5> QED
                    BY <5>1, <5>2
            <4>4. at[s] = Original
                BY <2>1, <2>8, <3>1, <4>1, <4>3 DEF SlotInv, Single
            <4>5. ~Reading(r, s)' /\ ~Unmarking(r, s)'
                BY <3>1 DEF Reading, Unmarking
            <4>6. ASSUME NEW q \in Runs, q # r
                  PROVE  ~Engaged(q, s)' /\ ~Testing(q, s)' /\ ~Reading(q, s)' /\ ~Unmarking(q, s)'
                BY <2>2, <4>3, <4>6, InHand
            <4>7. \A q \in Runs : s \notin holds'[q]
                BY <3>1, <4>3 DEF Engaged
            <4> QED
                BY <1>2, <3>1, <4>4, <4>5, <4>6, <4>7 DEF Single
        <3> QED
            BY <2>4, <3>2, <3>3 DEF SlotInv
    <2> QED
        BY <2>5, <2>6, <2>7, <2>8
<1> QED
    BY <1>5, <1>8, <1>9, <1>10 DEF Inv

(* The steps on a tool in hand: nothing recognised is saved, and what is   *)
(* accounted for is not a tool.                                            *)
LEMMA ToolInv ==
    ASSUME NEW s \in Slots, Apart(s), Known, style' = style,
           Outermost(s)', Tags(s)', Single(s)'
    PROVE  SlotInv(s)'
BY DEF SlotInv, NeverSaved, Accounted, Known, Apart

LEMMA ReadInv ==
    ASSUME Inv, NEW r \in Runs, Read(r)
    PROVE  Inv'
<1>0. TypeOK /\ phase[r] = "reading" /\ todo[r] # <<>>
    BY Types DEF Inv, Read
<1>1. PICK s \in Slots : s = Head(todo[r])
    BY <1>0, AtHead
<1>2. /\ looked' = [looked EXCEPT ![r] = at[s]]
      /\ phase' = [phase EXCEPT ![r] = "patching"]
      /\ UNCHANGED <<style, at, todo, visited, holds, saved, balks, tagged,
                     crossed, forgotten, raced>>
    BY <1>1 DEF Read
<1>3. TypeOK'
    BY <1>0, <1>2, Types, TypesKept DEF Phases
<1>4. Alone(r) /\ phase'[r] = "patching" /\ looked'[r] = at[s]
    BY <1>0, <1>2, Types DEF Alone
<1>5. /\ Handles(r, s) /\ Testing(r, s) /\ Handles(r, s)'
      /\ ~Unmarking(r, s)' /\ ~Unmarking(r, s) /\ ~Marking(r, s)' /\ ~Marking(r, s)
      /\ ~Reading(r, s)
      /\ \A t \in Slots : t # s => ~Handles(r, t) /\ ~Handles(r, t)'
    BY <1>0, <1>1, <1>2, <1>4 DEF Handles, Testing, Marking, Unmarking, Reading
<1>6. Apart(s) /\ s \in visited[r]
    BY <1>5 DEF Inv, Records
<1>7. Known' /\ Records'
    <2>1. Open(r)'
        BY <1>4 DEF Open
    <2>2. holds[r] \subseteq visited[r]
        BY DEF Inv, Records
    <2> QED
        BY <1>2, <1>4, <1>5, <1>6, <2>1, <2>2, Bookkept
<1>8. \A t \in Slots : t # s => SlotInv(t)'
    BY <1>2, <1>4, <1>5, Elsewhere
<1>9. SlotInv(s)'
    <2>1. SlotInv(s) /\ (Apart(s)' <=> Apart(s)) /\ style' = style
        BY <1>2, ApartKept DEF Inv
    <2>2. \A q \in Runs : q # r =>
              /\ Handles(q, s)' <=> Handles(q, s)
              /\ Reading(q, s)' <=> Reading(q, s)
              /\ Testing(q, s)' <=> Testing(q, s)
              /\ Marking(q, s)' <=> Marking(q, s)
              /\ Unmarking(q, s)' <=> Unmarking(q, s)
              /\ Engaged(q, s)' <=> Engaged(q, s)
              /\ s \in holds'[q] <=> s \in holds[q]
              /\ saved'[q][s] = saved[q][s] /\ looked'[q] = looked[q]
        BY <1>4, OthersKept
    <2>3. Outermost(s)'
        BY <1>2, <2>1 DEF SlotInv, Outermost
    <2>4. Tags(s)'
        BY <1>2, <1>5, <2>1, <2>2 DEF SlotInv, Tags
    <2>5. Single(s)'
        <3> SUFFICES ASSUME s \notin forgotten \union raced
                     PROVE  Single(s)'
            BY <1>2 DEF Single
        <3>1. at[s] = Original /\ s \notin tagged
            BY <1>5, <1>6, <2>1 DEF SlotInv, Single
        <3>2. \A q \in Runs : Engaged(q, s)' <=> Engaged(q, s)
            BY <1>2, <1>5, <2>2 DEF Engaged
        <3>3. \A q, p \in Runs : Engaged(q, s) /\ Engaged(p, s) => q = p
            BY <1>6, <2>1 DEF SlotInv, Single
        <3>4. \A q \in Runs : q # r => ~Engaged(q, s)
            BY <1>5, <3>3 DEF Engaged
        <3>5. s \notin holds[r]
            BY <1>5, <1>6, <2>1, <3>1 DEF SlotInv, Single
        <3>6. Engaged(r, s)'
            BY <1>5 DEF Engaged
        <3>7. \A q \in Runs : s \notin holds'[q] /\ ~Unmarking(q, s)'
            BY <1>2, <1>5, <2>2, <3>4, <3>5, InHand DEF Engaged
        <3>8. \A q \in Runs : Reading(q, s)' => q = r
            BY <2>2, <3>4, InHand
        <3> QED
            BY <1>2, <1>4, <3>1, <3>2, <3>3, <3>6, <3>7, <3>8 DEF Single
    <2> QED
        BY <1>6, <2>1, <2>3, <2>4, <2>5, ToolInv DEF Inv
<1> QED
    BY <1>3, <1>7, <1>8, <1>9 DEF Inv

LEMMA MarkInv ==
    ASSUME Inv, NEW r \in Runs, Mark(r)
    PROVE  Inv'
<1>0. TypeOK /\ phase[r] = "marking" /\ todo[r] # <<>>
    BY Types DEF Inv, Mark
<1>1. PICK s \in Slots : s = Head(todo[r])
    BY <1>0, AtHead
<1>2. /\ tagged' = tagged \union {s}
      /\ todo' = [todo EXCEPT ![r] = Tail(todo[r])]
      /\ phase' = [phase EXCEPT ![r] = "looking"]
      /\ UNCHANGED <<style, at, looked, visited, holds, saved, balks,
                     crossed, forgotten, raced>>
    BY <1>1 DEF Mark
<1>3. TypeOK'
    <2>1. Tail(todo[r]) \in Seq(Slots)
        BY <1>0, AtHead
    <2> QED
        BY <1>0, <1>2, <2>1, Types, TypesKept DEF Phases
<1>4. Alone(r) /\ phase'[r] = "looking"
    BY <1>0, <1>2, Types DEF Alone
<1>5. /\ Handles(r, s) /\ Marking(r, s)
      /\ \A t \in Slots : ~Handles(r, t)'
      /\ \A t \in Slots : t # s => ~Handles(r, t)
    BY <1>0, <1>1, <1>4 DEF Handles, Marking
<1>6. Apart(s) /\ s \in visited[r] /\ s \in holds[r]
    BY <1>0, <1>5 DEF Inv, Records, Reading
<1>7. Known' /\ Records'
    <2>1. Open(r)'
        BY <1>4 DEF Open
    <2>2. holds[r] \subseteq visited[r]
        BY DEF Inv, Records
    <2> QED
        BY <1>2, <1>4, <1>5, <2>1, <2>2, Bookkept, InHandNext
<1>8. \A t \in Slots : t # s => SlotInv(t)'
    BY <1>2, <1>4, <1>5, Elsewhere
<1>9. SlotInv(s)'
    <2>1. SlotInv(s) /\ (Apart(s)' <=> Apart(s)) /\ style' = style
        BY <1>2, ApartKept DEF Inv
    <2>2. \A q \in Runs : q # r =>
              /\ Handles(q, s)' <=> Handles(q, s)
              /\ Reading(q, s)' <=> Reading(q, s)
              /\ Testing(q, s)' <=> Testing(q, s)
              /\ Marking(q, s)' <=> Marking(q, s)
              /\ Unmarking(q, s)' <=> Unmarking(q, s)
              /\ Engaged(q, s)' <=> Engaged(q, s)
              /\ s \in holds'[q] <=> s \in holds[q]
              /\ saved'[q][s] = saved[q][s] /\ looked'[q] = looked[q]
        BY <1>4, OthersKept
    <2>3. Outermost(s)' /\ Tags(s)'
        BY <1>2, <1>6, <2>1 DEF SlotInv, Outermost, Tags
    <2>4. Single(s)'
        <3> SUFFICES ASSUME s \notin forgotten \union raced
                     PROVE  Single(s)'
            BY <1>2 DEF Single
        <3>1. at[s] = <<r>>
            BY <1>6, <2>1 DEF SlotInv, Single
        <3>2. \A q \in Runs : q # r => ~Engaged(q, s)
            BY <1>6, <2>1 DEF SlotInv, Single, Engaged
        <3>3. \A q \in Runs : q # r => ~Engaged(q, s)'
            BY <2>2, <3>2
        <3>4. \A q \in Runs : ~Testing(q, s)' /\ ~Reading(q, s)' /\ ~Unmarking(q, s)'
            BY <1>5, <3>3, InHandNext
        <3>5. Engaged(r, s)' /\ \A q \in Runs : s \in holds'[q] => q = r
            BY <1>2, <1>6, <3>3 DEF Engaged
        <3> QED
            BY <1>2, <3>1, <3>3, <3>4, <3>5 DEF Single
    <2> QED
        BY <1>6, <2>1, <2>3, <2>4, ToolInv DEF Inv
<1> QED
    BY <1>3, <1>7, <1>8, <1>9 DEF Inv

LEMMA UnmarkInv ==
    ASSUME Inv, NEW r \in Runs, Unmark(r)
    PROVE  Inv'
<1>0. TypeOK /\ phase[r] = "unmarking" /\ todo[r] # <<>>
    BY Types DEF Inv, Unmark
<1>1. PICK s \in Slots : s = Head(todo[r])
    BY <1>0, AtHead
<1>2. /\ tagged' = tagged \ {s}
      /\ todo' = [todo EXCEPT ![r] = <<>>]
      /\ phase' = [phase EXCEPT ![r] = "undoing"]
      /\ UNCHANGED <<style, at, looked, visited, holds, saved, balks,
                     crossed, forgotten, raced>>
    BY <1>1 DEF Unmark
<1>3. TypeOK'
    <2>1. <<>> \in Seq(Slots)
        OBVIOUS
    <2> QED
        BY <1>0, <1>2, <2>1, Types, TypesKept DEF Phases
<1>4. Alone(r) /\ phase'[r] = "undoing"
    BY <1>0, <1>2, Types DEF Alone
<1>5. /\ Handles(r, s) /\ Unmarking(r, s)
      /\ \A t \in Slots : ~Handles(r, t)'
      /\ \A t \in Slots : t # s => ~Handles(r, t)
    BY <1>0, <1>1, <1>4 DEF Handles, Unmarking
<1>6. Apart(s)
    BY <1>0, <1>5 DEF Inv, Records, Reading
<1>7. Known' /\ Records'
    <2>1. Open(r)'
        BY <1>4 DEF Open
    <2>2. holds[r] \subseteq visited[r]
        BY DEF Inv, Records
    <2> QED
        BY <1>2, <1>4, <1>5, <2>1, <2>2, Bookkept, InHandNext
<1>8. \A t \in Slots : t # s => SlotInv(t)'
    BY <1>2, <1>4, <1>5, Elsewhere
<1>9. SlotInv(s)'
    <2>1. SlotInv(s) /\ (Apart(s)' <=> Apart(s)) /\ style' = style
        BY <1>2, ApartKept DEF Inv
    <2>2. \A q \in Runs : q # r =>
              /\ Handles(q, s)' <=> Handles(q, s)
              /\ Reading(q, s)' <=> Reading(q, s)
              /\ Testing(q, s)' <=> Testing(q, s)
              /\ Marking(q, s)' <=> Marking(q, s)
              /\ Unmarking(q, s)' <=> Unmarking(q, s)
              /\ Engaged(q, s)' <=> Engaged(q, s)
              /\ s \in holds'[q] <=> s \in holds[q]
              /\ saved'[q][s] = saved[q][s] /\ looked'[q] = looked[q]
        BY <1>4, OthersKept
    <2>3. Outermost(s)' /\ Tags(s)'
        BY <1>2, <2>1 DEF SlotInv, Outermost, Tags
    <2>4. Single(s)'
        <3> SUFFICES ASSUME s \notin forgotten \union raced
                     PROVE  Single(s)'
            BY <1>2 DEF Single
        <3>1. at[s] = Original
            BY <1>5, <1>6, <2>1 DEF SlotInv, Single
        <3>2. s \notin holds[r]
            BY <1>6, <2>1, <3>1, OneWrapper DEF SlotInv, Single
        <3>3. \A q \in Runs : q # r => ~Engaged(q, s)
            BY <1>5, <1>6, <2>1 DEF SlotInv, Single, Engaged
        <3>4. \A q \in Runs : ~Engaged(q, s)'
            BY <1>2, <1>5, <2>2, <3>2, <3>3 DEF Engaged
        <3>5. \A q \in Runs : /\ ~Testing(q, s)' /\ ~Reading(q, s)' /\ ~Unmarking(q, s)'
                              /\ s \notin holds'[q]
            BY <3>4, InHandNext
        <3> QED
            BY <1>2, <3>1, <3>4, <3>5 DEF Single
    <2> QED
        BY <1>6, <2>1, <2>3, <2>4, ToolInv DEF Inv
<1> QED
    BY <1>3, <1>7, <1>8, <1>9 DEF Inv

(* The wrapper goes over what was read, even where another run patched or  *)
(* restored the slot in between.                                           *)
LEMMA PatchInv ==
    ASSUME Inv, NEW r \in Runs, Patch(r)
    PROVE  Inv'
<1>0. TypeOK /\ phase[r] = "patching" /\ todo[r] # <<>>
    BY Types DEF Inv, Patch
<1>1. PICK s \in Slots : s = Head(todo[r])
    BY <1>0, AtHead
<1>2. /\ at' = [at EXCEPT ![s] = Layered(r, s)]
      /\ holds' = [holds EXCEPT ![r] = holds[r] \union {s}]
      /\ saved' = [saved EXCEPT ![r][s] = looked[r]]
      /\ phase' = [phase EXCEPT ![r] = IF Apart(s) THEN "marking" ELSE "looking"]
      /\ todo' = [todo EXCEPT ![r] = IF Apart(s) THEN todo[r] ELSE Tail(todo[r])]
      /\ looked' = [looked EXCEPT ![r] = Original]
      /\ UNCHANGED <<style, visited, balks, tagged, crossed, forgotten, raced>>
    BY <1>1 DEF Patch
<1>3. /\ Layered(r, s) \in Seq(Runs) /\ looked[r] \in Seq(Runs)
      /\ Owners(Layered(r, s)) \subseteq {r} \union Owners(looked[r])
      /\ looked[r] = Original => Layered(r, s) = <<r>>
      /\ Apart(s) => Layered(r, s)[1] = r
    <2>1. looked[r] \in Seq(Runs)
        BY <1>0, Types
    <2>2. Apart(s) => Layered(r, s) = <<r>> \o looked[r]
        BY DEF Layered, Inv, Known
    <2>3. (<<r>> \o looked[r])[1] = r
        BY <2>1
    <2> QED
        BY <2>1, <2>2, <2>3, LayeredOwners
<1>4. Alone(r)
    BY <1>0, <1>2, Types DEF Alone
<1>5. /\ holds'[r] = holds[r] \union {s}
      /\ saved'[r][s] = looked[r]
      /\ \A t \in Slots : t # s => saved'[r][t] = saved[r][t] /\ at'[t] = at[t]
      /\ at'[s] = Layered(r, s)
      /\ phase'[r] = IF Apart(s) THEN "marking" ELSE "looking"
      /\ todo'[r] = IF Apart(s) THEN todo[r] ELSE Tail(todo[r])
    BY <1>0, <1>2, Types
<1>6. TypeOK'
    <2>1. at' \in [Slots -> Seq(Runs)] /\ saved' \in [Runs -> [Slots -> Seq(Runs)]]
        BY <1>0, <1>2, <1>3, Types
    <2>2. looked' \in [Runs -> Seq(Runs)] /\ holds' \in [Runs -> SUBSET Slots]
        BY <1>0, <1>2, Types DEF Original
    <2>3. todo' \in [Runs -> Seq(Slots)] /\ phase' \in [Runs -> Phases]
        BY <1>0, <1>2, AtHead, Types DEF Phases
    <2>4. \A q \in Runs :
              phase'[q] \in {"reading", "patching", "marking", "unmarking"} => todo'[q] # <<>>
        BY <1>0, <1>4, <1>5, Types DEF Alone
    <2> QED
        BY <1>0, <1>2, <2>1, <2>2, <2>3, <2>4, Types, TypesKept
<1>7. /\ Handles(r, s) /\ Reading(r, s)
      /\ ~Reading(r, s)' /\ ~Testing(r, s)' /\ ~Unmarking(r, s)' /\ ~Unmarking(r, s)
      /\ Apart(s) => Marking(r, s)'
      /\ Handles(r, s)' => Apart(s)
      /\ \A t \in Slots : t # s => ~Handles(r, t) /\ ~Handles(r, t)'
    BY <1>0, <1>1, <1>5 DEF Handles, Reading, Testing, Marking, Unmarking
<1>8. Known' /\ Records'
    <2>1. Open(r)'
        BY <1>5 DEF Open
    <2>2. holds[r] \subseteq visited[r] /\ s \in visited[r]
        BY <1>7 DEF Inv, Records
    <2> QED
        BY <1>2, <1>4, <1>5, <1>7, <2>1, <2>2, Bookkept
<1>9. \A t \in Slots : t # s => SlotInv(t)'
    BY <1>2, <1>4, <1>5, <1>7, Elsewhere
<1>10. SlotInv(s)'
    <2>1. SlotInv(s) /\ (Apart(s)' <=> Apart(s)) /\ style' = style
        BY <1>2, ApartKept DEF Inv
    <2>2. \A q \in Runs : q # r =>
              /\ Handles(q, s)' <=> Handles(q, s)
              /\ Reading(q, s)' <=> Reading(q, s)
              /\ Testing(q, s)' <=> Testing(q, s)
              /\ Marking(q, s)' <=> Marking(q, s)
              /\ Unmarking(q, s)' <=> Unmarking(q, s)
              /\ Engaged(q, s)' <=> Engaged(q, s)
              /\ s \in holds'[q] <=> s \in holds[q]
              /\ saved'[q][s] = saved[q][s] /\ looked'[q] = looked[q]
        BY <1>4, OthersKept
    <2>3. CASE Apart(s)
        <3>1. Outermost(s)'
            BY <1>3, <1>5, <2>1, <2>3 DEF Outermost
        <3>2. Tags(s)'
            BY <1>5, <2>1, <2>3 DEF Tags
        <3>3. Single(s)'
            <4> SUFFICES ASSUME s \notin forgotten \union raced
                         PROVE  Single(s)'
                BY <1>2 DEF Single
            <4>1. at'[s] = <<r>>
                BY <1>3, <1>5, <1>7, <2>1, <2>3 DEF SlotInv, Single
            <4>2. \A q \in Runs : q # r => ~Engaged(q, s)
                BY <1>7, <2>1, <2>3 DEF SlotInv, Single, Engaged
            <4>3. \A q \in Runs : q # r => ~Engaged(q, s)'
                BY <2>2, <4>2
            <4>4. \A q \in Runs : ~Testing(q, s)' /\ ~Reading(q, s)' /\ ~Unmarking(q, s)'
                BY <1>7, <4>3, InHandNext
            <4>5. Engaged(r, s)' /\ \A q \in Runs : s \in holds'[q] => q = r
                BY <1>5, <4>3, InHandNext
            <4> QED
                BY <1>7, <2>3, <4>1, <4>3, <4>4, <4>5 DEF Single
        <3> QED
            BY <2>1, <2>3, <3>1, <3>2, <3>3, ToolInv DEF Inv
    <2>4. CASE ~Apart(s)
        <3>1. NeverSaved(s)'
            BY <1>5, <1>7, <2>1, <2>2, <2>4 DEF SlotInv, NeverSaved
        <3>2. Outermost(s)'
            <4>1. style[s].marked => at'[s] = <<r>>
                BY <1>3, <1>5, <1>7, <2>1, <2>4 DEF SlotInv, NeverSaved
            <4> QED
                BY <1>5, <2>1, <2>4, <4>1 DEF Outermost
        <3>3. Tags(s)' /\ Single(s)'
            BY <1>2, <2>1, <2>4 DEF SlotInv, Tags, Single
        <3>4. Accounted(s)'
            <4> SUFFICES ASSUME ~style[s].marked, s \notin forgotten \union crossed
                         PROVE  /\ \A q \in Owners(at'[s]) : s \in holds'[q]
                                /\ \A p \in Runs : s \in holds'[p] =>
                                      \A q \in Owners(saved'[p][s]) : q # p /\ s \in holds'[q]
                                /\ \A p \in Runs : Reading(p, s)' =>
                                      \A q \in Owners(looked'[p]) : q # p /\ s \in holds'[q]
                BY <1>2 DEF Accounted
            <4>1. Owners(at[s]) \subseteq Runs /\ \A p \in Runs :
                      Owners(saved[p][s]) \subseteq Runs /\ Owners(looked[p]) \subseteq Runs
                BY <1>0, Types DEF Owners
            <4>2. \A q \in Runs : s \in holds[q] => s \in holds'[q]
                BY <1>5, <2>2
            <4>3. /\ \A p \in Runs : s \in holds[p] =>
                        \A q \in Owners(saved[p][s]) : q # p /\ s \in holds[q]
                  /\ \A p \in Runs : Reading(p, s) =>
                        \A q \in Owners(looked[p]) : q # p /\ s \in holds[q]
                BY <2>1 DEF SlotInv, Accounted
            <4>4. \A q \in Owners(looked[r]) : q # r /\ s \in holds'[q]
                BY <1>7, <4>1, <4>2, <4>3
            <4>5. \A q \in Owners(at'[s]) : s \in holds'[q]
                BY <1>3, <1>5, <4>4
            <4>6. ASSUME NEW p \in Runs, s \in holds'[p]
                  PROVE  \A q \in Owners(saved'[p][s]) : q # p /\ s \in holds'[q]
                <5>1. CASE p = r
                    BY <1>5, <4>4, <5>1
                <5>2. CASE p # r
                    BY <2>2, <4>1, <4>2, <4>3, <4>6, <5>2
                <5> QED
                    BY <5>1, <5>2
            <4>7. ASSUME NEW p \in Runs, Reading(p, s)'
                  PROVE  \A q \in Owners(looked'[p]) : q # p /\ s \in holds'[q]
                <5>1. p # r
                    BY <1>7, <4>7
                <5> QED
                    BY <2>2, <4>1, <4>2, <4>3, <4>7, <5>1
            <4> QED
                BY <4>5, <4>6, <4>7
        <3> QED
            BY <3>1, <3>2, <3>3, <3>4 DEF SlotInv
    <2> QED
        BY <2>3, <2>4
<1> QED
    BY <1>6, <1>8, <1>9, <1>10 DEF Inv

(* The object refuses the wrapper: what is not going to be restored is     *)
(* forgotten.                                                              *)
LEMMA RefuseInv ==
    ASSUME Inv, NEW r \in Runs, Refuse(r)
    PROVE  Inv'
<1>0. TypeOK /\ phase[r] = "patching" /\ todo[r] # <<>>
    BY Types DEF Inv, Refuse
<1>1. PICK s \in Slots : s = Head(todo[r])
    BY <1>0, AtHead
<1> DEFINE own == IF style[s].guarded /\ style[s].undo = "saved" THEN {s} ELSE {}
           tools == {t \in holds[r] : style[s].undo = "original" /\ style[t].undo = "original"}
<1>2. /\ phase' = [phase EXCEPT ![r] = IF style[s].guarded THEN "undoing" ELSE "failed"]
      /\ todo' = [todo EXCEPT ![r] = <<>>]
      /\ looked' = [looked EXCEPT ![r] = Original]
      /\ saved' = [saved EXCEPT ![r][s] = IF own = {} THEN saved[r][s] ELSE looked[r]]
      /\ balks' = [balks EXCEPT ![r] = own]
      /\ UNCHANGED <<style, at, visited, tagged, crossed, raced>>
    BY <1>1 DEF Refuse
<1>3. PICK lost \in IF style[s].guarded THEN SUBSET tools ELSE {holds[r]} :
          /\ holds' = [holds EXCEPT ![r] = (holds[r] \ lost) \union own]
          /\ forgotten' = forgotten \union lost
    BY <1>1 DEF Refuse
<1>4. Alone(r)
    BY <1>0, <1>2, <1>3, Types DEF Alone
<1>5. /\ lost \subseteq holds[r]
      /\ ~style[s].guarded => lost = holds[r]
      /\ style[s].guarded /\ ~Apart(s) => lost = {}
      /\ own \subseteq {s}
      /\ own # {} => style[s].guarded /\ ~Apart(s)
      /\ style[s].guarded /\ ~Apart(s) => own = {s}
    <2>1. style[s].undo \in {"saved", "original"}
        BY <1>0, Types DEF Styles
    <2> QED
        BY <1>3, <2>1 DEF Apart
<1> HIDE DEF own, tools
<1>6. TypeOK'
    <2>1. saved' \in [Runs -> [Slots -> Seq(Runs)]]
        BY <1>0, <1>2, Types
    <2>2. /\ holds' \in [Runs -> SUBSET Slots] /\ forgotten' \subseteq Slots
          /\ balks' \in [Runs -> SUBSET Slots]
        BY <1>0, <1>2, <1>3, <1>5, Types
    <2>3. <<>> \in Seq(Slots) /\ Original \in Seq(Runs)
        BY DEF Original
    <2> QED
        BY <1>0, <1>2, <2>1, <2>2, <2>3, Types, TypesKept DEF Phases
<1>7. /\ holds'[r] = (holds[r] \ lost) \union own
      /\ saved'[r][s] = IF own = {} THEN saved[r][s] ELSE looked[r]
      /\ \A t \in Slots : t # s => saved'[r][t] = saved[r][t]
      /\ phase'[r] = IF style[s].guarded THEN "undoing" ELSE "failed"
    BY <1>0, <1>2, <1>3, Types
<1>8. /\ Handles(r, s) /\ Reading(r, s)
      /\ \A t \in Slots : ~Handles(r, t)'
      /\ \A t \in Slots : t # s => ~Handles(r, t)
    BY <1>0, <1>1, <1>7 DEF Handles, Reading
<1>9. Known' /\ Records'
    <2>1. holds[r] \subseteq visited[r] /\ s \in visited[r]
        BY <1>8 DEF Inv, Records
    <2>2. ~Open(r)' => holds'[r] = {}
        BY <1>5, <1>7 DEF Open
    <2> QED
        BY <1>2, <1>4, <1>5, <1>7, <1>8, <2>1, <2>2, Bookkept, InHandNext
<1>10. ASSUME NEW t \in Slots PROVE NeverSaved(t)'
    <2>1. ASSUME style[t].marked, ~Apart(t), NEW q \in Runs
          PROVE  saved'[q][t] = Original /\ (Reading(q, t)' => looked'[q] = Original)
        <3>1. SlotInv(t) /\ saved[q][t] = Original /\ (Reading(q, t) => looked[q] = Original)
            BY <2>1 DEF Inv, SlotInv, NeverSaved
        <3>2. CASE q # r
            BY <1>4, <3>1, <3>2, OthersKept
        <3>3. CASE q = r
            BY <1>7, <1>8, <3>1, <3>3, InHandNext
        <3> QED
            BY <3>2, <3>3
    <2> QED
        BY <1>2, <2>1, ApartKept DEF NeverSaved
<1>11. \A t \in Slots : t # s => SlotInv(t)'
    <2> SUFFICES ASSUME NEW t \in Slots, t # s, t \notin lost
                 PROVE  SlotInv(t)'
        BY <1>3, <1>10, Lost
    <2>1. t \in holds'[r] <=> t \in holds[r]
        BY <1>5, <1>7
    <2> QED
        BY <1>2, <1>4, <1>7, <1>8, <2>1, Elsewhere
<1>12. SlotInv(s)'
    <2> SUFFICES ASSUME s \notin forgotten'
                 PROVE  SlotInv(s)'
        BY <1>10, Lost
    <2>1. /\ SlotInv(s) /\ (Apart(s)' <=> Apart(s)) /\ style' = style
          /\ s \notin lost /\ s \notin forgotten
        BY <1>2, <1>3, ApartKept DEF Inv
    <2>2. \A q \in Runs : q # r =>
              /\ Handles(q, s)' <=> Handles(q, s)
              /\ Reading(q, s)' <=> Reading(q, s)
              /\ Testing(q, s)' <=> Testing(q, s)
              /\ Marking(q, s)' <=> Marking(q, s)
              /\ Unmarking(q, s)' <=> Unmarking(q, s)
              /\ Engaged(q, s)' <=> Engaged(q, s)
              /\ s \in holds'[q] <=> s \in holds[q]
              /\ saved'[q][s] = saved[q][s] /\ looked'[q] = looked[q]
        BY <1>4, OthersKept
    <2>3. \A q \in Runs : s \in holds[q] => s \in holds'[q]
        BY <1>7, <2>1, <2>2
    <2>4. \A q \in Runs : Unmarking(q, s) <=> Unmarking(q, s)'
        BY <1>0, <1>8, <2>2, InHandNext DEF Unmarking
    <2>5. Outermost(s)' /\ Tags(s)'
        BY <1>2, <2>1, <2>3, <2>4 DEF SlotInv, Outermost, Tags
    <2>6. CASE Apart(s)
        <3>1. Single(s)'
            <4> SUFFICES ASSUME s \notin raced
                         PROVE  Single(s)'
                BY <1>2 DEF Single
            <4>1. at[s] = Original
                BY <1>8, <2>1, <2>6, InHand DEF SlotInv, Single
            <4>2. s \notin holds[r]
                BY <2>1, <2>6, <4>1, OneWrapper DEF SlotInv, Single
            <4>3. \A q \in Runs : q # r => ~Engaged(q, s)
                BY <1>8, <2>1, <2>6 DEF SlotInv, Single, Engaged
            <4>4. s \notin holds'[r]
                BY <1>5, <1>7, <2>6, <4>2
            <4>5. ~Engaged(r, s)'
                BY <1>8, <4>4 DEF Engaged
            <4>6. \A q \in Runs : ~Engaged(q, s)'
                BY <2>2, <4>3, <4>5
            <4>7. \A q \in Runs : /\ ~Testing(q, s)' /\ ~Reading(q, s)' /\ ~Unmarking(q, s)'
                                  /\ s \notin holds'[q]
                BY <4>6, InHandNext
            <4> QED
                BY <1>2, <4>1, <4>6, <4>7 DEF Single
        <3> QED
            BY <2>1, <2>5, <2>6, <3>1, ToolInv DEF Inv
    <2>7. CASE ~Apart(s)
        <3>1. Single(s)'
            BY <2>1, <2>7 DEF Single
        <3>2. Accounted(s)'
            <4> SUFFICES ASSUME ~style[s].marked, s \notin forgotten \union crossed
                         PROVE  /\ \A q \in Owners(at[s]) : s \in holds'[q]
                                /\ \A p \in Runs : s \in holds'[p] =>
                                      \A q \in Owners(saved'[p][s]) : q # p /\ s \in holds'[q]
                                /\ \A p \in Runs : Reading(p, s)' =>
                                      \A q \in Owners(looked'[p]) : q # p /\ s \in holds'[q]
                BY <1>2, <1>3 DEF Accounted
            <4>1. Owners(at[s]) \subseteq Runs /\ \A p \in Runs :
                      Owners(saved[p][s]) \subseteq Runs /\ Owners(looked[p]) \subseteq Runs
                BY <1>0, Types DEF Owners
            <4>2. /\ \A q \in Owners(at[s]) : s \in holds[q]
                  /\ \A p \in Runs : s \in holds[p] =>
                        \A q \in Owners(saved[p][s]) : q # p /\ s \in holds[q]
                  /\ \A p \in Runs : Reading(p, s) =>
                        \A q \in Owners(looked[p]) : q # p /\ s \in holds[q]
                BY <2>1 DEF SlotInv, Accounted
            <4>3. ASSUME NEW p \in Runs, s \in holds'[p]
                  PROVE  \A q \in Owners(saved'[p][s]) : q # p /\ s \in holds'[q]
                <5>1. CASE p = r /\ own # {}
                    BY <1>7, <1>8, <2>3, <4>1, <4>2, <5>1
                <5>2. CASE p = r /\ own = {}
                    BY <1>7, <2>3, <4>1, <4>2, <4>3, <5>2
                <5>3. CASE p # r
                    BY <2>2, <2>3, <4>1, <4>2, <4>3, <5>3
                <5> QED
                    BY <5>1, <5>2, <5>3
            <4>4. ASSUME NEW p \in Runs, Reading(p, s)'
                  PROVE  \A q \in Owners(looked'[p]) : q # p /\ s \in holds'[q]
                <5>1. p # r
                    BY <1>8, <4>4, InHandNext
                <5> QED
                    BY <2>2, <2>3, <4>1, <4>2, <4>4, <5>1
            <4> QED
                BY <2>3, <4>1, <4>2, <4>3, <4>4
        <3> QED
            BY <1>10, <2>5, <3>1, <3>2 DEF SlotInv
    <2> QED
        BY <2>6, <2>7
<1> QED
    BY <1>6, <1>9, <1>11, <1>12 DEF Inv

(* What is put back is free of wrappers of the run that puts it back; if   *)
(* no other run is going to put one back, none is left.                    *)
LEMMA RestoreInv ==
    ASSUME Inv, NEW r \in Runs, NEW s \in Slots, Restore(r, s)
    PROVE  Inv'
<1>1. /\ phase[r] = "undoing"
      /\ s \in holds[r]
    BY DEF Restore, InTurn
<1>2. /\ at' = [at EXCEPT ![s] = Undone(r, s)]
      /\ holds' = [holds EXCEPT ![r] = holds[r] \ {s}]
      /\ balks' = [balks EXCEPT ![r] = balks[r] \ {s}]
      /\ crossed' = IF Holding(r, s) = {} THEN crossed ELSE crossed \union {s}
      /\ saved' = [saved EXCEPT ![r][s] = Original]
      /\ phase' = [phase EXCEPT ![r] = IF Apart(s) THEN "unmarking" ELSE "undoing"]
      /\ todo' = [todo EXCEPT ![r] = IF Apart(s) THEN <<s>> ELSE <<>>]
      /\ UNCHANGED <<style, looked, visited, tagged, forgotten, raced>>
    BY DEF Restore
<1>3. TypeOK
    BY DEF Inv
<1>4. Alone(r)
    BY <1>2, <1>3, Types DEF Alone
<1>5. /\ Original \in Seq(Runs)
      /\ Undone(r, s) \in Seq(Runs)
      /\ Undone(r, s) = Original \/ Undone(r, s) = saved[r][s]
      /\ style[s].marked => Undone(r, s) = Original
    <2>1. style[s].undo \in {"saved", "original"}
        BY <1>3, Types DEF Styles
    <2> QED
        BY <1>3, <2>1, Types DEF Undone, Original, Inv, SlotInv, NeverSaved, Apart
<1>6. TypeOK'
    <2>1. /\ at' \in [Slots -> Seq(Runs)] /\ saved' \in [Runs -> [Slots -> Seq(Runs)]]
          /\ holds' \in [Runs -> SUBSET Slots] /\ balks' \in [Runs -> SUBSET Slots]
        BY <1>2, <1>3, <1>5, Types
    <2>2. <<s>> \in Seq(Slots) /\ <<>> \in Seq(Slots) /\ <<s>> # <<>>
        OBVIOUS
    <2>3. /\ phase' \in [Runs -> Phases] /\ todo' \in [Runs -> Seq(Slots)]
          /\ \A q \in Runs :
                phase'[q] \in {"reading", "patching", "marking", "unmarking"} => todo'[q] # <<>>
        BY <1>2, <1>3, <2>2, Types DEF Phases
    <2> QED
        BY <1>2, <1>3, <2>1, <2>3, Types, TypesKept
<1>7. /\ holds'[r] = holds[r] \ {s}
      /\ saved'[r][s] = Original
      /\ \A t \in Slots : t # s => saved'[r][t] = saved[r][t] /\ at'[t] = at[t]
      /\ at'[s] = Undone(r, s)
      /\ phase'[r] = IF Apart(s) THEN "unmarking" ELSE "undoing"
      /\ Apart(s) => Head(todo'[r]) = s
    BY <1>2, <1>3, Types
<1>8. /\ \A t \in Slots : ~Handles(r, t) /\ (Handles(r, t)' => t = s)
      /\ Apart(s) => Unmarking(r, s)'
      /\ Handles(r, s)' => Apart(s)
      /\ ~Reading(r, s)' /\ ~Testing(r, s)' /\ ~Marking(r, s)'
    BY <1>1, <1>7 DEF Handles, Reading, Testing, Marking, Unmarking
<1>9. Known' /\ Records'
    <2>1. holds[r] \subseteq visited[r]
        BY DEF Inv, Records
    <2>2. Open(r)'
        BY <1>7 DEF Open
    <2> QED
        BY <1>1, <1>2, <1>4, <1>7, <1>8, <2>1, <2>2, Bookkept
<1>10. \A t \in Slots : t # s => SlotInv(t)'
    BY <1>2, <1>4, <1>7, <1>8, Elsewhere
<1>11. SlotInv(s)'
    <2>1. SlotInv(s) /\ (Apart(s)' <=> Apart(s)) /\ style' = style
        BY <1>2, ApartKept DEF Inv
    <2>2. \A q \in Runs : q # r =>
              /\ Handles(q, s)' <=> Handles(q, s)
              /\ Reading(q, s)' <=> Reading(q, s)
              /\ Testing(q, s)' <=> Testing(q, s)
              /\ Marking(q, s)' <=> Marking(q, s)
              /\ Unmarking(q, s)' <=> Unmarking(q, s)
              /\ Engaged(q, s)' <=> Engaged(q, s)
              /\ s \in holds'[q] <=> s \in holds[q]
              /\ saved'[q][s] = saved[q][s] /\ looked'[q] = looked[q]
        BY <1>4, OthersKept
    <2>3. Outermost(s)'
        BY <1>5, <1>7, <2>1 DEF Outermost
    <2>4. Tags(s)'
        <3>1. s \in tagged /\ s \notin forgotten => Apart(s)
            BY <2>1 DEF SlotInv, Tags
        <3> QED
            BY <1>2, <1>8, <2>1, <3>1 DEF Tags
    <2>5. CASE Apart(s)
        <3>1. Single(s)'
            <4> SUFFICES ASSUME s \notin forgotten \union raced
                         PROVE  Single(s)'
                BY <1>2 DEF Single
            <4>1. s \in tagged
                <5>1. ~Marking(r, s)
                    BY <1>1 DEF Marking
                <5> QED
                    BY <1>1, <2>1, <2>5, <5>1 DEF SlotInv, Single
            <4>2. at'[s] = Original
                BY <1>5, <1>7, <2>5 DEF Inv, Known
            <4>3. \A q \in Runs : q # r => ~Engaged(q, s)
                BY <1>1, <2>1, <2>5 DEF SlotInv, Single, Engaged
            <4>4. \A q \in Runs : q # r => ~Engaged(q, s)'
                BY <2>2, <4>3
            <4>5. \A q \in Runs : ~Testing(q, s)' /\ ~Reading(q, s)' /\ s \notin holds'[q]
                BY <1>7, <1>8, <4>4, InHandNext
            <4> QED
                BY <1>2, <4>1, <4>2, <4>4, <4>5 DEF Single
        <3> QED
            BY <2>1, <2>3, <2>4, <2>5, <3>1, ToolInv DEF Inv
    <2>6. CASE ~Apart(s)
        <3>1. NeverSaved(s)'
            BY <1>7, <1>8, <2>1, <2>2, <2>6 DEF SlotInv, NeverSaved
        <3>2. Single(s)'
            BY <2>1, <2>6 DEF Single
        <3>3. Accounted(s)'
            <4> SUFFICES ASSUME ~style[s].marked, s \notin forgotten \union crossed'
                         PROVE  /\ \A q \in Owners(at'[s]) : s \in holds'[q]
                                /\ \A p \in Runs : s \in holds'[p] =>
                                      \A q \in Owners(saved'[p][s]) : q # p /\ s \in holds'[q]
                                /\ \A p \in Runs : Reading(p, s)' =>
                                      \A q \in Owners(looked'[p]) : q # p /\ s \in holds'[q]
                BY <1>2 DEF Accounted
            <4>1. Owners(at[s]) \subseteq Runs /\ \A p \in Runs :
                      Owners(saved[p][s]) \subseteq Runs /\ Owners(looked[p]) \subseteq Runs
                BY <1>3, Types DEF Owners
            <4>2. s \notin crossed /\ Holding(r, s) = {}
                BY <1>2
            <4>3. /\ \A p \in Runs : s \in holds[p] =>
                        \A q \in Owners(saved[p][s]) : q # p /\ s \in holds[q]
                  /\ \A p \in Runs : Reading(p, s) =>
                        \A q \in Owners(looked[p]) : q # p /\ s \in holds[q]
                BY <2>1, <4>2 DEF SlotInv, Accounted
            <4>4. \A p \in Runs : p # r =>
                      /\ s \in holds[p] => r \notin Owners(saved[p][s])
                      /\ Reading(p, s) => r \notin Owners(looked[p])
                BY <4>2 DEF Holding, Owners, Reading
            <4>5. \A q \in Runs : q # r /\ s \in holds[q] => s \in holds'[q]
                BY <2>2
            <4>6. \A q \in Owners(at'[s]) : s \in holds'[q]
                BY <1>1, <1>5, <1>7, <4>1, <4>3, <4>5, OriginalUnowned
            <4>7. ASSUME NEW p \in Runs, s \in holds'[p]
                  PROVE  \A q \in Owners(saved'[p][s]) : q # p /\ s \in holds'[q]
                <5>1. p # r
                    BY <1>7, <4>7
                <5> QED
                    BY <2>2, <4>1, <4>3, <4>4, <4>5, <4>7, <5>1
            <4>8. ASSUME NEW p \in Runs, Reading(p, s)'
                  PROVE  \A q \in Owners(looked'[p]) : q # p /\ s \in holds'[q]
                <5>1. p # r
                    BY <1>8, <4>8
                <5> QED
                    BY <2>2, <4>1, <4>3, <4>4, <4>5, <4>8, <5>1
            <4> QED
                BY <4>6, <4>7, <4>8
        <3> QED
            BY <2>3, <2>4, <3>1, <3>2, <3>3 DEF SlotInv
    <2> QED
        BY <2>5, <2>6
<1> QED
    BY <1>6, <1>9, <1>10, <1>11 DEF Inv

(* What cannot be put back is forgotten, and with it what was to be put    *)
(* back after it.                                                          *)
LEMMA RestoreRefusedInv ==
    ASSUME Inv, NEW r \in Runs, NEW s \in Slots, RestoreRefused(r, s)
    PROVE  Inv'
<1> DEFINE lost == IF style[s].restore = "caught" THEN {s} ELSE holds[r]
<1>1. /\ phase[r] = "undoing"
      /\ s \in holds[r]
    BY DEF RestoreRefused, InTurn
<1>2. /\ holds' = [holds EXCEPT ![r] = holds[r] \ lost]
      /\ balks' = [balks EXCEPT ![r] = {}]
      /\ forgotten' = forgotten \union lost
      /\ phase' = [phase EXCEPT ![r] = IF style[s].restore = "caught" THEN "undoing" ELSE "failed"]
      /\ UNCHANGED <<style, at, todo, looked, visited, saved, tagged, crossed, raced>>
    BY DEF RestoreRefused
<1>3. TypeOK /\ lost \subseteq holds[r] /\ s \in lost
    BY <1>1 DEF Inv
<1>4. Alone(r)
    BY <1>2, <1>3, Types DEF Alone
<1>5. TypeOK'
    <2>1. holds[r] \subseteq Slots
        BY <1>3, Types
    <2>2. holds' \in [Runs -> SUBSET Slots] /\ balks' \in [Runs -> SUBSET Slots]
        BY <1>2, <1>3, <2>1, Types
    <2>3. forgotten' \subseteq Slots
        BY <1>2, <1>3, <2>1, Types
    <2>4. phase' \in [Runs -> Phases]
        BY <1>2, <1>3, Types DEF Phases
    <2>5. \A q \in Runs :
              phase'[q] \in {"reading", "patching", "marking", "unmarking"} => todo'[q] # <<>>
        BY <1>2, <1>3, Types
    <2> QED
        BY <1>2, <1>3, <2>2, <2>3, <2>4, <2>5, Types, TypesKept
<1>6. /\ holds'[r] = holds[r] \ lost
      /\ phase'[r] = IF style[s].restore = "caught" THEN "undoing" ELSE "failed"
    BY <1>2, <1>3, Types
<1>7. \A t \in Slots : ~Handles(r, t) /\ ~Handles(r, t)'
    BY <1>1, <1>6 DEF Handles
<1>8. Known' /\ Records'
    <2>1. holds[r] \subseteq visited[r]
        BY DEF Inv, Records
    <2>2. ~Open(r)' => holds'[r] = {}
        BY <1>6 DEF Open
    <2> QED
        BY <1>2, <1>4, <1>6, <1>7, <2>1, <2>2, Bookkept, InHandNext
<1> HIDE DEF lost
<1>9. ASSUME NEW t \in Slots PROVE SlotInv(t)'
    <2>1. CASE t \in lost
        <3>1. SlotInv(t) /\ (Apart(t)' <=> Apart(t)) /\ style' = style
            BY <1>2, ApartKept DEF Inv
        <3>2. \A q \in Runs : Reading(q, t)' => Reading(q, t)
            <4>1. \A q \in Runs : q # r => (Reading(q, t)' => Reading(q, t))
                BY <1>4, OthersKept
            <4>2. ~Reading(r, t)'
                BY <1>7, InHandNext
            <4> QED
                BY <4>1, <4>2
        <3>3. NeverSaved(t)'
            BY <1>2, <3>1, <3>2 DEF SlotInv, NeverSaved
        <3> QED
            BY <1>2, <2>1, <3>3, Lost
    <2>2. CASE t \notin lost
        <3>1. t \in holds'[r] <=> t \in holds[r]
            BY <1>6, <2>2
        <3> QED
            BY <1>2, <1>4, <1>7, <3>1, Elsewhere
    <2> QED
        BY <2>1, <2>2
<1> QED
    BY <1>5, <1>8, <1>9 DEF Inv

-----------------------------------------------------------------------------
(* Results *)

(* The inductive invariant holds in every reachable state.                 *)
THEOREM Invariance == Spec => []Inv
<1>1. ASSUME Inv, [Next]_vars PROVE Inv'
    <2>1. CASE UNCHANGED vars
        BY <1>1, <2>1 DEF vars, Inv, TypeOK, Known, Records, SlotInv, NeverSaved, Accounted,
                          Outermost, Tags, Single, Engaged, Handles, Reading, Testing, Marking,
                          Unmarking, Open, Apart
    <2>2. ASSUME NEW r \in Runs, Start(r) \/ Look(r) \/ Patch(r) \/ Refuse(r) \/ Unpatchable(r)
          PROVE  Inv'
        BY <1>1, <2>2, StartInv, LookInv, PatchInv, RefuseInv, UnpatchableInv
    <2>3. ASSUME NEW r \in Runs, Read(r) \/ Mark(r) \/ Unmark(r) PROVE Inv'
        BY <1>1, <2>3, ReadInv, MarkInv, UnmarkInv
    <2>4. ASSUME NEW r \in Runs, Enter(r) \/ Leave(r) \/ End(r) PROVE Inv'
        BY <1>1, <2>4, MoveInv
    <2>5. ASSUME NEW r \in Runs, NEW s \in Slots, Restore(r, s) \/ RestoreRefused(r, s)
          PROVE  Inv'
        BY <1>1, <2>5, RestoreInv, RestoreRefusedInv
    <2> QED
        BY <1>1, <2>1, <2>2, <2>3, <2>4, <2>5 DEF Next
<1> QED
    BY <1>1, InitInv, PTL DEF Spec

(* However the runs of any number of decorated functions overlap, the      *)
(* outermost wrapper is one of a run that will take it away, unless a      *)
(* record was lost, and it is the only one unless two runs patched the     *)
(* same tool at once (llm_discovery.py and the framework decorators).      *)
THEOREM OwnerCorrect == Spec => []OneOwner
<1>1. Inv => OneOwner
    <2> SUFFICES ASSUME Inv, NEW s \in Slots, style[s].marked, at[s] # Original, s \notin forgotten
                 PROVE  \E r \in Runs :
                           s \in holds[r] /\ IF s \in raced THEN at[s][1] = r ELSE at[s] = <<r>>
        BY DEF OneOwner
    <2>1. PICK r \in Runs : s \in holds[r] /\ IF Apart(s) THEN at[s][1] = r ELSE at[s] = <<r>>
        BY DEF Inv, SlotInv, Outermost
    <2>2. CASE ~Apart(s)
        BY <2>1, <2>2, OneWrapper
    <2>3. CASE Apart(s) /\ s \in raced
        BY <2>1, <2>3
    <2>4. CASE Apart(s) /\ s \notin raced
        BY <2>1, <2>4 DEF Inv, SlotInv, Single
    <2> QED
        BY <2>2, <2>3, <2>4
<1> QED
    BY <1>1, Invariance, PTL

(* When no run is open the originals are back and no tool is left marked,  *)
(* except where a record was lost or unrecognised wrappers were restored   *)
(* out of order.                                                           *)
THEOREM OriginalsCorrect == Spec => []OriginalsBack
<1>1. Inv => OriginalsBack
    <2> SUFFICES ASSUME Inv, \A r \in Runs : ~Open(r), NEW s \in Slots, s \notin forgotten
                 PROVE  \/ at[s] = Original /\ s \notin tagged
                        \/ ~style[s].marked /\ s \in crossed
        BY DEF OriginalsBack
    <2>1. SlotInv(s) /\ \A r \in Runs : holds[r] = {} /\ ~Unmarking(r, s)
        BY DEF Inv, Records, Open, Unmarking
    <2>2. s \notin tagged
        BY <2>1 DEF SlotInv, Tags
    <2>3. CASE style[s].marked
        BY <2>1, <2>2, <2>3 DEF SlotInv, Outermost
    <2>4. CASE ~style[s].marked /\ s \notin crossed
        <3>1. at[s] \in Seq(Runs)
            BY Types DEF Inv
        <3>2. Owners(at[s]) \subseteq Runs
            BY <3>1 DEF Owners
        <3>3. Owners(at[s]) = {}
            BY <2>1, <2>4, <3>2 DEF SlotInv, Accounted
        <3> QED
            BY <2>2, <3>1, <3>3, Unowned
    <2> QED
        BY <2>3, <2>4
<1> QED
    BY <1>1, Invariance, PTL
=============================================================================
