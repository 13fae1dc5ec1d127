------------------------------ MODULE ClientConfig ------------------------------
(***************************************************************************)
(* The client's configuration (rastir/config.py): configure() runs once,   *)
(* under a lock; get_config() reads without it, and configures from the    *)
(* environment when it finds nothing.  Pricing is loaded and the exporter  *)
(* started after the configuration is in place.                            *)
(*                                                                         *)
(* A definition followed by one of nearly the same name is a defect of the *)
(* second: the behaviour used only to see which property it breaks.        *)
(***************************************************************************)
CONSTANTS Starters,  \* threads that call configure()
          Users,     \* threads that call get_config()
          Absent     \* no configuration, no pricing, nobody

Settings == [by : Starters \union {Absent}, cost : BOOLEAN]

ASSUME ClientConfigAssumption == Absent \notin Starters \union Settings

VARIABLES
    config,    \* _global_config: what matters of it
    pricing,   \* _pricing_registry
    lock,      \* who is inside configure()
    step,      \* where each starter is
    waits      \* users at the lock, having found no configuration

configVars == <<config, pricing, lock, step, waits>>

(* From the environment: it says nothing of cost. *)
FromEnvironment == {s \in Settings : s.by = Absent /\ ~s.cost}

ConfigInit ==
    /\ config = Absent
    /\ pricing = Absent
    /\ lock = Absent
    /\ step = [t \in Starters |-> "idle"]
    /\ waits = {}

(* _initialized is set wherever _global_config is. *)
Configure(t) ==
    /\ step[t] = "idle"
    /\ lock = Absent
    /\ \/ /\ config # Absent
          /\ step' = [step EXCEPT ![t] = "refused"]
          /\ UNCHANGED lock
       \/ /\ config = Absent
          /\ step' = [step EXCEPT ![t] = "resolving"]
          /\ lock' = t
    /\ UNCHANGED <<config, pricing, waits>>

Publish(t) ==
    /\ step[t] = "resolving"
    /\ \E s \in Settings : s.by = t /\ config' = s
    /\ step' = [step EXCEPT ![t] = IF config'.cost THEN "loading" ELSE "exporting"]
    /\ UNCHANGED <<pricing, lock, waits>>

(* How configure() goes on when the pricing file cannot be read. *)
UnreadableIgnored == "exporting"
Unreadable == "raised"

Load(t) ==
    /\ step[t] = "loading"
    /\ \/ /\ pricing' = t
          /\ step' = [step EXCEPT ![t] = "exporting"]
          /\ UNCHANGED lock
       \/ /\ step' = [step EXCEPT ![t] = Unreadable]
          /\ lock' = IF Unreadable = "raised" THEN Absent ELSE lock
          /\ UNCHANGED pricing
    /\ UNCHANGED <<config, waits>>

(* The exporter is started if there is somewhere to push to (SpanExport).  *)
Export(t) ==
    /\ step[t] = "exporting"
    /\ step' = [step EXCEPT ![t] = "returned"]
    /\ lock' = Absent
    /\ UNCHANGED <<config, pricing, waits>>

(* get_config() returns what is there ...                                  *)
FindConfig(u) ==
    /\ u \notin waits
    /\ config # Absent
    /\ UNCHANGED configVars

(* ... or goes for the lock ...                                            *)
MissConfig(u) ==
    /\ u \notin waits
    /\ config = Absent
    /\ waits' = waits \union {u}
    /\ UNCHANGED <<config, pricing, lock, step>>

(* ... and looks again: another thread may have configured meanwhile.      *)
SecondLookBlind == FromEnvironment
SecondLook == IF config # Absent THEN {config} ELSE FromEnvironment

AutoConfig(u) ==
    /\ u \in waits
    /\ lock = Absent
    /\ waits' = waits \ {u}
    /\ config' \in SecondLook
    /\ UNCHANGED <<pricing, lock, step>>

ConfigNext == \E t \in Starters : Configure(t) \/ Publish(t) \/ Load(t) \/ Export(t)

(* get_config() has returned to u. *)
GetConfig(u) == FindConfig(u) \/ AutoConfig(u)

Configured == \E t \in Starters : step[t] = "returned"
=============================================================================
