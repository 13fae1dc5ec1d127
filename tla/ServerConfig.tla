----------------------------- MODULE ServerConfig -----------------------------
(***************************************************************************)
(* The server's configuration (server/config.py) and the routes that       *)
(* change it at run time (server/app.py).  Four sources, a runtime         *)
(* overrides file, the environment, a YAML file and the defaults, give     *)
(* each setting its value; PUT /config writes the overrides file, then     *)
(* loads and validates everything again; POST /config/reload only loads;   *)
(* a start loads and validates before anything is built.                   *)
(*                                                                         *)
(* A source is the function from the settings it holds to their values.    *)
(* Two settings are numbers read with _get_float and constrain each other, *)
(* one is an integer read with _get: the two ways a setting is read.       *)
(*                                                                         *)
(* A definition followed by one of nearly the same name is a defect of the *)
(* second: the behaviour used only to see which property it breaks.        *)
(***************************************************************************)
EXTENDS Integers, Sequences, SequencesExt

CONSTANTS Environments, \* what RASTIR_SERVER_* variables may hold
          BaseFiles,    \* what the YAML file may hold
          Bodies,       \* what PUT /config may ask for
          Junk,         \* a value that is no number
          Unparsable    \* a file that is no YAML

Settings == {"soft_limit_pct", "hard_limit_pct", "per_ip_rpm"}
Floats == {"soft_limit_pct", "hard_limit_pct"}

(* The order in which yaml.dump writes them. *)
Sorted == <<"hard_limit_pct", "soft_limit_pct", "per_ip_rpm">>

Default == [s \in Settings |-> CASE s = "soft_limit_pct" -> 80
                                 [] s = "hard_limit_pct" -> 95
                                 [] s = "per_ip_rpm" -> 600]

(* What a source that parses may hold. *)
IsSource(c) == \E held \in SUBSET Settings : c \in [held -> Int \union {Junk}]

ASSUME ServerConfigAssumption ==
    /\ Junk \notin Int
    /\ ~IsSource(Unparsable)
    /\ \A c \in Environments \union BaseFiles \union Bodies : IsSource(c)

VARIABLES named,    \* RASTIR_SERVER_RUNTIME_CONFIG is set
          env,      \* the environment the server is started in
          base,     \* the YAML file
          file,     \* the runtime overrides file; empty when it is not there
          live,     \* app.state.config; empty when no server runs
          promised, \* history: overrides acknowledged and not written since
          touched   \* history: a source changed and no load of it succeeded

configVars == <<named, env, base, file, live, promised, touched>>

Nothing == <<>>
Up == live # Nothing

-----------------------------------------------------------------------------
(* load_config and validate_config.                                        *)

(* The overrides, if the server knows where they are and can parse them.   *)
Overrides(f) == IF named /\ f # Unparsable THEN f ELSE Nothing

HasNumber(source, s) == s \in DOMAIN source /\ source[s] # Junk

(* _get_float: the first source whose value is a number. *)
GetFloat(s, f) ==
    IF HasNumber(Overrides(f), s) THEN Overrides(f)[s]
    ELSE IF HasNumber(env, s) THEN env[s]
    ELSE IF HasNumber(base, s) THEN base[s] ELSE Default[s]

(* _get with as_type=int: the first source that has the setting; only the  *)
(* environment is converted, and what does not convert is the default.     *)
GetInt(s, f) ==
    IF s \in DOMAIN Overrides(f) THEN Overrides(f)[s]
    ELSE IF s \in DOMAIN env THEN IF env[s] = Junk THEN Default[s] ELSE env[s]
    ELSE IF s \in DOMAIN base THEN base[s] ELSE Default[s]

Load(f) == [s \in Settings |-> IF s \in Floats THEN GetFloat(s, f) ELSE GetInt(s, f)]

(* Comparing what is no number raises too, and is answered like an error.  *)
Valid(c) ==
    /\ 0 <= c["soft_limit_pct"] /\ c["soft_limit_pct"] <= 100
    /\ 0 <= c["hard_limit_pct"] /\ c["hard_limit_pct"] <= 100
    /\ c["soft_limit_pct"] < c["hard_limit_pct"]
    /\ c["per_ip_rpm"] # Junk /\ c["per_ip_rpm"] > 0

-----------------------------------------------------------------------------

ConfigInit ==
    /\ named \in BOOLEAN
    /\ env \in Environments
    /\ base \in BaseFiles
    /\ file = Nothing
    /\ live = Nothing
    /\ promised = Nothing
    /\ touched = TRUE

(* The settings of two sources, the first one's values before the second's.*)
Over(new, old) ==
    [s \in DOMAIN new \union DOMAIN old |-> IF s \in DOMAIN new THEN new[s] ELSE old[s]]

Without(promises, body) ==
    [s \in DOMAIN promises \ DOMAIN body |-> promises[s]]

(* The promises of an answer "ok": a value that is no number is ignored,   *)
(* and so is a file of which the server was not told.                      *)
Promises(body) ==
    [s \in {s \in DOMAIN body : named /\ body[s] # Junk} |-> body[s]]

(* What update_config writes: what the file held, with the new values.     *)
BodyOnly(body) == body
Merged(body) == Over(body, file)

PublishFirst(c) == TRUE
Publish(c) == Valid(c)

(* PUT /config, whose write is done before the result is loaded. *)
UpdateConfig(body) ==
    /\ Up
    /\ file # Unparsable
    /\ file' = Merged(body)
    /\ \/ /\ Publish(Load(file'))
          /\ live' = Load(file')
          /\ promised' = Over(Promises(body), Without(promised, body))
          /\ touched' = FALSE
       \/ /\ ~Publish(Load(file'))
          /\ promised' = Without(promised, body)
          /\ touched' = TRUE
          /\ UNCHANGED live
    /\ UNCHANGED <<named, env, base>>

(* The write opens the file empty and may end early: the server dies, or   *)
(* the disk is full and it answers 500.  What is left may still parse.     *)
UpdateTorn(body) ==
    /\ Up
    /\ file # Unparsable
    /\ \/ file' = Unparsable
       \/ \E k \in 0..Len(Sorted) - 1 :
             file' = [s \in DOMAIN Merged(body) \intersect ToSet(SubSeq(Sorted, 1, k)) |->
                         Merged(body)[s]]
    /\ live' \in {live, Nothing}
    /\ promised' = Nothing
    /\ touched' = TRUE
    /\ UNCHANGED <<named, env, base>>

(* POST /config/reload *)
ReloadConfig ==
    /\ Up
    /\ Publish(Load(file))
    /\ live' = Load(file)
    /\ touched' = FALSE
    /\ UNCHANGED <<named, env, base, file, promised>>

(* create_app loads and validates before it builds; it raises otherwise.   *)
Start ==
    /\ ~Up
    /\ Valid(Load(file))
    /\ live' = Load(file)
    /\ touched' = FALSE
    /\ UNCHANGED <<named, env, base, file, promised>>

(* The process ends, cleanly or not. *)
Exit ==
    /\ Up
    /\ live' = Nothing
    /\ UNCHANGED <<named, env, base, file, promised, touched>>

(* An operator edits the YAML file. *)
EditBase ==
    /\ base' \in BaseFiles \ {base}
    /\ touched' = TRUE
    /\ UNCHANGED <<named, env, file, live, promised>>

ConfigNext ==
    \/ \E body \in Bodies : UpdateConfig(body) \/ UpdateTorn(body)
    \/ ReloadConfig
    \/ Start
    \/ Exit
    \/ EditBase

ConfigSpec == ConfigInit /\ [][ConfigNext]_configVars

-----------------------------------------------------------------------------

(* The configuration in force is a valid one whatever was written, torn or *)
(* refused; and unless a source was changed without success since the last *)
(* load, it is what the sources say, so that a restart comes up with the   *)
(* same settings.                                                          *)
ValidInForce ==
    /\ Up => Valid(live)
    /\ ~touched => Valid(Load(file)) /\ (Up => live = Load(file))

(* An override that PUT /config acknowledged is in force, and stays so     *)
(* through later updates of other settings, refused ones, reloads, edits   *)
(* of the YAML file and restarts, until it is written again or a write is  *)
(* torn.                                                                   *)
AcknowledgedSurvives ==
    \A s \in DOMAIN promised : Up => live[s] = promised[s]
=============================================================================
