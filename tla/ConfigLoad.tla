----------------------------- MODULE ConfigLoad -----------------------------
(***************************************************************************)
(* LoadConfig of config/config.go: the default configuration, overridden   *)
(* by a configuration file, overridden by the environment, then validated. *)
(*                                                                         *)
(* A source gives each field a value, leaves it out (Unset), or gives it a *)
(* text that does not parse (Unparsable).  A configuration is flat: one    *)
(* value per field, and the optional sections (the redis and postgres      *)
(* pointers) that are not nil, each named by its set of fields.            *)
(***************************************************************************)
EXTENDS Integers

CONSTANTS
    Files,       \* the contents a configuration file may have
    Envs,        \* the settings the environment may have
    NoFile,      \* LoadConfig is called with no path
    Unreadable,  \* the path names no readable .json, .yaml or .yml file
    Unset,       \* the field is absent, or its variable is empty
    Unparsable   \* the text does not parse as the field's type

Redis == {"redis.addr", "redis.password", "redis.db"}
Postgres == {"postgres.host", "postgres.port", "postgres.database",
             "postgres.username", "postgres.password", "postgres.sslmode"}
Sections == {Redis, Postgres}

NumberFields == {"redis.db", "postgres.port", "cache.ttl", "cache.max_size"}
SwitchFields == {"cache.enabled", "logging.enabled", "metrics.enabled"}
ListFields == {"default_flags"}
TextFields ==
    {"storage.type", "logging.level"} \union ((Redis \union Postgres) \ NumberFields)
Fields == TextFields \union NumberFields \union SwitchFields \union ListFields

(* Go's zero value of each field.  A list of flags is abstracted to the    *)
(* set of the verdicts of their Validate methods.                          *)
Zero == [f \in Fields |-> CASE f \in NumberFields -> 0
                            [] f \in SwitchFields -> FALSE
                            [] f \in ListFields   -> {}
                            [] f \in TextFields   -> ""]

Given(source, f) == source[f] \notin {Unset, Unparsable}

(* What a source gives a field is of the field's type; a text may be any.   *)
Typed(source) ==
    /\ DOMAIN source = Fields
    /\ \A f \in Fields : Given(source, f) =>
           /\ f \in NumberFields => source[f] \in Int
           /\ f \in SwitchFields => source[f] \in BOOLEAN
           /\ f \in ListFields => source[f] \subseteq {"valid", "invalid"}

ASSUME FilesAssumption == \A file \in Files : Typed(file)
ASSUME EnvsAssumption ==
    \A env \in Envs :
        /\ Typed(env)
        /\ \A f \in ListFields : env[f] = Unset
        /\ \A f \in TextFields : env[f] # Unparsable
ASSUME NoFileAssumption == {NoFile, Unreadable} \intersect Files = {}

VARIABLES
    file,    \* the file LoadConfig is given: its contents, NoFile or Unreadable
    env,     \* the environment it runs in
    phase,   \* the step LoadConfig is at
    config   \* its configuration: [fields, sections]

vars == <<file, env, phase, config>>

HasFile == file \notin {NoFile, Unreadable}
-----------------------------------------------------------------------------
(* DefaultConfig. *)
DefaultConfig ==
    [fields |-> [Zero EXCEPT !["storage.type"] = "memory",
                             !["cache.enabled"] = TRUE,
                             !["cache.ttl"] = 5,
                             !["cache.max_size"] = 1000,
                             !["logging.level"] = "info"],
     sections |-> {}]

(* What a source says, read into an empty Config: LoadConfigFromFile (for  *)
(* a file that parses) and LoadConfigFromEnv, which drops what does not.   *)
Reading(source) ==
    [fields |-> [f \in Fields |-> IF Given(source, f) THEN source[f] ELSE Zero[f]],
     sections |-> {s \in Sections : \E f \in s : Given(source, f)}]

\* Mutants: a section given by the override replaces the base's section; zero
\* overrides a number; switches are merged by disjunction.
MergedBySection(base, override) ==
    [f \in Fields |->
        IF \/ \E s \in override.sections : f \in s
           \/ f \in SwitchFields
           \/ override.fields[f] # Zero[f]
        THEN override.fields[f] ELSE base.fields[f]]
MergedWithZeros(base, override) ==
    [f \in Fields |->
        IF \/ f \in NumberFields \union SwitchFields
           \/ override.fields[f] # Zero[f]
        THEN override.fields[f] ELSE base.fields[f]]
MergedByDisjunction(base, override) ==
    [f \in Fields |->
        IF override.fields[f] # Zero[f] THEN override.fields[f] ELSE base.fields[f]]

(* mergeConfigs: a text, a number or a list overrides unless it is zero; a *)
(* switch overrides whenever it differs.                                   *)
Merged(base, override) ==
    [f \in Fields |->
        IF f \in SwitchFields
        THEN IF override.fields[f] # base.fields[f] THEN override.fields[f]
                                                    ELSE base.fields[f]
        ELSE IF override.fields[f] # Zero[f] THEN override.fields[f]
                                             ELSE base.fields[f]]

\* Mutant: a section that the base lacks is not created.
MergedIntoBase(base, override) ==
    [fields |-> Merged(base, override), sections |-> base.sections]

mergeConfigs(base, override) ==
    [fields |-> Merged(base, override),
     sections |-> base.sections \union override.sections]

(* Config.Validate and the Validate methods it calls; a logging level      *)
(* stands for every way to write it in upper and lower case.               *)
ValidRedis(c) ==
    /\ Redis \in c.sections
    /\ c.fields["redis.addr"] # ""
    /\ c.fields["redis.db"] \in 0..15

ValidPostgres(c) ==
    /\ Postgres \in c.sections
    /\ \A f \in {"postgres.host", "postgres.database", "postgres.username"} :
           c.fields[f] # ""
    /\ c.fields["postgres.port"] \in 1..65535
    /\ c.fields["postgres.sslmode"] \in
           {"", "disable", "allow", "prefer", "require", "verify-ca", "verify-full"}

Valid(c) ==
    /\ c.fields["storage.type"] \in {"memory", "redis", "postgres"}
    /\ c.fields["storage.type"] = "redis" => ValidRedis(c)
    /\ c.fields["storage.type"] = "postgres" => ValidPostgres(c)
    /\ c.fields["cache.ttl"] >= 0
    /\ c.fields["cache.max_size"] >= 0
    /\ c.fields["logging.level"] \in {"", "debug", "info", "warn", "error"}
    /\ "invalid" \notin c.fields["default_flags"]
-----------------------------------------------------------------------------
Init ==
    /\ file \in Files \union {NoFile, Unreadable}
    /\ env \in Envs
    /\ phase = "file"
    /\ config = DefaultConfig

SkipFile ==
    /\ phase = "file"
    /\ file = NoFile
    /\ phase' = "env"
    /\ UNCHANGED <<file, env, config>>

(* One text that does not parse fails the whole file. *)
FileFails ==
    /\ phase = "file"
    /\ \/ file = Unreadable
       \/ HasFile /\ \E f \in Fields : file[f] = Unparsable
    /\ phase' = "failed"
    /\ UNCHANGED <<file, env, config>>

MergeFile ==
    /\ phase = "file"
    /\ HasFile
    /\ \A f \in Fields : file[f] # Unparsable
    /\ config' = mergeConfigs(config, Reading(file))
    /\ phase' = "env"
    /\ UNCHANGED <<file, env>>

MergeEnv ==
    /\ phase = "env"
    /\ config' = mergeConfigs(config, Reading(env))
    /\ phase' = "validate"
    /\ UNCHANGED <<file, env>>

Accept ==
    /\ phase = "validate"
    /\ Valid(config)
    /\ phase' = "loaded"
    /\ UNCHANGED <<file, env, config>>

Reject ==
    /\ phase = "validate"
    /\ ~Valid(config)
    /\ phase' = "invalid"
    /\ UNCHANGED <<file, env, config>>

Next == SkipFile \/ FileFails \/ MergeFile \/ MergeEnv \/ Accept \/ Reject

Spec == Init /\ [][Next]_vars
-----------------------------------------------------------------------------
(* The value the precedence gives field f: that of the environment, else   *)
(* of the file, else the default.  "Says" tells when a source counts:      *)
(* where the documentation ranks the sources it is Given; the code counts  *)
(* only what is Effective.                                                 *)
Precedence(f, Says(_, _)) ==
    IF Says(env, f) THEN env[f]
    ELSE IF HasFile /\ Says(file, f) THEN file[f]
    ELSE DefaultConfig.fields[f]

Effective(source, f) == Given(source, f) /\ source[f] # Zero[f]

\* A source gives f the value that the code takes for "not given".
ExplicitZero(f) ==
    \E source \in {env} \union (IF HasFile THEN {file} ELSE {}) :
        Given(source, f) /\ source[f] = Zero[f]

Merging == phase \in {"validate", "loaded", "invalid"}

(* The texts there are: those of the defaults and those the sources give.  *)
Texts ==
    {DefaultConfig.fields[f] : f \in TextFields}
    \union ({source[f] : source \in Files \union Envs, f \in TextFields}
                \ {Unset, Unparsable})

(* Every step leaves the configuration with a value of the right kind in   *)
(* every field, and a section that is nil has zero fields.                 *)
TypeOK ==
    /\ phase \in {"file", "env", "validate", "loaded", "invalid", "failed"}
    /\ DOMAIN config.fields = Fields
    /\ \A f \in TextFields : config.fields[f] \in Texts
    /\ \A f \in NumberFields : config.fields[f] \in Int
    /\ \A f \in SwitchFields : config.fields[f] \in BOOLEAN
    /\ \A f \in ListFields : config.fields[f] \subseteq {"valid", "invalid"}
    /\ \A s \in Sections \ config.sections : \A f \in s : config.fields[f] = Zero[f]

(* Field by field, and also within the redis and postgres sections, a      *)
(* text, number or list comes from the environment before the file before  *)
(* the defaults (config.go:191-194), as long as no source gives it a zero: *)
(* a connection whose parts come from different sources is put together,   *)
(* and none of its parts is lost.                                          *)
PrecedenceKept ==
    Merging => \A f \in Fields \ SwitchFields :
                   ~ExplicitZero(f) => config.fields[f] = Precedence(f, Given)

(* The merge of these fields as the code has it (config.go:515-567, 581):  *)
(* a zero that a source gives is passed over in favour of the sources      *)
(* below it, and of nothing else.  The documentation says no such thing;   *)
(* see PrecedenceFollowed.                                                 *)
ZeroIsSkipped ==
    Merging => \A f \in Fields \ SwitchFields :
                   config.fields[f] = Precedence(f, Effective)

(* The merge of the switches as the code has it (config.go:559-578): after *)
(* the environment is merged, a switch is on exactly when the environment  *)
(* turns it on, whatever the file and the defaults say.                    *)
SwitchedOnByEnvOnly ==
    Merging => \A f \in SwitchFields :
                   config.fields[f] <=> Given(env, f) /\ env[f]

(* A configuration is accepted exactly when what the code's precedence     *)
(* (that of ZeroIsSkipped) chooses, each field on its own, is valid: the   *)
(* sections that the sources give in part are never rejected for a part    *)
(* that another source has (config.go:213, 375-393).                       *)
Chosen ==
    [fields |-> [f \in Fields |-> Precedence(f, Effective)],
     sections |-> {s \in Sections : \E f \in s : Precedence(f, Effective) # Zero[f]}]
AcceptedWhenWhole ==
    /\ phase = "loaded" => Valid(Chosen)
    /\ phase = "invalid" => ~Valid(Chosen)

(* What config.go:191-194 and featureflag/README.md:125-128 say, of the    *)
(* switches: the environment, else the file, else the default decides.     *)
SwitchesFollowPrecedence ==
    phase = "loaded" => \A f \in SwitchFields : config.fields[f] = Precedence(f, Given)

(* ... and of every field: "1. Environment variables (highest precedence)  *)
(* 2. Configuration file 3. Default values (lowest precedence)".           *)
PrecedenceFollowed ==
    phase = "loaded" => \A f \in Fields : config.fields[f] = Precedence(f, Given)
=============================================================================
