-------------------------- MODULE ConfigLoadProofs --------------------------
(* Proofs about ConfigLoad, for every content of the file and every         *)
(* environment: the types, the precedence of the fields that are not        *)
(* switches, what the merge makes of a zero and of a switch, and that       *)
(* validation judges the configuration put together.                        *)
EXTENDS ConfigLoad, TLAPS

(* The fields that may still change once the environment is merged: none.   *)
(* After the file, a field has the file's value where the file has an       *)
(* effective one, the default otherwise.                                    *)
AfterFile(f) ==
    IF HasFile /\ Effective(file, f) THEN file[f] ELSE DefaultConfig.fields[f]

IInv ==
    /\ env \in Envs
    /\ DOMAIN config.fields = Fields
    /\ phase = "file" => config = DefaultConfig
    /\ phase = "env" => \A f \in Fields \ SwitchFields : config.fields[f] = AfterFile(f)
    /\ ZeroIsSkipped
    /\ SwitchedOnByEnvOnly

(* One merge, field by field: an effective value of the source wins over    *)
(* the base, anything else leaves the base's value.                         *)
LEMMA MergeChooses ==
    ASSUME NEW base, NEW source, NEW f \in Fields, f \notin SwitchFields
    PROVE  mergeConfigs(base, Reading(source)).fields[f] =
               IF Effective(source, f) THEN source[f] ELSE base.fields[f]
<1>1. Reading(source).fields[f] = IF Given(source, f) THEN source[f] ELSE Zero[f]
  BY DEF Reading
<1>2. mergeConfigs(base, Reading(source)).fields[f] =
        IF Reading(source).fields[f] # Zero[f] THEN Reading(source).fields[f]
                                               ELSE base.fields[f]
  BY DEF mergeConfigs, Merged
<1>. QED
  BY <1>1, <1>2 DEF Effective

(* One merge of a switch: the value the source reads as, given or not.      *)
LEMMA MergeSwitches ==
    ASSUME NEW base, NEW source, NEW f \in SwitchFields
    PROVE  mergeConfigs(base, Reading(source)).fields[f] =
               IF Given(source, f) THEN source[f] ELSE FALSE
<1>1. f \in Fields /\ f \notin NumberFields
  BY DEF Fields, SwitchFields, NumberFields
<1>2. Zero[f] = FALSE
  <2>1. Zero[f] = CASE f \in NumberFields -> 0
                    [] f \in SwitchFields -> FALSE
                    [] f \in ListFields   -> {}
                    [] f \in TextFields   -> ""
    BY <1>1, Zenon DEF Zero
  <2>2. f \notin ListFields /\ f \notin TextFields
    BY DEF SwitchFields, ListFields, TextFields, Redis, Postgres, NumberFields
  <2>. QED
    BY <1>1, <2>1, <2>2
<1>3. Reading(source).fields[f] = IF Given(source, f) THEN source[f] ELSE FALSE
  BY <1>1, <1>2 DEF Reading
<1>4. mergeConfigs(base, Reading(source)).fields[f] =
        IF Reading(source).fields[f] # base.fields[f] THEN Reading(source).fields[f]
                                                      ELSE base.fields[f]
  BY <1>1 DEF mergeConfigs, Merged
<1>. QED
  BY <1>3, <1>4

LEMMA InitInvariant == Init => IInv
<1>. SUFFICES ASSUME Init PROVE IInv
  OBVIOUS
<1>1. DOMAIN config.fields = Fields
  BY Zenon DEF Init, DefaultConfig, Zero
<1>. QED
  BY <1>1 DEF Init, IInv, ZeroIsSkipped, SwitchedOnByEnvOnly, Merging

LEMMA NextInvariant == IInv /\ [Next]_vars => IInv'
<1>. SUFFICES ASSUME IInv, [Next]_vars PROVE IInv'
  OBVIOUS
<1>. USE DEF IInv
<1>1. CASE SkipFile
  <2>1. \A f \in Fields \ SwitchFields : config'.fields[f] = AfterFile(f)'
    BY <1>1 DEF SkipFile, AfterFile, HasFile
  <2>. QED
    BY <1>1, <2>1 DEF SkipFile, ZeroIsSkipped, SwitchedOnByEnvOnly, Merging
<1>2. CASE FileFails
  BY <1>2 DEF FileFails, ZeroIsSkipped, SwitchedOnByEnvOnly, Merging
<1>3. CASE MergeFile
  <2>1. DOMAIN config'.fields = Fields
    BY <1>3 DEF MergeFile, mergeConfigs, Merged
  <2>2. \A f \in Fields \ SwitchFields : config'.fields[f] = AfterFile(f)'
    <3>. TAKE f \in Fields \ SwitchFields
    <3>1. config'.fields[f] =
            IF Effective(file, f) THEN file[f] ELSE DefaultConfig.fields[f]
      BY <1>3, MergeChooses DEF MergeFile
    <3>. QED
      BY <1>3, <3>1 DEF MergeFile, AfterFile, HasFile, Effective, Given
  <2>. QED
    BY <1>3, <2>1, <2>2 DEF MergeFile, ZeroIsSkipped, SwitchedOnByEnvOnly, Merging
<1>4. CASE MergeEnv
  <2>1. DOMAIN config'.fields = Fields
    BY <1>4 DEF MergeEnv, mergeConfigs, Merged
  <2>2. ZeroIsSkipped'
    <3>. SUFFICES ASSUME NEW f \in Fields \ SwitchFields
                  PROVE  config'.fields[f] = Precedence(f, Effective)'
      BY DEF ZeroIsSkipped
    <3>1. config'.fields[f] =
            IF Effective(env, f) THEN env[f] ELSE config.fields[f]
      BY <1>4, MergeChooses DEF MergeEnv
    <3>2. config.fields[f] = AfterFile(f)
      BY <1>4 DEF MergeEnv
    <3>. QED
      BY <1>4, <3>1, <3>2 DEF MergeEnv, Precedence, AfterFile, HasFile, Effective, Given
  <2>3. SwitchedOnByEnvOnly'
    <3>. SUFFICES ASSUME NEW f \in SwitchFields
                  PROVE  config'.fields[f] <=> Given(env', f) /\ env'[f]
      BY DEF SwitchedOnByEnvOnly, Given
    <3>1. config'.fields[f] = IF Given(env, f) THEN env[f] ELSE FALSE
      BY <1>4, MergeSwitches DEF MergeEnv
    <3>2. Given(env, f) => env[f] \in BOOLEAN
      BY EnvsAssumption DEF Typed, Fields
    <3>. QED
      BY <1>4, <3>1, <3>2 DEF MergeEnv, Given
  <2>. QED
    BY <1>4, <2>1, <2>2, <2>3 DEF MergeEnv
<1>5. CASE Accept
  BY <1>5 DEF Accept, ZeroIsSkipped, SwitchedOnByEnvOnly, Merging, Precedence,
              Effective, Given, HasFile
<1>6. CASE Reject
  BY <1>6 DEF Reject, ZeroIsSkipped, SwitchedOnByEnvOnly, Merging, Precedence,
              Effective, Given, HasFile
<1>7. CASE UNCHANGED vars
  BY <1>7 DEF vars, AfterFile, ZeroIsSkipped, SwitchedOnByEnvOnly, Merging,
              Precedence, Effective, Given, HasFile
<1>. QED
  BY <1>1, <1>2, <1>3, <1>4, <1>5, <1>6, <1>7 DEF Next

(* mergeConfigs passes over a zero, and over nothing else, field by field,   *)
(* for every text, number and list (config.go:515-567, 581).                *)
THEOREM ZeroCorrect == Spec => []ZeroIsSkipped
<1>1. IInv => ZeroIsSkipped
  BY DEF IInv
<1>. QED
  BY <1>1, InitInvariant, NextInvariant, PTL DEF Spec

(* Where no source gives a zero, what the code counts as given is what is   *)
(* given.                                                                   *)
LEMMA NothingSkipped ==
    ASSUME NEW f \in Fields, ~ExplicitZero(f)
    PROVE  Precedence(f, Effective) = Precedence(f, Given)
<1>1. Effective(env, f) <=> Given(env, f)
  BY DEF Effective, ExplicitZero
<1>2. HasFile => (Effective(file, f) <=> Given(file, f))
  BY DEF Effective, ExplicitZero
<1>. QED
  BY <1>1, <1>2 DEF Precedence

(* LoadConfig keeps the documented precedence, field by field, for every    *)
(* text, number and list that no source sets to zero (config.go:191-194).   *)
THEOREM PrecedenceCorrect == Spec => []PrecedenceKept
<1>1. ZeroIsSkipped => PrecedenceKept
  BY NothingSkipped DEF ZeroIsSkipped, PrecedenceKept
<1>. QED
  BY <1>1, ZeroCorrect, PTL

(* ... and gives the switches to the environment alone (config.go:559-578). *)
THEOREM SwitchesCorrect == Spec => []SwitchedOnByEnvOnly
<1>1. IInv => SwitchedOnByEnvOnly
  BY DEF IInv
<1>. QED
  BY <1>1, InitInvariant, NextInvariant, PTL DEF Spec

-----------------------------------------------------------------------------
(* The values of a field have its type, with zero as one of them.           *)
HasType(f, v) ==
    /\ f \in TextFields => v \in Texts
    /\ f \in NumberFields => v \in Int
    /\ f \in SwitchFields => v \in BOOLEAN
    /\ f \in ListFields => v \subseteq {"valid", "invalid"}

LEMMA KindsApart ==
    ASSUME NEW f \in Fields
    PROVE  /\ f \in TextFields => f \notin NumberFields \union SwitchFields \union ListFields
           /\ f \in NumberFields => f \notin SwitchFields \union ListFields
           /\ f \in SwitchFields => f \notin ListFields
  BY DEF TextFields, NumberFields, SwitchFields, ListFields, Redis, Postgres

LEMMA SectionFields ==
    ASSUME NEW s \in Sections
    PROVE  s \subseteq Fields \ SwitchFields
  BY DEF Sections, Fields, TextFields, NumberFields, SwitchFields, Redis, Postgres

LEMMA TextsHold ==
    /\ \A f \in TextFields : DefaultConfig.fields[f] \in Texts
    /\ \A source \in Files \union Envs, f \in TextFields :
           Given(source, f) => source[f] \in Texts
<1>. DEFINE D == {DefaultConfig.fields[f] : f \in TextFields}
            T == {source[f] : source \in Files \union Envs, f \in TextFields}
<1>1. \A f \in TextFields : DefaultConfig.fields[f] \in D
  OBVIOUS
<1>2. \A source \in Files \union Envs, f \in TextFields : source[f] \in T
  OBVIOUS
<1>3. Texts = D \union (T \ {Unset, Unparsable})
  BY DEF Texts
<1>. HIDE DEF D, T
<1>. QED
  BY <1>1, <1>2, <1>3 DEF Given

LEMMA EmptyText == "" \in Texts
<1>. DEFINE f == "redis.addr"
<1>1. /\ f \in TextFields /\ f \in Fields
      /\ f \notin NumberFields /\ f \notin SwitchFields /\ f \notin ListFields
  BY DEF Fields, TextFields, NumberFields, SwitchFields, ListFields, Redis
<1>2. Zero[f] = CASE f \in NumberFields -> 0
                  [] f \in SwitchFields -> FALSE
                  [] f \in ListFields   -> {}
                  [] f \in TextFields   -> ""
  BY <1>1, Zenon DEF Zero
<1>3. Zero[f] = ""
  BY <1>1, <1>2
<1>4. DOMAIN Zero = Fields
  BY DEF Zero
<1>5. DefaultConfig.fields[f] = Zero[f]
  BY <1>1, <1>4 DEF DefaultConfig
<1>. QED
  BY <1>1, <1>3, <1>5, TextsHold

LEMMA ZeroTyped ==
    ASSUME NEW f \in Fields
    PROVE  HasType(f, Zero[f])
<1>1. Zero[f] = CASE f \in NumberFields -> 0
                  [] f \in SwitchFields -> FALSE
                  [] f \in ListFields   -> {}
                  [] f \in TextFields   -> ""
  BY Zenon DEF Zero
<1>2. CASE f \in NumberFields
  <2>1. f \notin SwitchFields /\ f \notin ListFields /\ f \notin TextFields
    BY <1>2, KindsApart
  <2>2. Zero[f] = 0
    BY <1>1, <1>2, <2>1
  <2>. QED
    BY <2>1, <2>2 DEF HasType
<1>3. CASE f \in SwitchFields
  <2>1. f \notin NumberFields /\ f \notin ListFields /\ f \notin TextFields
    BY <1>3, KindsApart
  <2>2. Zero[f] = FALSE
    BY <1>1, <1>3, <2>1
  <2>. QED
    BY <2>1, <2>2 DEF HasType
<1>4. CASE f \in ListFields
  <2>1. f \notin NumberFields /\ f \notin SwitchFields /\ f \notin TextFields
    BY <1>4, KindsApart
  <2>2. Zero[f] = {}
    BY <1>1, <1>4, <2>1
  <2>. QED
    BY <2>1, <2>2 DEF HasType
<1>5. CASE f \in TextFields
  <2>1. f \notin NumberFields /\ f \notin SwitchFields /\ f \notin ListFields
    BY <1>5, KindsApart
  <2>2. Zero[f] = ""
    BY <1>1, <1>5, <2>1
  <2>. QED
    BY <2>1, <2>2, EmptyText, Zenon DEF HasType
<1>. QED
  BY <1>2, <1>3, <1>4, <1>5 DEF Fields

LEMMA DefaultTyped ==
    /\ DOMAIN DefaultConfig.fields = Fields
    /\ \A f \in Fields : HasType(f, DefaultConfig.fields[f])
    /\ \A s \in Sections : \A f \in s : DefaultConfig.fields[f] = Zero[f]
    /\ DefaultConfig.sections = {}
<1>1. DOMAIN DefaultConfig.fields = Fields
  BY Zenon DEF DefaultConfig, Zero
<1>. DEFINE set == {"storage.type", "cache.enabled", "cache.ttl", "cache.max_size", "logging.level"}
<1>2. /\ "storage.type" \in TextFields /\ "logging.level" \in TextFields
      /\ "cache.enabled" \in SwitchFields
      /\ "cache.ttl" \in NumberFields /\ "cache.max_size" \in NumberFields
      /\ set \subseteq Fields
  BY DEF Fields, TextFields, SwitchFields, NumberFields
<1>3. DOMAIN Zero = Fields
  BY DEF Zero
<1>4. \A f \in Fields \ set : DefaultConfig.fields[f] = Zero[f]
  <2>. TAKE f \in Fields \ set
  <2>. QED
    BY <1>2, <1>3 DEF DefaultConfig
<1>5. DefaultConfig.fields["cache.enabled"] = TRUE
  BY <1>2, <1>3 DEF DefaultConfig
<1>6. DefaultConfig.fields["cache.ttl"] = 5
  BY <1>2, <1>3 DEF DefaultConfig
<1>7. DefaultConfig.fields["cache.max_size"] = 1000
  BY <1>2, <1>3 DEF DefaultConfig
<1>8. \A f \in Fields : HasType(f, DefaultConfig.fields[f])
  <2>. TAKE f \in Fields
  <2>1. CASE f \notin set
    BY <2>1, <1>4, ZeroTyped
  <2>2. CASE f \in {"storage.type", "logging.level"}
    <3>1. f \in TextFields /\ f \notin NumberFields \union SwitchFields \union ListFields
      BY <2>2, <1>2, KindsApart
    <3>2. DefaultConfig.fields[f] \in Texts
      BY <3>1, TextsHold
    <3>. QED
      BY <3>1, <3>2, Zenon DEF HasType
  <2>3. CASE f = "cache.enabled"
    <3>1. f \in SwitchFields /\ f \notin TextFields \union NumberFields \union ListFields
      BY <2>3, <1>2, KindsApart
    <3>2. DefaultConfig.fields[f] \in BOOLEAN
      BY <2>3, <1>5
    <3>. QED
      BY <3>1, <3>2, Zenon DEF HasType
  <2>4. CASE f \in {"cache.ttl", "cache.max_size"}
    <3>1. f \in NumberFields /\ f \notin TextFields \union SwitchFields \union ListFields
      BY <2>4, <1>2, KindsApart
    <3>2. DefaultConfig.fields[f] \in Int
      BY <2>4, <1>6, <1>7
    <3>. QED
      BY <3>1, <3>2, Zenon DEF HasType
  <2>. QED
    BY <2>1, <2>2, <2>3, <2>4
<1>9. \A s \in Sections : \A f \in s : f \in Fields \ set
  <2>1. Redis \intersect set = {} /\ Postgres \intersect set = {}
    BY DEF Redis, Postgres
  <2>2. \A s \in Sections : s \in {Redis, Postgres}
    BY Zenon DEF Sections
  <2>. HIDE DEF set
  <2>. QED
    BY <2>1, <2>2, SectionFields
<1>10. \A s \in Sections : \A f \in s : DefaultConfig.fields[f] = Zero[f]
  BY <1>4, <1>9, Zenon
<1>11. DefaultConfig.sections = {}
  BY DEF DefaultConfig
<1>. QED
  BY <1>1, <1>8, <1>10, <1>11, Zenon

LEMMA MergeTyped ==
    ASSUME NEW source \in Files \union Envs, NEW f \in Fields,
           HasType(f, config.fields[f])
    PROVE  HasType(f, mergeConfigs(config, Reading(source)).fields[f])
<1>1. Given(source, f) => HasType(f, source[f])
  <2>1. Typed(source)
    BY FilesAssumption, EnvsAssumption
  <2>2. f \in TextFields /\ Given(source, f) => source[f] \in Texts
    BY TextsHold
  <2>. QED
    BY <2>1, <2>2, Zenon DEF Typed, HasType
<1>2. CASE f \in SwitchFields
  BY <1>2, <1>1, MergeSwitches, KindsApart DEF HasType
<1>3. CASE f \notin SwitchFields
  BY <1>3, <1>1, MergeChooses DEF Effective
<1>. QED
  BY <1>2, <1>3

(* A section that neither the base nor the source has stays nil, and its    *)
(* fields zero.                                                             *)
NilIsZero == \A s \in Sections \ config.sections : \A f \in s : config.fields[f] = Zero[f]

LEMMA MergeNil ==
    ASSUME NilIsZero, NEW source,
           config' = mergeConfigs(config, Reading(source))
    PROVE  NilIsZero'
<1>. SUFFICES ASSUME NEW s \in Sections \ config'.sections, NEW f \in s
              PROVE  config'.fields[f] = Zero[f]
  BY DEF NilIsZero
<1>1. s \notin config.sections /\ ~Given(source, f)
  BY DEF mergeConfigs, Reading
<1>2. f \in Fields /\ f \notin SwitchFields
  BY SectionFields
<1>3. config'.fields[f] = config.fields[f]
  BY <1>1, <1>2, MergeChooses DEF Effective
<1>. QED
  BY <1>1, <1>3 DEF NilIsZero

TInv ==
    /\ file \in Files \union {NoFile, Unreadable}
    /\ env \in Envs
    /\ phase \in {"file", "env", "validate", "loaded", "invalid", "failed"}
    /\ DOMAIN config.fields = Fields
    /\ \A f \in Fields : HasType(f, config.fields[f])
    /\ NilIsZero
    /\ phase = "loaded" => Valid(config)
    /\ phase = "invalid" => ~Valid(config)

LEMMA InitTyped == Init => TInv
  BY DefaultTyped DEF Init, TInv, NilIsZero

LEMMA MergedTyped ==
    ASSUME TInv, NEW source \in Files \union Envs,
           config' = mergeConfigs(config, Reading(source)),
           UNCHANGED <<file, env>>, phase' \in {"env", "validate"}
    PROVE  TInv'
<1>1. DOMAIN config'.fields = Fields
  BY DEF mergeConfigs, Merged
<1>2. \A f \in Fields : HasType(f, config'.fields[f])
  BY MergeTyped DEF TInv
<1>3. NilIsZero'
  BY MergeNil DEF TInv
<1>. QED
  BY <1>1, <1>2, <1>3 DEF TInv, HasType

LEMMA ValidSame == \A c, d : c = d => (Valid(c) <=> Valid(d))
  BY Zenon

LEMMA NextTyped == TInv /\ [Next]_vars => TInv'
<1>. SUFFICES ASSUME TInv, [Next]_vars PROVE TInv'
  OBVIOUS
<1>0. ASSUME UNCHANGED <<file, env, config>>,
             phase' \in {"file", "env", "validate", "loaded", "invalid", "failed"},
             phase' = "loaded" => Valid(config),
             phase' = "invalid" => ~Valid(config)
      PROVE  TInv'
  <2>1. Valid(config)' <=> Valid(config)
    BY <1>0, ValidSame
  <2>2. NilIsZero' /\ \A f \in Fields : HasType(f, config'.fields[f])
    BY <1>0 DEF TInv, NilIsZero, HasType
  <2>. QED
    BY <1>0, <2>1, <2>2 DEF TInv, HasType
<1>1. CASE SkipFile
  BY <1>0, <1>1 DEF SkipFile
<1>2. CASE FileFails
  BY <1>0, <1>2 DEF FileFails
<1>3. CASE MergeFile
  <2>1. file \in Files
    BY <1>3 DEF MergeFile, HasFile, TInv
  <2>. QED
    BY <1>3, <2>1, MergedTyped DEF MergeFile
<1>4. CASE MergeEnv
  <2>1. env \in Envs
    BY DEF TInv
  <2>. QED
    BY <1>4, <2>1, MergedTyped DEF MergeEnv
<1>5. CASE Accept
  BY <1>0, <1>5 DEF Accept
<1>6. CASE Reject
  BY <1>0, <1>6 DEF Reject
<1>7. CASE UNCHANGED vars
  BY <1>0, <1>7 DEF vars, TInv
<1>. QED
  BY <1>1, <1>2, <1>3, <1>4, <1>5, <1>6, <1>7 DEF Next

(* Every field keeps a value of its type, and a section that is nil has     *)
(* nothing but zeros, so that asking for it is asking for its fields.       *)
THEOREM TypeCorrect == Spec => []TypeOK
<1>1. TInv => TypeOK
  BY DEF TInv, TypeOK, NilIsZero, HasType, Fields
<1>. QED
  BY <1>1, InitTyped, NextTyped, PTL DEF Spec

(* Valid reads nothing but what the precedence decides: of the sections     *)
(* only those it needs a field of, and none of the switches.                *)
LEMMA ValidChosen ==
    ASSUME NilIsZero, \A f \in Fields \ SwitchFields : config.fields[f] = Precedence(f, Effective)
    PROVE  Valid(config) <=> Valid(Chosen)
<1>. DEFINE read == Fields \ SwitchFields
<1>1. \A f \in read : Chosen.fields[f] = config.fields[f]
  BY DEF Chosen
<1>2. /\ {"storage.type", "logging.level", "cache.ttl", "cache.max_size", "default_flags"}
             \subseteq read
      /\ Redis \subseteq read /\ Postgres \subseteq read
  BY DEF Fields, TextFields, NumberFields, SwitchFields, ListFields, Redis, Postgres
<1>3. Zero["redis.addr"] = "" /\ Zero["postgres.host"] = ""
  <2>1. \A f \in {"redis.addr", "postgres.host"} :
            f \in TextFields /\ f \in Fields /\ f \notin NumberFields
              /\ f \notin SwitchFields /\ f \notin ListFields
    BY DEF Fields, TextFields, NumberFields, SwitchFields, ListFields, Redis, Postgres
  <2>2. \A f \in Fields : Zero[f] = CASE f \in NumberFields -> 0
                                      [] f \in SwitchFields -> FALSE
                                      [] f \in ListFields   -> {}
                                      [] f \in TextFields   -> ""
    BY Zenon DEF Zero
  <2>. QED
    BY <2>1, <2>2
<1>4. \A s \in Sections, f \in read :
          f \in s /\ config.fields[f] # Zero[f] => s \in config.sections /\ s \in Chosen.sections
  BY DEF NilIsZero, Chosen
<1>5. ValidRedis(config) <=> ValidRedis(Chosen)
  <2>1. "redis.addr" \in Redis /\ "redis.db" \in Redis /\ Redis \in Sections
    BY DEF Redis, Sections
  <2>. QED
    BY <1>1, <1>2, <1>3, <1>4, <2>1 DEF ValidRedis
<1>6. ValidPostgres(config) <=> ValidPostgres(Chosen)
  <2>1. {"postgres.host", "postgres.database", "postgres.username", "postgres.port",
         "postgres.sslmode"} \subseteq Postgres /\ Postgres \in Sections
    BY DEF Postgres, Sections
  <2>2. \A f \in Postgres : config.fields[f] = Chosen.fields[f]
    BY <1>1, <1>2
  <2>3. config.fields["postgres.host"] # "" =>
            Postgres \in config.sections /\ Postgres \in Chosen.sections
    BY <1>2, <1>3, <1>4, <2>1
  <2>4. /\ config.fields["postgres.host"] = Chosen.fields["postgres.host"]
        /\ config.fields["postgres.database"] = Chosen.fields["postgres.database"]
        /\ config.fields["postgres.username"] = Chosen.fields["postgres.username"]
        /\ config.fields["postgres.port"] = Chosen.fields["postgres.port"]
        /\ config.fields["postgres.sslmode"] = Chosen.fields["postgres.sslmode"]
    BY <2>1, <2>2
  <2>. DEFINE names == {"postgres.host", "postgres.database", "postgres.username"}
              ports == 1..65535
              modes == {"", "disable", "allow", "prefer", "require", "verify-ca", "verify-full"}
  <2>5. \A f \in names : config.fields[f] = Chosen.fields[f]
    BY <2>4
  <2>6. "postgres.host" \in names
    OBVIOUS
  <2>7. \A c : ValidPostgres(c) <=> /\ Postgres \in c.sections
                                    /\ \A f \in names : c.fields[f] # ""
                                    /\ c.fields["postgres.port"] \in ports
                                    /\ c.fields["postgres.sslmode"] \in modes
    BY DEF ValidPostgres
  <2>. HIDE DEF names, ports, modes
  <2>. QED
    BY <2>3, <2>4, <2>5, <2>6, <2>7
<1>7. /\ config.fields["storage.type"] = Chosen.fields["storage.type"]
      /\ config.fields["logging.level"] = Chosen.fields["logging.level"]
      /\ config.fields["cache.ttl"] = Chosen.fields["cache.ttl"]
      /\ config.fields["cache.max_size"] = Chosen.fields["cache.max_size"]
      /\ config.fields["default_flags"] = Chosen.fields["default_flags"]
  BY <1>1, <1>2
<1>. QED
  BY <1>5, <1>6, <1>7, Zenon DEF Valid

(* Validation accepts and rejects what the precedence puts together         *)
(* (config.go:213, 375-393), whatever parts the sources give.               *)
THEOREM AcceptedCorrect == Spec => []AcceptedWhenWhole
<1>1. TInv /\ ZeroIsSkipped => AcceptedWhenWhole
  BY ValidChosen DEF TInv, ZeroIsSkipped, AcceptedWhenWhole, Merging
<1>. QED
  BY <1>1, InitTyped, NextTyped, ZeroCorrect, PTL DEF Spec

(* What the documentation says of the switches (config.go:191-194) is true  *)
(* in an environment that mentions every one of them, whatever the file     *)
(* says; in others the environment's silence reads as "off".                *)
THEOREM SwitchesCorrectIfAllGiven ==
    ASSUME \A e \in Envs, f \in SwitchFields : Given(e, f)
    PROVE  Spec => []SwitchesFollowPrecedence
<1>1. TInv /\ SwitchedOnByEnvOnly => SwitchesFollowPrecedence
  <2>. SUFFICES ASSUME TInv, SwitchedOnByEnvOnly, phase = "loaded", NEW f \in SwitchFields
                PROVE  config.fields[f] = Precedence(f, Given)
    BY DEF SwitchesFollowPrecedence
  <2>1. env \in Envs /\ Given(env, f)
    BY DEF TInv
  <2>2. env[f] \in BOOLEAN
    BY <2>1, EnvsAssumption DEF Typed, Fields
  <2>3. config.fields[f] \in BOOLEAN
    BY DEF TInv, HasType, Fields, SwitchFields
  <2>4. config.fields[f] <=> env[f]
    BY <2>1 DEF SwitchedOnByEnvOnly, Merging
  <2>. QED
    BY <2>1, <2>2, <2>3, <2>4 DEF Precedence
<1>. QED
  BY <1>1, InitTyped, NextTyped, SwitchesCorrect, PTL DEF Spec

(* ... and what it says of every field is true if, besides, no source gives *)
(* a text, number or list the value zero: the run ConfigDisputed needs an   *)
(* environment that is silent about a switch or sets a number to zero.      *)
THEOREM PrecedenceFollowedIfPlain ==
    ASSUME \A e \in Envs, f \in SwitchFields : Given(e, f),
           \A source \in Files \union Envs, f \in Fields \ SwitchFields :
               Given(source, f) => source[f] # Zero[f]
    PROVE  Spec => []PrecedenceFollowed
<1>1. TInv /\ PrecedenceKept /\ SwitchesFollowPrecedence => PrecedenceFollowed
  <2>. SUFFICES ASSUME TInv, PrecedenceKept, SwitchesFollowPrecedence,
                       phase = "loaded", NEW f \in Fields
                PROVE  config.fields[f] = Precedence(f, Given)
    BY DEF PrecedenceFollowed
  <2>1. CASE f \in SwitchFields
    BY <2>1 DEF SwitchesFollowPrecedence
  <2>2. CASE f \notin SwitchFields
    <3>1. env \in Files \union Envs /\ (HasFile => file \in Files \union Envs)
      BY DEF TInv, HasFile
    <3>2. ~ExplicitZero(f)
      BY <2>2, <3>1 DEF ExplicitZero
    <3>. QED
      BY <2>2, <3>2 DEF PrecedenceKept, Merging
  <2>. QED
    BY <2>1, <2>2
<1>. QED
  BY <1>1, InitTyped, NextTyped, PrecedenceCorrect, SwitchesCorrectIfAllGiven, PTL DEF Spec
=============================================================================
