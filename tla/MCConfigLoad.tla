---------------------------- MODULE MCConfigLoad ----------------------------
(* Small instances of ConfigLoad for TLC: per source, the fields that vary *)
(* and their values; every other field is left out.                        *)
EXTENDS ConfigLoad, TLC

Blank == [f \in Fields |-> Unset]

\* The redis section in parts, the cache and one switch.
RedisEnvs ==
    {   ("storage.type" :> type) @@ ("redis.addr" :> addr) @@ ("redis.db" :> db)
     @@ ("cache.ttl" :> ttl) @@ ("cache.enabled" :> enabled) @@ Blank :
        type    \in {Unset, "redis"},
        addr    \in {Unset, "env:6379"},
        db      \in {Unset, Unparsable, 0, 16},
        ttl     \in {Unset, Unparsable, -1, 7},
        enabled \in {Unset, Unparsable, TRUE, FALSE}}

RedisFiles ==
    {   ("storage.type" :> type) @@ ("redis.addr" :> addr) @@ ("redis.db" :> db)
     @@ ("cache.ttl" :> ttl) @@ ("cache.enabled" :> enabled)
     @@ ("default_flags" :> flags) @@ Blank :
        type    \in {Unset, "redis", "mongo"},
        addr    \in {Unset, "file:6379"},
        db      \in {Unset, 3},
        ttl     \in {Unset, Unparsable, 9},
        enabled \in {Unset, TRUE},
        flags   \in {Unset, {"valid"}, {"valid", "invalid"}}}

\* The postgres section in parts and the rest of the observability settings.
PostgresEnvs ==
    {   ("postgres.host" :> host) @@ ("postgres.port" :> port)
     @@ ("postgres.password" :> password) @@ ("postgres.username" :> username)
     @@ ("logging.level" :> level) @@ ("metrics.enabled" :> enabled) @@ Blank :
        host     \in {Unset, "env"},
        port     \in {Unset, Unparsable, 70000, 5432},
        password \in {Unset, "env"},
        username \in {Unset, "env"},
        level    \in {Unset, "debug", "loud"},
        enabled  \in {Unset, TRUE}}

PostgresFiles ==
    {   ("storage.type" :> "postgres") @@ ("postgres.host" :> host)
     @@ ("postgres.port" :> port) @@ ("postgres.database" :> database)
     @@ ("postgres.username" :> username) @@ ("postgres.sslmode" :> sslmode)
     @@ ("metrics.enabled" :> enabled) @@ Blank :
        host     \in {Unset, "file"},
        port     \in {Unset, 5433},
        database \in {Unset, "file"},
        username \in {Unset, "file"},
        sslmode  \in {Unset, "require", "maybe"},
        enabled  \in {Unset, TRUE}}

\* Where the documentation and the code part: an environment that gives two
\* numbers the value 0 and is silent about the cache, which the file turns on.
DisputedEnvs ==
    {("storage.type" :> "redis") @@ ("redis.db" :> 0) @@ ("cache.ttl" :> 0) @@ Blank}

DisputedFiles ==
    {   ("redis.addr" :> "file:6379") @@ ("redis.db" :> 3) @@ ("cache.ttl" :> 9)
     @@ ("cache.enabled" :> TRUE) @@ Blank}

AllFiles == RedisFiles \union PostgresFiles
AllEnvs == RedisEnvs \union PostgresEnvs
=============================================================================
