# go-feature-flag: TLA+ models, model checking and proofs

This directory is the verification project of the feature flag library in
`src/featureflag`. It holds TLA+ modules translated from the Go code, the TLC
configurations that check them on small instances, and TLAPS proofs of the
properties that matter most, for every value of the constants.
`PROJECT.json` lists the runs, maps every definition to the lines it stands for,
and records the hazards of the code and the disagreements between the code and
its documentation.

    tlc -workers 2 -config LRUSafety.cfg MCLRUCache.tla     # one run
    tlapm LRUCacheProofs.tla                                # one proof module

## 1. The system

A client library: each process that uses it has a `client`, which keeps its flags
in a store of its own (memory) or in one that it shares with other processes
(redis, postgres), optionally behind a cache in the process.

| Part | Source (`src/featureflag/`) | State | Operations |
|---|---|---|---|
| client | `client/client.go` | the atomic `closed` flag, a mutex for `Close`, the store | `NewClient` with `loadDefaultFlags`, `IsEnabled`, `GetFlag`, `SetFlag`, `DeleteFlag`, `GetAllFlags`, `HealthCheck`, `GetMetrics`, `Close` |
| cached store | `cache/store.go` | none but the cache and the store | `Get`, `Set`, `Delete`, `GetAll`, `HealthCheck`, `Close`: each one or two calls of the cache and one of the store |
| LRU cache | `cache/cache.go` | a map of items, an LRU list, a read-write lock, a cleanup goroutine with its ticker, a stop channel | `Get` (two critical sections), `Set` with its eviction loop, `Delete`, `Clear`, `Close`, the sweep |
| memory store | `storage/memory/store.go` | a map under a lock | `Get`, `Set`, `Delete`, `GetAll`, `Close`, which empties it |
| redis store | `storage/redis/store.go` | external: keys in redis | the same; `GetAll` is KEYS and then a pipeline of GETs |
| postgres store | `storage/postgres/store.go` | external: one table | the same; `Set` is an upsert that keeps `created_at` |
| configuration | `config/config.go` | none | `LoadConfig`: defaults, file, environment, merge, validation |
| metrics | `observability/metrics.go` | atomic counters, error counts, two windows of durations | `Record...`, `GetMetrics` |
| logger | `observability/logger.go` | its level | writes lines |
| core | `core/*.go` | none | flag validation, timestamps, error classes, interfaces |

How they interact: application goroutines call the client concurrently. The
client checks its `closed` flag and calls the store without holding a lock;
`Close` may run in between. The cached store looks in the cache, calls the
store and changes the cache, in steps that nothing holds together. The cache's
own goroutine sweeps expired items under the cache's lock. Other processes
change a shared store at any time; nothing invalidates this process's cache, so
only the TTL bounds how long it is out of date. A request to a remote store can
fail before it is carried out, or after, with its answer lost.

What is hard here, and what must hold:

* The cache gives up its lock in the middle of `Get`. Map and list must stay in
  step all the same: `evictIfNeeded` loops, lock held, until the map is small
  enough and would never end if the back of the list named nothing.
* Acting on an old observation ("expired", "this item") must not remove or
  promote what has been replaced in the meantime.
* Cache and store are changed in two steps by several goroutines. They can
  disagree; it must be clear for whom, and for how long.
* Several clients start on one store and load default flags by looking first
  and writing afterwards.
* Several goroutines close one client while others are inside its methods.
* Goroutines record what they did in counters, one atomic step at a time, while
  another reads them: a snapshot is of no single moment.
* A `FeatureFlag` is passed by value but its `Metadata` is a map, and `GetFlag`
  returns a pointer: the store, the cache and the application may hold the same
  object.
* Three sources of configuration are merged field by field and section by
  section, and what counts as "not given" differs between kinds of fields.

The hazards are listed one by one, with their lines and the properties that
cover them, under `hazards` in `PROJECT.json`.

## 2. The modules

| Module | Models | Checked by | Proofs |
|---|---|---|---|
| `LRUSpec` | what a cache promises: a bounded map that forgets the key used longest ago | refined by `LRUCache` | |
| `LRUCache` | `cache/cache.go` | `LRUSafety`, `LRULiveness` | `LRUCacheProofs`, `LRURefinement` |
| `CachedStore` | `cache/store.go` over each kind of store, for many clients | `StoreSessions`, `StoreEventual`, `StoreDeleteRace` | `CachedStoreProofs`, `StalenessProofs` |
| `ConfigLoad` | `LoadConfig` of `config/config.go` | `ConfigSources`, `ConfigDisputed` | `ConfigLoadProofs` |
| `Client` | `client/client.go` over a store of its own or a shared one | `ClientShared`, `ClientClose`, `ClientDefaultsRace` | `ClientProofs` |
| `Errors` | `core/errors.go`: construction and classification of errors | used by `Metrics` | |
| `Metrics` | `observability/metrics.go` and the recordings of the client and the cached store | `Metrics` | `MetricsProofs` |
| `FlagMap` | what a store promises: a map of flags that are values | refined by `FlagObjects` | |
| `FlagObjects` | the flag structs and maps that memory store, cache and application share | `FlagObjects` | `FlagObjectsProofs` |

Each `MC...` module only gives its module small sets for its constants.
Operators named as mutants in a comment are changed versions of the action that
follows them, the way a plausible bug would change it; they are part of no
specification and show that a property can tell the difference.

### LRUCache

`items` is the map, `lruList` the list (front first), and an item has an
identity (`id`), because `Get` compares addresses after it takes the write lock.
A freed address may be used again, but not while a goroutine still holds it;
that is all `FreshId` assumes. `pc` says where a goroutine is: `idle`, or at a
point inside a call where others can be scheduled. Read sections and write
sections of one call without such a point inside are one action. The lock is
not a variable: it is held exactly by a goroutine at `evict` or by the sweeper
at `removing`, and every other critical section is a single action guarded by
`LockFree`. The eviction loop takes one step per iteration, so that "it ends"
is a property and not an assumption. Time is relative: an item counts down the
ticks to `expiresAt`, -1 standing for every later instant, so that time is
unbounded while the states are finite. The ticker loses ticks that find its
channel full, like `time.Ticker`. A ticker with period 0 panics, and with it
the process: `SweeperStart` does so if `TTL` is one tick (`ttl` of 1ns in the
code, which validation accepts).

### CachedStore

A flag is two numbers: that of the write that produced it (`ver`) and that of
the write its `CreatedAt` comes from (`created`). The writes are those of flags
with no `CreatedAt` of their own, the usual call of `SetFlag`. `cached[c]` is
what the cache of client `c` answers, abstracted from `LRUCache`: an entry
lives `TTL` ticks from the moment it was put in and may be evicted earlier. A
call is a path through `pc`: look in the cache (`Hit`, `Miss`), ask the store
(`Load`, `Write`, `Remove`, `Snapshot`, or `ListKeys` and one `ReadOne` per key
for redis), change the cache (`CacheSet` per flag, `Drop`). A request to a
remote store can fail without effect, which changes nothing, or be applied and
its answer lost, which ends the call before the cache is touched. A request
that go-redis repeats is covered: after a deletion whose answer was lost the
repetition is `RemoveMissing`, after a write it is a second `Write`. Four
variables are history, read by no guard: `seen`, the newest change of a key that
a client has brought into its cache, which is where a call that succeeds ends;
`told`, the newest change of a key that a client's calls have made or found,
whether or not an answer arrived, with "not found" and a key missing from
`GetAll` among the findings; `last`, the number of the newest change of a key
and the client that has its answer, if any has; and `quiet`, the ticks since a
key was changed in the store or an outdated answer for it was on its way into
some cache. `told` is raised where the store acts or is read (`Tell`), and is
usually ahead of `seen`: a call that fails half-way changes no cache.

### ConfigLoad

A source (file or environment) gives each field a value, leaves it out, or gives
it a text that does not parse. `LoadConfig` is a sequence of steps: read and
merge the file (or fail), merge the environment, validate. Unparsable texts
fail a file and are silently dropped from the environment, as in the code.
Fields are named; a list of default flags is the set of what `Validate` says of
its members; a logging level stands for all its spellings in upper and lower
case. `Precedence` is the ranking of the sources; what it ranks is a parameter:
a value that a source gives (`Given`), as the documentation has it, or one that
the merge does not take for "not given" (`Effective`), as the code has it.

### Client

`phase` and `next` follow `NewClient` and `loadDefaultFlags`, one request at a
time; `pc` and `call` follow a goroutine through a method: refuse a bad key,
refuse if closed, enter, be answered by the store. `conn` is the connection of
the store, closed by `CloseStore`; the memory store has no connection and is
emptied instead, and takes flags afterwards. `IsEnabled` answers "off" to every
failure. Logging is left out. `old` and `excused` are history variables: the
flags present in the store ever since a client was started, and the defaults
whose own request failed or that somebody deleted.

### Errors and Metrics

An error is a named one, or some other, inside a number of `FeatureFlagError`s,
of which only the outermost's `Type` and `Retryable` can be asked for. The
functions compare by identity, so a named error that has been wrapped once
counts as `internal` (`ClassifyError`) and as not retryable when it is wrapped
again; only `IsNotFoundError` looks through one wrapping.

A call, in `Metrics`, is the sequence of atomic steps that it records (`todo`):
which follows from what the store answered, and that is chosen when the call
begins. Increments, the error counts (under a lock), the windows (under a lock)
and the loads of `GetMetrics` interleave. A collector belongs to a client, or to
a cached store built with `NewStoreWithMetrics` (`owner`); a client's cached
store is never given the client's collector. A duration is the number of its
recording. `recorded`, `trouble` and `unnumbered` are history variables; a call
is trouble when it was refused or failed, and is counted under its cause
(`Tally`); it is unnumbered when it is one of those that have no counter
(`IsEnabled` that fails, `GetAllFlags`, `HealthCheck`).

### FlagMap and FlagObjects

The heap up to renaming: for every place that can refer to a flag - an entry of
the memory store's map, of the cache, a variable of the application - its value,
the places that refer to the same struct (`same`) and those whose struct has the
same `Metadata` map (`shares`). A write through one place is seen through all
that share. `PointTo`, `Copy` and `Clone` are the three ways to get a flag:
assigning the pointer, assigning the struct (which shares the map) and cloning.
A call has the copies and clones of the code, in order; `GetAllFlags` gives the
application one of the elements to keep. The application may do anything to
what it holds, between calls, and the calls are of one goroutine
(`CachedStore` has the interleavings). An entry of the cache may be forgotten at
any time; with no cache every entry is forgotten at once. The memory store is
used because only there objects can be shared: redis and postgres decode a new
flag from each answer. `FlagMap` is the promise: `Set`, `Delete` and `Close`
change the map, with the arguments of the call, and nothing else does. A nil
`Metadata` is an empty map here, though Go lets nobody write to a nil map: the
application of the model can do more than a real one.

## 3. What the runs show

| Run | Instance | Shows |
|---|---|---|
| `LRUSafety` | 3 keys, 2 flags, 2 goroutines, room for 2, TTL 2, the sweeper | `ListMatchesMap`, `CapacityRespected`, `ExpiryDropsOnlyExpired`, and `ImplementsLRU`: the concurrent cache refines `LRUSpec` |
| `LRULiveness` | 2 keys, 2 goroutines, room for 1, TTL 4 (sweep every 2 ticks) | `CallsReturn`, `ExpiredSwept`, `SweeperStops` |
| `StoreSessions` | 2 keys, 2 clients with one goroutine each, redis, 4 writes, TTL 0 | `ReadYourWrites`: a client never goes back behind a write or deletion that succeeded or a flag that it was given; `NothingOldEnters`: nothing comes into a cache that is older than what its client has written, deleted, read or found missing, failed calls included; `WriteThrough`: if the newest write of a key is a client's own, then between its calls its cache has the version of the store |
| `StoreEventual` | 1 key, 2 goroutines of one client and 1 of another, postgres, TTL 1 | `StaleNoLongerThanTTL`: a lifetime after a change, and after the last outdated answer was cached, no cache answers with what the store does not hold, with racing goroutines and over a store that keeps another `CreatedAt` than the cached copy has; `EventuallyCoherent`: once the writes are over every cache agrees with the store for good |
| `StoreDeleteRace` | 1 key, 2 goroutines, memory | violation of `DeleteReachesCache` |
| `ConfigSources` | every combination of a family of files and environments that give the redis and postgres sections in parts | `PrecedenceKept`: what the documentation says, where no source gives a zero and for all but the switches; `ZeroIsSkipped` and `SwitchedOnByEnvOnly`: what the code does with a zero and with a switch; `AcceptedWhenWhole` |
| `ConfigDisputed` | one environment with zeros that is silent about a switch, over one file | violation of `PrecedenceFollowed` |
| `ClientShared` | 2 clients start on one redis store, 2 default flags, 1 goroutine that calls everything | `DefaultsSpareOld`, `DefaultsLoaded` |
| `ClientClose` | 2 goroutines on one client, redis, whose requests and whose closing may fail | `CloseReturnsClosed`, `ClosesOnce`, `CallsReturn` |
| `ClientDefaultsRace` | 2 clients start on one postgres store | violation of `DefaultsOnlyCreate` |
| `Metrics` | 2 goroutines, 3 calls, 1 eviction, windows of 2, the owner is a client or a cached store with or without its cache | `FailuresAreCounted`, `WindowIsRecent`, and `ErrorsCountTrouble`: the errors of each type are the calls that went wrong for that cause |
| `FlagObjects` | 2 keys, 2 variables, 2 contents of a map | `EnabledIsStored`, and `ImplementsFlagMap`: the memory store refines `FlagMap` |

Why the bounds are enough. The cache: three keys and room for two make the
order of the list matter and the eviction choose; two goroutines give every
pair of second halves, with the sweeper and the clock as third and fourth
actors; TTL 2 is the shortest with which the ticker runs, and lets an item
expire and be renewed while a goroutine or the sweep remembers it as expired;
an address must be able to be used again, for which three are enough. The
liveness run uses one key more than fits and a sweep that is slower than a tick.
The cached store: three writes give an original, an update or deletion, and one
more to overtake it; two keys make `GetAll` of redis read them at different times,
and a call of one key follow a warming of both; with four writes both keys can be
stored and two changes fall between the listing and the second reading.
`StoreSessions` has no clock: its properties are about the order of versions, for
which an entry that expires is one that is evicted, and that may happen at any
time. `StoreEventual` has TTL 1, which lets an entry expire between any two
steps; its properties are about the age of entries, which each key has for itself.
`MaxWrites` is the bound on writes (constant of the module, in the guards of
`Write` and `Remove`); it also expresses "once the writes are over". `quiet` stops
at `TTL + 1`, past which it makes no difference. In `StoreSessions`
keys are interchangeable, and so are the two clients together with their
goroutines, which its symmetry uses. The metrics: two goroutines suffice for
every pair of interleaved recordings against the loads of one snapshot; three
recordings of a duration overflow a window of two; `MaxCalls` and `MaxEvictions`
are the bounds. The flag objects: two variables of the application, two entries
of the store and two of the cache give every way in which three places can share
a struct or a map; keys, variables and maps are interchangeable, which the
symmetry uses. The client: two clients are needed for a
race between loaders, two defaults for "the remaining ones", two callers for two
concurrent Closes, and a remote store for a `Close` that fails; the memory store
of `Client`, which is emptied instead, is covered by the theorems of
`ClientProofs`, which hold for every backend. The configuration files and environments vary the fields of
one section at a time, with valid, invalid, unparsable, zero and absent values,
and combine every file with every environment.

Deadlock is checked in all runs but those of `ConfigLoad`, where a load ends.

Fairness. In `LRUCache`, goroutines inside a call, the sweeper and the clock
keep running (weak fairness); steps that wait for the write lock get strong
fairness, because Go's `RWMutex` keeps new readers from overtaking a waiting
writer and hands the lock to a starving one, and so does the sweeper's exit,
because `select` chooses uniformly among the ready cases. In `CachedStore` and
`Client`, a call that has begun goes on and requests are answered or time out
(weak fairness). Nothing forces a goroutine to begin a call, and nothing forces
deletions or writes to happen.

### Where the code and its documentation disagree

* `ConfigDisputed`: `config.go:191-194` and `featureflag/README.md:125-128` rank
  the environment over the file over the defaults. The run's one trace departs
  from it in two ways. `mergeConfigs` copies a switch whenever it differs, and an
  environment that does not mention the switch reads as false: with
  `LoadConfig`, the cache that `DefaultConfig` enables is always off unless
  `FEATUREFLAG_CACHE_ENABLED` turns it on (`SwitchedOnByEnvOnly`). And it takes a
  zero for "not given": `FEATUREFLAG_REDIS_DB=0` and `FEATUREFLAG_CACHE_TTL=0` are
  read as 0 (`config.go:269-276`, `330-334`) and then passed over
  (`config.go:529`, `562`), so that database 3 and TTL 9 of the file stay
  (`ZeroIsSkipped`). `FEATUREFLAG_CACHE_MAX_SIZE=0` fares the same.
* `StoreDeleteRace`: `store.go:102` says that `Delete` removes a flag from both
  cache and store. In the trace a `Set` has written the store when a concurrent
  `Delete` removes the flag from the store and the cache; then the `Set` fills the
  cache (`store.go:96`), and both calls have returned. With TTL 0 the flag stays
  until it is evicted. A `Get` that has read the flag does the same (`store.go:75`).
* `ClientDefaultsRace`: `config.go:55` says that default flags are only created
  if they do not exist. Another client's flag, created between the lookup and
  the write, is overwritten.

Others that are visible in the models and in a single call of the code, on which
no run is spent:

* An update through the redis store overwrites `CreatedAt` (`redis/store.go:113`;
  `KeptCreated`), against `core/flag.go:51`. So does an update in the cache:
  the memory and postgres stores keep `CreatedAt` in their own copy, and
  `CachedStore.Set` caches the caller's (`store.go:96`), until the entry expires
  (`StaleNoLongerThanTTL`).
* A `Delete` that finds the flag gone leaves it in the cache (`store.go:111`;
  `RemoveMissing`), and so does a write or deletion whose answer was lost. The
  client then answers from its cache with less than it has been told, though
  for no longer than the entry lives and with nothing older coming in
  (`StaleNoLongerThanTTL`, `NothingOldEnters`).
* A closed client answers a bad key with a validation error and `GetMetrics` as
  if it were open, against `core/interfaces.go:111` (`RefuseKey`, `GetMetrics`).
* `core/interfaces.go:187` calls a snapshot a "point-in-time view". The totals are
  loaded before the successes, so a snapshot may show more successes than
  operations. What it does keep is `FailuresAreCounted`: errors are copied
  first, and every call counts its operation before its error.
* The snapshots of a client built with `NewClient` always show zero cache hits,
  misses, evictions and storage operations: its cached store keeps the
  collector that does nothing (`cache/store.go:29`), although the comments there
  and at `client.go:79` say that it will be given another.
* A failure of a store arrives wrapped, and `ClassifyError` does not look inside:
  the client counts it as `internal` whatever it was (`Failure`), also the flag
  that `DeleteFlag` does not find (`ErrorsCountTrouble`). The error that
  `SetFlag` returns for an invalid flag is of type `internal`, though the client
  counts it as `validation` (`client.go:307-308`).
* `GetFlag` returns the struct that the cache holds (`store.go:57`). An
  application that sets its `Enabled` changes what `IsEnabled` answers until the
  entry expires: that is the exception in `EnabledIsStored`. The `Metadata` of a
  cached flag is shared even with the struct that was passed to `SetFlag`.

## 4. What is proved

All theorems say of a specification that it has an invariant, an action property or
a refinement (`Spec => ...`), and hold for any number of keys,
goroutines and clients and any bounds, under the named assumptions on the
constants.

* **`LRUCacheProofs`**: `TypeOK`, `ListMatchesMap`, `CapacityRespected`,
  `ExpiryDropsOnlyExpired`. Assumed: finitely many goroutines and more addresses
  than goroutines (`IdsAssumption`), so that a fresh address exists. The
  invariant is `Structure /\ LockExclusive /\ DoomedExpired /\ CapacityInv`. The
  list and the map agree (`Structure`, with the types); at most one goroutine,
  or the sweeper, is inside a critical section of several steps
  (`LockExclusive`); what the sweep has collected is still expired as long as
  it holds the lock (`DoomedExpired`), for which mutual exclusion is needed; and
  the map has a finite number of items, at most one too many in the eviction
  loop (`CapacityInv`). The module begins with the facts about the list operators
  (removing an element, moving it to the front).
* **`LRURefinement`**: `ImplementsLRU`, that is `Spec => LRU!Spec`, from the same
  invariant; assumed besides that `NoItem` is no flag. The abstract order is the
  kept part of the list (`Order`: the first `MaxSize` places), the abstract value
  what the map holds behind it (`Value`). As the list has one element per item
  (`OneElementEach`), the whole list is kept whenever nobody evicts (`Settled`).
  Then `removeItem` is `Drop`, wherever it is called from
  (`RemoveItemDrops`), a `Touch` that finds its item current is the abstract one,
  and both kinds of `Set` are `Store`: a new key pushes the last place past the
  bound in the step that inserts it (`SetNewStores`), so that the eviction loop,
  which removes only what is past the bound, is a stutter (`EvictStutters`).
  Everything else leaves the abstract cache as it is.
* **`CachedStoreProofs`**: `ReadYourWrites` and `NothingOldEnters`, if each client
  is used by one goroutine at a time (`OneCallerPerClient`; the trace of
  `StoreDeleteRace` needs two), for every backend, any number of clients and
  failing requests. The invariant orders versions: no flag anywhere is newer
  than the last write, what a store or a call in progress has for a key is not
  older than what its client has brought into its cache, and what is cached lies
  in between. The second theorem rests on the same ordering with `told` in the
  place of `seen` (`ToldInOrder`): a flag that a call has in hand is at least as
  new as all that its client has been told. Of what is cached this invariant says nothing, as a
  failed call may leave an older flag there; an action property remains,
  that nothing older enters.
  `WriteThrough` under the same assumption: its invariant says who has the
  answer of the newest change, and that a call of that client in between has
  nothing older in hand. `TypeOK` for any number of goroutines per client. The
  steps are grouped into four kinds (reading, changing the store, changing a
  cache, forgetting) whose effects are lemmas that all invariants use.
  `DeleteCorrect` says when
  the sentence that `StoreDeleteRace` refutes is true: over the memory store,
  with one client used by one goroutine at a time. There every change has an
  answer (`EveryChangeAnswered`), so that once its only client is at rest it has
  dealt with the last change, and a cached flag that is older cannot be left.
* **`StalenessProofs`**: `StaleNoLongerThanTTL`, for every backend, any number of
  clients and goroutines and any TTL, of versions and of `CreatedAt`. The
  invariant (`Ageing`) gives an outdated entry a deadline: the ticks it has left
  and the ticks counted since the last trouble are together at most a lifetime.
  A tick takes one and adds one; a change, or an outdated answer on its way
  (`OnItsWay`), has the count at zero, which is where an entry with a whole
  lifetime may begin. That an entry read from the cache is not renewed is what
  makes it inductive.
* **`ConfigLoadProofs`**: `TypeOK`, `ZeroIsSkipped`, `PrecedenceKept`,
  `SwitchedOnByEnvOnly` and `AcceptedWhenWhole` for every set of files and
  environments; the argument follows the configuration through the two merges.
  It gives the rule of the code, and `PrecedenceKept`, the documented one where no
  source gives a zero, follows because the two rules agree there
  (`NothingSkipped`). A section that is nil has nothing but zeros (`NilIsZero`),
  so that "the section is there" and "the field that must not be empty is not"
  are the same to validation, and judging what was merged is judging what the
  precedence of the code chooses. `SwitchesCorrectIfAllGiven` and
  `PrecedenceFollowedIfPlain` say when the rule that `ConfigDisputed` refutes is
  true: of the switches in an environment that mentions every switch, and of
  every field if, besides, no source gives another field a zero.
* **`ClientProofs`**: `TypeOK`, `CloseReturnsClosed`, `ClosesOnce`,
  `DefaultsSpareOld`, `DefaultsLoaded`, for every backend and any sequence of
  default flags. `CloseInv` says that a client whose flag is set has given its
  lock back only after closing its store, and that nobody closes a client that
  is not started. `DefaultsInv` says that the flags called old are present and
  that the defaults passed so far are present or excused.
  `DefaultsOnlyCreateUndisturbed` says when the sentence that `ClientDefaultsRace`
  refutes is true: if nobody changes a flag between a client's lookup and its
  write (`Undisturbed`). What was absent then still is (`StillAbsent`), also
  when lookups and writes fail, so that the race is the only way to lose a flag.
* **`MetricsProofs`**: `TypeOK`, `WindowIsRecent`, `FailuresAreCounted`,
  `ErrorsCountTrouble`, for any number of goroutines and any window. The
  invariant of `FailuresAreCounted` gives every goroutine a debt: one if it has counted an operation whose error it still has
  to record. Errors recorded plus debts are at most the operations counted
  (`Covered`; debts are counted, so there must be finitely many goroutines), and
  a snapshot in progress keeps that relation, because what it has copied is not
  ahead of what it will load (`Reported`). `ErrorsCountTrouble` rests on a balance
  (`Tallied`), for each type of error: its count and the number of goroutines whose
  call has still to record an error of that type are the number of calls in
  trouble for that cause. What a call records when it begins contains one error,
  of the type of its cause, if it is in trouble, and none if it is not
  (`ScriptsTold`, for each method; `CallTells`), and no step adds one. Lemmas say
  of `Errors` that "not found" is recognised behind one wrapping, that a second
  wrapping loses "retryable", and that a failure of a store counts as
  `internal`.
* **`FlagObjectsProofs`**: `TypeOK`, `EnabledIsStored`, and the refinement
  `Spec => Map!Spec`, for any number of keys, variables and maps. The invariant
  says that `same` and `shares` are equivalence relations in which an entry of
  the store is alone (`Good`), that an entry of the cache shares its struct only
  with variables that `GetFlag` set (`Linked`), and that an entry which the
  application has not written to has the `Enabled` of the store (`Answers`).
  Each assignment is shown once to keep it.

Assumed are only the named `ASSUME`s of the modules and what a theorem states before
`PROVE`. Each of the three documented claims that a run refutes is proved under a
condition, and the run has an instance without it.

Only model-checked: the liveness properties (`CallsReturn`, `ExpiredSwept`,
`SweeperStops` of `LRUCache`, `EventuallyCoherent` of `CachedStore`, `CallsReturn`
of `Client`), because liveness under fairness is out of the prover's reach.
Every other property of a passing run is a theorem. For `EventuallyCoherent`,
`StaleNoLongerThanTTL` is the safety half: it says that the disagreement ends with
the lifetime of the entry; what is left to fairness is that the clock goes on and
that a call that has begun puts its answer into the cache at last.

## 5. What is not modelled, and what comes next

Not modelled:

* The logger, which keeps no state but its level; the facade `src/featureflag.go`,
  which re-exports names; SQL scripts, examples and test suites.
* Connection pools, SQL text, the scanning of rows and the serialisation of flags.
* The start of a postgres store (`postgres/store.go:81-114`): several clients that
  start at once run its statements against each other, but what the statements
  then do is decided by the locks of the database server, which no code here
  describes.
* The characters of a key, the texts of errors, and the averages of a snapshot.
* The cache's eviction callback: the only one there is increments a counter
  (`RecordCacheEviction` of `Metrics`).

What could come next:

1. The client over the cached store in one composition: `Close` while a call
   fills the cache, and the cached store's view of `loadDefaultFlags`.
2. That the cache of `CachedStore`, an entry that lives a TTL and may be
   forgotten, is what `LRUCache` implements: `ImplementsLRU` has the order and
   the bound, not the ages.
