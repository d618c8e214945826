---------------------------- MODULE CachedStore ----------------------------
(***************************************************************************)
(* cache/store.go: the cache of every client process laid over one shared  *)
(* store.  A call of a CachedStore is two or more steps - look in the      *)
(* cache, ask the store, change the cache - and nothing keeps other calls  *)
(* of the same client, or those of other clients, from coming in between.  *)
(*                                                                         *)
(* A flag is abstracted to the number of the write that produced it (ver)  *)
(* and the number of the write its CreatedAt was taken at (created); the   *)
(* numbers grow, like the timestamps they stand for.  What a cache does is *)
(* abstracted from LRUCache: an entry lives for TTL ticks from the moment  *)
(* it was put in, and may be forgotten earlier.                            *)
(***************************************************************************)
EXTENDS Naturals, FiniteSets

CONSTANTS
  Keys,
  Clients,      \* processes, each with a cache of its own
  Callers,      \* goroutines
  Owner,        \* Owner[g]: the client whose methods g calls
  Backend,      \* the kind of store: "memory", "redis" or "postgres"
  TTL,          \* lifetime of a cache entry in ticks; 0: it does not expire
  MaxWrites,    \* bound on the number of writes and deletions
  NoFlag        \* "not there"

ASSUME OwnerAssumption == Owner \in [Callers -> Clients]
ASSUME BackendAssumption == Backend \in {"memory", "redis", "postgres"}
ASSUME BoundsAssumption == TTL \in Nat /\ MaxWrites \in Nat
ASSUME NoFlagAssumption ==
  /\ NoFlag \notin [ver : Nat, created : Nat]
  /\ NoFlag \notin [ver : Nat, created : Nat, left : 0..TTL]
  /\ NoFlag \notin Clients

VARIABLES
  store,     \* the flags the store holds
  cached,    \* cached[c][k]: what the cache of c would answer for k
  pc,        \* where each caller is
  todo,      \* the keys its call still has to deal with
  carry,     \* the flags it has in hand, by key
  writes,    \* the number of writes and deletions so far
  seen,      \* history: the newest change of k that c has brought into its cache
  told,      \* history: the newest change of k that a call of c made or found,
             \* whether or not its answer arrived
  last,      \* history: the newest write to k, and the client it was answered to
  quiet      \* history: the ticks since k was changed or an outdated flag was on
             \* its way into a cache, up to TTL + 1

vars == <<store, cached, pc, todo, carry, writes, seen, told, last, quiet>>
history == <<seen, told, last, quiet>>

Flag == [ver : Nat, created : Nat]
Entry == [ver : Nat, created : Nat, left : 0..TTL]

Nothing == [k \in Keys |-> NoFlag]
Stored == {k \in Keys : store[k] # NoFlag}

\* A remote store can fail a request, before or after carrying it out.
CanFail == Backend # "memory"

Goto(g, place, keys, flags) ==
  /\ pc' = [pc EXCEPT ![g] = place]
  /\ todo' = [todo EXCEPT ![g] = keys]
  /\ carry' = [carry EXCEPT ![g] = flags]

Return(g) == Goto(g, "idle", {}, Nothing)

\* Mutant: a "not found" is carried to the cache as if it were a flag.
ContinueAlways(g, flags) == Goto(g, "caching", Keys, flags)

\* A call goes on to put its flags into the cache; if it has none it returns.
Continue(g, flags) ==
  LET found == {k \in Keys : flags[k] # NoFlag}
  IN  IF found = {} THEN Return(g) ELSE Goto(g, "caching", found, flags)

Only(k, flag) == [Nothing EXCEPT ![k] = flag]

\* The n-th write is one to k; c has its answer, or nobody (NoFlag).
Note(k, n, c) ==
  /\ last' = [last EXCEPT ![k] = [by |-> c, ver |-> n]]
  /\ quiet' = [quiet EXCEPT ![k] = 0]

\* c has the store's word on these keys.
Tell(c, keys) ==
  told' = [told EXCEPT ![c] = [k \in Keys |-> IF k \in keys THEN last'[k].ver ELSE @[k]]]

\* The store does not hold that flag (any more), or with another CreatedAt.
Outdated(flag, k) ==
  /\ flag # NoFlag
  /\ \/ store[k] = NoFlag
     \/ store[k].ver # flag.ver
     \/ store[k].created # flag.created

\* A call has read an outdated flag and may still cache it.
OnItsWay(k) ==
  \E g \in Callers : /\ pc[g] # "dropping"
                     /\ pc[g] = "caching" => k \in todo[g]
                     /\ Outdated(carry[g][k], k)

----------------------------------------------------------------------------
Init ==
  /\ store = Nothing
  /\ cached = [c \in Clients |-> Nothing]
  /\ pc = [g \in Callers |-> "idle"]
  /\ todo = [g \in Callers |-> {}]
  /\ carry = [g \in Callers |-> Nothing]
  /\ writes = 0
  /\ seen = [c \in Clients |-> [k \in Keys |-> 0]]
  /\ told = [c \in Clients |-> [k \in Keys |-> 0]]
  /\ last = [k \in Keys |-> [by |-> NoFlag, ver |-> 0]]
  /\ quiet = [k \in Keys |-> 0]

(* Get.                                                                    *)

\* Mutant: a hit renews the entry.
SlidingHit(g, k) ==
  LET c == Owner[g]
  IN  /\ pc[g] = "idle"
      /\ cached[c][k] # NoFlag
      /\ cached' = [cached EXCEPT ![c][k].left = TTL]
      /\ UNCHANGED <<store, pc, todo, carry, writes, history>>

\* The cache answers.  The entry keeps its age.
Hit(g, k) ==
  /\ pc[g] = "idle"
  /\ cached[Owner[g]][k] # NoFlag
  /\ UNCHANGED vars

Miss(g, k) ==
  /\ pc[g] = "idle"
  /\ cached[Owner[g]][k] = NoFlag
  /\ Goto(g, "loading", {k}, Nothing)
  /\ UNCHANGED <<store, cached, writes, history>>

\* The store's answer: a flag, "not found" or an error; only a flag is cached.
Load(g, k) ==
  /\ pc[g] = "loading"
  /\ k \in todo[g]
  /\ UNCHANGED <<store, cached, writes, seen, last, quiet>>
  /\ \/ Continue(g, Only(k, store[k])) /\ Tell(Owner[g], {k})
     \/ CanFail /\ Return(g) /\ UNCHANGED told

(* Every way into the cache: the fill of Get, the update of Set, the       *)
(* warming of GetAll, one flag at a time.                                  *)

CacheSet(g, k) ==
  LET c == Owner[g]
      flag == carry[g][k]
  IN  /\ pc[g] = "caching"
      /\ k \in todo[g]
      /\ cached' = [cached EXCEPT ![c][k] =
                      [ver |-> flag.ver, created |-> flag.created, left |-> TTL]]
      /\ seen' = [seen EXCEPT ![c][k] = IF @ < flag.ver THEN flag.ver ELSE @]
      /\ IF todo[g] = {k} THEN Return(g) ELSE Goto(g, "caching", todo[g] \ {k}, carry[g])
      /\ UNCHANGED <<store, writes, told, last, quiet>>

(* Set.                                                                    *)

\* The CreatedAt a store keeps when a flag is written: the memory store and
\* the upsert of the postgres store keep that of an existing flag, the redis
\* store overwrites it.
KeptCreated(k, created) ==
  IF Backend \in {"memory", "postgres"} /\ store[k] # NoFlag THEN store[k].created
                                                            ELSE created

\* Mutant: a write does not reach the cache.
WriteAround(g, k) ==
  LET n == writes + 1
  IN  /\ pc[g] = "idle"
      /\ writes < MaxWrites
      /\ writes' = n
      /\ store' = [store EXCEPT ![k] = [ver |-> n, created |-> KeptCreated(k, n)]]
      /\ Note(k, n, Owner[g])
      /\ Tell(Owner[g], {k})
      /\ UNCHANGED <<pc, todo, carry, cached, seen>>

\* Mutant: a write that failed is taken back in the cache, though it may have
\* been applied.
WriteRollingBack(g, k) ==
  LET n == writes + 1
  IN  /\ pc[g] = "idle"
      /\ writes < MaxWrites
      /\ writes' = n
      /\ store' = [store EXCEPT ![k] = [ver |-> n, created |-> KeptCreated(k, n)]]
      /\ \/ /\ Goto(g, "caching", {k}, Only(k, [ver |-> n, created |-> n]))
            /\ Note(k, n, Owner[g])
         \/ CanFail /\ Note(k, n, NoFlag) /\ Continue(g, Only(k, store[k]))
      /\ Tell(Owner[g], {k})
      /\ UNCHANGED <<cached, seen>>

\* The store takes the flag; the caller keeps its own copy for the cache.  If
\* the store applies the write and the answer is lost, the call ends there.
Write(g, k) ==
  LET n == writes + 1
  IN  /\ pc[g] = "idle"
      /\ writes < MaxWrites
      /\ writes' = n
      /\ store' = [store EXCEPT ![k] = [ver |-> n, created |-> KeptCreated(k, n)]]
      /\ \/ /\ Goto(g, "caching", {k}, Only(k, [ver |-> n, created |-> n]))
            /\ Note(k, n, Owner[g])
         \/ CanFail /\ Note(k, n, NoFlag) /\ UNCHANGED <<pc, todo, carry>>
      /\ Tell(Owner[g], {k})
      /\ UNCHANGED <<cached, seen>>

(* Delete.                                                                 *)

\* The store forgets the flag.
Remove(g, k) ==
  LET n == writes + 1
  IN  /\ pc[g] = "idle"
      /\ store[k] # NoFlag
      /\ writes < MaxWrites
      /\ writes' = n
      /\ store' = [store EXCEPT ![k] = NoFlag]
      /\ \/ /\ Goto(g, "dropping", {k}, Only(k, [ver |-> n, created |-> n]))
            /\ Note(k, n, Owner[g])
         \/ CanFail /\ Note(k, n, NoFlag) /\ UNCHANGED <<pc, todo, carry>>
      /\ Tell(Owner[g], {k})
      /\ UNCHANGED <<cached, seen>>

\* The store has no such flag: the call returns ErrFlagNotFound at once, and
\* the cache keeps what it has.  (After a Remove whose answer was lost this is
\* the retry.)
RemoveMissing(g, k) ==
  /\ pc[g] = "idle"
  /\ store[k] = NoFlag
  /\ UNCHANGED <<store, cached, pc, todo, carry, writes, seen, last, quiet>>
  /\ Tell(Owner[g], {k})

\* Mutant: the cache keeps what the store has deleted.
DropNothing(g, k) ==
  LET c == Owner[g]
  IN  /\ pc[g] = "dropping"
      /\ k \in todo[g]
      /\ seen' = [seen EXCEPT ![c][k] = IF @ < carry[g][k].ver THEN carry[g][k].ver ELSE @]
      /\ Return(g)
      /\ UNCHANGED <<store, cached, writes, told, last, quiet>>

\* The cache forgets it too.
Drop(g, k) ==
  LET c == Owner[g]
  IN  /\ pc[g] = "dropping"
      /\ k \in todo[g]
      /\ cached' = [cached EXCEPT ![c][k] = NoFlag]
      /\ seen' = [seen EXCEPT ![c][k] = IF @ < carry[g][k].ver THEN carry[g][k].ver ELSE @]
      /\ Return(g)
      /\ UNCHANGED <<store, writes, told, last, quiet>>

(* GetAll.  Memory and postgres answer with the flags of one moment; redis *)
(* lists the keys first and then reads them one after the other, skipping  *)
(* those that have gone in the meantime; a read that fails ends the call.  *)

Snapshot(g) ==
  /\ pc[g] = "idle"
  /\ Backend # "redis"
  /\ Continue(g, store)
  /\ UNCHANGED <<store, cached, writes, seen, last, quiet>>
  /\ Tell(Owner[g], Keys)

ListKeys(g) ==
  /\ pc[g] = "idle"
  /\ Backend = "redis"
  /\ IF Stored = {} THEN Return(g) ELSE Goto(g, "reading", Stored, Nothing)
  /\ UNCHANGED <<store, cached, writes, seen, last, quiet>>
  /\ Tell(Owner[g], Keys \ Stored)

ReadOne(g, k) ==
  /\ pc[g] = "reading"
  /\ k \in todo[g]
  /\ UNCHANGED <<store, cached, writes, seen, last, quiet>>
  /\ \/ LET flags == [carry[g] EXCEPT ![k] = store[k]]
        IN  /\ IF todo[g] = {k} THEN Continue(g, flags)
                                ELSE Goto(g, "reading", todo[g] \ {k}, flags)
            /\ Tell(Owner[g], {k})
     \/ Return(g) /\ UNCHANGED told

(* The cache on its own.                                                   *)

\* Eviction, for the sake of other keys.
Evict(c, k) ==
  /\ cached[c][k] # NoFlag
  /\ cached' = [cached EXCEPT ![c][k] = NoFlag]
  /\ UNCHANGED <<store, pc, todo, carry, writes, history>>

\* Mutant: the time of expiry is not looked at.
Ageless(e) == e

Aged(e) == IF e = NoFlag \/ e.left = 0 THEN NoFlag ELSE [e EXCEPT !.left = @ - 1]

\* A tick of the clock.  An entry past its lifetime is as good as gone.  The
\* tick is counted for the keys of which nothing outdated is on its way.
Pass ==
  /\ TTL > 0
  /\ cached' = [c \in Clients |-> [k \in Keys |-> Aged(cached[c][k])]]
  /\ quiet' = [k \in Keys |-> IF OnItsWay(k) THEN 0
                             ELSE IF quiet[k] > TTL THEN quiet[k] ELSE quiet[k] + 1]
  /\ UNCHANGED <<store, pc, todo, carry, writes, seen, told, last>>

----------------------------------------------------------------------------
Get(g, k) == Hit(g, k) \/ Miss(g, k) \/ Load(g, k)
Set(g, k) == Write(g, k)
Delete(g, k) == Remove(g, k) \/ RemoveMissing(g, k) \/ Drop(g, k)
GetAll(g) == Snapshot(g) \/ ListKeys(g) \/ \E k \in Keys : ReadOne(g, k)

Next ==
  \/ \E g \in Callers, k \in Keys : Get(g, k) \/ Set(g, k) \/ Delete(g, k) \/ CacheSet(g, k)
  \/ \E g \in Callers : GetAll(g)
  \/ \E c \in Clients, k \in Keys : Evict(c, k)
  \/ Pass

Spec == Init /\ [][Next]_vars

\* A call that has begun goes on, and time passes.  No call waits for another
\* one here, so weak fairness is enough.
Fairness ==
  /\ \A g \in Callers, k \in Keys : /\ WF_vars(Load(g, k))
                                    /\ WF_vars(CacheSet(g, k))
                                    /\ WF_vars(Drop(g, k))
                                    /\ WF_vars(ReadOne(g, k))
  /\ WF_vars(Pass)

FairSpec == Spec /\ Fairness

----------------------------------------------------------------------------
(* Properties.                                                             *)

TypeOK ==
  /\ store \in [Keys -> Flag \cup {NoFlag}]
  /\ cached \in [Clients -> [Keys -> Entry \cup {NoFlag}]]
  /\ pc \in [Callers -> {"idle", "loading", "reading", "caching", "dropping"}]
  /\ todo \in [Callers -> SUBSET Keys]
  /\ carry \in [Callers -> [Keys -> Flag \cup {NoFlag}]]
  /\ \A g \in Callers : pc[g] \in {"caching", "dropping"} =>
                          \A k \in todo[g] : carry[g][k] # NoFlag
  /\ writes \in 0..MaxWrites
  /\ seen \in [Clients -> [Keys -> Nat]]
  /\ told \in [Clients -> [Keys -> Nat]]
  /\ last \in [Keys -> [by : Clients \cup {NoFlag}, ver : Nat]]
  /\ quiet \in [Keys -> 0..(TTL + 1)]

\* The use for which ReadYourWrites is promised.
OneCallerPerClient == \A g, h \in Callers : Owner[g] = Owner[h] => g = h

\* A client never goes back behind a success: once a SetFlag or DeleteFlag has
\* returned without error, or a GetFlag or GetAllFlags has returned a flag, what
\* the client's cache answers for that key is not older, while other clients
\* write and their requests fail half-way (store.go:73-76, 95-97, 116-118,
\* 137-141).  A failed request, "not found" and a flag missing from GetAllFlags
\* change no cache, and may leave an older flag in it; of those speak
\* NothingOldEnters and StaleNoLongerThanTTL.  (True of a client that one
\* goroutine uses at a time.)
ReadYourWrites ==
  \A c \in Clients, k \in Keys : cached[c][k] # NoFlag => cached[c][k].ver >= seen[c][k]

\* A client that has once been told better never caches, or renews, an older
\* flag: whatever comes into its cache is at least as new as everything that its
\* calls have written, deleted, read or found missing by then - also by a write
\* or deletion whose answer was lost, a DeleteFlag that found nothing, or a
\* GetAllFlags that did not list the flag or that failed half-way (store.go:55-76,
\* 90-97, 111-118, 128-141).  An entry that such a call leaves behind can
\* therefore only age.  (True of a client that one goroutine uses at a time.)
Enters(c, k) == cached'[c][k] \notin {NoFlag, cached[c][k], Aged(cached[c][k])}

NothingOldEnters ==
  [][\A c \in Clients, k \in Keys : Enters(c, k) => cached'[c][k].ver >= told[c][k]]_vars

\* Write-through: once a client has the answer to a write or a deletion, and as
\* long as no other change of the flag has followed, what its cache answers for
\* the flag is the version that the store holds - with other clients changing
\* other flags, and requests failing half-way.  Of CreatedAt it says nothing: the
\* cached copy may have one that the store did not take.  (True of a client that
\* one goroutine uses at a time.)
Resting(c) == \A g \in Callers : Owner[g] = c => pc[g] = "idle"

WriteThrough ==
  \A c \in Clients, k \in Keys :
    Resting(c) /\ last[k].by = c /\ cached[c][k] # NoFlag
      => store[k] # NoFlag /\ cached[c][k].ver = store[k].ver

\* A change is in every cache once a lifetime has passed after it and after the
\* last outdated answer was cached: however often the stale entry is read, and
\* whatever other calls, clients and failing requests do meanwhile, no client
\* answers from its cache with what the store does not hold - neither an older
\* version nor, after SetFlag has cached the caller's copy of the flag
\* (store.go:96), a CreatedAt that the store did not take.
StaleNoLongerThanTTL ==
  \A c \in Clients, k \in Keys : quiet[k] > TTL => ~Outdated(cached[c][k], k)

\* Once the writes are over, every cache agrees with the store for good, on the
\* version and on CreatedAt, no matter which stale answers were on their way into
\* a cache, how often the stale keys are read, and which requests failed.
EventuallyCoherent ==
  <>[](\A c \in Clients, k \in Keys : ~Outdated(cached[c][k], k))

\* "Delete removes a feature flag from both cache and store": with no call in
\* progress, a flag that the store does not have is not in the cache either.
Quiescent == \A g \in Callers : pc[g] = "idle"

DeleteReachesCache ==
  Quiescent => \A c \in Clients, k \in Keys : store[k] = NoFlag => cached[c][k] = NoFlag
=============================================================================
