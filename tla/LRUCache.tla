----------------------------- MODULE LRUCache ------------------------------
(***************************************************************************)
(* The in-memory flag cache of cache/cache.go: a map of items, an LRU list *)
(* of their elements, a read-write lock, and a goroutine that sweeps       *)
(* expired items away.                                                     *)
(*                                                                         *)
(* A goroutine in Procs is either between two calls ("idle") or inside one *)
(* at a point where other goroutines can be scheduled: between the read    *)
(* section and the write section of Get ("expire", "touch"), or in the     *)
(* eviction loop of Set, holding the write lock ("evict").  A critical     *)
(* section with no such point inside is one step.                          *)
(*                                                                         *)
(* Time is relative: an item records how many ticks are left until         *)
(* expiresAt.  -1 stands for every instant after it, so time is unbounded  *)
(* while the state space is finite.                                        *)
(***************************************************************************)
EXTENDS SequencesExt

CONSTANTS
  Keys,      \* flag keys
  Flags,     \* flag values
  Procs,     \* goroutines that call the cache
  Ids,       \* identities (addresses) of the items of one key
  MaxSize,   \* maxSize; 0 means unlimited
  TTL,       \* ttl in ticks; 0 means that items never expire
  NoItem     \* "no such item", nil

ASSUME MaxSizeAssumption == MaxSize \in Nat
ASSUME TTLAssumption == TTL \in Nat
\* A new item never has the address of one that a goroutine still holds.
ASSUME IdsAssumption ==
  /\ IsFiniteSet(Procs)
  /\ IsFiniteSet(Ids)
  /\ Cardinality(Ids) > Cardinality(Procs)
ASSUME NoItemAssumption == /\ NoItem \notin Keys
                           /\ NoItem \notin Ids
                           /\ NoItem \notin Flags
                           /\ NoItem \notin [id : Ids, flag : Flags, left : -1..TTL]

VARIABLES
  items,     \* items[k]: the cacheItem of key k, or NoItem
  lruList,   \* the elements of the LRU list, front first
  pc,        \* where each goroutine is
  key,       \* the argument of the Get a goroutine is in
  item,      \* the address of the item that Get has found
  sweeper,   \* where the cleanup goroutine is
  doomed,    \* its keysToRemove
  ticker,    \* ticks since its last firing; how many its channel holds
  stopped    \* stopCh is closed

cacheVars == <<items, lruList>>
callVars == <<pc, key, item>>
sweepVars == <<sweeper, doomed, ticker, stopped>>
vars == <<items, lruList, pc, key, item, sweeper, doomed, ticker, stopped>>

Items == [id : Ids, flag : Flags, left : -1..TTL]
Elements == [key : Keys, id : Ids]
Element(k, id) == [key |-> k, id |-> id]

CachedKeys == {k \in Keys : items[k] # NoItem}

\* The whole number of ticks between two sweeps.
SweepPeriod == TTL \div 2

----------------------------------------------------------------------------
\* A panic in the cleanup goroutine ends the process.
Alive == sweeper # "panicked"

\* The lock.  Get's read section is one step, so only writers ever hold it.
LockFree == Alive /\ sweeper # "removing" /\ \A p \in Procs : pc[p] # "evict"

(* Helpers.                                                                *)

Expired(k) == items[k] # NoItem /\ TTL > 0 /\ items[k].left < 0

MoveToFront(s, e) == Cons(e, RemoveFirst(s, e))

UsedIds(k) == {item[p] : p \in {q \in Procs : key[q] = k}}

FreshId(k) == CHOOSE id \in Ids : id \notin UsedIds(k)

\* Mutant: the list element goes, the map entry stays.
RemoveElementOnly(k) ==
  /\ lruList' = RemoveFirst(lruList, Element(k, items[k].id))
  /\ UNCHANGED items

\* removeItem: the map entry and the list element go together.
RemoveItem(k) ==
  /\ items' = [items EXCEPT ![k] = NoItem]
  /\ lruList' = RemoveFirst(lruList, Element(k, items[k].id))

Goto(p, place, k, id) ==
  /\ pc' = [pc EXCEPT ![p] = place]
  /\ key' = [key EXCEPT ![p] = k]
  /\ item' = [item EXCEPT ![p] = id]

Return(p) == Goto(p, "idle", NoItem, NoItem)

----------------------------------------------------------------------------
Init ==
  /\ items = [k \in Keys |-> NoItem]
  /\ lruList = <<>>
  /\ pc = [p \in Procs |-> "idle"]
  /\ key = [p \in Procs |-> NoItem]
  /\ item = [p \in Procs |-> NoItem]
  /\ sweeper = IF TTL > 0 THEN "starting" ELSE "none"
  /\ doomed = {}
  /\ ticker = [phase |-> 0, unread |-> 0]
  /\ stopped = FALSE

(* Get.  A miss changes nothing and needs no step.                         *)

\* The read section finds an expired item and gives up the read lock.
GetExpired(p, k) ==
  /\ pc[p] = "idle"
  /\ LockFree
  /\ Expired(k)
  /\ Goto(p, "expire", k, NoItem)
  /\ UNCHANGED <<cacheVars, sweepVars>>

\* Mutant: no second look at the expiry time.
RemoveUnchecked(p) ==
  /\ pc[p] = "expire"
  /\ LockFree
  /\ IF items[key[p]] # NoItem THEN RemoveItem(key[p]) ELSE UNCHANGED cacheVars
  /\ Return(p)
  /\ UNCHANGED sweepVars

\* The write section looks again before it removes the item.
RemoveExpired(p) ==
  /\ pc[p] = "expire"
  /\ LockFree
  /\ IF Expired(key[p]) THEN RemoveItem(key[p]) ELSE UNCHANGED cacheVars
  /\ Return(p)
  /\ UNCHANGED sweepVars

\* The read section finds an item to return and gives up the read lock.
GetHit(p, k) ==
  /\ pc[p] = "idle"
  /\ LockFree
  /\ items[k] # NoItem
  /\ ~Expired(k)
  /\ Goto(p, "touch", k, items[k].id)
  /\ UNCHANGED <<cacheVars, sweepVars>>

\* Mutant: promotes the element found, which Clear may have cut off the list.
\* (Init leaves the list pointer of a cut-off element in place, so the list
\* would link it in again.)
TouchUnchecked(p) ==
  /\ pc[p] = "touch"
  /\ LockFree
  /\ lruList' = MoveToFront(lruList, Element(key[p], item[p]))
  /\ Return(p)
  /\ UNCHANGED <<items, sweepVars>>

\* The write section promotes the item only if it is still the one found.
Touch(p) ==
  /\ pc[p] = "touch"
  /\ LockFree
  /\ LET k == key[p]
         current == items[k] # NoItem /\ items[k].id = item[p]
     IN  lruList' = IF current THEN MoveToFront(lruList, Element(k, item[p]))
                               ELSE lruList
  /\ Return(p)
  /\ UNCHANGED <<items, sweepVars>>

(* Set.                                                                    *)

\* Mutant: an update does not count as a use.
SetInPlace(p, k, f) ==
  /\ pc[p] = "idle"
  /\ LockFree
  /\ items[k] # NoItem
  /\ items' = [items EXCEPT ![k].flag = f, ![k].left = TTL]
  /\ UNCHANGED <<lruList, callVars, sweepVars>>

\* Mutant: an update adds ttl to the old expiry time.
SetExtending(p, k, f) ==
  /\ pc[p] = "idle"
  /\ LockFree
  /\ items[k] # NoItem
  /\ items' = [items EXCEPT ![k].flag = f, ![k].left = @ + TTL]
  /\ lruList' = MoveToFront(lruList, Element(k, items[k].id))
  /\ UNCHANGED <<callVars, sweepVars>>

SetExisting(p, k, f) ==
  /\ pc[p] = "idle"
  /\ LockFree
  /\ items[k] # NoItem
  /\ items' = [items EXCEPT ![k] = [id |-> items[k].id, flag |-> f, left |-> TTL]]
  /\ lruList' = MoveToFront(lruList, Element(k, items[k].id))
  /\ UNCHANGED <<callVars, sweepVars>>

\* A new item; the goroutine goes on to evictIfNeeded with the lock held.
SetNew(p, k, f) ==
  /\ pc[p] = "idle"
  /\ LockFree
  /\ items[k] = NoItem
  /\ items' = [items EXCEPT ![k] = [id |-> FreshId(k), flag |-> f, left |-> TTL]]
  /\ lruList' = Cons(Element(k, FreshId(k)), lruList)
  /\ Goto(p, "evict", NoItem, NoItem)
  /\ UNCHANGED sweepVars

\* Mutant: room for one item too many.
OverByTwo == MaxSize > 0 /\ Cardinality(CachedKeys) > MaxSize + 1

OverCapacity == MaxSize > 0 /\ Cardinality(CachedKeys) > MaxSize

\* One iteration of the loop.  It leaves the lock taken, and would spin for
\* ever if the back of the list named no item of the map.
Evict(p) ==
  /\ pc[p] = "evict"
  /\ Alive
  /\ OverCapacity
  /\ IF lruList # <<>> /\ items[Last(lruList).key] # NoItem
       THEN RemoveItem(Last(lruList).key)
       ELSE UNCHANGED cacheVars
  /\ UNCHANGED <<callVars, sweepVars>>

EvictDone(p) ==
  /\ pc[p] = "evict"
  /\ Alive
  /\ ~OverCapacity
  /\ Return(p)
  /\ UNCHANGED <<cacheVars, sweepVars>>

(* Delete, Clear, Close.                                                   *)

Delete(p, k) ==
  /\ pc[p] = "idle"
  /\ LockFree
  /\ items[k] # NoItem
  /\ RemoveItem(k)
  /\ UNCHANGED <<callVars, sweepVars>>

Clear(p) ==
  /\ pc[p] = "idle"
  /\ LockFree
  /\ items' = [k \in Keys |-> NoItem]
  /\ lruList' = <<>>
  /\ UNCHANGED <<callVars, sweepVars>>

\* Closing stops the cleanup goroutine and nothing else; it takes no lock.
Close(p) ==
  /\ pc[p] = "idle"
  /\ Alive
  /\ stopped' = TRUE
  /\ UNCHANGED <<cacheVars, callVars, sweeper, doomed, ticker>>

(* cleanupExpired and removeExpiredItems.                                  *)

\* time.NewTicker panics, and with it the process, when the period is zero.
SweeperStart ==
  /\ sweeper = "starting"
  /\ sweeper' = IF SweepPeriod > 0 THEN "waiting" ELSE "panicked"
  /\ ticker' = [phase |-> 0, unread |-> 0]
  /\ UNCHANGED <<cacheVars, callVars, doomed, stopped>>

SweeperTick ==
  /\ sweeper = "waiting"
  /\ ticker.unread = 1
  /\ ticker' = [ticker EXCEPT !.unread = 0]
  /\ sweeper' = "locking"
  /\ UNCHANGED <<cacheVars, callVars, doomed, stopped>>

\* Mutant: break, which leaves the select and not the loop.
SweeperBreak ==
  /\ sweeper = "waiting"
  /\ stopped
  /\ UNCHANGED vars

SweeperStop ==
  /\ sweeper = "waiting"
  /\ stopped
  /\ sweeper' = "exited"
  /\ UNCHANGED <<cacheVars, callVars, doomed, ticker, stopped>>

SweepCollect ==
  /\ sweeper = "locking"
  /\ LockFree
  /\ sweeper' = "removing"
  /\ doomed' = {k \in Keys : Expired(k)}
  /\ UNCHANGED <<cacheVars, callVars, ticker, stopped>>

SweepRemove(k) ==
  /\ sweeper = "removing"
  /\ k \in doomed
  /\ IF items[k] # NoItem THEN RemoveItem(k) ELSE UNCHANGED cacheVars
  /\ doomed' = doomed \ {k}
  /\ UNCHANGED <<callVars, sweeper, ticker, stopped>>

\* Mutant: no loop around the select.
SweepOnce ==
  /\ sweeper = "removing"
  /\ doomed = {}
  /\ sweeper' = "exited"
  /\ UNCHANGED <<cacheVars, callVars, doomed, ticker, stopped>>

SweepDone ==
  /\ sweeper = "removing"
  /\ doomed = {}
  /\ sweeper' = "waiting"
  /\ UNCHANGED <<cacheVars, callVars, doomed, ticker, stopped>>

(* The clock: every item ages, and the ticker fires once per SweepPeriod;  *)
(* its channel holds one unread tick and further ones are lost.            *)

Aged(it) == [it EXCEPT !.left = IF @ < 0 THEN -1 ELSE @ - 1]

Ticking == sweeper \in {"waiting", "locking", "removing"}

Pass ==
  /\ TTL > 0
  /\ Alive
  /\ items' = [k \in Keys |-> IF items[k] = NoItem THEN NoItem ELSE Aged(items[k])]
  /\ ticker' = IF ~Ticking THEN ticker
               ELSE IF ticker.phase + 1 >= SweepPeriod
                      THEN [phase |-> 0, unread |-> 1]
                      ELSE [ticker EXCEPT !.phase = @ + 1]
  /\ UNCHANGED <<lruList, callVars, sweeper, doomed, stopped>>

----------------------------------------------------------------------------
Get(p) == (\E k \in Keys : GetExpired(p, k) \/ GetHit(p, k)) \/ RemoveExpired(p) \/ Touch(p)

Set(p) ==
  \/ \E k \in Keys, f \in Flags : SetExisting(p, k, f) \/ SetNew(p, k, f)
  \/ Evict(p)
  \/ EvictDone(p)

Sweep ==
  \/ SweeperStart \/ SweeperTick \/ SweeperStop
  \/ SweepCollect \/ SweepDone
  \/ \E k \in Keys : SweepRemove(k)

Next ==
  \/ \E p \in Procs : Get(p) \/ Set(p) \/ Clear(p) \/ Close(p)
  \/ \E p \in Procs, k \in Keys : Delete(p, k)
  \/ Sweep
  \/ Pass

Spec == Init /\ [][Next]_vars

(***************************************************************************)
(* A goroutine inside a call keeps running, and so do the cleanup          *)
(* goroutine and the clock; nothing forces anyone to start a call.  Steps  *)
(* that wait for the write lock get strong fairness: sync.RWMutex makes    *)
(* readers wait behind a waiting writer and hands the lock over to a       *)
(* starving one.  So does SweeperStop: select picks uniformly among the    *)
(* ready cases, so a closed stopCh is not passed over for ever.            *)
(***************************************************************************)
Fairness ==
  /\ \A p \in Procs : /\ SF_vars(RemoveExpired(p))
                      /\ SF_vars(Touch(p))
                      /\ WF_vars(Evict(p))
                      /\ WF_vars(EvictDone(p))
  /\ SF_vars(SweepCollect)
  /\ SF_vars(SweeperStop)
  /\ WF_vars(SweeperStart)
  /\ WF_vars(SweeperTick)
  /\ WF_vars(SweepDone)
  /\ \A k \in Keys : WF_vars(SweepRemove(k))
  /\ WF_vars(Pass)

FairSpec == Spec /\ Fairness
----------------------------------------------------------------------------
(* Properties.                                                             *)

\* Every variable has its type; a goroutine inside Get knows what it looks for.
TypeOK ==
  /\ items \in [Keys -> Items \cup {NoItem}]
  /\ lruList \in Seq(Elements)
  /\ pc \in [Procs -> {"idle", "expire", "touch", "evict"}]
  /\ key \in [Procs -> Keys \cup {NoItem}]
  /\ item \in [Procs -> Ids \cup {NoItem}]
  /\ \A p \in Procs : /\ pc[p] \in {"expire", "touch"} <=> key[p] \in Keys
                      /\ pc[p] = "touch" <=> item[p] \in Ids
  /\ sweeper \in {"none", "starting", "waiting", "locking", "removing",
                  "exited", "panicked"}
  /\ doomed \in SUBSET Keys
  /\ ticker \in [phase : Nat, unread : 0..1]
  /\ stopped \in BOOLEAN

\* The LRU list holds exactly one element per item of the map, and nothing
\* else, at every point where another goroutine can be scheduled.  A stray
\* element would make evictIfNeeded spin with the lock held; a missing one
\* would make an item that can never be evicted.
ListMatchesMap ==
  /\ \A i, j \in 1..Len(lruList) : lruList[i].key = lruList[j].key => i = j
  /\ \A i \in 1..Len(lruList) : LET k == lruList[i].key
                                IN  items[k] # NoItem /\ items[k].id = lruList[i].id
  /\ \A k \in CachedKeys : \E i \in 1..Len(lruList) : lruList[i].key = k

\* maxSize is exceeded by the one item being inserted and only while the
\* inserting goroutine holds the lock.
CapacityRespected ==
  MaxSize > 0 =>
    Cardinality(CachedKeys) <= IF \E p \in Procs : pc[p] = "evict" THEN MaxSize + 1
                                                                   ELSE MaxSize

\* The two places that remove items because they have expired - the second
\* half of Get, run after the lock was given up, and the sweep, which goes by
\* a list collected earlier - never remove an item that is still valid.
ExpiryDropsOnlyExpired ==
  [][\A k \in Keys :
       /\ items[k] # NoItem
       /\ items'[k] = NoItem
       /\ \/ \E p \in Procs : pc[p] = "expire" /\ pc'[p] = "idle"
          \/ sweeper = "removing"
       => Expired(k)]_vars

\* The cache as its callers see it: while Set is in its eviction loop the last
\* element of the list is already gone.
KeptLen == IF MaxSize > 0 /\ Len(lruList) > MaxSize THEN MaxSize ELSE Len(lruList)

Order == [i \in 1..KeptLen |-> lruList[i].key]

Value == [k \in Keys |-> IF \E i \in 1..KeptLen : lruList[i].key = k
                           THEN items[k].flag ELSE NoItem]

LRU == INSTANCE LRUSpec WITH NoFlag <- NoItem, order <- Order, value <- Value

\* Every behaviour of the concurrent cache is one of the sequential LRU cache:
\* an update and a hit count as uses, an insertion forgets the entry used
\* longest ago, and no interleaving of Get's two halves with other calls has
\* another effect.
ImplementsLRU == LRU!Spec

\* Every call that has begun returns: the eviction loop ends, and a Get that
\* gave up its lock gets the second one.
CallsReturn == \A p \in Procs : pc[p] # "idle" ~> pc[p] = "idle"

\* As long as the cache is open, an item that has expired does not stay in it
\* for ever, whether or not anybody asks for its key.
ExpiredSwept == \A k \in Keys : Expired(k) ~> (~Expired(k) \/ stopped)

\* After Close the cleanup goroutine ends, however often its ticker fires.
SweeperStops == stopped ~> sweeper \in {"none", "exited"}
=============================================================================
