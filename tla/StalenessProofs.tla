-------------------------- MODULE StalenessProofs --------------------------
(***************************************************************************)
(* The bound on the staleness of a cache (cache/store.go over              *)
(* cache/cache.go), for any number of clients, callers and keys, any kind  *)
(* of store and any TTL.                                                   *)
(***************************************************************************)
EXTENDS CachedStoreProofs

(***************************************************************************)
(* What a cache holds of k that the store does not has no more ticks to    *)
(* live than are missing from a whole lifetime since the last trouble.     *)
(***************************************************************************)
AgesInTime(c, k) == Outdated(cached[c][k], k) => cached[c][k].left + quiet[k] <= TTL

Ageing ==
  /\ \A k \in Keys : OnItsWay(k) => quiet[k] = 0
  /\ \A c \in Clients, k \in Keys : AgesInTime(c, k)

\* The ticks that an entry has left.
LEMMA TicksLeft ==
  ASSUME TypeOK
  PROVE  \A c \in Clients, k \in Keys : cached[c][k] # NoFlag => cached[c][k].left \in 0..TTL
BY DEF TypeOK, Entry

\* The counts are numbers.
LEMMA Counts ==
  ASSUME TypeOK
  PROVE  \A k \in Keys : quiet[k] \in 0..(TTL + 1) /\ quiet[k] \in Nat
BY BoundsAssumption DEF TypeOK

\* A call that reads may get an answer, but only one that is not outdated yet.
LEMMA ReadsKeepAgeing ==
  ASSUME TypeOK, Ageing, NEW g \in Callers, Reads(g)
  PROVE  Ageing'
<1>1. /\ UNCHANGED <<store, cached, quiet>>
      /\ pc[g] \notin {"caching", "dropping"} /\ pc'[g] # "dropping"
      /\ \A j \in Keys : carry'[g][j] \in {NoFlag, store[j], carry[g][j]}
      /\ \A h \in Callers \ {g} : Same(h)
  BY ReadStep
<1>2. \A k \in Keys : OnItsWay(k)' => OnItsWay(k)
  BY <1>1 DEF OnItsWay, Outdated, Same
<1>3. \A c \in Clients, k \in Keys : AgesInTime(c, k)'
  BY <1>1 DEF Ageing, AgesInTime, Outdated
<1> QED
  BY <1>1, <1>2, <1>3 DEF Ageing

\* A change makes what others have of the flag outdated, and starts to count.
LEMMA ChangesKeepAgeing ==
  ASSUME TypeOK, Ageing, NEW g \in Callers, NEW k \in Keys,
         Write(g, k) \/ Remove(g, k)
  PROVE  Ageing'
<1>1. /\ UNCHANGED cached
      /\ \A j \in Keys \ {k} : store'[j] = store[j]
  BY ChangeStep
<1>2. quiet'[k] = 0 /\ \A j \in Keys \ {k} : quiet'[j] = quiet[j]
  BY ChangeStep DEF TypeOK
<1>3. ASSUME NEW j \in Keys \ {k}, OnItsWay(j)'
      PROVE  OnItsWay(j)
  <2>1. PICK h \in Callers : /\ pc'[h] # "dropping"
                             /\ pc'[h] = "caching" => j \in todo'[h]
                             /\ Outdated(carry[h][j], j)'
    BY <1>3 DEF OnItsWay
  <2>2. Same(h)
    BY <2>1, ChangeStep DEF Outdated
  <2> QED
    BY <1>1, <2>1, <2>2 DEF OnItsWay, Outdated, Same
<1>4. ASSUME NEW c \in Clients, NEW j \in Keys
      PROVE  AgesInTime(c, j)'
  <2>1. CASE j = k
    BY <1>1, <1>2, <2>1, TicksLeft, BoundsAssumption DEF AgesInTime, Outdated
  <2>2. CASE j # k
    BY <1>1, <1>2, <2>2 DEF Ageing, AgesInTime, Outdated
  <2> QED
    BY <2>1, <2>2
<1> QED
  BY <1>2, <1>3, <1>4 DEF Ageing

\* What a call caches has a whole lifetime; if it is outdated, nothing has been
\* counted yet.
LEMMA CacheKeepsAgeing ==
  ASSUME TypeOK, Ageing, NEW g \in Callers, NEW k \in Keys,
         CacheSet(g, k) \/ Drop(g, k)
  PROVE  Ageing'
<1> DEFINE o == Owner[g]
<1>1. /\ UNCHANGED <<store, quiet>>
      /\ k \in todo[g] /\ pc[g] \in {"caching", "dropping"}
      /\ pc[g] = "dropping" => carry'[g] = Nothing
      /\ carry'[g] # Nothing => pc'[g] = "caching" /\ todo'[g] = todo[g] \ {k}
      /\ \A j \in Keys : carry'[g][j] \in {NoFlag, carry[g][j]}
      /\ \A h \in Callers \ {g} : Same(h)
      /\ \A c \in Clients, j \in Keys : ~(c = o /\ j = k) => cached'[c][j] = cached[c][j]
      /\ cached'[o][k] # NoFlag => /\ pc[g] = "caching" /\ carry[g][k] # NoFlag
                                   /\ cached'[o][k].ver = carry[g][k].ver
                                   /\ cached'[o][k].created = carry[g][k].created
  BY CacheStep
<1>2. ASSUME NEW j \in Keys, OnItsWay(j)'
      PROVE  OnItsWay(j)
  <2>1. PICK h \in Callers : /\ pc'[h] # "dropping"
                             /\ pc'[h] = "caching" => j \in todo'[h]
                             /\ Outdated(carry[h][j], j)'
    BY <1>2 DEF OnItsWay
  <2>2. CASE h # g
    BY <1>1, <2>1, <2>2 DEF OnItsWay, Outdated, Same
  <2>3. CASE h = g
    <3>1. carry'[g][j] # NoFlag /\ carry'[g][j] = carry[g][j] /\ carry'[g] # Nothing
      BY <1>1, <2>1, <2>3, NothingType DEF Outdated
    <3>2. pc[g] = "caching" /\ j \in todo[g]
      BY <1>1, <2>1, <2>3, <3>1
    <3> QED
      BY <1>1, <2>1, <2>3, <3>1, <3>2 DEF OnItsWay, Outdated
  <2> QED
    BY <2>2, <2>3
<1>3. Outdated(cached[o][k], k)' => quiet[k] = 0
  <2>1. SUFFICES ASSUME Outdated(cached[o][k], k)' PROVE OnItsWay(k)
    BY DEF Ageing
  <2>2. pc[g] = "caching" /\ Outdated(carry[g][k], k)
    BY <1>1, <2>1 DEF Outdated
  <2> QED
    BY <1>1, <2>2 DEF OnItsWay
<1>4. cached'[o][k] # NoFlag => cached'[o][k].left \in 0..TTL
  BY OwnerAssumption, CacheStep DEF TypeOK, Entry
<1>5. ASSUME NEW c \in Clients, NEW j \in Keys
      PROVE  AgesInTime(c, j)'
  <2>1. CASE c = o /\ j = k
    BY <1>1, <1>3, <1>4, <2>1, BoundsAssumption DEF AgesInTime, Outdated
  <2>2. CASE ~(c = o /\ j = k)
    BY <1>1, <2>2 DEF Ageing, AgesInTime, Outdated
  <2> QED
    BY <2>1, <2>2
<1> QED
  BY <1>1, <1>2, <1>5 DEF Ageing

\* An eviction takes an entry away.
LEMMA EvictKeepsAgeing ==
  ASSUME TypeOK, Ageing, NEW d \in Clients, NEW i \in Keys, Evict(d, i)
  PROVE  Ageing'
<1>1. /\ UNCHANGED <<store, pc, todo, carry, quiet>>
      /\ \A c \in Clients, k \in Keys : cached'[c][k] \in {NoFlag, cached[c][k]}
  BY DEF Evict, TypeOK, history
<1>2. \A k \in Keys : OnItsWay(k)' <=> OnItsWay(k)
  BY <1>1 DEF OnItsWay, Outdated
<1>3. \A c \in Clients, k \in Keys : AgesInTime(c, k)'
  BY <1>1 DEF Ageing, AgesInTime, Outdated
<1> QED
  BY <1>1, <1>2, <1>3 DEF Ageing

\* A tick takes one from what the entries have left and adds at most one to the
\* counts.
LEMMA TickKeepsAgeing ==
  ASSUME TypeOK, Ageing, Pass
  PROVE  Ageing'
<1>1. /\ UNCHANGED <<store, pc, todo, carry>>
      /\ cached' = [c \in Clients |-> [k \in Keys |-> Aged(cached[c][k])]]
  BY DEF Pass
<1>2. \A k \in Keys : OnItsWay(k)' <=> OnItsWay(k)
  BY <1>1 DEF OnItsWay, Outdated
<1>3. \A k \in Keys : /\ quiet'[k] \in Nat /\ quiet'[k] <= quiet[k] + 1
                      /\ OnItsWay(k) => quiet'[k] = 0
  BY Counts, BoundsAssumption DEF Pass
<1>4. ASSUME NEW c \in Clients, NEW k \in Keys
      PROVE  AgesInTime(c, k)'
  <2>1. SUFFICES ASSUME Outdated(cached[c][k], k)' PROVE cached'[c][k].left + quiet'[k] <= TTL
    BY DEF AgesInTime
  <2> DEFINE e == cached[c][k]
  <2>2. e \in Entry \cup {NoFlag} /\ cached'[c][k] = Aged(e)
    BY <1>1 DEF TypeOK
  <2> HIDE DEF e
  <2>3. Aged(e) # NoFlag
    BY <2>1, <2>2 DEF Outdated
  <2>4. /\ e # NoFlag /\ e.left \in 0..TTL /\ e.left # 0
        /\ Aged(e).ver = e.ver /\ Aged(e).created = e.created /\ Aged(e).left = e.left - 1
    BY <2>2, <2>3 DEF Aged, Entry
  <2>5. Outdated(e, k)
    BY <1>1, <2>1, <2>2, <2>4 DEF Outdated
  <2>6. e.left + quiet[k] <= TTL
    BY <2>5 DEF Ageing, AgesInTime, e
  <2>7. quiet[k] \in Nat /\ quiet'[k] \in Nat /\ quiet'[k] <= quiet[k] + 1
    BY <1>3, Counts
  <2> QED
    BY <2>2, <2>4, <2>6, <2>7, BoundsAssumption
<1> QED
  BY <1>2, <1>3, <1>4 DEF Ageing

LEMMA InitAgeing == Init => Ageing
<1> SUFFICES ASSUME Init PROVE Ageing
  OBVIOUS
<1>1. /\ \A g \in Callers, k \in Keys : carry[g][k] = NoFlag
      /\ \A c \in Clients, k \in Keys : cached[c][k] = NoFlag
  BY NothingType DEF Init
<1> QED
  BY <1>1 DEF Ageing, AgesInTime, OnItsWay, Outdated

LEMMA StepAgeing == TypeOK /\ Ageing /\ [Next]_vars => Ageing'
<1> SUFFICES ASSUME TypeOK, Ageing, [Next]_vars PROVE Ageing'
  OBVIOUS
<1>1. CASE UNCHANGED Untold
  BY <1>1 DEF Untold, Ageing, AgesInTime, OnItsWay, Outdated
<1>2. UNCHANGED vars => UNCHANGED Untold
  BY DEF vars, Untold
<1> QED
  BY <1>1, <1>2, MissingStep, StepKinds, ReadsKeepAgeing, ChangesKeepAgeing,
     CacheKeepsAgeing, EvictKeepsAgeing, TickKeepsAgeing

\* Once a lifetime has passed without a change of the flag and without an
\* outdated answer on its way, no cache answers with an outdated flag: reading
\* an entry does not prolong its life (Get of cache/cache.go), and every way into
\* the cache goes through the store (cache/store.go).  A flag is outdated by its
\* version or by its CreatedAt.
THEOREM StalenessCorrect == Spec => []StaleNoLongerThanTTL
<1>1. TypeOK /\ Ageing => StaleNoLongerThanTTL
  <2> SUFFICES ASSUME TypeOK, Ageing, NEW c \in Clients, NEW k \in Keys,
                      quiet[k] > TTL, Outdated(cached[c][k], k)
               PROVE  FALSE
    BY DEF StaleNoLongerThanTTL
  <2>1. cached[c][k].left \in 0..TTL /\ cached[c][k].left + quiet[k] <= TTL /\ quiet[k] \in Nat
    BY TicksLeft, Counts DEF Ageing, AgesInTime, Outdated
  <2> QED
    BY <2>1, BoundsAssumption
<1> QED
  BY <1>1, InitType, StepType, InitAgeing, StepAgeing, PTL DEF Spec
=============================================================================
