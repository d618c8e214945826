------------------------- MODULE CachedStoreProofs -------------------------
(***************************************************************************)
(* Theorems about cache/store.go, for any number of clients, callers and   *)
(* keys, any kind of store and any TTL.                                    *)
(*                                                                         *)
(* The first part says what each kind of step does, and that it keeps the  *)
(* types: a step that only reads, one that changes the store, one that     *)
(* changes a cache, one that makes a cache forget.  The invariants of the  *)
(* second and third part are then shown for these four kinds.              *)
(***************************************************************************)
EXTENDS CachedStore, TLAPS

CallsOK ==
  /\ pc \in [Callers -> {"idle", "loading", "reading", "caching", "dropping"}]
  /\ todo \in [Callers -> SUBSET Keys]
  /\ carry \in [Callers -> [Keys -> Flag \cup {NoFlag}]]
  /\ \A g \in Callers : pc[g] \in {"caching", "dropping"} =>
                          \A k \in todo[g] : carry[g][k] # NoFlag

DataOK ==
  /\ store \in [Keys -> Flag \cup {NoFlag}]
  /\ cached \in [Clients -> [Keys -> Entry \cup {NoFlag}]]
  /\ writes \in 0..MaxWrites
  /\ seen \in [Clients -> [Keys -> Nat]]
  /\ told \in [Clients -> [Keys -> Nat]]
  /\ last \in [Keys -> [by : Clients \cup {NoFlag}, ver : Nat]]
  /\ quiet \in [Keys -> 0..(TTL + 1)]

\* The call of h does not move.
Same(h) == pc'[h] = pc[h] /\ todo'[h] = todo[h] /\ carry'[h] = carry[h]

LEMMA TypeParts == TypeOK <=> CallsOK /\ DataOK
BY DEF TypeOK, CallsOK, DataOK

LEMMA FlagIsNotNil == /\ \A f \in Flag : f # NoFlag
                      /\ \A e \in Entry : e # NoFlag
BY NoFlagAssumption DEF Flag, Entry

LEMMA NothingType == /\ Nothing \in [Keys -> Flag \cup {NoFlag}]
                     /\ \A k \in Keys : Nothing[k] = NoFlag
BY DEF Nothing

LEMMA OnlyType ==
  ASSUME NEW k \in Keys, NEW f \in Flag \cup {NoFlag}
  PROVE  /\ Only(k, f) \in [Keys -> Flag \cup {NoFlag}]
         /\ Only(k, f)[k] = f
         /\ \A j \in Keys \ {k} : Only(k, f)[j] = NoFlag
BY NothingType DEF Only

\* The types of the numbers that are compared.
LEMMA Numbers ==
  ASSUME TypeOK
  PROVE  /\ writes \in Nat
         /\ \A c \in Clients, k \in Keys : seen[c][k] \in Nat /\ told[c][k] \in Nat
         /\ \A k \in Keys : last[k].ver \in Nat
         /\ \A k \in Keys : store[k] # NoFlag => store[k] \in Flag /\ store[k].ver \in Nat
         /\ \A g \in Callers, k \in Keys :
              carry[g][k] # NoFlag => carry[g][k] \in Flag /\ carry[g][k].ver \in Nat
         /\ \A c \in Clients, k \in Keys :
              cached[c][k] # NoFlag => cached[c][k] \in Entry /\ cached[c][k].ver \in Nat
         /\ \A g \in Callers : Owner[g] \in Clients
BY OwnerAssumption, BoundsAssumption DEF TypeOK, Flag, Entry

(***************************************************************************)
(* What the steps do.                                                      *)
(***************************************************************************)

\* A step of one call keeps the local states well-typed if it hands over flags
\* for all the keys it still has to deal with.
LEMMA GotoKeeps ==
  ASSUME CallsOK, NEW g \in Callers,
         NEW place \in {"idle", "loading", "reading", "caching", "dropping"},
         NEW keys \in SUBSET Keys, NEW flags \in [Keys -> Flag \cup {NoFlag}],
         place \in {"caching", "dropping"} => \A k \in keys : flags[k] # NoFlag,
         Goto(g, place, keys, flags)
  PROVE  /\ CallsOK'
         /\ pc'[g] = place /\ todo'[g] = keys /\ carry'[g] = flags
         /\ \A h \in Callers \ {g} : Same(h)
BY DEF CallsOK, Goto, Same

LEMMA ReturnKeeps ==
  ASSUME CallsOK, NEW g \in Callers, Return(g)
  PROVE  /\ CallsOK'
         /\ pc'[g] = "idle" /\ carry'[g] = Nothing
         /\ \A h \in Callers \ {g} : Same(h)
BY GotoKeeps, NothingType DEF Return

LEMMA ContinueKeeps ==
  ASSUME CallsOK, NEW g \in Callers, NEW flags \in [Keys -> Flag \cup {NoFlag}],
         Continue(g, flags)
  PROVE  /\ CallsOK'
         /\ pc'[g] \in {"idle", "caching"}
         /\ pc'[g] = "idle" => carry'[g] = Nothing
         /\ \A k \in Keys : carry'[g][k] # NoFlag => carry'[g][k] = flags[k]
         /\ \A h \in Callers \ {g} : Same(h)
<1> DEFINE found == {k \in Keys : flags[k] # NoFlag}
<1>1. CASE found = {}
  BY <1>1, ReturnKeeps, NothingType DEF Continue
<1>2. CASE found # {}
  BY <1>2, GotoKeeps DEF Continue
<1> QED
  BY <1>1, <1>2

\* What a client is told of some keys is their newest change.
LEMMA TellKeeps ==
  ASSUME NEW o \in Clients, NEW keys \in SUBSET Keys,
         told \in [Clients -> [Keys -> Nat]], \A k \in Keys : last'[k].ver \in Nat,
         Tell(o, keys)
  PROVE  /\ told' \in [Clients -> [Keys -> Nat]]
         /\ \A k \in keys : told'[o][k] = last'[k].ver
         /\ \A c \in Clients, k \in Keys :
              c # o \/ k \notin keys => told'[c][k] = told[c][k]
<1> DEFINE row == [k \in Keys |-> IF k \in keys THEN last'[k].ver ELSE told[o][k]]
<1>1. told' = [told EXCEPT ![o] = row]
  BY DEF Tell
<1>2. row \in [Keys -> Nat]
  OBVIOUS
<1>3. \A k \in Keys : row[k] = IF k \in keys THEN last'[k].ver ELSE told[o][k]
  OBVIOUS
<1> HIDE DEF row
<1> QED
  BY <1>1, <1>2, <1>3

\* What a step that only reads may tell the client of g: that the store has of
\* a key what the call then carries, or nothing.
Learns(g) ==
  \A c \in Clients, j \in Keys :
    \/ told'[c][j] = told[c][j]
    \/ /\ c = Owner[g] /\ told'[c][j] = last[j].ver
       /\ carry'[g][j] \in {NoFlag, store[j]}

\* The steps of a call that only read: Get up to the point where it has a flag
\* in hand, and all of GetAll's reads.
Reads(g) ==
  \/ \E k \in Keys : Miss(g, k) \/ Load(g, k) \/ ReadOne(g, k)
  \/ Snapshot(g)
  \/ ListKeys(g)

\* They change only the call's own state, and what it has in hand then it had
\* before, or it is what the store has now.
LEMMA ReadStep ==
  ASSUME TypeOK, NEW g \in Callers, Reads(g)
  PROVE  /\ TypeOK'
         /\ UNCHANGED <<store, cached, writes, seen, last, quiet>>
         /\ pc[g] \notin {"caching", "dropping"} /\ pc'[g] # "dropping"
         /\ \A j \in Keys : carry'[g][j] \in {NoFlag, store[j], carry[g][j]}
         /\ pc'[g] = "idle" => carry'[g] = Nothing
         /\ Learns(g)
         /\ \A h \in Callers \ {g} : Same(h)
<1>0. /\ CallsOK /\ DataOK
      /\ store \in [Keys -> Flag \cup {NoFlag}]
      /\ Owner[g] \in Clients
  BY TypeParts, OwnerAssumption DEF DataOK
<1>1. /\ UNCHANGED <<store, cached, writes, seen, last, quiet>>
      /\ pc[g] \in {"idle", "loading", "reading"}
  BY DEF Reads, Miss, Load, ReadOne, Snapshot, ListKeys, history
<1> DEFINE Moved == /\ CallsOK'
                    /\ pc'[g] # "dropping"
                    /\ \A j \in Keys : carry'[g][j] \in {NoFlag, store[j], carry[g][j]}
                    /\ pc'[g] = "idle" => carry'[g] = Nothing
                    /\ \A h \in Callers \ {g} : Same(h)
           Result == Moved /\ told' \in [Clients -> [Keys -> Nat]] /\ Learns(g)
<1>2. ASSUME NEW keys \in SUBSET Keys, Tell(Owner[g], keys), Moved,
             \A j \in keys : carry'[g][j] \in {NoFlag, store[j]}
      PROVE  Result
  <2>1. told \in [Clients -> [Keys -> Nat]] /\ \A j \in Keys : last'[j].ver \in Nat
    BY <1>0, <1>1, Numbers DEF DataOK
  <2>2. /\ told' \in [Clients -> [Keys -> Nat]]
        /\ \A j \in keys : told'[Owner[g]][j] = last[j].ver
        /\ \A c \in Clients, j \in Keys :
             c # Owner[g] \/ j \notin keys => told'[c][j] = told[c][j]
    BY <1>0, <1>1, <1>2, <2>1, TellKeeps
  <2> QED
    BY <1>2, <2>2 DEF Learns
<1>3. ASSUME UNCHANGED told, Moved
      PROVE  Result
  BY <1>0, <1>3 DEF Learns, DataOK
<1>4. ASSUME Return(g)
      PROVE  Moved
  BY <1>0, <1>4, ReturnKeeps, NothingType
<1>5. ASSUME NEW k \in Keys, Miss(g, k)
      PROVE  Result
  <2>1. Goto(g, "loading", {k}, Nothing) /\ UNCHANGED told
    BY <1>5 DEF Miss, history
  <2>2. Moved
    BY <1>0, <2>1, GotoKeeps, NothingType
  <2> QED
    BY <1>3, <2>1, <2>2
<1>6. ASSUME NEW k \in Keys, Load(g, k)
      PROVE  Result
  <2>1. \/ Continue(g, Only(k, store[k])) /\ Tell(Owner[g], {k})
        \/ Return(g) /\ UNCHANGED told
    BY <1>6 DEF Load
  <2>2. CASE Continue(g, Only(k, store[k])) /\ Tell(Owner[g], {k})
    <3>1. Moved /\ carry'[g][k] \in {NoFlag, store[k]}
      BY <1>0, <2>2, OnlyType, ContinueKeeps
    <3> QED
      BY <1>2, <2>2, <3>1
  <2> QED
    BY <1>3, <1>4, <2>1, <2>2
<1>7. ASSUME NEW k \in Keys, ReadOne(g, k)
      PROVE  Result
  <2> DEFINE flags == [carry[g] EXCEPT ![k] = store[k]]
  <2>1. /\ flags \in [Keys -> Flag \cup {NoFlag}]
        /\ \A j \in Keys : flags[j] \in {store[j], carry[g][j]}
        /\ flags[k] = store[k]
    BY <1>0 DEF CallsOK
  <2>2. todo[g] \ {k} \in SUBSET Keys
    BY <1>0 DEF CallsOK
  <2>3. \/ /\ Continue(g, flags) \/ Goto(g, "reading", todo[g] \ {k}, flags)
           /\ Tell(Owner[g], {k})
        \/ Return(g) /\ UNCHANGED told
    BY <1>7 DEF ReadOne
  <2> HIDE DEF flags
  <2>4. ASSUME Continue(g, flags) \/ Goto(g, "reading", todo[g] \ {k}, flags)
        PROVE  Moved /\ carry'[g][k] \in {NoFlag, store[k]}
    <3>1. CASE Continue(g, flags)
      BY <1>0, <2>1, <3>1, ContinueKeeps
    <3>2. CASE Goto(g, "reading", todo[g] \ {k}, flags)
      BY <1>0, <2>1, <2>2, <3>2, GotoKeeps
    <3> QED
      BY <2>4, <3>1, <3>2
  <2>5. CASE Tell(Owner[g], {k}) /\ (Continue(g, flags) \/ Goto(g, "reading", todo[g] \ {k}, flags))
    BY <1>2, <2>4, <2>5
  <2> QED
    BY <1>3, <1>4, <2>3, <2>5
<1>8. ASSUME Snapshot(g)
      PROVE  Result
  <2>1. Continue(g, store) /\ Tell(Owner[g], Keys)
    BY <1>8 DEF Snapshot
  <2>2. Moved /\ \A j \in Keys : carry'[g][j] \in {NoFlag, store[j]}
    BY <1>0, <2>1, ContinueKeeps
  <2> QED
    BY <1>2, <2>1, <2>2
<1>9. ASSUME ListKeys(g)
      PROVE  Result
  <2>1. /\ Return(g) \/ Goto(g, "reading", Stored, Nothing)
        /\ Tell(Owner[g], Keys \ Stored)
        /\ Stored \in SUBSET Keys
    BY <1>9 DEF ListKeys, Stored
  <2>2. CASE Return(g)
    <3>1. \A j \in Keys : carry'[g][j] = NoFlag
      BY <1>0, <2>2, ReturnKeeps, NothingType
    <3> QED
      BY <1>2, <1>4, <2>1, <2>2, <3>1
  <2>3. CASE Goto(g, "reading", Stored, Nothing)
    <3>1. Moved /\ \A j \in Keys : carry'[g][j] = NoFlag
      BY <1>0, <2>1, <2>3, GotoKeeps, NothingType
    <3> QED
      BY <1>2, <2>1, <3>1
  <2> QED
    BY <2>1, <2>2, <2>3
<1>10. Result
  BY <1>5, <1>6, <1>7, <1>8, <1>9 DEF Reads
<1>11. DataOK'
  BY <1>0, <1>1, <1>10 DEF DataOK
<1> QED
  BY <1>1, <1>10, <1>11 DEF TypeOK, CallsOK, DataOK

\* CreatedAt values are write numbers.
LEMMA KeptCreatedType ==
  ASSUME TypeOK, NEW k \in Keys, NEW n \in Nat
  PROVE  KeptCreated(k, n) \in Nat
BY Numbers DEF KeptCreated, Flag

\* Set and Delete change the flag k of the store; the change gets a number of
\* its own, and a call that has its answer carries that number on.
LEMMA ChangeStep ==
  ASSUME TypeOK, NEW g \in Callers, NEW k \in Keys, Write(g, k) \/ Remove(g, k)
  PROVE  /\ TypeOK'
         /\ writes' = writes + 1
         /\ UNCHANGED <<cached, seen>>
         /\ \A j \in Keys \ {k} : store'[j] = store[j] /\ last'[j] = last[j]
         /\ store'[k] # NoFlag => store'[k].ver = writes'
         /\ last'[k].ver = writes'
         /\ \A c \in Clients, j \in Keys :
              told'[c][j] = IF c = Owner[g] /\ j = k THEN writes' ELSE told[c][j]
         /\ quiet' = [quiet EXCEPT ![k] = 0]
         /\ pc[g] = "idle"
         /\ \/ /\ \A h \in Callers : Same(h)
               /\ last'[k].by = NoFlag
            \/ /\ \A h \in Callers \ {g} : Same(h)
               /\ last'[k].by = Owner[g]
               /\ pc'[g] = IF store'[k] = NoFlag THEN "dropping" ELSE "caching"
               /\ todo'[g] = {k}
               /\ carry'[g][k] # NoFlag /\ carry'[g][k].ver = writes'
               /\ \A j \in Keys \ {k} : carry'[g][j] = NoFlag
<1> DEFINE n == writes + 1
           flag == [ver |-> n, created |-> n]
           kept == [ver |-> n, created |-> KeptCreated(k, n)]
           new == IF Write(g, k) THEN kept ELSE NoFlag
           place == IF Write(g, k) THEN "caching" ELSE "dropping"
<1>0. CallsOK /\ DataOK
  BY TypeParts
<1>1. /\ n \in Nat /\ n \in 0..MaxWrites /\ writes \in Nat /\ writes' = n
      /\ UNCHANGED <<cached, seen>>
      /\ quiet' = [quiet EXCEPT ![k] = 0]
      /\ quiet' \in [Keys -> 0..(TTL + 1)]
      /\ pc[g] = "idle"
  <2>1. quiet' = [quiet EXCEPT ![k] = 0]
    BY DEF Write, Remove, Note
  <2>2. quiet' \in [Keys -> 0..(TTL + 1)]
    BY <1>0, <2>1, BoundsAssumption DEF DataOK
  <2> QED
    BY <2>1, <2>2, Numbers, BoundsAssumption DEF Write, Remove
<1>2. flag \in Flag /\ kept \in Flag /\ flag.ver = n /\ kept.ver = n
  BY <1>1, KeptCreatedType DEF Flag
<1>3. /\ store' = [store EXCEPT ![k] = new]
      /\ \/ Goto(g, place, {k}, Only(k, flag)) /\ Note(k, n, Owner[g])
         \/ Note(k, n, NoFlag) /\ UNCHANGED <<pc, todo, carry>>
  BY DEF Write, Remove
<1>4. /\ new \in Flag \cup {NoFlag} /\ (new # NoFlag => new.ver = n)
      /\ place \in {"caching", "dropping"}
      /\ place = IF new = NoFlag THEN "dropping" ELSE "caching"
  BY <1>2, FlagIsNotNil
<1> HIDE DEF n, flag, kept, new, place
<1>5. /\ store' \in [Keys -> Flag \cup {NoFlag}]
      /\ store'[k] = new
      /\ \A j \in Keys \ {k} : store'[j] = store[j]
  BY <1>0, <1>3, <1>4 DEF DataOK
<1>6. ASSUME NEW c \in Clients \cup {NoFlag}, Note(k, n, c)
      PROVE  /\ last' \in [Keys -> [by : Clients \cup {NoFlag}, ver : Nat]]
             /\ last'[k] = [by |-> c, ver |-> n]
             /\ \A j \in Keys \ {k} : last'[j] = last[j]
  BY <1>0, <1>1, <1>6 DEF DataOK, Note
<1>10. /\ told' \in [Clients -> [Keys -> Nat]]
       /\ \A c \in Clients, j \in Keys :
            told'[c][j] = IF c = Owner[g] /\ j = k THEN writes' ELSE told[c][j]
  <2>1. PICK by \in Clients \cup {NoFlag} : Note(k, n, by)
    BY <1>3, OwnerAssumption
  <2>2. last'[k].ver = n /\ \A j \in Keys : last'[j].ver \in Nat
    <3>1. /\ last' \in [Keys -> [by : Clients \cup {NoFlag}, ver : Nat]]
          /\ last'[k] = [by |-> by, ver |-> n]
      BY <1>6, <2>1
    <3> QED
      BY <3>1
  <2>3. Tell(Owner[g], {k}) /\ Owner[g] \in Clients
    BY OwnerAssumption DEF Write, Remove
  <2>4. told \in [Clients -> [Keys -> Nat]] /\ {k} \in SUBSET Keys
    BY <1>0 DEF DataOK
  <2>5. /\ told' \in [Clients -> [Keys -> Nat]]
        /\ \A j \in {k} : told'[Owner[g]][j] = last'[j].ver
        /\ \A c \in Clients, j \in Keys :
             c # Owner[g] \/ j \notin {k} => told'[c][j] = told[c][j]
    BY <2>2, <2>3, <2>4, TellKeeps
  <2> QED
    BY <1>1, <2>2, <2>5
<1>7. /\ Only(k, flag) \in [Keys -> Flag \cup {NoFlag}]
      /\ Only(k, flag)[k] = flag
      /\ \A j \in Keys \ {k} : Only(k, flag)[j] = NoFlag
  BY <1>2, OnlyType
<1>8. CASE Goto(g, place, {k}, Only(k, flag)) /\ Note(k, n, Owner[g])
  <2>1. /\ CallsOK'
        /\ pc'[g] = place /\ todo'[g] = {k} /\ carry'[g] = Only(k, flag)
        /\ \A h \in Callers \ {g} : Same(h)
    <3>1. /\ \A j \in {k} : Only(k, flag)[j] # NoFlag
          /\ place \in {"idle", "loading", "reading", "caching", "dropping"}
          /\ {k} \in SUBSET Keys
      BY <1>2, <1>4, <1>7, FlagIsNotNil
    <3> QED
      BY <1>0, <1>7, <1>8, <3>1, GotoKeeps
  <2>2. /\ last' \in [Keys -> [by : Clients \cup {NoFlag}, ver : Nat]]
        /\ last'[k] = [by |-> Owner[g], ver |-> n]
        /\ \A j \in Keys \ {k} : last'[j] = last[j]
    BY <1>6, <1>8, OwnerAssumption
  <2>3. DataOK'
    BY <1>0, <1>1, <1>5, <1>10, <2>2 DEF DataOK
  <2>4. TypeOK'
    BY <2>1, <2>3 DEF TypeOK, CallsOK, DataOK
  <2>5. pc'[g] = IF store'[k] = NoFlag THEN "dropping" ELSE "caching"
    BY <1>4, <1>5, <2>1
  <2>6. /\ carry'[g][k] # NoFlag /\ carry'[g][k].ver = writes'
        /\ \A j \in Keys \ {k} : carry'[g][j] = NoFlag
    BY <1>1, <1>2, <1>7, <2>1, FlagIsNotNil
  <2>7. last'[k].ver = writes' /\ last'[k].by = Owner[g]
    BY <1>1, <2>2
  <2>8. store'[k] # NoFlag => store'[k].ver = writes'
    BY <1>1, <1>4, <1>5
  <2>9. writes' = writes + 1
    BY <1>1 DEF n
  <2> QED
    BY <1>1, <1>5, <1>10, <2>1, <2>2, <2>4, <2>5, <2>6, <2>7, <2>8, <2>9
<1>9. CASE Note(k, n, NoFlag) /\ UNCHANGED <<pc, todo, carry>>
  <2>1. /\ last' \in [Keys -> [by : Clients \cup {NoFlag}, ver : Nat]]
        /\ last'[k] = [by |-> NoFlag, ver |-> n]
        /\ \A j \in Keys \ {k} : last'[j] = last[j]
    BY <1>6, <1>9
  <2>2. TypeOK'
    <3>1. CallsOK'
      BY <1>0, <1>9 DEF CallsOK
    <3>2. DataOK'
      BY <1>0, <1>1, <1>5, <1>10, <2>1 DEF DataOK
    <3> QED
      BY <3>1, <3>2 DEF TypeOK, CallsOK, DataOK
  <2>3. last'[k].ver = writes' /\ last'[k].by = NoFlag
    BY <1>1, <2>1
  <2>4. store'[k] # NoFlag => store'[k].ver = writes'
    BY <1>1, <1>4, <1>5
  <2>5. writes' = writes + 1
    BY <1>1 DEF n
  <2>6. \A h \in Callers : Same(h)
    BY <1>9 DEF Same
  <2> QED
    BY <1>1, <1>5, <1>10, <2>1, <2>2, <2>3, <2>4, <2>5, <2>6
<1> QED
  BY <1>3, <1>8, <1>9

\* A call puts a flag into the cache of its client, or takes one out.
LEMMA CacheStep ==
  ASSUME TypeOK, NEW g \in Callers, NEW k \in Keys, CacheSet(g, k) \/ Drop(g, k)
  PROVE  /\ TypeOK'
         /\ UNCHANGED <<store, writes, told, last, quiet>>
         /\ k \in todo[g] /\ carry[g][k] # NoFlag
         /\ cached'[Owner[g]][k] # NoFlag =>
              /\ pc[g] = "caching"
              /\ cached'[Owner[g]][k].ver = carry[g][k].ver
              /\ cached'[Owner[g]][k].created = carry[g][k].created
         /\ pc'[g] = "idle" => carry'[g] = Nothing
         /\ seen'[Owner[g]][k] = IF seen[Owner[g]][k] < carry[g][k].ver
                                   THEN carry[g][k].ver ELSE seen[Owner[g]][k]
         /\ \A c \in Clients, j \in Keys :
              ~(c = Owner[g] /\ j = k) => /\ seen'[c][j] = seen[c][j]
                                          /\ cached'[c][j] = cached[c][j]
         /\ pc[g] \in {"caching", "dropping"}
         /\ pc'[g] # "dropping"
         /\ pc[g] = "dropping" => carry'[g] = Nothing
         /\ pc[g] = "caching" => \A j \in todo[g] \ {k} : /\ pc'[g] = "caching"
                                                         /\ j \in todo'[g]
                                                         /\ carry'[g][j] = carry[g][j]
         /\ \A j \in Keys : carry'[g][j] \in {NoFlag, carry[g][j]}
         /\ carry'[g] # Nothing => pc'[g] = "caching" /\ todo'[g] = todo[g] \ {k}
         /\ \A h \in Callers \ {g} : Same(h)
<1> DEFINE o == Owner[g]
           flag == carry[g][k]
           entry == [ver |-> flag.ver, created |-> flag.created, left |-> TTL]
           new == IF CacheSet(g, k) THEN entry ELSE NoFlag
<1>0. CallsOK /\ DataOK
  BY TypeParts
<1>1. pc[g] \in {"caching", "dropping"} /\ k \in todo[g]
  BY DEF CacheSet, Drop
<1>2. flag # NoFlag /\ flag \in Flag /\ flag.ver \in Nat /\ o \in Clients
  BY <1>0, <1>1, Numbers DEF CallsOK
<1>3. entry \in Entry /\ entry.ver = flag.ver /\ entry.created = flag.created
  BY <1>2, BoundsAssumption DEF Flag, Entry
<1>4. /\ cached' = [cached EXCEPT ![o][k] = new]
      /\ seen' = [seen EXCEPT ![o][k] = IF @ < flag.ver THEN flag.ver ELSE @]
      /\ UNCHANGED <<store, writes, told, last, quiet>>
  BY DEF CacheSet, Drop
<1>5. /\ new \in Entry \cup {NoFlag}
      /\ new # NoFlag => pc[g] = "caching" /\ new.ver = flag.ver /\ new.created = flag.created
  BY <1>3 DEF CacheSet
<1>6. /\ pc[g] = "caching" =>
           IF todo[g] = {k} THEN Return(g) ELSE Goto(g, "caching", todo[g] \ {k}, carry[g])
      /\ pc[g] = "dropping" => Return(g)
  BY DEF CacheSet, Drop
<1> HIDE DEF entry, new
<1>7. /\ cached' \in [Clients -> [Keys -> Entry \cup {NoFlag}]]
      /\ cached'[o][k] = new
      /\ \A c \in Clients, j \in Keys : ~(c = o /\ j = k) => cached'[c][j] = cached[c][j]
  BY <1>0, <1>2, <1>4, <1>5 DEF DataOK
<1>8. /\ seen' \in [Clients -> [Keys -> Nat]]
      /\ seen'[o][k] = IF seen[o][k] < flag.ver THEN flag.ver ELSE seen[o][k]
      /\ \A c \in Clients, j \in Keys : ~(c = o /\ j = k) => seen'[c][j] = seen[c][j]
  BY <1>0, <1>2, <1>4 DEF DataOK
<1>9. DataOK'
  BY <1>0, <1>4, <1>7, <1>8 DEF DataOK
<1>10. CASE Return(g)
  <2>1. /\ CallsOK'
        /\ pc'[g] = "idle" /\ carry'[g] = Nothing
        /\ \A h \in Callers \ {g} : Same(h)
    BY <1>0, <1>10, ReturnKeeps
  <2>2. TypeOK'
    BY <1>9, <2>1 DEF TypeOK, CallsOK, DataOK
  <2>3. pc[g] = "caching" => todo[g] = {k}
    <3> SUFFICES ASSUME pc[g] = "caching", todo[g] # {k} PROVE FALSE
      OBVIOUS
    <3>1. pc' = [pc EXCEPT ![g] = "caching"]
      BY <1>6 DEF Goto
    <3> QED
      BY <1>0, <2>1, <3>1 DEF CallsOK
  <2> QED
    BY <1>1, <1>2, <1>4, <1>5, <1>7, <1>8, <2>1, <2>2, <2>3, NothingType
<1>11. CASE pc[g] = "caching" /\ todo[g] # {k} /\ Goto(g, "caching", todo[g] \ {k}, carry[g])
  <2>1. /\ todo[g] \ {k} \in SUBSET Keys
        /\ carry[g] \in [Keys -> Flag \cup {NoFlag}]
        /\ \A j \in todo[g] \ {k} : carry[g][j] # NoFlag
    BY <1>0, <1>11 DEF CallsOK
  <2>2. /\ CallsOK'
        /\ pc'[g] = "caching" /\ todo'[g] = todo[g] \ {k} /\ carry'[g] = carry[g]
        /\ \A h \in Callers \ {g} : Same(h)
    BY <1>0, <1>11, <2>1, GotoKeeps
  <2>3. TypeOK'
    BY <1>9, <2>2 DEF TypeOK, CallsOK, DataOK
  <2> QED
    BY <1>1, <1>2, <1>4, <1>5, <1>7, <1>8, <1>11, <2>2, <2>3
<1> QED
  BY <1>1, <1>6, <1>10, <1>11

\* Eviction and ageing only take entries away.
LEMMA LossStep ==
  ASSUME TypeOK, (\E c \in Clients, k \in Keys : Evict(c, k)) \/ Pass
  PROVE  /\ TypeOK'
         /\ UNCHANGED <<store, pc, todo, carry, writes, seen, told, last>>
         /\ quiet' = quiet \/ Pass
         /\ \A c \in Clients, k \in Keys : ~Enters(c, k)
         /\ \A c \in Clients, k \in Keys :
              cached'[c][k] # NoFlag => /\ cached[c][k] # NoFlag
                                        /\ cached'[c][k].ver = cached[c][k].ver
                                        /\ cached'[c][k].created = cached[c][k].created
<1>0. /\ UNCHANGED <<store, pc, todo, carry, writes, seen, told, last>>
      /\ cached \in [Clients -> [Keys -> Entry \cup {NoFlag}]]
  BY DEF Evict, Pass, history, TypeOK
<1>1. ASSUME NEW c \in Clients, NEW k \in Keys, Evict(c, k)
      PROVE  /\ cached' \in [Clients -> [Keys -> Entry \cup {NoFlag}]]
             /\ UNCHANGED quiet
             /\ \A d \in Clients, j \in Keys : cached'[d][j] \in {cached[d][j], NoFlag}
  BY <1>0, <1>1 DEF Evict, history
<1>2. CASE Pass
  <2>1. \A e \in Entry : /\ Aged(e) \in Entry \cup {NoFlag}
                         /\ Aged(e) # NoFlag => Aged(e).ver = e.ver /\ Aged(e).created = e.created
    BY FlagIsNotNil, BoundsAssumption DEF Aged, Entry
  <2>2. Aged(NoFlag) = NoFlag
    BY DEF Aged
  <2>3. cached' = [c \in Clients |-> [k \in Keys |-> Aged(cached[c][k])]]
    BY <1>2 DEF Pass
  <2>4. \A c \in Clients, k \in Keys :
          /\ cached'[c][k] \in Entry \cup {NoFlag}
          /\ cached'[c][k] # NoFlag => /\ cached[c][k] # NoFlag
                                       /\ cached'[c][k].ver = cached[c][k].ver
                                       /\ cached'[c][k].created = cached[c][k].created
    BY <1>0, <2>1, <2>2, <2>3
  <2>5. cached' \in [Clients -> [Keys -> Entry \cup {NoFlag}]]
    BY <2>3, <2>4
  <2>6. quiet' \in [Keys -> 0..(TTL + 1)]
    BY <1>2, BoundsAssumption DEF Pass, TypeOK
  <2> QED
    BY <1>0, <1>2, <2>3, <2>4, <2>5, <2>6 DEF TypeOK, Enters
<1>3. CASE \E c \in Clients, k \in Keys : Evict(c, k)
  BY <1>0, <1>1, <1>3 DEF TypeOK, Enters
<1> QED
  BY <1>2, <1>3

\* The store's word that there is no such flag reaches the client alone.
Untold == <<store, cached, pc, todo, carry, writes, seen, last, quiet>>

LEMMA MissingStep ==
  ASSUME TypeOK, NEW g \in Callers, NEW k \in Keys, RemoveMissing(g, k)
  PROVE  /\ TypeOK'
         /\ UNCHANGED Untold
         /\ pc[g] = "idle"
         /\ \A c \in Clients, j \in Keys :
              told'[c][j] = IF c = Owner[g] /\ j = k THEN last[j].ver ELSE told[c][j]
<1>1. UNCHANGED Untold /\ pc[g] = "idle" /\ Tell(Owner[g], {k})
  BY DEF RemoveMissing, Untold
<1>2. /\ Owner[g] \in Clients /\ {k} \in SUBSET Keys
      /\ told \in [Clients -> [Keys -> Nat]] /\ \A j \in Keys : last'[j].ver \in Nat
  BY <1>1, Numbers DEF TypeOK, Untold
<1>3. /\ told' \in [Clients -> [Keys -> Nat]]
      /\ \A j \in {k} : told'[Owner[g]][j] = last'[j].ver
      /\ \A c \in Clients, j \in Keys :
           c # Owner[g] \/ j \notin {k} => told'[c][j] = told[c][j]
  BY <1>1, <1>2, TellKeeps
<1> QED
  BY <1>1, <1>3 DEF TypeOK, Untold

\* These are all the steps.
LEMMA StepKinds ==
  ASSUME TypeOK, [Next]_vars
  PROVE  \/ \E g \in Callers : Reads(g)
         \/ \E g \in Callers, k \in Keys : Write(g, k) \/ Remove(g, k)
         \/ \E g \in Callers, k \in Keys : CacheSet(g, k) \/ Drop(g, k)
         \/ (\E c \in Clients, k \in Keys : Evict(c, k)) \/ Pass
         \/ \E g \in Callers, k \in Keys : RemoveMissing(g, k)
         \/ UNCHANGED vars
BY DEF Next, Get, Set, Delete, GetAll, Hit, Reads

LEMMA InitType == Init => TypeOK
BY NothingType, BoundsAssumption DEF Init, TypeOK

LEMMA StepType == TypeOK /\ [Next]_vars => TypeOK'
<1> SUFFICES ASSUME TypeOK, [Next]_vars PROVE TypeOK'
  OBVIOUS
<1>1. CASE UNCHANGED vars
  BY <1>1 DEF vars, TypeOK
<1> QED
  BY <1>1, StepKinds, ReadStep, ChangeStep, CacheStep, LossStep, MissingStep

\* The types, for any number of goroutines per client.
THEOREM TypeCorrect == Spec => []TypeOK
BY InitType, StepType, PTL DEF Spec

(***************************************************************************)
(* The order of versions.  Write numbers only grow, so what a call has in  *)
(* hand is never newer than the flag the store has now, and - as long as   *)
(* no second goroutine changes the same cache meanwhile - never older than *)
(* what its client has dealt with.                                         *)
(***************************************************************************)
VersionsOrdered ==
  /\ \A c \in Clients, k \in Keys : seen[c][k] <= writes
  /\ \A g \in Callers, k \in Keys :
       carry[g][k] # NoFlag => /\ carry[g][k].ver <= writes
                               /\ seen[Owner[g]][k] <= carry[g][k].ver
  /\ \A k \in Keys :
       store[k] # NoFlag =>
         /\ store[k].ver <= writes
         /\ \A c \in Clients : seen[c][k] <= store[k].ver
         /\ \A g \in Callers : carry[g][k] # NoFlag => carry[g][k].ver <= store[k].ver
  /\ ReadYourWrites

LEMMA ReadsKeepOrder ==
  ASSUME TypeOK, VersionsOrdered, NEW g \in Callers, Reads(g)
  PROVE  VersionsOrdered'
<1>1. UNCHANGED <<store, cached, writes, seen>>
  BY ReadStep
<1>2. \A h \in Callers, k \in Keys :
        carry'[h][k] # NoFlag => carry'[h][k] = carry[h][k] \/ carry'[h][k] = store[k]
  BY ReadStep DEF Same
<1>3. ReadYourWrites'
  BY <1>1 DEF VersionsOrdered, ReadYourWrites
<1>4. \A h \in Callers, k \in Keys :
        carry'[h][k] # NoFlag => /\ carry'[h][k].ver <= writes
                                 /\ seen[Owner[h]][k] <= carry'[h][k].ver
  BY <1>2, OwnerAssumption DEF VersionsOrdered
<1>5. \A h \in Callers, k \in Keys :
        carry'[h][k] # NoFlag /\ store[k] # NoFlag => carry'[h][k].ver <= store[k].ver
  BY <1>2, Numbers DEF VersionsOrdered
<1> QED
  BY <1>1, <1>3, <1>4, <1>5 DEF VersionsOrdered

\* A change is newer than everything known of its key.
LEMMA ChangesKeepOrder ==
  ASSUME TypeOK, VersionsOrdered, NEW g \in Callers, NEW k \in Keys,
         Write(g, k) \/ Remove(g, k)
  PROVE  VersionsOrdered'
<1>1. /\ UNCHANGED <<cached, seen>>
      /\ writes' = writes + 1 /\ writes \in Nat
      /\ \A j \in Keys \ {k} : store'[j] = store[j]
      /\ store'[k] # NoFlag => store'[k].ver = writes'
  BY ChangeStep, Numbers
<1>2. \A h \in Callers, j \in Keys :
        carry'[h][j] # NoFlag => \/ j = k /\ carry'[h][j].ver = writes'
                                 \/ carry'[h][j] = carry[h][j]
  BY ChangeStep DEF Same
<1>3. ReadYourWrites'
  BY <1>1 DEF VersionsOrdered, ReadYourWrites
<1>4. \A c \in Clients, j \in Keys : seen[c][j] <= writes' /\ seen[c][j] \in Nat
  BY <1>1, Numbers DEF VersionsOrdered
<1>5. \A h \in Callers, j \in Keys :
        carry'[h][j] # NoFlag => /\ carry'[h][j].ver <= writes'
                                 /\ seen[Owner[h]][j] <= carry'[h][j].ver
  BY <1>1, <1>2, <1>4, Numbers DEF VersionsOrdered
<1>6. \A j \in Keys :
        store'[j] # NoFlag =>
          /\ store'[j].ver <= writes'
          /\ \A c \in Clients : seen[c][j] <= store'[j].ver
          /\ \A h \in Callers : carry'[h][j] # NoFlag => carry'[h][j].ver <= store'[j].ver
  <2>1. TAKE j \in Keys
  <2>2. CASE j = k
    BY <1>1, <1>4, <1>5, <2>2
  <2>3. CASE j # k
    BY <1>1, <1>2, <2>3, Numbers DEF VersionsOrdered
  <2> QED
    BY <2>2, <2>3
<1> QED
  BY <1>1, <1>3, <1>4, <1>5, <1>6 DEF VersionsOrdered

\* A call of g brings what its client has seen of k up to the flag in hand: the
\* flag is not older, and no other caller of that client exists to disagree.
LEMMA CacheKeepsOrder ==
  ASSUME TypeOK, VersionsOrdered, OneCallerPerClient, NEW g \in Callers, NEW k \in Keys,
         CacheSet(g, k) \/ Drop(g, k)
  PROVE  VersionsOrdered'
<1> DEFINE o == Owner[g]
           v == carry[g][k].ver
<1>1. /\ UNCHANGED <<store, writes>>
      /\ carry[g][k] # NoFlag
      /\ cached'[o][k] # NoFlag => cached'[o][k].ver = v
      /\ \A c \in Clients, j \in Keys :
           ~(c = o /\ j = k) => seen'[c][j] = seen[c][j] /\ cached'[c][j] = cached[c][j]
  BY CacheStep
<1>2. \A h \in Callers, j \in Keys : carry'[h][j] # NoFlag => carry'[h][j] = carry[h][j]
  BY CacheStep DEF Same
<1>3. o \in Clients /\ v \in Nat /\ v <= writes
  BY <1>1, Numbers DEF VersionsOrdered
<1>4. seen'[o][k] = v
  <2>1. seen'[o][k] = IF seen[o][k] < v THEN v ELSE seen[o][k]
    BY CacheStep
  <2>2. seen[o][k] <= v /\ seen[o][k] \in Nat
    BY <1>1, Numbers DEF VersionsOrdered
  <2> QED
    BY <1>3, <2>1, <2>2
<1>5. \A h \in Callers : Owner[h] = o => h = g
  BY DEF OneCallerPerClient
<1> HIDE DEF o, v
<1>6. \A c \in Clients, j \in Keys : seen'[c][j] <= writes'
  BY <1>1, <1>3, <1>4 DEF VersionsOrdered
<1>7. ASSUME NEW h \in Callers, NEW j \in Keys, carry'[h][j] # NoFlag
      PROVE  /\ carry'[h][j].ver <= writes'
             /\ seen'[Owner[h]][j] <= carry'[h][j].ver
  <2>1. carry'[h][j] = carry[h][j] /\ carry[h][j] # NoFlag
    BY <1>2, <1>7
  <2>2. carry[h][j].ver <= writes /\ seen[Owner[h]][j] <= carry[h][j].ver
    BY <2>1 DEF VersionsOrdered
  <2>3. CASE Owner[h] = o /\ j = k
    <3>1. carry'[h][j].ver = v
      BY <1>5, <2>1, <2>3 DEF v
    <3> QED
      BY <1>1, <1>3, <1>4, <2>1, <2>2, <2>3, <3>1
  <2>4. CASE ~(Owner[h] = o /\ j = k)
    BY <1>1, <2>1, <2>2, <2>4, OwnerAssumption
  <2> QED
    BY <2>3, <2>4
<1>8. ASSUME NEW j \in Keys, store'[j] # NoFlag
      PROVE  /\ store'[j].ver <= writes'
             /\ \A c \in Clients : seen'[c][j] <= store'[j].ver
             /\ \A h \in Callers :
                  carry'[h][j] # NoFlag => carry'[h][j].ver <= store'[j].ver
  <2>1. /\ store'[j] = store[j] /\ store[j].ver <= writes
        /\ \A c \in Clients : seen[c][j] <= store[j].ver
        /\ \A h \in Callers : carry[h][j] # NoFlag => carry[h][j].ver <= store[j].ver
    BY <1>1, <1>8 DEF VersionsOrdered
  <2>2. j = k => v <= store[j].ver
    BY <1>1, <2>1 DEF v
  <2> QED
    BY <1>1, <1>2, <1>4, <2>1, <2>2
<1>9. ReadYourWrites'
  <2> SUFFICES ASSUME NEW c \in Clients, NEW j \in Keys, cached'[c][j] # NoFlag
               PROVE  cached'[c][j].ver >= seen'[c][j]
    BY DEF ReadYourWrites
  <2>1. CASE c = o /\ j = k
    BY <1>1, <1>3, <1>4, <2>1
  <2>2. CASE ~(c = o /\ j = k)
    BY <1>1, <2>2 DEF VersionsOrdered, ReadYourWrites
  <2> QED
    BY <2>1, <2>2
<1> QED
  BY <1>6, <1>7, <1>8, <1>9 DEF VersionsOrdered

LEMMA LossKeepsOrder ==
  ASSUME TypeOK, VersionsOrdered, (\E c \in Clients, k \in Keys : Evict(c, k)) \/ Pass
  PROVE  VersionsOrdered'
<1>1. ReadYourWrites'
  BY LossStep DEF VersionsOrdered, ReadYourWrites
<1>2. UNCHANGED <<store, carry, writes, seen>>
  BY LossStep
<1> QED
  BY <1>1, <1>2 DEF VersionsOrdered

LEMMA InitOrder == Init => VersionsOrdered
<1> SUFFICES ASSUME Init PROVE VersionsOrdered
  OBVIOUS
<1>1. \A c \in Clients, k \in Keys : seen[c][k] = 0 /\ cached[c][k] = NoFlag
  BY NothingType DEF Init
<1>2. \A k \in Keys : store[k] = NoFlag /\ \A g \in Callers : carry[g][k] = NoFlag
  BY NothingType DEF Init
<1>3. writes = 0
  BY DEF Init
<1> QED
  BY <1>1, <1>2, <1>3 DEF VersionsOrdered, ReadYourWrites

LEMMA StepOrder ==
  OneCallerPerClient /\ TypeOK /\ VersionsOrdered /\ [Next]_vars => VersionsOrdered'
<1> SUFFICES ASSUME OneCallerPerClient, TypeOK, VersionsOrdered, [Next]_vars
             PROVE  VersionsOrdered'
  OBVIOUS
<1>1. CASE UNCHANGED Untold
  BY <1>1 DEF Untold, VersionsOrdered, ReadYourWrites
<1>2. UNCHANGED vars => UNCHANGED Untold
  BY DEF vars, Untold
<1> QED
  BY <1>1, <1>2, MissingStep, StepKinds, ReadsKeepOrder, ChangesKeepOrder, CacheKeepsOrder, LossKeepsOrder

\* A client that one goroutine uses at a time never goes back behind a success:
\* behind a write or deletion that was answered, or a flag that it has read,
\* whatever other clients write and whichever requests fail (store.go:55-141).
THEOREM SessionsCorrect ==
  ASSUME OneCallerPerClient
  PROVE  Spec => []ReadYourWrites
<1>1. Init => TypeOK /\ VersionsOrdered
  BY InitType, InitOrder
<1>2. TypeOK /\ VersionsOrdered /\ [Next]_vars => (TypeOK /\ VersionsOrdered)'
  BY StepType, StepOrder
<1>3. VersionsOrdered => ReadYourWrites
  BY DEF VersionsOrdered
<1> QED
  BY <1>1, <1>2, <1>3, PTL DEF Spec

(***************************************************************************)
(* What is newest.  Nothing is newer than the last change of a key, and if *)
(* that was a deletion everything on its way into a cache is older.  The   *)
(* client that has the answer to the last change has dealt with it, or is  *)
(* about to.                                                               *)
(***************************************************************************)
Behind(flag, k) ==
  /\ flag.ver <= last[k].ver
  /\ flag.ver = last[k].ver => store[k] # NoFlag

Dealing(g, k) ==
  /\ pc[g] \in {"caching", "dropping"}
  /\ k \in todo[g]
  /\ carry[g][k] # NoFlag /\ carry[g][k].ver = last[k].ver

NewestKnown ==
  /\ \A k \in Keys : last[k].ver <= writes
  /\ \A k \in Keys : store[k] # NoFlag => store[k].ver = last[k].ver
  /\ \A c \in Clients, k \in Keys : cached[c][k] # NoFlag => Behind(cached[c][k], k)
  /\ \A g \in Callers, k \in Keys :
       carry[g][k] # NoFlag /\ pc[g] # "dropping" => Behind(carry[g][k], k)
  /\ \A g \in Callers : \A j, k \in todo[g] : pc[g] = "dropping" => j = k
  /\ \A c \in Clients, k \in Keys :
       last[k].by = c => \/ last[k].ver <= seen[c][k]
                         \/ \E g \in Callers : Owner[g] = c /\ Dealing(g, k)

LEMMA ReadsKeepNewest ==
  ASSUME TypeOK, NewestKnown, NEW g \in Callers, Reads(g)
  PROVE  NewestKnown'
<1>1. /\ UNCHANGED <<store, cached, writes, seen, last>>
      /\ pc[g] \notin {"caching", "dropping"} /\ pc'[g] # "dropping"
      /\ \A j \in Keys : carry'[g][j] \in {NoFlag, store[j], carry[g][j]}
      /\ \A h \in Callers \ {g} : Same(h)
  BY ReadStep
<1>2. \A k \in Keys : store[k] # NoFlag => Behind(store[k], k)
  BY Numbers DEF NewestKnown, Behind
<1>3. \A h \in Callers, k \in Keys :
        carry'[h][k] # NoFlag /\ pc'[h] # "dropping" => Behind(carry[h][k], k)'
  BY <1>1, <1>2 DEF NewestKnown, Behind, Same
<1>4. \A h \in Callers, k \in Keys : Dealing(h, k) => Dealing(h, k)'
  BY <1>1 DEF Dealing, Same
<1>5. \A c \in Clients, k \in Keys : cached'[c][k] # NoFlag => Behind(cached[c][k], k)'
  BY <1>1 DEF NewestKnown, Behind
<1>6. \A h \in Callers : \A j, k \in todo'[h] : pc'[h] = "dropping" => j = k
  BY <1>1 DEF NewestKnown, Same
<1> QED
  BY <1>1, <1>3, <1>4, <1>5, <1>6 DEF NewestKnown

LEMMA ChangesKeepNewest ==
  ASSUME TypeOK, NewestKnown, NEW g \in Callers, NEW k \in Keys, Write(g, k) \/ Remove(g, k)
  PROVE  NewestKnown'
<1>1. /\ writes' = writes + 1 /\ writes \in Nat
      /\ UNCHANGED <<cached, seen>>
      /\ \A j \in Keys \ {k} : store'[j] = store[j] /\ last'[j] = last[j]
      /\ store'[k] # NoFlag => store'[k].ver = writes'
      /\ last'[k].ver = writes'
      /\ pc[g] = "idle"
  BY ChangeStep, Numbers
<1>2. \/ /\ \A h \in Callers : Same(h)
         /\ last'[k].by = NoFlag
      \/ /\ \A h \in Callers \ {g} : Same(h)
         /\ last'[k].by = Owner[g]
         /\ pc'[g] = IF store'[k] = NoFlag THEN "dropping" ELSE "caching"
         /\ todo'[g] = {k}
         /\ carry'[g][k] # NoFlag /\ carry'[g][k].ver = writes'
         /\ \A j \in Keys \ {k} : carry'[g][j] = NoFlag
  BY ChangeStep
<1>3. \A j \in Keys : last'[j].ver <= writes' /\ last[j].ver < writes' /\ last[j].ver \in Nat
  BY <1>1, Numbers DEF NewestKnown
<1>4. \A j \in Keys, ver \in Nat :
        /\ ver <= last[j].ver /\ (ver = last[j].ver => store[j] # NoFlag)
        => ver <= last'[j].ver /\ (ver = last'[j].ver => store'[j] # NoFlag)
  BY <1>1, <1>3
<1>5. \A c \in Clients, j \in Keys : cached'[c][j] # NoFlag => Behind(cached[c][j], j)'
  BY <1>1, <1>4, Numbers DEF NewestKnown, Behind
<1>6. \A j \in Keys : store'[j] # NoFlag => store'[j].ver = last'[j].ver
  BY <1>1 DEF NewestKnown
<1>7. ASSUME NEW h \in Callers, NEW j \in Keys, carry'[h][j] # NoFlag, pc'[h] # "dropping"
      PROVE  Behind(carry[h][j], j)'
  <2>1. CASE Same(h)
    BY <1>4, <1>7, <2>1, Numbers DEF NewestKnown, Behind, Same
  <2>2. CASE ~Same(h)
    <3>1. j = k /\ carry'[h][j].ver = last'[k].ver /\ store'[k] # NoFlag
      BY <1>1, <1>2, <1>7, <2>2
    <3> QED
      BY <1>1, <3>1 DEF Behind
  <2> QED
    BY <2>1, <2>2
<1>8. \A h \in Callers : \A i, j \in todo'[h] : pc'[h] = "dropping" => i = j
  BY <1>2 DEF NewestKnown, Same
<1>9. ASSUME NEW c \in Clients, NEW j \in Keys, last'[j].by = c
      PROVE  \/ last'[j].ver <= seen'[c][j]
             \/ \E h \in Callers : Owner[h] = c /\ Dealing(h, j)'
  <2>1. CASE j = k
    <3>1. last'[k].by # NoFlag
      BY <1>9, <2>1, NoFlagAssumption
    <3>2. Owner[g] = c /\ Dealing(g, k)'
      BY <1>1, <1>2, <1>9, <2>1, <3>1 DEF Dealing
    <3> QED
      BY <2>1, <3>2
  <2>2. CASE j # k
    <3>1. last'[j] = last[j]
      BY <1>1, <2>2
    <3>2. CASE last[j].ver <= seen[c][j]
      BY <1>1, <3>1, <3>2
    <3>3. ASSUME NEW h \in Callers, Owner[h] = c, Dealing(h, j)
          PROVE  Dealing(h, j)'
      BY <1>1, <1>2, <3>1, <3>3 DEF Dealing, Same
    <3> QED
      BY <1>9, <3>1, <3>2, <3>3 DEF NewestKnown
  <2> QED
    BY <2>1, <2>2
<1> QED
  BY <1>3, <1>5, <1>6, <1>7, <1>8, <1>9 DEF NewestKnown

\* Whatever a call puts into the cache or takes out, it has then dealt with.
LEMMA CacheKeepsNewest ==
  ASSUME TypeOK, NewestKnown, NEW g \in Callers, NEW k \in Keys, CacheSet(g, k) \/ Drop(g, k)
  PROVE  NewestKnown'
<1> DEFINE o == Owner[g]
           v == carry[g][k].ver
<1>1. /\ UNCHANGED <<store, writes, last>>
      /\ k \in todo[g] /\ carry[g][k] # NoFlag
      /\ cached'[o][k] # NoFlag => pc[g] = "caching" /\ cached'[o][k].ver = v
      /\ seen'[o][k] = IF seen[o][k] < v THEN v ELSE seen[o][k]
      /\ \A c \in Clients, j \in Keys :
           ~(c = o /\ j = k) => seen'[c][j] = seen[c][j] /\ cached'[c][j] = cached[c][j]
  BY CacheStep
<1>2. /\ pc[g] \in {"caching", "dropping"} /\ pc'[g] # "dropping"
      /\ pc[g] = "dropping" => \A j \in Keys : carry'[g][j] = NoFlag
      /\ pc[g] = "caching" => \A j \in todo[g] \ {k} : /\ pc'[g] = "caching"
                                                       /\ j \in todo'[g]
                                                       /\ carry'[g][j] = carry[g][j]
      /\ \A j \in Keys : carry'[g][j] \in {NoFlag, carry[g][j]}
      /\ \A h \in Callers \ {g} : Same(h)
  BY CacheStep, NothingType
<1>3. /\ o \in Clients /\ v \in Nat
      /\ \A c \in Clients, j \in Keys : seen[c][j] \in Nat /\ last[j].ver \in Nat
  BY <1>1, Numbers
<1>4. \A h \in Callers, j \in Keys :
        carry'[h][j] # NoFlag /\ pc'[h] # "dropping" => Behind(carry'[h][j], j)
  BY <1>2 DEF NewestKnown, Same
<1>5. pc[g] = "caching" => Behind(carry[g][k], k)
  BY <1>1 DEF NewestKnown
<1>6. cached'[o][k] # NoFlag => Behind(cached'[o][k], k)
  BY <1>1, <1>5 DEF Behind
<1> HIDE DEF o
<1>7. \A c \in Clients, j \in Keys : cached'[c][j] # NoFlag => Behind(cached'[c][j], j)
  BY <1>1, <1>6 DEF NewestKnown
<1>8. \A h \in Callers : \A i, j \in todo'[h] : pc'[h] = "dropping" => i = j
  BY <1>2 DEF NewestKnown, Same
<1>9. ASSUME NEW c \in Clients, NEW j \in Keys, last[j].by = c
      PROVE  \/ last[j].ver <= seen'[c][j]
             \/ \E h \in Callers : Owner[h] = c /\ Dealing(h, j)'
  <2>1. seen[c][j] <= seen'[c][j] /\ seen'[c][j] \in Nat
    BY <1>1, <1>3
  <2>2. CASE last[j].ver <= seen[c][j]
    BY <1>3, <2>1, <2>2
  <2>3. ASSUME NEW h \in Callers, Owner[h] = c, Dealing(h, j)
        PROVE  last[j].ver <= seen'[c][j] \/ Dealing(h, j)'
    <3>1. CASE h # g
      BY <1>1, <1>2, <2>3, <3>1 DEF Dealing, Same
    <3>2. CASE h = g /\ j = k
      BY <1>1, <1>3, <2>3, <3>2 DEF Dealing, o
    <3>3. CASE h = g /\ j # k
      <4>1. pc[g] = "caching" /\ j \in todo[g] \ {k}
        BY <1>1, <2>3, <3>3 DEF Dealing, NewestKnown
      <4> QED
        BY <1>1, <1>2, <2>3, <3>3, <4>1 DEF Dealing
    <3> QED
      BY <3>1, <3>2, <3>3
  <2> QED
    BY <1>9, <2>2, <2>3 DEF NewestKnown
<1> QED
  BY <1>1, <1>4, <1>7, <1>8, <1>9 DEF NewestKnown, Behind

LEMMA LossKeepsNewest ==
  ASSUME TypeOK, NewestKnown, (\E c \in Clients, k \in Keys : Evict(c, k)) \/ Pass
  PROVE  NewestKnown'
<1>1. UNCHANGED <<store, pc, todo, carry, writes, seen, last>>
  BY LossStep
<1>2. \A c \in Clients, k \in Keys : cached'[c][k] # NoFlag => Behind(cached[c][k], k)'
  BY LossStep DEF NewestKnown, Behind
<1>3. \A h \in Callers, k \in Keys : Dealing(h, k)' = Dealing(h, k)
  BY <1>1 DEF Dealing
<1> QED
  BY <1>1, <1>2, <1>3 DEF NewestKnown, Behind

LEMMA InitNewest == Init => NewestKnown
<1> SUFFICES ASSUME Init PROVE NewestKnown
  OBVIOUS
<1>1. /\ \A c \in Clients, k \in Keys : seen[c][k] = 0 /\ cached[c][k] = NoFlag
      /\ \A k \in Keys : store[k] = NoFlag /\ last[k].ver = 0
      /\ \A g \in Callers : pc[g] = "idle" /\ \A k \in Keys : carry[g][k] = NoFlag
      /\ writes = 0
  BY NothingType DEF Init
<1> QED
  BY <1>1 DEF NewestKnown

LEMMA StepNewest == TypeOK /\ NewestKnown /\ [Next]_vars => NewestKnown'
<1> SUFFICES ASSUME TypeOK, NewestKnown, [Next]_vars PROVE NewestKnown'
  OBVIOUS
<1>1. CASE UNCHANGED Untold
  BY <1>1 DEF Untold, NewestKnown, Behind, Dealing
<1>2. UNCHANGED vars => UNCHANGED Untold
  BY DEF vars, Untold
<1> QED
  BY <1>1, <1>2, MissingStep, StepKinds, ReadsKeepNewest, ChangesKeepNewest, CacheKeepsNewest, LossKeepsNewest

(***************************************************************************)
(* What a client has been told.  The newest change of a key that its calls *)
(* have made or found is never newer than the last one; and what a call of *)
(* it has in hand is not older, because any other call that could have     *)
(* learned better is over before this one begins.                          *)
(***************************************************************************)
ToldInOrder ==
  /\ \A c \in Clients, k \in Keys : told[c][k] <= last[k].ver
  /\ \A g \in Callers, k \in Keys :
       carry[g][k] # NoFlag => told[Owner[g]][k] <= carry[g][k].ver
  /\ \A g \in Callers : pc[g] = "idle" => carry[g] = Nothing

\* An answer tells of the flag that the store has now, or that the call then has
\* no such flag in hand.
LEMMA ReadsKeepTold ==
  ASSUME TypeOK, NewestKnown, ToldInOrder, OneCallerPerClient, NEW g \in Callers, Reads(g)
  PROVE  ToldInOrder'
<1>1. /\ UNCHANGED <<store, last>>
      /\ \A j \in Keys : carry'[g][j] \in {NoFlag, store[j], carry[g][j]}
      /\ pc'[g] = "idle" => carry'[g] = Nothing
      /\ \A h \in Callers \ {g} : Same(h)
      /\ \A c \in Clients, j \in Keys :
           \/ told'[c][j] = told[c][j]
           \/ /\ c = Owner[g] /\ told'[c][j] = last[j].ver
              /\ carry'[g][j] \in {NoFlag, store[j]}
  BY ReadStep DEF Learns
<1>2. \A c \in Clients, j \in Keys : told'[c][j] <= last'[j].ver
  BY <1>1, Numbers DEF ToldInOrder
<1>3. ASSUME NEW h \in Callers, NEW j \in Keys, carry'[h][j] # NoFlag
      PROVE  told'[Owner[h]][j] <= carry'[h][j].ver
  <2>1. Owner[h] \in Clients
    BY OwnerAssumption
  <2>2. store[j] # NoFlag => store[j].ver = last[j].ver
    BY DEF NewestKnown
  <2>3. CASE h = g
    <3>1. CASE carry'[g][j] = store[j]
      BY <1>2, <1>1, <1>3, <2>1, <2>2, <2>3, <3>1
    <3>2. CASE carry'[g][j] = carry[g][j] /\ told'[Owner[g]][j] = told[Owner[g]][j]
      BY <1>3, <2>3, <3>2 DEF ToldInOrder
    <3> QED
      BY <1>1, <1>3, <2>1, <2>3, <3>1, <3>2
  <2>4. CASE h # g
    <3>1. told'[Owner[h]][j] = told[Owner[h]][j]
      BY <1>1, <2>1, <2>4 DEF OneCallerPerClient
    <3>2. carry'[h] = carry[h]
      BY <1>1, <2>4 DEF Same
    <3> QED
      BY <1>3, <3>1, <3>2 DEF ToldInOrder
  <2> QED
    BY <2>3, <2>4
<1>4. \A h \in Callers : pc'[h] = "idle" => carry'[h] = Nothing
  BY <1>1 DEF ToldInOrder, Same
<1> QED
  BY <1>2, <1>3, <1>4 DEF ToldInOrder

\* A change is told to its own client, whose only call carries it on or is over.
LEMMA ChangesKeepTold ==
  ASSUME TypeOK, NewestKnown, ToldInOrder, OneCallerPerClient,
         NEW g \in Callers, NEW k \in Keys, Write(g, k) \/ Remove(g, k)
  PROVE  ToldInOrder'
<1>1. /\ writes' = writes + 1 /\ writes \in Nat
      /\ \A j \in Keys \ {k} : last'[j] = last[j]
      /\ last'[k].ver = writes'
      /\ \A c \in Clients, j \in Keys :
           told'[c][j] = IF c = Owner[g] /\ j = k THEN writes' ELSE told[c][j]
      /\ pc[g] = "idle"
  BY ChangeStep, Numbers
<1>2. \/ \A h \in Callers : Same(h)
      \/ /\ \A h \in Callers \ {g} : Same(h)
         /\ pc'[g] \in {"dropping", "caching"}
         /\ carry'[g][k].ver = writes'
         /\ \A j \in Keys \ {k} : carry'[g][j] = NoFlag
  BY ChangeStep
<1>3. \A c \in Clients, j \in Keys : told'[c][j] <= last'[j].ver
  <2> TAKE c \in Clients, j \in Keys
  <2>1. told[c][j] <= last[j].ver /\ last[j].ver <= writes
    BY DEF ToldInOrder, NewestKnown
  <2>2. told[c][j] \in Nat /\ last[j].ver \in Nat
    BY Numbers
  <2> QED
    BY <1>1, <2>1, <2>2
<1>4. ASSUME NEW h \in Callers, NEW j \in Keys, carry'[h][j] # NoFlag
      PROVE  told'[Owner[h]][j] <= carry'[h][j].ver
  <2>1. Owner[h] \in Clients
    BY OwnerAssumption
  <2>2. CASE Same(h)
    <3>1. carry[h][j] # NoFlag /\ carry'[h][j] = carry[h][j]
      BY <1>4, <2>2 DEF Same
    <3>2. h # g
      BY <1>1, <3>1, NothingType DEF ToldInOrder
    <3>3. told'[Owner[h]][j] = told[Owner[h]][j]
      BY <1>1, <2>1, <3>2 DEF OneCallerPerClient
    <3> QED
      BY <3>1, <3>3 DEF ToldInOrder
  <2>3. CASE ~Same(h)
    <3>1. h = g /\ j = k /\ carry'[g][k].ver = writes'
      BY <1>2, <1>4, <2>3
    <3> QED
      BY <1>1, <2>1, <3>1
  <2> QED
    BY <2>2, <2>3
<1>5. \A h \in Callers : pc'[h] = "idle" => carry'[h] = Nothing
  BY <1>2 DEF ToldInOrder, Same
<1> QED
  BY <1>3, <1>4, <1>5 DEF ToldInOrder

LEMMA StepTold ==
  OneCallerPerClient /\ TypeOK /\ NewestKnown /\ ToldInOrder /\ [Next]_vars => ToldInOrder'
<1> SUFFICES ASSUME OneCallerPerClient, TypeOK, NewestKnown, ToldInOrder, [Next]_vars
             PROVE  ToldInOrder'
  OBVIOUS
<1>1. ASSUME NEW g \in Callers, NEW k \in Keys, CacheSet(g, k) \/ Drop(g, k)
      PROVE  ToldInOrder'
  <2>1. /\ UNCHANGED <<told, last>>
        /\ pc'[g] = "idle" => carry'[g] = Nothing
        /\ \A j \in Keys : carry'[g][j] \in {NoFlag, carry[g][j]}
        /\ \A h \in Callers \ {g} : Same(h)
    BY <1>1, CacheStep
  <2> QED
    BY <2>1 DEF ToldInOrder, Same
<1>2. CASE (\E c \in Clients, k \in Keys : Evict(c, k)) \/ Pass
  <2>1. UNCHANGED <<pc, carry, told, last>>
    BY <1>2, LossStep
  <2> QED
    BY <2>1 DEF ToldInOrder
<1>3. ASSUME NEW g \in Callers, NEW k \in Keys, RemoveMissing(g, k)
      PROVE  ToldInOrder'
  <2>1. /\ UNCHANGED <<pc, carry, last>>
        /\ pc[g] = "idle"
        /\ \A c \in Clients, j \in Keys :
             told'[c][j] = IF c = Owner[g] /\ j = k THEN last[j].ver ELSE told[c][j]
    BY <1>3, MissingStep DEF Untold
  <2>2. \A h \in Callers, j \in Keys : carry[h][j] # NoFlag => Owner[h] # Owner[g]
    BY <2>1, NothingType DEF ToldInOrder, OneCallerPerClient
  <2>3. \A c \in Clients, j \in Keys : told'[c][j] <= last'[j].ver
    BY <2>1, Numbers DEF ToldInOrder
  <2>4. \A h \in Callers, j \in Keys : carry'[h][j] # NoFlag =>
          told'[Owner[h]][j] = told[Owner[h]][j]
    BY <2>1, <2>2, OwnerAssumption
  <2> QED
    BY <2>1, <2>3, <2>4 DEF ToldInOrder
<1>4. CASE UNCHANGED vars
  BY <1>4 DEF vars, ToldInOrder
<1> QED
  BY <1>1, <1>2, <1>3, <1>4, StepKinds, ReadsKeepTold, ChangesKeepTold

\* Only a call of the client itself puts a flag into its cache, and what such a
\* call has in hand is as new as everything the client has been told.
LEMMA StepEnters ==
  ASSUME TypeOK, ToldInOrder, [Next]_vars,
         NEW c \in Clients, NEW k \in Keys, Enters(c, k)
  PROVE  cached'[c][k].ver >= told[c][k]
<1>1. cached'[c][k] # NoFlag /\ cached'[c][k] # cached[c][k]
  BY DEF Enters
<1>2. PICK g \in Callers, j \in Keys : CacheSet(g, j) \/ Drop(g, j)
  BY <1>1, StepKinds, ReadStep, ChangeStep, LossStep, MissingStep DEF vars, Untold
<1>3. c = Owner[g] /\ j = k
  BY <1>1, <1>2, CacheStep
<1>4. carry[g][k] # NoFlag /\ cached'[c][k].ver = carry[g][k].ver
  BY <1>1, <1>2, <1>3, CacheStep
<1>5. told[c][k] <= carry[g][k].ver
  BY <1>3, <1>4 DEF ToldInOrder
<1> QED
  BY <1>4, <1>5, Numbers

\* A client that one goroutine uses at a time never caches, or renews, a flag
\* that is older than what its calls have written, deleted, read or found
\* missing, whether or not their answers arrived (store.go:55-141).
THEOREM NothingOldEntersCorrect ==
  ASSUME OneCallerPerClient
  PROVE  Spec => NothingOldEnters
<1> DEFINE Inv == TypeOK /\ NewestKnown /\ ToldInOrder
<1>1. Init => Inv
  <2>1. Init => ToldInOrder
    BY NothingType DEF Init, ToldInOrder
  <2> QED
    BY <2>1, InitType, InitNewest
<1>2. Inv /\ [Next]_vars => Inv'
  BY StepType, StepNewest, StepTold
<1>3. Inv /\ [Next]_vars =>
        [\A c \in Clients, k \in Keys : Enters(c, k) => cached'[c][k].ver >= told[c][k]]_vars
  BY StepEnters
<1> QED
  BY <1>1, <1>2, <1>3, PTL DEF Spec, NothingOldEnters

\* Write-through: a cached flag lies between what the client has seen and the
\* last change; once the client is at rest these are the same if the change was
\* its own.
THEOREM WriteThroughCorrect ==
  ASSUME OneCallerPerClient
  PROVE  Spec => []WriteThrough
<1> DEFINE Inv == TypeOK /\ VersionsOrdered /\ NewestKnown
<1>1. Init => Inv
  BY InitType, InitOrder, InitNewest
<1>2. Inv /\ [Next]_vars => Inv'
  BY StepType, StepOrder, StepNewest
<1>3. Inv => WriteThrough
  <2> SUFFICES ASSUME Inv, NEW c \in Clients, NEW k \in Keys,
                      Resting(c), last[k].by = c, cached[c][k] # NoFlag
               PROVE  store[k] # NoFlag /\ cached[c][k].ver = store[k].ver
    BY DEF WriteThrough
  <2>1. last[k].ver <= seen[c][k]
    BY DEF NewestKnown, Resting, Dealing
  <2>2. seen[c][k] <= cached[c][k].ver
    BY Numbers DEF VersionsOrdered, ReadYourWrites
  <2>3. cached[c][k].ver <= last[k].ver
    BY DEF NewestKnown, Behind
  <2>4. cached[c][k].ver = last[k].ver
    BY <2>1, <2>2, <2>3, Numbers
  <2> QED
    BY <2>4 DEF NewestKnown, Behind
<1> QED
  BY <1>1, <1>2, <1>3, PTL DEF Spec

(***************************************************************************)
(* When "Delete removes a feature flag from both cache and store" is true. *)
(* A store that cannot fail gives the answer to every change to its only   *)
(* client, so that write-through speaks of deletions too.                  *)
(***************************************************************************)
EveryChangeAnswered == \A k \in Keys : last[k].ver # 0 => last[k].by # NoFlag

LEMMA StepAnswered ==
  ASSUME ~CanFail
  PROVE  TypeOK /\ EveryChangeAnswered /\ [Next]_vars => EveryChangeAnswered'
<1> SUFFICES ASSUME TypeOK, EveryChangeAnswered, [Next]_vars PROVE EveryChangeAnswered'
  OBVIOUS
<1>1. CASE UNCHANGED last
  BY <1>1 DEF EveryChangeAnswered
<1>2. ASSUME NEW g \in Callers, NEW k \in Keys, Write(g, k) \/ Remove(g, k)
      PROVE  EveryChangeAnswered'
  <2>1. \A j \in Keys \ {k} : last'[j] = last[j]
    BY <1>2, ChangeStep
  <2>2. Note(k, writes + 1, Owner[g])
    BY <1>2 DEF Write, Remove
  <2>3. last'[k].by = Owner[g]
    BY <2>2 DEF Note, TypeOK
  <2>4. Owner[g] # NoFlag
    BY OwnerAssumption, NoFlagAssumption
  <2> QED
    BY <2>1, <2>3, <2>4 DEF EveryChangeAnswered
<1>3. UNCHANGED vars \/ UNCHANGED Untold => UNCHANGED last
  BY DEF vars, Untold
<1> QED
  BY <1>1, <1>2, <1>3, StepKinds, ReadStep, CacheStep, LossStep, MissingStep

\* Over the memory store, which has one client, and used by one goroutine at a
\* time, a deleted flag is out of the cache when Delete has returned, and stays
\* out (store.go:102).  Without any of the three conditions it need not be: with
\* a second goroutine, a second client or a lost answer the flag can come back
\* or never leave.
THEOREM DeleteCorrect ==
  ASSUME OneCallerPerClient, Backend = "memory", \A c, d \in Clients : c = d
  PROVE  Spec => []DeleteReachesCache
<1> DEFINE Inv == TypeOK /\ VersionsOrdered /\ NewestKnown /\ EveryChangeAnswered
<1>0. ~CanFail
  BY DEF CanFail
<1>1. Init => Inv
  BY InitType, InitOrder, InitNewest DEF Init, EveryChangeAnswered
<1>2. Inv /\ [Next]_vars => Inv'
  BY <1>0, StepType, StepOrder, StepNewest, StepAnswered
<1>3. Inv => DeleteReachesCache
  <2> SUFFICES ASSUME Inv, Quiescent, NEW c \in Clients, NEW k \in Keys,
                      store[k] = NoFlag, cached[c][k] # NoFlag
               PROVE  FALSE
    BY DEF DeleteReachesCache
  <2>1. cached[c][k].ver < last[k].ver
    <3>1. Behind(cached[c][k], k) /\ cached[c][k].ver \in Nat /\ last[k].ver \in Nat
      BY Numbers DEF NewestKnown
    <3> QED
      BY <3>1 DEF Behind
  <2>2. last[k].by \in Clients
    <3>1. last[k].ver # 0
      BY <2>1, Numbers
    <3> QED
      BY <3>1 DEF EveryChangeAnswered, TypeOK
  <2>3. last[k].by = c
    BY <2>2
  <2>4. last[k].ver <= seen[c][k]
    BY <2>3 DEF NewestKnown, Dealing, Quiescent
  <2>5. seen[c][k] <= cached[c][k].ver
    BY Numbers DEF VersionsOrdered, ReadYourWrites
  <2> QED
    BY <2>1, <2>4, <2>5, Numbers
<1> QED
  BY <1>1, <1>2, <1>3, PTL DEF Spec

=============================================================================
