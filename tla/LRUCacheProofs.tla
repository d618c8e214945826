--------------------------- MODULE LRUCacheProofs ---------------------------
(***************************************************************************)
(* Theorems about the cache of cache/cache.go, for every number of keys,   *)
(* goroutines and flags, every capacity and every TTL.                     *)
(***************************************************************************)
EXTENDS LRUCache, SequenceTheorems, FiniteSetTheorems, TLAPS

(***************************************************************************)
(* What the operations of container/list that the cache uses do to a       *)
(* sequence: removing an element and putting one in front.                 *)
(***************************************************************************)
\* Removing position n shifts what is behind it one place forward.
LEMMA RemoveAtShifts ==
  ASSUME NEW S, NEW s \in Seq(S), NEW n \in 1..Len(s)
  PROVE  /\ RemoveAt(s, n) \in Seq(S)
         /\ Len(RemoveAt(s, n)) = Len(s) - 1
         /\ \A i \in 1..(Len(s) - 1) :
              RemoveAt(s, n)[i] = IF i < n THEN s[i] ELSE s[i + 1]
<1> DEFINE a == SubSeq(s, 1, n - 1)
           b == SubSeq(s, n + 1, Len(s))
<1>1. /\ a \in Seq(S)
      /\ Len(a) = n - 1
      /\ \A i \in 1..(n - 1) : a[i] = s[i]
  BY SubSeqProperties
<1>2. /\ b \in Seq(S)
      /\ Len(b) = Len(s) - n
      /\ \A i \in 1..(Len(s) - n) : b[i] = s[n + i]
  BY SubSeqProperties
<1>3. RemoveAt(s, n) = a \o b
  BY DEF RemoveAt
<1> HIDE DEF a, b
<1>4. /\ a \o b \in Seq(S)
      /\ Len(a \o b) = Len(s) - 1
      /\ \A i \in 1..(Len(s) - 1) :
           (a \o b)[i] = IF i <= n - 1 THEN a[i] ELSE b[i - (n - 1)]
  BY <1>1, <1>2, ConcatProperties
<1>5. ASSUME NEW i \in 1..(Len(s) - 1)
      PROVE  (a \o b)[i] = IF i < n THEN s[i] ELSE s[i + 1]
  <2>1. CASE i < n
    BY <1>1, <1>4, <2>1
  <2>2. CASE ~(i < n)
    <3>1. i - (n - 1) \in 1..(Len(s) - n) /\ n + (i - (n - 1)) = i + 1
      BY <2>2
    <3> QED
      BY <1>2, <1>4, <2>2, <3>1
  <2> QED
    BY <2>1, <2>2
<1> QED
  BY <1>3, <1>4, <1>5

\* In a sequence without repetitions, the first occurrence is the occurrence.
LEMMA RemoveFirstIsRemoveAt ==
  ASSUME NEW S, NEW s \in Seq(S), NEW n \in 1..Len(s),
         \A i, j \in 1..Len(s) : s[i] = s[j] => i = j
  PROVE  RemoveFirst(s, s[n]) = RemoveAt(s, n)
<1>1. {i \in 1..Len(s) : s[i] = s[n]} = {n}
  OBVIOUS
<1>2. Min({n}) = n
  BY DEF Min
<1>3. SelectInSeq(s, LAMBDA v : v = s[n]) = n
  BY <1>1, <1>2 DEF SelectInSeq
<1> QED
  BY <1>3 DEF RemoveFirst

\* An element put in front shifts every other one place back.
LEMMA ConsShifts ==
  ASSUME NEW S, NEW s \in Seq(S), NEW e \in S
  PROVE  /\ Cons(e, s) \in Seq(S)
         /\ Len(Cons(e, s)) = Len(s) + 1
         /\ Cons(e, s)[1] = e
         /\ \A i \in 2..(Len(s) + 1) : Cons(e, s)[i] = s[i - 1]
BY DEF Cons

\* t is s with e in front of it.
InFront(t, s, e) ==
  /\ Len(t) = Len(s) + 1
  /\ t[1] = e
  /\ \A i \in 2..(Len(s) + 1) : t[i] = s[i - 1]

LEMMA ConsPutsInFront ==
  ASSUME NEW S, NEW s \in Seq(S), NEW e \in S
  PROVE  Cons(e, s) \in Seq(S) /\ InFront(Cons(e, s), s, e)
BY ConsShifts DEF InFront

\* t is s without what was at position n.
Without(t, s, n) ==
  /\ Len(t) = Len(s) - 1
  /\ \A i \in 1..(Len(s) - 1) : t[i] = IF i < n THEN s[i] ELSE s[i + 1]

LEMMA RemoveAtTakesOut ==
  ASSUME NEW S, NEW s \in Seq(S), NEW n \in 1..Len(s)
  PROVE  RemoveAt(s, n) \in Seq(S) /\ Without(RemoveAt(s, n), s, n)
BY RemoveAtShifts DEF Without

\* t is s with e in front in place of what was at position n.
Promotion(t, s, n, e) ==
  /\ Len(t) = Len(s)
  /\ t[1] = e
  /\ \A i \in 2..Len(s) : t[i] = IF i - 1 < n THEN s[i - 1] ELSE s[i]

\* Moving position n to the front shifts what was before it one place back.
LEMMA ConsRemoveAtPromotes ==
  ASSUME NEW S, NEW s \in Seq(S), NEW n \in 1..Len(s), NEW e \in S
  PROVE  /\ Cons(e, RemoveAt(s, n)) \in Seq(S)
         /\ Promotion(Cons(e, RemoveAt(s, n)), s, n, e)
<1> DEFINE r == RemoveAt(s, n)
<1>1. /\ r \in Seq(S)
      /\ Len(r) = Len(s) - 1
      /\ \A i \in 1..(Len(s) - 1) : r[i] = IF i < n THEN s[i] ELSE s[i + 1]
  BY RemoveAtShifts
<1> HIDE DEF r
<1>2. r \in Seq(S) /\ Len(r) \in Nat
  BY <1>1
<1>3. Cons(e, r) \in Seq(S)
  BY <1>2, ConsShifts
<1>4. Len(Cons(e, r)) = Len(r) + 1
  BY <1>2, ConsShifts
<1>5. Cons(e, r)[1] = e
  BY <1>2, ConsShifts
<1>6. \A i \in 2..(Len(r) + 1) : Cons(e, r)[i] = r[i - 1]
  BY <1>2, ConsShifts
<1>7. ASSUME NEW i \in 2..Len(s)
      PROVE  Cons(e, r)[i] = IF i - 1 < n THEN s[i - 1] ELSE s[i]
  <2>1. i - 1 \in 1..(Len(s) - 1) /\ (i - 1) + 1 = i /\ i \in 2..(Len(r) + 1)
    BY <1>1, <1>2
  <2> QED
    BY <1>1, <1>6, <2>1
<1> QED
  BY <1>1, <1>2, <1>3, <1>4, <1>5, <1>7 DEF r, Promotion

(***************************************************************************)
(* What they do to the list and the map of the cache.                      *)
(***************************************************************************)

(* The types of the cached items and of the list. *)
DataOK ==
  /\ items \in [Keys -> Items \cup {NoItem}]
  /\ lruList \in Seq(Elements)

(***************************************************************************)
(* What the three list operations of the cache do to DataOK and to the     *)
(* correspondence of list and map.                                         *)
(***************************************************************************)

\* A cached item is a record, and its list element is a legal one.
LEMMA CachedItem ==
  ASSUME DataOK, NEW k \in Keys, items[k] # NoItem
  PROVE  /\ items[k] \in Items
         /\ items[k].id \in Ids
         /\ items[k].left \in -1..TTL
         /\ Element(k, items[k].id) \in Elements
BY DEF DataOK, Items, Elements, Element

\* No item is nil.
LEMMA ItemIsNotNil == \A it \in Items : it # NoItem
BY NoItemAssumption DEF Items

\* The element of a cached item is at exactly one place of the list.
LEMMA ElementPlace ==
  ASSUME DataOK, ListMatchesMap, NEW k \in Keys, items[k] # NoItem
  PROVE  /\ \A i, j \in 1..Len(lruList) : lruList[i] = lruList[j] => i = j
         /\ \E n \in 1..Len(lruList) : lruList[n] = Element(k, items[k].id)
<1>1. PICK n \in 1..Len(lruList) : lruList[n].key = k
  BY DEF ListMatchesMap, CachedKeys
<1>2. lruList[n].id = items[k].id
  BY <1>1 DEF ListMatchesMap
<1>3. lruList[n] \in Elements
  BY DEF DataOK
<1>4. lruList[n] = Element(k, items[k].id)
  BY <1>1, <1>2, <1>3 DEF Elements, Element
<1> QED
  BY <1>4 DEF ListMatchesMap

\* What the list holds are elements of keys.
LEMMA ListedElement ==
  ASSUME lruList \in Seq(Elements)
  PROVE  \A i \in 1..Len(lruList) : /\ lruList[i] \in Elements
                                    /\ lruList[i].key \in Keys
                                    /\ lruList[i].id \in Ids
<1>1. \A i \in 1..Len(lruList) : lruList[i] \in Elements
  OBVIOUS
<1>2. \A e \in Elements : e.key \in Keys /\ e.id \in Ids
  BY DEF Elements
<1> QED
  BY <1>1, <1>2

\* removeItem takes the item and its element away together.
LEMMA RemoveItemKeeps ==
  ASSUME DataOK, ListMatchesMap, NEW k \in Keys, items[k] # NoItem, RemoveItem(k)
  PROVE  DataOK' /\ ListMatchesMap' /\ CachedKeys' = CachedKeys \ {k}
<1>1. PICK n \in 1..Len(lruList) : lruList[n] = Element(k, items[k].id)
  BY ElementPlace
<1>2. lruList \in Seq(Elements)
  BY DEF DataOK
<1>3. lruList' = RemoveAt(lruList, n)
  BY <1>1, <1>2, ElementPlace, RemoveFirstIsRemoveAt DEF RemoveItem
<1>4. /\ lruList' \in Seq(Elements)
      /\ Len(lruList') = Len(lruList) - 1
      /\ \A i \in 1..(Len(lruList) - 1) :
           lruList'[i] = IF i < n THEN lruList[i] ELSE lruList[i + 1]
  BY <1>2, <1>3, RemoveAtShifts
<1>5. Len(lruList) \in Nat /\ Len(lruList') \in Nat
  BY <1>2, <1>4
<1>6. /\ items' \in [Keys -> Items \cup {NoItem}]
      /\ items'[k] = NoItem
      /\ \A j \in Keys \ {k} : items'[j] = items[j]
  BY DEF RemoveItem, DataOK
<1>7. lruList[n].key = k
  BY <1>1 DEF Element
<1>8. \A i \in 1..Len(lruList) : i # n => lruList[i].key # k
  BY <1>7 DEF ListMatchesMap
<1>9. \A i \in 1..Len(lruList) : lruList[i].key \in Keys
  BY <1>2, ListedElement
<1>10. ASSUME NEW i \in 1..Len(lruList'), NEW j \in 1..Len(lruList'),
              lruList'[i].key = lruList'[j].key
       PROVE  i = j
  <2> DEFINE at(m) == IF m < n THEN m ELSE m + 1
  <2>1. at(i) \in 1..Len(lruList) /\ at(j) \in 1..Len(lruList)
    BY <1>4, <1>5
  <2>2. lruList'[i] = lruList[at(i)] /\ lruList'[j] = lruList[at(j)]
    BY <1>4, <1>5
  <2>3. at(i) = at(j)
    BY <1>10, <2>1, <2>2 DEF ListMatchesMap
  <2> QED
    BY <1>5, <2>3
<1>11. ASSUME NEW i \in 1..Len(lruList')
       PROVE  LET h == lruList'[i].key
              IN  items'[h] # NoItem /\ items'[h].id = lruList'[i].id
  <2>1. PICK m \in 1..Len(lruList) : m # n /\ lruList'[i] = lruList[m]
    BY <1>4, <1>5
  <2>2. lruList[m].key \in Keys \ {k}
    BY <1>8, <1>9, <2>1
  <2> QED
    BY <1>6, <2>1, <2>2 DEF ListMatchesMap
<1>12. CachedKeys' = CachedKeys \ {k}
  BY <1>6 DEF CachedKeys
<1>13. ASSUME NEW h \in CachedKeys'
       PROVE  \E i \in 1..Len(lruList') : lruList'[i].key = h
  <2>1. h \in CachedKeys /\ h # k
    BY <1>12
  <2>2. PICK m \in 1..Len(lruList) : lruList[m].key = h
    BY <2>1 DEF ListMatchesMap
  <2>3. m # n
    BY <1>7, <2>1, <2>2
  <2>4. CASE m < n
    BY <1>4, <1>5, <2>2, <2>4
  <2>5. CASE m > n
    <3>1. m - 1 \in 1..(Len(lruList) - 1) /\ ~(m - 1 < n) /\ (m - 1) + 1 = m
      BY <1>5, <2>5
    <3> QED
      BY <1>4, <2>2, <3>1
  <2> QED
    BY <2>3, <2>4, <2>5
<1> QED
  BY <1>4, <1>6, <1>10, <1>11, <1>12, <1>13 DEF DataOK, ListMatchesMap

\* Two maps of items with the same keys and the same addresses.
SameItems ==
  /\ items' \in [Keys -> Items \cup {NoItem}]
  /\ \A k \in Keys : /\ items'[k] # NoItem <=> items[k] # NoItem
                     /\ items[k] # NoItem => items'[k].id = items[k].id

\* Moving the element of a cached item to the front loses no element.
LEMMA MoveToFrontKeeps ==
  ASSUME DataOK, ListMatchesMap, SameItems, NEW k \in Keys, items[k] # NoItem,
         lruList' = MoveToFront(lruList, Element(k, items[k].id))
  PROVE  DataOK' /\ ListMatchesMap' /\ CachedKeys' = CachedKeys
<1> DEFINE e == Element(k, items[k].id)
<1>1. PICK n \in 1..Len(lruList) : lruList[n] = e
  BY ElementPlace
<1>2. lruList \in Seq(Elements) /\ e \in Elements /\ e.key = k
  BY CachedItem DEF DataOK, Element
<1>3. lruList' = Cons(e, RemoveAt(lruList, n))
  BY <1>1, <1>2, ElementPlace, RemoveFirstIsRemoveAt DEF MoveToFront
<1> HIDE DEF e
<1>4. lruList' \in Seq(Elements) /\ Promotion(lruList', lruList, n, e)
  <2>1. lruList \in Seq(Elements) /\ e \in Elements /\ n \in 1..Len(lruList)
    BY <1>2
  <2> QED
    BY ONLY <1>3, <2>1, ConsRemoveAtPromotes
<1>5. Len(lruList) \in Nat /\ Len(lruList') = Len(lruList)
  BY <1>2, <1>4 DEF Promotion
<1> DEFINE from(i) == IF i = 1 THEN n ELSE IF i - 1 < n THEN i - 1 ELSE i
<1>6. \A i \in 1..Len(lruList) : lruList'[i] = lruList[from(i)] /\ from(i) \in 1..Len(lruList)
  <2>1. TAKE i \in 1..Len(lruList)
  <2>2. CASE i = 1
    BY <1>1, <1>4, <2>2 DEF Promotion
  <2>3. CASE i # 1
    <3>1. i - 1 \in 1..(Len(lruList) - 1) /\ i \in 2..Len(lruList)
      BY <1>5, <2>3
    <3>2. lruList'[i] = IF i - 1 < n THEN lruList[i - 1] ELSE lruList[i]
      BY <1>4, <3>1 DEF Promotion
    <3> QED
      BY <1>5, <2>3, <3>1, <3>2
  <2> QED
    BY <2>2, <2>3
<1>7. \A i, j \in 1..Len(lruList) : from(i) = from(j) => i = j
  BY <1>5
<1>8. \A m \in 1..Len(lruList) : \E i \in 1..Len(lruList) : from(i) = m
  <2>1. TAKE m \in 1..Len(lruList)
  <2>2. CASE m = n
    BY <1>5, <2>2
  <2>3. CASE m < n
    <3>1. m + 1 \in 1..Len(lruList) /\ from(m + 1) = m
      BY <1>5, <2>3
    <3> QED
      BY <3>1
  <2>4. CASE m > n
    <3>1. from(m) = m
      BY <1>5, <2>4
    <3> QED
      BY <3>1
  <2> QED
    BY <1>5, <2>2, <2>3, <2>4
<1> HIDE DEF from
<1>9. CachedKeys' = CachedKeys
  BY DEF SameItems, CachedKeys
<1>10. ASSUME NEW i \in 1..Len(lruList'), NEW j \in 1..Len(lruList'),
              lruList'[i].key = lruList'[j].key
       PROVE  i = j
  <2>1. /\ from(i) \in 1..Len(lruList) /\ lruList'[i] = lruList[from(i)]
        /\ from(j) \in 1..Len(lruList) /\ lruList'[j] = lruList[from(j)]
    BY <1>5, <1>6
  <2>2. from(i) = from(j)
    BY <1>10, <2>1 DEF ListMatchesMap
  <2> QED
    BY <1>5, <1>7, <2>2
<1>11. ASSUME NEW i \in 1..Len(lruList')
       PROVE  LET h == lruList'[i].key
              IN  items'[h] # NoItem /\ items'[h].id = lruList'[i].id
  <2>1. from(i) \in 1..Len(lruList) /\ lruList'[i] = lruList[from(i)]
    BY <1>5, <1>6
  <2>2. lruList[from(i)].key \in Keys
    BY <1>2, <2>1, ListedElement
  <2>3. /\ items[lruList[from(i)].key] # NoItem
        /\ items[lruList[from(i)].key].id = lruList[from(i)].id
    BY <2>1 DEF ListMatchesMap
  <2> QED
    BY <2>1, <2>2, <2>3 DEF SameItems
<1>12. ASSUME NEW h \in CachedKeys'
       PROVE  \E i \in 1..Len(lruList') : lruList'[i].key = h
  <2>1. PICK m \in 1..Len(lruList) : lruList[m].key = h
    BY <1>9 DEF ListMatchesMap
  <2>2. PICK i \in 1..Len(lruList) : from(i) = m
    BY <1>8
  <2> QED
    BY <1>5, <1>6, <2>1, <2>2
<1> QED
  BY <1>4, <1>9, <1>10, <1>11, <1>12 DEF DataOK, ListMatchesMap, SameItems

\* Putting the element of a new item in front keeps list and map together.
LEMMA InsertKeeps ==
  ASSUME DataOK, ListMatchesMap, NEW k \in Keys, items[k] = NoItem, NEW it \in Items,
         items' = [items EXCEPT ![k] = it],
         lruList' = Cons(Element(k, it.id), lruList)
  PROVE  DataOK' /\ ListMatchesMap' /\ CachedKeys' = CachedKeys \cup {k}
<1> DEFINE e == Element(k, it.id)
<1>1. /\ lruList \in Seq(Elements)
      /\ e \in Elements
      /\ e.key = k
      /\ e.id = it.id
  BY DEF DataOK, Elements, Element, Items
<1>2. lruList' = Cons(e, lruList)
  OBVIOUS
<1> HIDE DEF e
<1>3. /\ lruList' \in Seq(Elements)
      /\ Len(lruList') = Len(lruList) + 1
      /\ lruList'[1] = e
      /\ \A i \in 2..(Len(lruList) + 1) : lruList'[i] = lruList[i - 1]
  <2>1. lruList' \in Seq(Elements) /\ InFront(lruList', lruList, e)
    BY ONLY <1>1, <1>2, ConsPutsInFront
  <2> QED
    BY <2>1 DEF InFront
<1>4. Len(lruList) \in Nat
  BY <1>1
<1>5. /\ items' \in [Keys -> Items \cup {NoItem}]
      /\ items'[k] = it
      /\ it # NoItem
      /\ \A j \in Keys \ {k} : items'[j] = items[j]
  BY ItemIsNotNil DEF DataOK
<1>6. \A i \in 1..Len(lruList) : /\ lruList[i].key \in Keys \ {k}
                                 /\ items[lruList[i].key].id = lruList[i].id
                                 /\ items[lruList[i].key] # NoItem
  BY <1>1, ListedElement DEF ListMatchesMap
<1>7. \A i \in 1..Len(lruList') : i # 1 => /\ i - 1 \in 1..Len(lruList)
                                           /\ lruList'[i] = lruList[i - 1]
  BY <1>3, <1>4
<1>8. CachedKeys' = CachedKeys \cup {k}
  BY <1>5 DEF CachedKeys
<1>9. ASSUME NEW i \in 1..Len(lruList'), NEW j \in 1..Len(lruList'),
             lruList'[i].key = lruList'[j].key
      PROVE  i = j
  <2>1. i = 1 <=> j = 1
    <3>1. lruList'[1].key = k
      BY <1>1, <1>3
    <3>2. \A m \in 1..Len(lruList') : m # 1 => lruList'[m].key # k
      BY <1>6, <1>7
    <3> QED
      BY <1>9, <3>1, <3>2
  <2>2. CASE i # 1 /\ j # 1
    <3>1. lruList[i - 1].key = lruList[j - 1].key
      BY <1>7, <1>9, <2>2
    <3>2. i - 1 = j - 1
      BY <1>7, <2>2, <3>1 DEF ListMatchesMap
    <3> QED
      BY <3>2
  <2> QED
    BY <2>1, <2>2
<1>10. ASSUME NEW i \in 1..Len(lruList')
       PROVE  LET h == lruList'[i].key
              IN  items'[h] # NoItem /\ items'[h].id = lruList'[i].id
  <2>1. CASE i = 1
    BY <1>1, <1>3, <1>5, <2>1
  <2>2. CASE i # 1
    BY <1>5, <1>6, <1>7, <2>2
  <2> QED
    BY <2>1, <2>2
<1>11. ASSUME NEW h \in CachedKeys'
       PROVE  \E i \in 1..Len(lruList') : lruList'[i].key = h
  <2>1. CASE h = k
    BY <1>1, <1>3, <1>4, <2>1
  <2>2. CASE h # k
    <3>1. PICK m \in 1..Len(lruList) : lruList[m].key = h
      BY <1>8, <2>2 DEF ListMatchesMap
    <3>2. m + 1 \in 1..Len(lruList') /\ m + 1 \in 2..(Len(lruList) + 1) /\ (m + 1) - 1 = m
      BY <1>3, <1>4
    <3> QED
      BY <1>3, <3>1, <3>2
  <2> QED
    BY <2>1, <2>2
<1> QED
  BY <1>3, <1>5, <1>8, <1>9, <1>10, <1>11 DEF DataOK, ListMatchesMap

(***************************************************************************)
(* The type of everything that is not cached data.                         *)
(***************************************************************************)
ControlOK ==
  /\ pc \in [Procs -> {"idle", "expire", "touch", "evict"}]
  /\ key \in [Procs -> Keys \cup {NoItem}]
  /\ item \in [Procs -> Ids \cup {NoItem}]
  /\ \A p \in Procs : /\ pc[p] \in {"expire", "touch"} <=> key[p] \in Keys
                      /\ pc[p] = "touch" <=> item[p] \in Ids
  /\ sweeper \in {"none", "starting", "waiting", "locking", "removing",
                  "exited", "panicked"}
  /\ doomed \in SUBSET Keys
  /\ ticker \in [phase : Nat, unread : 0..1]
  /\ stopped \in BOOLEAN

LEMMA TypeParts == TypeOK <=> DataOK /\ ControlOK
BY DEF TypeOK, DataOK, ControlOK

\* There are more addresses than goroutines that can hold one.
LEMMA FreshIdExists ==
  ASSUME ControlOK, NEW k \in Keys
  PROVE  FreshId(k) \in Ids
<1>1. SUFFICES ASSUME \A id \in Ids : id \in UsedIds(k)
               PROVE  FALSE
  BY DEF FreshId
<1> DEFINE holder == [id \in Ids |-> CHOOSE p \in Procs : item[p] = id]
<1>2. \A id \in Ids : holder[id] \in Procs /\ item[holder[id]] = id
  BY <1>1 DEF UsedIds
<1>3. holder \in [Ids -> Procs]
  BY <1>2
<1> HIDE DEF holder
<1>4. IsFiniteSet(Ids) /\ IsFiniteSet(Procs) /\ Cardinality(Procs) < Cardinality(Ids)
  <2>1. Cardinality(Ids) \in Nat /\ Cardinality(Procs) \in Nat
    BY IdsAssumption, FS_CardinalityType
  <2> QED
    BY <2>1, IdsAssumption
<1>5. \E x, y \in Ids : x # y /\ holder[x] = holder[y]
  BY ONLY <1>3, <1>4, FS_PigeonHole
<1> QED
  BY <1>2, <1>5

(***************************************************************************)
(* The inductive invariant.  ListMatchesMap and TypeOK need each other; the *)
(* capacity bound needs, beyond them, that one goroutine at a time holds   *)
(* the lock and that only finitely many keys are cached.                   *)
(***************************************************************************)

\* At most one goroutine holds the write lock.
LockExclusive ==
  /\ \A p, q \in Procs : pc[p] = "evict" /\ pc[q] = "evict" => p = q
  /\ sweeper = "removing" => \A p \in Procs : pc[p] # "evict"

\* What the sweep is about to remove has expired, and nobody can renew it
\* while the sweep holds the lock.
DoomedExpired == sweeper = "removing" => \A k \in doomed : Expired(k)

CapacityInv == IsFiniteSet(CachedKeys) /\ CapacityRespected

Structure == TypeOK /\ ListMatchesMap

IInv == Structure /\ LockExclusive /\ DoomedExpired /\ CapacityInv

\* The calls and the cleanup goroutine, one action at a time.
LEMMA NextActions ==
  ASSUME Next
  PROVE  \/ \E p \in Procs, k \in Keys : GetExpired(p, k) \/ GetHit(p, k) \/ Delete(p, k)
         \/ \E p \in Procs, k \in Keys, f \in Flags : SetExisting(p, k, f) \/ SetNew(p, k, f)
         \/ \E p \in Procs : \/ RemoveExpired(p) \/ Touch(p) \/ Evict(p) \/ EvictDone(p)
                             \/ Clear(p) \/ Close(p)
         \/ \E k \in Keys : SweepRemove(k)
         \/ SweeperStart \/ SweeperTick \/ SweeperStop \/ SweepCollect \/ SweepDone
         \/ Pass
BY DEF Next, Get, Set, Sweep

LEMMA InitStructure == Init => Structure
<1> SUFFICES ASSUME Init PROVE Structure
  OBVIOUS
<1>1. lruList = <<>> /\ Len(lruList) = 0 /\ CachedKeys = {}
  BY DEF Init, CachedKeys
<1>2. DataOK
  BY DEF Init, DataOK
<1>3. ControlOK
  <2>1. ticker \in [phase : Nat, unread : 0..1]
    BY DEF Init
  <2>2. sweeper \in {"starting", "none"} /\ doomed = {} /\ stopped = FALSE
    BY DEF Init
  <2>3. \A p \in Procs : pc[p] = "idle" /\ key[p] = NoItem /\ item[p] = NoItem
    BY DEF Init
  <2>4. /\ pc \in [Procs -> {"idle", "expire", "touch", "evict"}]
        /\ key \in [Procs -> Keys \cup {NoItem}]
        /\ item \in [Procs -> Ids \cup {NoItem}]
    BY DEF Init
  <2> QED
    BY <2>1, <2>2, <2>3, <2>4, NoItemAssumption DEF ControlOK
<1>4. ListMatchesMap
  BY <1>1 DEF ListMatchesMap
<1> QED
  BY <1>2, <1>3, <1>4, TypeParts DEF Structure

\* The steps of Get.
LEMMA GetKeepsStructure ==
  ASSUME Structure, NEW p \in Procs,
         \/ \E k \in Keys : GetExpired(p, k) \/ GetHit(p, k)
         \/ RemoveExpired(p)
         \/ Touch(p)
  PROVE  Structure'
<1>0. DataOK /\ ControlOK /\ ListMatchesMap
  BY TypeParts DEF Structure
<1>1. CASE \E k \in Keys : GetExpired(p, k) \/ GetHit(p, k)
  <2>1. PICK k \in Keys : GetExpired(p, k) \/ GetHit(p, k)
    BY <1>1
  <2>2. items[k] # NoItem /\ items[k].id \in Ids
    BY <1>0, <2>1, CachedItem DEF GetExpired, GetHit, Expired
  <2>3. ControlOK'
    BY <1>0, <2>1, <2>2, NoItemAssumption
       DEF ControlOK, GetExpired, GetHit, Goto, sweepVars
  <2>4. DataOK' /\ ListMatchesMap'
    BY <1>0, <2>1 DEF GetExpired, GetHit, cacheVars, DataOK, ListMatchesMap, CachedKeys
  <2> QED
    BY <2>3, <2>4, TypeParts DEF Structure, DataOK, ControlOK, TypeOK
<1>2. CASE RemoveExpired(p)
  <2>1. ControlOK'
    BY <1>0, <1>2, NoItemAssumption DEF ControlOK, RemoveExpired, Return, Goto, sweepVars
  <2>2. CASE Expired(key[p])
    <3>1. key[p] \in Keys /\ items[key[p]] # NoItem /\ RemoveItem(key[p])
      BY <1>0, <1>2, <2>2 DEF RemoveExpired, Expired, ControlOK
    <3>2. DataOK' /\ ListMatchesMap'
      BY ONLY <1>0, <3>1, RemoveItemKeeps
    <3> QED
      BY <2>1, <3>2 DEF Structure, DataOK, ControlOK, TypeOK
  <2>3. CASE ~Expired(key[p])
    BY <1>0, <1>2, <2>1, <2>3
       DEF RemoveExpired, cacheVars, Structure, DataOK, ControlOK, TypeOK, ListMatchesMap, CachedKeys
  <2> QED
    BY <2>2, <2>3
<1>3. CASE Touch(p)
  <2>1. ControlOK'
    BY <1>0, <1>3, NoItemAssumption DEF ControlOK, Touch, Return, Goto, sweepVars
  <2> DEFINE k == key[p]
  <2>2. CASE items[k] # NoItem /\ items[k].id = item[p]
    <3>1. k \in Keys
      BY <1>0, <1>3 DEF Touch, ControlOK
    <3>2. SameItems
      BY <1>0, <1>3 DEF Touch, SameItems, DataOK
    <3>3. lruList' = MoveToFront(lruList, Element(k, items[k].id))
      BY <1>3, <2>2 DEF Touch
    <3>4. DataOK' /\ ListMatchesMap'
      BY <1>0, <2>2, <3>1, <3>2, <3>3, MoveToFrontKeeps
    <3> QED
      BY <2>1, <3>4 DEF Structure, DataOK, ControlOK, TypeOK
  <2>3. CASE ~(items[k] # NoItem /\ items[k].id = item[p])
    BY <1>0, <1>3, <2>1, <2>3
       DEF Touch, Structure, DataOK, ControlOK, TypeOK, ListMatchesMap, CachedKeys
  <2> QED
    BY <2>2, <2>3
<1> QED
  BY <1>1, <1>2, <1>3

\* A step that leaves the cached data alone keeps them in order.
LEMMA DataUnchanged ==
  ASSUME DataOK, ListMatchesMap, UNCHANGED cacheVars
  PROVE  DataOK' /\ ListMatchesMap' /\ CachedKeys' = CachedKeys
BY DEF DataOK, ListMatchesMap, CachedKeys, cacheVars

LEMMA StructureFromParts ==
  ASSUME DataOK', ControlOK', ListMatchesMap'
  PROVE  Structure'
BY DEF Structure, DataOK, ControlOK, TypeOK

\* What Set and the eviction loop do to the set of cached keys.
LEMMA SetEffect ==
  ASSUME DataOK, ControlOK, ListMatchesMap, NEW p \in Procs
  PROVE  /\ \A k \in Keys, f \in Flags :
              /\ SetExisting(p, k, f) => DataOK' /\ ListMatchesMap' /\ CachedKeys' = CachedKeys
              /\ SetNew(p, k, f) => /\ DataOK'
                                    /\ ListMatchesMap'
                                    /\ CachedKeys' = CachedKeys \cup {k}
         /\ Evict(p) =>
              /\ DataOK' /\ ListMatchesMap'
              /\ \E k \in CachedKeys \cup {NoItem} : CachedKeys' = CachedKeys \ {k}
<1>1. ASSUME NEW k \in Keys, NEW f \in Flags, SetExisting(p, k, f)
      PROVE  DataOK' /\ ListMatchesMap' /\ CachedKeys' = CachedKeys
  <2> DEFINE it == [id |-> items[k].id, flag |-> f, left |-> TTL]
  <2>1. items[k] # NoItem /\ items' = [items EXCEPT ![k] = it]
    BY <1>1 DEF SetExisting
  <2>2. it \in Items
    BY <2>1, CachedItem, TTLAssumption DEF Items
  <2>3. SameItems
    BY <2>1, <2>2, ItemIsNotNil DEF SameItems, DataOK
  <2>4. lruList' = MoveToFront(lruList, Element(k, items[k].id))
    BY <1>1 DEF SetExisting
  <2> QED
    BY <2>1, <2>3, <2>4, MoveToFrontKeeps
<1>2. ASSUME NEW k \in Keys, NEW f \in Flags, SetNew(p, k, f)
      PROVE  DataOK' /\ ListMatchesMap' /\ CachedKeys' = CachedKeys \cup {k}
  <2> DEFINE it == [id |-> FreshId(k), flag |-> f, left |-> TTL]
  <2>1. it \in Items /\ it.id = FreshId(k)
    BY FreshIdExists, TTLAssumption DEF Items
  <2>2. /\ items[k] = NoItem
        /\ items' = [items EXCEPT ![k] = it]
        /\ lruList' = Cons(Element(k, it.id), lruList)
    BY <1>2, <2>1 DEF SetNew
  <2> HIDE DEF it
  <2> QED
    BY <2>1, <2>2, InsertKeeps
<1>3. ASSUME Evict(p)
      PROVE  /\ DataOK' /\ ListMatchesMap'
             /\ \E k \in CachedKeys \cup {NoItem} : CachedKeys' = CachedKeys \ {k}
  <2>1. CASE lruList # <<>> /\ items[Last(lruList).key] # NoItem
    <3> DEFINE k == Last(lruList).key
    <3>1. k \in Keys
      BY <2>1, ListedElement DEF Last, DataOK
    <3>2. RemoveItem(k)
      BY <1>3, <2>1 DEF Evict
    <3>3. DataOK' /\ ListMatchesMap' /\ CachedKeys' = CachedKeys \ {k}
      BY <2>1, <3>1, <3>2, RemoveItemKeeps
    <3> QED
      BY <2>1, <3>1, <3>3 DEF CachedKeys
  <2>2. CASE ~(lruList # <<>> /\ items[Last(lruList).key] # NoItem)
    <3>1. UNCHANGED cacheVars
      BY <1>3, <2>2 DEF Evict
    <3>2. NoItem \notin CachedKeys
      BY NoItemAssumption DEF CachedKeys
    <3> QED
      BY <3>1, <3>2, DataUnchanged
  <2> QED
    BY <2>1, <2>2
<1> QED
  BY <1>1, <1>2, <1>3

\* The steps of Set.
LEMMA SetKeepsStructure ==
  ASSUME Structure, NEW p \in Procs,
         \/ \E k \in Keys, f \in Flags : SetExisting(p, k, f) \/ SetNew(p, k, f)
         \/ Evict(p)
         \/ EvictDone(p)
  PROVE  Structure'
<1>0. DataOK /\ ControlOK /\ ListMatchesMap
  BY TypeParts DEF Structure
<1>1. ControlOK'
  BY <1>0, NoItemAssumption
     DEF ControlOK, SetExisting, SetNew, Evict, EvictDone, Return, Goto, callVars, sweepVars
<1>2. CASE EvictDone(p)
  BY <1>0, <1>1, <1>2, DataUnchanged, StructureFromParts DEF EvictDone
<1>3. CASE ~EvictDone(p)
  BY <1>0, <1>1, <1>3, SetEffect, StructureFromParts
<1> QED
  BY <1>2, <1>3

\* Delete, Clear and Close.
LEMMA DeleteEffect ==
  ASSUME DataOK, ListMatchesMap, NEW p \in Procs, NEW k \in Keys, Delete(p, k)
  PROVE  DataOK' /\ ListMatchesMap' /\ CachedKeys' = CachedKeys \ {k}
BY RemoveItemKeeps DEF Delete

LEMMA ClearEffect ==
  ASSUME DataOK, ListMatchesMap, NEW p \in Procs, Clear(p)
  PROVE  DataOK' /\ ListMatchesMap' /\ CachedKeys' = {}
<1>1. /\ items' = [k \in Keys |-> NoItem]
      /\ lruList' = <<>>
      /\ Len(lruList') = 0
  BY DEF Clear
<1>2. CachedKeys' = {}
  BY <1>1 DEF CachedKeys
<1> QED
  BY <1>1, <1>2 DEF DataOK, ListMatchesMap

LEMMA DeleteClearCloseKeepStructure ==
  ASSUME Structure, NEW p \in Procs,
         (\E k \in Keys : Delete(p, k)) \/ Clear(p) \/ Close(p)
  PROVE  Structure'
<1>0. DataOK /\ ControlOK /\ ListMatchesMap
  BY TypeParts DEF Structure
<1>1. ControlOK'
  BY <1>0 DEF ControlOK, Delete, Clear, Close, callVars, sweepVars
<1>2. CASE \E k \in Keys : Delete(p, k)
  BY <1>0, <1>1, <1>2, DeleteEffect, StructureFromParts
<1>3. CASE Clear(p)
  BY <1>0, <1>1, <1>3, ClearEffect, StructureFromParts
<1>4. CASE Close(p)
  BY <1>0, <1>1, <1>4, DataUnchanged, StructureFromParts DEF Close
<1> QED
  BY <1>2, <1>3, <1>4

\* The sweep removes one key at a time; the clock only makes items older.
LEMMA SweepRemoveEffect ==
  ASSUME DataOK, ListMatchesMap, NEW k \in Keys, SweepRemove(k)
  PROVE  /\ DataOK' /\ ListMatchesMap'
         /\ CachedKeys' = CachedKeys \ {k}
         /\ \A j \in Keys \ {k} : items'[j] = items[j]
<1>1. CASE items[k] # NoItem
  <2>1. RemoveItem(k)
    BY <1>1 DEF SweepRemove
  <2>2. \A j \in Keys \ {k} : items'[j] = items[j]
    BY <2>1 DEF RemoveItem, DataOK
  <2> QED
    BY <1>1, <2>1, <2>2, RemoveItemKeeps
<1>2. CASE items[k] = NoItem
  <2>1. UNCHANGED cacheVars
    BY <1>2 DEF SweepRemove
  <2>2. CachedKeys = CachedKeys \ {k}
    BY <1>2 DEF CachedKeys
  <2> QED
    BY <2>1, <2>2, DataUnchanged DEF cacheVars
<1> QED
  BY <1>1, <1>2

LEMMA PassEffect ==
  ASSUME DataOK, ListMatchesMap, Pass
  PROVE  /\ DataOK' /\ ListMatchesMap'
         /\ CachedKeys' = CachedKeys
         /\ \A k \in Keys : Expired(k) => Expired(k)'
<1>1. \A it \in Items : /\ Aged(it) \in Items
                        /\ Aged(it).id = it.id
                        /\ it.left < 0 => Aged(it).left < 0
  BY TTLAssumption DEF Items, Aged
<1>2. \A k \in Keys : items'[k] = IF items[k] = NoItem THEN NoItem ELSE Aged(items[k])
  BY DEF Pass
<1>3. \A k \in Keys : items[k] # NoItem => items[k] \in Items
  BY DEF DataOK
<1>4. SameItems
  <2>1. \A k \in Keys : items'[k] \in Items \cup {NoItem}
    BY <1>1, <1>2, <1>3
  <2>2. items' = [k \in Keys |-> IF items[k] = NoItem THEN NoItem ELSE Aged(items[k])]
    BY DEF Pass
  <2>3. items' \in [Keys -> Items \cup {NoItem}]
    BY <2>1, <2>2
  <2>4. \A k \in Keys : /\ items'[k] # NoItem <=> items[k] # NoItem
                        /\ items[k] # NoItem => items'[k].id = items[k].id
    BY <1>1, <1>2, <1>3, ItemIsNotNil
  <2> QED
    BY <2>3, <2>4 DEF SameItems
<1>5. lruList' = lruList
  BY DEF Pass
<1>6. DataOK' /\ CachedKeys' = CachedKeys
  BY <1>4, <1>5 DEF DataOK, SameItems, CachedKeys
<1>7. ListMatchesMap'
  <2>1. lruList \in Seq(Elements)
    BY DEF DataOK
  <2> QED
    BY <1>4, <1>5, <1>6, <2>1, ListedElement DEF ListMatchesMap, SameItems
<1>8. \A k \in Keys : Expired(k) => Expired(k)'
  BY <1>1, <1>2, <1>3, <1>4 DEF Expired, SameItems
<1> QED
  BY <1>6, <1>7, <1>8

LEMMA SweepAndPassKeepStructure ==
  ASSUME Structure,
         \/ \E k \in Keys : SweepRemove(k)
         \/ SweeperStart \/ SweeperTick \/ SweeperStop \/ SweepCollect \/ SweepDone
         \/ Pass
  PROVE  Structure'
<1>0. DataOK /\ ControlOK /\ ListMatchesMap
  BY TypeParts DEF Structure
<1>1. CASE \E k \in Keys : SweepRemove(k)
  <2>1. ControlOK'
    BY <1>0, <1>1 DEF ControlOK, SweepRemove, callVars
  <2> QED
    BY <1>0, <1>1, <2>1, SweepRemoveEffect, StructureFromParts
<1>2. CASE SweeperStart \/ SweeperTick \/ SweeperStop \/ SweepCollect \/ SweepDone
  <2>0. ticker' \in [phase : Nat, unread : 0..1]
    <3>1. ticker \in [phase : Nat, unread : 0..1]
      BY <1>0 DEF ControlOK
    <3>2. \/ ticker' = ticker
          \/ ticker' = [phase |-> 0, unread |-> 0]
          \/ ticker' = [ticker EXCEPT !.unread = 0]
      BY <1>2 DEF SweeperStart, SweeperTick, SweeperStop, SweepCollect, SweepDone
    <3> QED
      BY <3>1, <3>2
  <2>1. ControlOK'
    BY <1>0, <1>2, <2>0
       DEF ControlOK, SweeperStart, SweeperTick, SweeperStop, SweepCollect, SweepDone, callVars
  <2>2. UNCHANGED cacheVars
    BY <1>2 DEF SweeperStart, SweeperTick, SweeperStop, SweepCollect, SweepDone
  <2> QED
    BY <1>0, <2>1, <2>2, DataUnchanged, StructureFromParts
<1>3. CASE Pass
  <2>1. ticker' \in [phase : Nat, unread : 0..1]
    <3>1. ticker \in [phase : Nat, unread : 0..1]
      BY <1>0 DEF ControlOK
    <3>2. \/ ticker' = ticker
          \/ ticker' = [phase |-> 0, unread |-> 1]
          \/ ticker' = [ticker EXCEPT !.phase = @ + 1]
      BY <1>3 DEF Pass
    <3> QED
      BY <3>1, <3>2
  <2>2. ControlOK'
    BY <1>0, <1>3, <2>1 DEF ControlOK, Pass, callVars
  <2> QED
    BY <1>0, <1>3, <2>2, PassEffect, StructureFromParts
<1> QED
  BY <1>1, <1>2, <1>3

LEMMA StructureStep == Structure /\ [Next]_vars => Structure'
<1> SUFFICES ASSUME Structure, [Next]_vars PROVE Structure'
  OBVIOUS
<1>1. CASE Next
  BY <1>1, NextActions, GetKeepsStructure, SetKeepsStructure,
     DeleteClearCloseKeepStructure, SweepAndPassKeepStructure
<1>2. CASE UNCHANGED vars
  BY <1>2 DEF vars, Structure, TypeOK, ListMatchesMap, CachedKeys
<1> QED
  BY <1>1, <1>2

(***************************************************************************)
(* The lock, the keys the sweep has collected, and the number of items.    *)
(***************************************************************************)
LEMMA LockStep ==
  ASSUME ControlOK, LockExclusive, Next
  PROVE  LockExclusive'
<1>1. CASE \E p \in Procs, k \in Keys, f \in Flags : SetNew(p, k, f)
  BY <1>1 DEF ControlOK, LockExclusive, LockFree, SetNew, Goto, sweepVars
<1>2. CASE SweepCollect
  BY <1>2 DEF LockExclusive, LockFree, SweepCollect, callVars
<1>3. ASSUME /\ ~\E p \in Procs, k \in Keys, f \in Flags : SetNew(p, k, f)
             /\ ~SweepCollect
      PROVE  /\ \A p \in Procs : pc'[p] = "evict" => pc[p] = "evict"
             /\ sweeper' = "removing" => sweeper = "removing"
  BY <1>3, NextActions
     DEF ControlOK, GetExpired, GetHit, Delete, SetExisting, RemoveExpired, Touch, Evict,
         EvictDone, Clear, Close, SweepRemove, SweeperStart, SweeperTick, SweeperStop,
         SweepDone, Pass, Return, Goto, callVars, sweepVars
<1> QED
  BY <1>1, <1>2, <1>3 DEF LockExclusive

\* While the sweep holds the lock only it and the clock touch the items.
LEMMA DoomedStep ==
  ASSUME Structure, LockExclusive, DoomedExpired, Next
  PROVE  DoomedExpired'
<1>0. DataOK /\ ControlOK /\ ListMatchesMap
  BY TypeParts DEF Structure
<1>1. CASE SweepCollect
  BY <1>1 DEF SweepCollect, DoomedExpired, Expired, cacheVars
<1>2. CASE \E k \in Keys : SweepRemove(k)
  <2>1. PICK k \in Keys : SweepRemove(k)
    BY <1>2
  <2>2. sweeper = "removing" /\ doomed' = doomed \ {k}
    BY <2>1 DEF SweepRemove
  <2>3. \A j \in doomed' : Expired(j) /\ items'[j] = items[j]
    BY <1>0, <2>1, <2>2, SweepRemoveEffect DEF DoomedExpired, ControlOK
  <2> QED
    BY <2>3 DEF DoomedExpired, Expired
<1>3. CASE Pass
  <2>1. doomed' = doomed /\ sweeper' = sweeper
    BY <1>3 DEF Pass
  <2>2. doomed \in SUBSET Keys
    BY <1>0 DEF ControlOK
  <2> QED
    BY <1>0, <1>3, <2>1, <2>2, PassEffect DEF DoomedExpired
<1>4. CASE \E p \in Procs : Close(p)
  BY <1>4 DEF Close, cacheVars, DoomedExpired, Expired
<1>5. ASSUME ~SweepCollect, ~\E k \in Keys : SweepRemove(k), ~Pass,
             ~\E p \in Procs : Close(p)
      PROVE  sweeper' # "removing"
  BY <1>5, NextActions
     DEF LockExclusive, LockFree, GetExpired, GetHit, Delete, SetExisting, SetNew,
         RemoveExpired, Touch, Evict, EvictDone, Clear, SweeperStart, SweeperTick,
         SweeperStop, SweepDone, sweepVars
<1> QED
  BY <1>1, <1>2, <1>3, <1>4, <1>5 DEF DoomedExpired

\* The bound survives every step that adds no key and starts or ends no eviction.
LEMMA NoGrowth ==
  ASSUME CapacityInv, CachedKeys' \in SUBSET CachedKeys,
         (\E p \in Procs : pc[p] = "evict") <=> (\E p \in Procs : pc'[p] = "evict")
  PROVE  CapacityInv'
<1>1. IsFiniteSet(CachedKeys)
  BY DEF CapacityInv
<1>2. IsFiniteSet(CachedKeys') /\ Cardinality(CachedKeys') <= Cardinality(CachedKeys)
  BY <1>1, FS_Subset
<1>3. Cardinality(CachedKeys) \in Nat /\ Cardinality(CachedKeys') \in Nat
  BY <1>1, <1>2, FS_CardinalityType
<1> QED
  BY <1>2, <1>3, MaxSizeAssumption DEF CapacityInv, CapacityRespected

LEMMA CapacityStep ==
  ASSUME Structure, LockExclusive, CapacityInv, Next
  PROVE  CapacityInv'
<1>0. DataOK /\ ControlOK /\ ListMatchesMap
  BY TypeParts DEF Structure
<1>1. CASE \E p \in Procs, k \in Keys, f \in Flags : SetNew(p, k, f)
  <2>1. PICK p \in Procs, k \in Keys, f \in Flags : SetNew(p, k, f)
    BY <1>1
  <2>2. CachedKeys' = CachedKeys \cup {k}
    BY <1>0, <2>1, SetEffect
  <2>3. IsFiniteSet(CachedKeys) /\ Cardinality(CachedKeys) \in Nat
    BY FS_CardinalityType DEF CapacityInv
  <2>4. /\ IsFiniteSet(CachedKeys')
        /\ Cardinality(CachedKeys') \in Nat
        /\ Cardinality(CachedKeys') <= Cardinality(CachedKeys) + 1
    <3>1. IsFiniteSet(CachedKeys')
      BY <2>2, <2>3, FS_AddElement
    <3>2. Cardinality(CachedKeys') = IF k \in CachedKeys THEN Cardinality(CachedKeys)
                                                         ELSE Cardinality(CachedKeys) + 1
      BY <2>2, <2>3, FS_AddElement
    <3> QED
      BY <2>3, <3>1, <3>2
  <2>5. MaxSize > 0 => Cardinality(CachedKeys) <= MaxSize
    BY <2>1 DEF SetNew, LockFree, CapacityInv, CapacityRespected
  <2>6. pc'[p] = "evict"
    BY <1>0, <2>1 DEF SetNew, Goto, ControlOK
  <2> QED
    BY <2>3, <2>4, <2>5, <2>6, MaxSizeAssumption DEF CapacityInv, CapacityRespected
<1>2. CASE \E p \in Procs : EvictDone(p)
  <2>1. PICK p \in Procs : EvictDone(p)
    BY <1>2
  <2>2. CachedKeys' = CachedKeys /\ ~OverCapacity
    BY <1>0, <2>1, DataUnchanged DEF EvictDone
  <2>3. IsFiniteSet(CachedKeys) /\ Cardinality(CachedKeys) \in Nat
    BY FS_CardinalityType DEF CapacityInv
  <2> QED
    BY <2>2, <2>3, MaxSizeAssumption DEF CapacityInv, CapacityRespected, OverCapacity
<1>3. ASSUME ~\E p \in Procs, k \in Keys, f \in Flags : SetNew(p, k, f),
             ~\E p \in Procs : EvictDone(p)
      PROVE  \A p \in Procs : pc[p] = "evict" <=> pc'[p] = "evict"
  BY <1>0, <1>3, NextActions
     DEF ControlOK, GetExpired, GetHit, Delete, SetExisting, RemoveExpired, Touch, Evict,
         Clear, Close, SweepRemove, SweeperStart, SweeperTick, SweeperStop, SweepCollect,
         SweepDone, Pass, Return, Goto, callVars
<1>4. ASSUME ~\E p \in Procs, k \in Keys, f \in Flags : SetNew(p, k, f)
      PROVE  CachedKeys' \in SUBSET CachedKeys
  <2>1. CASE UNCHANGED cacheVars
    BY <1>0, <2>1, DataUnchanged
  <2>2. CASE \E p \in Procs, k \in Keys : Delete(p, k)
    BY <1>0, <2>2, DeleteEffect
  <2>3. CASE \E p \in Procs, k \in Keys, f \in Flags : SetExisting(p, k, f)
    BY <1>0, <2>3, SetEffect
  <2>4. CASE \E p \in Procs : RemoveExpired(p) \/ Touch(p) \/ Evict(p) \/ Clear(p)
    <3>1. PICK p \in Procs : RemoveExpired(p) \/ Touch(p) \/ Evict(p) \/ Clear(p)
      BY <2>4
    <3>2. CASE RemoveExpired(p) /\ ~UNCHANGED cacheVars
      <4>1. key[p] \in Keys /\ items[key[p]] # NoItem /\ RemoveItem(key[p])
        BY <1>0, <3>2 DEF RemoveExpired, Expired, ControlOK
      <4> QED
        BY <1>0, <4>1, RemoveItemKeeps
    <3>3. CASE Touch(p)
      BY <3>3 DEF Touch, CachedKeys
    <3>4. CASE Evict(p)
      BY <1>0, <3>4, SetEffect
    <3>5. CASE Clear(p)
      BY <1>0, <3>5, ClearEffect
    <3> QED
      BY <2>1, <3>1, <3>2, <3>3, <3>4, <3>5
  <2>5. CASE \E k \in Keys : SweepRemove(k)
    BY <1>0, <2>5, SweepRemoveEffect
  <2>6. CASE Pass
    BY <1>0, <2>6, PassEffect
  <2> QED
    BY <1>4, <2>1, <2>2, <2>3, <2>4, <2>5, <2>6, NextActions
       DEF GetExpired, GetHit, EvictDone, Close, SweeperStart, SweeperTick, SweeperStop,
           SweepCollect, SweepDone
<1> QED
  BY <1>1, <1>2, <1>3, <1>4, NoGrowth

(***************************************************************************)
(* The theorems.                                                           *)
(***************************************************************************)
LEMMA InitIInv == Init => IInv
<1> SUFFICES ASSUME Init PROVE IInv
  OBVIOUS
<1>1. Structure
  BY InitStructure
<1>2. \A p \in Procs : pc[p] = "idle"
  BY DEF Init
<1>3. sweeper # "removing"
  BY DEF Init
<1>4. CachedKeys = {}
  BY DEF Init, CachedKeys
<1>5. CapacityInv
  BY <1>4, FS_EmptySet, MaxSizeAssumption DEF CapacityInv, CapacityRespected
<1> QED
  BY <1>1, <1>2, <1>3, <1>5 DEF IInv, LockExclusive, DoomedExpired

LEMMA StepIInv == IInv /\ [Next]_vars => IInv'
<1> SUFFICES ASSUME IInv, [Next]_vars PROVE IInv'
  OBVIOUS
<1>1. Structure'
  BY StructureStep DEF IInv
<1>2. CASE Next
  BY <1>1, <1>2, TypeParts, LockStep, DoomedStep, CapacityStep DEF IInv, Structure
<1>3. CASE UNCHANGED vars
  BY <1>1, <1>3
     DEF vars, IInv, LockExclusive, DoomedExpired, Expired, CapacityInv, CapacityRespected,
         CachedKeys
<1> QED
  BY <1>2, <1>3

LEMMA Invariance == Spec => []IInv
BY InitIInv, StepIInv, PTL DEF Spec

\* Every variable of the cache keeps its type.
THEOREM TypeCorrect == Spec => []TypeOK
<1>1. IInv => TypeOK
  BY DEF IInv, Structure
<1> QED
  BY <1>1, Invariance, PTL

\* Whatever calls overlap, the map and the LRU list describe the same items, so
\* the eviction loop always finds an item behind the last element of the list.
THEOREM ListMapCorrect == Spec => []ListMatchesMap
<1>1. IInv => ListMatchesMap
  BY DEF IInv, Structure
<1> QED
  BY <1>1, Invariance, PTL

\* The cache never holds more than maxSize items, the one being inserted aside.
THEOREM CapacityCorrect == Spec => []CapacityRespected
<1>1. IInv => CapacityRespected
  BY DEF IInv, CapacityInv
<1> QED
  BY <1>1, Invariance, PTL

\* Neither the second half of Get nor the sweep removes a valid item.
THEOREM ExpiryCorrect == Spec => ExpiryDropsOnlyExpired
<1> DEFINE Dropped(k) == /\ items[k] # NoItem
                         /\ items'[k] = NoItem
                         /\ \/ \E p \in Procs : pc[p] = "expire" /\ pc'[p] = "idle"
                            \/ sweeper = "removing"
           A == \A k \in Keys : Dropped(k) => Expired(k)
<1>1. IInv /\ [Next]_vars => [A]_vars
  <2> SUFFICES ASSUME IInv, Next, NEW k \in Keys, Dropped(k)
               PROVE  Expired(k)
    BY DEF vars
  <2>0. DataOK /\ ControlOK /\ ListMatchesMap /\ LockExclusive /\ DoomedExpired
    BY TypeParts DEF IInv, Structure
  <2>1. CASE \E p \in Procs : RemoveExpired(p)
    <3>1. PICK p \in Procs : RemoveExpired(p)
      BY <2>1
    <3>2. CASE Expired(key[p])
      <4>1. items' = [items EXCEPT ![key[p]] = NoItem]
        BY <3>1, <3>2 DEF RemoveExpired, RemoveItem
      <4>2. k = key[p]
        BY <2>0, <4>1 DEF DataOK
      <4> QED
        BY <3>2, <4>2
    <3>3. CASE ~Expired(key[p])
      BY <3>1, <3>3 DEF RemoveExpired, cacheVars
    <3> QED
      BY <3>2, <3>3
  <2>2. CASE \E j \in Keys : SweepRemove(j)
    <3>1. PICK j \in Keys : SweepRemove(j)
      BY <2>2
    <3>2. k = j
      BY <2>0, <3>1, SweepRemoveEffect
    <3> QED
      BY <2>0, <3>1, <3>2 DEF SweepRemove, DoomedExpired
  <2>3. CASE Pass
    BY <2>0, <2>3, PassEffect DEF CachedKeys
  <2>4. ASSUME ~\E p \in Procs : RemoveExpired(p),
               ~\E j \in Keys : SweepRemove(j), ~Pass
        PROVE  UNCHANGED items
    <3>1. sweeper # "removing" => \E p \in Procs : pc[p] = "expire" /\ pc'[p] = "idle"
      OBVIOUS
    <3> QED
      BY <2>0, <2>4, <3>1, NextActions
         DEF ControlOK, LockExclusive, LockFree, GetExpired, GetHit, Delete, SetExisting,
             SetNew, Touch, Evict, EvictDone, Clear, Close, SweeperStart, SweeperTick,
             SweeperStop, SweepCollect, SweepDone, Goto, Return, callVars, cacheVars
  <2> QED
    BY <2>1, <2>2, <2>3, <2>4
<1>2. [][A]_vars => ExpiryDropsOnlyExpired
  BY DEF ExpiryDropsOnlyExpired
<1> QED
  BY <1>1, <1>2, Invariance, PTL DEF Spec
=============================================================================
