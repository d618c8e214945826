---------------------------- MODULE LRURefinement ----------------------------
(***************************************************************************)
(* The concurrent cache of cache/cache.go implements the sequential LRU    *)
(* cache of LRUSpec: every step of a goroutine, of the sweep or of the     *)
(* clock is one operation of that cache, or leaves it as it is.            *)
(***************************************************************************)
EXTENDS LRUCacheProofs, FunctionTheorems

(***************************************************************************)
(* The operators of LRUSpec are those of the community modules.            *)
(***************************************************************************)
LEMMA SameRemoveFirst == \A s, e : LRU!RemoveFirst(s, e) = RemoveFirst(s, e)
BY DEF LRU!RemoveFirst, LRU!RemoveAt, LRU!SelectInSeq, LRU!Min,
       RemoveFirst, RemoveAt, SelectInSeq, Min

LEMMA SameCons == \A s, e : LRU!Cons(e, s) = Cons(e, s)
BY DEF LRU!Cons, Cons

(***************************************************************************)
(* The abstract cache.                                                     *)
(***************************************************************************)

\* The whole list shows: nobody is in the eviction loop.
Settled == KeptLen = Len(lruList)

Consistent == DataOK /\ ListMatchesMap

\* The order of the abstract cache: the keys of the places that are kept.
OrderFacts ==
  /\ Len(lruList) \in Nat /\ KeptLen \in 0..Len(lruList)
  /\ MaxSize > 0 => KeptLen <= MaxSize
  /\ Order \in Seq(Keys)
  /\ Len(Order) = KeptLen
  /\ \A i \in 1..KeptLen : Order[i] = lruList[i].key /\ Order[i] \in Keys
  /\ \A i, j \in 1..KeptLen : Order[i] = Order[j] => i = j
  /\ Value = [k \in Keys |-> IF LRU!Contains(Order, k) THEN items[k].flag ELSE NoItem]

LEMMA OrderIsList == Consistent => OrderFacts
<1> SUFFICES ASSUME Consistent PROVE OrderFacts
  OBVIOUS
<1>1. lruList \in Seq(Elements) /\ Len(lruList) \in Nat
  BY DEF Consistent, DataOK
<1>2. KeptLen \in 0..Len(lruList) /\ (MaxSize > 0 => KeptLen <= MaxSize)
  BY <1>1, MaxSizeAssumption DEF KeptLen
<1>3. \A i \in 1..KeptLen : i \in 1..Len(lruList) /\ Order[i] = lruList[i].key /\ Order[i] \in Keys
  BY <1>1, <1>2, ListedElement DEF Order
<1>4. Order \in Seq(Keys) /\ Len(Order) = KeptLen
  BY <1>2, <1>3 DEF Order
<1>5. Value = [k \in Keys |-> IF LRU!Contains(Order, k) THEN items[k].flag ELSE NoItem]
  BY <1>3, <1>4 DEF Value, LRU!Contains
<1> QED
  BY <1>1, <1>2, <1>3, <1>4, <1>5 DEF Consistent, ListMatchesMap, OrderFacts

\* When nobody evicts, the abstract cache answers what the map holds.
ValueFacts ==
  /\ Value = [k \in Keys |-> IF items[k] # NoItem THEN items[k].flag ELSE NoItem]
  /\ \A k \in Keys : /\ Value[k] # NoItem <=> items[k] # NoItem
                     /\ items[k] # NoItem <=> \E i \in 1..KeptLen : Order[i] = k

LEMMA ValueIsMap == Consistent /\ Settled => ValueFacts
<1> SUFFICES ASSUME Consistent, Settled PROVE ValueFacts
  OBVIOUS
<1>1. \A k \in Keys : items[k] # NoItem <=> \E i \in 1..Len(lruList) : lruList[i].key = k
  BY DEF Consistent, ListMatchesMap, CachedKeys
<1>2. \A k \in Keys : items[k] # NoItem => items[k].flag # NoItem
  BY NoItemAssumption DEF Consistent, DataOK, Items
<1>3. OrderFacts
  BY OrderIsList
<1> QED
  BY <1>1, <1>2, <1>3 DEF Value, Settled, ValueFacts, OrderFacts

\* Both hold after a step as well.
LEMMA FactsAfter ==
  /\ Consistent' => OrderFacts'
  /\ Consistent' /\ Settled' => ValueFacts'
BY OrderIsList, ValueIsMap, PTL

\* The list has an element for every cached key.
LEMMA OneElementEach ==
  ASSUME Consistent
  PROVE  Cardinality(CachedKeys) = Len(lruList)
<1> DEFINE place == [i \in 1..Len(lruList) |-> lruList[i].key]
<1>1. lruList \in Seq(Elements) /\ Len(lruList) \in Nat
  BY DEF Consistent, DataOK
<1>2. place \in [1..Len(lruList) -> CachedKeys]
  BY <1>1, ListedElement DEF Consistent, ListMatchesMap, CachedKeys
<1>3. \A i, j \in 1..Len(lruList) : place[i] = place[j] => i = j
  BY DEF Consistent, ListMatchesMap
<1>4. \A k \in CachedKeys : \E i \in 1..Len(lruList) : place[i] = k
  BY DEF Consistent, ListMatchesMap
<1> HIDE DEF place
<1>5. place \in Bijection(1..Len(lruList), CachedKeys)
  BY <1>2, <1>3, <1>4, Fun_IsBij
<1> QED
  BY ONLY <1>1, <1>5, FS_CountingElements DEF ExistsBijection

LEMMA SettledWhenFree ==
  ASSUME Consistent, CapacityInv, ~\E p \in Procs : pc[p] = "evict"
  PROVE  Settled
<1>1. MaxSize > 0 => Len(lruList) <= MaxSize
  BY OneElementEach DEF CapacityInv, CapacityRespected
<1>2. Len(lruList) \in Nat
  BY DEF Consistent, DataOK
<1> QED
  BY <1>1, <1>2, MaxSizeAssumption DEF Settled, KeptLen

\* A list that has not grown past its bound, or has a shorter one, is settled.
LEMMA SettledAfter ==
  ASSUME Settled, Len(lruList) \in Nat, Len(lruList') \in 0..Len(lruList)
  PROVE  Settled'
BY MaxSizeAssumption DEF Settled, KeptLen

(***************************************************************************)
(* The steps that change the abstract cache.                               *)
(***************************************************************************)

\* removeItem forgets one key.
LEMMA RemoveItemDrops ==
  ASSUME Consistent, Settled, NEW k \in Keys, items[k] # NoItem, RemoveItem(k)
  PROVE  LRU!Drop(k)
<1>1. Consistent'
  BY RemoveItemKeeps DEF Consistent
<1>2. PICK n \in 1..Len(lruList) : lruList[n] = Element(k, items[k].id)
  BY ElementPlace DEF Consistent
<1>3. lruList \in Seq(Elements) /\ Len(lruList) \in Nat
  BY DEF Consistent, DataOK
<1>4. lruList' = RemoveAt(lruList, n)
  BY <1>2, <1>3, ElementPlace, RemoveFirstIsRemoveAt DEF RemoveItem, Consistent
<1>5. Without(lruList', lruList, n)
  BY <1>3, <1>4, RemoveAtTakesOut
<1>6. OrderFacts /\ ValueFacts /\ KeptLen = Len(lruList)
  BY OrderIsList, ValueIsMap DEF Settled
<1>7. Settled'
  BY <1>3, <1>5, SettledAfter DEF Without
<1>8. OrderFacts' /\ ValueFacts' /\ KeptLen' = Len(lruList')
  BY <1>1, <1>7, FactsAfter DEF Settled
<1>9. Order[n] = k
  BY <1>2, <1>6 DEF OrderFacts, Element
<1>10. LRU!RemoveFirst(Order, k) = RemoveAt(Order, n)
  BY <1>6, <1>9, SameRemoveFirst, RemoveFirstIsRemoveAt DEF OrderFacts
<1>11. RemoveAt(Order, n) \in Seq(Keys) /\ Without(RemoveAt(Order, n), Order, n)
  <2>1. Order \in Seq(Keys) /\ n \in 1..Len(Order)
    BY <1>6 DEF OrderFacts
  <2> QED
    BY ONLY <2>1, RemoveAtTakesOut
<1>12. ASSUME NEW i \in 1..(Len(lruList) - 1)
       PROVE  Order'[i] = RemoveAt(Order, n)[i]
  <2>1. i \in 1..KeptLen' /\ i \in 1..KeptLen /\ i + 1 \in 1..KeptLen
    BY <1>3, <1>5, <1>6, <1>8 DEF Without
  <2>2. /\ Order'[i] = lruList'[i].key
        /\ Order[i] = lruList[i].key
        /\ Order[i + 1] = lruList[i + 1].key
    BY <1>6, <1>8, <2>1 DEF OrderFacts
  <2>3. lruList'[i] = IF i < n THEN lruList[i] ELSE lruList[i + 1]
    BY <1>5 DEF Without
  <2>4. RemoveAt(Order, n)[i] = IF i < n THEN Order[i] ELSE Order[i + 1]
    BY <1>6, <1>11 DEF Without, OrderFacts
  <2> QED
    BY <2>2, <2>3, <2>4
<1>13. Order' = LRU!RemoveFirst(Order, k)
  <2>1. Order' \in Seq(Keys) /\ Len(Order') = Len(lruList) - 1
    BY <1>5, <1>8 DEF OrderFacts, Without
  <2>2. Len(RemoveAt(Order, n)) = Len(lruList) - 1
    BY <1>6, <1>11 DEF OrderFacts, Without
  <2>3. Order' = RemoveAt(Order, n)
    BY <1>11, <1>12, <2>1, <2>2, SeqEqual
  <2> QED
    BY <1>10, <2>3
<1>14. Value' = [Value EXCEPT ![k] = NoItem]
  BY <1>6, <1>8 DEF ValueFacts, RemoveItem, Consistent, DataOK
<1> QED
  BY <1>6, <1>13, <1>14 DEF LRU!Drop, ValueFacts

\* Two maps with the same flags behind the same settled list show the same value.
LEMMA SameValue ==
  ASSUME ValueFacts, ValueFacts',
         \A k \in Keys : /\ items'[k] # NoItem <=> items[k] # NoItem
                         /\ items[k] # NoItem => items'[k].flag = items[k].flag
  PROVE  Value' = Value
BY DEF ValueFacts

\* Moving the element of a cached key to the front promotes the key.
LEMMA MoveToFrontPromotes ==
  ASSUME Consistent, Settled, SameItems, NEW k \in Keys, items[k] # NoItem,
         lruList' = MoveToFront(lruList, Element(k, items[k].id))
  PROVE  /\ Order' = LRU!Promoted(k)
         /\ Consistent' /\ Settled'
         /\ Len(Order') = Len(Order)
<1> DEFINE e == Element(k, items[k].id)
<1>1. Consistent'
  BY MoveToFrontKeeps DEF Consistent
<1>2. PICK n \in 1..Len(lruList) : lruList[n] = e
  BY ElementPlace DEF Consistent
<1>3. lruList \in Seq(Elements) /\ Len(lruList) \in Nat /\ e \in Elements /\ e.key = k
  BY CachedItem DEF Consistent, DataOK, Element
<1>4. lruList' = Cons(e, RemoveAt(lruList, n))
  BY <1>2, <1>3, ElementPlace, RemoveFirstIsRemoveAt DEF MoveToFront, Consistent
<1> HIDE DEF e
<1>5. lruList \in Seq(Elements) /\ e \in Elements /\ n \in 1..Len(lruList)
  BY <1>3
<1>6. Promotion(lruList', lruList, n, e)
  BY ONLY <1>4, <1>5, ConsRemoveAtPromotes
<1>7. OrderFacts /\ KeptLen = Len(lruList)
  BY OrderIsList DEF Settled
<1>8. Settled'
  BY <1>3, <1>6, SettledAfter DEF Promotion
<1>9. OrderFacts' /\ KeptLen' = Len(lruList)
  BY <1>1, <1>6, <1>8, FactsAfter DEF Settled, Promotion
<1>10. Order[n] = k
  BY <1>2, <1>3, <1>7 DEF OrderFacts
<1>11. LRU!Promoted(k) = Cons(k, RemoveAt(Order, n))
  <2>1. RemoveFirst(Order, k) = RemoveAt(Order, n)
    BY <1>7, <1>10, RemoveFirstIsRemoveAt DEF OrderFacts
  <2> QED
    BY <2>1, SameRemoveFirst, SameCons DEF LRU!Promoted
<1>12. Order \in Seq(Keys) /\ n \in 1..Len(Order) /\ Len(Order) = Len(lruList)
  BY <1>7 DEF OrderFacts
<1>13. LRU!Promoted(k) \in Seq(Keys) /\ Promotion(LRU!Promoted(k), Order, n, k)
  BY <1>11, <1>12, ConsRemoveAtPromotes
<1>14. ASSUME NEW i \in 1..Len(lruList)
       PROVE  Order'[i] = LRU!Promoted(k)[i]
  <2>0. Order'[i] = lruList'[i].key
    BY <1>9 DEF OrderFacts
  <2>1. CASE i = 1
    BY <1>3, <1>6, <1>13, <2>0, <2>1 DEF Promotion
  <2>2. CASE i # 1
    <3>1. i \in 2..Len(lruList) /\ i - 1 \in 1..Len(lruList)
      BY <1>3, <2>2
    <3>2. Order[i] = lruList[i].key /\ Order[i - 1] = lruList[i - 1].key
      BY <1>3, <1>7, <3>1 DEF OrderFacts
    <3> QED
      BY <1>6, <1>12, <1>13, <2>0, <3>1, <3>2 DEF Promotion
  <2> QED
    BY <2>1, <2>2
<1>15. Order' \in Seq(Keys) /\ Len(Order') = Len(lruList)
  BY <1>9 DEF OrderFacts
<1>16. Order' = LRU!Promoted(k)
  BY <1>12, <1>13, <1>14, <1>15, SeqEqual DEF Promotion
<1> QED
  BY <1>1, <1>7, <1>8, <1>15, <1>16 DEF OrderFacts

\* A hit that is still current makes its key the most recently used one.
LEMMA TouchTouches ==
  ASSUME Consistent, ControlOK, Settled, NEW p \in Procs, Touch(p), ~UNCHANGED lruList
  PROVE  \E k \in Keys : LRU!Touch(k)
<1> DEFINE k == key[p]
<1>1. k \in Keys /\ items[k] # NoItem /\ items' = items
  BY DEF Touch, ControlOK
<1>2. lruList' = MoveToFront(lruList, Element(k, items[k].id))
  BY DEF Touch
<1>3. SameItems
  BY <1>1 DEF SameItems, Consistent, DataOK
<1>4. Order' = LRU!Promoted(k) /\ Consistent' /\ Settled'
  BY <1>1, <1>2, <1>3, MoveToFrontPromotes
<1>5. ValueFacts /\ ValueFacts'
  BY <1>4, ValueIsMap, FactsAfter
<1>6. Value' = Value /\ Value[k] # NoItem
  BY <1>1, <1>5, SameValue DEF ValueFacts
<1> QED
  BY <1>1, <1>4, <1>6 DEF LRU!Touch

\* A step stores f under k if it leaves the other flags alone and brings no
\* other key into the order.
LEMMA StoreFromOrder ==
  ASSUME OrderFacts, OrderFacts', NEW k \in Keys, NEW f \in Flags,
         Order' = LRU!Kept(LRU!Promoted(k)),
         LRU!Contains(Order', k),
         items'[k].flag = f,
         \A j \in Keys \ {k} : /\ items'[j] = items[j]
                               /\ LRU!Contains(Order', j) => LRU!Contains(Order, j)
  PROVE  LRU!Store(k, f)
<1>1. /\ Value = [j \in Keys |-> IF LRU!Contains(Order, j) THEN items[j].flag ELSE NoItem]
      /\ Value' = [j \in Keys |-> IF LRU!Contains(Order', j) THEN items'[j].flag ELSE NoItem]
  BY DEF OrderFacts
<1>2. \A j \in Keys : Value'[j] = CASE j = k -> f
                                    [] j # k /\ LRU!Contains(Order', j) -> Value[j]
                                    [] OTHER -> NoItem
  BY <1>1
<1>3. Value' = [j \in Keys |-> CASE j = k -> f
                                 [] j # k /\ LRU!Contains(Order', j) -> Value[j]
                                 [] OTHER -> NoItem]
  BY <1>1, <1>2
<1> QED
  BY <1>3 DEF LRU!Store

\* Writing a cached key stores it: an update counts as a use.
LEMMA SetExistingStores ==
  ASSUME Consistent, Settled, ControlOK,
         NEW p \in Procs, NEW k \in Keys, NEW f \in Flags, SetExisting(p, k, f)
  PROVE  LRU!Store(k, f)
<1> DEFINE it == [id |-> items[k].id, flag |-> f, left |-> TTL]
<1>1. items[k] # NoItem /\ items' = [items EXCEPT ![k] = it]
  BY DEF SetExisting
<1>2. it \in Items
  BY <1>1, CachedItem, TTLAssumption DEF Items, Consistent
<1>3. SameItems
  BY <1>1, <1>2, ItemIsNotNil DEF SameItems, Consistent, DataOK
<1>4. lruList' = MoveToFront(lruList, Element(k, items[k].id))
  BY DEF SetExisting
<1>5. /\ Order' = LRU!Promoted(k)
      /\ Consistent' /\ Settled'
      /\ Len(Order') = Len(Order)
  BY <1>1, <1>3, <1>4, MoveToFrontPromotes
<1>6. OrderFacts /\ OrderFacts' /\ ValueFacts /\ ValueFacts'
  BY <1>5, OrderIsList, ValueIsMap, FactsAfter
<1>7. LRU!Kept(Order') = Order'
  BY <1>5, <1>6, MaxSizeAssumption DEF OrderFacts, LRU!Kept
<1>8. items'[k].flag = f /\ \A j \in Keys \ {k} : items'[j] = items[j]
  BY <1>1 DEF Consistent, DataOK
<1>9. \A j \in Keys : LRU!Contains(Order', j) <=> LRU!Contains(Order, j)
  BY <1>3, <1>6 DEF ValueFacts, OrderFacts, SameItems, LRU!Contains
<1>10. LRU!Contains(Order, k)
  BY <1>1, <1>6 DEF ValueFacts, OrderFacts, LRU!Contains
<1> QED
  BY <1>5, <1>6, <1>7, <1>8, <1>9, <1>10, StoreFromOrder

\* Writing a new key stores it and forgets what no longer fits, before the
\* eviction loop has removed anything.
LEMMA SetNewStores ==
  ASSUME Consistent, Settled, ControlOK,
         NEW p \in Procs, NEW k \in Keys, NEW f \in Flags, SetNew(p, k, f)
  PROVE  LRU!Store(k, f)
<1> DEFINE id == FreshId(k)
           e == Element(k, id)
<1>1. Consistent'
  BY SetEffect DEF Consistent
<1>2. /\ items[k] = NoItem
      /\ items' = [items EXCEPT ![k] = [id |-> id, flag |-> f, left |-> TTL]]
      /\ lruList' = Cons(e, lruList)
  BY DEF SetNew
<1>3. lruList \in Seq(Elements) /\ e \in Elements /\ e.key = k
  BY FreshIdExists DEF Consistent, DataOK, Element, Elements
<1> HIDE DEF e, id
<1>4. /\ Len(lruList') = Len(lruList) + 1
      /\ lruList'[1] = e
      /\ \A i \in 2..(Len(lruList) + 1) : lruList'[i] = lruList[i - 1]
  <2>1. InFront(lruList', lruList, e)
    BY ONLY <1>2, <1>3, ConsPutsInFront
  <2> QED
    BY <2>1 DEF InFront
<1>5. OrderFacts /\ ValueFacts /\ OrderFacts' /\ KeptLen = Len(lruList)
  BY <1>1, OrderIsList, ValueIsMap, FactsAfter DEF Settled
<1>6. /\ KeptLen' \in 1..(Len(lruList) + 1)
      /\ KeptLen' = IF MaxSize > 0 /\ Len(lruList) + 1 > MaxSize THEN MaxSize
                                                                 ELSE Len(lruList) + 1
  BY <1>4, <1>5, MaxSizeAssumption DEF KeptLen, OrderFacts
<1>7. Order \in Seq(Keys) /\ Len(Order) = Len(lruList) /\ Len(lruList) \in Nat
  BY <1>5 DEF OrderFacts
<1>8. /\ Cons(k, Order) \in Seq(Keys)
      /\ Len(Cons(k, Order)) = Len(Order) + 1
      /\ Cons(k, Order)[1] = k
      /\ \A i \in 2..(Len(Order) + 1) : Cons(k, Order)[i] = Order[i - 1]
  <2>1. k \in Keys
    OBVIOUS
  <2>2. Cons(k, Order) \in Seq(Keys) /\ InFront(Cons(k, Order), Order, k)
    BY ONLY <1>7, <2>1, ConsPutsInFront
  <2> QED
    BY <2>2 DEF InFront
<1>9. LRU!Promoted(k) = Cons(k, Order)
  <2>1. ~\E i \in 1..Len(Order) : Order[i] = k
    BY <1>2, <1>5, <1>7 DEF ValueFacts
  <2>2. LRU!RemoveFirst(Order, k) = Order
    BY <2>1, SameRemoveFirst DEF RemoveFirst
  <2> QED
    BY <2>2, SameCons DEF LRU!Promoted
<1>10. /\ Order'[1] = k
       /\ \A i \in 2..KeptLen' : i - 1 \in 1..KeptLen /\ Order'[i] = Order[i - 1]
  <2>1. Order'[1] = k
    BY <1>3, <1>4, <1>5, <1>6 DEF OrderFacts
  <2>2. ASSUME NEW i \in 2..KeptLen'
        PROVE  i - 1 \in 1..KeptLen /\ Order'[i] = Order[i - 1]
    <3>1. /\ i \in 1..KeptLen' /\ i \in 2..(Len(lruList) + 1)
          /\ i - 1 \in 1..KeptLen
      BY <1>5, <1>6, <1>7
    <3>2. Order'[i] = lruList'[i].key /\ Order[i - 1] = lruList[i - 1].key
      BY <1>5, <3>1 DEF OrderFacts
    <3> QED
      BY <1>4, <3>1, <3>2
  <2> QED
    BY <2>1, <2>2
<1>11. Order' = LRU!Kept(Cons(k, Order))
  <2> DEFINE kept == LRU!Kept(Cons(k, Order))
  <2>1. /\ kept \in Seq(Keys) /\ Len(kept) = KeptLen'
        /\ \A i \in 1..KeptLen' : kept[i] = Cons(k, Order)[i]
    <3>1. CASE MaxSize > 0 /\ Len(lruList) + 1 > MaxSize
      <4>1. kept = SubSeq(Cons(k, Order), 1, MaxSize) /\ KeptLen' = MaxSize
        BY <1>6, <1>7, <1>8, <3>1 DEF LRU!Kept
      <4>2. \A i \in 1..MaxSize : Cons(k, Order)[i] \in Keys
        BY <1>7, <1>8, <3>1, MaxSizeAssumption
      <4>3. MaxSize \in Nat /\ MaxSize > 0
        BY <3>1, MaxSizeAssumption
      <4>4. SubSeq(Cons(k, Order), 1, MaxSize) \in Seq(Keys)
        BY ONLY <4>2, <4>3, SubSeqProperties
      <4>5. Len(SubSeq(Cons(k, Order), 1, MaxSize)) = MaxSize
        BY ONLY <4>2, <4>3, SubSeqProperties
      <4>6. \A i \in 1..MaxSize : SubSeq(Cons(k, Order), 1, MaxSize)[i] = Cons(k, Order)[i]
        BY ONLY <4>2, <4>3, SubSeqProperties
      <4> QED
        BY <4>1, <4>4, <4>5, <4>6
    <3>2. CASE ~(MaxSize > 0 /\ Len(lruList) + 1 > MaxSize)
      BY <1>6, <1>7, <1>8, <3>2 DEF LRU!Kept
    <3> QED
      BY <3>1, <3>2
  <2> HIDE DEF kept
  <2>2. Order' \in Seq(Keys) /\ Len(Order') = KeptLen'
    BY <1>5 DEF OrderFacts
  <2>3. \A i \in 1..KeptLen' : Order'[i] = kept[i]
    BY <1>6, <1>7, <1>8, <1>10, <2>1
  <2>4. Order' = kept
    BY <2>1, <2>2, <2>3, SeqEqual
  <2> QED
    BY <2>4 DEF kept
<1>12. LRU!Contains(Order', k)
  BY <1>5, <1>6, <1>10 DEF LRU!Contains, OrderFacts
<1>13. ASSUME NEW j \in Keys \ {k}, LRU!Contains(Order', j)
       PROVE  LRU!Contains(Order, j)
  <2>1. PICK i \in 1..KeptLen' : Order'[i] = j
    BY <1>5, <1>13 DEF LRU!Contains, OrderFacts
  <2>2. i \in 2..KeptLen'
    BY <1>6, <1>7, <1>10, <2>1
  <2> QED
    BY <1>5, <1>7, <1>10, <2>1, <2>2 DEF LRU!Contains
<1>14. items'[k].flag = f /\ \A j \in Keys \ {k} : items'[j] = items[j]
  BY <1>2 DEF Consistent, DataOK
<1> QED
  BY <1>5, <1>9, <1>11, <1>12, <1>13, <1>14, StoreFromOrder

(***************************************************************************)
(* The steps that leave the abstract cache alone.                          *)
(***************************************************************************)
LEMMA SameList ==
  ASSUME OrderFacts, OrderFacts', UNCHANGED lruList,
         \A k \in Keys : LRU!Contains(Order, k) => items'[k].flag = items[k].flag
  PROVE  UNCHANGED LRU!specVars
<1>1. Order' = Order
  BY DEF Order, KeptLen
<1>2. Value' = Value
  BY <1>1 DEF OrderFacts
<1> QED
  BY <1>1, <1>2 DEF LRU!specVars

\* Evicting the last element changes nothing: it was already past the bound.
LEMMA EvictStutters ==
  ASSUME Consistent, ControlOK, CapacityInv, NEW p \in Procs, Evict(p)
  PROVE  UNCHANGED LRU!specVars
<1> DEFINE k == Last(lruList).key
<1>1. Consistent'
  BY SetEffect DEF Consistent
<1>2. OrderFacts /\ OrderFacts'
  BY <1>1, OrderIsList, FactsAfter
<1>3. CASE UNCHANGED cacheVars
  BY <1>2, <1>3, SameList DEF cacheVars
<1>4. CASE ~UNCHANGED cacheVars
  <2>1. lruList # <<>> /\ items[k] # NoItem /\ RemoveItem(k)
    BY <1>4 DEF Evict
  <2>2. lruList \in Seq(Elements) /\ Len(lruList) \in Nat
    BY DEF Consistent, DataOK
  <2>3. Len(lruList) \in 1..Len(lruList) /\ lruList[Len(lruList)].key = k /\ k \in Keys
    BY <2>1, <2>2, ListedElement DEF Last
  <2>4. MaxSize > 0 /\ Len(lruList) > MaxSize
    BY OneElementEach DEF Evict, OverCapacity
  <2>5. PICK n \in 1..Len(lruList) : lruList[n] = Element(k, items[k].id)
    BY <2>1, <2>3, ElementPlace DEF Consistent
  <2>6. n = Len(lruList)
    BY <2>3, <2>5 DEF Consistent, ListMatchesMap, Element
  <2>7. lruList' = RemoveAt(lruList, n)
    BY <2>1, <2>2, <2>3, <2>5, ElementPlace, RemoveFirstIsRemoveAt DEF RemoveItem, Consistent
  <2>8. /\ Len(lruList') = Len(lruList) - 1
        /\ \A i \in 1..(Len(lruList) - 1) :
             lruList'[i] = IF i < n THEN lruList[i] ELSE lruList[i + 1]
    <3>1. Without(lruList', lruList, n)
      BY ONLY <2>2, <2>5, <2>7, RemoveAtTakesOut
    <3> QED
      BY <3>1 DEF Without
  <2>9. KeptLen = MaxSize /\ KeptLen' = MaxSize /\ MaxSize \in 1..(Len(lruList) - 1)
    BY <2>2, <2>4, <2>8, MaxSizeAssumption DEF KeptLen
  <2>10. \A i \in 1..MaxSize : /\ lruList'[i] = lruList[i]
                               /\ i # Len(lruList) /\ i \in 1..Len(lruList)
    BY <2>2, <2>6, <2>8, <2>9
  <2>11. Order' = Order
    BY <2>9, <2>10 DEF Order
  <2>12. ~LRU!Contains(Order, k)
    <3>1. \A i \in 1..MaxSize : Order[i] # k
      BY <1>2, <2>3, <2>9, <2>10 DEF OrderFacts, Consistent, ListMatchesMap
    <3> QED
      BY <1>2, <2>9, <3>1 DEF OrderFacts, LRU!Contains
  <2>13. \A j \in Keys \ {k} : items'[j] = items[j]
    BY <2>1 DEF RemoveItem, Consistent, DataOK
  <2>14. Value' = Value
    BY <1>2, <2>11, <2>12, <2>13 DEF OrderFacts
  <2> QED
    BY <2>11, <2>14 DEF LRU!specVars
<1> QED
  BY <1>3, <1>4

\* Clear empties the abstract cache too.
LEMMA ClearClears ==
  ASSUME Consistent, NEW p \in Procs, Clear(p)
  PROVE  LRU!Clear
<1>1. lruList' = <<>> /\ Len(lruList') = 0
  BY DEF Clear
<1>2. KeptLen' = 0
  BY <1>1, MaxSizeAssumption DEF KeptLen
<1>3. Order' = <<>>
  BY <1>2 DEF Order
<1>4. Value' = [k \in Keys |-> NoItem]
  BY <1>2 DEF Value
<1> QED
  BY <1>3, <1>4 DEF LRU!Clear

\* Growing older changes no flag.
LEMMA PassStutters ==
  ASSUME Consistent, Pass
  PROVE  UNCHANGED LRU!specVars
<1>1. Consistent'
  BY PassEffect DEF Consistent
<1>2. OrderFacts /\ OrderFacts'
  BY <1>1, OrderIsList, FactsAfter
<1>3. \A k \in Keys : items'[k] = IF items[k] = NoItem THEN NoItem ELSE Aged(items[k])
  BY DEF Pass
<1>4. \A it \in Items : Aged(it).flag = it.flag
  BY DEF Items, Aged
<1>5. \A k \in Keys : items[k] # NoItem => items[k] \in Items
  BY DEF Consistent, DataOK
<1>6. \A k \in Keys : items'[k].flag = items[k].flag
  BY <1>3, <1>4, <1>5
<1> QED
  BY <1>2, <1>6, SameList DEF Pass

(***************************************************************************)
(* The refinement.                                                         *)
(***************************************************************************)
LEMMA LRUInit == Init => LRU!Init
<1> SUFFICES ASSUME Init PROVE LRU!Init
  OBVIOUS
<1>1. lruList = <<>> /\ Len(lruList) = 0
  BY DEF Init
<1>2. KeptLen = 0
  BY <1>1, MaxSizeAssumption DEF KeptLen
<1> QED
  BY <1>2 DEF LRU!Init, Order, Value

LEMMA LRUStep == IInv /\ [Next]_vars => [LRU!Next]_LRU!specVars
<1> SUFFICES ASSUME IInv, [Next]_vars PROVE LRU!Next \/ UNCHANGED LRU!specVars
  OBVIOUS
<1>1. Consistent /\ ControlOK /\ LockExclusive /\ CapacityInv
  BY TypeParts DEF IInv, Structure, Consistent
<1>2. LockFree \/ sweeper = "removing" => Settled
  BY <1>1, SettledWhenFree DEF LockFree, LockExclusive
<1>3. CASE UNCHANGED cacheVars
  <2>1. Consistent' /\ OrderFacts
    BY <1>1, <1>3, DataUnchanged, OrderIsList DEF Consistent
  <2>2. OrderFacts'
    BY <2>1, FactsAfter
  <2> QED
    BY <1>3, <2>1, <2>2, SameList DEF cacheVars
<1>4. ASSUME NEW k \in Keys, items[k] # NoItem, RemoveItem(k),
             LockFree \/ sweeper = "removing"
      PROVE  LRU!Next
  BY <1>1, <1>2, <1>4, RemoveItemDrops DEF LRU!Next
<1>5. CASE \E p \in Procs : RemoveExpired(p)
  <2>1. PICK p \in Procs : RemoveExpired(p)
    BY <1>5
  <2>2. key[p] \in Keys
    BY <1>1, <2>1 DEF RemoveExpired, ControlOK
  <2> QED
    BY <1>3, <1>4, <2>1, <2>2 DEF RemoveExpired, Expired
<1>6. CASE \E p \in Procs, k \in Keys : Delete(p, k)
  BY <1>4, <1>6 DEF Delete
<1>7. CASE \E k \in Keys : SweepRemove(k)
  BY <1>3, <1>4, <1>7 DEF SweepRemove
<1>8. CASE \E p \in Procs : Touch(p)
  <2>1. PICK p \in Procs : Touch(p)
    BY <1>8
  <2>2. Settled /\ items' = items
    BY <1>2, <2>1 DEF Touch
  <2>3. CASE UNCHANGED lruList
    BY <1>3, <2>2, <2>3 DEF cacheVars
  <2>4. CASE ~UNCHANGED lruList
    BY <1>1, <2>1, <2>2, <2>4, TouchTouches DEF LRU!Next
  <2> QED
    BY <2>3, <2>4
<1>9. CASE \E p \in Procs, k \in Keys, f \in Flags : SetExisting(p, k, f) \/ SetNew(p, k, f)
  <2>1. PICK p \in Procs, k \in Keys, f \in Flags : SetExisting(p, k, f) \/ SetNew(p, k, f)
    BY <1>9
  <2>2. Settled
    BY <1>2, <2>1 DEF SetExisting, SetNew
  <2>3. LRU!Store(k, f)
    BY <1>1, <2>1, <2>2, SetExistingStores, SetNewStores
  <2> QED
    BY <2>3 DEF LRU!Next
<1>10. CASE \E p \in Procs : Evict(p)
  BY <1>1, <1>10, EvictStutters
<1>11. CASE \E p \in Procs : Clear(p)
  BY <1>1, <1>11, ClearClears DEF LRU!Next
<1>12. CASE Pass
  BY <1>1, <1>12, PassStutters
<1>13. CASE \/ \E p \in Procs, k \in Keys : GetExpired(p, k) \/ GetHit(p, k)
            \/ \E p \in Procs : EvictDone(p) \/ Close(p)
            \/ SweeperStart \/ SweeperTick \/ SweeperStop \/ SweepCollect \/ SweepDone
            \/ UNCHANGED vars
  <2>1. UNCHANGED cacheVars
    BY <1>13 DEF GetExpired, GetHit, EvictDone, Close, SweeperStart, SweeperTick, SweeperStop,
                 SweepCollect, SweepDone, vars, cacheVars
  <2> QED
    BY <1>3, <2>1
<1> QED
  BY <1>5, <1>6, <1>7, <1>8, <1>9, <1>10, <1>11, <1>12, <1>13, NextActions

\* Every behaviour of the concurrent cache is one of the sequential LRU cache:
\* whatever the calls, the sweep and the clock interleave, an update and a hit
\* count as uses and an insertion forgets the entry used longest ago.
THEOREM RefinesLRU == Spec => ImplementsLRU
<1>1. Spec => LRU!Init /\ [][LRU!Next]_LRU!specVars
  BY LRUInit, Invariance, LRUStep, PTL DEF Spec
<1> QED
  BY <1>1 DEF ImplementsLRU, LRU!Spec
=============================================================================
