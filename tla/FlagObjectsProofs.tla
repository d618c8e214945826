-------------------------- MODULE FlagObjectsProofs --------------------------
(***************************************************************************)
(* Theorems about the structs and maps that the store, the cache and the   *)
(* application share: for any number of keys and of variables, and any     *)
(* contents of the maps.                                                   *)
(***************************************************************************)
EXTENDS FlagObjects, TLAPS

LEMMA RootNames ==
  /\ \A k \in Keys : S(k) \in Roots /\ C(k) \in Roots
  /\ \A v \in Vars : A(v) \in Roots
  /\ \A j, k \in Keys : (S(j) = S(k) => j = k) /\ (C(j) = C(k) => j = k) /\ S(j) # C(k)
  /\ \A v, w \in Vars : A(v) = A(w) => v = w
  /\ \A k \in Keys, v \in Vars : S(k) # A(v) /\ C(k) # A(v)
BY DEF Roots, S, C, A

(***************************************************************************)
(* The heap.                                                               *)
(***************************************************************************)

\* Sharing is an equivalence; the store's entries share with nobody.
Classes(class) ==
  /\ class \in [Roots -> SUBSET Roots]
  /\ \A x \in Roots : x \in class[x]
  /\ \A x, y \in Roots : y \in class[x] => class[y] = class[x]
  /\ \A k \in Keys : class[S(k)] = {S(k)}

\* A nil pointer shares nothing.
Good(h) ==
  /\ h \in Heap
  /\ Classes(h.same) /\ Classes(h.shares)
  /\ \A x \in Roots : h.val[x] = NoFlag => h.same[x] = {x} /\ h.shares[x] = {x}

Outsiders == Roots \ {S(k) : k \in Keys}

\* The store's entries are in nobody else's class.
LEMMA StoreAlone ==
  ASSUME NEW class, Classes(class), NEW x \in Outsiders, NEW k \in Keys
  PROVE  S(k) \notin class[x]
BY RootNames DEF Classes, Outsiders

LEMMA FreshClasses ==
  ASSUME NEW class, Classes(class), NEW R
  PROVE  Classes(Apart(class, R))
<1> DEFINE new == Apart(class, R)
<1>1. /\ class \in [Roots -> SUBSET Roots] /\ \A x \in Roots : x \in class[x]
      /\ \A x, y \in Roots : y \in class[x] => class[y] = class[x]
      /\ \A k \in Keys : class[S(k)] = {S(k)}
  BY DEF Classes
<1>2. \A x \in Roots : new[x] = IF x \in R THEN {x} ELSE class[x] \ R
  BY DEF Apart
<1>3. new \in [Roots -> SUBSET Roots]
  BY <1>1 DEF Apart
<1> HIDE DEF new
<1>4. \A x \in Roots : x \in new[x]
  BY <1>1, <1>2
<1>5. ASSUME NEW x \in Roots, NEW y \in Roots, y \in new[x] PROVE new[y] = new[x]
  <2>1. CASE x \in R
    BY <1>2, <1>5, <2>1
  <2>2. CASE x \notin R
    <3>1. y \in class[x] /\ y \notin R
      BY <1>2, <1>5, <2>2
    <3>2. class[y] = class[x]
      BY <1>1, <3>1
    <3>3. new[x] = class[x] \ R /\ new[y] = class[y] \ R
      BY <1>2, <2>2, <3>1
    <3> QED
      BY <3>2, <3>3
  <2> QED
    BY <2>1, <2>2
<1>6. \A k \in Keys : new[S(k)] = {S(k)}
  BY <1>1, <1>2, RootNames
<1>7. Classes(new)
  BY <1>3, <1>4, <1>5, <1>6 DEF Classes
<1> QED
  BY <1>7 DEF new

LEMMA MergeClasses ==
  ASSUME NEW class, Classes(class), NEW r \in Outsiders, NEW s \in Outsiders
  PROVE  Classes(Merge(class, r, s))
<1> DEFINE both == class[r] \cup class[s]
           new == Merge(class, r, s)
<1>1. /\ class \in [Roots -> SUBSET Roots] /\ \A x \in Roots : x \in class[x]
      /\ \A x, y \in Roots : y \in class[x] => class[y] = class[x]
      /\ \A k \in Keys : class[S(k)] = {S(k)} /\ S(k) \notin both
      /\ r \in Roots /\ s \in Roots
  BY StoreAlone DEF Classes, Outsiders
<1>2. \A x \in Roots : new[x] = IF x \in both THEN both ELSE class[x]
  BY DEF Merge
<1>3. new \in [Roots -> SUBSET Roots]
  BY <1>1 DEF Merge
<1>4. \A x, y \in Roots : y \in class[x] /\ y \in both => x \in both
  BY <1>1
<1> HIDE DEF new, both
<1>5. \A x \in Roots : x \in new[x]
  BY <1>1, <1>2
<1>6. \A x, y \in Roots : y \in new[x] => new[y] = new[x]
  BY <1>1, <1>2, <1>4
<1>7. \A k \in Keys : new[S(k)] = {S(k)}
  BY <1>1, <1>2, RootNames
<1>8. Classes(new)
  BY <1>3, <1>5, <1>6, <1>7 DEF Classes
<1> QED
  BY <1>8 DEF new

\* Assignments as they show in a function on the variables.
Assigned(val, r, flag) == [x \in Roots |-> IF x = r THEN flag ELSE val[x]]

Joined(class, r, s) ==
  [x \in Roots |-> IF x = r \/ x \in class[s] THEN {r} \cup class[s] ELSE class[x] \ {r}]

LEMMA ApartMembers ==
  ASSUME NEW class, NEW R, NEW x \in Roots, NEW y
  PROVE  y \in Apart(class, R)[x] <=> IF x \in R THEN y = x ELSE y \in class[x] /\ y \notin R
BY DEF Apart

LEMMA JoinedMembers ==
  ASSUME NEW class, NEW r, NEW s, NEW x \in Roots, NEW y
  PROVE  y \in Joined(class, r, s)[x] <=>
           IF x = r \/ x \in class[s] THEN y = r \/ y \in class[s] ELSE y \in class[x] /\ y # r
BY DEF Joined

\* New structs.
LEMMA FreshGood ==
  ASSUME NEW h, Good(h), NEW R \in SUBSET Roots, NEW f \in [R -> Flags \cup {NoFlag}]
  PROVE  Good(Fresh(h, R, f))
<1> DEFINE new == Fresh(h, R, f)
<1>1. /\ h \in Heap /\ Classes(h.same) /\ Classes(h.shares)
      /\ \A x \in Roots : h.val[x] = NoFlag => h.same[x] = {x} /\ h.shares[x] = {x}
  BY DEF Good
<1>2. /\ new.val = [x \in Roots |-> IF x \in R THEN f[x] ELSE h.val[x]]
      /\ new.same = Apart(h.same, R) /\ new.shares = Apart(h.shares, R)
      /\ new = [val |-> new.val, same |-> new.same, shares |-> new.shares]
  BY DEF Fresh
<1> HIDE DEF new
<1>3. Classes(new.same) /\ Classes(new.shares)
  BY <1>1, <1>2, FreshClasses
<1>4. new.val \in [Roots -> Flags \cup {NoFlag}]
  <2>1. h.val \in [Roots -> Flags \cup {NoFlag}]
    BY <1>1 DEF Heap
  <2> QED
    BY <1>2, <2>1
<1>5. new \in Heap
  BY <1>2, <1>3, <1>4 DEF Heap, Classes
<1>6. \A x \in Roots : /\ new.val[x] = IF x \in R THEN f[x] ELSE h.val[x]
                       /\ new.same[x] = IF x \in R THEN {x} ELSE h.same[x] \ R
                       /\ new.shares[x] = IF x \in R THEN {x} ELSE h.shares[x] \ R
  BY <1>2 DEF Apart
<1>7. \A x \in Roots : new.val[x] = NoFlag => new.same[x] = {x} /\ new.shares[x] = {x}
  BY <1>1, <1>6
<1> QED
  BY <1>3, <1>5, <1>6, <1>7 DEF Good, new

\* A struct copy: r gets the fields of s and a reference to its map.
LEMMA CopyGood ==
  ASSUME NEW h, Good(h), NEW r \in Outsiders, NEW s \in Outsiders, r # s, h.val[s] # NoFlag
  PROVE  /\ Good(Copy(h, r, s))
         /\ Copy(h, r, s).val = Assigned(h.val, r, h.val[s])
         /\ Copy(h, r, s).same = Apart(h.same, {r})
<1> DEFINE f == [x \in {r} |-> h.val[s]]
           mid == Fresh(h, {r}, f)
           new == Copy(h, r, s)
<1>1. r \in Roots /\ s \in Roots /\ h.val[s] \in Flags
  BY DEF Outsiders, Good, Heap
<1>2. /\ Good(mid)
      /\ \A x \in Roots : /\ mid.val[x] = IF x = r THEN h.val[s] ELSE h.val[x]
                          /\ mid.same[x] = IF x = r THEN {r} ELSE h.same[x] \ {r}
  <2>1. {r} \in SUBSET Roots /\ f \in [{r} -> Flags \cup {NoFlag}]
    BY <1>1
  <2>2. f[r] = h.val[s]
    OBVIOUS
  <2> HIDE DEF f
  <2>3. Good(Fresh(h, {r}, f))
    BY <2>1, FreshGood
  <2>4. \A x \in Roots : /\ Fresh(h, {r}, f).val[x] = IF x \in {r} THEN f[x] ELSE h.val[x]
                         /\ Fresh(h, {r}, f).same[x] = IF x \in {r} THEN {x} ELSE h.same[x] \ {r}
    BY DEF Fresh, Apart
  <2> QED
    BY <2>2, <2>3, <2>4
<1>3. new = [mid EXCEPT !.shares = Merge(mid.shares, r, s)]
  BY DEF Copy
<1> HIDE DEF mid
<1>4. mid \in Heap /\ Classes(mid.same) /\ Classes(mid.shares)
  BY <1>2 DEF Good
<1>5. /\ new.val = mid.val /\ new.same = mid.same /\ new.shares = Merge(mid.shares, r, s)
      /\ new = [val |-> new.val, same |-> new.same, shares |-> new.shares]
  BY <1>3, <1>4 DEF Heap
<1> HIDE DEF new
<1>6. Classes(new.shares)
  BY <1>4, <1>5, MergeClasses
<1>7. new \in Heap
  BY <1>4, <1>5, <1>6 DEF Heap, Classes
<1>8. \A x \in Roots : new.val[x] = NoFlag => new.same[x] = {x} /\ new.shares[x] = {x}
  <2>1. SUFFICES ASSUME NEW x \in Roots, mid.val[x] = NoFlag
                 PROVE  mid.same[x] = {x} /\ Merge(mid.shares, r, s)[x] = {x}
    BY <1>5
  <2>2. mid.same[x] = {x} /\ mid.shares[x] = {x} /\ x # r /\ x # s
    BY <1>1, <1>2, <2>1 DEF Good
  <2>3. x \notin mid.shares[r] /\ x \notin mid.shares[s]
    BY <1>1, <1>4, <2>2 DEF Classes
  <2> QED
    BY <2>2, <2>3 DEF Merge
<1>9. mid.val = Assigned(h.val, r, h.val[s]) /\ mid.same = Apart(h.same, {r})
  BY DEF mid, Fresh, Assigned
<1> QED
  BY <1>4, <1>5, <1>6, <1>7, <1>8, <1>9 DEF Good, new

\* A pointer copy: r gets what s points to.
LEMMA PointToGood ==
  ASSUME NEW h, Good(h), NEW r \in Outsiders, NEW s \in Outsiders, r # s, h.val[s] # NoFlag
  PROVE  /\ Good(PointTo(h, r, s))
         /\ PointTo(h, r, s).val = Assigned(h.val, r, h.val[s])
         /\ PointTo(h, r, s).same = Joined(h.same, r, s)
<1> DEFINE f == [x \in {r} |-> h.val[s]]
           mid == Fresh(h, {r}, f)
           new == PointTo(h, r, s)
<1>1. r \in Roots /\ s \in Roots /\ h.val[s] \in Flags
  BY DEF Outsiders, Good, Heap
<1>2. /\ Good(mid)
      /\ \A x \in Roots : /\ mid.val[x] = IF x = r THEN h.val[s] ELSE h.val[x]
                          /\ mid.same[x] = IF x = r THEN {r} ELSE h.same[x] \ {r}
  <2>1. {r} \in SUBSET Roots /\ f \in [{r} -> Flags \cup {NoFlag}]
    BY <1>1
  <2>2. f[r] = h.val[s]
    OBVIOUS
  <2> HIDE DEF f
  <2>3. Good(Fresh(h, {r}, f))
    BY <2>1, FreshGood
  <2>4. \A x \in Roots : /\ Fresh(h, {r}, f).val[x] = IF x \in {r} THEN f[x] ELSE h.val[x]
                         /\ Fresh(h, {r}, f).same[x] = IF x \in {r} THEN {x} ELSE h.same[x] \ {r}
    BY DEF Fresh, Apart
  <2> QED
    BY <2>2, <2>3, <2>4
<1>3. new = [mid EXCEPT !.same = Merge(mid.same, r, s), !.shares = Merge(mid.shares, r, s)]
  BY DEF PointTo
<1> HIDE DEF mid
<1>4. mid \in Heap /\ Classes(mid.same) /\ Classes(mid.shares)
  BY <1>2 DEF Good
<1>5. /\ new.val = mid.val /\ new.same = Merge(mid.same, r, s)
      /\ new.shares = Merge(mid.shares, r, s)
      /\ new = [val |-> new.val, same |-> new.same, shares |-> new.shares]
  BY <1>3, <1>4 DEF Heap
<1> HIDE DEF new
<1>6. Classes(new.same) /\ Classes(new.shares)
  BY <1>4, <1>5, MergeClasses
<1>7. new \in Heap
  BY <1>4, <1>5, <1>6 DEF Heap, Classes
<1>8. \A x \in Roots : new.val[x] = NoFlag => new.same[x] = {x} /\ new.shares[x] = {x}
  <2>1. SUFFICES ASSUME NEW x \in Roots, mid.val[x] = NoFlag
                 PROVE  Merge(mid.same, r, s)[x] = {x} /\ Merge(mid.shares, r, s)[x] = {x}
    BY <1>5
  <2>2. mid.same[x] = {x} /\ mid.shares[x] = {x} /\ x # r /\ x # s
    BY <1>1, <1>2, <2>1 DEF Good
  <2>3. /\ x \notin mid.shares[r] /\ x \notin mid.shares[s]
        /\ x \notin mid.same[r] /\ x \notin mid.same[s]
    BY <1>1, <1>4, <2>2 DEF Classes
  <2> QED
    BY <2>2, <2>3 DEF Merge
<1>9. \A x \in Roots : new.same[x] = IF x = r \/ x \in h.same[s] THEN {r} \cup h.same[s]
                                                                 ELSE h.same[x] \ {r}
  <2>1. TAKE x \in Roots
  <2>2. mid.same[r] = {r} /\ mid.same[s] = h.same[s] \ {r}
    BY <1>1, <1>2
  <2>3. new.same[x] = IF x \in {r} \cup (h.same[s] \ {r}) THEN {r} \cup (h.same[s] \ {r})
                                                         ELSE mid.same[x]
    BY <1>5, <2>2 DEF Merge
  <2> QED
    BY <1>2, <2>3
<1>10. new.same = Joined(h.same, r, s)
  <2>1. new.same = [x \in Roots |-> new.same[x]]
    BY <1>7 DEF Heap
  <2> QED
    BY <1>9, <2>1 DEF Joined
<1>11. mid.val = Assigned(h.val, r, h.val[s])
  BY DEF mid, Fresh, Assigned
<1> QED
  BY <1>5, <1>6, <1>7, <1>8, <1>10, <1>11 DEF Good, new

(***************************************************************************)
(* The invariant.                                                          *)
(***************************************************************************)

\* What shares its struct with a cache entry has been returned by GetFlag.
Linked(h, f) ==
  \A k \in Keys, y \in Roots : y \in h.same[C(k)] => \/ y = C(k)
                                                     \/ \E v \in Vars : y = A(v) /\ f[v] = k

Answers(h, w) ==
  \A k \in Keys : h.val[C(k)] # NoFlag /\ k \notin w =>
    h.val[S(k)] # NoFlag /\ h.val[C(k)].on = h.val[S(k)].on

Inv ==
  /\ Good(heap)
  /\ closed \in BOOLEAN
  /\ from \in [Vars -> Keys \cup {NoFlag}]
  /\ written \subseteq Keys
  /\ closed => \A k \in Keys : heap.val[S(k)] = NoFlag
  /\ Linked(heap, from)
  /\ ~closed => Answers(heap, written)

LEMMA RootKinds ==
  /\ \A k \in Keys : C(k) \in Outsiders
  /\ \A v \in Vars : A(v) \in Outsiders
BY RootNames DEF Outsiders

LEMMA LinkedFresh ==
  ASSUME NEW h, Good(h), NEW R \in SUBSET Roots, NEW flags \in [R -> Flags \cup {NoFlag}],
         NEW f, Linked(h, f), NEW g, \A v \in Vars : A(v) \notin R => g[v] = f[v]
  PROVE  Linked(Fresh(h, R, flags), g)
<1> DEFINE new == Fresh(h, R, flags)
<1>1. new.same = Apart(h.same, R)
  BY DEF Fresh
<1> HIDE DEF new
<1>2. ASSUME NEW k \in Keys, NEW y \in Roots, y \in new.same[C(k)], y # C(k)
      PROVE  \E v \in Vars : y = A(v) /\ g[v] = k
  <2>1. y \in h.same[C(k)] /\ y \notin R
    BY <1>1, <1>2, ApartMembers, RootNames
  <2>2. PICK v \in Vars : y = A(v) /\ f[v] = k
    BY <1>2, <2>1 DEF Linked
  <2> QED
    BY <2>1, <2>2
<1>3. Linked(new, g)
  BY <1>2 DEF Linked
<1> QED
  BY <1>3 DEF new

LEMMA LinkedCopy ==
  ASSUME NEW h, Good(h), NEW r \in Outsiders, NEW s \in Outsiders, r # s, h.val[s] # NoFlag,
         NEW f, Linked(h, f), NEW g, \A v \in Vars : A(v) # r => g[v] = f[v]
  PROVE  Linked(Copy(h, r, s), g)
<1> DEFINE new == Copy(h, r, s)
<1>1. new.same = Apart(h.same, {r})
  BY CopyGood
<1> HIDE DEF new
<1>2. ASSUME NEW k \in Keys, NEW y \in Roots, y \in new.same[C(k)], y # C(k)
      PROVE  \E v \in Vars : y = A(v) /\ g[v] = k
  <2>1. y \in h.same[C(k)] /\ y # r
    BY <1>1, <1>2, ApartMembers, RootNames
  <2>2. PICK v \in Vars : y = A(v) /\ f[v] = k
    BY <1>2, <2>1 DEF Linked
  <2> QED
    BY <2>1, <2>2
<1>3. Linked(new, g)
  BY <1>2 DEF Linked
<1> QED
  BY <1>3 DEF new

LEMMA LinkedPointTo ==
  ASSUME NEW h, Good(h), NEW v \in Vars, NEW s \in Outsiders, A(v) # s, h.val[s] # NoFlag,
         NEW f, Linked(h, f), NEW g, \A w \in Vars : w # v => g[w] = f[w],
         \A k \in Keys : C(k) \in h.same[s] => g[v] = k
  PROVE  Linked(PointTo(h, A(v), s), g)
<1> DEFINE new == PointTo(h, A(v), s)
<1>1. A(v) \in Outsiders /\ s \in Roots /\ \A k \in Keys : C(k) \in Roots /\ C(k) # A(v)
  BY RootKinds, RootNames DEF Outsiders
<1>2. new.same = Joined(h.same, A(v), s)
  BY <1>1, PointToGood
<1> HIDE DEF new
<1>3. ASSUME NEW k \in Keys, NEW y \in Roots, y \in new.same[C(k)], y # C(k)
      PROVE  \E w \in Vars : y = A(w) /\ g[w] = k
  <2>1. CASE C(k) \in h.same[s]
    <3>1. h.same[C(k)] = h.same[s] /\ g[v] = k
      BY <1>1, <2>1 DEF Good, Classes
    <3>2. y = A(v) \/ y \in h.same[C(k)]
      BY <1>1, <1>2, <1>3, <2>1, <3>1, JoinedMembers
    <3>3. CASE y # A(v)
      <4>1. PICK w \in Vars : y = A(w) /\ f[w] = k
        BY <1>3, <3>2, <3>3 DEF Linked
      <4> QED
        BY <3>3, <4>1
    <3> QED
      BY <3>1, <3>3
  <2>2. CASE C(k) \notin h.same[s]
    <3>1. y \in h.same[C(k)] /\ y # A(v)
      BY <1>1, <1>2, <1>3, <2>2, JoinedMembers
    <3>2. PICK w \in Vars : y = A(w) /\ f[w] = k
      BY <1>3, <3>1 DEF Linked
    <3> QED
      BY <3>1, <3>2
  <2> QED
    BY <2>1, <2>2
<1>4. Linked(new, g)
  BY <1>3 DEF Linked
<1> QED
  BY <1>4 DEF new

LEMMA InitInv == Init => Inv
<1>1. SUFFICES ASSUME Init PROVE Inv
  OBVIOUS
<1>2. /\ heap.val = [x \in Roots |-> NoFlag]
      /\ heap.same = [x \in Roots |-> {x}] /\ heap.shares = [x \in Roots |-> {x}]
      /\ heap = [val |-> heap.val, same |-> heap.same, shares |-> heap.shares]
      /\ closed = FALSE /\ from = [v \in Vars |-> NoFlag] /\ written = {}
  BY <1>1 DEF Init
<1>3. Classes([x \in Roots |-> {x}])
  BY RootNames DEF Classes
<1>4. heap \in Heap
  BY <1>2 DEF Heap
<1>5. Good(heap)
  BY <1>2, <1>3, <1>4 DEF Good
<1>6. \A k \in Keys : heap.val[C(k)] = NoFlag /\ heap.same[C(k)] = {C(k)}
  BY <1>2, RootNames
<1>7. Linked(heap, from) /\ Answers(heap, written)
  BY <1>6 DEF Linked, Answers
<1> QED
  BY <1>2, <1>5, <1>7 DEF Inv

(***************************************************************************)
(* The application's steps: the store's entries stay as they are, and so   *)
(* does Enabled in every cache entry that is not noted as written to.      *)
(***************************************************************************)
Harmless ==
  /\ Good(heap')
  /\ Linked(heap', from')
  /\ closed' = closed /\ call' = <<"other">>
  /\ from' \in [Vars -> Keys \cup {NoFlag}]
  /\ written \subseteq written' /\ written' \subseteq Keys
  /\ \A k \in Keys :
       /\ heap'.val[S(k)] = heap.val[S(k)]
       /\ heap.val[C(k)] = NoFlag => heap'.val[C(k)] = NoFlag
       /\ k \notin written' /\ heap.val[C(k)] # NoFlag => heap'.val[C(k)].on = heap.val[C(k)].on

LEMMA NewFlagStep ==
  ASSUME Inv, NEW v \in Vars, NewFlag(v)
  PROVE  Harmless
<1>1. PICK flag \in Flags : heap' = Fresh(heap, {A(v)}, [x \in {A(v)} |-> flag])
  BY DEF NewFlag
<1> DEFINE f == [x \in {A(v)} |-> flag]
           R == {A(v)}
<1>2. f \in [R -> Flags \cup {NoFlag}] /\ R \in SUBSET Roots
  BY RootNames
<1>3. \A w \in Vars : A(w) \notin R => from'[w] = from[w]
  BY DEF NewFlag, Inv
<1>4. \A k \in Keys : S(k) \notin R /\ C(k) \notin R
  BY RootNames
<1>5. heap' = Fresh(heap, R, f)
  BY <1>1
<1> HIDE DEF f, R
<1>6. Good(heap') /\ \A x \in Roots \ R : heap'.val[x] = heap.val[x]
  <2>1. Good(heap')
    BY <1>2, <1>5, FreshGood DEF Inv
  <2>2. \A x \in Roots \ R : heap'.val[x] = heap.val[x]
    BY <1>5 DEF Fresh
  <2> QED
    BY <2>1, <2>2
<1>7. Linked(heap', from')
  BY <1>2, <1>3, <1>5, LinkedFresh DEF Inv
<1>8. \A k \in Keys : heap'.val[S(k)] = heap.val[S(k)] /\ heap'.val[C(k)] = heap.val[C(k)]
  BY <1>4, <1>6, RootNames
<1>9. /\ closed' = closed /\ call' = <<"other">> /\ written' = written
      /\ from' \in [Vars -> Keys \cup {NoFlag}]
  BY DEF NewFlag, Inv
<1> QED
  BY <1>6, <1>7, <1>8, <1>9 DEF Harmless, Inv

LEMMA AssignStep ==
  ASSUME Inv, NEW v \in Vars, NEW w \in Vars, Assign(v, w)
  PROVE  Harmless
<1>1. /\ A(v) \in Outsiders /\ A(w) \in Outsiders /\ A(v) # A(w) /\ heap.val[A(w)] # NoFlag
      /\ \A k \in Keys : S(k) # A(v) /\ C(k) # A(v) /\ S(k) \in Roots /\ C(k) \in Roots
  BY RootNames, RootKinds DEF Assign, Held, Value
<1>2. /\ closed' = closed /\ call' = <<"other">> /\ written' = written
      /\ from' \in [Vars -> Keys \cup {NoFlag}]
      /\ \A u \in Vars : u # v => from'[u] = from[u]
  BY DEF Assign, Inv
<1>3. Good(heap) /\ Linked(heap, from) /\ written \subseteq Keys
  BY DEF Inv
<1>4. CASE heap' = PointTo(heap, A(v), A(w)) /\ from' = [from EXCEPT ![v] = from[w]]
  <2>1. Good(heap') /\ heap'.val = Assigned(heap.val, A(v), heap.val[A(w)])
    BY <1>1, <1>3, <1>4, PointToGood
  <2>2. \A k \in Keys : C(k) \in heap.same[A(w)] => from'[v] = k
    <3>1. SUFFICES ASSUME NEW k \in Keys, C(k) \in heap.same[A(w)] PROVE from'[v] = k
      OBVIOUS
    <3>2. A(w) \in heap.same[C(k)] /\ A(w) # C(k) /\ A(w) \in Roots
      BY <1>1, <1>3, <3>1, RootNames DEF Good, Classes
    <3>3. PICK u \in Vars : A(w) = A(u) /\ from[u] = k
      BY <1>3, <3>2 DEF Linked
    <3>4. from[w] = k
      BY <3>3, RootNames
    <3> QED
      BY <1>4, <3>4 DEF Inv
  <2>3. Linked(heap', from')
    <3>1. \A u \in Vars : u # v => from'[u] = from[u]
      BY <1>2
    <3> DEFINE g == from'
    <3> HIDE DEF g
    <3>2. Linked(PointTo(heap, A(v), A(w)), g)
      BY <1>1, <1>3, <2>2, <3>1, LinkedPointTo DEF g
    <3> QED
      BY <1>4, <3>2 DEF g
  <2> QED
    BY <1>1, <1>2, <1>3, <2>1, <2>3 DEF Harmless, Assigned
<1>5. CASE heap' = Copy(heap, A(v), A(w))
  <2>1. Good(heap') /\ heap'.val = Assigned(heap.val, A(v), heap.val[A(w)])
    BY <1>1, <1>3, <1>5, CopyGood
  <2>2. \A u \in Vars : A(u) # A(v) => from'[u] = from[u]
    BY <1>2
  <2>3. Linked(heap', from')
    BY <1>1, <1>3, <1>5, <2>2, LinkedCopy
  <2> QED
    BY <1>1, <1>2, <1>3, <2>1, <2>3 DEF Harmless, Assigned
<1> QED
  BY <1>4, <1>5 DEF Assign

\* A write to some of the flags, which changes nobody's nil pointer.
LEMMA WriteGood ==
  ASSUME NEW h, Good(h), NEW X \in SUBSET Outsiders, \A x \in X : h.val[x] # NoFlag,
         NEW new \in Heap, Classes(new.shares), new.same = h.same,
         \A x \in Roots : \/ x \in X /\ new.val[x] \in Flags
                          \/ x \notin X /\ new.val[x] = h.val[x],
         \A x \in Roots \ X : h.shares[x] = {x} => new.shares[x] = {x}
  PROVE  Good(new)
<1>1. NoFlag \notin Flags
  BY NoFlagAssumption
<1>2. \A x \in Roots : new.val[x] = NoFlag => x \notin X /\ h.val[x] = NoFlag
  BY <1>1
<1>3. Classes(h.same) /\ \A x \in Roots : h.val[x] = NoFlag => h.same[x] = {x} /\ h.shares[x] = {x}
  BY DEF Good
<1> QED
  BY <1>2, <1>3 DEF Good

\* The members of a variable's class: none is an entry of the store or nil.
LEMMA ClassOfHeld ==
  ASSUME NEW h, Good(h), NEW v \in Vars, h.val[A(v)] # NoFlag,
         NEW class \in {h.same, h.shares}
  PROVE  /\ class[A(v)] \in SUBSET Outsiders
         /\ \A x \in class[A(v)] : h.val[x] # NoFlag
<1>1. A(v) \in Roots /\ A(v) \in Outsiders
  BY RootNames, RootKinds
<1>2. Classes(class) /\ \A x \in Roots : h.val[x] = NoFlag => class[x] = {x}
  BY DEF Good
<1>3. class[A(v)] \in SUBSET Roots
  BY <1>1, <1>2 DEF Classes
<1>4. \A k \in Keys : S(k) \notin class[A(v)]
  BY <1>1, <1>2, StoreAlone
<1>5. ASSUME NEW x \in class[A(v)] PROVE h.val[x] # NoFlag
  <2>1. SUFFICES ASSUME h.val[x] = NoFlag PROVE FALSE
    OBVIOUS
  <2>2. x \in Roots /\ class[x] = {x} /\ class[x] = class[A(v)] /\ A(v) \in class[A(v)]
    BY <1>1, <1>2, <1>3, <2>1 DEF Classes
  <2>3. x = A(v)
    BY <2>2
  <2> QED
    BY <2>1, <2>3
<1> QED
  BY <1>3, <1>4, <1>5 DEF Outsiders

LEMMA WriteEnabledStep ==
  ASSUME Inv, NEW v \in Vars, NEW on \in BOOLEAN, WriteEnabled(v, on)
  PROVE  Harmless
<1> DEFINE X == heap.same[A(v)]
<1>1. /\ Good(heap) /\ Linked(heap, from) /\ written \subseteq Keys
      /\ from \in [Vars -> Keys \cup {NoFlag}]
  BY DEF Inv
<1>2. heap \in Heap /\ Classes(heap.same) /\ Classes(heap.shares)
  BY <1>1 DEF Good
<1>3. X \in SUBSET Outsiders /\ \A x \in X : heap.val[x] # NoFlag
  BY <1>1, ClassOfHeld DEF WriteEnabled, Held, Value
<1>4. /\ heap'.val = [x \in Roots |-> IF x \in X THEN [heap.val[x] EXCEPT !.on = on]
                                                 ELSE heap.val[x]]
      /\ heap'.same = heap.same /\ heap'.shares = heap.shares
      /\ heap' = [val |-> heap'.val, same |-> heap'.same, shares |-> heap'.shares]
  BY <1>2 DEF WriteEnabled, Heap
<1>5. /\ closed' = closed /\ call' = <<"other">> /\ from' = from
      /\ written' = written \cup ({from[v]} \cap Keys)
  BY DEF WriteEnabled
<1> HIDE DEF X
<1>6. heap.val \in [Roots -> Flags \cup {NoFlag}] /\ X \in SUBSET Roots
  BY <1>2, <1>3 DEF Heap, Outsiders
<1>7. \A x \in Roots : \/ x \in X /\ heap'.val[x] \in Flags
                       \/ x \notin X /\ heap'.val[x] = heap.val[x]
  <2>1. \A flag \in Flags : [flag EXCEPT !.on = on] \in Flags
    BY DEF Flags
  <2> QED
    BY <1>3, <1>4, <1>6, <2>1
<1>8. heap'.val \in [Roots -> Flags \cup {NoFlag}]
  BY <1>4, <1>6, <1>7
<1>9. heap' \in Heap
  BY <1>2, <1>4, <1>8 DEF Heap
<1>10. Good(heap')
  BY <1>1, <1>2, <1>3, <1>4, <1>7, <1>9, WriteGood
<1>11. Linked(heap', from')
  BY <1>1, <1>4, <1>5 DEF Linked
<1>12. ASSUME NEW k \in Keys, k \notin written'
       PROVE  C(k) \notin X
  <2>1. SUFFICES ASSUME C(k) \in X PROVE FALSE
    OBVIOUS
  <2>2. A(v) \in heap.same[C(k)] /\ A(v) \in Roots /\ A(v) # C(k)
    BY <1>2, <2>1, RootNames DEF X, Classes
  <2>3. from[v] = k
    BY <1>1, <2>2, RootNames DEF Linked
  <2> QED
    BY <1>5, <1>12, <2>3
<1>13. \A k \in Keys : S(k) \notin X /\ S(k) \in Roots /\ C(k) \in Roots
  BY <1>3, RootNames DEF Outsiders
<1>14. \A k \in Keys : heap.val[C(k)] = NoFlag => heap'.val[C(k)] = NoFlag
  BY <1>3, <1>7, <1>13
<1> QED
  BY <1>1, <1>5, <1>7, <1>10, <1>11, <1>12, <1>13, <1>14 DEF Harmless

\* Metadata may be written anywhere: Enabled does not change.
LEMMA MetadataStep ==
  ASSUME Inv, NEW v \in Vars, NEW m \in Maps, WriteMetadata(v, m) \/ ReplaceMetadata(v, m)
  PROVE  Harmless
<1>1. /\ Good(heap) /\ Linked(heap, from) /\ written \subseteq Keys
      /\ from \in [Vars -> Keys \cup {NoFlag}]
  BY DEF Inv
<1>2. heap \in Heap /\ Classes(heap.same) /\ Classes(heap.shares) /\ heap.val[A(v)] # NoFlag
  BY <1>1 DEF Good, WriteMetadata, ReplaceMetadata, Held, Value
<1>3. \E X \in SUBSET Outsiders :
        /\ \A x \in X : heap.val[x] # NoFlag
        /\ heap'.val = [x \in Roots |-> IF x \in X THEN [heap.val[x] EXCEPT !.meta = m]
                                                   ELSE heap.val[x]]
        /\ heap'.same = heap.same
        /\ heap' = [val |-> heap'.val, same |-> heap'.same, shares |-> heap'.shares]
        /\ Classes(heap'.shares)
        /\ \A x \in Roots \ X : heap.shares[x] = {x} => heap'.shares[x] = {x}
  <2>1. CASE WriteMetadata(v, m)
    <3> DEFINE X == heap.shares[A(v)]
    <3>1. X \in SUBSET Outsiders /\ \A x \in X : heap.val[x] # NoFlag
      BY <1>1, <1>2, ClassOfHeld
    <3>2. /\ heap'.val = [x \in Roots |-> IF x \in X THEN [heap.val[x] EXCEPT !.meta = m]
                                                     ELSE heap.val[x]]
          /\ heap'.same = heap.same /\ heap'.shares = heap.shares
          /\ heap' = [val |-> heap'.val, same |-> heap'.same, shares |-> heap'.shares]
      BY <1>2, <2>1 DEF WriteMetadata, Heap
    <3> HIDE DEF X
    <3> QED
      BY <1>2, <3>1, <3>2
  <2>2. CASE ReplaceMetadata(v, m)
    <3> DEFINE X == heap.same[A(v)]
    <3>1. X \in SUBSET Outsiders /\ \A x \in X : heap.val[x] # NoFlag
      BY <1>1, <1>2, ClassOfHeld
    <3>2. /\ heap'.val = [x \in Roots |-> IF x \in X THEN [heap.val[x] EXCEPT !.meta = m]
                                                     ELSE heap.val[x]]
          /\ heap'.same = heap.same
          /\ heap'.shares = [x \in Roots |-> IF x \in X THEN X ELSE heap.shares[x] \ X]
          /\ heap' = [val |-> heap'.val, same |-> heap'.same, shares |-> heap'.shares]
      BY <1>2, <2>2 DEF ReplaceMetadata, Heap
    <3> HIDE DEF X
    <3>3. Classes(heap'.shares)
      <4> DEFINE new == heap'.shares
      <4>1. \A x \in Roots : new[x] = IF x \in X THEN X ELSE heap.shares[x] \ X
        BY <3>2
      <4>2. /\ heap.shares \in [Roots -> SUBSET Roots] /\ \A x \in Roots : x \in heap.shares[x]
            /\ \A x, y \in Roots : y \in heap.shares[x] => heap.shares[y] = heap.shares[x]
            /\ \A k \in Keys : heap.shares[S(k)] = {S(k)} /\ S(k) \notin X /\ S(k) \in Roots
            /\ X \in SUBSET Roots
        BY <1>2, <3>1, RootNames DEF Classes, Outsiders
      <4>3. new \in [Roots -> SUBSET Roots]
        BY <3>2, <4>2
      <4> HIDE DEF new
      <4>4. \A x \in Roots : x \in new[x]
        BY <4>1, <4>2
      <4>5. ASSUME NEW x \in Roots, NEW y \in Roots, y \in new[x] PROVE new[y] = new[x]
        <5>1. CASE x \in X
          BY <4>1, <4>5, <5>1
        <5>2. CASE x \notin X
          <6>1. y \in heap.shares[x] /\ y \notin X
            BY <4>1, <4>5, <5>2
          <6>2. heap.shares[y] = heap.shares[x]
            BY <4>2, <6>1
          <6> QED
            BY <4>1, <5>2, <6>1, <6>2
        <5> QED
          BY <5>1, <5>2
      <4>6. \A k \in Keys : new[S(k)] = {S(k)}
        <5>1. TAKE k \in Keys
        <5>2. new[S(k)] = heap.shares[S(k)] \ X /\ heap.shares[S(k)] = {S(k)} /\ S(k) \notin X
          BY <4>1, <4>2
        <5> QED
          BY <5>2
      <4>7. Classes(new)
        BY <4>3, <4>4, <4>5, <4>6 DEF Classes
      <4> QED
        BY <4>7 DEF new
    <3>4. \A x \in Roots \ X : heap.shares[x] = {x} => heap'.shares[x] = {x}
      BY <3>2
    <3> QED
      BY <3>1, <3>2, <3>3, <3>4
  <2> QED
    BY <2>1, <2>2
<1>4. PICK X \in SUBSET Outsiders :
        /\ \A x \in X : heap.val[x] # NoFlag
        /\ heap'.val = [x \in Roots |-> IF x \in X THEN [heap.val[x] EXCEPT !.meta = m]
                                                   ELSE heap.val[x]]
        /\ heap'.same = heap.same
        /\ heap' = [val |-> heap'.val, same |-> heap'.same, shares |-> heap'.shares]
        /\ Classes(heap'.shares)
        /\ \A x \in Roots \ X : heap.shares[x] = {x} => heap'.shares[x] = {x}
  BY <1>3
<1>5. /\ closed' = closed /\ call' = <<"other">> /\ from' = from /\ written' = written
  BY DEF WriteMetadata, ReplaceMetadata
<1>6. heap.val \in [Roots -> Flags \cup {NoFlag}] /\ X \in SUBSET Roots
  BY <1>2 DEF Heap, Outsiders
<1>7. \A x \in Roots : \/ x \in X /\ heap'.val[x] \in Flags /\ heap'.val[x].on = heap.val[x].on
                       \/ x \notin X /\ heap'.val[x] = heap.val[x]
  <2>1. \A flag \in Flags : /\ [flag EXCEPT !.meta = m] \in Flags
                            /\ [flag EXCEPT !.meta = m].on = flag.on
    BY DEF Flags
  <2> QED
    BY <1>4, <1>6, <2>1
<1>8. heap'.val \in [Roots -> Flags \cup {NoFlag}]
  BY <1>4, <1>6, <1>7
<1>9. heap' \in Heap
  BY <1>2, <1>4, <1>8 DEF Heap, Classes
<1>10. Good(heap')
  BY <1>1, <1>4, <1>7, <1>9, WriteGood
<1>11. Linked(heap', from')
  BY <1>1, <1>4, <1>5 DEF Linked
<1>12. \A k \in Keys : S(k) \notin X /\ S(k) \in Roots /\ C(k) \in Roots
  BY RootNames DEF Outsiders
<1>13. \A k \in Keys : heap.val[C(k)] = NoFlag => heap'.val[C(k)] = NoFlag
  BY <1>4, <1>7, <1>12
<1>14. \A k \in Keys : heap.val[C(k)] # NoFlag => heap'.val[C(k)].on = heap.val[C(k)].on
  BY <1>7, <1>12
<1> QED
  BY <1>1, <1>5, <1>7, <1>10, <1>11, <1>12, <1>13, <1>14 DEF Harmless

LEMMA ApplicationStep ==
  ASSUME Inv, Application
  PROVE  Harmless
BY NewFlagStep, AssignStep, WriteEnabledStep, MetadataStep DEF Application

LEMMA HarmlessInv ==
  ASSUME Inv, Harmless
  PROVE  Inv'
<1>1. ~closed' => Answers(heap', written')
  BY DEF Inv, Harmless, Answers
<1> QED
  BY <1>1 DEF Inv, Harmless

(***************************************************************************)
(* The calls of the client.                                                *)
(***************************************************************************)

\* After a call: the flags of the store are the given ones.
StepTo(flags) ==
  /\ Good(heap') /\ Linked(heap', from') /\ Answers(heap', written')
  /\ closed' = closed /\ ~closed
  /\ from' \in [Vars -> Keys \cup {NoFlag}]
  /\ written' \subseteq Keys
  /\ \A k \in Keys : heap'.val[S(k)] = flags[k]

StoreFlags == [k \in Keys |-> heap.val[S(k)]]

LEMMA StepToInv ==
  ASSUME Inv, NEW flags, StepTo(flags)
  PROVE  Inv'
BY DEF Inv, StepTo

\* The cache entry of k, filled if it is empty.
LEMMA FillStep ==
  ASSUME Inv, ~closed, NEW k \in Keys, k \in Stored \cup Cached
  PROVE  /\ Good(Fill(heap, k)) /\ Linked(Fill(heap, k), from)
         /\ Answers(Fill(heap, k), Refilled(k))
         /\ Fill(heap, k).val[C(k)] # NoFlag
         /\ \A j \in Keys : Fill(heap, k).val[S(j)] = heap.val[S(j)]
         /\ Refilled(k) \subseteq Keys
<1>1. /\ Good(heap) /\ Linked(heap, from) /\ Answers(heap, written) /\ written \subseteq Keys
      /\ heap.val \in [Roots -> Flags \cup {NoFlag}]
  BY DEF Inv, Good, Heap
<1>2. CASE k \in Cached
  BY <1>1, <1>2 DEF Fill, Refilled, Cached, Value
<1>3. CASE k \notin Cached
  <2> DEFINE f == [x \in {C(k)} |-> heap.val[S(k)]]
             R == {C(k)}
             new == Fill(heap, k)
  <2>1. heap.val[S(k)] # NoFlag
    BY <1>3 DEF Stored, Value
  <2>2. R \in SUBSET Roots /\ f \in [R -> Flags \cup {NoFlag}] /\ f[C(k)] = heap.val[S(k)]
    BY <1>1, RootNames
  <2>3. new = Fresh(heap, R, f) /\ Refilled(k) = written \ {k}
    BY <1>3 DEF Fill, StoreGet, Clone, Refilled
  <2>4. \A v \in Vars : A(v) \notin R
    BY RootNames
  <2> HIDE DEF f
  <2>5. Good(new) /\ Linked(new, from)
    BY <1>1, <2>2, <2>3, <2>4, FreshGood, LinkedFresh
  <2>6. new.val = [x \in Roots |-> IF x \in R THEN f[x] ELSE heap.val[x]]
    BY <2>3 DEF Fresh
  <2>7. /\ \A j \in Keys : new.val[S(j)] = heap.val[S(j)]
        /\ \A j \in Keys : j # k => new.val[C(j)] = heap.val[C(j)]
        /\ new.val[C(k)] = heap.val[S(k)]
    BY <2>2, <2>6, RootNames
  <2> HIDE DEF new
  <2>8. Answers(new, Refilled(k))
    BY <1>1, <2>1, <2>3, <2>7 DEF Answers
  <2> QED
    BY <1>1, <2>1, <2>3, <2>5, <2>7, <2>8 DEF new
<1> QED
  BY <1>2, <1>3

LEMMA IsEnabledStep ==
  ASSUME Inv, NEW k \in Keys, IsEnabled(k)
  PROVE  StepTo(StoreFlags) /\ call' = <<"other">>
<1>1. /\ ~closed /\ k \in Stored \cup Cached /\ heap' = Fill(heap, k)
      /\ written' = Refilled(k) /\ call' = <<"other">> /\ closed' = closed /\ from' = from
  BY DEF IsEnabled
<1>2. /\ Good(heap') /\ Linked(heap', from') /\ Answers(heap', written')
      /\ \A j \in Keys : heap'.val[S(j)] = heap.val[S(j)]
      /\ written' \subseteq Keys
  BY <1>1, FillStep
<1> QED
  BY <1>1, <1>2 DEF StepTo, StoreFlags, Inv

LEMMA GetFlagStep ==
  ASSUME Inv, NEW v \in Vars, NEW k \in Keys, GetFlag(v, k)
  PROVE  StepTo(StoreFlags) /\ call' = <<"other">>
<1> DEFINE h == Fill(heap, k)
<1>1. /\ ~closed /\ k \in Stored \cup Cached /\ heap' = PointTo(h, A(v), C(k))
      /\ written' = Refilled(k) /\ call' = <<"other">> /\ closed' = closed
      /\ from' = [from EXCEPT ![v] = k]
  BY DEF GetFlag
<1>2. /\ Good(h) /\ Linked(h, from) /\ Answers(h, Refilled(k)) /\ h.val[C(k)] # NoFlag
      /\ \A j \in Keys : h.val[S(j)] = heap.val[S(j)]
      /\ Refilled(k) \subseteq Keys
  BY <1>1, FillStep
<1> HIDE DEF h
<1>3. /\ A(v) \in Outsiders /\ C(k) \in Outsiders /\ A(v) # C(k)
      /\ \A j \in Keys : C(j) # A(v) /\ S(j) # A(v) /\ C(j) \in Roots /\ S(j) \in Roots
  BY RootNames, RootKinds
<1>4. /\ from \in [Vars -> Keys \cup {NoFlag}] /\ from' \in [Vars -> Keys \cup {NoFlag}]
      /\ \A w \in Vars : w # v => from'[w] = from[w]
      /\ from'[v] = k
  BY <1>1 DEF Inv
<1>5. \A j \in Keys : C(j) \in h.same[C(k)] => from'[v] = j
  <2>1. SUFFICES ASSUME NEW j \in Keys, C(j) \in h.same[C(k)] PROVE j = k
    BY <1>4
  <2>2. C(j) = C(k) \/ \E w \in Vars : C(j) = A(w) /\ from[w] = k
    BY <1>2, <1>3, <2>1 DEF Linked
  <2> QED
    BY <2>2, RootNames
<1>6. Good(heap') /\ heap'.val = Assigned(h.val, A(v), h.val[C(k)])
  BY <1>1, <1>2, <1>3, PointToGood
<1>7. Linked(heap', from')
  <2> DEFINE g == from'
  <2> HIDE DEF g
  <2>1. Linked(PointTo(h, A(v), C(k)), g)
    BY <1>2, <1>3, <1>4, <1>5, LinkedPointTo DEF g
  <2> QED
    BY <1>1, <2>1 DEF g
<1>8. \A j \in Keys : heap'.val[S(j)] = heap.val[S(j)] /\ heap'.val[C(j)] = h.val[C(j)]
  BY <1>2, <1>3, <1>6 DEF Assigned
<1>9. Answers(heap', written')
  BY <1>1, <1>2, <1>8 DEF Answers
<1> QED
  BY <1>1, <1>2, <1>4, <1>6, <1>7, <1>8, <1>9 DEF StepTo, StoreFlags

LEMMA SetFlagStep ==
  ASSUME Inv, NEW v \in Vars, NEW k \in Keys, SetFlag(v, k)
  PROVE  /\ StepTo([StoreFlags EXCEPT ![k] = heap.val[A(v)]])
         /\ call' = <<"set", k, heap.val[A(v)]>> /\ heap.val[A(v)] \in Flags
<1> DEFINE f == [x \in {S(k)} |-> heap.val[A(v)]]
           h == Fresh(heap, {S(k)}, f)
           flag == heap.val[A(v)]
<1>1. /\ ~closed /\ flag # NoFlag /\ heap' = Copy(h, C(k), A(v))
      /\ written' = written \ {k} /\ call' = <<"set", k, flag>> /\ closed' = closed /\ from' = from
  BY DEF SetFlag, Held, Value, Clone
<1>2. /\ Good(heap) /\ Linked(heap, from) /\ Answers(heap, written) /\ written \subseteq Keys
      /\ from \in [Vars -> Keys \cup {NoFlag}]
      /\ heap.val \in [Roots -> Flags \cup {NoFlag}]
  BY <1>1 DEF Inv, Good, Heap
<1>3. /\ A(v) \in Outsiders /\ C(k) \in Outsiders /\ A(v) # C(k) /\ A(v) \in Roots
      /\ \A j \in Keys : C(j) # A(v) /\ S(j) # A(v) /\ C(j) \in Roots /\ S(j) \in Roots
      /\ \A w \in Vars : A(w) # S(k) /\ A(w) # C(k)
  BY RootNames, RootKinds
<1>4. flag \in Flags
  BY <1>1, <1>2, <1>3
<1>5. {S(k)} \in SUBSET Roots /\ f \in [{S(k)} -> Flags \cup {NoFlag}] /\ f[S(k)] = flag
  BY <1>3, <1>4
<1>6. h.val = Assigned(heap.val, S(k), flag)
  BY DEF Fresh, Assigned
<1> HIDE DEF f
<1>7. Good(h)
  BY <1>2, <1>5, FreshGood
<1>8. Linked(h, from)
  BY <1>2, <1>3, <1>5, LinkedFresh
<1>9. h.val[A(v)] = flag
  BY <1>3, <1>6 DEF Assigned
<1> HIDE DEF h
<1>10. Good(heap') /\ heap'.val = Assigned(h.val, C(k), flag)
  BY <1>1, <1>3, <1>7, <1>9, CopyGood
<1>11. Linked(heap', from')
  BY <1>1, <1>3, <1>7, <1>8, <1>9, LinkedCopy
<1>12. /\ heap'.val[S(k)] = flag /\ heap'.val[C(k)] = flag
       /\ \A j \in Keys : j # k => /\ heap'.val[S(j)] = heap.val[S(j)]
                                   /\ heap'.val[C(j)] = heap.val[C(j)]
  BY <1>3, <1>6, <1>10, RootNames DEF Assigned
<1> HIDE DEF flag
<1>13. Answers(heap', written')
  BY <1>1, <1>2, <1>12 DEF Answers
<1>14. \A j \in Keys : heap'.val[S(j)] = [StoreFlags EXCEPT ![k] = flag][j]
  BY <1>12 DEF StoreFlags
<1>15. StepTo([StoreFlags EXCEPT ![k] = flag])
  BY <1>1, <1>2, <1>10, <1>11, <1>13, <1>14 DEF StepTo
<1> QED
  BY <1>1, <1>4, <1>15 DEF flag

\* Entries of the store and of the cache are emptied.
LEMMA ClearStep ==
  ASSUME Inv, NEW R \in SUBSET {x \in Roots : x[1] # "app"}
  PROVE  /\ Good(Clear(heap, R)) /\ Linked(Clear(heap, R), from)
         /\ \A x \in Roots : Clear(heap, R).val[x] = IF x \in R THEN NoFlag ELSE heap.val[x]
<1> DEFINE f == [x \in R |-> NoFlag]
<1>1. Good(heap) /\ Linked(heap, from)
  BY DEF Inv
<1>2. R \in SUBSET Roots /\ f \in [R -> Flags \cup {NoFlag}] /\ \A v \in Vars : A(v) \notin R
  BY DEF A
<1>3. Clear(heap, R) = Fresh(heap, R, f)
  BY DEF Clear
<1>4. \A x \in Roots : Clear(heap, R).val[x] = IF x \in R THEN NoFlag ELSE heap.val[x]
  BY <1>3 DEF Fresh
<1> HIDE DEF f
<1> QED
  BY <1>1, <1>2, <1>3, <1>4, FreshGood, LinkedFresh

LEMMA DeleteFlagStep ==
  ASSUME Inv, NEW k \in Keys, DeleteFlag(k)
  PROVE  /\ StepTo([StoreFlags EXCEPT ![k] = NoFlag])
         /\ call' = <<"delete", k>> /\ heap.val[S(k)] # NoFlag
<1>1. /\ ~closed /\ heap.val[S(k)] # NoFlag /\ heap' = Clear(heap, {S(k), C(k)})
      /\ written' = written \ {k} /\ call' = <<"delete", k>> /\ closed' = closed /\ from' = from
  BY DEF DeleteFlag, Stored, Value
<1>2. {S(k), C(k)} \in SUBSET {x \in Roots : x[1] # "app"}
  BY RootNames DEF S, C
<1>3. /\ Good(heap') /\ Linked(heap', from')
      /\ \A x \in Roots : heap'.val[x] = IF x \in {S(k), C(k)} THEN NoFlag ELSE heap.val[x]
  BY <1>1, <1>2, ClearStep
<1>4. /\ heap'.val[S(k)] = NoFlag /\ heap'.val[C(k)] = NoFlag
      /\ \A j \in Keys : j # k => /\ heap'.val[S(j)] = heap.val[S(j)]
                                  /\ heap'.val[C(j)] = heap.val[C(j)]
  BY <1>3, RootNames
<1>5. Answers(heap', written')
  BY <1>1, <1>4 DEF Inv, Answers
<1>6. \A j \in Keys : heap'.val[S(j)] = [StoreFlags EXCEPT ![k] = NoFlag][j]
  BY <1>4 DEF StoreFlags
<1> QED
  BY <1>1, <1>3, <1>5, <1>6 DEF StepTo, Inv

LEMMA ForgetStep ==
  ASSUME Inv, NEW k \in Keys, Forget(k)
  PROVE  /\ Good(heap') /\ Linked(heap', from') /\ closed' = closed /\ from' = from
         /\ ~closed => Answers(heap', written')
         /\ written' \subseteq Keys /\ call' = <<"other">>
         /\ \A j \in Keys : heap'.val[S(j)] = heap.val[S(j)]
<1>1. /\ heap' = Clear(heap, {C(k)}) /\ written' = written \ {k} /\ call' = <<"other">>
      /\ closed' = closed /\ from' = from
  BY DEF Forget
<1>2. {C(k)} \in SUBSET {x \in Roots : x[1] # "app"}
  BY RootNames DEF C
<1>3. /\ Good(heap') /\ Linked(heap', from')
      /\ \A x \in Roots : heap'.val[x] = IF x \in {C(k)} THEN NoFlag ELSE heap.val[x]
  BY <1>1, <1>2, ClearStep
<1>4. /\ heap'.val[C(k)] = NoFlag
      /\ \A j \in Keys : heap'.val[S(j)] = heap.val[S(j)]
      /\ \A j \in Keys : j # k => heap'.val[C(j)] = heap.val[C(j)]
  BY <1>3, RootNames
<1>5. ~closed => Answers(heap', written')
  BY <1>1, <1>4 DEF Inv, Answers
<1> QED
  BY <1>1, <1>3, <1>4, <1>5 DEF Inv

LEMMA CloseStep ==
  ASSUME Inv, Close
  PROVE  /\ Good(heap') /\ Linked(heap', from') /\ ~closed /\ closed' = TRUE
         /\ UNCHANGED <<from, written>> /\ call' = <<"close">>
         /\ \A j \in Keys : heap'.val[S(j)] = NoFlag
<1>1. /\ heap' = Clear(heap, {S(j) : j \in Keys}) /\ ~closed /\ closed' = TRUE
      /\ UNCHANGED <<from, written>> /\ call' = <<"close">>
  BY DEF Close, Emptied
<1>2. {S(j) : j \in Keys} \in SUBSET {x \in Roots : x[1] # "app"}
  BY RootNames DEF S
<1>3. /\ Good(heap') /\ Linked(heap', from')
      /\ \A x \in Roots : heap'.val[x] = IF x \in {S(j) : j \in Keys} THEN NoFlag ELSE heap.val[x]
  BY <1>1, <1>2, ClearStep
<1>4. \A j \in Keys : heap'.val[S(j)] = NoFlag
  BY <1>3, RootNames
<1> QED
  BY <1>1, <1>3, <1>4

LEMMA GetAllFlagsStep ==
  ASSUME Inv, NEW v \in Vars, NEW k \in Keys, GetAllFlags(v, k)
  PROVE  StepTo(StoreFlags) /\ call' = <<"other">>
<1> DEFINE R == {C(j) : j \in Stored}
           f == [x \in R |-> Value(S(x[2]))]
           h == Fresh(heap, R, f)
           g == [x \in {A(v)} |-> h.val[S(k)]]
           l == Fresh(h, {A(v)}, g)
<1>1. /\ ~closed /\ k \in Stored /\ heap' = Copy(l, C(k), A(v))
      /\ from' = [from EXCEPT ![v] = NoFlag]
      /\ written' = written \ Stored /\ call' = <<"other">> /\ closed' = closed
  BY DEF GetAllFlags, WarmWith, StoreGet, Clone
<1>2. /\ Good(heap) /\ Linked(heap, from) /\ Answers(heap, written) /\ written \subseteq Keys
      /\ from \in [Vars -> Keys \cup {NoFlag}]
      /\ heap.val \in [Roots -> Flags \cup {NoFlag}]
  BY <1>1 DEF Inv, Good, Heap
<1>3. /\ A(v) \in Outsiders /\ C(k) \in Outsiders /\ A(v) # C(k) /\ A(v) \in Roots
      /\ \A j \in Keys : C(j) # A(v) /\ S(j) # A(v) /\ C(j) \in Roots /\ S(j) \in Roots
      /\ \A w \in Vars : A(w) \notin R
      /\ \A w \in Vars : A(w) # A(v) => w # v
  BY RootNames, RootKinds DEF Stored
<1>4. R \in SUBSET Roots /\ f \in [R -> Flags \cup {NoFlag}]
  <2>1. \A j \in Stored : C(j) \in Roots /\ C(j)[2] = j /\ heap.val[S(j)] \in Flags \cup {NoFlag}
    BY <1>2, RootNames DEF Stored, C
  <2>2. \A x \in R : f[x] \in Flags \cup {NoFlag}
    BY <2>1 DEF Value
  <2> QED
    BY <2>1, <2>2
<1>5. /\ \A j \in Keys : h.val[S(j)] = heap.val[S(j)]
      /\ \A j \in Stored : h.val[C(j)] = heap.val[S(j)]
      /\ \A j \in Keys \ Stored : h.val[C(j)] = heap.val[C(j)]
  <2>1. h.val = [x \in Roots |-> IF x \in R THEN f[x] ELSE heap.val[x]]
    BY DEF Fresh
  <2>2. \A j \in Keys : S(j) \notin R /\ (C(j) \in R <=> j \in Stored)
    BY RootNames DEF Stored
  <2>3. \A j \in Stored : f[C(j)] = heap.val[S(j)]
    BY DEF C, Value
  <2> HIDE DEF f, R, h
  <2> QED
    BY <1>3, <2>1, <2>2, <2>3 DEF Stored
<1> HIDE DEF f, R
<1>6. Good(h) /\ Linked(h, from)
  BY <1>2, <1>3, <1>4, FreshGood, LinkedFresh
<1> HIDE DEF h
<1>7. {A(v)} \in SUBSET Roots /\ g \in [{A(v)} -> Flags \cup {NoFlag}]
  BY <1>3, <1>6 DEF Good, Heap
<1>8. l.val = Assigned(h.val, A(v), h.val[S(k)])
  BY DEF Fresh, Assigned
<1> HIDE DEF g
<1>9. \A w \in Vars : A(w) \notin {A(v)} => from'[w] = from[w]
  BY <1>1, <1>2, <1>3
<1>10. Good(l)
  BY <1>6, <1>7, FreshGood
<1>11. Linked(l, from')
  <2> DEFINE to == from'
  <2> HIDE DEF to
  <2>1. Linked(Fresh(h, {A(v)}, g), to)
    BY <1>6, <1>7, <1>9, LinkedFresh DEF to
  <2> QED
    BY <2>1 DEF to
<1> HIDE DEF l
<1>12. l.val[A(v)] = heap.val[S(k)] /\ heap.val[S(k)] # NoFlag
  BY <1>1, <1>3, <1>5, <1>8 DEF Assigned, Stored, Value
<1>13. Good(heap') /\ heap'.val = Assigned(l.val, C(k), l.val[A(v)])
  BY <1>1, <1>3, <1>10, <1>12, CopyGood
<1>14. Linked(heap', from')
  <2> DEFINE to == from'
  <2> HIDE DEF to
  <2>1. Linked(Copy(l, C(k), A(v)), to)
    BY <1>3, <1>10, <1>11, <1>12, LinkedCopy DEF to
  <2> QED
    BY <1>1, <2>1 DEF to
<1>15. /\ \A j \in Keys : heap'.val[S(j)] = heap.val[S(j)]
       /\ \A j \in Stored : heap'.val[C(j)] = heap.val[S(j)]
       /\ \A j \in Keys \ Stored : heap'.val[C(j)] = heap.val[C(j)]
  BY <1>1, <1>3, <1>5, <1>8, <1>12, <1>13, RootNames DEF Assigned, Stored
<1>16. Answers(heap', written')
  BY <1>1, <1>2, <1>15 DEF Answers, Stored, Value
<1>17. from' \in [Vars -> Keys \cup {NoFlag}]
  BY <1>1, <1>2
<1> QED
  BY <1>1, <1>2, <1>13, <1>14, <1>15, <1>16, <1>17 DEF StepTo, StoreFlags

LEMMA StepInv == Inv /\ [Next]_vars => Inv'
<1>1. SUFFICES ASSUME Inv, [Next]_vars PROVE Inv'
  OBVIOUS
<1>2. CASE Application
  BY <1>1, <1>2, ApplicationStep, HarmlessInv
<1>3. ASSUME NEW k \in Keys, IsEnabled(k) \/ DeleteFlag(k)
      PROVE  Inv'
  BY <1>1, <1>3, IsEnabledStep, DeleteFlagStep, StepToInv
<1>4. ASSUME NEW k \in Keys, NEW v \in Vars, GetFlag(v, k) \/ SetFlag(v, k) \/ GetAllFlags(v, k)
      PROVE  Inv'
  BY <1>1, <1>4, GetFlagStep, SetFlagStep, GetAllFlagsStep, StepToInv
<1>5. ASSUME NEW k \in Keys, Forget(k)
      PROVE  Inv'
  BY <1>1, <1>5, ForgetStep DEF Inv
<1>6. CASE Close
  BY <1>1, <1>6, CloseStep DEF Inv
<1>7. CASE UNCHANGED vars
  BY <1>1, <1>7 DEF Inv, vars
<1> QED
  BY <1>1, <1>2, <1>3, <1>4, <1>5, <1>6, <1>7 DEF Next, Client

LEMMA AlwaysInv == Spec => []Inv
BY InitInv, StepInv, PTL DEF Spec

\* The heap stays one (sharing is an equivalence, nobody shares a nil pointer),
\* and a closed store stays empty.
THEOREM TypeCorrect == Spec => []TypeOK
<1>1. Inv => TypeOK
  BY DEF Inv, Good, TypeOK, Stored, Value
<1> QED
  BY <1>1, AlwaysInv, PTL

\* What IsEnabled answers from the cache is what the store holds, unless the
\* application has written to a struct that GetFlag returned.
THEOREM EnabledCorrect == Spec => []EnabledIsStored
<1>1. Inv => EnabledIsStored
  BY DEF Inv, Answers, EnabledIsStored, Cached, Stored, Value
<1> QED
  BY <1>1, AlwaysInv, PTL

(***************************************************************************)
(* The memory store implements the map of values.                          *)
(***************************************************************************)
LEMMA MapInit == Init => Map!Init
<1>1. SUFFICES ASSUME Init PROVE Map!Init
  OBVIOUS
<1>2. \A k \in Keys : Value(S(k)) = NoFlag
  BY <1>1, RootNames DEF Init, Value
<1> QED
  BY <1>1, <1>2 DEF Init, Map!Init

LEMMA MapStep == Inv /\ [Next]_vars => [Map!Next]_Map!vars
<1>1. SUFFICES ASSUME Inv, [Next]_vars PROVE Map!Next \/ UNCHANGED Map!vars
  OBVIOUS
<1>2. ASSUME \A k \in Keys : heap'.val[S(k)] = heap.val[S(k)], closed' = closed, call' = <<"other">>
      PROVE  Map!Next
  BY <1>2 DEF Map!Next, Map!Other, Value
<1>3. CASE Application
  BY <1>1, <1>2, <1>3, ApplicationStep DEF Harmless
<1>4. ASSUME NEW k \in Keys, IsEnabled(k)
      PROVE  Map!Next
  BY <1>1, <1>2, <1>4, IsEnabledStep DEF StepTo, StoreFlags
<1>5. ASSUME NEW k \in Keys, NEW v \in Vars, GetFlag(v, k) \/ GetAllFlags(v, k)
      PROVE  Map!Next
  BY <1>1, <1>2, <1>5, GetFlagStep, GetAllFlagsStep DEF StepTo, StoreFlags
<1>6. ASSUME NEW k \in Keys, Forget(k)
      PROVE  Map!Next
  BY <1>1, <1>2, <1>6, ForgetStep
<1>7. ASSUME NEW k \in Keys, NEW v \in Vars, SetFlag(v, k)
      PROVE  Map!Next
  <2>1. /\ StepTo([StoreFlags EXCEPT ![k] = heap.val[A(v)]])
        /\ call' = <<"set", k, heap.val[A(v)]>> /\ heap.val[A(v)] \in Flags
    BY <1>1, <1>7, SetFlagStep
  <2>2. [j \in Keys |-> heap'.val[S(j)]] = [StoreFlags EXCEPT ![k] = heap.val[A(v)]]
    BY <2>1 DEF StepTo, StoreFlags
  <2>3. Map!Set(k, heap.val[A(v)])
    BY <2>1, <2>2 DEF StepTo, StoreFlags, Map!Set, Value
  <2> QED
    BY <2>1, <2>3 DEF Map!Next
<1>8. ASSUME NEW k \in Keys, DeleteFlag(k)
      PROVE  Map!Next
  <2>1. /\ StepTo([StoreFlags EXCEPT ![k] = NoFlag])
        /\ call' = <<"delete", k>> /\ heap.val[S(k)] # NoFlag
    BY <1>1, <1>8, DeleteFlagStep
  <2>2. [j \in Keys |-> heap'.val[S(j)]] = [StoreFlags EXCEPT ![k] = NoFlag]
    BY <2>1 DEF StepTo, StoreFlags
  <2>3. Map!Delete(k)
    BY <2>1, <2>2 DEF StepTo, StoreFlags, Map!Delete, Value
  <2> QED
    BY <2>3 DEF Map!Next
<1>9. CASE Close
  <2>1. /\ ~closed /\ closed' = TRUE /\ call' = <<"close">>
        /\ \A j \in Keys : heap'.val[S(j)] = NoFlag
    BY <1>1, <1>9, CloseStep
  <2>2. Map!Close
    BY <2>1 DEF Map!Close, Value
  <2> QED
    BY <2>2 DEF Map!Next
<1>10. CASE UNCHANGED vars
  BY <1>10 DEF vars, Map!vars, Value
<1> QED
  BY <1>1, <1>3, <1>4, <1>5, <1>6, <1>7, <1>8, <1>9, <1>10 DEF Next, Client

\* Whatever the application does to the flags it passes in and gets back, the
\* memory store is a map of values that its calls alone change.
THEOREM StoreIsMap == Spec => ImplementsFlagMap
<1>1. Spec => Map!Init /\ [][Map!Next]_Map!vars
  BY MapInit, AlwaysInv, MapStep, PTL DEF Spec
<1> QED
  BY <1>1 DEF ImplementsFlagMap, Map!Spec
=============================================================================
