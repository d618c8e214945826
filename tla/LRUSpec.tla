------------------------------ MODULE LRUSpec ------------------------------
(***************************************************************************)
(* What a flag cache promises to its callers: a partial map from keys to   *)
(* flags that never exceeds MaxSize entries and that makes room by         *)
(* forgetting the key used longest ago.  No locks, no list elements, no    *)
(* clock: expiry shows only as an entry that may be forgotten.             *)
(* cache/cache.go implements this with a map, a linked list and a mutex    *)
(* that is released in the middle of Get; LRUCache shows that it does.     *)
(***************************************************************************)
EXTENDS SequencesExt

CONSTANTS
  Keys,      \* flag keys
  Flags,     \* flag values
  NoFlag,    \* "not cached"
  MaxSize    \* 0 means unlimited

VARIABLES
  value,     \* the cached flag of every key, or NoFlag
  order      \* the cached keys, most recently used first

specVars == <<value, order>>

CachedIn(v) == {k \in Keys : v[k] # NoFlag}

\* order with k promoted to the front
Promoted(k) == Cons(k, RemoveFirst(order, k))

\* The longest prefix of s that fits the cache.
Kept(s) == IF MaxSize > 0 /\ Len(s) > MaxSize THEN SubSeq(s, 1, MaxSize) ELSE s

Init ==
  /\ value = [k \in Keys |-> NoFlag]
  /\ order = <<>>

\* A hit makes a cached key the most recently used one.
Touch(k) ==
  /\ value[k] # NoFlag
  /\ order' = Promoted(k)
  /\ UNCHANGED value

\* A write makes k the most recently used key and forgets what no longer fits.
Store(k, f) ==
  /\ order' = Kept(Promoted(k))
  /\ value' = [j \in Keys |->
                 CASE j = k                       -> f
                   [] j # k /\ Contains(order', j)  -> value[j]
                   [] OTHER                       -> NoFlag]

\* Deletion, or expiry, of one key.
Drop(k) ==
  /\ value[k] # NoFlag
  /\ value' = [value EXCEPT ![k] = NoFlag]
  /\ order' = RemoveFirst(order, k)

Clear ==
  /\ value' = [k \in Keys |-> NoFlag]
  /\ order' = <<>>

Next ==
  \/ \E k \in Keys : Touch(k) \/ Drop(k)
  \/ \E k \in Keys, f \in Flags : Store(k, f)
  \/ Clear

Spec == Init /\ [][Next]_specVars
=============================================================================
