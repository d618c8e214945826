----------------------------- MODULE FlagObjects -----------------------------
(***************************************************************************)
(* Who shares memory with whom: the FeatureFlag structs and their Metadata *)
(* maps that the memory store, the cache and the application hold.         *)
(*                                                                         *)
(* Addresses do not matter, only which of the variables that refer to a    *)
(* struct refer to the same one (same), and which structs refer to the     *)
(* same Metadata map (shares).  A variable is an entry of the store's map, *)
(* an entry of the cache, or a variable of the application; a write        *)
(* through one of them is seen through all those that share.               *)
(*                                                                         *)
(* The calls are of one goroutine (CachedStore interleaves them).  The key *)
(* of a call is a parameter, so a struct's Key is left out, and so are the *)
(* fields that are copied like Enabled.  A nil map is taken for an empty   *)
(* one: the application may do more to it than it could.                   *)
(***************************************************************************)
EXTENDS Naturals

CONSTANTS
  Keys,
  Vars,    \* the application's variables
  Maps,    \* what a Metadata map can hold
  NoFlag   \* the nil pointer: "not there"

Flags == [on : BOOLEAN, meta : Maps]

ASSUME NoFlagAssumption == NoFlag \notin Flags /\ NoFlag \notin Keys

VARIABLES
  heap,     \* for every variable its flag, and the variables it shares with
  closed,   \* the client is closed
  call,     \* the call of the store just made, with its arguments
  from,     \* history: the key for which GetFlag returned what a variable refers to
  written   \* history: the keys whose flag in the cache the application may have
            \* written to, through a struct that GetFlag returned

vars == <<heap, closed, call, from, written>>

S(k) == <<"store", k>>
C(k) == <<"cache", k>>
A(v) == <<"app", v>>
Roots == {S(k) : k \in Keys} \cup {C(k) : k \in Keys} \cup {A(v) : v \in Vars}

Value(r) == heap.val[r]
Stored == {k \in Keys : Value(S(k)) # NoFlag}
Cached == {k \in Keys : Value(C(k)) # NoFlag}
Held == {v \in Vars : Value(A(v)) # NoFlag}

----------------------------------------------------------------------------
(* Assignments.                                                            *)

Apart(class, R) == [x \in Roots |-> IF x \in R THEN {x} ELSE class[x] \ R]

\* Each variable in R gets a new struct, with a map of its own.
Fresh(h, R, flags) ==
  [val    |-> [x \in Roots |-> IF x \in R THEN flags[x] ELSE h.val[x]],
   same   |-> Apart(h.same, R),
   shares |-> Apart(h.shares, R)]

Clear(h, R) == Fresh(h, R, [x \in R |-> NoFlag])

Merge(class, r, s) ==
  LET both == class[r] \cup class[s]
  IN  [x \in Roots |-> IF x \in both THEN both ELSE class[x]]

\* r = s, for pointers.
PointTo(h, r, s) ==
  LET new == Fresh(h, {r}, [x \in {r} |-> h.val[s]])
  IN  [new EXCEPT !.same = Merge(@, r, s), !.shares = Merge(@, r, s)]

\* *r = *s, for a new *r: the fields are copied, and with them the reference to
\* the map.
Copy(h, r, s) ==
  LET new == Fresh(h, {r}, [x \in {r} |-> h.val[s]])
  IN  [new EXCEPT !.shares = Merge(@, r, s)]

\* r = s.Clone()
Clone(h, r, s) == Fresh(h, {r}, [x \in {r} |-> h.val[s]])

Init ==
  /\ heap = [val    |-> [x \in Roots |-> NoFlag],
             same   |-> [x \in Roots |-> {x}],
             shares |-> [x \in Roots |-> {x}]]
  /\ closed = FALSE
  /\ call = <<"other">>
  /\ from = [v \in Vars |-> NoFlag]
  /\ written = {}

----------------------------------------------------------------------------
(* The application.                                                        *)

NewFlag(v) ==
  /\ \E flag \in Flags : heap' = Fresh(heap, {A(v)}, [x \in {A(v)} |-> flag])
  /\ from' = [from EXCEPT ![v] = NoFlag]
  /\ call' = <<"other">>
  /\ UNCHANGED <<closed, written>>

\* v = w, or a copy of the struct.
Assign(v, w) ==
  /\ w \in Held /\ v # w
  /\ \/ heap' = PointTo(heap, A(v), A(w)) /\ from' = [from EXCEPT ![v] = from[w]]
     \/ heap' = Copy(heap, A(v), A(w)) /\ from' = [from EXCEPT ![v] = NoFlag]
  /\ call' = <<"other">>
  /\ UNCHANGED <<closed, written>>

WriteEnabled(v, on) ==
  /\ v \in Held
  /\ heap' = [heap EXCEPT !.val =
       [x \in Roots |-> IF x \in heap.same[A(v)] THEN [@[x] EXCEPT !.on = on] ELSE @[x]]]
  /\ written' = written \cup ({from[v]} \cap Keys)
  /\ call' = <<"other">>
  /\ UNCHANGED <<closed, from>>

\* An entry of the map is written.
WriteMetadata(v, m) ==
  /\ v \in Held
  /\ heap' = [heap EXCEPT !.val =
       [x \in Roots |-> IF x \in heap.shares[A(v)] THEN [@[x] EXCEPT !.meta = m] ELSE @[x]]]
  /\ call' = <<"other">>
  /\ UNCHANGED <<closed, from, written>>

\* The Metadata field is set to another map.
ReplaceMetadata(v, m) ==
  LET S1 == heap.same[A(v)]
  IN  /\ v \in Held
      /\ heap' = [heap EXCEPT
           !.val = [x \in Roots |-> IF x \in S1 THEN [@[x] EXCEPT !.meta = m] ELSE @[x]],
           !.shares = [x \in Roots |-> IF x \in S1 THEN S1 ELSE @[x] \ S1]]
      /\ call' = <<"other">>
      /\ UNCHANGED <<closed, from, written>>

Application ==
  \/ \E v \in Vars : NewFlag(v)
  \/ \E v, w \in Vars : Assign(v, w)
  \/ \E v \in Vars, on \in BOOLEAN : WriteEnabled(v, on)
  \/ \E v \in Vars, m \in Maps : WriteMetadata(v, m)
  \/ \E v \in Vars, m \in Maps : ReplaceMetadata(v, m)

----------------------------------------------------------------------------
(* The calls of the client, on a memory store with a cache.                *)

\* Mutant: the memory store hands out its own struct.
SharedGet(h, r, k) == PointTo(h, r, S(k))

\* The store's Get, which returns a clone of its flag.
StoreGet(h, r, k) == Clone(h, r, S(k))

\* A miss fills the cache with what the store returns.
Fill(h, k) == IF k \in Cached THEN h ELSE StoreGet(h, C(k), k)

Refilled(k) == IF k \in Cached THEN written ELSE written \ {k}

IsEnabled(k) ==
  /\ ~closed /\ k \in Stored \cup Cached
  /\ heap' = Fill(heap, k)
  /\ written' = Refilled(k)
  /\ call' = <<"other">>
  /\ UNCHANGED <<closed, from>>

\* The application gets the very struct that the cache has.
GetFlag(v, k) ==
  /\ ~closed /\ k \in Stored \cup Cached
  /\ heap' = PointTo(Fill(heap, k), A(v), C(k))
  /\ from' = [from EXCEPT ![v] = k]
  /\ written' = Refilled(k)
  /\ call' = <<"other">>
  /\ UNCHANGED closed

\* The flag is passed by value: the store keeps a clone, the cache a copy.
SetFlag(v, k) ==
  /\ ~closed /\ v \in Held
  /\ heap' = Copy(Clone(heap, S(k), A(v)), C(k), A(v))
  /\ written' = written \ {k}
  /\ call' = <<"set", k, Value(A(v))>>
  /\ UNCHANGED <<closed, from>>

\* The keys of the cache are deleted with those of the store, and only then.
DeleteFlag(k) ==
  /\ ~closed /\ k \in Stored
  /\ heap' = Clear(heap, {S(k), C(k)})
  /\ written' = written \ {k}
  /\ call' = <<"delete", k>>
  /\ UNCHANGED <<closed, from>>

\* Mutant: the cache is warmed with pointers into the slice that is returned.
WarmWithElement(h, v, k) == PointTo(h, C(k), A(v))

\* Clones of all flags, of which the application keeps one; the cache is warmed
\* with copies.
WarmWith(h, v, k) == Copy(h, C(k), A(v))

GetAllFlags(v, k) ==
  LET R == {C(j) : j \in Stored}
      warm == Fresh(heap, R, [x \in R |-> Value(S(x[2]))])
  IN  /\ ~closed /\ k \in Stored
      /\ heap' = WarmWith(StoreGet(warm, A(v), k), v, k)
      /\ from' = [from EXCEPT ![v] = NoFlag]
      /\ written' = written \ Stored
      /\ call' = <<"other">>
      /\ UNCHANGED closed

\* An entry expires or is evicted; a client without a cache behaves as if every
\* entry did so at once.
Forget(k) ==
  /\ k \in Cached
  /\ heap' = Clear(heap, {C(k)})
  /\ written' = written \ {k}
  /\ call' = <<"other">>
  /\ UNCHANGED <<closed, from>>

\* Mutant: the store is left as it is.
KeepAll(h) == h

Emptied(h) == Clear(h, {S(k) : k \in Keys})

\* The store is emptied; the cache keeps what it has.
Close ==
  /\ ~closed
  /\ closed' = TRUE
  /\ heap' = Emptied(heap)
  /\ call' = <<"close">>
  /\ UNCHANGED <<from, written>>

Client ==
  \/ \E k \in Keys : IsEnabled(k) \/ DeleteFlag(k) \/ Forget(k)
  \/ \E v \in Vars, k \in Keys : GetFlag(v, k) \/ SetFlag(v, k) \/ GetAllFlags(v, k)
  \/ Close

Next == Application \/ Client

Spec == Init /\ [][Next]_vars

----------------------------------------------------------------------------
(* Properties.                                                             *)

Heap == [val : [Roots -> Flags \cup {NoFlag}],
         same : [Roots -> SUBSET Roots],
         shares : [Roots -> SUBSET Roots]]

TypeOK ==
  /\ heap \in Heap
  /\ closed \in BOOLEAN
  /\ from \in [Vars -> Keys \cup {NoFlag}]
  /\ written \subseteq Keys
  /\ closed => Stored = {}

\* The memory store is a map of values: whatever the application does to the
\* flags it has been given, or has passed in, what the store holds changes by
\* SetFlag, DeleteFlag and Close only, and is what SetFlag was called with.
Map == INSTANCE FlagMap WITH flags <- [k \in Keys |-> Value(S(k))]
ImplementsFlagMap == Map!Spec

\* What IsEnabled answers from the cache is what the store holds, unless the
\* application has written to a struct that GetFlag returned for that key; the
\* structs that it passes to SetFlag or gets from GetAllFlags are its own.
EnabledIsStored ==
  \A k \in Cached \ written : ~closed => k \in Stored /\ Value(C(k)).on = Value(S(k)).on
=============================================================================
