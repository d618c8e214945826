--------------------------- MODULE MCCachedStore ---------------------------
(* Small instances of CachedStore for TLC. *)
EXTENDS CachedStore, TLC

CONSTANTS k1, k2, c1, c2, g1, g2, g3

OneKey == {k1}
TwoKeys == {k1, k2}
OneClient == {c1}
TwoClients == {c1, c2}
TwoCallers == {g1, g2}
ThreeCallers == {g1, g2, g3}

\* Two goroutines of one client; two clients with one each; two goroutines of
\* one client and one of another.
SharedOwner == [g \in TwoCallers |-> c1]
SeparateOwners == (g1 :> c1) @@ (g2 :> c2)
MixedOwners == (g1 :> c1) @@ (g2 :> c1) @@ (g3 :> c2)

\* With separate owners the keys are interchangeable, and so are the clients if
\* their goroutines go with them.
ClientsSwapped == (c1 :> c2) @@ (c2 :> c1) @@ (g1 :> g2) @@ (g2 :> g1)
Symmetry == Permutations(TwoKeys) \cup {ClientsSwapped}
============================================================================
