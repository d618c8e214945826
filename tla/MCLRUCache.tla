---------------------------- MODULE MCLRUCache -----------------------------
(* Small instances of LRUCache for TLC. *)
EXTENDS LRUCache

CONSTANTS k1, k2, k3, f1, f2, p1, p2

TwoKeys == {k1, k2}
ThreeKeys == {k1, k2, k3}
OneFlag == {f1}
TwoFlags == {f1, f2}
TwoProcs == {p1, p2}
ThreeIds == 1..3

\* Keys are interchangeable, and so are flags and goroutines.
Symmetric3 == Permutations(ThreeKeys) \cup Permutations(TwoFlags) \cup Permutations(TwoProcs)
============================================================================
