------------------------------ MODULE MCClient ------------------------------
(* Small instances of Client for TLC. *)
EXTENDS Client, TLC

CONSTANTS k1, k2, c1, c2, g1, g2

OneKey == {k1}
TwoKeys == {k1, k2}
OneClient == {c1}
TwoClients == {c1, c2}
OneCaller == {g1}
TwoCallers == {g1, g2}

\* Two goroutines of one client; one goroutine alone (other clients only start).
SharedOwner == [g \in TwoCallers |-> c1]
SoleOwner == [g \in OneCaller |-> c1]

OneDefault == <<k1>>
TwoDefaults == <<k1, k2>>
=============================================================================
