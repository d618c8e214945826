------------------------------- MODULE FlagMap -------------------------------
(***************************************************************************)
(* What a store promises: a map from keys to flags, which are values - they *)
(* change by the calls of the store, and by nothing else.                  *)
(***************************************************************************)
CONSTANTS
  Keys,
  Flags,   \* the flags, as values
  NoFlag   \* "not there"

VARIABLES
  flags,   \* the map
  closed,
  call     \* the call just made, with its arguments

vars == <<flags, closed, call>>

Init ==
  /\ flags = [k \in Keys |-> NoFlag]
  /\ closed = FALSE
  /\ call = <<"other">>

Set(k, flag) ==
  /\ ~closed
  /\ flags' = [flags EXCEPT ![k] = flag]
  /\ call' = <<"set", k, flag>>
  /\ UNCHANGED closed

Delete(k) ==
  /\ ~closed
  /\ flags[k] # NoFlag
  /\ flags' = [flags EXCEPT ![k] = NoFlag]
  /\ call' = <<"delete", k>>
  /\ UNCHANGED closed

Close ==
  /\ ~closed
  /\ flags' = [k \in Keys |-> NoFlag]
  /\ closed' = TRUE
  /\ call' = <<"close">>

\* A call that only reads, or no call at all.
Other ==
  /\ call' = <<"other">>
  /\ UNCHANGED <<flags, closed>>

Next ==
  \/ \E k \in Keys, flag \in Flags : Set(k, flag)
  \/ \E k \in Keys : Delete(k)
  \/ Close
  \/ Other

Spec == Init /\ [][Next]_vars
=============================================================================
