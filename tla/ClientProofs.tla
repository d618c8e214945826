---------------------------- MODULE ClientProofs ----------------------------
(* Proofs about Client, for any number of clients, goroutines and keys, any *)
(* sequence of default flags and every backend.                             *)
EXTENDS Client, SequenceTheorems, TLAPS

(* Why Close is safe.  A client whose flag is set has given its lock back   *)
(* only after closing the store; and before NewClient returns there is      *)
(* nobody to call Close.                                                    *)
CloseInv ==
    /\ ClosesOnce
    /\ CloseReturnsClosed
    /\ \A c \in Clients :
           /\ closed[c] /\ mu[c] = Nobody => conn[c] = "closed"
           /\ ~closed[c] => mu[c] = Nobody
           /\ phase[c] # "absent" /\ ~closed[c] => conn[c] = "open"
           /\ phase[c] # "open" => ~closed[c]
    /\ \A g \in Callers :
           /\ pc[g] = "closing" => closed[Owner[g]]
           /\ pc[g] \in {"locking", "closing"} => call[g].method = "Close"
           /\ phase[Owner[g]] # "open" => answer[g].method # "Close"

(* Why the defaults are loaded and spare what is old.  The flags called old *)
(* are present; the defaults passed so far are present or excused.          *)
DefaultsInv ==
    /\ DefaultsSpareOld
    /\ \A c \in Clients :
           /\ phase[c] # "absent" => old[c] \subseteq Present(c)
           /\ phase[c] = "absent" => next[c] = 1
           /\ phase[c] = "open" => next[c] = Len(Defaults) + 1
           /\ phase[c] # "absent" /\ conn[c] = "open" =>
                  \A i \in 1..(next[c] - 1) :
                      Flag(c, Defaults[i]) # "none" \/ Defaults[i] \in excused[c]

LEMMA TypeInit == Init => TypeOK
BY DefaultsAssumption DEF Init, TypeOK, Present, Flag, Home, Stores, NoCall, Call, Said

LEMMA HomeIsAStore == ASSUME NEW c \in Clients PROVE Home(c) \in Stores
BY DEF Home, Stores

LEMMA TypeNext == TypeOK /\ [Next]_vars => TypeOK'
<1>. SUFFICES ASSUME TypeOK, [Next]_vars PROVE TypeOK'
  OBVIOUS
<1>. USE OwnerAssumption, DefaultsAssumption, HomeIsAStore DEF TypeOK, Said, Call, NoCall
<1>1. ASSUME NEW c \in Clients, Connect(c) PROVE TypeOK'
  BY <1>1 DEF Connect, callVars, Present
<1>2. ASSUME NEW c \in Clients, LoadDefaults(c) PROVE TypeOK'
  <2>1. CASE CheckDefault(c)
    <3>1. Len(Defaults) \in Nat /\ next[c] \in 1..Len(Defaults)
      BY <2>1 DEF CheckDefault
    <3>2. CASE Flag(c, Defaults[next[c]]) # "none"
      <4>1. phase[c] = "checking" /\ NextDefault(c) /\ UNCHANGED <<store, callVars, history>>
        BY <2>1, <3>2 DEF CheckDefault
      <4>2. next' \in [Clients -> 1..(Len(Defaults) + 1)]
        BY <3>1, <4>1 DEF NextDefault
      <4>3. \A d \in Clients : phase'[d] = "setting" => next'[d] <= Len(Defaults)
        BY <3>1, <4>1 DEF NextDefault
      <4>. QED
        BY <4>1, <4>2, <4>3 DEF NextDefault, callVars, history
    <3>3. CASE ~(Flag(c, Defaults[next[c]]) # "none")
      BY <2>1, <3>1, <3>3 DEF CheckDefault, callVars, history
    <3>. QED
      BY <3>2, <3>3
  <2>2. CASE DefaultFails(c)
    BY <2>2 DEF DefaultFails, NextDefault, callVars
  <2>3. CASE SetDefault(c)
    <3>1. Defaults[next[c]] \in Keys
      BY <2>3 DEF SetDefault
    <3>. QED
      BY <2>3, <3>1 DEF SetDefault, NextDefault, Put, callVars, history
  <2>4. CASE DefaultsDone(c)
    BY <2>4 DEF DefaultsDone, callVars, history
  <2>. QED
    BY <1>2, <2>1, <2>2, <2>3, <2>4 DEF LoadDefaults
<1>3. ASSUME NEW g \in Callers, Begin(g) PROVE TypeOK'
  <2>1. ASSUME NEW m \in Methods, RefuseKey(g, m) \/ RefuseClosed(g, m) PROVE TypeOK'
    <3>1. PICK said \in {"invalid", "closed"} : Refuse(g, m, said)
      BY <2>1 DEF RefuseKey, RefuseClosed
    <3>. QED
      BY <3>1 DEF Refuse, clientVars, history
  <2>2. ASSUME NEW m \in KeyMethods, NEW k \in Keys, Enter(g, m, k) PROVE TypeOK'
    BY <2>2 DEF Enter, Call, Methods, clientVars, history
  <2>3. ASSUME NEW m \in Methods \ KeyMethods, Enter(g, m, BadKey) PROVE TypeOK'
    BY <2>3 DEF Enter, Call, clientVars, history
  <2>4. CASE GetMetrics(g)
    BY <2>4 DEF GetMetrics, Refuse, clientVars, history
  <2>5. CASE Close(g)
    BY <2>5 DEF Close, Call, clientVars, history
  <2>. QED
    BY <1>3, <2>1, <2>2, <2>3, <2>4, <2>5 DEF Begin
<1>4. ASSUME NEW g \in Callers, InStore(g) PROVE TypeOK'
  <2>. USE <1>4 DEF Return
  <2>1. CASE StoreFails(g)
    BY <2>1 DEF StoreFails, clientVars, history
  <2>2. CASE StoreIsAsked(g)
    <3>. DEFINE flag == Flag(Owner[g], call[g].key)
    <3>1. pc[g] = "store" /\ call[g].key \in Keys /\ call[g].method \in KeyMethods
      BY <2>2 DEF StoreIsAsked, KeyMethods
    <3>2. flag \in {"none", "on", "off"}
      BY <3>1 DEF Flag
    <3>3. PICK said \in {"none", "on", "off"} : Return(g, said)
      BY <2>2, <3>2 DEF StoreIsAsked
    <3>. QED
      BY <2>2, <3>3 DEF StoreIsAsked, Methods, KeyMethods, clientVars, history
  <2>3. CASE StoreAnswersForAll(g)
    BY <2>3 DEF StoreAnswersForAll, clientVars, history
  <2>4. CASE StoreDeletes(g)
    BY <2>4 DEF StoreDeletes, Forget, clientVars, KeyMethods
  <2>5. CASE StoreHasNothingToDelete(g)
    BY <2>5 DEF StoreHasNothingToDelete, clientVars, history
  <2>6. ASSUME NEW value \in {"on", "off"}, StoreSets(g, value) PROVE TypeOK'
    BY <2>6 DEF StoreSets, Put, clientVars, history, KeyMethods
  <2>. QED
    BY <2>1, <2>2, <2>3, <2>4, <2>5, <2>6 DEF InStore
<1>5. ASSUME NEW g \in Callers, InClose(g) PROVE TypeOK'
  <2>. USE <1>5
  <2>1. CASE CloseAgain(g)
    BY <2>1 DEF CloseAgain, Return, clientVars, history
  <2>2. CASE CloseFirst(g)
    BY <2>2 DEF CloseFirst, history
  <2>3. CASE CloseStore(g)
    <3>1. ~Remote => Owner[g] \in Stores
      BY DEF Stores
    <3>2. PICK said \in {"ok", "error"} : Return(g, said)
      BY <2>3 DEF CloseStore
    <3>3. store' \in [Stores -> [Keys -> {"none", "on", "off"}]]
      <4>1. CASE Remote
        BY <2>3, <4>1 DEF CloseStore
      <4>2. CASE ~Remote
        <5>1. store' = [store EXCEPT ![Owner[g]] = [k \in Keys |-> "none"]]
          BY <2>3, <4>2 DEF CloseStore
        <5>. QED
          BY <5>1, <4>2, <3>1
      <4>. QED
        BY <4>1, <4>2
    <3>. QED
      BY <2>3, <3>2, <3>3 DEF CloseStore, Return, history
  <2>. QED
    BY <2>1, <2>2, <2>3 DEF InClose
<1>6. CASE UNCHANGED vars
  BY <1>6 DEF vars, clientVars, callVars, history
<1>. QED
  BY <1>1, <1>2, <1>3, <1>4, <1>5, <1>6 DEF Next

(* Every variable has its type: no goroutine reaches the store with a key   *)
(* that was not validated, or before NewClient has returned.                *)
THEOREM TypeCorrect == Spec => []TypeOK
BY TypeInit, TypeNext, PTL DEF Spec

LEMMA CloseInit == Init => CloseInv
BY OwnerAssumption DEF Init, CloseInv, ClosesOnce, CloseReturnsClosed, Said

LEMMA CloseNext == TypeOK /\ CloseInv /\ [Next]_vars => CloseInv'
<1>. SUFFICES ASSUME TypeOK, CloseInv, [Next]_vars PROVE CloseInv'
  OBVIOUS
<1>. USE OwnerAssumption, NamesAssumption DEF CloseInv, ClosesOnce, CloseReturnsClosed, TypeOK
<1>1. ASSUME NEW c \in Clients, Connect(c) PROVE CloseInv'
  BY <1>1 DEF Connect, callVars
<1>2. ASSUME NEW c \in Clients, LoadDefaults(c) PROVE CloseInv'
  BY <1>2 DEF LoadDefaults, CheckDefault, DefaultFails, SetDefault, DefaultsDone,
              NextDefault, callVars
<1>3. ASSUME NEW g \in Callers, Begin(g) PROVE CloseInv'
  <2>1. ASSUME NEW m \in Methods \union {"GetMetrics"}, NEW said, Refuse(g, m, said)
        PROVE  CloseInv'
    <3>1. m # "Close"
      BY DEF Methods, KeyMethods
    <3>. QED
      BY <2>1, <3>1 DEF Refuse, Said, clientVars
  <2>2. ASSUME NEW m \in Methods, NEW k, Enter(g, m, k) PROVE CloseInv'
    BY <2>2 DEF Enter, clientVars
  <2>3. CASE Close(g)
    BY <2>3 DEF Close, Call, clientVars
  <2>. QED
    BY <1>3, <2>1, <2>2, <2>3 DEF Begin, RefuseKey, RefuseClosed, GetMetrics, Methods
<1>4. ASSUME NEW g \in Callers, InStore(g) PROVE CloseInv'
  <2>1. pc[g] = "store" /\ call[g].method # "Close" /\ UNCHANGED clientVars
    BY <1>4 DEF InStore, StoreFails, StoreIsAsked, StoreAnswersForAll, StoreDeletes,
                StoreHasNothingToDelete, StoreSets, Methods, KeyMethods
  <2>2. PICK said : Return(g, said)
    BY <1>4 DEF InStore, StoreFails, StoreIsAsked, StoreAnswersForAll, StoreDeletes,
                StoreHasNothingToDelete, StoreSets
  <2>. QED
    BY <2>1, <2>2 DEF Return, NoCall, Call, Said, clientVars
<1>5. ASSUME NEW g \in Callers, InClose(g) PROVE CloseInv'
  <2>1. CASE CloseAgain(g)
    BY <2>1 DEF CloseAgain, Return, NoCall, Call, Said, clientVars
  <2>2. CASE CloseFirst(g)
    BY <2>2 DEF CloseFirst
  <2>3. CASE CloseStore(g)
    <3>1. PICK said : Return(g, said)
      BY <2>3 DEF CloseStore
    <3>. QED
      BY <2>3, <3>1 DEF CloseStore, Return, NoCall, Call, Said
  <2>. QED
    BY <1>5, <2>1, <2>2, <2>3 DEF InClose
<1>6. CASE UNCHANGED vars
  BY <1>6 DEF vars, clientVars, callVars
<1>. QED
  BY <1>1, <1>2, <1>3, <1>4, <1>5, <1>6 DEF Next

(* When a Close returns, whichever of several it was, the store is closed.  *)
THEOREM CloseCorrect == Spec => []CloseReturnsClosed
<1>1. CloseInv => CloseReturnsClosed
  BY DEF CloseInv
<1>. QED
  BY <1>1, TypeInit, TypeNext, CloseInit, CloseNext, PTL DEF Spec

(* The store is closed once, under the lock.                                *)
THEOREM CloseOnceCorrect == Spec => []ClosesOnce
<1>1. CloseInv => ClosesOnce
  BY DEF CloseInv
<1>. QED
  BY <1>1, TypeInit, TypeNext, CloseInit, CloseNext, PTL DEF Spec

LEMMA DefaultsInit == Init => DefaultsInv
BY DefaultsAssumption DEF Init, DefaultsInv, DefaultsSpareOld

(* The flags of a client whose store, phase and history a step leaves alone. *)
LEMMA DefaultsUnchanged ==
    ASSUME DefaultsInv, UNCHANGED <<store, phase, next, conn, history>>
    PROVE  DefaultsInv'
BY DEF DefaultsInv, DefaultsSpareOld, Present, Flag, history

(* Writing a flag takes none away.                                          *)
LEMMA PutKeepsFlags ==
    ASSUME TypeOK, NEW c \in Clients, NEW k \in Keys, NEW value \in {"on", "off"},
           Put(c, k, value)
    PROVE  /\ \A d \in Clients, j \in Keys : Flag(d, j) # "none" => Flag(d, j)' # "none"
           /\ Flag(c, k)' # "none"
           /\ UNCHANGED history
BY HomeIsAStore DEF Put, Flag, TypeOK

LEMMA DefaultsGrow ==
    ASSUME TypeOK, DefaultsInv, UNCHANGED <<phase, next, conn, history>>,
           \A d \in Clients, j \in Keys : Flag(d, j) # "none" => Flag(d, j)' # "none"
    PROVE  DefaultsInv'
BY DefaultsAssumption DEF DefaultsInv, DefaultsSpareOld, Present, TypeOK, history

LEMMA DefaultsNext == TypeOK /\ CloseInv /\ DefaultsInv /\ [Next]_vars => DefaultsInv'
<1>. SUFFICES ASSUME TypeOK, CloseInv, DefaultsInv, [Next]_vars PROVE DefaultsInv'
  OBVIOUS
<1>. USE OwnerAssumption, DefaultsAssumption
<1>0. Len(Defaults) \in Nat /\ \A i \in 1..Len(Defaults) : Defaults[i] \in Keys
  OBVIOUS
<1>1. ASSUME NEW c \in Clients, Connect(c) PROVE DefaultsInv'
  BY <1>0, <1>1 DEF Connect, DefaultsInv, DefaultsSpareOld, Present, Flag, TypeOK
<1>2. ASSUME NEW c \in Clients, LoadDefaults(c) PROVE DefaultsInv'
  <2>. DEFINE k == Defaults[next[c]]
  <2>1. ASSUME next[c] \in 1..Len(Defaults), phase[c] \in {"checking", "setting"},
               NextDefault(c), UNCHANGED old,
               \A d \in Clients : excused[d] \subseteq excused'[d],
               \A d \in Clients, j \in Keys : Flag(d, j) # "none" => Flag(d, j)' # "none",
               store'[Home(c)][k] # "none" \/ k \in excused'[c]
        PROVE  DefaultsInv'
    <3>1. \A d \in Clients : phase'[d] # "absent" => old'[d] \subseteq Present(d)'
      BY <1>0, <2>1 DEF NextDefault, DefaultsInv, Present, TypeOK
    <3>2. \A d \in Clients : phase'[d] = "setting" => Defaults[next'[d]] \notin old'[d]
      BY <2>1 DEF NextDefault, DefaultsInv, DefaultsSpareOld, TypeOK
    <3>3. \A d \in Clients :
            /\ phase'[d] = "absent" => next'[d] = 1
            /\ phase'[d] = "open" => next'[d] = Len(Defaults) + 1
      BY <2>1 DEF NextDefault, DefaultsInv, TypeOK
    <3>4. ASSUME NEW d \in Clients, phase'[d] # "absent", conn'[d] = "open",
                 NEW i \in 1..(next'[d] - 1)
          PROVE  Flag(d, Defaults[i])' # "none" \/ Defaults[i] \in excused'[d]
      <4>1. next[d] \in 1..(Len(Defaults) + 1) /\ phase[d] # "absent" /\ conn[d] = "open"
        BY <2>1, <3>4 DEF NextDefault, TypeOK
      <4>2. CASE d = c /\ i = next[c]
        BY <2>1, <4>2 DEF Flag
      <4>3. CASE ~(d = c /\ i = next[c])
        <5>1. i \in 1..(next[d] - 1)
          BY <1>0, <2>1, <3>4, <4>1, <4>3 DEF NextDefault, TypeOK
        <5>2. Flag(d, Defaults[i]) # "none" \/ Defaults[i] \in excused[d]
          BY <4>1, <5>1 DEF DefaultsInv
        <5>3. Defaults[i] \in Keys
          BY <1>0, <4>1, <5>1
        <5>. QED
          BY <2>1, <5>2, <5>3
      <4>. QED
        BY <4>2, <4>3
    <3>5. DefaultsSpareOld'
      BY <3>2 DEF DefaultsSpareOld
    <3>. QED
      BY <3>1, <3>3, <3>4, <3>5 DEF DefaultsInv
  <2>2. CASE CheckDefault(c)
    <3>1. next[c] \in 1..Len(Defaults)
      BY <1>0, <2>2 DEF CheckDefault, TypeOK
    <3>2. CASE Flag(c, k) # "none"
      <4>1. NextDefault(c) /\ UNCHANGED <<store, history>> /\ phase[c] = "checking"
        BY <2>2, <3>2 DEF CheckDefault
      <4>2. /\ \A d \in Clients, j \in Keys : Flag(d, j) # "none" => Flag(d, j)' # "none"
            /\ UNCHANGED <<old, excused>>
        BY <4>1 DEF Flag, history
      <4>3. store'[Home(c)][k] # "none"
        BY <3>2, <4>1 DEF Flag
      <4>. QED
        BY <2>1, <3>1, <4>1, <4>2, <4>3
    <3>3. CASE ~(Flag(c, k) # "none")
      <4>1. /\ phase' = [phase EXCEPT ![c] = "setting"]
            /\ UNCHANGED <<next, conn, store, old, excused>>
            /\ phase[c] = "checking"
        BY <2>2, <3>3 DEF CheckDefault, history
      <4>2. k \notin old[c]
        BY <3>3, <4>1 DEF DefaultsInv, Present
      <4>. QED
        BY <4>1, <4>2 DEF DefaultsInv, DefaultsSpareOld, Present, Flag, TypeOK
    <3>. QED
      BY <3>2, <3>3
  <2>3. CASE DefaultFails(c)
    <3>1. next[c] \in 1..Len(Defaults)
      BY <1>0, <2>3 DEF DefaultFails, TypeOK
    <3>2. /\ k \in excused'[c]
          /\ \A d \in Clients : excused[d] \subseteq excused'[d]
          /\ UNCHANGED <<store, old>>
      BY <2>3 DEF DefaultFails, TypeOK
    <3>. QED
      BY <2>1, <2>3, <3>1, <3>2 DEF DefaultFails, Flag
  <2>4. CASE SetDefault(c)
    <3>1. next[c] \in 1..Len(Defaults) /\ phase[c] = "setting"
      BY <1>0, <2>4 DEF SetDefault, TypeOK
    <3>2. k \in Keys /\ Put(c, k, "on") /\ NextDefault(c)
      BY <1>0, <2>4, <3>1 DEF SetDefault
    <3>3. store'[Home(c)][k] # "none"
      BY <3>2, HomeIsAStore DEF Put, TypeOK
    <3>4. /\ \A d \in Clients, j \in Keys : Flag(d, j) # "none" => Flag(d, j)' # "none"
          /\ UNCHANGED <<old, excused>>
      BY <3>2, PutKeepsFlags DEF history
    <3>. QED
      BY <2>1, <3>1, <3>2, <3>3, <3>4
  <2>5. CASE DefaultsDone(c)
    <3>1. next[c] = Len(Defaults) + 1
      BY <1>0, <2>5 DEF DefaultsDone, TypeOK
    <3>. QED
      BY <2>5, <3>1 DEF DefaultsDone, DefaultsInv, DefaultsSpareOld, Present, Flag,
                        TypeOK, history
  <2>. QED
    BY <1>2, <2>2, <2>3, <2>4, <2>5 DEF LoadDefaults
<1>3. ASSUME NEW g \in Callers, Begin(g) PROVE DefaultsInv'
  <2>1. UNCHANGED <<store, phase, next, conn, history>>
    BY <1>3 DEF Begin, RefuseKey, RefuseClosed, GetMetrics, Refuse, Enter, Close, clientVars
  <2>. QED
    BY <2>1, DefaultsUnchanged
<1>4. ASSUME NEW g \in Callers, InStore(g) PROVE DefaultsInv'
  <2>1. ASSUME UNCHANGED <<store, clientVars, history>> PROVE DefaultsInv'
    BY <2>1, DefaultsUnchanged DEF clientVars
  <2>2. CASE StoreDeletes(g)
    <3>. DEFINE k == call[g].key  s == Home(Owner[g])
    <3>1. k \in Keys /\ Owner[g] \in Clients
      BY <2>2 DEF StoreDeletes, TypeOK, KeyMethods
    <3>2. Forget(Owner[g], k) /\ UNCHANGED <<phase, next, conn>>
      BY <2>2 DEF StoreDeletes, clientVars
    <3>3. \A d \in Clients :
            /\ old'[d] = IF Home(d) = s THEN old[d] \ {k} ELSE old[d]
            /\ excused'[d] = IF Home(d) = s THEN excused[d] \union {k} ELSE excused[d]
      BY <3>2 DEF Forget
    <3>4. \A d \in Clients, j \in Keys :
            Home(d) # s \/ j # k => store'[Home(d)][j] = store[Home(d)][j]
      BY <3>1, <3>2, HomeIsAStore DEF Forget, TypeOK
    <3>5. \A d \in Clients : phase[d] # "absent" => old'[d] \subseteq Present(d)'
      <4>1. ASSUME NEW d \in Clients, phase[d] # "absent", NEW j \in old'[d]
            PROVE  j \in Keys /\ store'[Home(d)][j] # "none"
        <5>1. j \in Keys /\ j \in old[d] /\ store[Home(d)][j] # "none"
          BY <3>3, <4>1 DEF DefaultsInv, Present, Flag
        <5>2. Home(d) # s \/ j # k
          BY <3>3, <4>1
        <5>. QED
          BY <3>4, <5>1, <5>2
      <4>. QED
        BY <4>1 DEF Present, Flag
    <3>6. \A d \in Clients : phase[d] = "setting" => Defaults[next[d]] \notin old'[d]
      BY <3>3 DEF DefaultsInv, DefaultsSpareOld
    <3>7. ASSUME NEW d \in Clients, phase[d] # "absent", conn[d] = "open",
                 NEW i \in 1..(next[d] - 1)
          PROVE  store'[Home(d)][Defaults[i]] # "none" \/ Defaults[i] \in excused'[d]
      <4>1. Flag(d, Defaults[i]) # "none" \/ Defaults[i] \in excused[d]
        BY <3>7 DEF DefaultsInv
      <4>2. Defaults[i] \in Keys
        BY <1>0 DEF TypeOK
      <4>. QED
        BY <3>3, <3>4, <4>1, <4>2 DEF Flag
    <3>. QED
      BY <3>2, <3>5, <3>6, <3>7 DEF DefaultsInv, DefaultsSpareOld, Flag
  <2>3. ASSUME NEW value \in {"on", "off"}, StoreSets(g, value) PROVE DefaultsInv'
    <3>1. call[g].key \in Keys /\ Put(Owner[g], call[g].key, value)
      BY <2>3 DEF StoreSets, TypeOK, KeyMethods
    <3>. QED
      BY <2>3, <3>1, PutKeepsFlags, DefaultsGrow DEF StoreSets, clientVars
  <2>. QED
    BY <1>4, <2>1, <2>2, <2>3 DEF InStore, StoreFails, StoreIsAsked, StoreAnswersForAll,
                                  StoreHasNothingToDelete
<1>5. ASSUME NEW g \in Callers, InClose(g) PROVE DefaultsInv'
  <2>1. CASE CloseAgain(g)
    BY <2>1, DefaultsUnchanged DEF CloseAgain, clientVars
  <2>2. CASE CloseFirst(g)
    BY <2>2, DefaultsUnchanged DEF CloseFirst
  <2>3. CASE CloseStore(g)
    <3>1. conn' = [conn EXCEPT ![Owner[g]] = "closed"] /\ UNCHANGED <<phase, next, excused>>
      BY <2>3 DEF CloseStore
    <3>2. phase[Owner[g]] = "open"
      BY <2>3 DEF CloseStore, TypeOK
    <3>3. CASE Remote
      BY <2>3, <3>1, <3>2, <3>3 DEF CloseStore, DefaultsInv, DefaultsSpareOld, Present,
                                    Flag, TypeOK
    <3>4. CASE ~Remote
      <4>1. \A d \in Clients : Home(d) = d
        BY <3>4 DEF Home
      <4>2. old' = [old EXCEPT ![Owner[g]] = {}]
        BY <2>3, <3>4 DEF CloseStore
      <4>3. \A d \in Clients : d # Owner[g] => store'[d] = store[d]
        BY <2>3, <3>4 DEF CloseStore, TypeOK, Stores
      <4>. QED
        <5>1. \A d \in Clients : phase[d] # "absent" => old'[d] \subseteq Present(d)'
          <6>1. ASSUME NEW d \in Clients, phase[d] # "absent", NEW j \in old'[d]
                PROVE  j \in Keys /\ store'[Home(d)][j] # "none"
            <7>1. d # Owner[g] /\ j \in old[d]
              BY <4>2, <6>1 DEF TypeOK
            <7>2. j \in Keys /\ store[Home(d)][j] # "none"
              BY <6>1, <7>1 DEF DefaultsInv, Present, Flag
            <7>. QED
              BY <4>1, <4>3, <7>1, <7>2
          <6>. QED
            BY <6>1 DEF Present, Flag
        <5>2. \A d \in Clients : phase[d] = "setting" => Defaults[next[d]] \notin old'[d]
          BY <4>2 DEF DefaultsInv, DefaultsSpareOld, TypeOK
        <5>3. \A d \in Clients : conn'[d] = "open" => d # Owner[g] /\ conn[d] = "open"
          BY <3>1 DEF TypeOK
        <5>4. \A d \in Clients : phase[d] # "absent" /\ conn'[d] = "open" =>
                \A i \in 1..(next[d] - 1) :
                    store'[Home(d)][Defaults[i]] # "none" \/ Defaults[i] \in excused[d]
          BY <4>1, <4>3, <5>3 DEF DefaultsInv, Flag
        <5>. QED
          BY <3>1, <5>1, <5>2, <5>4 DEF DefaultsInv, DefaultsSpareOld, Flag
    <3>. QED
      BY <3>3, <3>4
  <2>. QED
    BY <1>5, <2>1, <2>2, <2>3 DEF InClose
<1>6. CASE UNCHANGED vars
  BY <1>6, DefaultsUnchanged DEF vars, clientVars
<1>. QED
  BY <1>1, <1>2, <1>3, <1>4, <1>5, <1>6 DEF Next

(* Loading the defaults overwrites no flag that has been in the store ever  *)
(* since the client was started, whatever fails and whoever else writes.    *)
THEOREM DefaultsSpareOldCorrect == Spec => []DefaultsSpareOld
<1>1. DefaultsInv => DefaultsSpareOld
  BY DEF DefaultsInv
<1>. QED
  BY <1>1, TypeInit, TypeNext, CloseInit, CloseNext, DefaultsInit, DefaultsNext, PTL DEF Spec

(* Loading the defaults leaves none out that the store did not refuse.      *)
THEOREM DefaultsLoadedCorrect == Spec => []DefaultsLoaded
<1>1. TypeOK /\ DefaultsInv => DefaultsLoaded
  <2>. SUFFICES ASSUME TypeOK, DefaultsInv, NEW c \in Clients,
                       phase[c] = "open", conn[c] = "open", NEW k \in DefaultKeys
                PROVE  Flag(c, k) # "none" \/ k \in excused[c]
    BY DEF DefaultsLoaded
  <2>1. PICK i \in 1..Len(Defaults) : k = Defaults[i]
    BY DEF DefaultKeys
  <2>2. i \in 1..(next[c] - 1)
    BY DefaultsAssumption DEF DefaultsInv
  <2>. QED
    BY <2>1, <2>2 DEF DefaultsInv
<1>. QED
  BY <1>1, TypeInit, TypeNext, CloseInit, CloseNext, DefaultsInit, DefaultsNext, PTL DEF Spec

(* When "only created if they don't already exist" is true (config.go:55).  *)
(* The default that a client is about to write is still absent, if nobody   *)
(* has touched that very flag since the lookup.                             *)
StillAbsent ==
    \A c \in Clients : phase[c] = "setting" => Flag(c, Defaults[next[c]]) = "none"

(* A step that does not come between a lookup and the write that follows it. *)
Undisturbed ==
    \A c \in Clients : phase[c] = "setting" /\ phase'[c] = "setting" =>
        LET k == Defaults[next[c]]
        IN  store'[Home(c)][k] = Flag(c, k)

(* A client in the middle of a default has been there before the step, or   *)
(* this is the step that found the flag absent.                             *)
LEMMA WhoIsSetting ==
    ASSUME TypeOK, [Next]_vars, NEW c \in Clients, phase'[c] = "setting"
    PROVE  /\ next'[c] = next[c]
           /\ \/ phase[c] = "setting"
              \/ Flag(c, Defaults[next[c]]) = "none" /\ UNCHANGED store
<1>1. CASE UNCHANGED <<phase, next>>
  BY <1>1
<1>2. ASSUME NEW d \in Clients, Connect(d)
      PROVE  phase[c] = "setting" /\ next'[c] = next[c]
  BY <1>2 DEF Connect, TypeOK
<1>3. ASSUME NEW d \in Clients, CheckDefault(d), Flag(d, Defaults[next[d]]) = "none"
      PROVE  next'[c] = next[c] /\ (phase[c] = "setting" \/ (d = c /\ UNCHANGED store))
  BY <1>3 DEF CheckDefault, TypeOK
<1>4. ASSUME NEW d \in Clients, NextDefault(d)
      PROVE  phase[c] = "setting" /\ next'[c] = next[c]
  BY <1>4 DEF NextDefault, TypeOK
<1>5. ASSUME NEW d \in Clients, DefaultsDone(d)
      PROVE  phase[c] = "setting" /\ next'[c] = next[c]
  BY <1>5 DEF DefaultsDone, TypeOK
<1>6. ASSUME NEW g \in Callers, Begin(g) \/ InStore(g) \/ InClose(g)
      PROVE  UNCHANGED <<phase, next>>
  BY <1>6 DEF Begin, RefuseKey, RefuseClosed, GetMetrics, Refuse, Enter, Close,
              InStore, StoreFails, StoreIsAsked, StoreAnswersForAll, StoreDeletes,
              StoreHasNothingToDelete, StoreSets, InClose, CloseAgain, CloseFirst,
              CloseStore, clientVars
<1>. QED
  BY <1>1, <1>2, <1>3, <1>4, <1>5, <1>6
     DEF Next, LoadDefaults, CheckDefault, DefaultFails, SetDefault, vars, clientVars

(* Loading the defaults leaves every flag that exists as it is, in a store  *)
(* that any number of clients share and whatever requests fail, unless      *)
(* somebody changes the flag between the client's lookup and its write:     *)
(* that window is the only way to lose one (client.go:520-529).             *)
THEOREM DefaultsOnlyCreateUndisturbed == Spec /\ [][Undisturbed]_vars => DefaultsOnlyCreate
<1>. DEFINE Creates ==
         \A c \in Clients :
             phase[c] = "setting" /\ next'[c] # next[c] =>
                 LET k == Defaults[next[c]]
                 IN  Flag(c, k) # "none" => store'[Home(c)][k] = Flag(c, k)
<1>1. Init => StillAbsent
  BY DEF Init, StillAbsent
<1>2. TypeOK /\ StillAbsent /\ [Next]_vars /\ [Undisturbed]_vars => StillAbsent'
  <2>. SUFFICES ASSUME TypeOK, StillAbsent, [Next]_vars, [Undisturbed]_vars,
                       NEW c \in Clients, phase'[c] = "setting"
                PROVE  store'[Home(c)][Defaults[next'[c]]] = "none"
    BY DEF StillAbsent, Flag
  <2>1. CASE UNCHANGED vars
    BY <2>1 DEF StillAbsent, Flag, vars, clientVars
  <2>2. CASE Undisturbed
    BY <2>2, WhoIsSetting DEF StillAbsent, Undisturbed, Flag
  <2>. QED
    BY <2>1, <2>2
<1>3. StillAbsent /\ [Next]_vars => [Creates]_vars
  BY DEF StillAbsent
<1>4. [][Creates]_vars => DefaultsOnlyCreate
  BY DEF DefaultsOnlyCreate
<1>. QED
  BY <1>1, <1>2, <1>3, <1>4, TypeInit, TypeNext, PTL DEF Spec
=============================================================================
