------------------------------- MODULE Client -------------------------------
(***************************************************************************)
(* client/client.go: the life of a client - NewClient with its default     *)
(* flags, calls from many goroutines, Close - over a memory store of its   *)
(* own or over a redis or postgres store that it shares.                   *)
(*                                                                         *)
(* A method looks at the closed flag and only then calls the store; other  *)
(* goroutines, Close among them, may come in between.  Caching is left to  *)
(* CachedStore: the store here is the backend itself.                      *)
(***************************************************************************)
EXTENDS Naturals, Sequences

CONSTANTS
    Keys,       \* valid flag keys
    BadKey,     \* a key that validation refuses
    Clients,    \* clients, each in a process of its own
    Callers,    \* goroutines
    Owner,      \* Owner[g]: the client whose methods g calls
    Backend,    \* "memory", "redis" or "postgres"
    Defaults,   \* config.DefaultFlags: a sequence of keys, of enabled flags
    Nobody      \* the holder of a free lock

ASSUME OwnerAssumption == Owner \in [Callers -> Clients]
ASSUME BackendAssumption == Backend \in {"memory", "redis", "postgres"}
ASSUME DefaultsAssumption == Defaults \in Seq(Keys)
ASSUME NamesAssumption == BadKey \notin Keys /\ Nobody \notin Callers

VARIABLES
    store,     \* store[s][k]: "none", "on" or "off"
    phase,     \* phase[c]: how far NewClient is
    next,      \* next[c]: the default flag that loadDefaultFlags is at
    conn,      \* conn[c]: the store connection, "open" or "closed"
    closed,    \* closed[c]: the atomic closed flag
    mu,        \* mu[c]: the goroutine that holds the client's lock
    pc,        \* where each goroutine is
    call,      \* call[g]: the method g is in, and its key
    answer,    \* answer[g]: the last answer g got, and from which method
    old,       \* history: the flags present ever since NewClient of c began
    excused    \* history: the defaults whose request failed, or deleted since

clientVars == <<phase, next, conn, closed, mu>>
callVars == <<pc, call, answer>>
history == <<old, excused>>
vars == <<store, clientVars, callVars, history>>

Remote == Backend # "memory"
Stores == IF Remote THEN {"shared"} ELSE Clients
Home(c) == IF Remote THEN "shared" ELSE c
Flag(c, k) == store[Home(c)][k]
Present(c) == {k \in Keys : Flag(c, k) # "none"}
DefaultKeys == {Defaults[i] : i \in 1..Len(Defaults)}

KeyMethods == {"IsEnabled", "GetFlag", "SetFlag", "DeleteFlag"}
Methods == KeyMethods \union {"GetAllFlags", "HealthCheck"}

\* A closed connection fails every request; the memory store has none.
Reachable(c) == Remote => conn[c] = "open"

Call(m, k) == [method |-> m, key |-> k]
NoCall == Call("none", BadKey)
Said(m, said) == [method |-> m, said |-> said]

Return(g, said) ==
    /\ pc' = [pc EXCEPT ![g] = "idle"]
    /\ call' = [call EXCEPT ![g] = NoCall]
    /\ answer' = [answer EXCEPT ![g] = Said(call[g].method, said)]

Refuse(g, m, said) ==
    /\ answer' = [answer EXCEPT ![g] = Said(m, said)]
    /\ UNCHANGED <<store, clientVars, pc, call, history>>

\* Writing and deleting a flag, with what the history records of it.
Put(c, k, value) ==
    /\ store' = [store EXCEPT ![Home(c)][k] = value]
    /\ UNCHANGED history

Forget(c, k) ==
    /\ store' = [store EXCEPT ![Home(c)][k] = "none"]
    /\ old' = [d \in Clients |-> IF Home(d) = Home(c) THEN old[d] \ {k} ELSE old[d]]
    /\ excused' = [d \in Clients |-> IF Home(d) = Home(c) THEN excused[d] \union {k}
                                                          ELSE excused[d]]
-----------------------------------------------------------------------------
Init ==
    /\ store = [s \in Stores |-> [k \in Keys |-> "none"]]
    /\ phase = [c \in Clients |-> "absent"]
    /\ next = [c \in Clients |-> 1]
    /\ conn = [c \in Clients |-> "closed"]
    /\ closed = [c \in Clients |-> FALSE]
    /\ mu = [c \in Clients |-> Nobody]
    /\ pc = [g \in Callers |-> "idle"]
    /\ call = [g \in Callers |-> NoCall]
    /\ answer = [g \in Callers |-> Said("none", "none")]
    /\ old = [c \in Clients |-> {}]
    /\ excused = [c \in Clients |-> {}]

(* NewClient.  If the store cannot be created there is no client.          *)

Connect(c) ==
    /\ phase[c] = "absent"
    /\ phase' = [phase EXCEPT ![c] = "checking"]
    /\ conn' = [conn EXCEPT ![c] = "open"]
    /\ old' = [old EXCEPT ![c] = Present(c)]
    /\ excused' = [excused EXCEPT ![c] = {}]
    /\ UNCHANGED <<store, next, closed, mu, callVars>>

\* loadDefaultFlags goes on with the next default.
NextDefault(c) ==
    /\ phase' = [phase EXCEPT ![c] = "checking"]
    /\ next' = [next EXCEPT ![c] = @ + 1]
    /\ UNCHANGED <<conn, closed, mu>>

CheckDefault(c) ==
    /\ phase[c] = "checking"
    /\ next[c] <= Len(Defaults)
    /\ IF Flag(c, Defaults[next[c]]) # "none"
       THEN NextDefault(c)
       ELSE /\ phase' = [phase EXCEPT ![c] = "setting"]
            /\ UNCHANGED <<next, conn, closed, mu>>
    /\ UNCHANGED <<store, callVars, history>>

\* Mutants: a failed lookup counts as "not found"; a failed request ends the
\* loading.
FailureMeansAbsent(c) ==
    /\ phase[c] = "checking"
    /\ next[c] <= Len(Defaults)
    /\ Remote
    /\ phase' = [phase EXCEPT ![c] = "setting"]
    /\ UNCHANGED <<store, next, conn, closed, mu, callVars, history>>
FailureEndsLoading(c) ==
    /\ phase[c] \in {"checking", "setting"}
    /\ next[c] <= Len(Defaults)
    /\ Remote
    /\ excused' = [excused EXCEPT ![c] = @ \union {Defaults[next[c]]}]
    /\ phase' = [phase EXCEPT ![c] = "open"]
    /\ UNCHANGED <<store, next, conn, closed, mu, callVars, old>>

\* A lookup or a write that fails: on to the next default.
DefaultFails(c) ==
    /\ phase[c] \in {"checking", "setting"}
    /\ next[c] <= Len(Defaults)
    /\ Remote
    /\ NextDefault(c)
    /\ excused' = [excused EXCEPT ![c] = @ \union {Defaults[next[c]]}]
    /\ UNCHANGED <<store, callVars, old>>

\* The write, and one whose answer is lost; either way the next one follows.
SetDefault(c) ==
    /\ phase[c] = "setting"
    /\ Put(c, Defaults[next[c]], "on")
    /\ NextDefault(c)
    /\ UNCHANGED callVars

DefaultsDone(c) ==
    /\ phase[c] = "checking"
    /\ next[c] > Len(Defaults)
    /\ phase' = [phase EXCEPT ![c] = "open"]
    /\ UNCHANGED <<store, next, conn, closed, mu, callVars, history>>

(* The methods: the key, then the closed flag, then the store.             *)

\* SetFlag validates the flag; the other methods look for an empty key.
RefuseKey(g, m) ==
    /\ pc[g] = "idle"
    /\ phase[Owner[g]] = "open"
    /\ m \in KeyMethods
    /\ Refuse(g, m, "invalid")

RefuseClosed(g, m) ==
    /\ pc[g] = "idle"
    /\ phase[Owner[g]] = "open"
    /\ closed[Owner[g]]
    /\ Refuse(g, m, "closed")

\* GetMetrics asks neither the closed flag nor the store.
GetMetrics(g) ==
    /\ pc[g] = "idle"
    /\ phase[Owner[g]] = "open"
    /\ Refuse(g, "GetMetrics", "ok")

Enter(g, m, k) ==
    /\ pc[g] = "idle"
    /\ phase[Owner[g]] = "open"
    /\ ~closed[Owner[g]]
    /\ pc' = [pc EXCEPT ![g] = "store"]
    /\ call' = [call EXCEPT ![g] = Call(m, k)]
    /\ UNCHANGED <<store, clientVars, answer, history>>

\* IsEnabled turns every failure into "disabled".
StoreFails(g) ==
    /\ pc[g] = "store"
    /\ Remote
    /\ Return(g, IF call[g].method = "IsEnabled" THEN "off" ELSE "error")
    /\ UNCHANGED <<store, clientVars, history>>

StoreIsAsked(g) ==
    LET flag == Flag(Owner[g], call[g].key)
    IN  /\ pc[g] = "store"
        /\ Reachable(Owner[g])
        /\ \/ call[g].method = "IsEnabled" /\ Return(g, IF flag = "on" THEN "on" ELSE "off")
           \/ call[g].method = "GetFlag" /\ Return(g, flag)
        /\ UNCHANGED <<store, clientVars, history>>

StoreAnswersForAll(g) ==
    /\ pc[g] = "store"
    /\ Reachable(Owner[g])
    /\ call[g].method \in {"GetAllFlags", "HealthCheck"}
    /\ Return(g, "ok")
    /\ UNCHANGED <<store, clientVars, history>>

\* The answer to a write that a remote store has applied may be lost.
StoreSets(g, value) ==
    /\ pc[g] = "store"
    /\ Reachable(Owner[g])
    /\ call[g].method = "SetFlag"
    /\ Put(Owner[g], call[g].key, value)
    /\ \E said \in {"ok"} \union (IF Remote THEN {"error"} ELSE {}) : Return(g, said)
    /\ UNCHANGED clientVars

StoreDeletes(g) ==
    /\ pc[g] = "store"
    /\ Reachable(Owner[g])
    /\ call[g].method = "DeleteFlag"
    /\ Flag(Owner[g], call[g].key) # "none"
    /\ Forget(Owner[g], call[g].key)
    /\ \E said \in {"ok"} \union (IF Remote THEN {"error"} ELSE {}) : Return(g, said)
    /\ UNCHANGED clientVars

StoreHasNothingToDelete(g) ==
    /\ pc[g] = "store"
    /\ Reachable(Owner[g])
    /\ call[g].method = "DeleteFlag"
    /\ Flag(Owner[g], call[g].key) = "none"
    /\ Return(g, "none")
    /\ UNCHANGED <<store, clientVars, history>>

(* Close, which takes the lock; no other method does.                      *)

Close(g) ==
    /\ pc[g] = "idle"
    /\ phase[Owner[g]] = "open"
    /\ pc' = [pc EXCEPT ![g] = "locking"]
    /\ call' = [call EXCEPT ![g] = Call("Close", BadKey)]
    /\ UNCHANGED <<store, clientVars, answer, history>>

\* Mutants: the second Close does not wait for the first; the flag is set without
\* looking at it.
CloseAtOnce(g) ==
    /\ pc[g] = "locking"
    /\ closed[Owner[g]]
    /\ Return(g, "ok")
    /\ UNCHANGED <<store, clientVars, history>>
CloseRegardless(g) ==
    /\ pc[g] = "locking"
    /\ mu[Owner[g]] = Nobody
    /\ closed' = [closed EXCEPT ![Owner[g]] = TRUE]
    /\ mu' = [mu EXCEPT ![Owner[g]] = g]
    /\ pc' = [pc EXCEPT ![g] = "closing"]
    /\ UNCHANGED <<store, phase, next, conn, call, answer, history>>

\* "Already closed": the lock is taken, and given back at once.
CloseAgain(g) ==
    /\ pc[g] = "locking"
    /\ mu[Owner[g]] = Nobody
    /\ closed[Owner[g]]
    /\ Return(g, "ok")
    /\ UNCHANGED <<store, clientVars, history>>

CloseFirst(g) ==
    /\ pc[g] = "locking"
    /\ mu[Owner[g]] = Nobody
    /\ ~closed[Owner[g]]
    /\ closed' = [closed EXCEPT ![Owner[g]] = TRUE]
    /\ mu' = [mu EXCEPT ![Owner[g]] = g]
    /\ pc' = [pc EXCEPT ![g] = "closing"]
    /\ UNCHANGED <<store, phase, next, conn, call, answer, history>>

\* Mutant: when the store reports an error, Close returns with the lock taken.
CloseStoreKeepingLock(g) ==
    LET c == Owner[g]
    IN  /\ pc[g] = "closing"
        /\ Remote
        /\ conn' = [conn EXCEPT ![c] = "closed"]
        /\ \/ mu' = [mu EXCEPT ![c] = Nobody] /\ Return(g, "ok")
           \/ UNCHANGED mu /\ Return(g, "error")
        /\ UNCHANGED <<store, phase, next, closed, history>>

\* The memory store forgets everything; the others close their connections,
\* which may report an error and leaves them closed all the same.
CloseStore(g) ==
    LET c == Owner[g]
    IN  /\ pc[g] = "closing"
        /\ conn' = [conn EXCEPT ![c] = "closed"]
        /\ mu' = [mu EXCEPT ![c] = Nobody]
        /\ IF Remote THEN UNCHANGED <<store, old>>
           ELSE /\ store' = [store EXCEPT ![c] = [k \in Keys |-> "none"]]
                /\ old' = [old EXCEPT ![c] = {}]
        /\ \E said \in {"ok"} \union (IF Remote THEN {"error"} ELSE {}) : Return(g, said)
        /\ UNCHANGED <<phase, next, closed, excused>>
-----------------------------------------------------------------------------
LoadDefaults(c) ==
    CheckDefault(c) \/ DefaultFails(c) \/ SetDefault(c) \/ DefaultsDone(c)

\* Mutant: the methods do not look at the key.
BeginUnvalidated(g) ==
    \/ \E m \in Methods : RefuseClosed(g, m)
    \/ \E m \in Methods, k \in Keys \union {BadKey} : Enter(g, m, k)
    \/ GetMetrics(g)
    \/ Close(g)

Begin(g) ==
    \/ \E m \in Methods : RefuseKey(g, m) \/ RefuseClosed(g, m)
    \/ \E m \in KeyMethods, k \in Keys : Enter(g, m, k)
    \/ \E m \in Methods \ KeyMethods : Enter(g, m, BadKey)
    \/ GetMetrics(g)
    \/ Close(g)

InStore(g) ==
    \/ StoreFails(g) \/ StoreIsAsked(g) \/ StoreAnswersForAll(g)
    \/ StoreDeletes(g) \/ StoreHasNothingToDelete(g)
    \/ \E value \in {"on", "off"} : StoreSets(g, value)

InClose(g) == CloseAgain(g) \/ CloseFirst(g) \/ CloseStore(g)

Next ==
    \/ \E c \in Clients : Connect(c) \/ LoadDefaults(c)
    \/ \E g \in Callers : Begin(g) \/ InStore(g) \/ InClose(g)

Spec == Init /\ [][Next]_vars

\* A goroutine inside a call keeps running, and the store answers or its
\* timeout strikes.  Close holds the lock for a bounded time and never takes
\* it twice, so a goroutine that waits for it need not be favoured.
Fairness ==
    /\ \A g \in Callers : WF_vars(InStore(g)) /\ WF_vars(InClose(g))
    /\ \A c \in Clients : WF_vars(LoadDefaults(c))

FairSpec == Spec /\ Fairness
-----------------------------------------------------------------------------
(* Every variable has its type; a goroutine at the store knows its call.   *)
TypeOK ==
    /\ store \in [Stores -> [Keys -> {"none", "on", "off"}]]
    /\ phase \in [Clients -> {"absent", "checking", "setting", "open"}]
    /\ next \in [Clients -> 1..(Len(Defaults) + 1)]
    /\ conn \in [Clients -> {"open", "closed"}]
    /\ closed \in [Clients -> BOOLEAN]
    /\ mu \in [Clients -> Callers \union {Nobody}]
    /\ pc \in [Callers -> {"idle", "store", "locking", "closing"}]
    /\ call \in [Callers -> [method : Methods \union {"none", "Close"},
                            key : Keys \union {BadKey}]]
    /\ answer \in [Callers -> [method : Methods \union {"none", "GetMetrics", "Close"},
                              said : {"none", "invalid", "closed", "on", "off", "ok", "error"}]]
    /\ \A c \in Clients : phase[c] = "setting" => next[c] <= Len(Defaults)
    /\ \A g \in Callers :
           /\ pc[g] = "store" => call[g].method \in Methods
           /\ pc[g] = "store" /\ call[g].method \in KeyMethods => call[g].key \in Keys
           /\ pc[g] # "idle" => phase[Owner[g]] = "open"
    /\ old \in [Clients -> SUBSET Keys]
    /\ excused \in [Clients -> SUBSET Keys]

(* Whichever of several concurrent Closes a caller made, when it returns   *)
(* the store has been closed: the one that finds the client "already       *)
(* closed" has waited for the one that closes it (client.go:482-510).      *)
CloseReturnsClosed ==
    \A g \in Callers : answer[g].method = "Close" => conn[Owner[g]] = "closed"

(* The store of a client is closed once, by the goroutine that holds the   *)
(* lock, however many call Close (client.go:485, 495-496).                 *)
ClosesOnce ==
    \A g \in Callers :
        pc[g] = "closing" => conn[Owner[g]] = "open" /\ mu[Owner[g]] = g

(* loadDefaultFlags writes no flag that has been there ever since the      *)
(* client was started, even if its lookup fails (client.go:520-527).       *)
DefaultsSpareOld ==
    \A c \in Clients : phase[c] = "setting" => Defaults[next[c]] \notin old[c]

(* A started client finds every default flag in its store, unless the      *)
(* store failed a request about that very flag or somebody deleted it: no  *)
(* failure keeps the remaining defaults from being loaded                  *)
(* (client.go:521-532).                                                    *)
DefaultsLoaded ==
    \A c \in Clients :
        phase[c] = "open" /\ conn[c] = "open" =>
            \A k \in DefaultKeys : Flag(c, k) # "none" \/ k \in excused[c]

(* Every call returns, Close and those that wait for another Close         *)
(* included (client.go:482-483), and so does NewClient.                    *)
CallsReturn ==
    /\ \A g \in Callers : pc[g] # "idle" ~> pc[g] = "idle"
    /\ \A c \in Clients : phase[c] = "checking" ~> phase[c] = "open"

(* "These flags are only created if they don't already exist in storage"   *)
(* (config.go:55): writing a default leaves a flag that exists as it is.   *)
DefaultsOnlyCreate ==
    [][\A c \in Clients :
         phase[c] = "setting" /\ next'[c] # next[c] =>
             LET k == Defaults[next[c]]
             IN  Flag(c, k) # "none" => store'[Home(c)][k] = Flag(c, k)]_vars
=============================================================================
