------------------------------ MODULE Metrics ------------------------------
(***************************************************************************)
(* observability/metrics.go: a DefaultMetricsCollector, the recordings     *)
(* that are made in it, and GetMetrics.                                    *)
(*                                                                         *)
(* A collector belongs either to a client (NewClient gives its cached      *)
(* store a collector that does nothing) or to a cached store that an       *)
(* application has built with NewStoreWithMetrics.  A call of the client,  *)
(* or of the cached store, makes a few recordings, each of one or more     *)
(* atomic steps; the steps of different goroutines interleave, also with   *)
(* the loads of GetMetrics.  What a call is going to record follows from   *)
(* what its store answers, which is chosen when the call begins.           *)
(*                                                                         *)
(* A duration is abstracted to the number of its recording.                *)
(***************************************************************************)
EXTENDS Errors, Sequences, FiniteSets

CONSTANTS
  Callers,      \* goroutines that make recordings
  Window,       \* maxDurationsStored
  MaxCalls,     \* bound on the number of calls
  MaxEvictions  \* bound on the number of evictions

ASSUME CallersAssumption == IsFiniteSet(Callers)
ASSUME WindowAssumption == Window \in Nat \ {0}
ASSUME BoundsAssumption == MaxCalls \in Nat /\ MaxEvictions \in Nat

VARIABLES
  owner,     \* who records: "client", "store" or "uncached store" (cache disabled)
  closed,    \* the client is closed
  count,     \* the counters
  errors,    \* errorsByType
  window,    \* flagCheckDurations and storageDurations
  todo,      \* the steps that the call of each goroutine has still to record
  at,        \* what GetMetrics does next: 0 nothing, else the at-th load
  snap,      \* the counters as loaded so far
  snapErrs,  \* errorsByType as copied
  begun,     \* the number of calls begun
  recorded,  \* history: the number of durations recorded, for each window
  trouble,   \* history: the numbers of calls refused or failed, by the type of error
  unnumbered \* history: those that failed and have no counter of their own

calls == <<owner, closed, begun, trouble, unnumbered>>
collector == <<count, errors, window, recorded>>
reading == <<at, snap, snapErrs>>
vars == <<calls, collector, todo, reading>>

\* The order in which GetMetrics loads the counters.
LoadOrder == <<"flagChecks", "flagGets", "flagSets", "flagDeletes",
               "flagCheckSuccesses", "flagGetSuccesses", "flagSetSuccesses",
               "flagDeleteSuccesses", "cacheHits", "cacheMisses", "cacheEvictions",
               "storageOperations", "storageSuccesses">>
Counters == {LoadOrder[i] : i \in 1..13}
Windows == {"flagChecks", "storage"}

Step == [do : {"count"}, what : Counters] \cup [do : {"time"}, what : Windows]
          \cup [do : {"error"}, what : ErrorTypes]
Count(c) == [do |-> "count", what |-> c]
Time(w) == [do |-> "time", what |-> w]
Err(t) == [do |-> "error", what |-> t]

Init ==
  /\ owner \in {"client", "store", "uncached store"}
  /\ closed = FALSE
  /\ count = [c \in Counters |-> 0]
  /\ errors = [t \in ErrorTypes |-> 0]
  /\ window = [w \in Windows |-> <<>>]
  /\ todo = [g \in Callers |-> <<>>]
  /\ at = 0
  /\ snap = [c \in Counters |-> 0]
  /\ snapErrs = [t \in ErrorTypes |-> 0]
  /\ begun = 0 /\ trouble = [t \in ErrorTypes |-> 0] /\ unnumbered = 0
  /\ recorded = [w \in Windows |-> 0]

----------------------------------------------------------------------------
(* The recordings, as sequences of atomic steps.                           *)

RecordFlagCheck(enabled) ==
  IF enabled THEN <<Count("flagChecks"), Count("flagCheckSuccesses"), Time("flagChecks")>>
             ELSE <<Count("flagChecks"), Time("flagChecks")>>

RecordError(type) == <<Err(type)>>

RecordStorageOperation(success) ==
  IF success THEN <<Count("storageOperations"), Count("storageSuccesses"), Time("storage")>>
             ELSE <<Count("storageOperations"), Time("storage")>>

\* Mutant: the error is recorded before the operation.
ErrorFirst(total, successes, err) ==
  IF err = Nil THEN <<Count(total), Count(successes)>>
               ELSE <<Err(ClassifyError(err)), Count(total)>>

\* A counter, followed by that of the successes or by an error of the type that
\* the client's error handling gives it.
Counted(total, successes, err) ==
  IF err = Nil THEN <<Count(total), Count(successes)>>
               ELSE <<Count(total), Err(ClassifyError(err))>>

(* The errors that stores return: a FeatureFlagError around the named error *)
(* or around one that the driver returned.                                  *)
NotFound == NewError(Bare("ErrFlagNotFound"))
Failure == NewError(Bare("other"))

\* What a store reports has no type of its own: it is wrapped, so that the
\* switch of ClassifyError finds nothing to compare with.
Fine == "none"
StoreTrouble(fails) == IF fails THEN "internal" ELSE Fine

(* The calls.                                                              *)

\* One more call that went wrong for that cause (or for none).
Tally(cause) ==
  trouble' = [t \in ErrorTypes |-> IF t = cause THEN trouble[t] + 1 ELSE trouble[t]]

Begin(g, steps, cause) ==
  /\ todo[g] = <<>>
  /\ begun < MaxCalls
  /\ begun' = begun + 1
  /\ todo' = [todo EXCEPT ![g] = steps]
  /\ Tally(cause)
  /\ UNCHANGED <<owner, closed, collector, reading>>

\* A call with an invalid key or flag, or on a closed client.  (HealthCheck of a
\* closed client fails too, and records nothing.)
Refused(g) ==
  /\ owner = "client"
  /\ \/ Begin(g, RecordError("validation"), "validation")
     \/ closed /\ Begin(g, RecordError("client"), "client")
  /\ UNCHANGED unnumbered

Open == owner = "client" /\ ~closed

IsEnabled(g) ==
  /\ Open
  /\ \/ \E enabled \in BOOLEAN : Begin(g, RecordFlagCheck(enabled), Fine) /\ UNCHANGED unnumbered
     \/ \E err \in {NotFound, Failure} :
          IF IsNotFoundError(err)
            THEN /\ Begin(g, RecordFlagCheck(FALSE), StoreTrouble(err # NotFound))
                 /\ UNCHANGED unnumbered
            ELSE /\ Begin(g, RecordError(ClassifyError(err)), StoreTrouble(err # NotFound))
                 /\ unnumbered' = unnumbered + 1

GetFlag(g) ==
  /\ Open
  /\ \E err \in {Nil, NotFound, Failure} :
       Begin(g, IF IsNotFoundError(err) THEN <<Count("flagGets")>>
                                        ELSE Counted("flagGets", "flagGetSuccesses", err),
             StoreTrouble(err = Failure))
  /\ UNCHANGED unnumbered

SetFlag(g) ==
  /\ Open
  /\ \E err \in {Nil, Failure} :
       Begin(g, Counted("flagSets", "flagSetSuccesses", err), StoreTrouble(err # Nil))
  /\ UNCHANGED unnumbered

\* Deleting a flag that is not there counts as an error.
DeleteFlag(g) ==
  /\ Open
  /\ \E err \in {Nil, NotFound, Failure} :
       Begin(g, Counted("flagDeletes", "flagDeleteSuccesses", err), StoreTrouble(err # Nil))
  /\ UNCHANGED unnumbered

\* GetAllFlags and HealthCheck record nothing but a failure of the store.
WholeStore(g) ==
  /\ Open
  /\ Begin(g, RecordError(ClassifyError(Failure)), StoreTrouble(TRUE))
  /\ unnumbered' = unnumbered + 1

Close ==
  /\ Open
  /\ closed' = TRUE
  /\ UNCHANGED <<owner, begun, trouble, unnumbered, collector, todo, reading>>

\* The calls of a cached store with a collector of its own.
CachedGet(g) ==
  /\ owner # "client"
  /\ \/ owner = "store" /\ Begin(g, <<Count("cacheHits")>>, Fine)
     \/ \E found \in BOOLEAN :
          Begin(g, (IF owner = "store" THEN <<Count("cacheMisses")>> ELSE <<>>)
                      \o RecordStorageOperation(found), Fine)
  /\ UNCHANGED unnumbered

CachedSetDeleteGetAll(g) ==
  /\ owner # "client"
  /\ \E success \in BOOLEAN : Begin(g, RecordStorageOperation(success), Fine)
  /\ UNCHANGED unnumbered

----------------------------------------------------------------------------
(* The steps of the recordings.                                            *)

Now(g, kind) == todo[g] # <<>> /\ Head(todo[g]).do = kind
Done(g) == todo' = [todo EXCEPT ![g] = Tail(@)]

AddInt64(g) ==
  /\ Now(g, "count")
  /\ count' = [count EXCEPT ![Head(todo[g]).what] = @ + 1]
  /\ Done(g)
  /\ UNCHANGED <<calls, errors, window, recorded, reading>>

CountError(g) ==
  /\ Now(g, "error")
  /\ errors' = [errors EXCEPT ![Head(todo[g]).what] = @ + 1]
  /\ Done(g)
  /\ UNCHANGED <<calls, count, window, recorded, reading>>

\* Mutant: the slice only grows.
AppendOnly(durations, d) == Append(durations, d)

\* Mutant: what does not fit is cut off at the end.
KeepOldest(durations, d) ==
  LET all == Append(durations, d)
  IN  IF Len(all) > Window THEN SubSeq(all, 1, Window) ELSE all

\* The slice after the append, moved down by the entries too many and cut.
Slide(durations, d) ==
  LET all == Append(durations, d)
      n == Len(all)
  IN  IF n > Window THEN [i \in 1..Window |-> all[n - Window + i]] ELSE all

recordDuration(g) ==
  /\ Now(g, "time")
  /\ LET w == Head(todo[g]).what
     IN  /\ window' = [window EXCEPT ![w] = Slide(@, recorded[w] + 1)]
         /\ recorded' = [recorded EXCEPT ![w] = @ + 1]
  /\ Done(g)
  /\ UNCHANGED <<calls, count, errors, reading>>

\* The callback of the cache, run by whoever removes an item.
RecordCacheEviction ==
  /\ owner = "store"
  /\ count["cacheEvictions"] < MaxEvictions
  /\ count' = [count EXCEPT !["cacheEvictions"] = @ + 1]
  /\ UNCHANGED <<calls, errors, window, recorded, todo, reading>>

(* GetMetrics: the error counts under their lock, then one counter after    *)
(* another.  The averages that follow are read from the windows under their *)
(* lock, and are left out.                                                  *)

CopyErrors ==
  /\ at = 0
  /\ at' = 1
  /\ snapErrs' = errors
  /\ UNCHANGED <<calls, collector, todo, snap>>

LoadInt64 ==
  /\ at \in 1..13
  /\ at' = at + 1
  /\ snap' = [snap EXCEPT ![LoadOrder[at]] = count[LoadOrder[at]]]
  /\ UNCHANGED <<calls, collector, todo, snapErrs>>

\* The snapshot is handed out.
SnapshotTaken ==
  /\ at = 14
  /\ at' = 0
  /\ snap' = [c \in Counters |-> 0]
  /\ snapErrs' = [t \in ErrorTypes |-> 0]
  /\ UNCHANGED <<calls, collector, todo>>

----------------------------------------------------------------------------
Call(g) ==
  \/ Refused(g) \/ IsEnabled(g) \/ GetFlag(g) \/ SetFlag(g) \/ DeleteFlag(g) \/ WholeStore(g)
  \/ CachedGet(g) \/ CachedSetDeleteGetAll(g)

Record(g) == AddInt64(g) \/ CountError(g) \/ recordDuration(g)

GetMetrics == CopyErrors \/ LoadInt64 \/ SnapshotTaken

Next ==
  \/ \E g \in Callers : Call(g) \/ Record(g)
  \/ Close
  \/ RecordCacheEviction
  \/ GetMetrics

Spec == Init /\ [][Next]_vars

----------------------------------------------------------------------------
(* Properties.                                                             *)

TypeOK ==
  /\ owner \in {"client", "store", "uncached store"}
  /\ closed \in BOOLEAN
  /\ count \in [Counters -> Nat]
  /\ errors \in [ErrorTypes -> Nat]
  /\ window \in [Windows -> Seq(Nat)]
  /\ \A w \in Windows : Len(window[w]) <= Window
  /\ todo \in [Callers -> Seq(Step)]
  /\ at \in 0..14
  /\ snap \in [Counters -> Nat]
  /\ snapErrs \in [ErrorTypes -> Nat]
  /\ begun \in 0..MaxCalls
  /\ recorded \in [Windows -> Nat]
  /\ trouble \in [ErrorTypes -> Nat]
  /\ unnumbered \in Nat

\* A snapshot is of no single moment - its successes may even exceed its totals,
\* which are loaded first - but it never shows a failure of an operation that it
\* does not count: the operation is recorded before its error, and the errors
\* are copied before the counters.
FailuresAreCounted ==
  at = 14 => snapErrs["internal"] <= snap["flagGets"] + snap["flagSets"]
                                       + snap["flagDeletes"] + unnumbered

\* The windows always hold the most recent durations, oldest first, whichever
\* goroutines recorded them.
WindowIsRecent ==
  \A w \in Windows :
    /\ Len(window[w]) = IF recorded[w] < Window THEN recorded[w] ELSE Window
    /\ \A i \in 1..Len(window[w]) : window[w][i] = recorded[w] - Len(window[w]) + i

\* Between calls, the error counts are the calls that were refused or failed, each
\* of the type of its cause: "validation" for a bad key or flag, "client" for a
\* closed client, "internal" for whatever the store reports.  A flag that is
\* missing is no error, however deep the store has wrapped ErrFlagNotFound -
\* except for DeleteFlag, which has it counted as "internal".
ErrorsCountTrouble == (\A g \in Callers : todo[g] = <<>>) => errors = trouble
=============================================================================
