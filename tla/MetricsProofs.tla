---------------------------- MODULE MetricsProofs ----------------------------
(***************************************************************************)
(* Theorems about core/errors.go and observability/metrics.go, for any     *)
(* number of goroutines, any window and any number of calls.               *)
(***************************************************************************)
EXTENDS Metrics, FiniteSetTheorems, TLAPS

(***************************************************************************)
(* Errors.                                                                 *)
(***************************************************************************)

\* A store's "not found" is recognised by IsNotFoundError; no other error that
\* a store returns is.
LEMMA NotFoundRecognised ==
  \A root \in Roots : IsNotFoundError(NewError(Bare(root))) <=> root = "ErrFlagNotFound"
BY DEF Roots, Sentinels, IsNotFoundError, NewError, NewErrorWithType, Bare, ClassifyError, Is

\* Wrapping an error once keeps the answer to "is it worth a retry"; wrapping it
\* a second time makes it "no".
LEMMA RetryableKept ==
  \A root \in Roots : /\ IsRetryableError(NewError(Bare(root))) = IsRetryableError(Bare(root))
                      /\ ~IsRetryableError(NewError(NewError(Bare(root))))
<1>1. \A e \in Error : /\ NewError(e).wraps = e.wraps + 1
                       /\ NewError(e).retryable = isRetryableError(e)
  BY DEF NewError, NewErrorWithType
<1>2. TAKE root \in Roots
<1>3. Bare(root) \in Error /\ Bare(root).wraps = 0
  BY DEF Bare, Error, ErrorTypes
<1> DEFINE e == NewError(Bare(root))
<1>4. e \in Error /\ e.wraps = 1 /\ e.retryable = isRetryableError(Bare(root))
  <2>1. isRetryableError(Bare(root)) \in BOOLEAN
    BY DEF isRetryableError, Is
  <2>2. ClassifyError(Bare(root)) \in ErrorTypes
    BY DEF ClassifyError, ErrorTypes
  <2>3. e \in Error
    BY <1>3, <2>1, <2>2 DEF NewError, NewErrorWithType, Error
  <2> QED
    BY <1>1, <1>3, <2>3
<1>5. ~isRetryableError(e)
  BY <1>4 DEF isRetryableError, Is
<1> HIDE DEF e
<1>6. NewError(e).wraps = 2 /\ NewError(e).retryable = isRetryableError(e)
  BY <1>1, <1>4
<1>7. IsRetryableError(e) = isRetryableError(Bare(root))
  BY <1>4 DEF IsRetryableError
<1>8. IsRetryableError(Bare(root)) = isRetryableError(Bare(root))
  BY <1>3 DEF IsRetryableError
<1>9. ~IsRetryableError(NewError(e))
  BY <1>5, <1>6 DEF IsRetryableError
<1> QED
  BY <1>7, <1>8, <1>9 DEF e

\* ClassifyError does not look into a FeatureFlagError: whatever a store
\* returns, the client counts it as internal.
LEMMA WrappedIsInternal == \A root \in Roots : ClassifyError(NewError(Bare(root))) = "internal"
BY DEF ClassifyError, NewError, NewErrorWithType, Bare, Is

LEMMA StoreErrors ==
  /\ NotFound # Nil /\ Failure # Nil /\ Failure # NotFound
  /\ ClassifyError(NotFound) = "internal" /\ ClassifyError(Failure) = "internal"
  /\ IsNotFoundError(NotFound) /\ ~IsNotFoundError(Failure) /\ ~IsNotFoundError(Nil)
<1>1. "ErrFlagNotFound" \in Roots /\ "other" \in Roots
  BY DEF Roots, Sentinels
<1>2. NotFound # Nil /\ Failure # Nil /\ Failure # NotFound /\ ~IsNotFoundError(Nil)
  BY DEF NotFound, Failure, Nil, NewError, NewErrorWithType, Bare, IsNotFoundError
<1> QED
  BY <1>1, <1>2, NotFoundRecognised, WrappedIsInternal DEF NotFound, Failure

(***************************************************************************)
(* The sequences of steps.                                                 *)
(***************************************************************************)
LEMMA StepTypes ==
  /\ \A c \in Counters : Count(c) \in Step
  /\ \A w \in Windows : Time(w) \in Step
  /\ \A t \in ErrorTypes : Err(t) \in Step
BY DEF Step, Count, Time, Err

LEMMA LoadOrderNames ==
  /\ \A i \in 1..13 : LoadOrder[i] \in Counters
  /\ \A i \in 1..13 : /\ LoadOrder[i] = "flagGets" <=> i = 2
                      /\ LoadOrder[i] = "flagSets" <=> i = 3
                      /\ LoadOrder[i] = "flagDeletes" <=> i = 4
  /\ {"flagChecks", "flagGets", "flagSets", "flagDeletes", "flagCheckSuccesses",
      "flagGetSuccesses", "flagSetSuccesses", "flagDeleteSuccesses", "cacheHits",
      "cacheMisses", "cacheEvictions", "storageOperations", "storageSuccesses"} \subseteq Counters
<1>1. \A i \in 1..13 : LoadOrder[i] \in Counters
  BY DEF Counters
<1>2. \A i \in 1..13 : \/ i = 1 \/ i = 2 \/ i = 3 \/ i = 4 \/ i = 5 \/ i = 6 \/ i = 7
                       \/ i = 8 \/ i = 9 \/ i = 10 \/ i = 11 \/ i = 12 \/ i = 13
  OBVIOUS
<1>3. /\ LoadOrder[1] = "flagChecks" /\ LoadOrder[2] = "flagGets"
      /\ LoadOrder[3] = "flagSets" /\ LoadOrder[4] = "flagDeletes"
      /\ LoadOrder[5] = "flagCheckSuccesses" /\ LoadOrder[6] = "flagGetSuccesses"
      /\ LoadOrder[7] = "flagSetSuccesses" /\ LoadOrder[8] = "flagDeleteSuccesses"
      /\ LoadOrder[9] = "cacheHits" /\ LoadOrder[10] = "cacheMisses"
      /\ LoadOrder[11] = "cacheEvictions" /\ LoadOrder[12] = "storageOperations"
      /\ LoadOrder[13] = "storageSuccesses"
  BY DEF LoadOrder
<1>4. \A i \in 1..13 : /\ LoadOrder[i] = "flagGets" <=> i = 2
                       /\ LoadOrder[i] = "flagSets" <=> i = 3
                       /\ LoadOrder[i] = "flagDeletes" <=> i = 4
  BY <1>2, <1>3
<1>5. /\ 1 \in 1..13 /\ 2 \in 1..13 /\ 3 \in 1..13 /\ 4 \in 1..13 /\ 5 \in 1..13
      /\ 6 \in 1..13 /\ 7 \in 1..13 /\ 8 \in 1..13 /\ 9 \in 1..13 /\ 10 \in 1..13
      /\ 11 \in 1..13 /\ 12 \in 1..13 /\ 13 \in 1..13
  OBVIOUS
<1> QED
  BY <1>1, <1>3, <1>4, <1>5

\* The counters of operations whose failures are counted as errors too.
Totals == {Count("flagGets"), Count("flagSets"), Count("flagDeletes")}

IsFailure(step) == step = Err("internal")

\* In the recordings of one call a failure is the last thing of its kind: no
\* other failure follows and no operation.
InOrder(s) ==
  \A i, j \in 1..Len(s) : i < j /\ IsFailure(s[i]) => ~IsFailure(s[j]) /\ s[j] \notin Totals

\* A failure is still to be recorded whose operation, if it has a counter, has
\* been counted.
Owes(s) ==
  /\ \E i \in 1..Len(s) : IsFailure(s[i])
  /\ \A i \in 1..Len(s) : s[i] \notin Totals

\* What the operators of the model hand to Begin.
Quiet(s) == s \in Seq(Step) /\ InOrder(s) /\ ~Owes(s)

LEMMA ScriptsQuiet ==
  /\ Quiet(<<>>)
  /\ \A t \in {"validation", "client"} : Quiet(RecordError(t))
  /\ \A b \in BOOLEAN : Quiet(RecordFlagCheck(b)) /\ Quiet(RecordStorageOperation(b))
  /\ Quiet(<<Count("flagGets")>>) /\ Quiet(<<Count("cacheHits")>>)
  /\ \A b \in BOOLEAN : Quiet(<<Count("cacheMisses")>> \o RecordStorageOperation(b))
<1> USE DEF Quiet, InOrder, Owes, IsFailure
<1>1. /\ \A c \in Counters : Count(c) \in Step /\ ~IsFailure(Count(c))
      /\ \A w \in Windows : Time(w) \in Step /\ ~IsFailure(Time(w))
  BY StepTypes DEF Count, Time, Err
<1>2. Quiet(<<>>)
  OBVIOUS
<1>3. ASSUME NEW t \in {"validation", "client"}
      PROVE  Quiet(RecordError(t))
  BY StepTypes DEF RecordError, Err, ErrorTypes
<1>4. \A a \in Step : ~IsFailure(a) => Quiet(<<a>>)
  OBVIOUS
<1>5. \A a, b \in Step : ~IsFailure(a) /\ ~IsFailure(b) => Quiet(<<a, b>>)
  OBVIOUS
<1>6. \A a, b, c \in Step :
        ~IsFailure(a) /\ ~IsFailure(b) /\ ~IsFailure(c) => Quiet(<<a, b, c>>)
  OBVIOUS
<1>7. ASSUME NEW a \in Step, NEW s \in Seq(Step), ~IsFailure(a),
             \A i \in 1..Len(s) : ~IsFailure(s[i])
      PROVE  Quiet(<<a>> \o s)
  <2>1. /\ <<a>> \o s \in Seq(Step)
        /\ \A i \in 1..Len(<<a>> \o s) : (<<a>> \o s)[i] = IF i = 1 THEN a ELSE s[i - 1]
        /\ Len(<<a>> \o s) = Len(s) + 1
    OBVIOUS
  <2> QED
    BY <1>7, <2>1
<1>8. {"flagChecks", "storage"} \subseteq Windows
  BY DEF Windows
<1> HIDE DEF Quiet, InOrder, Owes
<1>9. \A b \in BOOLEAN : Quiet(RecordFlagCheck(b)) /\ Quiet(RecordStorageOperation(b))
  BY <1>1, <1>5, <1>6, <1>8, LoadOrderNames DEF RecordFlagCheck, RecordStorageOperation
<1>10. ASSUME NEW b \in BOOLEAN
       PROVE  Quiet(<<Count("cacheMisses")>> \o RecordStorageOperation(b))
  <2>1. /\ RecordStorageOperation(b) \in Seq(Step)
        /\ \A i \in 1..Len(RecordStorageOperation(b)) : ~IsFailure(RecordStorageOperation(b)[i])
    BY <1>1, <1>8, LoadOrderNames DEF RecordStorageOperation
  <2> QED
    BY <1>1, <1>7, <2>1, LoadOrderNames
<1> QED
  BY <1>1, <1>2, <1>3, <1>4, <1>9, <1>10, LoadOrderNames

LEMMA CountedQuiet ==
  ASSUME NEW total \in {"flagGets", "flagSets", "flagDeletes"}, NEW successes \in Counters,
         NEW err \in {Nil, NotFound, Failure}
  PROVE  Quiet(Counted(total, successes, err))
<1>1. Count(total) \in Totals /\ Count(total) \in Step /\ Count(successes) \in Step
  BY StepTypes, LoadOrderNames DEF Totals
<1>2. Err("internal") \in Step
  BY StepTypes DEF ErrorTypes
<1>3. ~IsFailure(Count(total)) /\ ~IsFailure(Count(successes))
  BY DEF IsFailure, Count, Err
<1>4. CASE err = Nil
  BY <1>1, <1>3, <1>4 DEF Counted, Quiet, InOrder, Owes
<1>5. CASE err # Nil
  <2>1. Counted(total, successes, err) = <<Count(total), Err("internal")>>
    BY <1>5, StoreErrors DEF Counted
  <2> QED
    BY <1>1, <1>2, <1>3, <2>1 DEF Quiet, InOrder, Owes
<1> QED
  BY <1>4, <1>5

\* A failure without a counter of its own.
LEMMA BareFailure == RecordError("internal") \in Seq(Step) /\ InOrder(RecordError("internal"))
BY StepTypes DEF RecordError, ErrorTypes, InOrder

(***************************************************************************)
(* Types and windows.                                                      *)
(***************************************************************************)

\* What a call's first step does to the sequence of its steps, and to InOrder
\* and Owes.
LEMMA FirstStep ==
  ASSUME NEW s \in Seq(Step), s # <<>>, InOrder(s)
  PROVE  /\ Head(s) \in Step /\ Tail(s) \in Seq(Step) /\ InOrder(Tail(s))
         /\ IsFailure(Head(s)) => Owes(s) /\ ~Owes(Tail(s))
         /\ Head(s) \in Totals => ~Owes(s)
         /\ ~IsFailure(Head(s)) /\ Head(s) \notin Totals => (Owes(Tail(s)) <=> Owes(s))
<1>1. /\ Len(s) \in Nat /\ Len(s) > 0 /\ Len(Tail(s)) = Len(s) - 1
      /\ Head(s) = s[1] /\ Tail(s) \in Seq(Step)
      /\ \A i \in 1..Len(Tail(s)) : Tail(s)[i] = s[i + 1]
      /\ \A i \in 1..Len(s) : s[i] \in Step
  OBVIOUS
<1> DEFINE t == Tail(s)
<1>2. \A i \in 1..Len(s) : i = 1 \/ (i - 1 \in 1..Len(t) /\ s[i] = t[i - 1])
  BY <1>1
<1>3. \A i \in 1..Len(t) : i + 1 \in 1..Len(s) /\ t[i] = s[i + 1]
  BY <1>1
<1> HIDE DEF t
<1>4. InOrder(t)
  BY <1>1, <1>3 DEF InOrder
<1>5. IsFailure(s[1]) => \A i \in 1..Len(t) : ~IsFailure(t[i]) /\ t[i] \notin Totals
  BY <1>1, <1>3 DEF InOrder
<1>6. s[1] \in Totals => ~IsFailure(s[1])
  BY DEF Totals, IsFailure, Count, Err
<1>7. IsFailure(s[1]) => Owes(s) /\ ~Owes(t)
  BY <1>1, <1>2, <1>5, <1>6 DEF Owes
<1>8. s[1] \in Totals => ~Owes(s)
  BY <1>1 DEF Owes
<1>9. ~IsFailure(s[1]) /\ s[1] \notin Totals => (Owes(t) <=> Owes(s))
  BY <1>1, <1>2, <1>3 DEF Owes
<1> QED
  BY <1>1, <1>4, <1>7, <1>8, <1>9 DEF t

\* The sliding window: the new duration comes in at the end, and the window
\* keeps the last Window of them.
LEMMA SlideKeeps ==
  ASSUME NEW n \in Nat, NEW s \in Seq(Nat), Len(s) <= Window,
         Len(s) = IF n < Window THEN n ELSE Window,
         \A i \in 1..Len(s) : s[i] = n - Len(s) + i
  PROVE  /\ Slide(s, n + 1) \in Seq(Nat) /\ Len(Slide(s, n + 1)) <= Window
         /\ Len(Slide(s, n + 1)) = IF n + 1 < Window THEN n + 1 ELSE Window
         /\ \A i \in 1..Len(Slide(s, n + 1)) :
              Slide(s, n + 1)[i] = n + 1 - Len(Slide(s, n + 1)) + i
<1> DEFINE all == Append(s, n + 1)
           t == Slide(s, n + 1)
<1>1. Window \in Nat /\ Window > 0
  BY WindowAssumption
<1>2. /\ all \in Seq(Nat) /\ Len(all) = Len(s) + 1 /\ Len(s) \in Nat
      /\ \A i \in 1..Len(s) : all[i] = s[i]
      /\ all[Len(s) + 1] = n + 1
  OBVIOUS
<1>3. \A i \in 1..Len(all) : all[i] = n + 1 - Len(all) + i
  <2>1. TAKE i \in 1..Len(all)
  <2>2. CASE i = Len(s) + 1
    BY <1>2, <2>2
  <2>3. CASE i # Len(s) + 1
    <3>1. i \in 1..Len(s) /\ s[i] \in Nat
      BY <1>2, <2>3
    <3>2. all[i] = n - Len(s) + i
      BY <1>2, <3>1
    <3> HIDE DEF all
    <3> QED
      BY <1>2, <3>1, <3>2
  <2> QED
    BY <2>2, <2>3
<1> HIDE DEF all
<1>4. t = IF Len(all) > Window THEN [i \in 1..Window |-> all[Len(all) - Window + i]] ELSE all
  BY DEF Slide, all
<1> HIDE DEF t
<1>5. CASE Len(all) > Window
  <2>1. t = [i \in 1..Window |-> all[Len(all) - Window + i]]
    BY <1>4, <1>5
  <2>2. \A i \in 1..Window : /\ Len(all) - Window + i \in 1..Len(all)
                            /\ t[i] = n + 1 - Window + i
    <3>1. TAKE i \in 1..Window
    <3>2. Len(all) - Window + i \in 1..Len(all)
      BY <1>1, <1>2, <1>5
    <3>3. all[Len(all) - Window + i] = n + 1 - Len(all) + (Len(all) - Window + i)
      BY <1>3, <3>2
    <3>4. t[i] = all[Len(all) - Window + i]
      BY <2>1
    <3> QED
      BY <1>1, <1>2, <3>2, <3>3, <3>4
  <2>3. n >= Window
    BY <1>1, <1>2, <1>5
  <2>4. \A i \in 1..Window : t[i] \in Nat
    BY <1>1, <2>2, <2>3
  <2>5. t \in Seq(Nat) /\ Len(t) = Window
    BY <1>1, <2>1, <2>4
  <2>6. n + 1 >= Window /\ (IF n + 1 < Window THEN n + 1 ELSE Window) = Window
    BY <1>1, <2>3
  <2>7. \A i \in 1..Len(t) : t[i] = n + 1 - Len(t) + i
    BY <1>1, <2>2, <2>5
  <2>8. Len(t) <= Window
    BY <1>1, <2>5
  <2> QED
    BY <2>5, <2>6, <2>7, <2>8 DEF t
<1>6. CASE Len(all) <= Window
  BY <1>1, <1>2, <1>3, <1>4, <1>6 DEF t
<1> QED
  BY <1>1, <1>2, <1>5, <1>6

Safe == /\ TypeOK
        /\ WindowIsRecent
        /\ \A g \in Callers : InOrder(todo[g])

\* What beginning a call with the steps s changes.
Begun(g, s) ==
  /\ UNCHANGED <<count, errors, window, recorded, at, snap, snapErrs, owner, closed>>
  /\ begun < MaxCalls /\ begun' = begun + 1
  /\ \E cause : Tally(cause)
  /\ todo[g] = <<>> /\ todo' = [todo EXCEPT ![g] = s]

\* A call begins with a quiet sequence of steps, or with a failure that has no
\* counter of its own.
LEMMA CallStep ==
  ASSUME NEW g \in Callers, Call(g)
  PROVE  \E s : /\ Begun(g, s)
                /\ \/ Quiet(s) /\ unnumbered' = unnumbered
                   \/ s = RecordError("internal") /\ unnumbered' = unnumbered + 1
<1> USE DEF Begin, Begun, collector, reading
<1>1. CASE Refused(g)
  <2>1. PICK t \in {"validation", "client"} : Begun(g, RecordError(t))
    BY <1>1 DEF Refused
  <2>2. Quiet(RecordError(t)) /\ unnumbered' = unnumbered
    BY <1>1, ScriptsQuiet DEF Refused
  <2> HIDE DEF Begun
  <2> QED
    BY <2>1, <2>2
<1>2. CASE IsEnabled(g)
  <2>1. \/ \E b \in BOOLEAN : Begun(g, RecordFlagCheck(b)) /\ unnumbered' = unnumbered
        \/ \E err \in {NotFound, Failure} :
             IF IsNotFoundError(err)
               THEN Begun(g, RecordFlagCheck(FALSE)) /\ unnumbered' = unnumbered
               ELSE Begun(g, RecordError(ClassifyError(err))) /\ unnumbered' = unnumbered + 1
    BY <1>2 DEF IsEnabled
  <2> HIDE DEF Begun
  <2>2. \/ \E b \in BOOLEAN : Begun(g, RecordFlagCheck(b)) /\ unnumbered' = unnumbered
        \/ Begun(g, RecordError("internal")) /\ unnumbered' = unnumbered + 1
    <3>1. ClassifyError(NotFound) = "internal" /\ ClassifyError(Failure) = "internal"
      BY StoreErrors
    <3> QED
      BY <2>1, <3>1
  <2>3. \A b \in BOOLEAN : Quiet(RecordFlagCheck(b))
    BY ScriptsQuiet
  <2> QED
    BY <2>2, <2>3
<1>3. CASE GetFlag(g)
  <2>1. PICK err \in {Nil, NotFound, Failure} :
          Begun(g, IF IsNotFoundError(err) THEN <<Count("flagGets")>>
                                           ELSE Counted("flagGets", "flagGetSuccesses", err))
    BY <1>3 DEF GetFlag
  <2>2. Quiet(IF IsNotFoundError(err) THEN <<Count("flagGets")>>
                                      ELSE Counted("flagGets", "flagGetSuccesses", err))
    BY CountedQuiet, ScriptsQuiet, LoadOrderNames
  <2>3. unnumbered' = unnumbered
    BY <1>3 DEF GetFlag
  <2> HIDE DEF Begun
  <2> QED
    BY <2>1, <2>2, <2>3
<1>4. CASE SetFlag(g)
  <2>1. PICK err \in {Nil, NotFound, Failure} :
          Begun(g, Counted("flagSets", "flagSetSuccesses", err))
    BY <1>4 DEF SetFlag
  <2>2. Quiet(Counted("flagSets", "flagSetSuccesses", err)) /\ unnumbered' = unnumbered
    BY <1>4, CountedQuiet, LoadOrderNames DEF SetFlag
  <2> HIDE DEF Begun
  <2> QED
    BY <2>1, <2>2
<1>5. CASE DeleteFlag(g)
  <2>1. PICK err \in {Nil, NotFound, Failure} :
          Begun(g, Counted("flagDeletes", "flagDeleteSuccesses", err))
    BY <1>5 DEF DeleteFlag
  <2>2. Quiet(Counted("flagDeletes", "flagDeleteSuccesses", err)) /\ unnumbered' = unnumbered
    BY <1>5, CountedQuiet, LoadOrderNames DEF DeleteFlag
  <2> HIDE DEF Begun
  <2> QED
    BY <2>1, <2>2
<1>6. CASE WholeStore(g)
  <2>1. Begun(g, RecordError(ClassifyError(Failure))) /\ unnumbered' = unnumbered + 1
    BY <1>6 DEF WholeStore
  <2>2. ClassifyError(Failure) = "internal"
    BY StoreErrors
  <2> HIDE DEF Begun
  <2> QED
    BY <2>1, <2>2
<1>7. CASE CachedGet(g)
  <2>1. \/ Begun(g, <<Count("cacheHits")>>)
        \/ \E b \in BOOLEAN : Begun(g, (IF owner = "store" THEN <<Count("cacheMisses")>> ELSE <<>>)
                                           \o RecordStorageOperation(b))
    BY <1>7 DEF CachedGet
  <2>2. \A b \in BOOLEAN : <<>> \o RecordStorageOperation(b) = RecordStorageOperation(b)
    BY ScriptsQuiet DEF Quiet
  <2>3. /\ Quiet(<<Count("cacheHits")>>)
        /\ \A b \in BOOLEAN : /\ Quiet(RecordStorageOperation(b))
                              /\ Quiet(<<Count("cacheMisses")>> \o RecordStorageOperation(b))
    BY ScriptsQuiet
  <2>4. unnumbered' = unnumbered
    BY <1>7 DEF CachedGet
  <2> HIDE DEF Begun
  <2> QED
    BY <2>1, <2>2, <2>3, <2>4
<1>8. CASE CachedSetDeleteGetAll(g)
  <2>1. PICK b \in BOOLEAN : Begun(g, RecordStorageOperation(b))
    BY <1>8 DEF CachedSetDeleteGetAll
  <2>2. Quiet(RecordStorageOperation(b)) /\ unnumbered' = unnumbered
    BY <1>8, ScriptsQuiet DEF CachedSetDeleteGetAll
  <2> HIDE DEF Begun
  <2> QED
    BY <2>1, <2>2
<1> HIDE DEF Begun
<1> QED
  BY <1>1, <1>2, <1>3, <1>4, <1>5, <1>6, <1>7, <1>8 DEF Call

LEMMA InitSafe == Init => Safe
<1>1. SUFFICES ASSUME Init PROVE Safe
  OBVIOUS
<1>2. TypeOK
  <2>1. 0 \in Nat /\ 0 \in 0..14 /\ 0 \in 0..MaxCalls /\ 0 <= Window
    BY BoundsAssumption, WindowAssumption
  <2>2. \A w \in Windows : window[w] = <<>> /\ Len(<<>>) = 0
    BY <1>1 DEF Init
  <2>3. \A w \in Windows : Len(window[w]) <= Window
    BY <2>1, <2>2
  <2>4. window \in [Windows -> Seq(Nat)]
    <3>1. window = [w \in Windows |-> <<>>]
      BY <1>1 DEF Init
    <3>2. <<>> \in Seq(Nat)
      OBVIOUS
    <3> QED
      BY <3>1, <3>2
  <2>5. /\ owner \in {"client", "store", "uncached store"} /\ closed \in BOOLEAN
        /\ count \in [Counters -> Nat] /\ errors \in [ErrorTypes -> Nat]
        /\ snap \in [Counters -> Nat] /\ snapErrs \in [ErrorTypes -> Nat]
        /\ recorded \in [Windows -> Nat]
    BY <1>1 DEF Init
  <2>6. /\ at \in 0..14 /\ begun \in 0..MaxCalls /\ trouble \in [ErrorTypes -> Nat] /\ unnumbered \in Nat
    BY <1>1, <2>1 DEF Init
  <2>7. todo \in [Callers -> Seq(Step)]
    <3>1. todo = [g \in Callers |-> <<>>]
      BY <1>1 DEF Init
    <3>2. <<>> \in Seq(Step)
      OBVIOUS
    <3> QED
      BY <3>1, <3>2
  <2> QED
    BY <2>3, <2>4, <2>5, <2>6, <2>7 DEF TypeOK
<1>3. WindowIsRecent
  <2>1. \A w \in Windows : window[w] = <<>> /\ recorded[w] = 0 /\ Len(<<>>) = 0
    BY <1>1 DEF Init
  <2>2. 0 < Window
    BY WindowAssumption
  <2> QED
    BY <2>1, <2>2 DEF WindowIsRecent
<1>4. \A g \in Callers : InOrder(todo[g])
  BY <1>1, ScriptsQuiet DEF Init, Quiet
<1> QED
  BY <1>2, <1>3, <1>4 DEF Safe

\* The windows of a state in which neither they nor the number of the durations
\* recorded changes.
LEMMA WindowsKept ==
  ASSUME TypeOK, WindowIsRecent, UNCHANGED <<window, recorded>>
  PROVE  /\ window' \in [Windows -> Seq(Nat)]
         /\ \A w \in Windows : Len(window'[w]) <= Window
         /\ WindowIsRecent'
BY DEF TypeOK, WindowIsRecent

\* What recording a step changes in the sequences of steps.
LEMMA RecordStep ==
  ASSUME Safe, NEW g \in Callers, todo[g] # <<>>, Done(g)
  PROVE  /\ Head(todo[g]) \in Step
         /\ todo' = [todo EXCEPT ![g] = Tail(todo[g])]
         /\ todo' \in [Callers -> Seq(Step)]
         /\ \A h \in Callers : InOrder(todo'[h])
<1>1. /\ todo \in [Callers -> Seq(Step)] /\ todo[g] \in Seq(Step) /\ InOrder(todo[g])
      /\ \A h \in Callers : InOrder(todo[h])
  BY DEF Safe, TypeOK
<1>2. Head(todo[g]) \in Step /\ Tail(todo[g]) \in Seq(Step) /\ InOrder(Tail(todo[g]))
  BY <1>1, FirstStep
<1>3. todo' = [todo EXCEPT ![g] = Tail(todo[g])]
  BY DEF Done
<1>4. \A h \in Callers : todo'[h] = IF h = g THEN Tail(todo[g]) ELSE todo[h]
  BY <1>1, <1>3
<1> QED
  BY <1>1, <1>2, <1>3, <1>4

LEMMA StepSafe == Safe /\ [Next]_vars => Safe'
<1>1. SUFFICES ASSUME Safe, [Next]_vars PROVE Safe'
  OBVIOUS
<1>2. TypeOK /\ WindowIsRecent /\ \A g \in Callers : InOrder(todo[g])
  BY <1>1 DEF Safe
<1>a. /\ count \in [Counters -> Nat] /\ errors \in [ErrorTypes -> Nat]
      /\ todo \in [Callers -> Seq(Step)] /\ recorded \in [Windows -> Nat]
      /\ at \in 0..14 /\ snap \in [Counters -> Nat] /\ snapErrs \in [ErrorTypes -> Nat]
      /\ begun \in 0..MaxCalls /\ trouble \in [ErrorTypes -> Nat] /\ unnumbered \in Nat
  BY <1>2 DEF TypeOK
<1>b. window \in [Windows -> Seq(Nat)] /\ \A w \in Windows : Len(window[w]) <= Window
  BY <1>2 DEF TypeOK
<1>c. owner \in {"client", "store", "uncached store"} /\ closed \in BOOLEAN
  BY <1>2 DEF TypeOK
<1>3. ASSUME NEW g \in Callers, Call(g)
      PROVE  Safe'
  <2>1. PICK s : /\ Begun(g, s)
                 /\ \/ Quiet(s) /\ unnumbered' = unnumbered
                    \/ s = RecordError("internal") /\ unnumbered' = unnumbered + 1
    BY <1>3, CallStep
  <2>2. s \in Seq(Step) /\ InOrder(s)
    BY <2>1, BareFailure DEF Quiet
  <2>3. todo' \in [Callers -> Seq(Step)] /\ \A h \in Callers : InOrder(todo'[h])
    BY <1>2, <1>a, <2>1, <2>2 DEF Begun
  <2>4. /\ begun' \in 0..MaxCalls /\ trouble' \in [ErrorTypes -> Nat] /\ unnumbered' \in Nat
        /\ UNCHANGED <<count, errors, window, recorded, at, snap, snapErrs, owner, closed>>
    <3>1. PICK cause : Tally(cause)
      BY <2>1 DEF Begun
    <3>2. trouble' \in [ErrorTypes -> Nat]
      BY <1>a, <3>1 DEF Tally
    <3> QED
      BY <1>a, <2>1, <3>2, BoundsAssumption DEF Begun
  <2>5. TypeOK'
    BY <1>2, <2>3, <2>4, WindowsKept DEF TypeOK
  <2> QED
    BY <1>2, <2>3, <2>4, <2>5, WindowsKept DEF Safe
<1>4. ASSUME NEW g \in Callers, AddInt64(g)
      PROVE  Safe'
  <2>1. /\ Head(todo[g]) \in Step /\ Head(todo[g]).do = "count" /\ Done(g)
        /\ todo' \in [Callers -> Seq(Step)] /\ \A h \in Callers : InOrder(todo'[h])
    BY <1>1, <1>4, RecordStep DEF AddInt64, Now
  <2>2. Head(todo[g]).what \in Counters
    BY <2>1 DEF Step
  <2>3. count' \in [Counters -> Nat]
    BY <1>a, <1>4, <2>2 DEF AddInt64
  <2>4. UNCHANGED <<calls, errors, window, recorded, reading>>
    BY <1>4 DEF AddInt64
  <2>5. TypeOK'
    BY <1>2, <2>1, <2>3, <2>4, WindowsKept DEF TypeOK, calls, reading
  <2> QED
    BY <1>2, <2>1, <2>4, <2>5, WindowsKept DEF Safe
<1>5. ASSUME NEW g \in Callers, CountError(g)
      PROVE  Safe'
  <2>1. /\ Head(todo[g]) \in Step /\ Head(todo[g]).do = "error" /\ Done(g)
        /\ todo' \in [Callers -> Seq(Step)] /\ \A h \in Callers : InOrder(todo'[h])
    BY <1>1, <1>5, RecordStep DEF CountError, Now
  <2>2. Head(todo[g]).what \in ErrorTypes
    BY <2>1 DEF Step
  <2>3. errors' \in [ErrorTypes -> Nat]
    BY <1>a, <1>5, <2>2 DEF CountError
  <2>4. UNCHANGED <<calls, count, window, recorded, reading>>
    BY <1>5 DEF CountError
  <2>5. TypeOK'
    BY <1>2, <2>1, <2>3, <2>4, WindowsKept DEF TypeOK, calls, reading
  <2> QED
    BY <1>2, <2>1, <2>4, <2>5, WindowsKept DEF Safe
<1>6. ASSUME NEW g \in Callers, recordDuration(g)
      PROVE  Safe'
  <2> DEFINE w == Head(todo[g]).what
  <2>1. /\ Head(todo[g]) \in Step /\ Head(todo[g]).do = "time" /\ Done(g)
        /\ todo' \in [Callers -> Seq(Step)] /\ \A h \in Callers : InOrder(todo'[h])
    BY <1>1, <1>6, RecordStep DEF recordDuration, Now
  <2>2. w \in Windows
    BY <2>1 DEF Step
  <2>3. /\ window' = [window EXCEPT ![w] = Slide(@, recorded[w] + 1)]
        /\ recorded' = [recorded EXCEPT ![w] = @ + 1]
        /\ UNCHANGED <<calls, count, errors, reading>>
    BY <1>6 DEF recordDuration
  <2> HIDE DEF w
  <2>4. recorded \in [Windows -> Nat] /\ recorded' \in [Windows -> Nat]
    BY <1>a, <2>2, <2>3
  <2>5. ASSUME NEW v \in Windows
        PROVE  /\ window'[v] = IF v = w THEN Slide(window[v], recorded[v] + 1) ELSE window[v]
               /\ recorded'[v] = IF v = w THEN recorded[v] + 1 ELSE recorded[v]
    <3>1. DOMAIN window = Windows
      BY <1>b
    <3> QED
      BY <2>2, <2>3, <2>4, <3>1
  <2>6. ASSUME NEW v \in Windows
        PROVE  /\ window'[v] \in Seq(Nat) /\ Len(window'[v]) <= Window
               /\ Len(window'[v]) = IF recorded'[v] < Window THEN recorded'[v] ELSE Window
               /\ \A i \in 1..Len(window'[v]) :
                    window'[v][i] = recorded'[v] - Len(window'[v]) + i
    <3>1. /\ recorded[v] \in Nat /\ window[v] \in Seq(Nat) /\ Len(window[v]) <= Window
          /\ Len(window[v]) = IF recorded[v] < Window THEN recorded[v] ELSE Window
          /\ \A i \in 1..Len(window[v]) : window[v][i] = recorded[v] - Len(window[v]) + i
      BY <1>2, <1>a, <1>b DEF WindowIsRecent
    <3>2. CASE v = w
      <4> DEFINE n == recorded[v]
                 s == window[v]
                 t == window'[v]
                 m == recorded'[v]
      <4>1. t = Slide(s, n + 1) /\ m = n + 1
        BY <2>5, <3>2
      <4>2. /\ n \in Nat /\ s \in Seq(Nat) /\ Len(s) <= Window
            /\ Len(s) = IF n < Window THEN n ELSE Window
            /\ \A i \in 1..Len(s) : s[i] = n - Len(s) + i
        BY <3>1
      <4> HIDE DEF n, s, t, m
      <4>3. /\ Slide(s, n + 1) \in Seq(Nat) /\ Len(Slide(s, n + 1)) <= Window
            /\ Len(Slide(s, n + 1)) = IF n + 1 < Window THEN n + 1 ELSE Window
            /\ \A i \in 1..Len(Slide(s, n + 1)) :
                 Slide(s, n + 1)[i] = n + 1 - Len(Slide(s, n + 1)) + i
        BY <4>2, SlideKeeps
      <4>4. /\ t \in Seq(Nat) /\ Len(t) <= Window
            /\ Len(t) = IF m < Window THEN m ELSE Window
            /\ \A i \in 1..Len(t) : t[i] = m - Len(t) + i
        <5>1. Len(t) = IF m < Window THEN m ELSE Window
          BY <4>1, <4>3
        <5>2. t \in Seq(Nat) /\ Len(t) <= Window
          BY <4>1, <4>3
        <5>3. \A i \in 1..Len(t) : t[i] = m - Len(t) + i
          <6>1. TAKE i \in 1..Len(t)
          <6>2. t[i] = n + 1 - Len(t) + i
            BY <4>1, <4>3
          <6>3. n \in Nat /\ m = n + 1 /\ Len(t) \in Nat /\ i \in Nat
            BY <4>1, <4>2, <5>2
          <6> QED
            BY <6>2, <6>3
        <5> QED
          BY <5>1, <5>2, <5>3
      <4> QED
        BY <4>4 DEF t, m
    <3>3. CASE v # w
      BY <2>5, <3>1, <3>3
    <3> QED
      BY <3>2, <3>3
  <2>7. TypeOK'
    <3>1. window' \in [Windows -> Seq(Nat)]
      BY <1>b, <2>3, <2>6
    <3> QED
      BY <1>2, <2>1, <2>3, <2>4, <2>6, <3>1 DEF TypeOK, calls, reading
  <2>8. WindowIsRecent'
    BY <2>6 DEF WindowIsRecent
  <2> QED
    BY <2>1, <2>7, <2>8 DEF Safe
<1>7. CASE RecordCacheEviction
  <2>1. /\ count' \in [Counters -> Nat]
        /\ UNCHANGED <<calls, errors, window, recorded, todo, reading>>
    <3>1. "cacheEvictions" \in Counters
      BY LoadOrderNames
    <3>2. count["cacheEvictions"] \in Nat
      BY <1>a, <3>1
    <3> QED
      BY <1>a, <1>7, <3>1, <3>2 DEF RecordCacheEviction
  <2>2. TypeOK'
    BY <1>2, <2>1, WindowsKept DEF TypeOK, calls, reading
  <2> QED
    BY <1>2, <2>1, <2>2, WindowsKept DEF Safe
<1>8. CASE Close
  <2>1. closed' \in BOOLEAN
        /\ UNCHANGED <<owner, begun, trouble, unnumbered, collector, todo, reading>>
    BY <1>8 DEF Close
  <2>2. TypeOK'
    BY <1>2, <2>1, WindowsKept DEF TypeOK, collector, reading
  <2> QED
    BY <1>2, <2>1, <2>2, WindowsKept DEF Safe, collector
<1>9. CASE GetMetrics
  <2>1. at' \in 0..14 /\ UNCHANGED <<calls, collector, todo>>
    BY <1>a, <1>9 DEF GetMetrics, CopyErrors, LoadInt64, SnapshotTaken
  <2>2. snap' \in [Counters -> Nat] /\ snapErrs' \in [ErrorTypes -> Nat]
    <3>1. CASE CopyErrors
      BY <1>a, <3>1 DEF CopyErrors
    <3>2. CASE LoadInt64
      BY <1>a, <3>2, LoadOrderNames DEF LoadInt64
    <3>3. CASE SnapshotTaken
      BY <3>3 DEF SnapshotTaken
    <3> QED
      BY <1>9, <3>1, <3>2, <3>3 DEF GetMetrics
  <2>3. TypeOK'
    BY <1>2, <2>1, <2>2, WindowsKept DEF TypeOK, calls, collector
  <2> QED
    BY <1>2, <2>1, <2>3, WindowsKept DEF Safe, collector
<1>10. CASE UNCHANGED vars
  <2>1. TypeOK'
    BY <1>2, <1>10, WindowsKept DEF TypeOK, vars, calls, collector, reading
  <2> QED
    BY <1>2, <1>10, <2>1, WindowsKept DEF Safe, vars, collector
<1> QED
  BY <1>1, <1>3, <1>4, <1>5, <1>6, <1>7, <1>8, <1>9, <1>10 DEF Next, Record

LEMMA AlwaysSafe == Spec => []Safe
BY InitSafe, StepSafe, PTL DEF Spec

\* Whatever the goroutines record, every counter, window and copy keeps its type.
THEOREM TypeCorrect == Spec => []TypeOK
<1>1. Safe => TypeOK
  BY DEF Safe
<1> QED
  BY <1>1, AlwaysSafe, PTL

\* The windows hold the most recent durations, oldest first (recordDuration).
THEOREM WindowCorrect == Spec => []WindowIsRecent
<1>1. Safe => WindowIsRecent
  BY DEF Safe
<1> QED
  BY <1>1, AlwaysSafe, PTL

(***************************************************************************)
(* Failures are counted.                                                   *)
(***************************************************************************)
Debt == Cardinality({g \in Callers : Owes(todo[g])})

Operations == count["flagGets"] + count["flagSets"] + count["flagDeletes"]

\* The i-th counter to be loaded, as the snapshot will at least show it.
Shown(c, i) == IF at > i THEN snap[c] ELSE count[c]

\* Every failure that is counted, or whose operation is, has a counted operation
\* or is without a counter.
Covered == errors["internal"] + Debt <= Operations + unnumbered

Reported ==
  at >= 1 => snapErrs["internal"] <= Shown("flagGets", 2) + Shown("flagSets", 3)
                                       + Shown("flagDeletes", 4) + unnumbered

Accounted == Safe /\ Covered /\ Reported

\* The debt when the steps of one goroutine change.
LEMMA DebtStep ==
  ASSUME todo \in [Callers -> Seq(Step)], NEW g \in Callers, NEW t,
         todo' = [todo EXCEPT ![g] = t]
  PROVE  /\ Debt \in Nat /\ Debt' \in Nat
         /\ (Owes(t) <=> Owes(todo[g])) => Debt' = Debt
         /\ Owes(todo[g]) /\ ~Owes(t) => Debt' = Debt - 1
         /\ ~Owes(todo[g]) /\ Owes(t) => Debt' = Debt + 1
<1> DEFINE D == {h \in Callers : Owes(todo[h])}
           E == {h \in Callers : Owes(todo'[h])}
<1>1. IsFiniteSet(D) /\ IsFiniteSet(E)
  BY CallersAssumption, FS_Subset
<1>2. Cardinality(D) \in Nat /\ Cardinality(E) \in Nat
  BY <1>1, FS_CardinalityType
<1>3. Debt = Cardinality(D) /\ Debt' = Cardinality(E)
  BY DEF Debt
<1>4. \A h \in Callers : todo'[h] = IF h = g THEN t ELSE todo[h]
  OBVIOUS
<1>5. ASSUME Owes(t) <=> Owes(todo[g]) PROVE Debt' = Debt
  <2>1. \A h \in Callers : Owes(todo'[h]) <=> Owes(todo[h])
    BY <1>4, <1>5
  <2>2. D = E
    BY <2>1
  <2> QED
    BY <1>3, <2>2
<1>6. ASSUME Owes(todo[g]), ~Owes(t) PROVE Debt' = Debt - 1
  <2>1. g \in D /\ E = D \ {g}
    BY <1>4, <1>6
  <2>2. Cardinality(E) = Cardinality(D) - 1
    BY <1>1, <2>1, FS_RemoveElement
  <2> QED
    BY <1>3, <2>2
<1>7. ASSUME ~Owes(todo[g]), Owes(t) PROVE Debt' = Debt + 1
  <2>1. g \notin D /\ E = D \cup {g}
    BY <1>4, <1>7
  <2>2. Cardinality(E) = Cardinality(D) + 1
    BY <1>1, <2>1, FS_AddElement
  <2> QED
    BY <1>3, <2>2
<1> QED
  BY <1>2, <1>3, <1>5, <1>6, <1>7

\* What the snapshot reports stays within the counters as long as these only grow.
LEMMA ReportedKept ==
  ASSUME Safe, Reported, UNCHANGED reading, count' \in [Counters -> Nat], unnumbered' \in Nat,
         \A c \in Counters : count'[c] >= count[c], unnumbered' >= unnumbered
  PROVE  Reported'
<1>1. /\ at \in 0..14 /\ count \in [Counters -> Nat] /\ snap \in [Counters -> Nat]
      /\ snapErrs \in [ErrorTypes -> Nat] /\ unnumbered \in Nat
  BY DEF Safe, TypeOK
<1>2. UNCHANGED <<at, snap, snapErrs>>
  BY DEF reading
<1>3. \A c \in Counters, i \in Nat : /\ Shown(c, i) \in Nat /\ Shown(c, i)' \in Nat
                                    /\ Shown(c, i)' >= Shown(c, i)
  BY <1>1, <1>2 DEF Shown
<1>4. \A c \in {"flagGets", "flagSets", "flagDeletes"}, i \in {2, 3, 4} :
        /\ Shown(c, i) \in Nat /\ Shown(c, i)' \in Nat /\ Shown(c, i)' >= Shown(c, i)
  BY <1>3, LoadOrderNames
<1>5. snapErrs["internal"] \in Nat
  BY <1>1 DEF ErrorTypes
<1>6. ASSUME at' >= 1
      PROVE  snapErrs'["internal"] <= Shown("flagGets", 2)' + Shown("flagSets", 3)'
                                        + Shown("flagDeletes", 4)' + unnumbered'
  <2>1. snapErrs["internal"] <= Shown("flagGets", 2) + Shown("flagSets", 3)
                                   + Shown("flagDeletes", 4) + unnumbered
    BY <1>2, <1>6 DEF Reported
  <2> QED
    BY <1>1, <1>2, <1>4, <1>5, <2>1
<1> QED
  BY <1>6 DEF Reported

LEMMA InitAccounted == Init => Accounted
<1>1. SUFFICES ASSUME Init PROVE Accounted
  OBVIOUS
<1>2. \A g \in Callers : ~Owes(todo[g])
  BY <1>1, ScriptsQuiet DEF Init, Quiet
<1>3. Debt = 0
  <2>1. {g \in Callers : Owes(todo[g])} = {}
    BY <1>2
  <2> QED
    BY <2>1, FS_EmptySet DEF Debt
<1>4. errors["internal"] = 0 /\ unnumbered = 0 /\ Operations = 0
  <2>1. count = [c \in Counters |-> 0] /\ errors = [t \in ErrorTypes |-> 0] /\ unnumbered = 0
    BY <1>1 DEF Init
  <2>2. {"flagGets", "flagSets", "flagDeletes"} \subseteq Counters /\ "internal" \in ErrorTypes
    BY LoadOrderNames DEF ErrorTypes
  <2>3. count["flagGets"] = 0 /\ count["flagSets"] = 0 /\ count["flagDeletes"] = 0
    BY <2>1, <2>2
  <2> QED
    BY <2>1, <2>2, <2>3 DEF Operations
<1>5. Covered
  BY <1>3, <1>4 DEF Covered
<1>6. Reported
  <2>1. at = 0
    BY <1>1 DEF Init
  <2> QED
    BY <2>1 DEF Reported
<1> QED
  BY <1>1, <1>5, <1>6, InitSafe DEF Accounted

\* Covered and Reported after a step that changes neither the counters, nor the
\* errors, nor the debt, nor the reading.
LEMMA AccountKept ==
  ASSUME Accounted, UNCHANGED <<errors, count, unnumbered, reading>>, Debt' = Debt
  PROVE  Covered' /\ Reported'
<1>1. Covered'
  BY DEF Accounted, Covered, Operations
<1>2. Reported'
  BY DEF Accounted, Reported, Shown, reading
<1> QED
  BY <1>1, <1>2

LEMMA StepAccounted == Accounted /\ [Next]_vars => Accounted'
<1>1. SUFFICES ASSUME Accounted, [Next]_vars PROVE Covered' /\ Reported'
  BY StepSafe DEF Accounted
<1>2. Safe /\ Covered /\ Reported
  BY <1>1 DEF Accounted
<1>a. /\ count \in [Counters -> Nat] /\ errors \in [ErrorTypes -> Nat]
      /\ todo \in [Callers -> Seq(Step)] /\ at \in 0..14 /\ snap \in [Counters -> Nat]
      /\ unnumbered \in Nat /\ \A g \in Callers : InOrder(todo[g])
  BY <1>2 DEF Safe, TypeOK
<1>b. /\ count' \in [Counters -> Nat] /\ errors' \in [ErrorTypes -> Nat]
      /\ snap' \in [Counters -> Nat] /\ unnumbered' \in Nat
  BY <1>1, StepSafe DEF Accounted, Safe, TypeOK
<1>c. "internal" \in ErrorTypes /\ {"flagGets", "flagSets", "flagDeletes"} \subseteq Counters
  BY LoadOrderNames DEF ErrorTypes
<1>d. /\ errors["internal"] \in Nat /\ errors'["internal"] \in Nat
      /\ Operations \in Nat /\ Operations' \in Nat
  <2>1. /\ count["flagGets"] \in Nat /\ count["flagSets"] \in Nat /\ count["flagDeletes"] \in Nat
        /\ count'["flagGets"] \in Nat /\ count'["flagSets"] \in Nat
        /\ count'["flagDeletes"] \in Nat
    BY <1>a, <1>b, <1>c
  <2>2. Operations \in Nat /\ Operations' \in Nat
    BY <2>1 DEF Operations
  <2> QED
    BY <1>a, <1>b, <1>c, <2>2
<1>e. unnumbered \in Nat /\ unnumbered' \in Nat
  BY <1>a, <1>b
<1>f. /\ errors["internal"] + Debt <= Operations + unnumbered
      /\ errors'["internal"] + Debt' <= Operations' + unnumbered' => Covered'
  BY <1>2 DEF Covered
<1>3. ASSUME NEW g \in Callers, Call(g)
      PROVE  Covered' /\ Reported'
  <2>1. PICK s : /\ Begun(g, s)
                 /\ \/ Quiet(s) /\ unnumbered' = unnumbered
                    \/ s = RecordError("internal") /\ unnumbered' = unnumbered + 1
    BY <1>3, CallStep
  <2>2. /\ UNCHANGED <<count, errors, at, snap, snapErrs>>
        /\ todo' = [todo EXCEPT ![g] = s] /\ ~Owes(todo[g])
    BY <2>1, ScriptsQuiet DEF Begun, Quiet
  <2>3. Debt \in Nat /\ Debt' \in Nat
    BY <1>a, <2>2, DebtStep
  <2>4. Debt' + unnumbered <= Debt + unnumbered' /\ unnumbered' >= unnumbered
    <3>1. CASE Quiet(s) /\ unnumbered' = unnumbered
      <4>1. Debt' = Debt
        BY <1>a, <2>2, <3>1, DebtStep DEF Quiet
      <4> QED
        BY <1>e, <2>3, <3>1, <4>1
    <3>2. CASE unnumbered' = unnumbered + 1
      <4>1. Debt' = Debt \/ Debt' = Debt + 1
        BY <1>a, <2>2, DebtStep
      <4>2. \A a, b, c, d \in Nat :
              d = c + 1 /\ (b = a \/ b = a + 1) => b + c <= a + d /\ d >= c
        OBVIOUS
      <4> QED
        BY <1>e, <2>3, <3>2, <4>1, <4>2
    <3> QED
      BY <2>1, <3>1, <3>2
  <2>5. Covered'
    <3>1. errors'["internal"] = errors["internal"] /\ Operations' = Operations
      BY <2>2 DEF Operations
    <3> QED
      <4>1. \A e, b, o, u, c, v \in Nat : e + b <= o + u /\ c + u <= b + v => e + c <= o + v
        OBVIOUS
      <4> QED
        BY <1>d, <1>e, <1>f, <2>3, <2>4, <3>1, <4>1
  <2>6. Reported'
    BY <1>2, <1>a, <1>b, <2>2, <2>4, ReportedKept DEF reading
  <2> QED
    BY <2>5, <2>6
<1>4. ASSUME NEW g \in Callers, AddInt64(g)
      PROVE  Covered' /\ Reported'
  <2> DEFINE step == Head(todo[g])
             c == step.what
  <2>1. /\ todo[g] # <<>> /\ step.do = "count"
        /\ count' = [count EXCEPT ![c] = @ + 1]
        /\ todo' = [todo EXCEPT ![g] = Tail(todo[g])]
        /\ UNCHANGED <<unnumbered, errors, reading>>
    BY <1>4 DEF AddInt64, Now, Done, calls
  <2>2. step \in Step /\ step = Count(c) /\ c \in Counters /\ ~IsFailure(step)
    <3>1. step \in Step
      BY <1>a, <2>1, FirstStep
    <3>2. step = Count(c) /\ c \in Counters
      BY <2>1, <3>1 DEF Step, Count
    <3> QED
      BY <2>1, <3>1, <3>2 DEF IsFailure, Err
  <2>3. Debt \in Nat /\ Debt' \in Nat
    BY <1>a, <2>1, DebtStep
  <2>4. Debt' = Debt \/ (step \in Totals /\ Debt' = Debt + 1)
    <3>1. /\ step \in Totals => ~Owes(todo[g])
          /\ step \notin Totals => (Owes(Tail(todo[g])) <=> Owes(todo[g]))
      BY <1>a, <2>1, <2>2, FirstStep
    <3> QED
      BY <1>a, <2>1, <3>1, DebtStep
  <2>5. \A d \in Counters : count'[d] = IF d = c THEN count[d] + 1 ELSE count[d]
    BY <1>a, <2>1
  <2>6. step \in Totals => c \in {"flagGets", "flagSets", "flagDeletes"}
    BY <2>2 DEF Totals, Count
  <2> HIDE DEF step, c
  <2>7. Operations' >= Operations /\ (step \in Totals => Operations' = Operations + 1)
    <3>1. /\ count["flagGets"] \in Nat /\ count["flagSets"] \in Nat /\ count["flagDeletes"] \in Nat
          /\ count'["flagGets"] = IF "flagGets" = c THEN count["flagGets"] + 1 ELSE count["flagGets"]
          /\ count'["flagSets"] = IF "flagSets" = c THEN count["flagSets"] + 1 ELSE count["flagSets"]
          /\ count'["flagDeletes"] =
               IF "flagDeletes" = c THEN count["flagDeletes"] + 1 ELSE count["flagDeletes"]
      BY <1>a, <1>c, <2>5
    <3> QED
      BY <2>6, <3>1 DEF Operations
  <2>8. errors'["internal"] = errors["internal"] /\ unnumbered' = unnumbered
    BY <2>1
  <2>9. Covered'
    BY <1>d, <1>f, <1>e, <2>3, <2>4, <2>7, <2>8
  <2>10. Reported'
    BY <1>2, <1>a, <1>b, <2>1, <2>5, ReportedKept
  <2> QED
    BY <2>9, <2>10
<1>5. ASSUME NEW g \in Callers, CountError(g)
      PROVE  Covered' /\ Reported'
  <2> DEFINE step == Head(todo[g])
             t == step.what
  <2>1. /\ todo[g] # <<>> /\ step.do = "error"
        /\ errors' = [errors EXCEPT ![t] = @ + 1]
        /\ todo' = [todo EXCEPT ![g] = Tail(todo[g])]
        /\ UNCHANGED <<unnumbered, count, reading>>
    BY <1>5 DEF CountError, Now, Done, calls
  <2>2. step \in Step /\ step = Err(t) /\ t \in ErrorTypes /\ step \notin Totals
    <3>1. step \in Step
      BY <1>a, <2>1, FirstStep
    <3>2. step = Err(t) /\ t \in ErrorTypes
      BY <2>1, <3>1 DEF Step, Err
    <3> QED
      BY <2>1, <3>1, <3>2 DEF Totals, Count
  <2>3. Debt \in Nat /\ Debt' \in Nat
    BY <1>a, <2>1, DebtStep
  <2>4. \/ t = "internal" /\ Debt' = Debt - 1
        \/ t # "internal" /\ Debt' = Debt
    <3>1. /\ t = "internal" => Owes(todo[g]) /\ ~Owes(Tail(todo[g]))
          /\ t # "internal" => (Owes(Tail(todo[g])) <=> Owes(todo[g]))
      <4>1. IsFailure(step) <=> t = "internal"
        BY <2>2 DEF IsFailure, Err
      <4> QED
        BY <1>a, <2>1, <2>2, <4>1, FirstStep
    <3> QED
      BY <1>a, <2>1, <3>1, DebtStep
  <2>5. errors'["internal"] = IF t = "internal" THEN errors["internal"] + 1 ELSE errors["internal"]
    BY <1>a, <1>c, <2>1
  <2> HIDE DEF step, t
  <2>6. Operations' = Operations /\ unnumbered' = unnumbered
    BY <2>1 DEF Operations
  <2>7. Covered'
    BY <1>d, <1>f, <1>e, <2>3, <2>4, <2>5, <2>6
  <2>8. Reported'
    BY <1>2, <1>a, <1>b, <2>1, ReportedKept
  <2> QED
    BY <2>7, <2>8
<1>6. ASSUME NEW g \in Callers, recordDuration(g)
      PROVE  Covered' /\ Reported'
  <2>1. /\ todo[g] # <<>> /\ Head(todo[g]).do = "time"
        /\ todo' = [todo EXCEPT ![g] = Tail(todo[g])]
        /\ UNCHANGED <<errors, count, unnumbered, reading>>
    BY <1>6 DEF recordDuration, Now, Done, calls
  <2>2. ~IsFailure(Head(todo[g])) /\ Head(todo[g]) \notin Totals
    BY <2>1 DEF IsFailure, Totals, Count, Err
  <2>3. Owes(Tail(todo[g])) <=> Owes(todo[g])
    BY <1>a, <2>1, <2>2, FirstStep
  <2>4. Debt' = Debt
    BY <1>a, <2>1, <2>3, DebtStep
  <2> QED
    BY <1>1, <2>1, <2>4, AccountKept
<1>7. CASE RecordCacheEviction
  <2>1. /\ count' = [count EXCEPT !["cacheEvictions"] = @ + 1] /\ "cacheEvictions" \in Counters
        /\ UNCHANGED <<errors, todo, unnumbered, reading>>
    BY <1>7, LoadOrderNames DEF RecordCacheEviction, calls
  <2>2. /\ \A d \in Counters : count'[d] >= count[d]
        /\ \A d \in {"flagGets", "flagSets", "flagDeletes"} : count'[d] = count[d]
    BY <1>a, <1>c, <2>1
  <2>3. Operations' = Operations /\ Debt' = Debt
    BY <2>1, <2>2 DEF Operations, Debt
  <2>4. Covered'
    BY <1>2, <2>1, <2>3 DEF Covered
  <2>5. Reported'
    BY <1>2, <1>a, <1>b, <2>1, <2>2, ReportedKept
  <2> QED
    BY <2>4, <2>5
<1>8. CASE Close \/ UNCHANGED vars
  <2>1. UNCHANGED <<errors, count, unnumbered, todo, reading>>
    BY <1>8 DEF Close, vars, calls, collector
  <2>2. Debt' = Debt
    BY <2>1 DEF Debt
  <2> QED
    BY <1>1, <2>1, <2>2, AccountKept
<1>9. CASE GetMetrics
  <2>1. UNCHANGED <<count, errors, todo, unnumbered>>
    BY <1>9 DEF GetMetrics, CopyErrors, LoadInt64, SnapshotTaken, calls, collector
  <2>2. Covered'
    BY <1>2, <2>1 DEF Covered, Operations, Debt
  <2>3. CASE CopyErrors
    <3>1. at = 0 /\ at' = 1 /\ snapErrs' = errors
      BY <2>3 DEF CopyErrors
    <3>2. errors["internal"] <= Operations + unnumbered
      <4>1. Debt \in Nat
        <5>1. IsFiniteSet({g \in Callers : Owes(todo[g])})
          BY CallersAssumption, FS_Subset
        <5> QED
          BY <5>1, FS_CardinalityType DEF Debt
      <4> QED
        BY <1>d, <1>f, <1>e, <4>1
    <3> QED
      BY <2>1, <2>2, <3>1, <3>2 DEF Reported, Shown, Operations
  <2>4. CASE LoadInt64
    <3>1. /\ at \in 1..13 /\ at' = at + 1 /\ snapErrs' = snapErrs
          /\ snap' = [snap EXCEPT ![LoadOrder[at]] = count[LoadOrder[at]]]
      BY <2>4 DEF LoadInt64
    <3>2. ASSUME NEW i \in 1..13, NEW c \in Counters,
                 \A j \in 1..13 : LoadOrder[j] = c <=> j = i
          PROVE  Shown(c, i)' = Shown(c, i)
      <4>1. CASE at = i
        BY <1>a, <2>1, <3>1, <3>2, <4>1 DEF Shown
      <4>2. CASE at # i
        <5>1. snap'[c] = snap[c]
          BY <1>a, <3>1, <3>2, <4>2
        <5>2. at' > i <=> at > i
          BY <3>1, <4>2
        <5> QED
          BY <2>1, <5>1, <5>2 DEF Shown
      <4> QED
        BY <4>1, <4>2
    <3>3. /\ Shown("flagGets", 2)' = Shown("flagGets", 2)
          /\ Shown("flagSets", 3)' = Shown("flagSets", 3)
          /\ Shown("flagDeletes", 4)' = Shown("flagDeletes", 4)
      BY <1>c, <3>2, LoadOrderNames
    <3>4. snapErrs["internal"] <= Shown("flagGets", 2) + Shown("flagSets", 3)
                                    + Shown("flagDeletes", 4) + unnumbered
      BY <1>2, <3>1 DEF Reported
    <3>5. Reported'
      BY <2>1, <3>1, <3>3, <3>4 DEF Reported
    <3> QED
      BY <2>2, <3>5
  <2>5. CASE SnapshotTaken
    BY <2>2, <2>5 DEF SnapshotTaken, Reported
  <2> QED
    BY <1>9, <2>3, <2>4, <2>5 DEF GetMetrics
<1> QED
  BY <1>1, <1>3, <1>4, <1>5, <1>6, <1>7, <1>8, <1>9 DEF Next, Record

\* A snapshot never shows a failure of an operation that it does not count
\* (GetMetrics, and the order of the recordings in the client's methods).
THEOREM FailuresCorrect == Spec => []FailuresAreCounted
<1>1. Accounted => FailuresAreCounted
  BY DEF Accounted, Reported, Shown, FailuresAreCounted
<1> QED
  BY <1>1, InitAccounted, StepAccounted, PTL DEF Spec

(***************************************************************************)
(* Errors are counted.                                                     *)
(***************************************************************************)
IsError(step) == step.do = "error"

\* What a sequence of steps counts as errors: at most one, of a known type.
FailsAs(s, t) == \E i \in 1..Len(s) : IsError(s[i]) /\ s[i].what = t
OneError(s) == \A i, j \in 1..Len(s) : i < j /\ IsError(s[i]) => ~IsError(s[j])

\* The goroutines whose call has still to record an error of that type.
Failing(t) == {g \in Callers : FailsAs(todo[g], t)}

\* The errors recorded and those to come are as many as the calls in trouble.
Balanced == \A t \in ErrorTypes : errors[t] + Cardinality(Failing(t)) = trouble[t]

Tallied == Safe /\ Balanced /\ \A g \in Callers : OneError(todo[g])

\* A sequence of steps that records the error of that type, or (Fine) none.
Script(s, cause) ==
  OneError(s) /\ \A t \in ErrorTypes : FailsAs(s, t) <=> t = cause

LEMMA FineIsNoType == Fine \notin ErrorTypes
BY DEF Fine, ErrorTypes

LEMMA ScriptsOfOne ==
  \A a \in Step : IF IsError(a) THEN Script(<<a>>, a.what) ELSE Script(<<a>>, Fine)
BY FineIsNoType DEF Script, OneError, FailsAs

LEMMA ScriptsOfTwo ==
  \A a, b \in Step : ~IsError(a) => IF IsError(b) THEN Script(<<a, b>>, b.what)
                                                  ELSE Script(<<a, b>>, Fine)
BY FineIsNoType DEF Script, OneError, FailsAs

LEMMA ScriptsOfThree ==
  \A a, b, c \in Step : ~IsError(a) /\ ~IsError(b) /\ ~IsError(c) => Script(<<a, b, c>>, Fine)
BY FineIsNoType DEF Script, OneError, FailsAs

LEMMA KindsOfSteps ==
  /\ \A c \in Counters : Count(c) \in Step /\ ~IsError(Count(c))
  /\ \A w \in Windows : Time(w) \in Step /\ ~IsError(Time(w))
  /\ \A t \in ErrorTypes : Err(t) \in Step /\ IsError(Err(t)) /\ Err(t).what = t
BY StepTypes DEF Count, Time, Err, IsError

\* What a call records: at most one error, and which calls record one.
LEMMA ScriptsTold ==
  /\ Script(<<>>, Fine)
  /\ \A t \in ErrorTypes : Script(RecordError(t), t)
  /\ \A c \in Counters : Script(<<Count(c)>>, Fine)
  /\ \A b \in BOOLEAN : /\ Script(RecordFlagCheck(b), Fine)
                        /\ Script(RecordStorageOperation(b), Fine)
                        /\ Script(<<Count("cacheMisses")>> \o RecordStorageOperation(b), Fine)
<1>1. {"flagChecks", "storage"} \subseteq Windows
  BY DEF Windows
<1>2. Script(<<>>, Fine)
  BY FineIsNoType DEF Script, OneError, FailsAs
<1>3. /\ \A t \in ErrorTypes : Script(RecordError(t), t)
      /\ \A c \in Counters : Script(<<Count(c)>>, Fine)
  BY KindsOfSteps, ScriptsOfOne DEF RecordError
<1>4. ASSUME NEW b \in BOOLEAN
      PROVE  /\ Script(RecordFlagCheck(b), Fine)
             /\ Script(RecordStorageOperation(b), Fine)
             /\ Script(<<Count("cacheMisses")>> \o RecordStorageOperation(b), Fine)
  <2>1. \A c, d \in Counters, w \in Windows :
          Script(<<Count(c), Count(d), Time(w)>>, Fine) /\ Script(<<Count(c), Time(w)>>, Fine)
    BY KindsOfSteps, ScriptsOfTwo, ScriptsOfThree
  <2>2. Script(RecordFlagCheck(b), Fine) /\ Script(RecordStorageOperation(b), Fine)
    BY <1>1, <2>1, LoadOrderNames DEF RecordFlagCheck, RecordStorageOperation
  <2> DEFINE a == Count("cacheMisses")
             r == RecordStorageOperation(b)
             s == <<a>> \o r
  <2>3. /\ r \in Seq(Step)
        /\ \A i \in 1..Len(r) : ~IsError(r[i])
    BY <1>1, KindsOfSteps, LoadOrderNames DEF RecordStorageOperation
  <2>4. a \in Step /\ ~IsError(a)
    BY KindsOfSteps, LoadOrderNames
  <2> HIDE DEF a, r
  <2>5. \A i \in 1..Len(s) : ~IsError(s[i])
    BY <2>3, <2>4
  <2> QED
    BY <2>2, <2>5, FineIsNoType DEF a, r, Script, OneError, FailsAs
<1> QED
  BY <1>2, <1>3, <1>4

LEMMA CountedTold ==
  ASSUME NEW total \in Counters, NEW successes \in Counters, NEW err \in {Nil, NotFound, Failure}
  PROVE  Script(Counted(total, successes, err), StoreTrouble(err # Nil))
<1>1. Count(total) \in Step /\ ~IsError(Count(total))
      /\ Count(successes) \in Step /\ ~IsError(Count(successes))
      /\ Err("internal") \in Step /\ IsError(Err("internal")) /\ Err("internal").what = "internal"
  BY KindsOfSteps DEF ErrorTypes
<1>2. CASE err = Nil
  BY <1>1, <1>2, ScriptsOfTwo DEF Counted, StoreTrouble
<1>3. CASE err # Nil
  <2>1. Counted(total, successes, err) = <<Count(total), Err("internal")>>
    BY <1>3, StoreErrors DEF Counted
  <2> QED
    BY <1>1, <1>3, <2>1, ScriptsOfTwo DEF StoreTrouble
<1> QED
  BY <1>2, <1>3

\* A call is in trouble exactly when it is going to record an error, and of that
\* type.
Tells(g) == \E s, cause : Begun(g, s) /\ Script(s, cause) /\ Tally(cause)

LEMMA BeginTells ==
  \A g, s, cause : Script(s, cause) /\ Begin(g, s, cause) => Tells(g)
BY DEF Begin, Tells, Begun, collector, reading

LEMMA CallTells ==
  ASSUME NEW g \in Callers, Call(g)
  PROVE  Tells(g)
<1>n. /\ "internal" \in ErrorTypes /\ "validation" \in ErrorTypes /\ "client" \in ErrorTypes
      /\ "flagGets" \in Counters /\ "flagGetSuccesses" \in Counters
      /\ "flagSets" \in Counters /\ "flagSetSuccesses" \in Counters
      /\ "flagDeletes" \in Counters /\ "flagDeleteSuccesses" \in Counters
      /\ "cacheHits" \in Counters
  BY LoadOrderNames DEF ErrorTypes
<1>1. CASE Refused(g)
  <2>1. Begin(g, RecordError("validation"), "validation") \/ Begin(g, RecordError("client"), "client")
    BY <1>1 DEF Refused
  <2> QED
    BY <1>n, <2>1, BeginTells, ScriptsTold
<1>2. CASE IsEnabled(g)
  <2>1. \/ \E b \in BOOLEAN : Begin(g, RecordFlagCheck(b), Fine)
        \/ \E err \in {NotFound, Failure} :
             IF IsNotFoundError(err)
               THEN Begin(g, RecordFlagCheck(FALSE), StoreTrouble(err # NotFound))
               ELSE Begin(g, RecordError(ClassifyError(err)), StoreTrouble(err # NotFound))
    BY <1>2 DEF IsEnabled
  <2>2. \/ \E b \in BOOLEAN : Begin(g, RecordFlagCheck(b), Fine)
        \/ Begin(g, RecordError("internal"), "internal")
    <3>1. (NotFound # NotFound) = FALSE /\ (Failure # NotFound) = TRUE
      BY StoreErrors
    <3> QED
      BY <2>1, <3>1, StoreErrors DEF StoreTrouble
  <2> QED
    BY <1>n, <2>2, BeginTells, ScriptsTold
<1>3. CASE GetFlag(g)
  <2>1. PICK err \in {Nil, NotFound, Failure} :
          Begin(g, IF IsNotFoundError(err) THEN <<Count("flagGets")>>
                                           ELSE Counted("flagGets", "flagGetSuccesses", err),
                StoreTrouble(err = Failure))
    BY <1>3 DEF GetFlag
  <2>2. CASE err = NotFound
    <3>1. Begin(g, <<Count("flagGets")>>, Fine)
      <4>1. (err = Failure) = FALSE
        BY <2>2, StoreErrors
      <4> QED
        BY <2>1, <2>2, <4>1, StoreErrors DEF StoreTrouble
    <3> QED
      BY <1>n, <3>1, BeginTells, ScriptsTold
  <2>3. CASE err # NotFound
    <3>1. Begin(g, Counted("flagGets", "flagGetSuccesses", err), StoreTrouble(err # Nil))
      <4>1. (err = Failure) = (err # Nil) /\ ~IsNotFoundError(err)
        BY <2>3, StoreErrors
      <4> QED
        BY <2>1, <4>1
    <3> QED
      BY <1>n, <3>1, BeginTells, CountedTold
  <2> QED
    BY <2>2, <2>3
<1>4. CASE SetFlag(g)
  <2>1. PICK err \in {Nil, NotFound, Failure} :
          Begin(g, Counted("flagSets", "flagSetSuccesses", err), StoreTrouble(err # Nil))
    BY <1>4 DEF SetFlag
  <2> QED
    BY <1>n, <2>1, BeginTells, CountedTold
<1>5. CASE DeleteFlag(g)
  <2>1. PICK err \in {Nil, NotFound, Failure} :
          Begin(g, Counted("flagDeletes", "flagDeleteSuccesses", err), StoreTrouble(err # Nil))
    BY <1>5 DEF DeleteFlag
  <2> QED
    BY <1>n, <2>1, BeginTells, CountedTold
<1>6. CASE WholeStore(g)
  <2>1. Begin(g, RecordError("internal"), "internal")
    BY <1>6, StoreErrors DEF WholeStore, StoreTrouble
  <2> QED
    BY <1>n, <2>1, BeginTells, ScriptsTold
<1>7. CASE CachedGet(g)
  <2>1. \/ Begin(g, <<Count("cacheHits")>>, Fine)
        \/ \E b \in BOOLEAN : Begin(g, (IF owner = "store" THEN <<Count("cacheMisses")>> ELSE <<>>)
                                           \o RecordStorageOperation(b), Fine)
    BY <1>7 DEF CachedGet
  <2>2. \A b \in BOOLEAN : <<>> \o RecordStorageOperation(b) = RecordStorageOperation(b)
    BY ScriptsQuiet DEF Quiet
  <2> QED
    BY <1>n, <2>1, <2>2, BeginTells, ScriptsTold
<1>8. CASE CachedSetDeleteGetAll(g)
  <2>1. PICK b \in BOOLEAN : Begin(g, RecordStorageOperation(b), Fine)
    BY <1>8 DEF CachedSetDeleteGetAll
  <2> QED
    BY <2>1, BeginTells, ScriptsTold
<1> QED
  BY <1>1, <1>2, <1>3, <1>4, <1>5, <1>6, <1>7, <1>8 DEF Call

\* How the first step of a call changes what it has still to record.
LEMMA FirstOfScript ==
  ASSUME NEW s \in Seq(Step), s # <<>>, OneError(s)
  PROVE  /\ OneError(Tail(s))
         /\ IsError(Head(s)) =>
              \A t : (FailsAs(s, t) <=> t = Head(s).what) /\ ~FailsAs(Tail(s), t)
         /\ ~IsError(Head(s)) => \A t : FailsAs(Tail(s), t) <=> FailsAs(s, t)
<1>1. /\ Len(s) \in Nat /\ Len(s) > 0 /\ Len(Tail(s)) = Len(s) - 1
      /\ Head(s) = s[1]
      /\ \A i \in 1..Len(Tail(s)) : Tail(s)[i] = s[i + 1]
  OBVIOUS
<1> DEFINE r == Tail(s)
<1>2. \A i \in 1..Len(s) : i = 1 \/ (i - 1 \in 1..Len(r) /\ s[i] = r[i - 1])
  BY <1>1
<1>3. \A i \in 1..Len(r) : i + 1 \in 1..Len(s) /\ r[i] = s[i + 1]
  BY <1>1
<1> HIDE DEF r
<1>4. OneError(r)
  BY <1>1, <1>3 DEF OneError
<1>5. ASSUME IsError(s[1]), NEW t
      PROVE  (FailsAs(s, t) <=> t = s[1].what) /\ ~FailsAs(r, t)
  <2>1. \A i \in 1..Len(s) : i # 1 => ~IsError(s[i])
    BY <1>1, <1>5 DEF OneError
  <2>2. \A i \in 1..Len(r) : ~IsError(r[i])
    BY <1>1, <1>3, <2>1
  <2> QED
    BY <1>1, <1>5, <2>1, <2>2 DEF FailsAs
<1>6. ASSUME ~IsError(s[1]), NEW t
      PROVE  FailsAs(r, t) <=> FailsAs(s, t)
  BY <1>2, <1>3, <1>6 DEF FailsAs
<1> QED
  BY <1>1, <1>4, <1>5, <1>6 DEF r

\* The number of failing calls when the steps of one goroutine change.
LEMMA FailingStep ==
  ASSUME todo \in [Callers -> Seq(Step)], NEW g \in Callers, NEW s, NEW t,
         todo' = [todo EXCEPT ![g] = s]
  PROVE  LET before == Cardinality(Failing(t))
             after == Cardinality(Failing(t)')
         IN  /\ before \in Nat /\ after \in Nat
             /\ (FailsAs(s, t) <=> FailsAs(todo[g], t)) => after = before
             /\ FailsAs(todo[g], t) /\ ~FailsAs(s, t) => after = before - 1
             /\ ~FailsAs(todo[g], t) /\ FailsAs(s, t) => after = before + 1
<1> DEFINE F == Failing(t)
           G == {h \in Callers : FailsAs(todo'[h], t)}
<1>1. \A h \in Callers : todo'[h] = IF h = g THEN s ELSE todo[h]
  OBVIOUS
<1>2. /\ \A h \in Callers : h \in F <=> FailsAs(todo[h], t)
      /\ \A h \in Callers : h \in G <=> FailsAs(IF h = g THEN s ELSE todo[h], t)
      /\ F \subseteq Callers /\ G \subseteq Callers
  BY <1>1 DEF Failing
<1>3. IsFiniteSet(F) /\ IsFiniteSet(G)
  BY <1>2, CallersAssumption, FS_Subset
<1>4. G = Failing(t)'
  BY DEF Failing
<1>5. Cardinality(F) \in Nat /\ Cardinality(G) \in Nat
  BY <1>3, FS_CardinalityType
<1> HIDE DEF F, G
<1>6. (FailsAs(s, t) <=> FailsAs(todo[g], t)) => G = F
  BY <1>2
<1>7. FailsAs(todo[g], t) /\ ~FailsAs(s, t) => Cardinality(G) = Cardinality(F) - 1
  <2>1. FailsAs(todo[g], t) /\ ~FailsAs(s, t) => g \in F /\ G = F \ {g}
    BY <1>2
  <2> QED
    BY <1>3, <2>1, FS_RemoveElement
<1>8. ~FailsAs(todo[g], t) /\ FailsAs(s, t) => Cardinality(G) = Cardinality(F) + 1
  <2>1. ~FailsAs(todo[g], t) /\ FailsAs(s, t) => g \notin F /\ G = F \cup {g}
    BY <1>2
  <2> QED
    BY <1>3, <2>1, FS_AddElement
<1> QED
  BY <1>4, <1>5, <1>6, <1>7, <1>8 DEF F

LEMMA InitTallied == Init => Tallied
<1>1. SUFFICES ASSUME Init PROVE Tallied
  OBVIOUS
<1>2. \A g \in Callers : OneError(todo[g]) /\ \A t \in ErrorTypes : ~FailsAs(todo[g], t)
  BY <1>1, ScriptsTold, FineIsNoType DEF Init, Script
<1>3. \A t \in ErrorTypes : Cardinality(Failing(t)) = 0
  <2>1. \A t \in ErrorTypes : Failing(t) = {}
    BY <1>2 DEF Failing
  <2> QED
    BY <2>1, FS_EmptySet
<1>4. Safe
  BY <1>1, InitSafe
<1>5. \A t \in ErrorTypes : errors[t] = 0 /\ trouble[t] = 0
  BY <1>1 DEF Init
<1> QED
  BY <1>2, <1>3, <1>4, <1>5 DEF Tallied, Balanced

LEMMA StepTallied == Tallied /\ [Next]_vars => Tallied'
<1>1. SUFFICES ASSUME Tallied, [Next]_vars
               PROVE  Balanced' /\ \A g \in Callers : OneError(todo[g])'
  BY StepSafe DEF Tallied
<1>2. /\ errors \in [ErrorTypes -> Nat] /\ trouble \in [ErrorTypes -> Nat]
      /\ todo \in [Callers -> Seq(Step)]
      /\ \A g \in Callers : OneError(todo[g])
      /\ \A t \in ErrorTypes : errors[t] + Cardinality(Failing(t)) = trouble[t]
  BY <1>1 DEF Tallied, Balanced, Safe, TypeOK
<1>3. ASSUME NEW g \in Callers, NEW s, OneError(s), todo' = [todo EXCEPT ![g] = s]
      PROVE  \A h \in Callers : OneError(todo[h])'
  BY <1>2, <1>3
<1>4. ASSUME \A t \in ErrorTypes : errors'[t] + Cardinality(Failing(t)') = trouble'[t]
      PROVE  Balanced'
  BY <1>4 DEF Balanced
<1>5. ASSUME NEW g \in Callers, Call(g)
      PROVE  Balanced' /\ \A h \in Callers : OneError(todo[h])'
  <2>1. PICK s, cause : Begun(g, s) /\ Script(s, cause) /\ Tally(cause)
    BY <1>5, CallTells DEF Tells
  <2>2. errors' = errors /\ todo' = [todo EXCEPT ![g] = s] /\ todo[g] = <<>>
    BY <2>1 DEF Begun
  <2>3. ASSUME NEW t \in ErrorTypes
        PROVE  errors'[t] + Cardinality(Failing(t)') = trouble'[t]
    <3>1. ~FailsAs(todo[g], t) /\ (FailsAs(s, t) <=> t = cause)
      BY <2>1, <2>2, ScriptsTold, FineIsNoType DEF Script
    <3>2. trouble'[t] = IF t = cause THEN trouble[t] + 1 ELSE trouble[t]
      BY <2>1 DEF Tally
    <3>3. /\ Cardinality(Failing(t)) \in Nat
          /\ Cardinality(Failing(t)') = IF t = cause THEN Cardinality(Failing(t)) + 1
                                                     ELSE Cardinality(Failing(t))
      <4>1. todo \in [Callers -> Seq(Step)]
        BY <1>2
      <4>2. todo' = [todo EXCEPT ![g] = s]
        BY <2>2
      <4>3. CASE t = cause
        BY <3>1, <4>1, <4>2, <4>3, FailingStep
      <4>4. CASE t # cause
        BY <3>1, <4>1, <4>2, <4>4, FailingStep
      <4> QED
        BY <4>3, <4>4
    <3>4. errors[t] \in Nat /\ errors[t] + Cardinality(Failing(t)) = trouble[t]
      BY <1>2
    <3> QED
      BY <2>2, <3>2, <3>3, <3>4
  <2>4. OneError(s)
    BY <2>1 DEF Script
  <2> QED
    BY <1>3, <1>4, <2>2, <2>3, <2>4
<1>6. ASSUME NEW g \in Callers, AddInt64(g) \/ recordDuration(g)
      PROVE  Balanced' /\ \A h \in Callers : OneError(todo[h])'
  <2>1. /\ todo[g] # <<>> /\ ~IsError(Head(todo[g]))
        /\ todo' = [todo EXCEPT ![g] = Tail(todo[g])]
        /\ UNCHANGED <<errors, trouble>>
    BY <1>6 DEF AddInt64, recordDuration, Now, Done, IsError, calls
  <2>2. /\ OneError(Tail(todo[g]))
        /\ \A t : FailsAs(Tail(todo[g]), t) <=> FailsAs(todo[g], t)
    BY <1>2, <2>1, FirstOfScript
  <2>3. \A t \in ErrorTypes : Cardinality(Failing(t)') = Cardinality(Failing(t))
    <3>1. todo \in [Callers -> Seq(Step)] /\ todo' = [todo EXCEPT ![g] = Tail(todo[g])]
      BY <1>2, <2>1
    <3> QED
      BY <2>2, <3>1, FailingStep
  <2>4. \A t \in ErrorTypes : errors'[t] + Cardinality(Failing(t)') = trouble'[t]
    BY <1>2, <2>1, <2>3
  <2> QED
    BY <1>3, <1>4, <2>1, <2>2, <2>4
<1>7. ASSUME NEW g \in Callers, CountError(g)
      PROVE  Balanced' /\ \A h \in Callers : OneError(todo[h])'
  <2> DEFINE x == Head(todo[g]).what
  <2>1. /\ todo[g] # <<>> /\ IsError(Head(todo[g]))
        /\ errors' = [errors EXCEPT ![x] = @ + 1]
        /\ todo' = [todo EXCEPT ![g] = Tail(todo[g])]
        /\ trouble' = trouble
    BY <1>7 DEF CountError, Now, Done, IsError, calls
  <2> HIDE DEF x
  <2>2. /\ OneError(Tail(todo[g]))
        /\ \A t : (FailsAs(todo[g], t) <=> t = x) /\ ~FailsAs(Tail(todo[g]), t)
    BY <1>2, <2>1, FirstOfScript DEF x
  <2>3. ASSUME NEW t \in ErrorTypes
        PROVE  errors'[t] + Cardinality(Failing(t)') = trouble'[t]
    <3>1. /\ Cardinality(Failing(t)) \in Nat
          /\ Cardinality(Failing(t)') = IF t = x THEN Cardinality(Failing(t)) - 1
                                                 ELSE Cardinality(Failing(t))
      <4>1. todo \in [Callers -> Seq(Step)]
        BY <1>2
      <4>2. todo' = [todo EXCEPT ![g] = Tail(todo[g])]
        BY <2>1
      <4>3. (FailsAs(todo[g], t) <=> t = x) /\ ~FailsAs(Tail(todo[g]), t)
        BY <2>2
      <4>4. CASE t = x
        BY <4>1, <4>2, <4>3, <4>4, FailingStep
      <4>5. CASE t # x
        BY <4>1, <4>2, <4>3, <4>5, FailingStep
      <4> QED
        BY <4>4, <4>5
    <3>2. errors'[t] = IF t = x THEN errors[t] + 1 ELSE errors[t]
      BY <1>2, <2>1
    <3>3. errors[t] \in Nat /\ errors[t] + Cardinality(Failing(t)) = trouble[t]
      BY <1>2
    <3> QED
      BY <2>1, <3>1, <3>2, <3>3
  <2> QED
    BY <1>3, <1>4, <2>1, <2>2, <2>3
<1>8. CASE Close \/ RecordCacheEviction \/ GetMetrics \/ UNCHANGED vars
  <2>1. UNCHANGED <<errors, trouble, todo>>
    BY <1>8 DEF Close, RecordCacheEviction, GetMetrics, CopyErrors, LoadInt64, SnapshotTaken,
                vars, calls, collector
  <2>2. \A t : Failing(t)' = Failing(t)
    BY <2>1 DEF Failing
  <2> QED
    BY <1>2, <1>4, <2>1, <2>2
<1> QED
  BY <1>1, <1>5, <1>6, <1>7, <1>8 DEF Next, Record

\* Between calls, the error counts are the calls that were refused or failed, each
\* of the type of its cause (the error handling of the client's methods,
\* ClassifyError and RecordError).
THEOREM ErrorsCorrect == Spec => []ErrorsCountTrouble
<1>1. Tallied => ErrorsCountTrouble
  <2>1. SUFFICES ASSUME Tallied, \A g \in Callers : todo[g] = <<>>
                 PROVE  errors = trouble
    BY DEF ErrorsCountTrouble
  <2>2. ASSUME NEW t \in ErrorTypes
        PROVE  errors[t] = trouble[t]
    <3>1. \A g \in Callers : ~FailsAs(todo[g], t)
      BY <2>1, ScriptsTold, FineIsNoType DEF Script
    <3>2. Failing(t) = {}
      BY <3>1 DEF Failing
    <3>3. Cardinality(Failing(t)) = 0
      BY <3>2, FS_EmptySet
    <3>4. errors[t] \in Nat /\ errors[t] + Cardinality(Failing(t)) = trouble[t]
      BY <2>1 DEF Tallied, Balanced, Safe, TypeOK
    <3> QED
      BY <3>3, <3>4
  <2>3. errors \in [ErrorTypes -> Nat] /\ trouble \in [ErrorTypes -> Nat]
    BY <2>1 DEF Tallied, Safe, TypeOK
  <2> QED
    BY <2>2, <2>3
<1> QED
  BY <1>1, InitTallied, StepTallied, PTL DEF Spec
=============================================================================
