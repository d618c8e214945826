------------------------------- MODULE Errors -------------------------------
(***************************************************************************)
(* core/errors.go: the errors of the library and what is asked of them.    *)
(*                                                                         *)
(* An error is one of the named ones, or some other error ("other": made   *)
(* by errors.New, fmt.Errorf or a driver), inside a number of              *)
(* FeatureFlagErrors (wraps).  What the functions look at is the outermost *)
(* one: its Type, its Retryable and whether its Err is a named error.  The *)
(* root "nil" stands for no error at all.                                  *)
(***************************************************************************)
EXTENDS Naturals

Sentinels == {"ErrFlagNotFound", "ErrInvalidConfig", "ErrStorageFailure", "ErrCacheFailure",
              "ErrInvalidFlag", "ErrConnectionFailure", "ErrTimeout", "ErrUnauthorized",
              "ErrRateLimited", "ErrClientClosed", "ErrInvalidOperation"}

ErrorTypes == {"not_found", "validation", "storage", "cache", "connection", "timeout",
               "authorization", "rate_limit", "client", "internal"}

Roots == Sentinels \cup {"other", "nil"}
Error == [root : Roots, wraps : Nat, type : ErrorTypes, retryable : BOOLEAN]

\* An error that is not a FeatureFlagError has neither Type nor Retryable; the
\* values here are never read.
Bare(root) == [root |-> root, wraps |-> 0, type |-> "internal", retryable |-> FALSE]

Nil == Bare("nil")

Is(e, names) == e.wraps = 0 /\ e.root \in names

\* The switch compares errors by identity: only a bare error matches.
ClassifyError(e) ==
  CASE Is(e, {"ErrFlagNotFound"}) -> "not_found"
    [] Is(e, {"ErrInvalidFlag", "ErrInvalidConfig"}) -> "validation"
    [] Is(e, {"ErrStorageFailure"}) -> "storage"
    [] Is(e, {"ErrCacheFailure"}) -> "cache"
    [] Is(e, {"ErrConnectionFailure"}) -> "connection"
    [] Is(e, {"ErrTimeout"}) -> "timeout"
    [] Is(e, {"ErrUnauthorized"}) -> "authorization"
    [] Is(e, {"ErrRateLimited"}) -> "rate_limit"
    [] Is(e, {"ErrClientClosed", "ErrInvalidOperation"}) -> "client"
    [] OTHER -> "internal"

isRetryableError(e) ==
  Is(e, {"ErrConnectionFailure", "ErrTimeout", "ErrRateLimited", "ErrStorageFailure"})

NewErrorWithType(type, e) ==
  [root |-> e.root, wraps |-> e.wraps + 1, type |-> type, retryable |-> isRetryableError(e)]

NewError(e) == NewErrorWithType(ClassifyError(e), e)

\* Mutant: only the named error itself is recognised.
NotFoundByIdentity(e) == Is(e, {"ErrFlagNotFound"})

IsNotFoundError(e) ==
  IF e.wraps = 0 THEN e.root = "ErrFlagNotFound"
                 ELSE e.type = "not_found" \/ (e.wraps = 1 /\ e.root = "ErrFlagNotFound")

IsRetryableError(e) == IF e.wraps = 0 THEN isRetryableError(e) ELSE e.retryable
=============================================================================
