------------------------------- MODULE Options -------------------------------
(***************************************************************************)
(* What a request may ask of its retries in its query (Option of           *)
(* internal/core/reqctx/reqctxs.go).  A parameter is the set of the        *)
(* numbers it was parsed to: empty when it is absent or no number.         *)
(***************************************************************************)
EXTENDS Integers

CONSTANTS
    Number,           \* the numbers a query may give
    MaxAttempts,      \* reqctx.MaxAttempts
    DefaultAttempts,  \* the attempts of a request that asks for none
    MaxTimeout,       \* reqctx.MaxTimeout, in the units of a Duration
    DefaultTimeout,   \* the timeout of a request that asks for none
    Millisecond,      \* time.Millisecond
    MaxDuration       \* durations are -MaxDuration .. MaxDuration - 1

ASSUME AttemptsAssumption ==
    /\ Number \subseteq Int
    /\ MaxAttempts \in Nat \ {0} /\ DefaultAttempts \in 1 .. MaxAttempts
ASSUME TimeoutAssumption ==
    /\ MaxDuration \in Nat \ {0} /\ Millisecond \in Nat
    /\ MaxTimeout \in Int /\ DefaultTimeout \in Int

Parameter == {{}} \union {{n} : n \in Number}

\* "other" is "rotation" or no strategy's name.
Query ==
    [attempts : Parameter, maxRetryCount : Parameter, timeout : Parameter,
     attempt_strategy : {"absent", "same", "other"}]

Positive(p) == {n \in p : n > 0}
The(p)      == CHOOSE n \in p : TRUE
Capped(n)   == IF n < MaxAttempts THEN n ELSE MaxAttempts

\* Mutant: any number is taken, 0 too.
AttemptsAsGiven(q) ==
    IF q.attempts # {} THEN Capped(The(q.attempts))
    ELSE IF Positive(q.maxRetryCount) # {}
    THEN Capped(The(Positive(q.maxRetryCount)))
    ELSE DefaultAttempts

\* The first of two parameters that is a positive number.
Attempts(q) ==
    IF Positive(q.attempts) # {} THEN Capped(The(Positive(q.attempts)))
    ELSE IF Positive(q.maxRetryCount) # {}
    THEN Capped(The(Positive(q.maxRetryCount)))
    ELSE DefaultAttempts

\* An int64 product of more than 63 bits wraps.
Wrapped(n) == ((n + MaxDuration) % (2 * MaxDuration)) - MaxDuration

\* Capped above only: it may be 0 or negative, given so or wrapped.
Timeout(q) ==
    IF q.timeout = {} THEN DefaultTimeout
    ELSE LET t == Wrapped(The(q.timeout) * Millisecond)
         IN  IF t < MaxTimeout THEN t ELSE MaxTimeout

\* ParseRetryStrategy: every other name is Rotation, the default too.
AttemptStrategy(q) ==
    IF q.attempt_strategy = "same" THEN "same" ELSE "rotation"
=============================================================================
