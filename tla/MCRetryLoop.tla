----------------------------- MODULE MCRetryLoop -----------------------------
(* An instance of RetryLoop for TLC.                                       *)
EXTENDS RetryLoop

CONSTANTS r1, r2, h, w

\* Too few, some, more than MaxTimeout (2), and a Duration that wraps (7).
Numbers == {0, 1, 2, 7}
=============================================================================
