---------------------------- MODULE MCBatchCache ----------------------------
(* Instances of BatchCache for TLC.                                        *)
EXTENDS BatchCache

CONSTANTS a, b, d, s, k1, k2, k3

Ask1(k) == [id |-> 1, key |-> k]
Ask2(k) == [id |-> 2, key |-> k]

\* Two batches that share a key, one of them with a method that is not
\* cached, a batch of one without the cache and a single request.
Batches == [c \in Call |-> CASE c = a -> <<Ask1(k1), Ask2(k2)>>
                             [] c = b -> <<Ask1(k3), Ask2(k1)>>
                             [] c = d -> <<Ask1(k2)>>
                             [] c = s -> <<Ask1(k1)>>]
=============================================================================
