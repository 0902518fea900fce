--------------------------- MODULE MCTenantLimiter ---------------------------
(* Instances of TenantLimiter for TLC.                                     *)
EXTENDS TenantLimiter

CONSTANTS r1, r2, r3, p1, p2

\* Two requests arrive at the first proxy, the third at the second.
TwoProxies == [r \in Request |-> IF r = r3 THEN p2 ELSE p1]

\* The clock of the first proxy is ahead of redis's, the other's behind.
Ahead == [p \in Proxy |-> IF p = p1 THEN 1 ELSE -1]
=============================================================================
