----------------------------- MODULE MCSelector -----------------------------
(* Instances of Selector for TLC.                                          *)
EXTENDS Selector

CONSTANTS r1, r2, e1, e2, e3, full, active

\* A full node and two others.
Three == <<e1, e2, e3>>
Types == [e \in {e1, e2, e3} |-> IF e = e1 THEN full ELSE active]
Alike == [e \in {e1, e2, e3} |-> 1]

\* One asks for either type, the other for none.
Asks == [r \in {r1, r2} |-> IF r = r1 THEN {full, active} ELSE {}]
=============================================================================
