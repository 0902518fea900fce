---------------------------- MODULE MCWsSessions ----------------------------
(* Instances of WsSessions for TLC.                                        *)
EXTENDS WsSessions

CONSTANTS a, b

\* Every call has ids of its own: the key is the call.
OwnKey == [x \in Call |-> x]

\* Calls a and b carry the same ids, as two clients counting from 1 do.
SameKey == [x \in Call |-> a]
=============================================================================
