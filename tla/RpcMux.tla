------------------------------- MODULE RpcMux -------------------------------
(***************************************************************************)
(* What a multiplexed JSON-RPC client promises its callers, whatever ids   *)
(* they use: a call asks once and then either returns a reply to a request *)
(* with its ids or fails.  A request gets at most one reply, and a reply   *)
(* is returned by at most one call; one that nobody takes is dropped.  If  *)
(* no two calls share their ids a call returns its own reply, and what it  *)
(* has returned is final.                                                  *)
(***************************************************************************)
CONSTANTS Call, NoCall, KeyOf

VARIABLES
    phase,      \* call -> "idle", "asked", "answered" or "failed"
    answer,     \* call -> the call whose reply it returned
    pending,    \* the requests that may yet get a reply
    replies     \* replies on their way to a caller

muxVars == <<phase, answer, pending, replies>>

Init ==
    /\ phase   = [c \in Call |-> "idle"]
    /\ answer  = [c \in Call |-> NoCall]
    /\ pending = {}
    /\ replies = {}

Ask(c) ==
    /\ phase[c] = "idle"
    /\ phase'   = [phase EXCEPT ![c] = "asked"]
    /\ pending' = pending \union {c}
    /\ UNCHANGED <<answer, replies>>

\* The client has no connection to ask on.
Refuse(c) ==
    /\ phase[c] = "idle"
    /\ phase' = [phase EXCEPT ![c] = "failed"]
    /\ UNCHANGED <<answer, pending, replies>>

\* The request, or the reply to it, got lost.
Miss(c) ==
    /\ c \in pending
    /\ pending' = pending \ {c}
    /\ UNCHANGED <<phase, answer, replies>>

\* The reply to c arrives; c may have given up meanwhile.
Reply(c) ==
    /\ c \in pending
    /\ pending' = pending \ {c}
    /\ replies' = replies \union {c}
    /\ UNCHANGED <<phase, answer>>

\* Call c takes a reply to its ids: its own, if nobody shares them.
Return(c, d) ==
    /\ phase[c] = "asked" /\ d \in replies /\ KeyOf[d] = KeyOf[c]
    /\ phase'   = [phase EXCEPT ![c] = "answered"]
    /\ answer'  = [answer EXCEPT ![c] = d]
    /\ replies' = replies \ {d}
    /\ UNCHANGED pending

Drop(c) ==
    /\ c \in replies
    /\ replies' = replies \ {c}
    /\ UNCHANGED <<phase, answer, pending>>

\* Call c gives up, with its request sent or not.
Fail(c) ==
    /\ phase[c] = "asked"
    /\ phase' = [phase EXCEPT ![c] = "failed"]
    /\ pending' \in {pending, pending \ {c}}
    /\ UNCHANGED <<answer, replies>>

\* What call c has returned is lost again, to a call that shares its ids.
Spoil(c, d) ==
    /\ d # c /\ KeyOf[d] = KeyOf[c] /\ phase[d] # "idle"
    /\ phase[c] = "answered"
    /\ phase' = [phase EXCEPT ![c] = "failed"]
    /\ UNCHANGED <<answer, pending, replies>>

Next ==
    \/ \E c \in Call : \/ Ask(c) \/ Refuse(c) \/ Miss(c) \/ Reply(c)
                       \/ Drop(c) \/ Fail(c)
    \/ \E c, d \in Call : Return(c, d) \/ Spoil(c, d)

Spec == Init /\ [][Next]_muxVars
=============================================================================
