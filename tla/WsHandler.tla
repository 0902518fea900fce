------------------------------ MODULE WsHandler ------------------------------
(***************************************************************************)
(* One WebSocket connection of a client to the proxy: HandleWebSocket's    *)
(* read loop, its ping goroutine, and safeWrite and safeClose, which the   *)
(* two share.  Time is counted in units in which the proxy's own steps,    *)
(* and a pong on its way, take none; what an upstream call takes is open.  *)
(*                                                                         *)
(* What a request asks and is answered is in BatchCache: here a message is *)
(* a number, and a reply is the number of the message it is for.           *)
(***************************************************************************)
EXTENDS Integers, Sequences, SequencesExt

CONSTANTS
    PongWait,    \* a read may wait so long after the last pong
    PingPeriod,  \* the ticker's period
    MaxFrames    \* bound: how many messages the client sends

ASSUME TimeAssumption ==
    PingPeriod \in Nat \ {0} /\ PongWait \in Nat /\ PingPeriod < PongWait
ASSUME FramesAssumption == MaxFrames \in Nat

VARIABLES
    pc,        \* where the read loop is
    ping,      \* where the ping goroutine is
    step,      \* where each of them is in safeWrite
    holder,    \* which of them has writeMutex
    closed,    \* connectionClosed
    cancelled, \* wsCtx is cancelled
    broken,    \* a write has failed: all others will
    readLeft,  \* time until the read deadline
    pingLeft,  \* time until the ticker ticks
    ticked,    \* a tick is in the ticker's channel
    client,    \* "well", or "gone" without a word
    inbox,     \* frames that have arrived and are not read
    flight,    \* a ping the client has still to answer
    sent,      \* how many messages the client has sent
    texts,     \* history: the text messages read
    replies,   \* history: the text messages replied to
    overdue,   \* history: the read deadline has passed while nobody read
    cause      \* history: why a read timed out

loopVars   == <<pc, closed, cancelled>>
writeVars  == <<step, holder, broken>>
timeVars   == <<readLeft, pingLeft, ticked>>
clientVars == <<client, inbox, flight, sent>>
textVars   == <<texts, replies>>
histVars   == <<overdue, cause>>
vars == <<loopVars, ping, writeVars, timeVars, clientVars, textVars, histVars>>

Writers == {"loop", "ping"}
Nobody  == "nobody"
Never   == -1
Message == {"request", "garbage", "binary"}
Frame   == [kind : Message \union {"pong", "close"}, id : 0..MaxFrames]
Steps   == {"upgraded", "welcoming", "reading", "calling", "replying",
            "closing", "cancelling", "ended"}

Init ==
    /\ pc = "upgraded" /\ ping = "none"
    /\ step = [g \in Writers |-> "rest"] /\ holder = Nobody
    /\ closed = FALSE /\ cancelled = FALSE /\ broken = FALSE
    /\ readLeft = Never /\ pingLeft = PingPeriod /\ ticked = FALSE
    /\ client = "well" /\ inbox = <<>> /\ flight = FALSE /\ sent = 0
    /\ texts = <<>> /\ replies = <<>>
    /\ overdue = FALSE /\ cause = "none"

StepTo(g, s) == step' = [step EXCEPT ![g] = s]

-----------------------------------------------------------------------------
(* safeWrite, for the read loop and the ping goroutine                     *)

\* Mutant: a reply that could not be written is no reason to leave.
LoopGoesOnAnyway(ok) ==
    /\ pc' = "reading"
    /\ ping' = IF ping = "none" THEN "waiting" ELSE ping

\* The loop reads on or leaves; after the welcome the pings begin.
LoopGoesOn(ok) ==
    /\ pc' = IF ok THEN "reading" ELSE "closing"
    /\ ping' = IF ok /\ ping = "none" THEN "waiting" ELSE ping

PingGoesOn(ok) ==
    /\ ping' = IF ok THEN "waiting" ELSE "stopped"
    /\ UNCHANGED pc

Return(g, ok) ==
    /\ StepTo(g, "rest")
    /\ IF g = "loop" THEN LoopGoesOn(ok) ELSE PingGoesOn(ok)

Check(g) ==
    /\ step[g] = "check"
    /\ \/ ~closed /\ StepTo(g, "lock") /\ UNCHANGED <<pc, ping>>
       \/ closed /\ Return(g, FALSE)
    /\ UNCHANGED <<holder, broken, closed, cancelled, timeVars, clientVars,
                   textVars, histVars>>

\* Mutant: there is no mutex for writes.
LockNothing(g) ==
    /\ step[g] = "lock"
    /\ holder' = g /\ StepTo(g, "recheck")
    /\ UNCHANGED <<broken, loopVars, ping, timeVars, clientVars, textVars,
                   histVars>>

Lock(g) ==
    /\ step[g] = "lock" /\ holder = Nobody
    /\ holder' = g /\ StepTo(g, "recheck")
    /\ UNCHANGED <<broken, loopVars, ping, timeVars, clientVars, textVars,
                   histVars>>

Recheck(g) ==
    /\ step[g] = "recheck"
    /\ \/ ~closed /\ StepTo(g, "write") /\ UNCHANGED <<pc, ping, holder>>
       \/ closed /\ Return(g, FALSE) /\ holder' = Nobody
    /\ UNCHANGED <<broken, closed, cancelled, timeVars, clientVars, textVars,
                   histVars>>

\* A frame for a client that is gone may still leave the proxy.
Write(g) ==
    /\ step[g] = "write" /\ ~closed /\ ~broken
    /\ Return(g, TRUE) /\ holder' = Nobody
    /\ replies' = IF g = "loop" /\ pc = "replying"
                  THEN Append(replies, Last(texts)) ELSE replies
    /\ flight' = IF g = "ping" THEN client = "well" ELSE flight
    /\ UNCHANGED <<broken, closed, cancelled, timeVars, client, inbox, sent,
                   texts, histVars>>

\* The connection is closed, or the client takes no frames for writeWait.
WriteFails(g) ==
    /\ step[g] = "write" /\ (closed \/ broken \/ client = "gone")
    /\ broken' = TRUE
    /\ Return(g, FALSE) /\ holder' = Nobody
    /\ UNCHANGED <<closed, cancelled, timeVars, clientVars, textVars, histVars>>

SafeWrite(g) == Check(g) \/ Lock(g) \/ Recheck(g) \/ Write(g) \/ WriteFails(g)

-----------------------------------------------------------------------------
(* The read loop                                                           *)

\* Mutant: no read deadline before the first pong.
ConfigureNoDeadline ==
    /\ pc = "upgraded"
    /\ pc' = "welcoming" /\ StepTo("loop", "check")
    /\ UNCHANGED <<readLeft, ping, closed, cancelled, holder, broken, pingLeft,
                   ticked, clientVars, textVars, histVars>>

Configure ==
    /\ pc = "upgraded"
    /\ readLeft' = PongWait
    /\ pc' = "welcoming" /\ StepTo("loop", "check")
    /\ UNCHANGED <<ping, closed, cancelled, holder, broken, pingLeft, ticked,
                   clientVars, textVars, histVars>>

\* Frames that came with one already read are read whatever the deadline.
Arrived(kind) == pc = "reading" /\ inbox # <<>> /\ Head(inbox).kind = kind

Taken == inbox' = Tail(inbox) /\ UNCHANGED <<client, flight, sent>>

\* The agent service is called if the chain has endpoints.
ReadRequest ==
    /\ Arrived("request") /\ Taken
    /\ texts' = Append(texts, Head(inbox).id)
    /\ \/ pc' = "calling" /\ UNCHANGED step
       \/ pc' = "replying" /\ StepTo("loop", "check")
    /\ UNCHANGED <<ping, closed, cancelled, holder, broken, timeVars, replies,
                   histVars>>

\* A text that is not JSON gets a parse error.
ReadGarbage ==
    /\ Arrived("garbage") /\ Taken
    /\ texts' = Append(texts, Head(inbox).id)
    /\ pc' = "replying" /\ StepTo("loop", "check")
    /\ UNCHANGED <<ping, closed, cancelled, holder, broken, timeVars, replies,
                   histVars>>

ReadBinary ==
    /\ Arrived("binary") /\ Taken
    /\ UNCHANGED <<loopVars, ping, writeVars, timeVars, textVars, histVars>>

\* Mutant: the pong handler forgets the deadline.
ReadPongOnly ==
    /\ Arrived("pong") /\ Taken
    /\ UNCHANGED <<loopVars, ping, writeVars, timeVars, textVars, histVars>>

\* The pong handler runs in ReadMessage, which then waits on.
ReadPong ==
    /\ Arrived("pong") /\ Taken
    /\ readLeft' = PongWait
    /\ overdue' = FALSE
    /\ UNCHANGED <<loopVars, ping, writeVars, pingLeft, ticked, textVars, cause>>

ReadClose ==
    /\ Arrived("close") /\ Taken
    /\ pc' = "closing"
    /\ UNCHANGED <<ping, closed, cancelled, writeVars, timeVars, textVars,
                   histVars>>

\* The connection is reset, or the read deadline has passed.
ReadFails ==
    /\ pc = "reading" /\ client = "gone"
    /\ pc' = "closing"
    /\ UNCHANGED <<ping, closed, cancelled, writeVars, timeVars, clientVars,
                   textVars, histVars>>

Expire ==
    /\ pc = "reading" /\ readLeft = 0
    /\ pc' = "closing"
    /\ cause' = IF overdue THEN "overdue" ELSE client
    /\ UNCHANGED <<ping, closed, cancelled, writeVars, timeVars, clientVars,
                   textVars, overdue>>

\* agentService.Call returns, with a result or an error, which is sent too.
EndCall ==
    /\ pc = "calling"
    /\ pc' = "replying" /\ StepTo("loop", "check")
    /\ UNCHANGED <<ping, closed, cancelled, holder, broken, timeVars,
                   clientVars, textVars, histVars>>

\* safeClose and cancel are deferred, and run in this order.
SafeClose ==
    /\ pc = "closing"
    /\ closed' = TRUE
    /\ pc' = "cancelling"
    /\ UNCHANGED <<ping, cancelled, writeVars, timeVars, clientVars, textVars,
                   histVars>>

Cancel ==
    /\ pc = "cancelling"
    /\ cancelled' = TRUE
    /\ pc' = "ended"
    /\ UNCHANGED <<ping, closed, writeVars, timeVars, clientVars, textVars,
                   histVars>>

-----------------------------------------------------------------------------
(* The ping goroutine                                                      *)

\* Either branch of the select, if both are ready.
PingTicks ==
    /\ ping = "waiting" /\ ticked
    /\ ticked' = FALSE
    /\ ping' = "pinging" /\ StepTo("ping", "check")
    /\ UNCHANGED <<loopVars, holder, broken, readLeft, pingLeft, clientVars,
                   textVars, histVars>>

PingDone ==
    /\ ping = "waiting" /\ cancelled
    /\ ping' = "stopped"
    /\ UNCHANGED <<loopVars, writeVars, timeVars, clientVars, textVars, histVars>>

-----------------------------------------------------------------------------
(* The client and time                                                     *)

Send(kind) ==
    /\ client = "well" /\ ~closed /\ sent < MaxFrames
    /\ sent' = sent + 1
    /\ inbox' = Append(inbox, [kind |-> kind, id |-> sent + 1])
    /\ UNCHANGED <<loopVars, ping, writeVars, timeVars, client, flight,
                   textVars, histVars>>

\* A pong right behind another changes nothing and is not counted.
Pong ==
    /\ client = "well" /\ flight
    /\ flight' = FALSE
    /\ inbox' = IF inbox # <<>> /\ Last(inbox).kind = "pong" THEN inbox
                ELSE Append(inbox, [kind |-> "pong", id |-> 0])
    /\ UNCHANGED <<loopVars, ping, writeVars, timeVars, client, sent, textVars,
                   histVars>>

\* With a close frame, or without.
Leave ==
    /\ client = "well"
    /\ client' = "gone" /\ flight' = FALSE
    /\ \/ UNCHANGED inbox
       \/ inbox' = Append(inbox, [kind |-> "close", id |-> 0])
    /\ UNCHANGED <<loopVars, ping, writeVars, timeVars, sent, textVars, histVars>>

\* With a client that is well, time passes when nobody has a step to take.
LoopWaits ==
    \/ pc \in {"calling", "ended"}
    \/ pc = "reading" /\ inbox = <<>> /\ readLeft # 0
PingWaits ==
    \/ ping \in {"none", "stopped"}
    \/ ping = "waiting" /\ ~ticked /\ ~cancelled

Tick ==
    /\ client = "gone" \/ (LoopWaits /\ PingWaits /\ ~flight)
    /\ ~closed
    /\ readLeft' = IF readLeft > 0 THEN readLeft - 1 ELSE readLeft
    /\ overdue' = (overdue \/ (readLeft = 1 /\ pc = "calling"))
    /\ IF ping = "none" THEN UNCHANGED <<pingLeft, ticked>>
       ELSE /\ pingLeft' = IF pingLeft > 1 THEN pingLeft - 1 ELSE PingPeriod
            /\ ticked' = (ticked \/ pingLeft = 1)
    /\ UNCHANGED <<loopVars, ping, writeVars, clientVars, textVars, cause>>

-----------------------------------------------------------------------------
LoopStep ==
    \/ Configure \/ SafeWrite("loop") \/ SafeClose \/ Cancel \/ Expire
    \/ ReadRequest \/ ReadGarbage \/ ReadBinary \/ ReadPong \/ ReadClose
PingStep == PingTicks \/ PingDone \/ SafeWrite("ping")

Next ==
    \/ LoopStep \/ PingStep \/ ReadFails \/ EndCall \/ Tick
    \/ (\E kind \in Message : Send(kind)) \/ Pong \/ Leave

Spec == Init /\ [][Next]_vars

\* Goroutines run and clocks go on.  Upstream calls need not end, and a
\* client that is gone need not be noticed by a read.  sync.Mutex is handed
\* to whoever has waited for a millisecond.
Fairness ==
    /\ WF_vars(LoopStep) /\ WF_vars(PingStep) /\ WF_vars(Tick)
    /\ \A g \in Writers : SF_vars(Lock(g))

FairSpec == Spec /\ Fairness

-----------------------------------------------------------------------------
(* Properties                                                              *)

TypeOK ==
    /\ pc \in Steps
    /\ ping \in {"none", "waiting", "pinging", "stopped"}
    /\ step \in [Writers -> {"rest", "check", "lock", "recheck", "write"}]
    /\ holder \in Writers \union {Nobody}
    /\ closed \in BOOLEAN /\ cancelled \in BOOLEAN /\ broken \in BOOLEAN
    /\ readLeft \in IF pc = "upgraded" THEN {Never} ELSE 0..PongWait
    /\ pingLeft \in 1..PingPeriod /\ ticked \in BOOLEAN
    /\ client \in {"well", "gone"}
    /\ inbox \in Seq(Frame) /\ flight \in BOOLEAN /\ sent \in 0..MaxFrames
    /\ texts \in Seq(1..MaxFrames) /\ replies \in Seq(1..MaxFrames)
    /\ overdue \in BOOLEAN /\ cause \in {"none", "well", "gone", "overdue"}

\* The connection takes one writer at a time: of the read loop and the ping
\* goroutine one may be writing, and it has the mutex until it returns.
OneWriter == \A g \in Writers : step[g] \in {"recheck", "write"} <=> holder = g

\* Every text message gets one reply, and in the order they came, before the
\* next is read; only the last may lack it, if the connection is lost.
OneReplyEach ==
    /\ replies = texts \/ (texts # <<>> /\ replies = Front(texts))
    /\ pc = "reading" => replies = texts

\* A client that answers every ping is not timed out, unless its read
\* deadline has passed during an upstream call, when its pongs are not read.
DropNeedsLongCall == cause # "well"

\* A client that is gone is noticed, unless an upstream call does not end;
\* and the ping goroutine does not outlive the connection.
GoneIsNoticed ==
    /\ client = "gone" ~> pc \in {"ended", "calling"}
    /\ pc = "ended" ~> ping \in {"none", "stopped"}
=============================================================================
