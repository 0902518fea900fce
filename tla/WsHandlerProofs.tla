--------------------------- MODULE WsHandlerProofs ---------------------------
(***************************************************************************)
(* Theorems about WsHandler, for any two periods of which the ping's is    *)
(* the shorter and any number of messages.                                 *)
(***************************************************************************)
EXTENDS WsHandler, TLAPS

-----------------------------------------------------------------------------
(* Facts about sequences of frames and of message numbers.                 *)

LEMMA AppendFacts ==
  ASSUME NEW S, NEW s \in Seq(S), NEW e \in S
  PROVE  /\ Append(s, e) \in Seq(S)
         /\ Append(s, e) # <<>>
         /\ Front(Append(s, e)) = s
  BY DEF Front

LEMMA FrontFacts ==
  ASSUME NEW S, NEW s \in Seq(S), s # <<>>
  PROVE  /\ Last(s) \in S
         /\ Front(s) \in Seq(S)
         /\ Append(Front(s), Last(s)) = s
         /\ s # Front(s)
  BY DEF Front, Last

LEMMA AppendedIn ==
  ASSUME NEW S, NEW s \in Seq(S), NEW e \in S, NEW k \in DOMAIN Append(s, e)
  PROVE  (k \in DOMAIN s /\ Append(s, e)[k] = s[k]) \/ Append(s, e)[k] = e
  OBVIOUS

LEMMA HeadTailFacts ==
  ASSUME NEW S, NEW s \in Seq(S), s # <<>>
  PROVE  Head(s) \in S /\ Tail(s) \in Seq(S)
  OBVIOUS

-----------------------------------------------------------------------------
(* Types                                                                   *)

\* The texts that have arrived are numbered from one.
Numbered == \A k \in DOMAIN inbox : inbox[k].kind \in Message => inbox[k].id > 0

\* safeWrite is run for the welcome, a reply or a ping.
Writing ==
    /\ step["loop"] # "rest" <=> pc \in {"welcoming", "replying"}
    /\ step["ping"] # "rest" <=> ping = "pinging"

Owed == pc \in {"calling", "replying"} => texts # <<>>

TypeInv == TypeOK /\ Numbered /\ Writing /\ Owed

LEMMA TypeInit == Init => TypeInv
<1>. SUFFICES ASSUME Init PROVE TypeInv
  OBVIOUS
<1>1. PingPeriod \in 1..PingPeriod /\ 0 \in 0..MaxFrames
  BY TimeAssumption, FramesAssumption
<1>2. inbox \in Seq(Frame) /\ texts \in Seq(1..MaxFrames) /\ replies \in Seq(1..MaxFrames)
  BY DEF Init
<1>3. TypeOK
  BY <1>1, <1>2 DEF Init, TypeOK, Steps, Writers, Nobody
<1>. QED
  BY <1>3 DEF Init, TypeInv, Numbered, Writing, Owed, Writers

LEMMA TextHasId ==
  ASSUME TypeInv, inbox # <<>>, Head(inbox).kind \in Message
  PROVE  Head(inbox).id \in 1..MaxFrames
<1>1. inbox \in Seq(Frame)
  BY DEF TypeInv, TypeOK
<1>2. Head(inbox) \in Frame /\ Head(inbox) = inbox[1] /\ 1 \in DOMAIN inbox
  BY <1>1, HeadTailFacts
<1>3. Head(inbox).id > 0
  BY <1>2 DEF TypeInv, Numbered
<1>. QED
  BY <1>2, <1>3, FramesAssumption DEF Frame

LEMMA TypeStep == TypeInv /\ [Next]_vars => TypeInv'
<1>. SUFFICES ASSUME TypeInv, [Next]_vars PROVE TypeInv'
  OBVIOUS
<1>. USE DEF TypeInv, TypeOK, Numbered, Writing, Owed, Steps, Writers, Nobody, loopVars,
              writeVars, timeVars, clientVars, textVars, histVars
<1>1. ASSUME NEW g \in Writers, Check(g) PROVE TypeInv'
  BY <1>1 DEF Check, StepTo, Return, LoopGoesOn, PingGoesOn
<1>2. ASSUME NEW g \in Writers, Lock(g) PROVE TypeInv'
  BY <1>2 DEF Lock, StepTo
<1>3. ASSUME NEW g \in Writers, Recheck(g) PROVE TypeInv'
  BY <1>3 DEF Recheck, StepTo, Return, LoopGoesOn, PingGoesOn
<1>4. ASSUME NEW g \in Writers, Write(g) PROVE TypeInv'
  <2>1. CASE g = "loop" /\ pc = "replying"
    <3>1. texts # <<>>
      BY <2>1
    <3>2. replies' \in Seq(1..MaxFrames)
      BY <1>4, <2>1, <3>1, FrontFacts, AppendFacts DEF Write
    <3>. QED
      BY <1>4, <2>1, <3>2 DEF Write, StepTo, Return, LoopGoesOn, PingGoesOn
  <2>2. CASE g = "loop" /\ pc # "replying"
    BY <1>4, <2>2 DEF Write, StepTo, Return, LoopGoesOn
  <2>3. CASE g = "ping"
    BY <1>4, <2>3 DEF Write, StepTo, Return, PingGoesOn
  <2>. QED
    BY <2>1, <2>2, <2>3
<1>5. ASSUME NEW g \in Writers, WriteFails(g) PROVE TypeInv'
  BY <1>5 DEF WriteFails, StepTo, Return, LoopGoesOn, PingGoesOn
<1>6. ASSUME Configure PROVE TypeInv'
  BY <1>6, TimeAssumption DEF Configure, StepTo
<1>7. ASSUME ReadRequest PROVE TypeInv'
  <2>1. Head(inbox) \in Frame /\ Tail(inbox) \in Seq(Frame)
    BY <1>7, HeadTailFacts DEF Arrived, ReadRequest
  <2>2. \A k \in DOMAIN Tail(inbox) : k + 1 \in DOMAIN inbox /\ Tail(inbox)[k] = inbox[k + 1]
    BY <1>7 DEF Arrived, ReadRequest
  <2>3. Head(inbox).id \in 1..MaxFrames
    BY <1>7, TextHasId DEF ReadRequest, Arrived, Message
  <2>4. texts' \in Seq(1..MaxFrames)
    BY <1>7, <2>3, AppendFacts DEF ReadRequest, Arrived, Taken, StepTo
  <2>. QED
    BY <1>7, <2>1, <2>2, <2>4 DEF ReadRequest, Arrived, Taken, StepTo
<1>8. ASSUME ReadGarbage PROVE TypeInv'
  <2>1. Head(inbox) \in Frame /\ Tail(inbox) \in Seq(Frame)
    BY <1>8, HeadTailFacts DEF Arrived, ReadGarbage
  <2>2. \A k \in DOMAIN Tail(inbox) : k + 1 \in DOMAIN inbox /\ Tail(inbox)[k] = inbox[k + 1]
    BY <1>8 DEF Arrived, ReadGarbage
  <2>3. Head(inbox).id \in 1..MaxFrames
    BY <1>8, TextHasId DEF ReadGarbage, Arrived, Message
  <2>4. texts' \in Seq(1..MaxFrames)
    BY <1>8, <2>3, AppendFacts DEF ReadGarbage, Arrived, Taken, StepTo
  <2>. QED
    BY <1>8, <2>1, <2>2, <2>4 DEF ReadGarbage, Arrived, Taken, StepTo
<1>9. ASSUME ReadBinary PROVE TypeInv'
  <2>1. Head(inbox) \in Frame /\ Tail(inbox) \in Seq(Frame)
    BY <1>9, HeadTailFacts DEF Arrived, ReadBinary
  <2>2. \A k \in DOMAIN Tail(inbox) : k + 1 \in DOMAIN inbox /\ Tail(inbox)[k] = inbox[k + 1]
    BY <1>9 DEF Arrived, ReadBinary
  <2>. QED
    BY <1>9, <2>1, <2>2, TimeAssumption DEF ReadBinary, Arrived, Taken
<1>10. ASSUME ReadPong PROVE TypeInv'
  <2>1. Head(inbox) \in Frame /\ Tail(inbox) \in Seq(Frame)
    BY <1>10, HeadTailFacts DEF Arrived, ReadPong
  <2>2. \A k \in DOMAIN Tail(inbox) : k + 1 \in DOMAIN inbox /\ Tail(inbox)[k] = inbox[k + 1]
    BY <1>10 DEF Arrived, ReadPong
  <2>3. readLeft' \in 0..PongWait /\ pc' = pc /\ pc = "reading"
    BY <1>10, TimeAssumption DEF ReadPong, Arrived
  <2>4. inbox' = Tail(inbox) /\ overdue' = FALSE
    BY <1>10 DEF ReadPong, Taken
  <2>5. UNCHANGED <<loopVars, ping, writeVars, pingLeft, ticked, client, flight, sent, textVars,
                    cause>>
    BY <1>10 DEF ReadPong, Taken
  <2>6. inbox' \in Seq(Frame) /\ overdue' \in BOOLEAN /\ readLeft' \in 0..PongWait
    BY <2>1, <2>3, <2>4
  <2>8. TypeOK'
    BY <2>3, <2>5, <2>6
  <2>7. Numbered'
    BY <2>2, <2>4
  <2>. QED
    BY <2>5, <2>8, <2>7
<1>11. ASSUME ReadClose PROVE TypeInv'
  <2>1. Head(inbox) \in Frame /\ Tail(inbox) \in Seq(Frame)
    BY <1>11, HeadTailFacts DEF Arrived, ReadClose
  <2>2. \A k \in DOMAIN Tail(inbox) : k + 1 \in DOMAIN inbox /\ Tail(inbox)[k] = inbox[k + 1]
    BY <1>11 DEF Arrived, ReadClose
  <2>. QED
    BY <1>11, <2>1, <2>2, TimeAssumption DEF ReadClose, Arrived, Taken
<1>12. ASSUME ReadFails PROVE TypeInv'
  BY <1>12 DEF ReadFails
<1>13. ASSUME Expire PROVE TypeInv'
  BY <1>13 DEF Expire
<1>14. ASSUME EndCall PROVE TypeInv'
  BY <1>14 DEF EndCall, StepTo
<1>15. ASSUME SafeClose PROVE TypeInv'
  BY <1>15 DEF SafeClose
<1>16. ASSUME Cancel PROVE TypeInv'
  BY <1>16 DEF Cancel
<1>17. ASSUME PingTicks PROVE TypeInv'
  <2>1. ticked' \in BOOLEAN
    BY <1>17, Zenon DEF PingTicks
  <2>2. /\ step' \in [Writers -> {"rest", "check", "lock", "recheck", "write"}]
        /\ step'["loop"] = step["loop"] /\ step'["ping"] = "check"
    BY <1>17 DEF PingTicks, StepTo
  <2>3. ping' = "pinging" /\ UNCHANGED <<loopVars, holder, broken, readLeft, pingLeft,
                                        clientVars, textVars, histVars>>
    BY <1>17 DEF PingTicks
  <2>. QED
    BY <2>1, <2>2, <2>3
<1>18. ASSUME PingDone PROVE TypeInv'
  BY <1>18 DEF PingDone
<1>19. ASSUME NEW kind \in Message, Send(kind) PROVE TypeInv'
  <2>1. sent + 1 \in 1..MaxFrames
    BY <1>19, FramesAssumption DEF Send
  <2>2. [kind |-> kind, id |-> sent + 1] \in Frame
    BY <2>1, FramesAssumption DEF Frame
  <2>3. inbox' \in Seq(Frame)
    BY <1>19, <2>2, AppendFacts DEF Send
  <2>4. Numbered'
    BY <1>19, <2>1, <2>2, AppendedIn DEF Send
  <2>. QED
    BY <1>19, <2>1, <2>3, <2>4 DEF Send
<1>20. ASSUME Pong PROVE TypeInv'
  <2>1. [kind |-> "pong", id |-> 0] \in Frame
    BY FramesAssumption DEF Frame
  <2>2. inbox' \in Seq(Frame)
    BY <1>20, <2>1, AppendFacts DEF Pong
  <2>3. "pong" \notin Message
    BY DEF Message
  <2>4. Numbered'
    BY <1>20, <2>1, <2>3, AppendedIn DEF Pong
  <2>5. flight' \in BOOLEAN
    BY <1>20, Zenon DEF Pong
  <2>6. UNCHANGED <<loopVars, ping, writeVars, timeVars, client, sent, textVars, histVars>>
    BY <1>20 DEF Pong
  <2>. QED
    BY <2>2, <2>4, <2>5, <2>6
<1>21. ASSUME Leave PROVE TypeInv'
  <2>1. [kind |-> "close", id |-> 0] \in Frame
    BY FramesAssumption DEF Frame
  <2>2. "close" \notin Message
    BY DEF Message
  <2>3. inbox' \in Seq(Frame) /\ Numbered'
    <3>1. CASE UNCHANGED inbox
      BY <3>1
    <3>2. CASE inbox' = Append(inbox, [kind |-> "close", id |-> 0])
      BY <2>1, <2>2, <3>2, AppendFacts, AppendedIn
    <3>. QED
      BY <1>21, <3>1, <3>2 DEF Leave
  <2>4. flight' \in BOOLEAN
    BY <1>21, Zenon DEF Leave
  <2>5. client' = "gone" /\ UNCHANGED <<loopVars, ping, writeVars, timeVars, sent, textVars,
                                       histVars>>
    BY <1>21 DEF Leave
  <2>. QED
    BY <2>3, <2>4, <2>5
<1>22. ASSUME Tick PROVE TypeInv'
  <2>1. readLeft' \in IF pc = "upgraded" THEN {Never} ELSE 0..PongWait
    BY <1>22, TimeAssumption DEF Tick, Never
  <2>2. pingLeft' \in 1..PingPeriod
    BY <1>22, TimeAssumption DEF Tick
  <2>4. ticked' \in BOOLEAN
    <3>1. ticked' = ticked \/ ticked' = (ticked \/ pingLeft = 1)
      BY <1>22, Zenon DEF Tick
    <3>. QED
      BY <3>1, Zenon
  <2>3. overdue' \in BOOLEAN
    BY <1>22 DEF Tick
  <2>. QED
    BY <1>22, <2>1, <2>2, <2>3, <2>4 DEF Tick
<1>23. CASE UNCHANGED vars
  BY <1>23 DEF vars
<1>. QED
  BY <1>1, <1>2, <1>3, <1>4, <1>5, <1>6, <1>7, <1>8, <1>9, <1>10, <1>11, <1>12, <1>13, <1>14, <1>15, <1>16, <1>17, <1>18, <1>19, <1>20, <1>21, <1>22, <1>23
     DEF Next, LoopStep, PingStep, SafeWrite

\* The state is of its type at every step: replies are to messages that were
\* sent, and from the first moment on there is a read deadline.
THEOREM TypeCorrect == Spec => []TypeOK
<1>1. Spec => []TypeInv
  BY TypeInit, TypeStep, PTL DEF Spec
<1>2. TypeInv => TypeOK
  BY DEF TypeInv
<1>. QED
  BY <1>1, <1>2, PTL

-----------------------------------------------------------------------------
(* The mutex                                                               *)

LEMMA WriterInit == Init => OneWriter
  BY DEF Init, OneWriter, Writers, Nobody

LEMMA WriterStep == TypeInv /\ OneWriter /\ [Next]_vars => OneWriter'
<1>. SUFFICES ASSUME TypeInv, OneWriter, [Next]_vars PROVE OneWriter'
  OBVIOUS
<1>. USE DEF TypeInv, OneWriter, Writing, Writers, Nobody, loopVars, writeVars
<1>0. step \in [Writers -> {"rest", "check", "lock", "recheck", "write"}]
  BY DEF TypeOK
<1>1. ASSUME NEW g \in Writers, Check(g) PROVE OneWriter'
  BY <1>1, <1>0 DEF Check, StepTo, Return, LoopGoesOn, PingGoesOn
<1>2. ASSUME NEW g \in Writers, Lock(g) PROVE OneWriter'
  BY <1>2, <1>0 DEF Lock, StepTo
<1>3. ASSUME NEW g \in Writers, Recheck(g) PROVE OneWriter'
  BY <1>3, <1>0 DEF Recheck, StepTo, Return, LoopGoesOn, PingGoesOn
<1>4. ASSUME NEW g \in Writers, Write(g) PROVE OneWriter'
  BY <1>4, <1>0 DEF Write, StepTo, Return, LoopGoesOn, PingGoesOn
<1>5. ASSUME NEW g \in Writers, WriteFails(g) PROVE OneWriter'
  BY <1>5, <1>0 DEF WriteFails, StepTo, Return, LoopGoesOn, PingGoesOn
<1>6. ASSUME Configure PROVE OneWriter'
  BY <1>6, <1>0 DEF Configure, StepTo
<1>7. ASSUME ReadRequest PROVE OneWriter'
  BY <1>7, <1>0 DEF ReadRequest, Arrived, Taken, StepTo
<1>8. ASSUME ReadGarbage PROVE OneWriter'
  BY <1>8, <1>0 DEF ReadGarbage, Arrived, Taken, StepTo
<1>9. ASSUME ReadBinary PROVE OneWriter'
  BY <1>9, <1>0 DEF ReadBinary, Arrived, Taken
<1>10. ASSUME ReadPong PROVE OneWriter'
  BY <1>10, <1>0 DEF ReadPong, Arrived, Taken
<1>11. ASSUME ReadClose PROVE OneWriter'
  BY <1>11, <1>0 DEF ReadClose, Arrived, Taken
<1>12. ASSUME ReadFails PROVE OneWriter'
  BY <1>12, <1>0 DEF ReadFails
<1>13. ASSUME Expire PROVE OneWriter'
  BY <1>13, <1>0 DEF Expire
<1>14. ASSUME EndCall PROVE OneWriter'
  BY <1>14, <1>0 DEF EndCall, StepTo
<1>15. ASSUME SafeClose PROVE OneWriter'
  BY <1>15, <1>0 DEF SafeClose
<1>16. ASSUME Cancel PROVE OneWriter'
  BY <1>16, <1>0 DEF Cancel
<1>17. ASSUME PingTicks PROVE OneWriter'
  BY <1>17, <1>0 DEF PingTicks, StepTo
<1>18. ASSUME PingDone PROVE OneWriter'
  BY <1>18, <1>0 DEF PingDone
<1>19. ASSUME NEW kind \in Message, Send(kind) PROVE OneWriter'
  BY <1>19, <1>0 DEF Send
<1>20. ASSUME Pong PROVE OneWriter'
  BY <1>20, <1>0 DEF Pong
<1>21. ASSUME Leave PROVE OneWriter'
  BY <1>21, <1>0 DEF Leave
<1>22. ASSUME Tick PROVE OneWriter'
  BY <1>22, <1>0 DEF Tick
<1>23. CASE UNCHANGED vars
  BY <1>23 DEF vars
<1>. QED
  BY <1>1, <1>2, <1>3, <1>4, <1>5, <1>6, <1>7, <1>8, <1>9, <1>10, <1>11, <1>12, <1>13, <1>14, <1>15, <1>16, <1>17, <1>18, <1>19, <1>20, <1>21, <1>22, <1>23
     DEF Next, LoopStep, PingStep, SafeWrite

\* The read loop and the ping goroutine never write at the same time, and
\* neither keeps the mutex when it has returned from safeWrite.
THEOREM WritersExclude == Spec => []OneWriter
<1>1. Spec => [](TypeInv /\ OneWriter)
  BY TypeInit, TypeStep, WriterInit, WriterStep, PTL DEF Spec
<1>. QED
  BY <1>1, PTL

-----------------------------------------------------------------------------
(* The replies                                                             *)

\* While a text is being answered only its own reply is missing; a loop that
\* leaves may leave the last one out.
Answered ==
    /\ pc \in {"calling", "replying"} => replies = Front(texts)
    /\ pc \in {"upgraded", "welcoming", "reading"} => replies = texts
    /\ replies = texts \/ (texts # <<>> /\ replies = Front(texts))

LEMMA AnsweredInit == Init => Answered
  BY DEF Init, Answered

LEMMA AnsweredStep == TypeInv /\ Answered /\ [Next]_vars => Answered'
<1>. SUFFICES ASSUME TypeInv, Answered, [Next]_vars PROVE Answered'
  OBVIOUS
<1>. USE DEF TypeInv, Answered, Owed, Writing, Writers, loopVars, textVars
<1>0. texts \in Seq(1..MaxFrames) /\ replies \in Seq(1..MaxFrames) /\ pc \in Steps
      /\ step \in [Writers -> {"rest", "check", "lock", "recheck", "write"}]
  BY DEF TypeOK
<1>1. ASSUME NEW g \in Writers, Check(g) PROVE Answered'
  BY <1>1, <1>0 DEF Check, StepTo, Return, LoopGoesOn, PingGoesOn
<1>2. ASSUME NEW g \in Writers, Lock(g) PROVE Answered'
  BY <1>2, <1>0 DEF Lock, StepTo
<1>3. ASSUME NEW g \in Writers, Recheck(g) PROVE Answered'
  BY <1>3, <1>0 DEF Recheck, StepTo, Return, LoopGoesOn, PingGoesOn
<1>4. ASSUME NEW g \in Writers, Write(g) PROVE Answered'
  <2>1. CASE g = "loop" /\ pc = "replying"
    <3>1. replies' = texts /\ texts' = texts /\ pc' = "reading"
      BY <1>4, <1>0, <2>1, FrontFacts DEF Write, Return, LoopGoesOn
    <3>. QED
      BY <3>1
  <2>2. CASE ~(g = "loop" /\ pc = "replying")
    <3>1. replies' = replies /\ texts' = texts
      BY <1>4, <2>2 DEF Write
    <3>2. pc' = pc \/ (pc = "welcoming" /\ pc' = "reading")
      BY <1>4, <1>0, <2>2 DEF Write, Return, LoopGoesOn, PingGoesOn
    <3>. QED
      BY <3>1, <3>2
  <2>. QED
    BY <2>1, <2>2
<1>5. ASSUME NEW g \in Writers, WriteFails(g) PROVE Answered'
  BY <1>5, <1>0 DEF WriteFails, StepTo, Return, LoopGoesOn, PingGoesOn
<1>6. ASSUME Configure PROVE Answered'
  BY <1>6, <1>0 DEF Configure, StepTo
<1>7. ASSUME ReadRequest PROVE Answered'
  <2>1. Head(inbox).id \in 1..MaxFrames
    BY <1>7, TextHasId DEF ReadRequest, Arrived, Message
  <2>2. Append(texts, Head(inbox).id) # <<>> /\ Front(Append(texts, Head(inbox).id)) = texts
    <3>. HIDE DEF Answered, TypeInv
    <3>1. texts \in Seq(1..MaxFrames)
      BY <1>0
    <3>. QED
      BY <2>1, <3>1, AppendFacts, Zenon
  <2>3. /\ texts' = Append(texts, Head(inbox).id) /\ replies' = replies
        /\ replies = texts /\ pc' \in {"calling", "replying"}
    BY <1>7 DEF ReadRequest, Arrived
  <2>. QED
    BY <2>2, <2>3
<1>8. ASSUME ReadGarbage PROVE Answered'
  <2>1. Head(inbox).id \in 1..MaxFrames
    BY <1>8, TextHasId DEF ReadGarbage, Arrived, Message
  <2>2. Append(texts, Head(inbox).id) # <<>> /\ Front(Append(texts, Head(inbox).id)) = texts
    <3>. HIDE DEF Answered, TypeInv
    <3>1. texts \in Seq(1..MaxFrames)
      BY <1>0
    <3>. QED
      BY <2>1, <3>1, AppendFacts, Zenon
  <2>3. /\ texts' = Append(texts, Head(inbox).id) /\ replies' = replies
        /\ replies = texts /\ pc' \in {"calling", "replying"}
    BY <1>8 DEF ReadGarbage, Arrived
  <2>. QED
    BY <2>2, <2>3
<1>9. ASSUME ReadBinary PROVE Answered'
  BY <1>9, <1>0 DEF ReadBinary, Arrived, Taken
<1>10. ASSUME ReadPong PROVE Answered'
  BY <1>10, <1>0 DEF ReadPong, Arrived, Taken
<1>11. ASSUME ReadClose PROVE Answered'
  BY <1>11, <1>0 DEF ReadClose, Arrived, Taken
<1>12. ASSUME ReadFails PROVE Answered'
  BY <1>12, <1>0 DEF ReadFails
<1>13. ASSUME Expire PROVE Answered'
  BY <1>13, <1>0 DEF Expire
<1>14. ASSUME EndCall PROVE Answered'
  BY <1>14, <1>0 DEF EndCall, StepTo
<1>15. ASSUME SafeClose PROVE Answered'
  BY <1>15, <1>0 DEF SafeClose
<1>16. ASSUME Cancel PROVE Answered'
  BY <1>16, <1>0 DEF Cancel
<1>17. ASSUME PingTicks PROVE Answered'
  BY <1>17, <1>0 DEF PingTicks, StepTo
<1>18. ASSUME PingDone PROVE Answered'
  BY <1>18, <1>0 DEF PingDone
<1>19. ASSUME NEW kind \in Message, Send(kind) PROVE Answered'
  BY <1>19, <1>0 DEF Send
<1>20. ASSUME Pong PROVE Answered'
  BY <1>20, <1>0 DEF Pong
<1>21. ASSUME Leave PROVE Answered'
  BY <1>21, <1>0 DEF Leave
<1>22. ASSUME Tick PROVE Answered'
  BY <1>22, <1>0 DEF Tick
<1>23. CASE UNCHANGED vars
  BY <1>23 DEF vars
<1>. QED
  BY <1>1, <1>2, <1>3, <1>4, <1>5, <1>6, <1>7, <1>8, <1>9, <1>10, <1>11, <1>12, <1>13, <1>14, <1>15, <1>16, <1>17, <1>18, <1>19, <1>20, <1>21, <1>22, <1>23
     DEF Next, LoopStep, PingStep, SafeWrite

\* Every text message is replied to once and in its turn, whatever the ping
\* goroutine does and whenever the client leaves.
THEOREM EachOneReply == Spec => []OneReplyEach
<1>1. Spec => [](TypeInv /\ Answered)
  BY TypeInit, TypeStep, AnsweredInit, AnsweredStep, PTL DEF Spec
<1>2. Answered => OneReplyEach
  BY DEF Answered, OneReplyEach
<1>. QED
  BY <1>1, <1>2, PTL

-----------------------------------------------------------------------------
(* The read deadline                                                       *)

HasPong(frames) == \E k \in DOMAIN frames : frames[k].kind = "pong"

\* A pong is on its way to the read loop, or a ping that will bring one.
PongComing == ticked \/ ping = "pinging" \/ flight \/ HasPong(inbox)

Serving == pc \in {"welcoming", "reading", "calling", "replying"}

\* With a client that is well nothing breaks before the loop leaves: pings
\* go on, and the ticker ticks, or has ticked, before the deadline passes.
Alive ==
    /\ closed <=> pc \in {"cancelling", "ended"}
    /\ cancelled => closed
    /\ client = "well" /\ ~closed => ~broken /\ ping # "stopped"
    /\ pc \in {"reading", "calling", "replying"} => ping # "none"
    /\ cause # "well"

InTime ==
    client = "well" /\ ~overdue /\ Serving =>
        readLeft > pingLeft \/ (readLeft > 0 /\ PongComing)

LEMMA PongStays ==
  ASSUME inbox \in Seq(Frame), inbox # <<>>, Head(inbox).kind # "pong", HasPong(inbox)
  PROVE  HasPong(Tail(inbox))
<1>1. PICK k \in DOMAIN inbox : inbox[k].kind = "pong"
  BY DEF HasPong
<1>2. k # 1
  BY <1>1
<1>3. k - 1 \in DOMAIN Tail(inbox) /\ Tail(inbox)[k - 1] = inbox[k]
  BY <1>2
<1>. QED
  BY <1>1, <1>3 DEF HasPong

LEMMA PongArrives ==
  ASSUME inbox \in Seq(Frame), NEW f \in Frame
  PROVE  /\ HasPong(inbox) => HasPong(Append(inbox, f))
         /\ f.kind = "pong" => HasPong(Append(inbox, f))
<1>1. /\ Len(inbox) + 1 \in DOMAIN Append(inbox, f)
      /\ Append(inbox, f)[Len(inbox) + 1] = f
  OBVIOUS
<1>2. \A k \in DOMAIN inbox : k \in DOMAIN Append(inbox, f) /\ Append(inbox, f)[k] = inbox[k]
  OBVIOUS
<1>. QED
  BY <1>1, <1>2 DEF HasPong

LEMMA AliveInit == Init => Alive /\ InTime
  BY DEF Init, Alive, InTime, Serving

LEMMA AliveStep == TypeInv /\ Alive /\ InTime /\ [Next]_vars => Alive'
<1>. SUFFICES ASSUME TypeInv, Alive, InTime, [Next]_vars PROVE Alive'
  OBVIOUS
<1>. USE DEF Alive, Writing, Writers, loopVars, writeVars, histVars, clientVars
<1>0. /\ step \in [Writers -> {"rest", "check", "lock", "recheck", "write"}] /\ Writing
      /\ client \in {"well", "gone"} /\ readLeft \in 0..PongWait \union {Never}
      /\ pingLeft \in 1..PingPeriod
  BY DEF TypeInv, TypeOK
<1>1. ASSUME NEW g \in Writers, Check(g) PROVE Alive'
  BY <1>1, <1>0 DEF Check, StepTo, Return, LoopGoesOn, PingGoesOn
<1>2. ASSUME NEW g \in Writers, Lock(g) PROVE Alive'
  BY <1>2, <1>0 DEF Lock, StepTo
<1>3. ASSUME NEW g \in Writers, Recheck(g) PROVE Alive'
  BY <1>3, <1>0 DEF Recheck, StepTo, Return, LoopGoesOn, PingGoesOn
<1>4. ASSUME NEW g \in Writers, Write(g) PROVE Alive'
  BY <1>4, <1>0 DEF Write, StepTo, Return, LoopGoesOn, PingGoesOn
<1>5. ASSUME NEW g \in Writers, WriteFails(g) PROVE Alive'
  BY <1>5, <1>0 DEF WriteFails, StepTo, Return, LoopGoesOn, PingGoesOn
<1>6. ASSUME Configure PROVE Alive'
  BY <1>6, <1>0 DEF Configure, StepTo
<1>7. ASSUME ReadRequest PROVE Alive'
  BY <1>7, <1>0 DEF ReadRequest, Arrived, Taken, StepTo
<1>8. ASSUME ReadGarbage PROVE Alive'
  BY <1>8, <1>0 DEF ReadGarbage, Arrived, Taken, StepTo
<1>9. ASSUME ReadBinary PROVE Alive'
  BY <1>9, <1>0 DEF ReadBinary, Arrived, Taken
<1>10. ASSUME ReadPong PROVE Alive'
  BY <1>10, <1>0 DEF ReadPong, Arrived, Taken
<1>11. ASSUME ReadClose PROVE Alive'
  BY <1>11, <1>0 DEF ReadClose, Arrived, Taken
<1>12. ASSUME ReadFails PROVE Alive'
  BY <1>12, <1>0 DEF ReadFails
<1>13. ASSUME Expire PROVE Alive'
  BY <1>13, <1>0, TimeAssumption DEF Expire, InTime, Serving, PongComing
<1>14. ASSUME EndCall PROVE Alive'
  BY <1>14, <1>0 DEF EndCall, StepTo
<1>15. ASSUME SafeClose PROVE Alive'
  BY <1>15, <1>0 DEF SafeClose
<1>16. ASSUME Cancel PROVE Alive'
  BY <1>16, <1>0 DEF Cancel
<1>17. ASSUME PingTicks PROVE Alive'
  BY <1>17, <1>0 DEF PingTicks, StepTo
<1>18. ASSUME PingDone PROVE Alive'
  BY <1>18, <1>0 DEF PingDone
<1>19. ASSUME NEW kind \in Message, Send(kind) PROVE Alive'
  BY <1>19, <1>0 DEF Send
<1>20. ASSUME Pong PROVE Alive'
  BY <1>20, <1>0 DEF Pong
<1>21. ASSUME Leave PROVE Alive'
  BY <1>21, <1>0 DEF Leave
<1>22. ASSUME Tick PROVE Alive'
  BY <1>22, <1>0 DEF Tick
<1>23. CASE UNCHANGED vars
  BY <1>23 DEF vars
<1>. QED
  BY <1>1, <1>2, <1>3, <1>4, <1>5, <1>6, <1>7, <1>8, <1>9, <1>10, <1>11, <1>12, <1>13, <1>14, <1>15, <1>16, <1>17, <1>18, <1>19, <1>20, <1>21, <1>22, <1>23
     DEF Next, LoopStep, PingStep, SafeWrite

LEMMA InTimeStep == TypeInv /\ Alive /\ InTime /\ [Next]_vars => InTime'
<1>. SUFFICES ASSUME TypeInv, Alive, InTime, [Next]_vars PROVE InTime'
  OBVIOUS
<1>. USE DEF Alive, InTime, Serving, PongComing, Writing, Writers, loopVars, writeVars,
             timeVars, clientVars, histVars
<1>0. /\ step \in [Writers -> {"rest", "check", "lock", "recheck", "write"}] /\ Writing
      /\ client \in {"well", "gone"} /\ inbox \in Seq(Frame)
      /\ readLeft \in 0..PongWait \union {Never} /\ pingLeft \in 1..PingPeriod
  BY DEF TypeInv, TypeOK
<1>1. ASSUME NEW g \in Writers, Check(g) PROVE InTime'
  BY <1>1, <1>0 DEF Check, StepTo, Return, LoopGoesOn, PingGoesOn
<1>2. ASSUME NEW g \in Writers, Lock(g) PROVE InTime'
  BY <1>2, <1>0 DEF Lock, StepTo
<1>3. ASSUME NEW g \in Writers, Recheck(g) PROVE InTime'
  BY <1>3, <1>0 DEF Recheck, StepTo, Return, LoopGoesOn, PingGoesOn
<1>4. ASSUME NEW g \in Writers, Write(g) PROVE InTime'
  BY <1>4, <1>0 DEF Write, StepTo, Return, LoopGoesOn, PingGoesOn
<1>5. ASSUME NEW g \in Writers, WriteFails(g) PROVE InTime'
  BY <1>5, <1>0 DEF WriteFails, StepTo, Return, LoopGoesOn, PingGoesOn
<1>6. ASSUME Configure PROVE InTime'
  BY <1>6, <1>0, TimeAssumption DEF Configure, StepTo
<1>7. ASSUME ReadRequest PROVE InTime'
  BY <1>7, <1>0, PongStays DEF ReadRequest, Arrived, Taken, StepTo
<1>8. ASSUME ReadGarbage PROVE InTime'
  BY <1>8, <1>0, PongStays DEF ReadGarbage, Arrived, Taken, StepTo
<1>9. ASSUME ReadBinary PROVE InTime'
  BY <1>9, <1>0, PongStays DEF ReadBinary, Arrived, Taken
<1>10. ASSUME ReadPong PROVE InTime'
  BY <1>10, <1>0, TimeAssumption DEF ReadPong, Arrived, Taken
<1>11. ASSUME ReadClose PROVE InTime'
  BY <1>11, <1>0, PongStays DEF ReadClose, Arrived, Taken
<1>12. ASSUME ReadFails PROVE InTime'
  BY <1>12, <1>0 DEF ReadFails
<1>13. ASSUME Expire PROVE InTime'
  BY <1>13, <1>0 DEF Expire
<1>14. ASSUME EndCall PROVE InTime'
  BY <1>14, <1>0 DEF EndCall, StepTo
<1>15. ASSUME SafeClose PROVE InTime'
  BY <1>15, <1>0 DEF SafeClose
<1>16. ASSUME Cancel PROVE InTime'
  BY <1>16, <1>0 DEF Cancel
<1>17. ASSUME PingTicks PROVE InTime'
  BY <1>17, <1>0 DEF PingTicks, StepTo
<1>18. ASSUME PingDone PROVE InTime'
  BY <1>18, <1>0 DEF PingDone
<1>19. ASSUME NEW kind \in Message, Send(kind) PROVE InTime'
  <2>1. [kind |-> kind, id |-> sent + 1] \in Frame
    BY <1>19, FramesAssumption DEF Send, Frame, TypeInv, TypeOK
  <2>2. HasPong(inbox) => HasPong(inbox')
    BY <1>19, <1>0, <2>1, PongArrives DEF Send
  <2>. QED
    BY <1>19, <2>2 DEF Send
<1>20. ASSUME Pong PROVE InTime'
  <2>1. [kind |-> "pong", id |-> 0] \in Frame
    BY FramesAssumption DEF Frame
  <2>2. HasPong(inbox')
    <3>1. CASE inbox # <<>> /\ Last(inbox).kind = "pong"
      <4>1. Len(inbox) \in DOMAIN inbox /\ inbox[Len(inbox)].kind = "pong"
        BY <1>0, <3>1 DEF Last
      <4>. QED
        BY <1>20, <3>1, <4>1 DEF Pong, HasPong
    <3>2. CASE ~(inbox # <<>> /\ Last(inbox).kind = "pong")
      BY <1>20, <1>0, <2>1, <3>2, PongArrives DEF Pong
    <3>. QED
      BY <3>1, <3>2
  <2>. QED
    BY <1>20, <2>2 DEF Pong
<1>21. ASSUME Leave PROVE InTime'
  BY <1>21, <1>0, PongArrives DEF Leave
<1>22. ASSUME Tick PROVE InTime'
  <2>. SUFFICES ASSUME client = "well", ~overdue', Serving
                PROVE  readLeft' > pingLeft' \/ (readLeft' > 0 /\ PongComing')
    BY <1>22 DEF Tick
  <2>1. LoopWaits /\ PingWaits /\ ~flight /\ ping \notin {"none", "stopped"} /\ ~overdue
    BY <1>22 DEF Tick, LoopWaits
  <2>2. ping = "waiting" /\ ~ticked
    BY <2>1 DEF PingWaits
  <2>3. /\ readLeft' = IF readLeft > 0 THEN readLeft - 1 ELSE readLeft
        /\ pingLeft' = IF pingLeft > 1 THEN pingLeft - 1 ELSE PingPeriod
        /\ pingLeft = 1 => ticked'
        /\ inbox' = inbox
    BY <1>22, <2>1 DEF Tick
  <2>4. CASE readLeft > pingLeft
    <3>1. CASE pingLeft > 1
      BY <1>0, <2>3, <2>4, <3>1, TimeAssumption
    <3>2. CASE pingLeft = 1
      BY <1>0, <2>3, <2>4, <3>2, TimeAssumption
    <3>. QED
      BY <1>0, <3>1, <3>2, TimeAssumption
  <2>5. CASE readLeft > 0 /\ PongComing
    <3>1. HasPong(inbox) /\ inbox # <<>>
      BY <2>1, <2>2, <2>5 DEF HasPong
    <3>2. pc = "calling"
      BY <2>1, <3>1 DEF LoopWaits
    <3>3. readLeft # 1
      BY <1>22, <3>2 DEF Tick
    <3>. QED
      BY <1>0, <2>3, <2>5, <3>1, <3>3, TimeAssumption
  <2>. QED
    BY <2>1, <2>4, <2>5
<1>23. CASE UNCHANGED vars
  BY <1>23 DEF vars
<1>. QED
  BY <1>1, <1>2, <1>3, <1>4, <1>5, <1>6, <1>7, <1>8, <1>9, <1>10, <1>11, <1>12, <1>13, <1>14, <1>15, <1>16, <1>17, <1>18, <1>19, <1>20, <1>21, <1>22, <1>23
     DEF Next, LoopStep, PingStep, SafeWrite

\* With any periods of which the ping's is the shorter, a read times out only
\* if the client has left or the deadline passed during an upstream call.
THEOREM DropsNeedLongCall == Spec => []DropNeedsLongCall
<1>1. Spec => [](TypeInv /\ Alive /\ InTime)
  BY TypeInit, TypeStep, AliveInit, AliveStep, InTimeStep, PTL DEF Spec
<1>2. Alive => DropNeedsLongCall
  BY DEF Alive, DropNeedsLongCall
<1>. QED
  BY <1>1, <1>2, PTL

-----------------------------------------------------------------------------
(* Noticing that the client is gone                                        *)

\* What is left of a safeWrite, of the read loop once no more frames come, and
\* of the ping goroutine once the connection is closed.
WriteLeft(g) ==
    CASE step[g] = "check"   -> 4
      [] step[g] = "lock"    -> 3
      [] step[g] = "recheck" -> 2
      [] step[g] = "write"   -> 1
      [] step[g] = "rest"    -> 0

LoopLeft ==
    7 * Len(inbox) +
    CASE pc = "upgraded"   -> 8
      [] pc = "calling"    -> 8
      [] pc \in {"welcoming", "replying"} -> 3 + WriteLeft("loop")
      [] pc = "reading"    -> 3
      [] pc = "closing"    -> 2
      [] pc = "cancelling" -> 1
      [] pc = "ended"      -> 0

PingLeft ==
    CASE ping = "waiting" -> 5
      [] ping = "pinging" -> WriteLeft("ping")
      [] ping \in {"none", "stopped"} -> 0

\* With the client gone, each step of the loop brings it nearer its end, and
\* nothing that the ping goroutine, the clock or the peer does puts it back.
LoopCounts ==
    client = "gone" =>
        \/ LoopLeft' < LoopLeft
        \/ UNCHANGED <<pc, step["loop"], inbox>>

\* So it is with the ping goroutine when the loop has closed the connection.
PingCounts ==
    closed =>
        \/ PingLeft' < PingLeft
        \/ UNCHANGED <<ping, step["ping"]>>

LeftBounded ==
    /\ LoopLeft \in 0 .. 7 * Len(inbox) + 8
    /\ PingLeft \in 0 .. 5

LEMMA TailShorter ==
  ASSUME TypeInv, inbox # <<>>
  PROVE  Len(inbox) \in Nat /\ Len(Tail(inbox)) \in Nat /\ Len(Tail(inbox)) = Len(inbox) - 1
  BY DEF TypeInv, TypeOK

LEMMA LeftInRange == TypeInv => LeftBounded
<1>. SUFFICES ASSUME TypeInv PROVE LeftBounded
  OBVIOUS
<1>1. \A g \in Writers : WriteLeft(g) \in 0 .. 4
  BY DEF TypeInv, TypeOK, WriteLeft
<1>2. Len(inbox) \in Nat
  BY DEF TypeInv, TypeOK
<1>3. LoopLeft \in 0 .. 7 * Len(inbox) + 8
  <2>1. WriteLeft("loop") \in 0 .. 4
    BY <1>1 DEF Writers
  <2>2. pc \in Steps
    BY DEF TypeInv, TypeOK
  <2>3. \E k \in 0 .. 8 : LoopLeft = 7 * Len(inbox) + k
    BY <2>1, <2>2 DEF Steps, LoopLeft
  <2>. HIDE DEF LoopLeft
  <2>. QED
    BY <1>2, <2>3
<1>4. PingLeft \in 0 .. 5
  <2>1. WriteLeft("ping") \in 0 .. 4
    BY <1>1 DEF Writers
  <2>2. ping \in {"none", "waiting", "pinging", "stopped"}
    BY DEF TypeInv, TypeOK
  <2>. QED
    BY <2>1, <2>2 DEF PingLeft
<1>. QED
  BY <1>3, <1>4 DEF LeftBounded

LEMMA LoopStepCounts == TypeInv /\ [Next]_vars => LoopCounts
<1>. SUFFICES ASSUME TypeInv, [Next]_vars PROVE LoopCounts
  OBVIOUS
<1>. USE DEF LoopCounts, LoopLeft, WriteLeft, Writing, Writers, loopVars, writeVars, clientVars
<1>0. /\ step \in [Writers -> {"rest", "check", "lock", "recheck", "write"}]
      /\ pc \in Steps /\ Len(inbox) \in Nat /\ Writing
  BY DEF TypeInv, TypeOK
<1>1. ASSUME NEW g \in Writers, Check(g) PROVE LoopCounts
  BY <1>1, <1>0 DEF Check, StepTo, Return, LoopGoesOn, PingGoesOn
<1>2. ASSUME NEW g \in Writers, Lock(g) PROVE LoopCounts
  BY <1>2, <1>0 DEF Lock, StepTo
<1>3. ASSUME NEW g \in Writers, Recheck(g) PROVE LoopCounts
  BY <1>3, <1>0 DEF Recheck, StepTo, Return, LoopGoesOn, PingGoesOn
<1>4. ASSUME NEW g \in Writers, Write(g) PROVE LoopCounts
  BY <1>4, <1>0 DEF Write, StepTo, Return, LoopGoesOn, PingGoesOn
<1>5. ASSUME NEW g \in Writers, WriteFails(g) PROVE LoopCounts
  BY <1>5, <1>0 DEF WriteFails, StepTo, Return, LoopGoesOn, PingGoesOn
<1>6. ASSUME Configure PROVE LoopCounts
  BY <1>6, <1>0 DEF Configure, StepTo
<1>7. ASSUME ReadRequest PROVE LoopCounts
  <2>1. inbox # <<>> /\ inbox' = Tail(inbox) /\ pc = "reading"
    BY <1>7 DEF ReadRequest, Arrived, Taken
  <2>2. Len(inbox') \in Nat /\ Len(inbox') = Len(inbox) - 1
    BY <2>1, TailShorter
  <2>3. pc' = "calling" \/ (pc' = "replying" /\ step'["loop"] = "check")
    BY <1>7, <1>0 DEF ReadRequest, StepTo
  <2>4. LoopLeft = 7 * Len(inbox) + 3 /\ LoopLeft' \in {7 * Len(inbox') + 8, 7 * Len(inbox') + 7}
    BY <2>1, <2>2, <2>3
  <2>. HIDE DEF LoopLeft, WriteLeft
  <2>. QED
    BY <1>0, <2>2, <2>4
<1>8. ASSUME ReadGarbage PROVE LoopCounts
  BY <1>8, <1>0, TailShorter DEF ReadGarbage, Arrived, Taken, StepTo
<1>9. ASSUME ReadBinary PROVE LoopCounts
  <2>1. inbox # <<>> /\ inbox' = Tail(inbox) /\ pc = "reading"
    BY <1>9 DEF ReadBinary, Arrived, Taken
  <2>2. Len(inbox') \in Nat /\ Len(inbox') = Len(inbox) - 1
    BY <2>1, TailShorter
  <2>3. UNCHANGED <<pc, step>>
    BY <1>9 DEF ReadBinary
  <2>4. LoopLeft = 7 * Len(inbox) + 3 /\ LoopLeft' = 7 * Len(inbox') + 3
    BY <2>1, <2>2, <2>3
  <2>. HIDE DEF LoopLeft, WriteLeft
  <2>. QED
    BY <1>0, <2>2, <2>4
<1>10. ASSUME ReadPong PROVE LoopCounts
  <2>1. inbox # <<>> /\ inbox' = Tail(inbox) /\ pc = "reading"
    BY <1>10 DEF ReadPong, Arrived, Taken
  <2>2. Len(inbox') \in Nat /\ Len(inbox') = Len(inbox) - 1
    BY <2>1, TailShorter
  <2>3. UNCHANGED <<pc, step>>
    BY <1>10 DEF ReadPong
  <2>4. LoopLeft = 7 * Len(inbox) + 3 /\ LoopLeft' = 7 * Len(inbox') + 3
    BY <2>1, <2>2, <2>3
  <2>. HIDE DEF LoopLeft, WriteLeft
  <2>. QED
    BY <1>0, <2>2, <2>4
<1>11. ASSUME ReadClose PROVE LoopCounts
  BY <1>11, <1>0, TailShorter DEF ReadClose, Arrived, Taken
<1>12. ASSUME ReadFails PROVE LoopCounts
  BY <1>12, <1>0 DEF ReadFails
<1>13. ASSUME Expire PROVE LoopCounts
  BY <1>13, <1>0 DEF Expire
<1>14. ASSUME EndCall PROVE LoopCounts
  BY <1>14, <1>0 DEF EndCall, StepTo
<1>15. ASSUME SafeClose PROVE LoopCounts
  BY <1>15, <1>0 DEF SafeClose
<1>16. ASSUME Cancel PROVE LoopCounts
  BY <1>16, <1>0 DEF Cancel
<1>17. ASSUME PingTicks PROVE LoopCounts
  BY <1>17, <1>0 DEF PingTicks, StepTo
<1>18. ASSUME PingDone PROVE LoopCounts
  BY <1>18, <1>0 DEF PingDone
<1>19. ASSUME NEW kind \in Message, Send(kind) PROVE LoopCounts
  BY <1>19, <1>0 DEF Send
<1>20. ASSUME Pong PROVE LoopCounts
  BY <1>20, <1>0 DEF Pong
<1>21. ASSUME Leave PROVE LoopCounts
  BY <1>21, <1>0 DEF Leave
<1>22. ASSUME Tick PROVE LoopCounts
  BY <1>22, <1>0 DEF Tick
<1>23. CASE UNCHANGED vars
  BY <1>23 DEF vars
<1>. QED
  BY <1>1, <1>2, <1>3, <1>4, <1>5, <1>6, <1>7, <1>8, <1>9, <1>10, <1>11, <1>12, <1>13, <1>14, <1>15, <1>16, <1>17, <1>18, <1>19, <1>20, <1>21, <1>22, <1>23
     DEF Next, LoopStep, PingStep, SafeWrite

LEMMA PingStepCounts == TypeInv /\ [Next]_vars => PingCounts
<1>. SUFFICES ASSUME TypeInv, [Next]_vars PROVE PingCounts
  OBVIOUS
<1>. USE DEF PingCounts, PingLeft, WriteLeft, Writing, Writers, loopVars, writeVars, clientVars
<1>0. /\ step \in [Writers -> {"rest", "check", "lock", "recheck", "write"}]
      /\ pc \in Steps /\ Len(inbox) \in Nat /\ Writing
  BY DEF TypeInv, TypeOK
<1>1. ASSUME NEW g \in Writers, Check(g) PROVE PingCounts
  BY <1>1, <1>0 DEF Check, StepTo, Return, LoopGoesOn, PingGoesOn
<1>2. ASSUME NEW g \in Writers, Lock(g) PROVE PingCounts
  BY <1>2, <1>0 DEF Lock, StepTo
<1>3. ASSUME NEW g \in Writers, Recheck(g) PROVE PingCounts
  BY <1>3, <1>0 DEF Recheck, StepTo, Return, LoopGoesOn, PingGoesOn
<1>4. ASSUME NEW g \in Writers, Write(g) PROVE PingCounts
  BY <1>4, <1>0 DEF Write, StepTo, Return, LoopGoesOn, PingGoesOn
<1>5. ASSUME NEW g \in Writers, WriteFails(g) PROVE PingCounts
  BY <1>5, <1>0 DEF WriteFails, StepTo, Return, LoopGoesOn, PingGoesOn
<1>6. ASSUME Configure PROVE PingCounts
  BY <1>6, <1>0 DEF Configure, StepTo
<1>7. ASSUME ReadRequest PROVE PingCounts
  BY <1>7, <1>0 DEF ReadRequest, Arrived, Taken, StepTo
<1>8. ASSUME ReadGarbage PROVE PingCounts
  BY <1>8, <1>0 DEF ReadGarbage, Arrived, Taken, StepTo
<1>9. ASSUME ReadBinary PROVE PingCounts
  BY <1>9, <1>0 DEF ReadBinary, Arrived, Taken
<1>10. ASSUME ReadPong PROVE PingCounts
  BY <1>10, <1>0 DEF ReadPong, Arrived, Taken
<1>11. ASSUME ReadClose PROVE PingCounts
  BY <1>11, <1>0 DEF ReadClose, Arrived, Taken
<1>12. ASSUME ReadFails PROVE PingCounts
  BY <1>12, <1>0 DEF ReadFails
<1>13. ASSUME Expire PROVE PingCounts
  BY <1>13, <1>0 DEF Expire
<1>14. ASSUME EndCall PROVE PingCounts
  BY <1>14, <1>0 DEF EndCall, StepTo
<1>15. ASSUME SafeClose PROVE PingCounts
  BY <1>15, <1>0 DEF SafeClose
<1>16. ASSUME Cancel PROVE PingCounts
  BY <1>16, <1>0 DEF Cancel
<1>17. ASSUME PingTicks PROVE PingCounts
  BY <1>17, <1>0 DEF PingTicks, StepTo
<1>18. ASSUME PingDone PROVE PingCounts
  BY <1>18, <1>0 DEF PingDone
<1>19. ASSUME NEW kind \in Message, Send(kind) PROVE PingCounts
  BY <1>19, <1>0 DEF Send
<1>20. ASSUME Pong PROVE PingCounts
  BY <1>20, <1>0 DEF Pong
<1>21. ASSUME Leave PROVE PingCounts
  BY <1>21, <1>0 DEF Leave
<1>22. ASSUME Tick PROVE PingCounts
  BY <1>22, <1>0 DEF Tick
<1>23. CASE UNCHANGED vars
  BY <1>23 DEF vars
<1>. QED
  BY <1>1, <1>2, <1>3, <1>4, <1>5, <1>6, <1>7, <1>8, <1>9, <1>10, <1>11, <1>12, <1>13, <1>14, <1>15, <1>16, <1>17, <1>18, <1>19, <1>20, <1>21, <1>22, <1>23
     DEF Next, LoopStep, PingStep, SafeWrite

\* With the client gone, however many frames it has left behind, the loop has
\* at most LoopLeft more steps to take, and nobody can add to them; with the
\* connection closed the ping goroutine has at most five.  What GoneIsNoticed
\* adds is that they are taken.
THEOREM GoneWearsOff == Spec => []LeftBounded /\ [][LoopCounts /\ PingCounts]_vars
<1>1. Spec => []TypeInv
  BY TypeInit, TypeStep, PTL DEF Spec
<1>. QED
  BY <1>1, LeftInRange, LoopStepCounts, PingStepCounts, PTL DEF Spec
=============================================================================
