--------------------------- MODULE WsSessionsProofs ---------------------------
(***************************************************************************)
(* Theorems about WsSessions, for every set of calls, every assignment of  *)
(* keys and every number of connections.                                   *)
(***************************************************************************)
EXTENDS WsSessions, TLAPS

LEMMA LinkFacts ==
    /\ 1 \in Link /\ NoLink \notin Link
    /\ \A l \in Link : l \in Nat /\ (l < MaxLink => l + 1 \in Link)
  BY LinkAssumption DEF Link, NoLink

LEMMA ConnectedType ==
  ASSUME dialed \in Link, status \in [Link -> Statuses],
         NEW rdr \in [Link -> Readers], Connected(rdr)
  PROVE  /\ dialed' \in Link /\ dialed' = dialed + 1
         /\ status' \in [Link -> Statuses]
         /\ reader' \in [Link -> Readers]
         /\ health' \in BOOLEAN
<1>1. dialed \in Nat /\ dialed < MaxLink
  BY LinkFacts DEF Connected
<1>2. dialed + 1 \in Link
  BY <1>1, LinkFacts
<1>. QED
  BY <1>2 DEF Connected, Statuses, Readers

LEMMA RefusedType ==
  ASSUME dialed \in Link, status \in [Link -> Statuses],
         NEW rdr \in [Link -> Readers], Refused(rdr)
  PROVE  /\ dialed' \in Link
         /\ status' \in [Link -> Statuses]
         /\ reader' \in [Link -> Readers]
         /\ health' \in BOOLEAN
BY DEF Refused

LEMMA TypeInit == Init => TypeOK
<1>. USE CallAssumption, KeyAssumption, LinkAssumption, LinkFacts
     DEF Steps, Failures, Outcomes, Statuses, Readers
<1>. SUFFICES ASSUME Init PROVE TypeOK
  OBVIOUS
<1>1. /\ pc \in [Call -> Steps] /\ outcome \in [Call -> Outcomes]
      /\ got \in [Call -> Call \union {NoCall}]
      /\ grabbed \in [Call -> Call \union {NoCall}]
      /\ sess \in [Key -> Call \union {NoCall}]
  BY DEF Init
<1>2. /\ status \in [Link -> Statuses] /\ reader \in [Link -> Readers]
      /\ target \in [Link -> Call \union {NoCall}]
      /\ carried \in [Link -> Call \union {NoCall}]
      /\ upstream \in [Link -> SUBSET Call]
  BY DEF Init
<1>3. /\ old \in [Link -> Link \union {NoLink}]
      /\ fresh \in [Link -> Link \union {NoLink}]
      /\ conn \in Link \union {NoLink} /\ dialed \in Link
      /\ hooked \in SUBSET Link
  BY DEF Init
<1>. QED
  BY <1>1, <1>2, <1>3 DEF Init, TypeOK

LEMMA TypeStep == TypeOK /\ [Next]_vars => TypeOK'
<1>. USE CallAssumption, KeyAssumption, LinkAssumption, LinkFacts
     DEF Steps, Failures, Outcomes, Statuses, Readers
<1>. SUFFICES ASSUME TypeOK, [Next]_vars PROVE TypeOK'
  OBVIOUS
<1>. USE DEF TypeOK, At, Reader, callVars, chanVars, linkVars, readerVars,
             hookVars, netVars
<1>1. ASSUME NEW c \in Call, EnterNoConn(c) PROVE TypeOK'
  BY <1>1 DEF EnterNoConn
<1>2. ASSUME NEW c \in Call, Enter(c) PROVE TypeOK'
  BY <1>2 DEF Enter, Goto
<1>3. ASSUME NEW c \in Call, Write(c) PROVE TypeOK'
  BY <1>3 DEF Write, Sent, WriteFailed, Leave, Goto
<1>4. ASSUME NEW c \in Call, Relock(c) PROVE TypeOK'
  BY <1>4 DEF Relock, Goto
<1>5. ASSUME NEW c \in Call, Redial(c) PROVE TypeOK'
  <2>1. CASE Connected(reader)
    <3>1. /\ dialed' \in Link /\ status' \in [Link -> Statuses]
          /\ reader' \in [Link -> Readers] /\ health' \in BOOLEAN
          /\ dialed + 1 \in Link
      BY <2>1, ConnectedType
    <3>. QED
      BY <1>5, <3>1 DEF Redial, Leave, Goto
  <2>2. CASE Refused(reader)
    <3>1. /\ dialed' \in Link /\ status' \in [Link -> Statuses]
          /\ reader' \in [Link -> Readers] /\ health' \in BOOLEAN
      BY <2>2, RefusedType
    <3>. QED
      BY <1>5, <3>1, <2>2 DEF Redial, Leave, Goto, Refused, Connected
  <2>. QED
    BY <1>5, <2>1, <2>2 DEF Redial
<1>6. ASSUME NEW c \in Call, Rewrite(c) PROVE TypeOK'
  BY <1>6 DEF Rewrite, Sent, WriteFailed, Leave, Goto
<1>7. ASSUME NEW c \in Call, WriteOnNil(c) PROVE TypeOK'
  <2>1. CASE c \in Recovered
    BY <1>7, <2>1 DEF WriteOnNil, Leave
  <2>2. CASE c \notin Recovered
    <3>1. down' = TRUE
      BY <1>7, <2>2 DEF WriteOnNil
    <3>2. UNCHANGED <<pc, outcome, mu, got, grabbed, chanVars, netVars>>
      BY <1>7, <2>2 DEF WriteOnNil
    <3>. QED
      BY <3>1, <3>2
  <2>. QED
    BY <2>1, <2>2
<1>8. ASSUME NEW c \in Call, Timeout(c) PROVE TypeOK'
  BY <1>8 DEF Timeout, Leave
<1>9. ASSUME NEW c \in Call, Disconnected(c) PROVE TypeOK'
  BY <1>9 DEF Disconnected, Leave
<1>10. ASSUME NEW c \in Call, Unload(c) PROVE TypeOK'
  BY <1>10 DEF Unload, Session, Goto
<1>11. ASSUME NEW c \in Call, Delete(c) PROVE TypeOK'
  BY <1>11 DEF Delete, Goto
<1>12. ASSUME NEW c \in Call, CloseChannel(c) PROVE TypeOK'
  BY <1>12 DEF CloseChannel, Goto
<1>13. ASSUME NEW c \in Call, CloseTwice(c) PROVE TypeOK'
  <2>1. CASE c \in Recovered
    BY <1>13, <2>1 DEF CloseTwice
  <2>2. CASE c \notin Recovered
    <3>1. down' = TRUE
      BY <1>13, <2>2 DEF CloseTwice
    <3>2. UNCHANGED <<callVars, mu, chanVars, netVars>>
      BY <1>13, <2>2 DEF CloseTwice
    <3>. QED
      BY <3>1, <3>2
  <2>. QED
    BY <2>1, <2>2
<1>14. ASSUME NEW l \in Link, Deliver(l) PROVE TypeOK'
  BY <1>14 DEF Deliver, Leave
<1>15. ASSUME NEW l \in Link, SendPanics(l) PROVE TypeOK'
  BY <1>15 DEF SendPanics
<1>16. ASSUME NEW l \in Link, ReaderExit(l) PROVE TypeOK'
  BY <1>16 DEF ReaderExit
<1>17. ASSUME NEW l \in Link, Cut(l) PROVE TypeOK'
  BY <1>17 DEF Cut
<1>18. ASSUME NEW l \in Link, PeerCloses(l) PROVE TypeOK'
  BY <1>18 DEF PeerCloses
<1>19. ASSUME NEW l \in Link, PeerClosesUnhooked(l) PROVE TypeOK'
  BY <1>19 DEF PeerClosesUnhooked
<1>20. ASSUME NEW l \in Link, HandlerDials(l) PROVE TypeOK'
  <2>. DEFINE rdr == [reader EXCEPT ![l] = "installing"]
  <2>0. rdr \in [Link -> Readers]
    OBVIOUS
  <2>1. CASE Connected(rdr)
    <3>1. /\ dialed' \in Link /\ status' \in [Link -> Statuses]
          /\ reader' \in [Link -> Readers] /\ health' \in BOOLEAN
          /\ dialed + 1 \in Link
      BY <2>0, <2>1, ConnectedType
    <3>. QED
      BY <1>20, <3>1 DEF HandlerDials
  <2>2. CASE Refused(rdr)
    <3>1. /\ dialed' \in Link /\ status' \in [Link -> Statuses]
          /\ reader' \in [Link -> Readers] /\ health' \in BOOLEAN
      BY <2>0, <2>2, RefusedType
    <3>. QED
      BY <1>20, <3>1, <2>2 DEF HandlerDials, Refused, Connected
  <2>. QED
    BY <1>20, <2>1, <2>2 DEF HandlerDials
<1>21. ASSUME NEW l \in Link, HandlerInstalls(l) PROVE TypeOK'
  BY <1>21 DEF HandlerInstalls
<1>22. ASSUME NEW l \in Link, NEW c \in Call, Receive(l, c) PROVE TypeOK'
  BY <1>22 DEF Receive, Session
<1>23. ASSUME NEW l \in Link, NEW c \in Call, ReceiveUnknown(l, c) PROVE TypeOK'
  BY <1>23 DEF ReceiveUnknown, Session
<1>24. CASE Close
  BY <1>24 DEF Close
<1>25. CASE UNCHANGED vars
  BY <1>25 DEF vars
<1>. QED
  BY <1>1, <1>2, <1>3, <1>4, <1>5, <1>6, <1>7, <1>8, <1>9, <1>10, <1>11,
     <1>12, <1>13, <1>14, <1>15, <1>16, <1>17, <1>18, <1>19, <1>20, <1>21,
     <1>22, <1>23, <1>24, <1>25
  DEF Next, CallStep, ReaderStep, Environment

\* The state is of its type at every step: the variables of TypeOK.
THEOREM TypeCorrect == Spec => []TypeOK
BY TypeInit, TypeStep, PTL DEF Spec

-----------------------------------------------------------------------------
(* Responses and callers carry the same key, whatever keys the calls have. *)

\* A session is stored under the key of its call; a reader sends a response
\* to a call with the response's key; so a call returns one with its own.
KeyInv ==
    /\ \A k \in Key : sess[k] # NoCall => KeyOf[sess[k]] = k
    /\ \A l \in Link : reader[l] = "sending" =>
          /\ target[l] \in Call /\ carried[l] \in Call
          /\ KeyOf[carried[l]] = KeyOf[target[l]]
    /\ \A c \in Call : outcome[c] = "answer" =>
          got[c] \in Call /\ KeyOf[got[c]] = KeyOf[c]

LEMMA KeyStep == TypeOK /\ KeyInv /\ [Next]_vars => KeyInv'
<1>. SUFFICES ASSUME TypeOK, KeyInv, [Next]_vars PROVE KeyInv'
  OBVIOUS
<1>. USE CallAssumption, KeyAssumption
     DEF TypeOK, KeyInv, At, Reader, callVars, chanVars, linkVars,
               readerVars, hookVars, netVars
<1>1. ASSUME NEW c \in Call, EnterNoConn(c) PROVE KeyInv'
  BY <1>1 DEF EnterNoConn
<1>2. ASSUME NEW c \in Call, Enter(c) PROVE KeyInv'
  BY <1>2 DEF Enter, Goto
<1>3. ASSUME NEW c \in Call, Write(c) PROVE KeyInv'
  BY <1>3 DEF Write, Sent, WriteFailed, Leave, Goto
<1>4. ASSUME NEW c \in Call, Relock(c) PROVE KeyInv'
  BY <1>4 DEF Relock, Goto
<1>5. ASSUME NEW c \in Call, Redial(c) PROVE KeyInv'
  BY <1>5 DEF Redial, Connected, Refused, Leave, Goto
<1>6. ASSUME NEW c \in Call, Rewrite(c) PROVE KeyInv'
  BY <1>6 DEF Rewrite, Sent, WriteFailed, Leave, Goto
<1>7. ASSUME NEW c \in Call, WriteOnNil(c) PROVE KeyInv'
  BY <1>7 DEF WriteOnNil, Leave
<1>8. ASSUME NEW c \in Call, Timeout(c) PROVE KeyInv'
  BY <1>8 DEF Timeout, Leave
<1>9. ASSUME NEW c \in Call, Disconnected(c) PROVE KeyInv'
  BY <1>9 DEF Disconnected, Leave
<1>10. ASSUME NEW c \in Call, Unload(c) PROVE KeyInv'
  BY <1>10 DEF Unload, Session, Goto
<1>11. ASSUME NEW c \in Call, Delete(c) PROVE KeyInv'
  BY <1>11 DEF Delete, Goto
<1>12. ASSUME NEW c \in Call, CloseChannel(c) PROVE KeyInv'
  BY <1>12 DEF CloseChannel, Goto
<1>13. ASSUME NEW c \in Call, CloseTwice(c) PROVE KeyInv'
  BY <1>13 DEF CloseTwice
<1>14. ASSUME NEW l \in Link, Deliver(l) PROVE KeyInv'
  BY <1>14 DEF Deliver, Leave
<1>15. ASSUME NEW l \in Link, SendPanics(l) PROVE KeyInv'
  BY <1>15 DEF SendPanics
<1>16. ASSUME NEW l \in Link, ReaderExit(l) PROVE KeyInv'
  BY <1>16 DEF ReaderExit
<1>17. ASSUME NEW l \in Link, Cut(l) PROVE KeyInv'
  BY <1>17 DEF Cut
<1>18. ASSUME NEW l \in Link, PeerCloses(l) PROVE KeyInv'
  BY <1>18 DEF PeerCloses
<1>19. ASSUME NEW l \in Link, PeerClosesUnhooked(l) PROVE KeyInv'
  BY <1>19 DEF PeerClosesUnhooked
<1>20. ASSUME NEW l \in Link, HandlerDials(l) PROVE KeyInv'
  BY <1>20 DEF HandlerDials, Connected, Refused
<1>21. ASSUME NEW l \in Link, HandlerInstalls(l) PROVE KeyInv'
  BY <1>21 DEF HandlerInstalls
<1>22. ASSUME NEW l \in Link, NEW c \in Call, Receive(l, c) PROVE KeyInv'
  BY <1>22 DEF Receive, Session
<1>23. ASSUME NEW l \in Link, NEW c \in Call, ReceiveUnknown(l, c) PROVE KeyInv'
  BY <1>23 DEF ReceiveUnknown, Session
<1>24. CASE Close
  BY <1>24 DEF Close
<1>25. CASE UNCHANGED vars
  BY <1>25 DEF vars
<1>. QED
  BY <1>1, <1>2, <1>3, <1>4, <1>5, <1>6, <1>7, <1>8, <1>9, <1>10, <1>11,
     <1>12, <1>13, <1>14, <1>15, <1>16, <1>17, <1>18, <1>19, <1>20, <1>21,
     <1>22, <1>23, <1>24, <1>25
  DEF Next, CallStep, ReaderStep, Environment

\* Every call that returns an answer returns one to a request with its ids.
THEOREM AnswersHaveKey == Spec => []AnswerHasKey
<1>1. Init => KeyInv
  BY DEF Init, KeyInv
<1>2. KeyInv => AnswerHasKey
  BY DEF KeyInv, AnswerHasKey
<1>. QED
  BY <1>1, <1>2, KeyStep, TypeCorrect, PTL DEF Spec

\* When no two calls carry the same ids, a call that returns an answer
\* returns the response to its own request.
THEOREM AnswersAreOwn == ASSUME DistinctKeys PROVE Spec => []OwnAnswer
<1>1. Init => KeyInv
  BY DEF Init, KeyInv
<1>2. KeyInv => OwnAnswer
  BY DistinctKeys DEF KeyInv, OwnAnswer, DistinctKeys
<1>. QED
  BY <1>1, <1>2, KeyStep, TypeCorrect, PTL DEF Spec

-----------------------------------------------------------------------------
(* Sessions and channels, when no two calls carry the same ids.            *)

\* A call in its clean-up holds its own channel, and closes it last.
ChannelInv ==
    /\ \A c \in Call : pc[c] \in {"deleting", "closing"} => grabbed[c] = c
    /\ \A c \in Call : c \in closed => pc[c] = "done"

LEMMA ChannelStep ==
  ASSUME DistinctKeys
  PROVE  TypeOK /\ KeyInv /\ ChannelInv /\ SessionIsLive /\ [Next]_vars
         => (ChannelInv /\ SessionIsLive)'
<1>. DEFINE I == ChannelInv /\ SessionIsLive
<1>. SUFFICES ASSUME TypeOK, KeyInv, I, [Next]_vars PROVE I'
  OBVIOUS
<1>. USE CallAssumption, KeyAssumption
     DEF TypeOK, KeyInv, ChannelInv, SessionIsLive, DistinctKeys, Steps, At, Reader, callVars, chanVars, linkVars,
               readerVars, hookVars, netVars
<1>1. ASSUME NEW c \in Call, EnterNoConn(c) PROVE I'
  BY <1>1 DEF EnterNoConn
<1>2. ASSUME NEW c \in Call, Enter(c) PROVE I'
  BY <1>2 DEF Enter, Goto
<1>3. ASSUME NEW c \in Call, Write(c) PROVE I'
  BY <1>3 DEF Write, Sent, WriteFailed, Leave, Goto
<1>4. ASSUME NEW c \in Call, Relock(c) PROVE I'
  BY <1>4 DEF Relock, Goto
<1>5. ASSUME NEW c \in Call, Redial(c) PROVE I'
  BY <1>5 DEF Redial, Connected, Refused, Leave, Goto
<1>6. ASSUME NEW c \in Call, Rewrite(c) PROVE I'
  BY <1>6 DEF Rewrite, Sent, WriteFailed, Leave, Goto
<1>7. ASSUME NEW c \in Call, WriteOnNil(c) PROVE I'
  BY <1>7 DEF WriteOnNil, Leave
<1>8. ASSUME NEW c \in Call, Timeout(c) PROVE I'
  BY <1>8 DEF Timeout, Leave
<1>9. ASSUME NEW c \in Call, Disconnected(c) PROVE I'
  BY <1>9 DEF Disconnected, Leave
<1>10. ASSUME NEW c \in Call, Unload(c) PROVE I'
  BY <1>10 DEF Unload, Session, Goto
<1>11. ASSUME NEW c \in Call, Delete(c) PROVE I'
  BY <1>11 DEF Delete, Goto
<1>12. ASSUME NEW c \in Call, CloseChannel(c) PROVE I'
  BY <1>12 DEF CloseChannel, Goto
<1>13. ASSUME NEW c \in Call, CloseTwice(c) PROVE I'
  BY <1>13 DEF CloseTwice
<1>14. ASSUME NEW l \in Link, Deliver(l) PROVE I'
  BY <1>14 DEF Deliver, Leave
<1>15. ASSUME NEW l \in Link, SendPanics(l) PROVE I'
  BY <1>15 DEF SendPanics
<1>16. ASSUME NEW l \in Link, ReaderExit(l) PROVE I'
  BY <1>16 DEF ReaderExit
<1>17. ASSUME NEW l \in Link, Cut(l) PROVE I'
  BY <1>17 DEF Cut
<1>18. ASSUME NEW l \in Link, PeerCloses(l) PROVE I'
  BY <1>18 DEF PeerCloses
<1>19. ASSUME NEW l \in Link, PeerClosesUnhooked(l) PROVE I'
  BY <1>19 DEF PeerClosesUnhooked
<1>20. ASSUME NEW l \in Link, HandlerDials(l) PROVE I'
  BY <1>20 DEF HandlerDials, Connected, Refused
<1>21. ASSUME NEW l \in Link, HandlerInstalls(l) PROVE I'
  BY <1>21 DEF HandlerInstalls
<1>22. ASSUME NEW l \in Link, NEW c \in Call, Receive(l, c) PROVE I'
  BY <1>22 DEF Receive, Session
<1>23. ASSUME NEW l \in Link, NEW c \in Call, ReceiveUnknown(l, c) PROVE I'
  BY <1>23 DEF ReceiveUnknown, Session
<1>24. CASE Close
  BY <1>24 DEF Close
<1>25. CASE UNCHANGED vars
  BY <1>25 DEF vars
<1>. QED
  BY <1>1, <1>2, <1>3, <1>4, <1>5, <1>6, <1>7, <1>8, <1>9, <1>10, <1>11,
     <1>12, <1>13, <1>14, <1>15, <1>16, <1>17, <1>18, <1>19, <1>20, <1>21,
     <1>22, <1>23, <1>24, <1>25
  DEF Next, CallStep, ReaderStep, Environment

\* No session outlives its call, so no response finds an abandoned channel.
THEOREM SessionsAreLive == ASSUME DistinctKeys PROVE Spec => []SessionIsLive
<1>1. Init => KeyInv /\ ChannelInv /\ SessionIsLive
  BY DEF Init, KeyInv, ChannelInv, SessionIsLive
<1>. QED
  BY <1>1, ChannelStep, KeyStep, TypeCorrect, PTL DEF Spec

\* No channel is closed twice: the clean-up of a call never panics.
THEOREM NoDoubleClose == ASSUME DistinctKeys PROVE Spec => []NeverClosedTwice
<1>1. Init => KeyInv /\ ChannelInv /\ SessionIsLive
  BY DEF Init, KeyInv, ChannelInv, SessionIsLive
<1>2. ChannelInv => NeverClosedTwice
  BY DEF ChannelInv, NeverClosedTwice
<1>. QED
  BY <1>1, <1>2, ChannelStep, KeyStep, TypeCorrect, PTL DEF Spec

-----------------------------------------------------------------------------
(* The client implements RpcMux, whatever keys the calls have.             *)

Undecided == {"idle", "writing", "waiting", "relock", "redialing",
               "rewriting", "rewaiting"}
Unsent    == {"idle", "writing", "relock", "redialing", "rewriting"}

\* A call has an outcome exactly when it is leaving or has left; a request
\* is with the upstream, or its response with a reader, at most once and
\* only after it was sent.
FlightInv ==
    /\ \A c \in Call : outcome[c] = "none" <=> pc[c] \in Undecided
    /\ \A l \in Link : \A c \in upstream[l] :
          /\ pc[c] \notin Unsent
          /\ \A m \in Link : c \in upstream[m] => m = l
          /\ \A m \in Link : reader[m] = "sending" => carried[m] # c
    /\ \A l \in Link : reader[l] = "sending" =>
          /\ pc[carried[l]] \notin Unsent
          /\ \A m \in Link : reader[m] = "sending" /\ carried[m] = carried[l]
                            => m = l

\* Dialling adds no sender: the new link's reader starts by reading.
LEMMA DialAddsNoSender ==
  ASSUME NEW rdr \in [Link -> Readers], Connected(rdr) \/ Refused(rdr)
  PROVE  \A l \in Link : reader'[l] = "sending" => rdr[l] = "sending"
BY DEF Connected, Refused

\* A call that has been sent is in one upstream: it was in none before.
LEMMA SentKeepsFlight ==
  ASSUME TypeOK, KeyInv, FlightInv, NEW c \in Call, NEW next \in {"waiting", "rewaiting"},
         pc[c] \in {"writing", "rewriting"}, conn \in Link, Sent(c), Goto(c, next),
         UNCHANGED <<outcome, reader, carried>>
  PROVE  FlightInv'
<1>. USE DEF TypeOK, FlightInv, Undecided, Unsent
<1>1. \A l \in Link : upstream'[l] \subseteq upstream[l] \union (IF l = conn THEN {c} ELSE {})
  BY DEF Sent
<1>2. pc'[c] = next /\ \A d \in Call : d # c => pc'[d] = pc[d]
  BY DEF Goto
<1>3. /\ \A l \in Link : c \notin upstream[l]
      /\ \A l \in Link : reader[l] = "sending" => carried[l] # c
  OBVIOUS
<1>4. \A d \in Call : outcome'[d] = "none" <=> pc'[d] \in Undecided
  BY <1>2
<1>5. ASSUME NEW l \in Link, NEW d \in upstream'[l]
      PROVE  /\ pc'[d] \notin Unsent
             /\ \A m \in Link : d \in upstream'[m] => m = l
             /\ \A m \in Link : reader'[m] = "sending" => carried'[m] # d
  <2>1. CASE d = c
    BY <1>1, <1>2, <1>3, <1>5, <2>1
  <2>2. CASE d # c
    BY <1>1, <1>2, <1>5, <2>2
  <2>. QED
    BY <2>1, <2>2
<1>6. \A l \in Link : reader'[l] = "sending" =>
        /\ pc'[carried'[l]] \notin Unsent
        /\ \A m \in Link : reader'[m] = "sending" /\ carried'[m] = carried'[l]
                          => m = l
  BY <1>2, <1>3, CallAssumption DEF KeyInv
<1>. QED
  BY <1>4, <1>5, <1>6

LEMMA FlightStep == TypeOK /\ KeyInv /\ FlightInv /\ [Next]_vars => FlightInv'
<1>. SUFFICES ASSUME TypeOK, KeyInv, FlightInv, [Next]_vars PROVE FlightInv'
  OBVIOUS
<1>. USE CallAssumption, KeyAssumption
     DEF TypeOK, KeyInv, FlightInv, Undecided, Unsent, Steps, At, Reader,
         callVars, chanVars, linkVars,
               readerVars, hookVars, netVars
<1>1. ASSUME NEW c \in Call, EnterNoConn(c) PROVE FlightInv'
  BY <1>1 DEF EnterNoConn
<1>2. ASSUME NEW c \in Call, Enter(c) PROVE FlightInv'
  BY <1>2 DEF Enter, Goto
<1>3. ASSUME NEW c \in Call, Write(c) PROVE FlightInv'
  <2>1. CASE Sent(c) /\ Goto(c, "waiting")
    <3>1. /\ pc[c] = "writing" /\ conn \in Link
          /\ UNCHANGED <<outcome, reader, carried>>
      BY <1>3, <2>1 DEF Write, Sent, Goto
    <3>. QED
      BY <2>1, <3>1, SentKeepsFlight
  <2>2. CASE WriteFailed("pipe") /\ Goto(c, "relock")
    BY <1>3, <2>2 DEF Write, WriteFailed, Goto
  <2>3. CASE WriteFailed("shut") /\ Leave(c, "request")
    BY <1>3, <2>3 DEF Write, WriteFailed, Leave
  <2>. QED
    BY <1>3, <2>1, <2>2, <2>3 DEF Write
<1>4. ASSUME NEW c \in Call, Relock(c) PROVE FlightInv'
  BY <1>4 DEF Relock, Goto
<1>5. ASSUME NEW c \in Call, Redial(c) PROVE FlightInv'
  <2>1. \A l \in Link : reader'[l] = "sending" => reader[l] = "sending"
    BY <1>5, DialAddsNoSender DEF Redial
  <2>2. /\ UNCHANGED <<upstream, carried>>
        /\ \/ pc' = [pc EXCEPT ![c] = "rewriting"] /\ UNCHANGED outcome
           \/ /\ pc' = [pc EXCEPT ![c] = "leaving"]
              /\ outcome' = [outcome EXCEPT ![c] = "request"]
    BY <1>5 DEF Redial, Leave, Goto
  <2>3. /\ pc[c] = "redialing"
        /\ \A l \in Link : c \notin upstream[l]
        /\ \A l \in Link : reader[l] = "sending" => carried[l] # c
    BY <1>5 DEF Redial
  <2>4. \A d \in Call : d # c => pc'[d] = pc[d]
    BY <2>2
  <2>5. \A d \in Call : outcome'[d] = "none" <=> pc'[d] \in Undecided
    BY <2>2, <2>3
  <2>6. \A l \in Link : \A d \in upstream'[l] :
          /\ pc'[d] \notin Unsent
          /\ \A m \in Link : d \in upstream'[m] => m = l
          /\ \A m \in Link : reader'[m] = "sending" => carried'[m] # d
    BY <2>1, <2>2, <2>3, <2>4
  <2>7. \A l \in Link : reader'[l] = "sending" =>
          /\ pc'[carried'[l]] \notin Unsent
          /\ \A m \in Link : reader'[m] = "sending" /\ carried'[m] = carried'[l]
                            => m = l
    BY <2>1, <2>2, <2>3, <2>4
  <2>. QED
    BY <2>5, <2>6, <2>7
<1>6. ASSUME NEW c \in Call, Rewrite(c) PROVE FlightInv'
  <2>1. CASE Sent(c) /\ Goto(c, "rewaiting")
    <3>1. /\ pc[c] = "rewriting" /\ conn \in Link
          /\ UNCHANGED <<outcome, reader, carried>>
      BY <1>6, <2>1 DEF Rewrite, Sent, Goto
    <3>. QED
      BY <2>1, <3>1, SentKeepsFlight
  <2>2. ASSUME NEW error \in {"pipe", "shut"}, WriteFailed(error), Leave(c, "request")
        PROVE  FlightInv'
    BY <1>6, <2>2 DEF Rewrite, WriteFailed, Leave
  <2>. QED
    BY <1>6, <2>1, <2>2 DEF Rewrite
<1>7. ASSUME NEW c \in Call, WriteOnNil(c) PROVE FlightInv'
  BY <1>7 DEF WriteOnNil, Leave
<1>8. ASSUME NEW c \in Call, Timeout(c) PROVE FlightInv'
  BY <1>8 DEF Timeout, Leave
<1>9. ASSUME NEW c \in Call, Disconnected(c) PROVE FlightInv'
  BY <1>9 DEF Disconnected, Leave
<1>10. ASSUME NEW c \in Call, Unload(c) PROVE FlightInv'
  BY <1>10 DEF Unload, Session, Goto
<1>11. ASSUME NEW c \in Call, Delete(c) PROVE FlightInv'
  BY <1>11 DEF Delete, Goto
<1>12. ASSUME NEW c \in Call, CloseChannel(c) PROVE FlightInv'
  BY <1>12 DEF CloseChannel, Goto
<1>13. ASSUME NEW c \in Call, CloseTwice(c) PROVE FlightInv'
  BY <1>13 DEF CloseTwice
<1>14. ASSUME NEW l \in Link, Deliver(l) PROVE FlightInv'
  BY <1>14 DEF Deliver, Leave
<1>15. ASSUME NEW l \in Link, SendPanics(l) PROVE FlightInv'
  BY <1>15 DEF SendPanics
<1>16. ASSUME NEW l \in Link, ReaderExit(l) PROVE FlightInv'
  BY <1>16 DEF ReaderExit
<1>17. ASSUME NEW l \in Link, Cut(l) PROVE FlightInv'
  BY <1>17 DEF Cut
<1>18. ASSUME NEW l \in Link, PeerCloses(l) PROVE FlightInv'
  BY <1>18 DEF PeerCloses
<1>19. ASSUME NEW l \in Link, PeerClosesUnhooked(l) PROVE FlightInv'
  BY <1>19 DEF PeerClosesUnhooked
<1>20. ASSUME NEW l \in Link, HandlerDials(l) PROVE FlightInv'
  <2>. DEFINE rdr == [reader EXCEPT ![l] = "installing"]
  <2>1. rdr \in [Link -> Readers]
    BY DEF Readers
  <2>2. Connected(rdr) \/ Refused(rdr)
    BY <1>20 DEF HandlerDials
  <2>3. \A m \in Link : reader'[m] = "sending" => rdr[m] = "sending"
    BY <2>1, <2>2, DialAddsNoSender
  <2>4. UNCHANGED <<upstream, carried, pc, outcome>>
    BY <1>20 DEF HandlerDials
  <2>. QED
    BY <2>3, <2>4
<1>21. ASSUME NEW l \in Link, HandlerInstalls(l) PROVE FlightInv'
  BY <1>21 DEF HandlerInstalls
<1>22. ASSUME NEW l \in Link, NEW c \in Call, Receive(l, c) PROVE FlightInv'
  BY <1>22 DEF Receive, Session
<1>23. ASSUME NEW l \in Link, NEW c \in Call, ReceiveUnknown(l, c) PROVE FlightInv'
  BY <1>23 DEF ReceiveUnknown, Session
<1>24. CASE Close
  BY <1>24 DEF Close
<1>25. CASE UNCHANGED vars
  BY <1>25 DEF vars
<1>. QED
  BY <1>1, <1>2, <1>3, <1>4, <1>5, <1>6, <1>7, <1>8, <1>9, <1>10, <1>11,
     <1>12, <1>13, <1>14, <1>15, <1>16, <1>17, <1>18, <1>19, <1>20, <1>21,
     <1>22, <1>23, <1>24, <1>25
  DEF Next, CallStep, ReaderStep, Environment

\* A link nobody has dialled has no reader.
DialInv == \A l \in Link : l > dialed => reader[l] = "none"

LEMMA DialKeepsDialInv ==
  ASSUME TypeOK, DialInv, NEW rdr \in [Link -> Readers],
         Connected(rdr) \/ Refused(rdr),
         \A l \in Link : rdr[l] = reader[l] \/ reader[l] # "none"
  PROVE  DialInv'
<1>1. CASE Refused(rdr)
  BY <1>1 DEF Refused, DialInv
<1>2. CASE Connected(rdr)
  <2>1. dialed \in Nat /\ dialed + 1 \in Link /\ dialed' = dialed + 1
    BY <1>2, LinkFacts DEF Connected, TypeOK
  <2>2. ASSUME NEW l \in Link, l > dialed + 1 PROVE reader'[l] = "none"
    <3>1. l \in Nat /\ l > dialed /\ l # dialed + 1
      BY <2>1, <2>2, LinkFacts
    <3>2. reader[l] = "none"
      BY <3>1 DEF DialInv
    <3>3. rdr[l] = "none"
      BY <3>2
    <3>. QED
      BY <1>2, <3>1, <3>3 DEF Connected
  <2>. QED
    BY <2>1, <2>2 DEF DialInv
<1>. QED
  BY <1>1, <1>2

LEMMA DialStep == TypeOK /\ DialInv /\ [Next]_vars => DialInv'
<1>. SUFFICES ASSUME TypeOK, DialInv, [Next]_vars PROVE DialInv'
  OBVIOUS
<1>. USE LinkFacts DEF TypeOK, DialInv, At, Reader, callVars, chanVars,
                       linkVars, readerVars, hookVars, netVars
<1>1. ASSUME NEW c \in Call, EnterNoConn(c) PROVE DialInv'
  BY <1>1 DEF EnterNoConn
<1>2. ASSUME NEW c \in Call, Enter(c) PROVE DialInv'
  BY <1>2 DEF Enter, Goto
<1>3. ASSUME NEW c \in Call, Write(c) PROVE DialInv'
  BY <1>3 DEF Write, Sent, WriteFailed
<1>4. ASSUME NEW c \in Call, Relock(c) PROVE DialInv'
  BY <1>4 DEF Relock, Goto
<1>5. ASSUME NEW c \in Call, Redial(c) PROVE DialInv'
  BY <1>5, DialKeepsDialInv DEF Redial
<1>6. ASSUME NEW c \in Call, Rewrite(c) PROVE DialInv'
  BY <1>6 DEF Rewrite, Sent, WriteFailed
<1>7. ASSUME NEW c \in Call, WriteOnNil(c) PROVE DialInv'
  BY <1>7 DEF WriteOnNil, Leave
<1>8. ASSUME NEW c \in Call, Timeout(c) PROVE DialInv'
  BY <1>8 DEF Timeout, Leave
<1>9. ASSUME NEW c \in Call, Disconnected(c) PROVE DialInv'
  BY <1>9 DEF Disconnected, Leave
<1>10. ASSUME NEW c \in Call, Unload(c) PROVE DialInv'
  BY <1>10 DEF Unload, Session, Goto
<1>11. ASSUME NEW c \in Call, Delete(c) PROVE DialInv'
  BY <1>11 DEF Delete, Goto
<1>12. ASSUME NEW c \in Call, CloseChannel(c) PROVE DialInv'
  BY <1>12 DEF CloseChannel, Goto
<1>13. ASSUME NEW c \in Call, CloseTwice(c) PROVE DialInv'
  BY <1>13 DEF CloseTwice
<1>14. ASSUME NEW l \in Link, Deliver(l) PROVE DialInv'
  BY <1>14 DEF Deliver, Leave
<1>15. ASSUME NEW l \in Link, SendPanics(l) PROVE DialInv'
  BY <1>15 DEF SendPanics
<1>16. ASSUME NEW l \in Link, ReaderExit(l) PROVE DialInv'
  BY <1>16 DEF ReaderExit
<1>17. ASSUME NEW l \in Link, Cut(l) PROVE DialInv'
  BY <1>17 DEF Cut
<1>18. ASSUME NEW l \in Link, PeerCloses(l) PROVE DialInv'
  BY <1>18 DEF PeerCloses
<1>19. ASSUME NEW l \in Link, PeerClosesUnhooked(l) PROVE DialInv'
  BY <1>19 DEF PeerClosesUnhooked
<1>20. ASSUME NEW l \in Link, HandlerDials(l) PROVE DialInv'
  <2>. DEFINE rdr == [reader EXCEPT ![l] = "installing"]
  <2>1. Connected(rdr) \/ Refused(rdr)
    BY <1>20 DEF HandlerDials
  <2>2. rdr \in [Link -> Readers]
    BY DEF Readers
  <2>3. \A m \in Link : rdr[m] = reader[m] \/ reader[m] # "none"
    BY <1>20 DEF HandlerDials
  <2>. QED
    BY <2>1, <2>2, <2>3, DialKeepsDialInv
<1>21. ASSUME NEW l \in Link, HandlerInstalls(l) PROVE DialInv'
  BY <1>21 DEF HandlerInstalls
<1>22. ASSUME NEW l \in Link, NEW c \in Call, Receive(l, c) PROVE DialInv'
  BY <1>22 DEF Receive, Session
<1>23. ASSUME NEW l \in Link, NEW c \in Call, ReceiveUnknown(l, c) PROVE DialInv'
  BY <1>23 DEF ReceiveUnknown, Session
<1>24. CASE Close
  BY <1>24 DEF Close
<1>25. CASE UNCHANGED vars
  BY <1>25 DEF vars
<1>. QED
  BY <1>1, <1>2, <1>3, <1>4, <1>5, <1>6, <1>7, <1>8, <1>9, <1>10, <1>11,
     <1>12, <1>13, <1>14, <1>15, <1>16, <1>17, <1>18, <1>19, <1>20, <1>21,
     <1>22, <1>23, <1>24, <1>25
  DEF Next, CallStep, ReaderStep, Environment

\* A reader that dialling starts was not sending before, nor is it now.
LEMMA DialKeepsSenders ==
  ASSUME TypeOK, DialInv, NEW rdr \in [Link -> Readers],
         Connected(rdr) \/ Refused(rdr),
         \A l \in Link : rdr[l] = "sending" <=> reader[l] = "sending"
  PROVE  \A l \in Link : reader'[l] = "sending" <=> reader[l] = "sending"
<1>1. CASE Refused(rdr)
  BY <1>1 DEF Refused
<1>2. CASE Connected(rdr)
  <2>1. dialed \in Nat /\ dialed + 1 \in Link
    BY <1>2, LinkFacts DEF Connected, TypeOK
  <2>2. reader[dialed + 1] = "none"
    BY <2>1, LinkFacts DEF DialInv
  <2>. QED
    BY <1>2, <2>1, <2>2 DEF Connected
<1>. QED
  BY <1>1, <1>2

\* Calls that share a key are the only ones that meet in the table: what is
\* stored, held or closed under a key was made by a call that carries it.
SharedInv ==
    /\ \A k \in Key : sess[k] # NoCall => pc[sess[k]] # "idle"
    /\ \A c \in Call : grabbed[c] # NoCall =>
          KeyOf[grabbed[c]] = KeyOf[c] /\ pc[grabbed[c]] # "idle"
    /\ \A c \in Call : pc[c] \in {"deleting", "closing"} => grabbed[c] # NoCall
    /\ \A c \in Call : c \in closed /\ pc[c] # "done" =>
          \E d \in Call : d # c /\ KeyOf[d] = KeyOf[c] /\ pc[d] # "idle"

LEMMA SharedStep ==
    TypeOK /\ KeyInv /\ SharedInv /\ [Next]_vars => SharedInv'
<1>. SUFFICES ASSUME TypeOK, KeyInv, SharedInv, [Next]_vars PROVE SharedInv'
  OBVIOUS
<1>. USE CallAssumption, KeyAssumption
     DEF TypeOK, KeyInv, SharedInv, Steps, At, Reader, callVars, chanVars, linkVars, readerVars,
               hookVars, netVars
<1>1. ASSUME NEW c \in Call, EnterNoConn(c) PROVE SharedInv'
  BY <1>1 DEF EnterNoConn
<1>2. ASSUME NEW c \in Call, Enter(c) PROVE SharedInv'
  BY <1>2 DEF Enter, Goto
<1>3. ASSUME NEW c \in Call, Write(c) PROVE SharedInv'
  BY <1>3 DEF Write, Sent, WriteFailed, Leave, Goto
<1>4. ASSUME NEW c \in Call, Relock(c) PROVE SharedInv'
  BY <1>4 DEF Relock, Goto
<1>5. ASSUME NEW c \in Call, Redial(c) PROVE SharedInv'
  BY <1>5 DEF Redial, Connected, Refused, Leave, Goto
<1>6. ASSUME NEW c \in Call, Rewrite(c) PROVE SharedInv'
  BY <1>6 DEF Rewrite, Sent, WriteFailed, Leave, Goto
<1>7. ASSUME NEW c \in Call, WriteOnNil(c) PROVE SharedInv'
  BY <1>7 DEF WriteOnNil, Leave
<1>8. ASSUME NEW c \in Call, Timeout(c) PROVE SharedInv'
  BY <1>8 DEF Timeout, Leave
<1>9. ASSUME NEW c \in Call, Disconnected(c) PROVE SharedInv'
  BY <1>9 DEF Disconnected, Leave
<1>10. ASSUME NEW c \in Call, Unload(c) PROVE SharedInv'
  BY <1>10 DEF Unload, Session, Goto
<1>11. ASSUME NEW c \in Call, Delete(c) PROVE SharedInv'
  BY <1>11 DEF Delete, Goto
<1>12. ASSUME NEW c \in Call, CloseChannel(c) PROVE SharedInv'
  BY <1>12 DEF CloseChannel, Goto
<1>13. ASSUME NEW c \in Call, CloseTwice(c) PROVE SharedInv'
  BY <1>13 DEF CloseTwice
<1>14. ASSUME NEW l \in Link, Deliver(l) PROVE SharedInv'
  BY <1>14 DEF Deliver, Leave
<1>15. ASSUME NEW l \in Link, SendPanics(l) PROVE SharedInv'
  BY <1>15 DEF SendPanics
<1>16. ASSUME NEW l \in Link, ReaderExit(l) PROVE SharedInv'
  BY <1>16 DEF ReaderExit
<1>17. ASSUME NEW l \in Link, Cut(l) PROVE SharedInv'
  BY <1>17 DEF Cut
<1>18. ASSUME NEW l \in Link, PeerCloses(l) PROVE SharedInv'
  BY <1>18 DEF PeerCloses
<1>19. ASSUME NEW l \in Link, PeerClosesUnhooked(l) PROVE SharedInv'
  BY <1>19 DEF PeerClosesUnhooked
<1>20. ASSUME NEW l \in Link, HandlerDials(l) PROVE SharedInv'
  BY <1>20 DEF HandlerDials, Connected, Refused
<1>21. ASSUME NEW l \in Link, HandlerInstalls(l) PROVE SharedInv'
  BY <1>21 DEF HandlerInstalls
<1>22. ASSUME NEW l \in Link, NEW c \in Call, Receive(l, c) PROVE SharedInv'
  BY <1>22 DEF Receive, Session
<1>23. ASSUME NEW l \in Link, NEW c \in Call, ReceiveUnknown(l, c) PROVE SharedInv'
  BY <1>23 DEF ReceiveUnknown, Session
<1>24. CASE Close
  BY <1>24 DEF Close
<1>25. CASE UNCHANGED vars
  BY <1>25 DEF vars
<1>. QED
  BY <1>1, <1>2, <1>3, <1>4, <1>5, <1>6, <1>7, <1>8, <1>9, <1>10, <1>11,
     <1>12, <1>13, <1>14, <1>15, <1>16, <1>17, <1>18, <1>19, <1>20, <1>21,
     <1>22, <1>23, <1>24, <1>25
  DEF Next, CallStep, ReaderStep, Environment

LEMMA MuxInit == Init => Mux!Init
BY DEF Init, Mux!Init, phaseView, pendingView, repliesView, PhaseOf, ToSend,
       WithPeer, WithReader

MuxInv == TypeOK /\ KeyInv /\ SharedInv /\ FlightInv /\ DialInv

\* A request stays where it is, ...
LEMMA PendingStays ==
  ASSUME UNCHANGED upstream, \A c \in Call : ToSend(c)' <=> ToSend(c)
  PROVE  pendingView' = pendingView
BY DEF pendingView, WithPeer

\* ... or is given up before it was written.
LEMMA PendingLeaves ==
  ASSUME MuxInv, NEW c \in Call, NEW step \in Steps, UNCHANGED upstream,
         ToSend(c), pc' = [pc EXCEPT ![c] = step],
         step \notin {"writing", "relock", "redialing", "rewriting"}
  PROVE  c \in pendingView /\ pendingView' = pendingView \ {c}
<1>1. ~WithPeer(c)
  BY DEF ToSend, WithPeer, MuxInv, FlightInv, Unsent
<1>2. \A d \in Call : ToSend(d)' <=> ToSend(d) /\ d # c
  BY DEF ToSend, MuxInv, TypeOK
<1>. QED
  BY <1>1, <1>2 DEF pendingView, WithPeer

\* Steps that change neither an outcome nor a reader that is sending.
LEMMA MuxStutter ==
  ASSUME MuxInv,
         UNCHANGED <<outcome, got, carried, pendingView>>,
         \A c \in Call : pc'[c] = "idle" <=> pc[c] = "idle",
         \A l \in Link : reader'[l] = "sending" <=> reader[l] = "sending"
  PROVE  UNCHANGED <<phaseView, got, pendingView, repliesView>>
<1>1. \A c \in Call : PhaseOf(c)' = PhaseOf(c)
  BY DEF PhaseOf
<1>2. phaseView' = phaseView
  BY <1>1 DEF phaseView
<1>3. repliesView' = repliesView
  BY DEF repliesView, WithReader
<1>. QED
  BY <1>2, <1>3

\* A call that is being served gets an error instead.
LEMMA MuxFail ==
  ASSUME MuxInv, NEW c \in Call, NEW why \in Failures,
         pc[c] \in Undecided, pc[c] # "idle", Leave(c, why),
         UNCHANGED <<got, carried, upstream>>,
         \A l \in Link : reader'[l] = "sending" <=> reader[l] = "sending"
  PROVE  Mux!Fail(c)
<1>1. phaseView[c] = "asked"
  BY DEF phaseView, PhaseOf, MuxInv, FlightInv
<1>2. \A d \in Call : PhaseOf(d)' = IF d = c THEN "failed" ELSE PhaseOf(d)
  BY DEF Leave, PhaseOf, Failures, Steps, Outcomes, MuxInv, TypeOK
<1>3. phaseView' = [phaseView EXCEPT ![c] = "failed"]
  BY <1>2 DEF phaseView
<1>4. repliesView' = repliesView
  BY DEF repliesView, WithReader
<1>5. pendingView' \in {pendingView, pendingView \ {c}}
  <2>1. CASE ToSend(c)
    BY <2>1, PendingLeaves DEF Leave, Steps
  <2>2. CASE ~ToSend(c)
    <3>1. \A d \in Call : ToSend(d)' <=> ToSend(d)
      BY <2>2 DEF Leave, ToSend, MuxInv, TypeOK
    <3>. QED
      BY <3>1, PendingStays
  <2>. QED
    BY <2>1, <2>2
<1>. QED
  BY <1>1, <1>3, <1>4, <1>5 DEF Mux!Fail

\* A message that was written is with the upstream, or lost on a connection
\* that nobody knows to be cut.
LEMMA MuxSent ==
  ASSUME MuxInv, NEW c \in Call, NEW next \in {"waiting", "rewaiting"},
         pc[c] \in {"writing", "rewriting"}, conn \in Link,
         Sent(c), Goto(c, next), UNCHANGED <<got, reader, carried>>
  PROVE  [Mux!Next]_<<phaseView, got, pendingView, repliesView>>
<1>1. ToSend(c) /\ pc' = [pc EXCEPT ![c] = next] /\ UNCHANGED outcome
  BY DEF ToSend, Goto
<1>2. \A d \in Call : pc'[d] = "idle" <=> pc[d] = "idle"
  BY <1>1 DEF ToSend, MuxInv, TypeOK
<1>3. phaseView' = phaseView /\ repliesView' = repliesView
  <2>1. \A d \in Call : PhaseOf(d)' = PhaseOf(d)
    BY <1>1, <1>2 DEF PhaseOf
  <2>. QED
    BY <2>1 DEF phaseView, repliesView, WithReader
<1>4. CASE upstream' = [upstream EXCEPT ![conn] = @ \union {c}]
  <2>1. \A d \in Call : ToSend(d)' <=> ToSend(d) /\ d # c
    BY <1>1 DEF ToSend, MuxInv, TypeOK
  <2>2. \A d \in Call : WithPeer(d)' <=> WithPeer(d) \/ d = c
    BY <1>4 DEF WithPeer, MuxInv, TypeOK
  <2>3. pendingView' = pendingView
    BY <1>1, <2>1, <2>2 DEF pendingView
  <2>. QED
    BY <1>3, <2>3
<1>5. CASE UNCHANGED upstream
  <2>1. c \in pendingView /\ pendingView' = pendingView \ {c}
    BY <1>1, <1>5, PendingLeaves DEF Steps
  <2>. QED
    BY <1>3, <2>1 DEF Mux!Next, Mux!Miss
<1>. QED
  BY <1>4, <1>5 DEF Sent

LEMMA MuxStep ==
  MuxInv /\ [Next]_vars
  => [Mux!Next]_<<phaseView, got, pendingView, repliesView>>
<1>. DEFINE Step == [Mux!Next]_<<phaseView, got, pendingView, repliesView>>
<1>. SUFFICES ASSUME MuxInv, [Next]_vars PROVE Step
  OBVIOUS
<1>. USE DEF At, Reader, callVars, chanVars, linkVars, readerVars, hookVars,
             netVars
<1>t. /\ pc \in [Call -> Steps] /\ outcome \in [Call -> Outcomes]
      /\ got \in [Call -> Call \union {NoCall}]
      /\ reader \in [Link -> Readers]
      /\ target \in [Link -> Call \union {NoCall}]
      /\ carried \in [Link -> Call \union {NoCall}]
      /\ upstream \in [Link -> SUBSET Call]
  BY DEF MuxInv, TypeOK
<1>f. \A c \in Call, why \in Failures :
        /\ pc[c] \in Undecided /\ pc[c] # "idle" /\ Leave(c, why)
        /\ UNCHANGED <<got, carried, upstream>>
        /\ \A l \in Link : reader'[l] = "sending" <=> reader[l] = "sending"
        => Step
  BY MuxFail DEF Mux!Next
<1>s. ASSUME UNCHANGED <<outcome, got, carried, upstream>>,
             \A c \in Call : /\ pc'[c] = "idle" <=> pc[c] = "idle"
                             /\ ToSend(c)' <=> ToSend(c),
             \A l \in Link : reader'[l] = "sending" <=> reader[l] = "sending"
      PROVE  Step
  BY <1>s, MuxStutter, PendingStays
<1>1. ASSUME NEW c \in Call, EnterNoConn(c) PROVE Step
  <2>1. pc[c] = "idle" /\ pc' = [pc EXCEPT ![c] = "done"]
        /\ outcome' = [outcome EXCEPT ![c] = "connection"]
        /\ UNCHANGED <<got, reader, carried, upstream>>
    BY <1>1 DEF EnterNoConn
  <2>2. phaseView' = [phaseView EXCEPT ![c] = "failed"]
    <3>1. \A d \in Call : PhaseOf(d)' = IF d = c THEN "failed" ELSE PhaseOf(d)
      BY <2>1, <1>t DEF PhaseOf
    <3>. QED
      BY <3>1 DEF phaseView
  <2>3. phaseView[c] = "idle" /\ repliesView' = repliesView
    BY <2>1 DEF phaseView, PhaseOf, repliesView, WithReader
  <2>4. pendingView' = pendingView
    BY <2>1, <1>t, PendingStays DEF ToSend
  <2>. QED
    BY <2>1, <2>2, <2>3, <2>4 DEF Mux!Next, Mux!Refuse
<1>2. ASSUME NEW c \in Call, Enter(c) PROVE Step
  <2>1. pc[c] = "idle" /\ pc' = [pc EXCEPT ![c] = "writing"]
        /\ UNCHANGED <<outcome, got, reader, carried, upstream>>
    BY <1>2 DEF Enter, Goto
  <2>2. outcome[c] = "none"
    BY <2>1 DEF MuxInv, FlightInv, Undecided
  <2>3. phaseView' = [phaseView EXCEPT ![c] = "asked"]
    <3>1. \A d \in Call : PhaseOf(d)' = IF d = c THEN "asked" ELSE PhaseOf(d)
      BY <2>1, <2>2, <1>t DEF PhaseOf
    <3>. QED
      BY <3>1 DEF phaseView
  <2>4. phaseView[c] = "idle" /\ repliesView' = repliesView
    BY <2>1 DEF phaseView, PhaseOf, repliesView, WithReader
  <2>5. pendingView' = pendingView \union {c}
    <3>1. \A d \in Call : ToSend(d)' <=> ToSend(d) \/ d = c
      BY <2>1, <1>t DEF ToSend
    <3>. QED
      BY <2>1, <3>1 DEF pendingView, WithPeer
  <2>. QED
    BY <2>1, <2>3, <2>4, <2>5 DEF Mux!Next, Mux!Ask
<1>3. ASSUME NEW c \in Call, Write(c) PROVE Step
  <2>1. /\ pc[c] = "writing" /\ conn \in Link
        /\ UNCHANGED <<got, reader, carried>>
    BY <1>3 DEF Write, MuxInv, TypeOK
  <2>2. CASE Sent(c) /\ Goto(c, "waiting")
    BY <2>1, <2>2, MuxSent
  <2>3. CASE WriteFailed("pipe") /\ Goto(c, "relock")
    BY <2>1, <2>3, <1>s, <1>t DEF WriteFailed, Goto, ToSend
  <2>4. CASE WriteFailed("shut") /\ Leave(c, "request")
    BY <2>1, <2>4, <1>f DEF WriteFailed, Undecided, Failures
  <2>. QED
    BY <1>3, <2>2, <2>3, <2>4 DEF Write
<1>4. ASSUME NEW c \in Call, Relock(c) PROVE Step
  BY <1>4, <1>s, <1>t DEF Relock, Goto, ToSend
<1>5. ASSUME NEW c \in Call, Redial(c) PROVE Step
  <2>1. CASE Connected(reader) /\ Goto(c, "rewriting")
    <3>1. \A l \in Link : reader'[l] = "sending" <=> reader[l] = "sending"
      BY <2>1, <1>t, DialKeepsSenders DEF MuxInv
    <3>. QED
      BY <1>5, <2>1, <3>1, <1>s, <1>t DEF Redial, Goto, ToSend
  <2>2. CASE Refused(reader) /\ Leave(c, "request")
    BY <1>5, <2>2, <1>f, <1>t DEF Redial, Refused, Undecided, Failures
  <2>. QED
    BY <1>5, <2>1, <2>2 DEF Redial
<1>6. ASSUME NEW c \in Call, Rewrite(c) PROVE Step
  <2>1. /\ pc[c] = "rewriting" /\ conn \in Link
        /\ UNCHANGED <<got, reader, carried>>
    BY <1>6 DEF Rewrite, MuxInv, TypeOK
  <2>2. CASE Sent(c) /\ Goto(c, "rewaiting")
    BY <2>1, <2>2, MuxSent
  <2>3. ASSUME NEW error \in {"pipe", "shut"}, WriteFailed(error),
               Leave(c, "request")
        PROVE  Step
    BY <2>1, <2>3, <1>f DEF WriteFailed, Undecided, Failures
  <2>. QED
    BY <1>6, <2>2, <2>3 DEF Rewrite
<1>7. ASSUME NEW c \in Call, WriteOnNil(c) PROVE Step
  <2>1. CASE Leave(c, "panic")
    BY <1>7, <2>1, <1>f DEF WriteOnNil, Undecided, Failures
  <2>2. CASE UNCHANGED <<pc, outcome>>
    BY <1>7, <2>2, <1>s DEF WriteOnNil, ToSend
  <2>. QED
    BY <1>7, <2>1, <2>2 DEF WriteOnNil
<1>18. ASSUME NEW c \in Call, CloseTwice(c) PROVE Step
  <2>. DEFINE e == grabbed[c]
  <2>1. /\ pc[c] = "closing" /\ e \in closed
        /\ UNCHANGED <<got, reader, carried, upstream>>
    BY <1>18 DEF CloseTwice
  <2>2. e \in Call /\ KeyOf[e] = KeyOf[c] /\ pc[e] # "idle"
    BY <2>1 DEF MuxInv, TypeOK, SharedInv
  <2>3. PICK d \in Call : d # c /\ KeyOf[d] = KeyOf[c] /\ pc[d] # "idle"
    <3>1. CASE e # c
      BY <2>2, <3>1
    <3>2. CASE e = c
      BY <2>1, <2>2, <3>2 DEF MuxInv, SharedInv
    <3>. QED
      BY <3>1, <3>2
  <2>4. CASE UNCHANGED <<pc, outcome>>
    BY <2>1, <2>4, <1>s DEF ToSend
  <2>5. CASE /\ pc' = [pc EXCEPT ![c] = "done"]
             /\ outcome' = [outcome EXCEPT ![c] = "panic"]
    <3>1. outcome[c] # "none"
      BY <2>1 DEF MuxInv, FlightInv, Undecided
    <3>2. \A x \in Call : PhaseOf(x)' = IF x = c THEN "failed" ELSE PhaseOf(x)
      BY <2>5, <1>t DEF PhaseOf
    <3>3. phaseView' = [phaseView EXCEPT ![c] = "failed"]
      BY <3>2 DEF phaseView
    <3>4. repliesView' = repliesView
      BY <2>1 DEF repliesView, WithReader
    <3>5. pendingView' = pendingView
      BY <2>1, <2>5, <1>t, PendingStays DEF ToSend
    <3>6. phaseView[c] \in {"answered", "failed"} /\ phaseView[d] # "idle"
      BY <2>1, <2>3, <3>1 DEF phaseView, PhaseOf
    <3>7. CASE phaseView[c] = "answered"
      BY <2>1, <2>3, <3>3, <3>4, <3>5, <3>6, <3>7 DEF Mux!Next, Mux!Spoil
    <3>8. CASE phaseView[c] = "failed"
      <4>1. phaseView' = phaseView
        BY <3>3, <3>8 DEF phaseView
      <4>. QED
        BY <2>1, <3>4, <3>5, <4>1
    <3>. QED
      BY <3>6, <3>7, <3>8
  <2>. QED
    BY <1>18, <2>4, <2>5 DEF CloseTwice
<1>8. ASSUME NEW c \in Call, Timeout(c) PROVE Step
  BY <1>8, <1>f DEF Timeout, Undecided, Failures
<1>9. ASSUME NEW c \in Call, Disconnected(c) PROVE Step
  BY <1>9, <1>f DEF Disconnected, Undecided, Failures
<1>10. ASSUME NEW c \in Call, Unload(c) \/ Delete(c) \/ CloseChannel(c)
       PROVE  Step
  BY <1>10, <1>s, <1>t DEF Unload, Delete, CloseChannel, Goto, ToSend
<1>u. ASSUME NEW l \in Link, NEW c \in Call, c \in upstream[l], UNCHANGED pc,
             upstream' = [upstream EXCEPT ![l] = @ \ {c}]
      PROVE  /\ c \in pendingView /\ pendingView' = pendingView \ {c}
             /\ pc[c] # "idle"
  <2>1. ~ToSend(c) /\ pc[c] # "idle"
    BY <1>u DEF ToSend, MuxInv, FlightInv, Unsent
  <2>2. \A m \in Link : c \in upstream[m] => m = l
    BY <1>u DEF MuxInv, FlightInv
  <2>3. \A d \in Call : WithPeer(d)' <=> WithPeer(d) /\ d # c
    BY <1>u, <1>t, <2>2 DEF WithPeer
  <2>4. \A d \in Call : ToSend(d)' <=> ToSend(d)
    BY <1>u DEF ToSend
  <2>5. WithPeer(c)
    BY <1>u DEF WithPeer
  <2>. QED
    BY <2>1, <2>3, <2>4, <2>5 DEF pendingView
<1>11. ASSUME NEW l \in Link, NEW c \in Call, Receive(l, c) PROVE Step
  <2>1. /\ UNCHANGED <<outcome, pc, got>>
        /\ reader'  = [reader EXCEPT ![l] = "sending"]
        /\ carried' = [carried EXCEPT ![l] = c]
        /\ reader[l] = "reading" /\ c \in upstream[l]
        /\ upstream' = [upstream EXCEPT ![l] = @ \ {c}]
    BY <1>11 DEF Receive
  <2>2. c \in pendingView /\ pendingView' = pendingView \ {c}
    BY <2>1, <1>u
  <2>3. phaseView' = phaseView
    BY <2>1 DEF phaseView, PhaseOf
  <2>4. repliesView' = repliesView \union {c}
    BY <2>1, <1>t DEF repliesView, WithReader
  <2>. QED
    BY <2>1, <2>2, <2>3, <2>4 DEF Mux!Next, Mux!Reply
<1>12. ASSUME NEW l \in Link, NEW c \in Call, ReceiveUnknown(l, c) PROVE Step
  <2>1. /\ UNCHANGED <<outcome, pc, got, reader, carried>>
        /\ c \in upstream[l]
        /\ upstream' = [upstream EXCEPT ![l] = @ \ {c}]
    BY <1>12 DEF ReceiveUnknown
  <2>2. c \in pendingView /\ pendingView' = pendingView \ {c}
    BY <2>1, <1>u
  <2>3. phaseView' = phaseView /\ repliesView' = repliesView
    BY <2>1 DEF phaseView, PhaseOf, repliesView, WithReader
  <2>. QED
    BY <2>1, <2>2, <2>3 DEF Mux!Next, Mux!Miss
<1>13. ASSUME NEW l \in Link, Deliver(l) PROVE Step
  <2>. DEFINE c == target[l]
              d == carried[l]
  <2>1. /\ reader[l] = "sending" /\ pc[c] \in {"waiting", "rewaiting"}
        /\ pc'      = [pc EXCEPT ![c] = "leaving"]
        /\ outcome' = [outcome EXCEPT ![c] = "answer"]
        /\ got'     = [got EXCEPT ![c] = d]
        /\ reader'  = [reader EXCEPT ![l] = "reading"]
        /\ carried' = [carried EXCEPT ![l] = NoCall]
        /\ UNCHANGED upstream
    BY <1>13 DEF Deliver, Leave
  <2>2. c \in Call /\ d \in Call /\ KeyOf[d] = KeyOf[c]
    BY <2>1 DEF MuxInv, KeyInv
  <2>3. \A m \in Link : m # l /\ reader[m] = "sending" => carried[m] # d
    BY <2>1, <2>2 DEF MuxInv, FlightInv
  <2>4. repliesView' = repliesView \ {d} /\ d \in repliesView
    BY <2>1, <2>2, <2>3, <1>t DEF repliesView, WithReader
  <2>5. outcome[c] = "none"
    BY <2>1, <2>2 DEF MuxInv, FlightInv, Undecided
  <2>6. phaseView[c] = "asked"
    BY <2>1, <2>2, <2>5 DEF phaseView, PhaseOf
  <2>7. phaseView' = [phaseView EXCEPT ![c] = "answered"]
    <3>1. \A x \in Call :
            PhaseOf(x)' = IF x = c THEN "answered" ELSE PhaseOf(x)
      BY <2>1, <2>2, <1>t DEF PhaseOf
    <3>. QED
      BY <3>1 DEF phaseView
  <2>8. pendingView' = pendingView
    BY <2>1, <2>2, <1>t, PendingStays DEF ToSend
  <2>. HIDE DEF c, d
  <2>9. Mux!Return(c, d)
    BY <2>1, <2>2, <2>4, <2>6, <2>7, <2>8 DEF Mux!Return
  <2>. QED
    BY <2>2, <2>9 DEF Mux!Next
<1>14. ASSUME NEW l \in Link, SendPanics(l) PROVE Step
  <2>. DEFINE c == carried[l]
  <2>1. /\ reader[l] = "sending" /\ UNCHANGED <<pc, outcome, got, upstream>>
        /\ reader'  = [reader EXCEPT ![l] = "dead"]
        /\ carried' = [carried EXCEPT ![l] = NoCall]
    BY <1>14 DEF SendPanics
  <2>2. c \in Call
    BY <2>1 DEF MuxInv, KeyInv
  <2>3. \A m \in Link : m # l /\ reader[m] = "sending" => carried[m] # c
    BY <2>1, <2>2 DEF MuxInv, FlightInv
  <2>4. repliesView' = repliesView \ {c} /\ c \in repliesView
    BY <2>1, <2>2, <2>3, <1>t DEF repliesView, WithReader
  <2>5. phaseView' = phaseView /\ pendingView' = pendingView
    BY <2>1, PendingStays DEF phaseView, PhaseOf, ToSend
  <2>. QED
    BY <2>1, <2>2, <2>4, <2>5 DEF Mux!Next, Mux!Drop
<1>15. ASSUME NEW l \in Link,
              \/ ReaderExit(l) \/ Cut(l) \/ PeerCloses(l)
              \/ PeerClosesUnhooked(l) \/ HandlerInstalls(l)
       PROVE  Step
  BY <1>15, <1>s, <1>t DEF ReaderExit, Cut, PeerCloses, PeerClosesUnhooked,
                           HandlerInstalls, ToSend
<1>16. ASSUME NEW l \in Link, HandlerDials(l) PROVE Step
  <2>. DEFINE rdr == [reader EXCEPT ![l] = "installing"]
  <2>1. Connected(rdr) \/ Refused(rdr)
    BY <1>16 DEF HandlerDials
  <2>2. rdr \in [Link -> Readers]
    BY <1>t DEF Readers
  <2>3. \A m \in Link : rdr[m] = "sending" <=> reader[m] = "sending"
    BY <1>16, <1>t DEF HandlerDials
  <2>4. \A m \in Link : reader'[m] = "sending" <=> reader[m] = "sending"
    BY <2>1, <2>2, <2>3, DialKeepsSenders DEF MuxInv
  <2>. QED
    BY <1>16, <2>4, <1>s, <1>t DEF HandlerDials, ToSend
<1>17. ASSUME Close \/ UNCHANGED vars PROVE Step
  BY <1>17, <1>s DEF Close, vars, ToSend
<1>. QED
  BY <1>1, <1>2, <1>3, <1>4, <1>5, <1>6, <1>7, <1>8, <1>9, <1>10, <1>11,
     <1>12, <1>13, <1>14, <1>15, <1>16, <1>17, <1>18
  DEF Next, CallStep, ReaderStep, Environment

\* The client implements RpcMux: each call returns the reply to a request
\* with its ids, which arrived after that was sent, or fails; and no reply is
\* returned twice.
THEOREM ImplementsMux == Spec => RefinesMux
<1>1. Init => MuxInv
  BY TypeInit, LinkFacts
  DEF Init, MuxInv, KeyInv, SharedInv, FlightInv, DialInv, Undecided, Unsent
<1>2. MuxInv /\ [Next]_vars => MuxInv'
  BY TypeStep, KeyStep, SharedStep, FlightStep, DialStep DEF MuxInv
<1>. QED
  BY <1>1, <1>2, MuxInit, MuxStep, PTL
  DEF Spec, RefinesMux, Mux!Spec, Mux!muxVars

-----------------------------------------------------------------------------
(* How a connection is lost.                                               *)

\* With distinct keys a call has its session and its channel to itself.
OwnInv ==
    TypeOK /\ KeyInv /\ ChannelInv /\ SessionIsLive /\ FlightInv /\ DialInv

\* A response on its way is for a call that waits or has timed out; so a
\* reader can only find the channel of a timed-out call closed.
UnreadInv ==
    /\ \A l \in Link : \A c \in upstream[l] : outcome[c] \in {"none", "timeout"}
    /\ \A l \in Link : reader[l] = "sending" =>
          outcome[carried[l]] \in {"none", "timeout"}
    /\ \A l \in Link : reader[l] \in {"dialing", "installing"} =>
          status[l] # "open"
    /\ UnreadNeedsTimeout

\* Dialling closes no channel, stops no reader and starts a fresh one.
LEMMA DialKeepsReaders ==
  ASSUME TypeOK, NEW rdr \in [Link -> Readers], Connected(rdr) \/ Refused(rdr)
  PROVE  \A l \in Link :
            \/ reader'[l] = rdr[l] /\ status'[l] = status[l]
            \/ reader'[l] = "reading"
<1>1. CASE Refused(rdr)
  BY <1>1 DEF Refused
<1>2. CASE Connected(rdr)
  BY <1>2 DEF Connected, TypeOK
<1>. QED
  BY <1>1, <1>2

\* A call that is writing or connecting may end, and what it writes is added
\* to an upstream; no reader ends.
LEMMA WriterKeepsUnread ==
  ASSUME OwnInv, UnreadInv, NEW c \in Call, pc[c] \in Unsent,
         UNCHANGED <<carried, closed>>,
         \A d \in Call : d # c => outcome'[d] = outcome[d],
         \A l \in Link : upstream'[l] \subseteq
             upstream[l] \union (IF outcome'[c] = "none" THEN {c} ELSE {}),
         \A l \in Link :
            \/ reader'[l] = reader[l]
               /\ (status'[l] = status[l] \/ status'[l] # "open")
            \/ reader'[l] = "reading"
  PROVE  UnreadInv'
<1>. USE DEF OwnInv, TypeOK, KeyInv, ChannelInv, FlightInv, Unsent,
             UnreadInv, UnreadNeedsTimeout
<1>1. \A l \in Link : \A d \in upstream'[l] : outcome'[d] \in {"none", "timeout"}
  OBVIOUS
<1>2. \A l \in Link : reader'[l] = "sending" =>
        outcome'[carried'[l]] \in {"none", "timeout"}
  OBVIOUS
<1>3. \A l \in Link : reader'[l] \in {"dialing", "installing"} =>
        status'[l] # "open"
  OBVIOUS
<1>4. \A d \in Call : d \in closed /\ outcome[d] = "timeout" =>
        outcome'[d] = "timeout"
  OBVIOUS
<1>5. UnreadNeedsTimeout'
  <2>. SUFFICES ASSUME NEW l \in Link, status'[l] = "open", reader'[l] = "dead"
                PROVE  \E d \in Call : d \in closed' /\ outcome'[d] = "timeout"
    OBVIOUS
  <2>1. PICK d \in Call : d \in closed /\ outcome[d] = "timeout"
    OBVIOUS
  <2>2. d # c
    BY <2>1
  <2>3. outcome'[d] = "timeout"
    BY <2>1, <2>2, <1>4
  <2>. QED
    BY <2>3
<1>. QED
  BY <1>1, <1>2, <1>3, <1>5

LEMMA UnreadStep ==
  ASSUME DistinctKeys
  PROVE  OwnInv /\ UnreadInv /\ [Next]_vars => UnreadInv'
<1>. SUFFICES ASSUME OwnInv, UnreadInv, [Next]_vars PROVE UnreadInv'
  OBVIOUS
<1>. USE CallAssumption
     DEF OwnInv, TypeOK, KeyInv, ChannelInv, FlightInv, Undecided, Unsent,
         UnreadInv, UnreadNeedsTimeout, DistinctKeys, At, Reader, callVars,
         chanVars, linkVars, readerVars, hookVars, netVars
<1>1. ASSUME NEW c \in Call, EnterNoConn(c) PROVE UnreadInv'
  BY <1>1 DEF EnterNoConn
<1>2. ASSUME NEW c \in Call, Enter(c) PROVE UnreadInv'
  BY <1>2 DEF Enter, Goto
<1>3. ASSUME NEW c \in Call, Write(c) PROVE UnreadInv'
  <2>1. /\ pc[c] = "writing" /\ UNCHANGED <<carried, closed, reader>>
        /\ \/ Sent(c) /\ outcome' = outcome
           \/ WriteFailed("pipe") /\ outcome' = outcome
           \/ WriteFailed("shut") /\ outcome' = [outcome EXCEPT ![c] = "request"]
    BY <1>3 DEF Write, Leave, Goto
  <2>2. \A d \in Call : d # c => outcome'[d] = outcome[d]
    BY <2>1
  <2>3. \A m \in Link : upstream'[m] \subseteq
          upstream[m] \union (IF outcome'[c] = "none" THEN {c} ELSE {})
    BY <2>1 DEF Sent, WriteFailed
  <2>4. \A m \in Link : status'[m] = status[m] \/ status'[m] # "open"
    BY <2>1 DEF Sent, WriteFailed
  <2>. QED
    BY <2>1, <2>2, <2>3, <2>4, WriterKeepsUnread
<1>4. ASSUME NEW c \in Call, Relock(c) PROVE UnreadInv'
  BY <1>4 DEF Relock, Goto
<1>5. ASSUME NEW c \in Call, Redial(c) PROVE UnreadInv'
  <2>1. /\ pc[c] = "redialing" /\ UNCHANGED <<carried, closed, upstream>>
        /\ \A d \in Call : d # c => outcome'[d] = outcome[d]
        /\ Connected(reader) \/ Refused(reader)
    BY <1>5 DEF Redial, Leave, Goto
  <2>. QED
    BY <2>1, DialKeepsReaders, WriterKeepsUnread
<1>6. ASSUME NEW c \in Call, Rewrite(c) PROVE UnreadInv'
  <2>1. /\ pc[c] = "rewriting" /\ UNCHANGED <<carried, closed, reader>>
        /\ \/ Sent(c) /\ outcome' = outcome
           \/ /\ WriteFailed("pipe") \/ WriteFailed("shut")
              /\ outcome' = [outcome EXCEPT ![c] = "request"]
    BY <1>6 DEF Rewrite, Leave, Goto
  <2>2. \A d \in Call : d # c => outcome'[d] = outcome[d]
    BY <2>1
  <2>3. \A m \in Link : upstream'[m] \subseteq
          upstream[m] \union (IF outcome'[c] = "none" THEN {c} ELSE {})
    BY <2>1 DEF Sent, WriteFailed
  <2>4. \A m \in Link : status'[m] = status[m] \/ status'[m] # "open"
    BY <2>1 DEF Sent, WriteFailed
  <2>. QED
    BY <2>1, <2>2, <2>3, <2>4, WriterKeepsUnread
<1>7. ASSUME NEW c \in Call, WriteOnNil(c) PROVE UnreadInv'
  <2>1. /\ pc[c] \in {"writing", "rewriting"}
        /\ UNCHANGED <<carried, closed, reader, status, upstream>>
        /\ \A d \in Call : d # c => outcome'[d] = outcome[d]
    BY <1>7 DEF WriteOnNil, Leave
  <2>. QED
    BY <2>1, WriterKeepsUnread
<1>8. ASSUME NEW c \in Call, Timeout(c) PROVE UnreadInv'
  BY <1>8 DEF Timeout, Leave
<1>9. ASSUME NEW c \in Call, Disconnected(c) PROVE UnreadInv'
  BY <1>9 DEF Disconnected, Leave
<1>10. ASSUME NEW c \in Call, Unload(c) PROVE UnreadInv'
  BY <1>10 DEF Unload, Session, Goto
<1>11. ASSUME NEW c \in Call, Delete(c) PROVE UnreadInv'
  BY <1>11 DEF Delete, Goto
<1>12. ASSUME NEW c \in Call, CloseChannel(c) PROVE UnreadInv'
  BY <1>12 DEF CloseChannel, Goto
<1>13. ASSUME NEW c \in Call, CloseTwice(c) PROVE UnreadInv'
  BY <1>13 DEF CloseTwice
<1>14. ASSUME NEW l \in Link, Deliver(l) PROVE UnreadInv'
  BY <1>14 DEF Deliver, Leave
<1>15. ASSUME NEW l \in Link, SendPanics(l) PROVE UnreadInv'
  BY <1>15 DEF SendPanics
<1>16. ASSUME NEW l \in Link, ReaderExit(l) PROVE UnreadInv'
  BY <1>16 DEF ReaderExit
<1>17. ASSUME NEW l \in Link, Cut(l) PROVE UnreadInv'
  BY <1>17 DEF Cut
<1>18. ASSUME NEW l \in Link, PeerCloses(l) PROVE UnreadInv'
  BY <1>18 DEF PeerCloses
<1>19. ASSUME NEW l \in Link, PeerClosesUnhooked(l) PROVE UnreadInv'
  BY <1>19 DEF PeerClosesUnhooked
<1>20. ASSUME NEW l \in Link, HandlerDials(l) PROVE UnreadInv'
  <2>. DEFINE rdr == [reader EXCEPT ![l] = "installing"]
  <2>1. /\ reader[l] = "dialing"
        /\ Connected(rdr) \/ Refused(rdr)
        /\ UNCHANGED <<outcome, closed, upstream, carried>>
    BY <1>20 DEF HandlerDials
  <2>2. \A m \in Link :
          \/ reader'[m] = rdr[m] /\ status'[m] = status[m]
          \/ reader'[m] = "reading"
    BY <2>1, DialKeepsReaders DEF Readers
  <2>3. \A m \in Link : reader'[m] = "dead" /\ status'[m] = "open" =>
          reader[m] = "dead" /\ status[m] = "open"
    BY <2>2
  <2>4. \A m \in Link : reader'[m] = "sending" => reader[m] = "sending"
    BY <2>2
  <2>5. ASSUME NEW m \in Link, reader'[m] \in {"dialing", "installing"}
        PROVE  status'[m] # "open"
    <3>1. rdr[m] \in {"dialing", "installing"} /\ status'[m] = status[m]
      BY <2>2, <2>5
    <3>2. reader[m] \in {"dialing", "installing"}
      BY <2>1, <3>1
    <3>. QED
      BY <3>1, <3>2
  <2>. QED
    BY <2>1, <2>3, <2>4, <2>5
<1>21. ASSUME NEW l \in Link, HandlerInstalls(l) PROVE UnreadInv'
  BY <1>21 DEF HandlerInstalls
<1>22. ASSUME NEW l \in Link, NEW c \in Call, Receive(l, c) PROVE UnreadInv'
  BY <1>22 DEF Receive, Session
<1>23. ASSUME NEW l \in Link, NEW c \in Call, ReceiveUnknown(l, c) PROVE UnreadInv'
  BY <1>23 DEF ReceiveUnknown, Session
<1>24. CASE Close
  BY <1>24 DEF Close
<1>25. CASE UNCHANGED vars
  BY <1>25 DEF vars
<1>. QED
  BY <1>1, <1>2, <1>3, <1>4, <1>5, <1>6, <1>7, <1>8, <1>9, <1>10, <1>11,
     <1>12, <1>13, <1>14, <1>15, <1>16, <1>17, <1>18, <1>19, <1>20, <1>21,
     <1>22, <1>23, <1>24, <1>25
  DEF Next, CallStep, ReaderStep, Environment

\* While no call has reconnected, only the first link's close handler dials;
\* and it leaves no connection only with the endpoint marked unhealthy.
NilInv ==
    hooked = {1} =>
        /\ \A l \in Link : l # 1 => reader[l] \notin {"dialing", "installing"}
        /\ reader[1] = "installing" /\ fresh[1] = NoLink => ~health
        /\ conn = NoLink => reader[1] = "dead" /\ ~health

LEMMA NilStep == TypeOK /\ NilInv /\ [Next]_vars => NilInv'
<1>. SUFFICES ASSUME TypeOK, NilInv, [Next]_vars PROVE NilInv'
  OBVIOUS
<1>. USE LinkFacts
     DEF TypeOK, NilInv, At, Reader, callVars,
         chanVars, linkVars, readerVars, hookVars, netVars
<1>1. ASSUME NEW c \in Call, EnterNoConn(c) PROVE NilInv'
  BY <1>1 DEF EnterNoConn
<1>2. ASSUME NEW c \in Call, Enter(c) PROVE NilInv'
  BY <1>2 DEF Enter, Goto
<1>3. ASSUME NEW c \in Call, Write(c) PROVE NilInv'
  BY <1>3 DEF Write, Sent, WriteFailed, Leave, Goto
<1>4. ASSUME NEW c \in Call, Relock(c) PROVE NilInv'
  BY <1>4 DEF Relock, Goto
<1>5. ASSUME NEW c \in Call, Redial(c) PROVE NilInv'
  <2>1. CASE Connected(reader) /\ hooked' = hooked \union {dialed + 1}
    <3>1. dialed \in Nat /\ dialed # 0
      BY LinkFacts DEF NoLink
    <3>2. dialed + 1 \in hooked' /\ dialed + 1 # 1
      BY <2>1, <3>1
    <3>. QED
      BY <3>2
  <2>2. CASE Refused(reader) /\ UNCHANGED <<conn, hooked>>
    BY <1>5, <2>2 DEF Redial, Refused
  <2>. QED
    BY <1>5, <2>1, <2>2 DEF Redial
<1>6. ASSUME NEW c \in Call, Rewrite(c) PROVE NilInv'
  BY <1>6 DEF Rewrite, Sent, WriteFailed, Leave, Goto
<1>7. ASSUME NEW c \in Call, WriteOnNil(c) PROVE NilInv'
  BY <1>7 DEF WriteOnNil, Leave
<1>8. ASSUME NEW c \in Call, Timeout(c) PROVE NilInv'
  BY <1>8 DEF Timeout, Leave
<1>9. ASSUME NEW c \in Call, Disconnected(c) PROVE NilInv'
  BY <1>9 DEF Disconnected, Leave
<1>10. ASSUME NEW c \in Call, Unload(c) PROVE NilInv'
  BY <1>10 DEF Unload, Session, Goto
<1>11. ASSUME NEW c \in Call, Delete(c) PROVE NilInv'
  BY <1>11 DEF Delete, Goto
<1>12. ASSUME NEW c \in Call, CloseChannel(c) PROVE NilInv'
  BY <1>12 DEF CloseChannel, Goto
<1>13. ASSUME NEW c \in Call, CloseTwice(c) PROVE NilInv'
  BY <1>13 DEF CloseTwice
<1>14. ASSUME NEW l \in Link, Deliver(l) PROVE NilInv'
  BY <1>14 DEF Deliver, Leave
<1>15. ASSUME NEW l \in Link, SendPanics(l) PROVE NilInv'
  BY <1>15 DEF SendPanics
<1>16. ASSUME NEW l \in Link, ReaderExit(l) PROVE NilInv'
  BY <1>16 DEF ReaderExit
<1>17. ASSUME NEW l \in Link, Cut(l) PROVE NilInv'
  BY <1>17 DEF Cut
<1>18. ASSUME NEW l \in Link, PeerCloses(l) PROVE NilInv'
  BY <1>18 DEF PeerCloses
<1>19. ASSUME NEW l \in Link, PeerClosesUnhooked(l) PROVE NilInv'
  BY <1>19 DEF PeerClosesUnhooked
<1>20. ASSUME NEW l \in Link, HandlerDials(l) PROVE NilInv'
  BY <1>20 DEF HandlerDials, Connected, Refused
<1>21. ASSUME NEW l \in Link, HandlerInstalls(l) PROVE NilInv'
  BY <1>21 DEF HandlerInstalls
<1>22. ASSUME NEW l \in Link, NEW c \in Call, Receive(l, c) PROVE NilInv'
  BY <1>22 DEF Receive, Session
<1>23. ASSUME NEW l \in Link, NEW c \in Call, ReceiveUnknown(l, c) PROVE NilInv'
  BY <1>23 DEF ReceiveUnknown, Session
<1>24. CASE Close
  BY <1>24 DEF Close
<1>25. CASE UNCHANGED vars
  BY <1>25 DEF vars
<1>. QED
  BY <1>1, <1>2, <1>3, <1>4, <1>5, <1>6, <1>7, <1>8, <1>9, <1>10, <1>11,
     <1>12, <1>13, <1>14, <1>15, <1>16, <1>17, <1>18, <1>19, <1>20, <1>21,
     <1>22, <1>23, <1>24, <1>25
  DEF Next, CallStep, ReaderStep, Environment

\* When no two calls carry the same ids, an open connection goes unread only
\* after a time-out, and a healthy endpoint is without a connection only
\* after a call and a close handler dialled at once.
THEOREM BreaksAreExplained == ASSUME DistinctKeys PROVE Spec => []BreaksExplained
<1>1. Init => OwnInv /\ UnreadInv /\ NilInv
  BY TypeInit, LinkFacts
  DEF Init, OwnInv, KeyInv, ChannelInv, SessionIsLive, FlightInv, DialInv,
     Undecided, Unsent, UnreadInv, UnreadNeedsTimeout, NilInv
<1>2. OwnInv /\ [Next]_vars => OwnInv'
  BY TypeStep, KeyStep, ChannelStep, FlightStep, DialStep DEF OwnInv
<1>3. OwnInv => TypeOK
  BY DEF OwnInv
<1>4. UnreadInv /\ NilInv => BreaksExplained
  BY DEF UnreadInv, NilInv, BreaksExplained, NilNeedsReconnect
<1>. QED
  BY <1>1, <1>2, <1>3, <1>4, UnreadStep, NilStep, PTL DEF Spec


-----------------------------------------------------------------------------
(* The mutex.                                                              *)

\* A call redials and writes again only with the mutex, and the mutex is held
\* across steps by such a call or by one that panicked.
MutexInv ==
    \A c \in Call :
        /\ pc[c] \in {"redialing", "rewriting"} => mu = c /\ outcome[c] = "none"
        /\ mu = c => pc[c] \in {"redialing", "rewriting"} \/ outcome[c] = "panic"

\* A call has an outcome once it is leaving, and only then.
OutcomeInv == \A c \in Call : outcome[c] = "none" <=> pc[c] \in Undecided

LEMMA MutexStep ==
    TypeOK /\ MutexInv /\ OutcomeInv /\ [Next]_vars => (MutexInv /\ OutcomeInv)'
<1>. DEFINE I == MutexInv /\ OutcomeInv
<1>. SUFFICES ASSUME TypeOK, I, [Next]_vars PROVE I'
  OBVIOUS
<1>. USE CallAssumption
     DEF TypeOK, MutexInv, OutcomeInv, Undecided, Steps, At, Reader, callVars, chanVars, linkVars, readerVars,
               hookVars, netVars
<1>1. ASSUME NEW c \in Call, EnterNoConn(c) PROVE I'
  BY <1>1 DEF EnterNoConn
<1>2. ASSUME NEW c \in Call, Enter(c) PROVE I'
  BY <1>2 DEF Enter, Goto
<1>3. ASSUME NEW c \in Call, Write(c) PROVE I'
  BY <1>3 DEF Write, Sent, WriteFailed, Leave, Goto
<1>4. ASSUME NEW c \in Call, Relock(c) PROVE I'
  BY <1>4 DEF Relock, Goto
<1>5. ASSUME NEW c \in Call, Redial(c) PROVE I'
  <2>1. pc[c] = "redialing" /\ mu = c /\ outcome[c] = "none"
    BY <1>5 DEF Redial
  <2>2. CASE Goto(c, "rewriting") /\ UNCHANGED mu
    BY <2>1, <2>2 DEF Goto
  <2>3. CASE Leave(c, "request") /\ mu' = NoCall
    BY <2>1, <2>3 DEF Leave
  <2>. QED
    BY <1>5, <2>2, <2>3 DEF Redial
<1>6. ASSUME NEW c \in Call, Rewrite(c) PROVE I'
  BY <1>6 DEF Rewrite, Sent, WriteFailed, Leave, Goto
<1>7. ASSUME NEW c \in Call, WriteOnNil(c) PROVE I'
  BY <1>7 DEF WriteOnNil, Leave
<1>8. ASSUME NEW c \in Call, Timeout(c) PROVE I'
  BY <1>8 DEF Timeout, Leave
<1>9. ASSUME NEW c \in Call, Disconnected(c) PROVE I'
  BY <1>9 DEF Disconnected, Leave
<1>10. ASSUME NEW c \in Call, Unload(c) PROVE I'
  BY <1>10 DEF Unload, Session, Goto
<1>11. ASSUME NEW c \in Call, Delete(c) PROVE I'
  BY <1>11 DEF Delete, Goto
<1>12. ASSUME NEW c \in Call, CloseChannel(c) PROVE I'
  BY <1>12 DEF CloseChannel, Goto
<1>13. ASSUME NEW c \in Call, CloseTwice(c) PROVE I'
  BY <1>13 DEF CloseTwice
<1>14. ASSUME NEW l \in Link, Deliver(l) PROVE I'
  BY <1>14 DEF Deliver, Leave
<1>15. ASSUME NEW l \in Link, SendPanics(l) PROVE I'
  BY <1>15 DEF SendPanics
<1>16. ASSUME NEW l \in Link, ReaderExit(l) PROVE I'
  BY <1>16 DEF ReaderExit
<1>17. ASSUME NEW l \in Link, Cut(l) PROVE I'
  BY <1>17 DEF Cut
<1>18. ASSUME NEW l \in Link, PeerCloses(l) PROVE I'
  BY <1>18 DEF PeerCloses
<1>19. ASSUME NEW l \in Link, PeerClosesUnhooked(l) PROVE I'
  BY <1>19 DEF PeerClosesUnhooked
<1>20. ASSUME NEW l \in Link, HandlerDials(l) PROVE I'
  BY <1>20 DEF HandlerDials, Connected, Refused
<1>21. ASSUME NEW l \in Link, HandlerInstalls(l) PROVE I'
  BY <1>21 DEF HandlerInstalls
<1>22. ASSUME NEW l \in Link, NEW c \in Call, Receive(l, c) PROVE I'
  BY <1>22 DEF Receive, Session
<1>23. ASSUME NEW l \in Link, NEW c \in Call, ReceiveUnknown(l, c) PROVE I'
  BY <1>23 DEF ReceiveUnknown, Session
<1>24. CASE Close
  BY <1>24 DEF Close
<1>25. CASE UNCHANGED vars
  BY <1>25 DEF vars
<1>. QED
  BY <1>1, <1>2, <1>3, <1>4, <1>5, <1>6, <1>7, <1>8, <1>9, <1>10, <1>11,
     <1>12, <1>13, <1>14, <1>15, <1>16, <1>17, <1>18, <1>19, <1>20, <1>21,
     <1>22, <1>23, <1>24, <1>25
  DEF Next, CallStep, ReaderStep, Environment

\* No two calls reconnect at once, and only a call that reconnects or one
\* that panicked ever holds the mutex: a blocked client is a panic's doing.
THEOREM MutexExcludes == Spec => []MutexInv
<1>1. Init => MutexInv /\ OutcomeInv
  BY CallAssumption DEF Init, MutexInv, OutcomeInv, Undecided
<1>. QED
  BY <1>1, MutexStep, TypeCorrect, PTL DEF Spec

\* Once a call's panic has left the mutex locked it stays locked.
StaysPoisoned == Poisoned => mu' = mu /\ Poisoned'

LEMMA PoisonStep ==
    TypeOK /\ MutexInv /\ OutcomeInv /\ [Next]_vars => StaysPoisoned
<1>. SUFFICES ASSUME TypeOK, MutexInv, OutcomeInv, [Next]_vars, Poisoned
              PROVE  mu' = mu /\ Poisoned'
  BY DEF StaysPoisoned
<1>. DEFINE P == mu' = mu /\ Poisoned'
<1>. USE CallAssumption
     DEF TypeOK, MutexInv, OutcomeInv, Undecided, Poisoned, Steps, At, Reader, callVars, chanVars, linkVars, readerVars,
               hookVars, netVars
<1>1. ASSUME NEW c \in Call, EnterNoConn(c) PROVE P
  BY <1>1 DEF EnterNoConn
<1>2. ASSUME NEW c \in Call, Enter(c) PROVE P
  BY <1>2 DEF Enter, Goto
<1>3. ASSUME NEW c \in Call, Write(c) PROVE P
  BY <1>3 DEF Write, Sent, WriteFailed, Leave, Goto
<1>4. ASSUME NEW c \in Call, Relock(c) PROVE P
  BY <1>4 DEF Relock, Goto
<1>5. ASSUME NEW c \in Call, Redial(c) PROVE P
  BY <1>5 DEF Redial, Connected, Refused, Leave, Goto
<1>6. ASSUME NEW c \in Call, Rewrite(c) PROVE P
  BY <1>6 DEF Rewrite, Sent, WriteFailed, Leave, Goto
<1>7. ASSUME NEW c \in Call, WriteOnNil(c) PROVE P
  BY <1>7 DEF WriteOnNil, Leave
<1>8. ASSUME NEW c \in Call, Timeout(c) PROVE P
  BY <1>8 DEF Timeout, Leave
<1>9. ASSUME NEW c \in Call, Disconnected(c) PROVE P
  BY <1>9 DEF Disconnected, Leave
<1>10. ASSUME NEW c \in Call, Unload(c) PROVE P
  BY <1>10 DEF Unload, Session, Goto
<1>11. ASSUME NEW c \in Call, Delete(c) PROVE P
  BY <1>11 DEF Delete, Goto
<1>12. ASSUME NEW c \in Call, CloseChannel(c) PROVE P
  BY <1>12 DEF CloseChannel, Goto
<1>13. ASSUME NEW c \in Call, CloseTwice(c) PROVE P
  BY <1>13 DEF CloseTwice
<1>14. ASSUME NEW l \in Link, Deliver(l) PROVE P
  BY <1>14 DEF Deliver, Leave
<1>15. ASSUME NEW l \in Link, SendPanics(l) PROVE P
  BY <1>15 DEF SendPanics
<1>16. ASSUME NEW l \in Link, ReaderExit(l) PROVE P
  BY <1>16 DEF ReaderExit
<1>17. ASSUME NEW l \in Link, Cut(l) PROVE P
  BY <1>17 DEF Cut
<1>18. ASSUME NEW l \in Link, PeerCloses(l) PROVE P
  BY <1>18 DEF PeerCloses
<1>19. ASSUME NEW l \in Link, PeerClosesUnhooked(l) PROVE P
  BY <1>19 DEF PeerClosesUnhooked
<1>20. ASSUME NEW l \in Link, HandlerDials(l) PROVE P
  BY <1>20 DEF HandlerDials, Connected, Refused
<1>21. ASSUME NEW l \in Link, HandlerInstalls(l) PROVE P
  BY <1>21 DEF HandlerInstalls
<1>22. ASSUME NEW l \in Link, NEW c \in Call, Receive(l, c) PROVE P
  BY <1>22 DEF Receive, Session
<1>23. ASSUME NEW l \in Link, NEW c \in Call, ReceiveUnknown(l, c) PROVE P
  BY <1>23 DEF ReceiveUnknown, Session
<1>24. CASE Close
  BY <1>24 DEF Close
<1>25. CASE UNCHANGED vars
  BY <1>25 DEF vars
<1>. QED
  BY <1>1, <1>2, <1>3, <1>4, <1>5, <1>6, <1>7, <1>8, <1>9, <1>10, <1>11,
     <1>12, <1>13, <1>14, <1>15, <1>16, <1>17, <1>18, <1>19, <1>20, <1>21,
     <1>22, <1>23, <1>24, <1>25
  DEF Next, CallStep, ReaderStep, Environment

\* The mutex a panic left locked is never unlocked again: every later call
\* that reaches its write waits there, deadline or not.
THEOREM PanicPoisons == Spec => [][StaysPoisoned]_vars
<1>1. Init => MutexInv /\ OutcomeInv
  BY CallAssumption DEF Init, MutexInv, OutcomeInv, Undecided
<1>2. TypeOK /\ MutexInv /\ OutcomeInv /\ [Next]_vars => [StaysPoisoned]_vars
  BY PoisonStep
<1>. QED
  BY <1>1, <1>2, MutexStep, TypeCorrect, PTL DEF Spec

-----------------------------------------------------------------------------
(* With distinct keys no reader waits for a caller that has gone.          *)

\* A call is under its key from the time it stores itself to its Delete.
OwnSession ==
    \A c \in Call :
        pc[c] \in {"writing", "waiting", "relock", "redialing", "rewriting",
                   "rewaiting", "leaving", "deleting"} => Session(c) = c

\* The caller a reader is sending to receives, or is on its way to close
\* the channel, or has closed it.
ReceiverIsThere ==
    \A l \in Link : reader[l] = "sending" =>
        LET c == target[l] IN
        \/ pc[c] \in {"waiting", "rewaiting"}
        \/ pc[c] = "leaving" /\ Session(c) = c
        \/ pc[c] \in {"deleting", "closing"} /\ grabbed[c] = c
        \/ c \in closed

LEMMA OwnSessionStep ==
  ASSUME DistinctKeys
  PROVE  TypeOK /\ OwnSession /\ [Next]_vars => OwnSession'
<1>. SUFFICES ASSUME TypeOK, OwnSession, [Next]_vars PROVE OwnSession'
  OBVIOUS
<1>. USE CallAssumption, KeyAssumption
     DEF TypeOK, OwnSession, DistinctKeys, Session, Steps, At, Reader, callVars, chanVars, linkVars, readerVars,
               hookVars, netVars
<1>1. ASSUME NEW c \in Call, EnterNoConn(c) PROVE OwnSession'
  BY <1>1 DEF EnterNoConn
<1>2. ASSUME NEW c \in Call, Enter(c) PROVE OwnSession'
  BY <1>2 DEF Enter, Goto
<1>3. ASSUME NEW c \in Call, Write(c) PROVE OwnSession'
  BY <1>3 DEF Write, Sent, WriteFailed, Leave, Goto
<1>4. ASSUME NEW c \in Call, Relock(c) PROVE OwnSession'
  BY <1>4 DEF Relock, Goto
<1>5. ASSUME NEW c \in Call, Redial(c) PROVE OwnSession'
  BY <1>5 DEF Redial, Connected, Refused, Leave, Goto
<1>6. ASSUME NEW c \in Call, Rewrite(c) PROVE OwnSession'
  BY <1>6 DEF Rewrite, Sent, WriteFailed, Leave, Goto
<1>7. ASSUME NEW c \in Call, WriteOnNil(c) PROVE OwnSession'
  BY <1>7 DEF WriteOnNil, Leave
<1>8. ASSUME NEW c \in Call, Timeout(c) PROVE OwnSession'
  BY <1>8 DEF Timeout, Leave
<1>9. ASSUME NEW c \in Call, Disconnected(c) PROVE OwnSession'
  BY <1>9 DEF Disconnected, Leave
<1>10. ASSUME NEW c \in Call, Unload(c) PROVE OwnSession'
  BY <1>10 DEF Unload, Session, Goto
<1>11. ASSUME NEW c \in Call, Delete(c) PROVE OwnSession'
  BY <1>11 DEF Delete, Goto
<1>12. ASSUME NEW c \in Call, CloseChannel(c) PROVE OwnSession'
  BY <1>12 DEF CloseChannel, Goto
<1>13. ASSUME NEW c \in Call, CloseTwice(c) PROVE OwnSession'
  BY <1>13 DEF CloseTwice
<1>14. ASSUME NEW l \in Link, Deliver(l) PROVE OwnSession'
  BY <1>14 DEF Deliver, Leave
<1>15. ASSUME NEW l \in Link, SendPanics(l) PROVE OwnSession'
  BY <1>15 DEF SendPanics
<1>16. ASSUME NEW l \in Link, ReaderExit(l) PROVE OwnSession'
  BY <1>16 DEF ReaderExit
<1>17. ASSUME NEW l \in Link, Cut(l) PROVE OwnSession'
  BY <1>17 DEF Cut
<1>18. ASSUME NEW l \in Link, PeerCloses(l) PROVE OwnSession'
  BY <1>18 DEF PeerCloses
<1>19. ASSUME NEW l \in Link, PeerClosesUnhooked(l) PROVE OwnSession'
  BY <1>19 DEF PeerClosesUnhooked
<1>20. ASSUME NEW l \in Link, HandlerDials(l) PROVE OwnSession'
  BY <1>20 DEF HandlerDials, Connected, Refused
<1>21. ASSUME NEW l \in Link, HandlerInstalls(l) PROVE OwnSession'
  BY <1>21 DEF HandlerInstalls
<1>22. ASSUME NEW l \in Link, NEW c \in Call, Receive(l, c) PROVE OwnSession'
  BY <1>22 DEF Receive, Session
<1>23. ASSUME NEW l \in Link, NEW c \in Call, ReceiveUnknown(l, c) PROVE OwnSession'
  BY <1>23 DEF ReceiveUnknown, Session
<1>24. CASE Close
  BY <1>24 DEF Close
<1>25. CASE UNCHANGED vars
  BY <1>25 DEF vars
<1>. QED
  BY <1>1, <1>2, <1>3, <1>4, <1>5, <1>6, <1>7, <1>8, <1>9, <1>10, <1>11,
     <1>12, <1>13, <1>14, <1>15, <1>16, <1>17, <1>18, <1>19, <1>20, <1>21,
     <1>22, <1>23, <1>24, <1>25
  DEF Next, CallStep, ReaderStep, Environment

LEMMA ReceiverStep ==
  ASSUME DistinctKeys
  PROVE  /\ TypeOK /\ KeyInv /\ ChannelInv /\ SessionIsLive /\ OwnSession
         /\ OwnSession' /\ FlightInv /\ ReceiverIsThere /\ [Next]_vars
         => ReceiverIsThere'
<1>. SUFFICES ASSUME TypeOK, KeyInv, ChannelInv, SessionIsLive, OwnSession,
                     OwnSession', FlightInv, ReceiverIsThere, [Next]_vars
              PROVE  ReceiverIsThere'
  OBVIOUS
<1>. USE CallAssumption, KeyAssumption
     DEF TypeOK, KeyInv, ChannelInv, OwnSession, ReceiverIsThere, DistinctKeys, Session,
         Steps, At, Reader, callVars, chanVars, linkVars, readerVars,
               hookVars, netVars
<1>1. ASSUME NEW c \in Call, EnterNoConn(c) PROVE ReceiverIsThere'
  BY <1>1 DEF EnterNoConn
<1>2. ASSUME NEW c \in Call, Enter(c) PROVE ReceiverIsThere'
  BY <1>2 DEF Enter, Goto
<1>3. ASSUME NEW c \in Call, Write(c) PROVE ReceiverIsThere'
  BY <1>3 DEF Write, Sent, WriteFailed, Leave, Goto
<1>4. ASSUME NEW c \in Call, Relock(c) PROVE ReceiverIsThere'
  BY <1>4 DEF Relock, Goto
<1>5. ASSUME NEW c \in Call, Redial(c) PROVE ReceiverIsThere'
  BY <1>5 DEF Redial, Connected, Refused, Leave, Goto
<1>6. ASSUME NEW c \in Call, Rewrite(c) PROVE ReceiverIsThere'
  BY <1>6 DEF Rewrite, Sent, WriteFailed, Leave, Goto
<1>7. ASSUME NEW c \in Call, WriteOnNil(c) PROVE ReceiverIsThere'
  BY <1>7 DEF WriteOnNil, Leave
<1>8. ASSUME NEW c \in Call, Timeout(c) PROVE ReceiverIsThere'
  BY <1>8 DEF Timeout, Leave
<1>9. ASSUME NEW c \in Call, Disconnected(c) PROVE ReceiverIsThere'
  BY <1>9 DEF Disconnected, Leave
<1>10. ASSUME NEW c \in Call, Unload(c) PROVE ReceiverIsThere'
  BY <1>10 DEF Unload, Session, Goto
<1>11. ASSUME NEW c \in Call, Delete(c) PROVE ReceiverIsThere'
  BY <1>11 DEF Delete, Goto
<1>12. ASSUME NEW c \in Call, CloseChannel(c) PROVE ReceiverIsThere'
  BY <1>12 DEF CloseChannel, Goto
<1>13. ASSUME NEW c \in Call, CloseTwice(c) PROVE ReceiverIsThere'
  BY <1>13 DEF CloseTwice
<1>14. ASSUME NEW l \in Link, Deliver(l) PROVE ReceiverIsThere'
  BY <1>14 DEF Deliver, Leave
<1>15. ASSUME NEW l \in Link, SendPanics(l) PROVE ReceiverIsThere'
  BY <1>15 DEF SendPanics
<1>16. ASSUME NEW l \in Link, ReaderExit(l) PROVE ReceiverIsThere'
  BY <1>16 DEF ReaderExit
<1>17. ASSUME NEW l \in Link, Cut(l) PROVE ReceiverIsThere'
  BY <1>17 DEF Cut
<1>18. ASSUME NEW l \in Link, PeerCloses(l) PROVE ReceiverIsThere'
  BY <1>18 DEF PeerCloses
<1>19. ASSUME NEW l \in Link, PeerClosesUnhooked(l) PROVE ReceiverIsThere'
  BY <1>19 DEF PeerClosesUnhooked
<1>20. ASSUME NEW l \in Link, HandlerDials(l) PROVE ReceiverIsThere'
  BY <1>20 DEF HandlerDials, Connected, Refused
<1>21. ASSUME NEW l \in Link, HandlerInstalls(l) PROVE ReceiverIsThere'
  BY <1>21 DEF HandlerInstalls
<1>22. ASSUME NEW l \in Link, NEW c \in Call, Receive(l, c) PROVE ReceiverIsThere'
  <2>1. sess[KeyOf[c]] # NoCall /\ KeyOf[sess[KeyOf[c]]] = KeyOf[c]
    BY <1>22 DEF Receive
  <2>2. Session(c) = c
    BY <2>1
  <2>3. pc[c] \in {"waiting", "rewaiting", "leaving", "deleting"}
    BY <1>22, <2>1, <2>2 DEF Receive, SessionIsLive, FlightInv, Unsent
  <2>4. /\ UNCHANGED <<pc, grabbed, sess, closed>>
        /\ \A m \in Link : m # l => reader'[m] = reader[m] /\ target'[m] = target[m]
        /\ target'[l] = c
    BY <1>22, <2>2 DEF Receive
  <2>. QED
    BY <2>3, <2>4
<1>23. ASSUME NEW l \in Link, NEW c \in Call, ReceiveUnknown(l, c) PROVE ReceiverIsThere'
  BY <1>23 DEF ReceiveUnknown, Session
<1>24. CASE Close
  BY <1>24 DEF Close
<1>25. CASE UNCHANGED vars
  BY <1>25 DEF vars
<1>. QED
  BY <1>1, <1>2, <1>3, <1>4, <1>5, <1>6, <1>7, <1>8, <1>9, <1>10, <1>11,
     <1>12, <1>13, <1>14, <1>15, <1>16, <1>17, <1>18, <1>19, <1>20, <1>21,
     <1>22, <1>23, <1>24, <1>25
  DEF Next, CallStep, ReaderStep, Environment

\* A response that a reader took always meets its caller: one that is still
\* receiving or one that will close the channel, never one that left without.
THEOREM ReadersAreFreed == ASSUME DistinctKeys PROVE Spec => []ReceiverIsThere
<1>1. Init => /\ KeyInv /\ ChannelInv /\ SessionIsLive
              /\ OwnSession /\ FlightInv /\ ReceiverIsThere
  BY DEF Init, KeyInv, ChannelInv, SessionIsLive, OwnSession, FlightInv,
         Undecided, ReceiverIsThere
<1>. QED
  BY <1>1, TypeCorrect, KeyStep, ChannelStep, FlightStep, OwnSessionStep,
     ReceiverStep, PTL DEF Spec
=============================================================================
