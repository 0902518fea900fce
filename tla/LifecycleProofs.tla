--------------------------- MODULE LifecycleProofs ---------------------------
(***************************************************************************)
(* Theorems about Lifecycle, for any sets of requests, of WebSocket        *)
(* connections and of health checks.                                       *)
(***************************************************************************)
EXTENDS Lifecycle, TLAPS

-----------------------------------------------------------------------------
(* The invariant                                                           *)

\* Where the hooks are in each phase; nobody serves during the start.
StepOfPhase ==
    /\ phase = "starting" => step \in StartSteps /\ server = "none"
    /\ phase = "up"       => step = "server"
    /\ phase = "stopping" => step \in StopSteps

ChannelGone ==
    phase = "stopping" /\ step \in {"conn", "database"} => channel = "none"

\* Callers come to a server that listens.
NotYetServed ==
    server \in {"none", "starting", "made", "failed"} =>
        \A c \in Caller : pc[c] = "out"

AskedInCheck ==
    \A c \in Caller : asks[c] # {} => c \in Check /\ pc[c] = "handling"

\* Shutdown closes the server that listens.
ListensLate ==
    phase = "stopping" /\ step # "server" /\ server = "listening" => late

\* What ClientsOutliveCalls leaves to a probe.
AmqpLost ==
    conn = "none" => \/ overdue \/ late
                     \/ \A c \in Caller : "amqp" \notin asks[c]

Places ==
    TypeOK /\ StepOfPhase /\ ChannelGone /\ NotYetServed /\ AskedInCheck

IInv ==
    Places /\ ListensLate /\ ClientsOutliveCalls /\ AmqpLost /\ CrashesExplained

LEMMA InvInit == Init => IInv
<1>. SUFFICES ASSUME Init PROVE IInv
  OBVIOUS
<1>1. Places
  BY DEF Init, Places, TypeOK, StepOfPhase, ChannelGone, NotYetServed,
         AskedInCheck, StartSteps, Probe
<1>2. ListensLate /\ ClientsOutliveCalls /\ AmqpLost /\ CrashesExplained
  BY DEF Init, ListensLate, ClientsOutliveCalls, AmqpLost, CrashesExplained
<1>. QED
  BY <1>1, <1>2 DEF IInv

LEMMA TypeStep == Places /\ [Next]_vars => TypeOK'
<1>. SUFFICES ASSUME Places, [Next]_vars PROVE TypeOK'
  OBVIOUS
<1>. USE DEF Places, TypeOK, StepOfPhase, ChannelGone, StartSteps, StopSteps,
               Probe, procVars, serverVars, amqpVars, storeVars, watchVars, callVars
<1>1. ASSUME ConnectDatabase PROVE TypeOK'
  BY <1>1 DEF ConnectDatabase, Starts
<1>2. ASSUME ConnectRedis PROVE TypeOK'
  BY <1>2 DEF ConnectRedis, Starts
<1>3. ASSUME ConnectAmqp PROVE TypeOK'
  BY <1>3 DEF ConnectAmqp, Starts
<1>4. ASSUME Serve PROVE TypeOK'
  BY <1>4 DEF Serve, Starts
<1>5. ASSUME StartTimesOut PROVE TypeOK'
  BY <1>5 DEF StartTimesOut
<1>6. ASSUME Make PROVE TypeOK'
  BY <1>6 DEF Make
<1>7. ASSUME Listen PROVE TypeOK'
  BY <1>7 DEF Listen
<1>8. ASSUME Reload PROVE TypeOK'
  BY <1>8 DEF Reload, Caller
<1>9. ASSUME UnusableConfiguration PROVE TypeOK'
  BY <1>9 DEF UnusableConfiguration
<1>10. ASSUME BadConfiguration PROVE TypeOK'
  BY <1>10 DEF BadConfiguration, Crash
<1>11. ASSUME Signal PROVE TypeOK'
  BY <1>11 DEF Signal
<1>12. ASSUME ShutdownNil PROVE TypeOK'
  BY <1>12 DEF ShutdownNil, Crash
<1>13. ASSUME ShutdownEarly PROVE TypeOK'
  BY <1>13 DEF ShutdownEarly, Stops
<1>14. ASSUME ShutdownBegins PROVE TypeOK'
  BY <1>14 DEF ShutdownBegins, Stops
<1>15. ASSUME ShutdownEnds PROVE TypeOK'
  BY <1>15 DEF ShutdownEnds, Stops
<1>16. ASSUME CloseEtcd PROVE TypeOK'
  BY <1>16 DEF CloseEtcd, Stops
<1>17. ASSUME CloseRedis PROVE TypeOK'
  BY <1>17 DEF CloseRedis, Stops
<1>18. ASSUME CloseChannel PROVE TypeOK'
  BY <1>18 DEF CloseChannel, Stops
<1>19. ASSUME CloseConn PROVE TypeOK'
  BY <1>19 DEF CloseConn, Stops
<1>20. ASSUME CloseDatabase PROVE TypeOK'
  BY <1>20 DEF CloseDatabase, Stops
<1>21. ASSUME StopTimesOut PROVE TypeOK'
  BY <1>21 DEF StopTimesOut
<1>22. ASSUME Abandon PROVE TypeOK'
  BY <1>22 DEF Abandon
<1>23. ASSUME ConnBreaks PROVE TypeOK'
  BY <1>23 DEF ConnBreaks
<1>24. ASSUME NEW c \in Caller, Request(c) PROVE TypeOK'
  BY <1>24 DEF Request, Accepts, Goto
<1>25. ASSUME NEW c \in Caller, Upgrade(c) PROVE TypeOK'
  BY <1>25 DEF Upgrade, Accepts, Goto
<1>26. ASSUME NEW c \in Caller, Message(c) PROVE TypeOK'
  BY <1>26 DEF Message, Goto
<1>27. ASSUME NEW c \in Caller, BeginCheck(c) PROVE TypeOK'
  BY <1>27 DEF BeginCheck, Accepts, Goto, Probe
<1>28. ASSUME NEW c \in Caller, MeetNil(c) PROVE TypeOK'
  BY <1>28 DEF MeetNil, Panics, Crash, Goto
<1>29. ASSUME NEW c \in Caller, MeetNoDatabase(c) PROVE TypeOK'
  BY <1>29 DEF MeetNoDatabase, Panics, Crash, Goto
<1>30. ASSUME NEW c \in Caller, Finish(c) PROVE TypeOK'
  BY <1>30 DEF Finish, Goto
<1>31. ASSUME NEW c \in Caller, Ping(c) PROVE TypeOK'
  BY <1>31 DEF Ping, ProbeEnds, Crash
<1>32. ASSUME NEW c \in Caller, AskDatabase(c) PROVE TypeOK'
  BY <1>32 DEF AskDatabase, ProbeEnds, Crash
<1>33. ASSUME NEW c \in Caller, AskAmqp(c) PROVE TypeOK'
  BY <1>33 DEF AskAmqp, ProbeEnds, Crash
<1>34. ASSUME NEW c \in Caller, EndCheck(c) PROVE TypeOK'
  BY <1>34 DEF EndCheck, Goto
<1>35. ASSUME NEW c \in Caller, CheckConn(c) PROVE TypeOK'
  BY <1>35 DEF CheckConn
<1>36. ASSUME NEW c \in Caller, Publish(c) PROVE TypeOK'
  BY <1>36 DEF Publish
<1>37. ASSUME NEW c \in Caller, Leave(c) PROVE TypeOK'
  BY <1>37 DEF Leave, Goto
<1>38. CASE UNCHANGED vars
  BY <1>38 DEF vars
<1>. QED
  BY <1>1, <1>2, <1>3, <1>4, <1>5, <1>6, <1>7, <1>8, <1>9, <1>10, <1>11,
     <1>12, <1>13, <1>14, <1>15, <1>16, <1>17, <1>18, <1>19, <1>20, <1>21,
     <1>22, <1>23, <1>24, <1>25, <1>26, <1>27, <1>28, <1>29, <1>30, <1>31,
     <1>32, <1>33, <1>34, <1>35, <1>36, <1>37, <1>38 DEF Next, Start, Stop,
     Handle

LEMMA PhaseStep == Places /\ [Next]_vars => StepOfPhase'
<1>. SUFFICES ASSUME Places, [Next]_vars PROVE StepOfPhase'
  OBVIOUS
<1>. USE DEF Places, TypeOK, StepOfPhase, Alive, StartSteps, StopSteps, procVars, serverVars, amqpVars, storeVars, watchVars, callVars
<1>1. ASSUME ConnectDatabase PROVE StepOfPhase'
  BY <1>1 DEF ConnectDatabase, Starts
<1>2. ASSUME ConnectRedis PROVE StepOfPhase'
  BY <1>2 DEF ConnectRedis, Starts
<1>3. ASSUME ConnectAmqp PROVE StepOfPhase'
  BY <1>3 DEF ConnectAmqp, Starts
<1>4. ASSUME Serve PROVE StepOfPhase'
  BY <1>4 DEF Serve, Starts
<1>5. ASSUME StartTimesOut PROVE StepOfPhase'
  BY <1>5 DEF StartTimesOut
<1>6. ASSUME Make PROVE StepOfPhase'
  BY <1>6 DEF Make
<1>7. ASSUME Listen PROVE StepOfPhase'
  BY <1>7 DEF Listen
<1>8. ASSUME Reload PROVE StepOfPhase'
  BY <1>8 DEF Reload, Caller
<1>9. ASSUME UnusableConfiguration PROVE StepOfPhase'
  BY <1>9 DEF UnusableConfiguration
<1>10. ASSUME BadConfiguration PROVE StepOfPhase'
  BY <1>10 DEF BadConfiguration, Crash
<1>11. ASSUME Signal PROVE StepOfPhase'
  BY <1>11 DEF Signal
<1>12. ASSUME ShutdownNil PROVE StepOfPhase'
  BY <1>12 DEF ShutdownNil, Crash
<1>13. ASSUME ShutdownEarly PROVE StepOfPhase'
  BY <1>13 DEF ShutdownEarly, Stops
<1>14. ASSUME ShutdownBegins PROVE StepOfPhase'
  BY <1>14 DEF ShutdownBegins, Stops
<1>15. ASSUME ShutdownEnds PROVE StepOfPhase'
  BY <1>15 DEF ShutdownEnds, Stops
<1>16. ASSUME CloseEtcd PROVE StepOfPhase'
  BY <1>16 DEF CloseEtcd, Stops
<1>17. ASSUME CloseRedis PROVE StepOfPhase'
  BY <1>17 DEF CloseRedis, Stops
<1>18. ASSUME CloseChannel PROVE StepOfPhase'
  BY <1>18 DEF CloseChannel, Stops
<1>19. ASSUME CloseConn PROVE StepOfPhase'
  BY <1>19 DEF CloseConn, Stops
<1>20. ASSUME CloseDatabase PROVE StepOfPhase'
  BY <1>20 DEF CloseDatabase, Stops
<1>21. ASSUME StopTimesOut PROVE StepOfPhase'
  BY <1>21 DEF StopTimesOut
<1>22. ASSUME Abandon PROVE StepOfPhase'
  BY <1>22 DEF Abandon
<1>23. ASSUME ConnBreaks PROVE StepOfPhase'
  BY <1>23 DEF ConnBreaks
<1>24. ASSUME NEW c \in Caller, Request(c) PROVE StepOfPhase'
  BY <1>24 DEF Request, Accepts, Goto
<1>25. ASSUME NEW c \in Caller, Upgrade(c) PROVE StepOfPhase'
  BY <1>25 DEF Upgrade, Accepts, Goto
<1>26. ASSUME NEW c \in Caller, Message(c) PROVE StepOfPhase'
  BY <1>26 DEF Message, Goto
<1>27. ASSUME NEW c \in Caller, BeginCheck(c) PROVE StepOfPhase'
  BY <1>27 DEF BeginCheck, Accepts, Goto, Probe
<1>28. ASSUME NEW c \in Caller, MeetNil(c) PROVE StepOfPhase'
  BY <1>28 DEF MeetNil, Panics, Crash, Goto
<1>29. ASSUME NEW c \in Caller, MeetNoDatabase(c) PROVE StepOfPhase'
  BY <1>29 DEF MeetNoDatabase, Panics, Crash, Goto
<1>30. ASSUME NEW c \in Caller, Finish(c) PROVE StepOfPhase'
  BY <1>30 DEF Finish, Goto
<1>31. ASSUME NEW c \in Caller, Ping(c) PROVE StepOfPhase'
  BY <1>31 DEF Ping, ProbeEnds, Crash
<1>32. ASSUME NEW c \in Caller, AskDatabase(c) PROVE StepOfPhase'
  BY <1>32 DEF AskDatabase, ProbeEnds, Crash
<1>33. ASSUME NEW c \in Caller, AskAmqp(c) PROVE StepOfPhase'
  BY <1>33 DEF AskAmqp, ProbeEnds, Crash
<1>34. ASSUME NEW c \in Caller, EndCheck(c) PROVE StepOfPhase'
  BY <1>34 DEF EndCheck, Goto
<1>35. ASSUME NEW c \in Caller, CheckConn(c) PROVE StepOfPhase'
  BY <1>35 DEF CheckConn
<1>36. ASSUME NEW c \in Caller, Publish(c) PROVE StepOfPhase'
  BY <1>36 DEF Publish
<1>37. ASSUME NEW c \in Caller, Leave(c) PROVE StepOfPhase'
  BY <1>37 DEF Leave, Goto
<1>38. CASE UNCHANGED vars
  BY <1>38 DEF vars
<1>. QED
  BY <1>1, <1>2, <1>3, <1>4, <1>5, <1>6, <1>7, <1>8, <1>9, <1>10, <1>11,
     <1>12, <1>13, <1>14, <1>15, <1>16, <1>17, <1>18, <1>19, <1>20, <1>21,
     <1>22, <1>23, <1>24, <1>25, <1>26, <1>27, <1>28, <1>29, <1>30, <1>31,
     <1>32, <1>33, <1>34, <1>35, <1>36, <1>37, <1>38 DEF Next, Start, Stop,
     Handle

LEMMA ChannelStep == Places /\ [Next]_vars => ChannelGone'
<1>. SUFFICES ASSUME Places, [Next]_vars PROVE ChannelGone'
  OBVIOUS
<1>. USE DEF Places, TypeOK, StepOfPhase, ChannelGone, Alive, procVars, serverVars, amqpVars, storeVars, watchVars, callVars
<1>1. ASSUME ConnectDatabase PROVE ChannelGone'
  BY <1>1 DEF ConnectDatabase, Starts
<1>2. ASSUME ConnectRedis PROVE ChannelGone'
  BY <1>2 DEF ConnectRedis, Starts
<1>3. ASSUME ConnectAmqp PROVE ChannelGone'
  BY <1>3 DEF ConnectAmqp, Starts
<1>4. ASSUME Serve PROVE ChannelGone'
  BY <1>4 DEF Serve, Starts
<1>5. ASSUME StartTimesOut PROVE ChannelGone'
  BY <1>5 DEF StartTimesOut
<1>6. ASSUME Make PROVE ChannelGone'
  BY <1>6 DEF Make
<1>7. ASSUME Listen PROVE ChannelGone'
  BY <1>7 DEF Listen
<1>8. ASSUME Reload PROVE ChannelGone'
  BY <1>8 DEF Reload, Caller
<1>9. ASSUME UnusableConfiguration PROVE ChannelGone'
  BY <1>9 DEF UnusableConfiguration
<1>10. ASSUME BadConfiguration PROVE ChannelGone'
  BY <1>10 DEF BadConfiguration, Crash
<1>11. ASSUME Signal PROVE ChannelGone'
  BY <1>11 DEF Signal
<1>12. ASSUME ShutdownNil PROVE ChannelGone'
  BY <1>12 DEF ShutdownNil, Crash
<1>13. ASSUME ShutdownEarly PROVE ChannelGone'
  BY <1>13 DEF ShutdownEarly, Stops
<1>14. ASSUME ShutdownBegins PROVE ChannelGone'
  BY <1>14 DEF ShutdownBegins, Stops
<1>15. ASSUME ShutdownEnds PROVE ChannelGone'
  BY <1>15 DEF ShutdownEnds, Stops
<1>16. ASSUME CloseEtcd PROVE ChannelGone'
  BY <1>16 DEF CloseEtcd, Stops
<1>17. ASSUME CloseRedis PROVE ChannelGone'
  BY <1>17 DEF CloseRedis, Stops
<1>18. ASSUME CloseChannel PROVE ChannelGone'
  BY <1>18 DEF CloseChannel, Stops
<1>19. ASSUME CloseConn PROVE ChannelGone'
  BY <1>19 DEF CloseConn, Stops
<1>20. ASSUME CloseDatabase PROVE ChannelGone'
  BY <1>20 DEF CloseDatabase, Stops
<1>21. ASSUME StopTimesOut PROVE ChannelGone'
  BY <1>21 DEF StopTimesOut
<1>22. ASSUME Abandon PROVE ChannelGone'
  BY <1>22 DEF Abandon
<1>23. ASSUME ConnBreaks PROVE ChannelGone'
  BY <1>23 DEF ConnBreaks
<1>24. ASSUME NEW c \in Caller, Request(c) PROVE ChannelGone'
  BY <1>24 DEF Request, Accepts, Goto
<1>25. ASSUME NEW c \in Caller, Upgrade(c) PROVE ChannelGone'
  BY <1>25 DEF Upgrade, Accepts, Goto
<1>26. ASSUME NEW c \in Caller, Message(c) PROVE ChannelGone'
  BY <1>26 DEF Message, Goto
<1>27. ASSUME NEW c \in Caller, BeginCheck(c) PROVE ChannelGone'
  BY <1>27 DEF BeginCheck, Accepts, Goto, Probe
<1>28. ASSUME NEW c \in Caller, MeetNil(c) PROVE ChannelGone'
  BY <1>28 DEF MeetNil, Panics, Crash, Goto
<1>29. ASSUME NEW c \in Caller, MeetNoDatabase(c) PROVE ChannelGone'
  BY <1>29 DEF MeetNoDatabase, Panics, Crash, Goto
<1>30. ASSUME NEW c \in Caller, Finish(c) PROVE ChannelGone'
  BY <1>30 DEF Finish, Goto
<1>31. ASSUME NEW c \in Caller, Ping(c) PROVE ChannelGone'
  BY <1>31 DEF Ping, ProbeEnds, Crash
<1>32. ASSUME NEW c \in Caller, AskDatabase(c) PROVE ChannelGone'
  BY <1>32 DEF AskDatabase, ProbeEnds, Crash
<1>33. ASSUME NEW c \in Caller, AskAmqp(c) PROVE ChannelGone'
  BY <1>33 DEF AskAmqp, ProbeEnds, Crash
<1>34. ASSUME NEW c \in Caller, EndCheck(c) PROVE ChannelGone'
  BY <1>34 DEF EndCheck, Goto
<1>35. ASSUME NEW c \in Caller, CheckConn(c) PROVE ChannelGone'
  BY <1>35 DEF CheckConn
<1>36. ASSUME NEW c \in Caller, Publish(c) PROVE ChannelGone'
  BY <1>36 DEF Publish
<1>37. ASSUME NEW c \in Caller, Leave(c) PROVE ChannelGone'
  BY <1>37 DEF Leave, Goto
<1>38. CASE UNCHANGED vars
  BY <1>38 DEF vars
<1>. QED
  BY <1>1, <1>2, <1>3, <1>4, <1>5, <1>6, <1>7, <1>8, <1>9, <1>10, <1>11,
     <1>12, <1>13, <1>14, <1>15, <1>16, <1>17, <1>18, <1>19, <1>20, <1>21,
     <1>22, <1>23, <1>24, <1>25, <1>26, <1>27, <1>28, <1>29, <1>30, <1>31,
     <1>32, <1>33, <1>34, <1>35, <1>36, <1>37, <1>38 DEF Next, Start, Stop,
     Handle

LEMMA ServedStep == Places /\ [Next]_vars => NotYetServed'
<1>. SUFFICES ASSUME Places, [Next]_vars PROVE NotYetServed'
  OBVIOUS
<1>. USE DEF Places, TypeOK, StepOfPhase, NotYetServed, procVars, serverVars, amqpVars, storeVars, watchVars, callVars
<1>1. ASSUME ConnectDatabase PROVE NotYetServed'
  BY <1>1 DEF ConnectDatabase, Starts
<1>2. ASSUME ConnectRedis PROVE NotYetServed'
  BY <1>2 DEF ConnectRedis, Starts
<1>3. ASSUME ConnectAmqp PROVE NotYetServed'
  BY <1>3 DEF ConnectAmqp, Starts
<1>4. ASSUME Serve PROVE NotYetServed'
  BY <1>4 DEF Serve, Starts
<1>5. ASSUME StartTimesOut PROVE NotYetServed'
  BY <1>5 DEF StartTimesOut
<1>6. ASSUME Make PROVE NotYetServed'
  BY <1>6 DEF Make
<1>7. ASSUME Listen PROVE NotYetServed'
  BY <1>7 DEF Listen
<1>8. ASSUME Reload PROVE NotYetServed'
  BY <1>8 DEF Reload, Caller
<1>9. ASSUME UnusableConfiguration PROVE NotYetServed'
  BY <1>9 DEF UnusableConfiguration
<1>10. ASSUME BadConfiguration PROVE NotYetServed'
  BY <1>10 DEF BadConfiguration, Crash
<1>11. ASSUME Signal PROVE NotYetServed'
  BY <1>11 DEF Signal
<1>12. ASSUME ShutdownNil PROVE NotYetServed'
  BY <1>12 DEF ShutdownNil, Crash
<1>13. ASSUME ShutdownEarly PROVE NotYetServed'
  BY <1>13 DEF ShutdownEarly, Stops
<1>14. ASSUME ShutdownBegins PROVE NotYetServed'
  BY <1>14 DEF ShutdownBegins, Stops
<1>15. ASSUME ShutdownEnds PROVE NotYetServed'
  BY <1>15 DEF ShutdownEnds, Stops
<1>16. ASSUME CloseEtcd PROVE NotYetServed'
  BY <1>16 DEF CloseEtcd, Stops
<1>17. ASSUME CloseRedis PROVE NotYetServed'
  BY <1>17 DEF CloseRedis, Stops
<1>18. ASSUME CloseChannel PROVE NotYetServed'
  BY <1>18 DEF CloseChannel, Stops
<1>19. ASSUME CloseConn PROVE NotYetServed'
  BY <1>19 DEF CloseConn, Stops
<1>20. ASSUME CloseDatabase PROVE NotYetServed'
  BY <1>20 DEF CloseDatabase, Stops
<1>21. ASSUME StopTimesOut PROVE NotYetServed'
  BY <1>21 DEF StopTimesOut
<1>22. ASSUME Abandon PROVE NotYetServed'
  BY <1>22 DEF Abandon
<1>23. ASSUME ConnBreaks PROVE NotYetServed'
  BY <1>23 DEF ConnBreaks
<1>24. ASSUME NEW c \in Caller, Request(c) PROVE NotYetServed'
  BY <1>24 DEF Request, Accepts, Goto
<1>25. ASSUME NEW c \in Caller, Upgrade(c) PROVE NotYetServed'
  BY <1>25 DEF Upgrade, Accepts, Goto
<1>26. ASSUME NEW c \in Caller, Message(c) PROVE NotYetServed'
  BY <1>26 DEF Message, Goto
<1>27. ASSUME NEW c \in Caller, BeginCheck(c) PROVE NotYetServed'
  BY <1>27 DEF BeginCheck, Accepts, Goto, Probe
<1>28. ASSUME NEW c \in Caller, MeetNil(c) PROVE NotYetServed'
  BY <1>28 DEF MeetNil, Panics, Crash, Goto
<1>29. ASSUME NEW c \in Caller, MeetNoDatabase(c) PROVE NotYetServed'
  BY <1>29 DEF MeetNoDatabase, Panics, Crash, Goto
<1>30. ASSUME NEW c \in Caller, Finish(c) PROVE NotYetServed'
  BY <1>30 DEF Finish, Goto
<1>31. ASSUME NEW c \in Caller, Ping(c) PROVE NotYetServed'
  BY <1>31 DEF Ping, ProbeEnds, Crash
<1>32. ASSUME NEW c \in Caller, AskDatabase(c) PROVE NotYetServed'
  BY <1>32 DEF AskDatabase, ProbeEnds, Crash
<1>33. ASSUME NEW c \in Caller, AskAmqp(c) PROVE NotYetServed'
  BY <1>33 DEF AskAmqp, ProbeEnds, Crash
<1>34. ASSUME NEW c \in Caller, EndCheck(c) PROVE NotYetServed'
  BY <1>34 DEF EndCheck, Goto
<1>35. ASSUME NEW c \in Caller, CheckConn(c) PROVE NotYetServed'
  BY <1>35 DEF CheckConn
<1>36. ASSUME NEW c \in Caller, Publish(c) PROVE NotYetServed'
  BY <1>36 DEF Publish
<1>37. ASSUME NEW c \in Caller, Leave(c) PROVE NotYetServed'
  BY <1>37 DEF Leave, Goto
<1>38. CASE UNCHANGED vars
  BY <1>38 DEF vars
<1>. QED
  BY <1>1, <1>2, <1>3, <1>4, <1>5, <1>6, <1>7, <1>8, <1>9, <1>10, <1>11,
     <1>12, <1>13, <1>14, <1>15, <1>16, <1>17, <1>18, <1>19, <1>20, <1>21,
     <1>22, <1>23, <1>24, <1>25, <1>26, <1>27, <1>28, <1>29, <1>30, <1>31,
     <1>32, <1>33, <1>34, <1>35, <1>36, <1>37, <1>38 DEF Next, Start, Stop,
     Handle

LEMMA AskedStep == Places /\ [Next]_vars => AskedInCheck'
<1>. SUFFICES ASSUME Places, [Next]_vars PROVE AskedInCheck'
  OBVIOUS
<1>. USE DEF Places, TypeOK, StepOfPhase, NotYetServed, AskedInCheck, procVars, serverVars, amqpVars, storeVars, watchVars, callVars
<1>1. ASSUME ConnectDatabase PROVE AskedInCheck'
  BY <1>1 DEF ConnectDatabase, Starts
<1>2. ASSUME ConnectRedis PROVE AskedInCheck'
  BY <1>2 DEF ConnectRedis, Starts
<1>3. ASSUME ConnectAmqp PROVE AskedInCheck'
  BY <1>3 DEF ConnectAmqp, Starts
<1>4. ASSUME Serve PROVE AskedInCheck'
  BY <1>4 DEF Serve, Starts
<1>5. ASSUME StartTimesOut PROVE AskedInCheck'
  BY <1>5 DEF StartTimesOut
<1>6. ASSUME Make PROVE AskedInCheck'
  BY <1>6 DEF Make
<1>7. ASSUME Listen PROVE AskedInCheck'
  BY <1>7 DEF Listen
<1>8. ASSUME Reload PROVE AskedInCheck'
  BY <1>8 DEF Reload, Caller
<1>9. ASSUME UnusableConfiguration PROVE AskedInCheck'
  BY <1>9 DEF UnusableConfiguration
<1>10. ASSUME BadConfiguration PROVE AskedInCheck'
  BY <1>10 DEF BadConfiguration, Crash
<1>11. ASSUME Signal PROVE AskedInCheck'
  BY <1>11 DEF Signal
<1>12. ASSUME ShutdownNil PROVE AskedInCheck'
  BY <1>12 DEF ShutdownNil, Crash
<1>13. ASSUME ShutdownEarly PROVE AskedInCheck'
  BY <1>13 DEF ShutdownEarly, Stops
<1>14. ASSUME ShutdownBegins PROVE AskedInCheck'
  BY <1>14 DEF ShutdownBegins, Stops
<1>15. ASSUME ShutdownEnds PROVE AskedInCheck'
  BY <1>15 DEF ShutdownEnds, Stops
<1>16. ASSUME CloseEtcd PROVE AskedInCheck'
  BY <1>16 DEF CloseEtcd, Stops
<1>17. ASSUME CloseRedis PROVE AskedInCheck'
  BY <1>17 DEF CloseRedis, Stops
<1>18. ASSUME CloseChannel PROVE AskedInCheck'
  BY <1>18 DEF CloseChannel, Stops
<1>19. ASSUME CloseConn PROVE AskedInCheck'
  BY <1>19 DEF CloseConn, Stops
<1>20. ASSUME CloseDatabase PROVE AskedInCheck'
  BY <1>20 DEF CloseDatabase, Stops
<1>21. ASSUME StopTimesOut PROVE AskedInCheck'
  BY <1>21 DEF StopTimesOut
<1>22. ASSUME Abandon PROVE AskedInCheck'
  BY <1>22 DEF Abandon
<1>23. ASSUME ConnBreaks PROVE AskedInCheck'
  BY <1>23 DEF ConnBreaks
<1>24. ASSUME NEW c \in Caller, Request(c) PROVE AskedInCheck'
  BY <1>24 DEF Request, Accepts, Goto
<1>25. ASSUME NEW c \in Caller, Upgrade(c) PROVE AskedInCheck'
  BY <1>25 DEF Upgrade, Accepts, Goto
<1>26. ASSUME NEW c \in Caller, Message(c) PROVE AskedInCheck'
  BY <1>26, CallersAssumption DEF Message, Goto
<1>27. ASSUME NEW c \in Caller, BeginCheck(c) PROVE AskedInCheck'
  BY <1>27 DEF BeginCheck, Accepts, Goto, Probe
<1>28. ASSUME NEW c \in Caller, MeetNil(c) PROVE AskedInCheck'
  BY <1>28, CallersAssumption DEF MeetNil, Panics, Crash, Goto
<1>29. ASSUME NEW c \in Caller, MeetNoDatabase(c) PROVE AskedInCheck'
  BY <1>29, CallersAssumption DEF MeetNoDatabase, Panics, Crash, Goto
<1>30. ASSUME NEW c \in Caller, Finish(c) PROVE AskedInCheck'
  BY <1>30, CallersAssumption DEF Finish, Goto
<1>31. ASSUME NEW c \in Caller, Ping(c) PROVE AskedInCheck'
  BY <1>31 DEF Ping, ProbeEnds, Crash
<1>32. ASSUME NEW c \in Caller, AskDatabase(c) PROVE AskedInCheck'
  BY <1>32 DEF AskDatabase, ProbeEnds, Crash
<1>33. ASSUME NEW c \in Caller, AskAmqp(c) PROVE AskedInCheck'
  BY <1>33 DEF AskAmqp, ProbeEnds, Crash
<1>34. ASSUME NEW c \in Caller, EndCheck(c) PROVE AskedInCheck'
  BY <1>34 DEF EndCheck, Goto
<1>35. ASSUME NEW c \in Caller, CheckConn(c) PROVE AskedInCheck'
  BY <1>35 DEF CheckConn
<1>36. ASSUME NEW c \in Caller, Publish(c) PROVE AskedInCheck'
  BY <1>36 DEF Publish
<1>37. ASSUME NEW c \in Caller, Leave(c) PROVE AskedInCheck'
  BY <1>37 DEF Leave, Goto
<1>38. CASE UNCHANGED vars
  BY <1>38 DEF vars
<1>. QED
  BY <1>1, <1>2, <1>3, <1>4, <1>5, <1>6, <1>7, <1>8, <1>9, <1>10, <1>11,
     <1>12, <1>13, <1>14, <1>15, <1>16, <1>17, <1>18, <1>19, <1>20, <1>21,
     <1>22, <1>23, <1>24, <1>25, <1>26, <1>27, <1>28, <1>29, <1>30, <1>31,
     <1>32, <1>33, <1>34, <1>35, <1>36, <1>37, <1>38 DEF Next, Start, Stop,
     Handle

LEMMA LateStep == IInv /\ [Next]_vars => ListensLate'
<1>. SUFFICES ASSUME IInv, [Next]_vars PROVE ListensLate'
  OBVIOUS
<1>. USE DEF IInv, Places, TypeOK, StepOfPhase, ListensLate, procVars, serverVars, amqpVars, storeVars, watchVars, callVars
<1>1. ASSUME ConnectDatabase PROVE ListensLate'
  BY <1>1 DEF ConnectDatabase, Starts
<1>2. ASSUME ConnectRedis PROVE ListensLate'
  BY <1>2 DEF ConnectRedis, Starts
<1>3. ASSUME ConnectAmqp PROVE ListensLate'
  BY <1>3 DEF ConnectAmqp, Starts
<1>4. ASSUME Serve PROVE ListensLate'
  BY <1>4 DEF Serve, Starts
<1>5. ASSUME StartTimesOut PROVE ListensLate'
  BY <1>5 DEF StartTimesOut
<1>6. ASSUME Make PROVE ListensLate'
  BY <1>6 DEF Make
<1>7. ASSUME Listen PROVE ListensLate'
  BY <1>7 DEF Listen
<1>8. ASSUME Reload PROVE ListensLate'
  BY <1>8 DEF Reload, Caller
<1>9. ASSUME UnusableConfiguration PROVE ListensLate'
  BY <1>9 DEF UnusableConfiguration
<1>10. ASSUME BadConfiguration PROVE ListensLate'
  BY <1>10 DEF BadConfiguration, Crash
<1>11. ASSUME Signal PROVE ListensLate'
  BY <1>11 DEF Signal
<1>12. ASSUME ShutdownNil PROVE ListensLate'
  BY <1>12 DEF ShutdownNil, Crash
<1>13. ASSUME ShutdownEarly PROVE ListensLate'
  BY <1>13 DEF ShutdownEarly, Stops
<1>14. ASSUME ShutdownBegins PROVE ListensLate'
  BY <1>14 DEF ShutdownBegins, Stops
<1>15. ASSUME ShutdownEnds PROVE ListensLate'
  BY <1>15 DEF ShutdownEnds, Stops
<1>16. ASSUME CloseEtcd PROVE ListensLate'
  BY <1>16 DEF CloseEtcd, Stops
<1>17. ASSUME CloseRedis PROVE ListensLate'
  BY <1>17 DEF CloseRedis, Stops
<1>18. ASSUME CloseChannel PROVE ListensLate'
  BY <1>18 DEF CloseChannel, Stops
<1>19. ASSUME CloseConn PROVE ListensLate'
  BY <1>19 DEF CloseConn, Stops
<1>20. ASSUME CloseDatabase PROVE ListensLate'
  BY <1>20 DEF CloseDatabase, Stops
<1>21. ASSUME StopTimesOut PROVE ListensLate'
  BY <1>21 DEF StopTimesOut
<1>22. ASSUME Abandon PROVE ListensLate'
  BY <1>22 DEF Abandon
<1>23. ASSUME ConnBreaks PROVE ListensLate'
  BY <1>23 DEF ConnBreaks
<1>24. ASSUME NEW c \in Caller, Request(c) PROVE ListensLate'
  BY <1>24 DEF Request, Accepts, Goto
<1>25. ASSUME NEW c \in Caller, Upgrade(c) PROVE ListensLate'
  BY <1>25 DEF Upgrade, Accepts, Goto
<1>26. ASSUME NEW c \in Caller, Message(c) PROVE ListensLate'
  BY <1>26 DEF Message, Goto
<1>27. ASSUME NEW c \in Caller, BeginCheck(c) PROVE ListensLate'
  BY <1>27 DEF BeginCheck, Accepts, Goto, Probe
<1>28. ASSUME NEW c \in Caller, MeetNil(c) PROVE ListensLate'
  BY <1>28 DEF MeetNil, Panics, Crash, Goto
<1>29. ASSUME NEW c \in Caller, MeetNoDatabase(c) PROVE ListensLate'
  BY <1>29 DEF MeetNoDatabase, Panics, Crash, Goto
<1>30. ASSUME NEW c \in Caller, Finish(c) PROVE ListensLate'
  BY <1>30 DEF Finish, Goto
<1>31. ASSUME NEW c \in Caller, Ping(c) PROVE ListensLate'
  BY <1>31 DEF Ping, ProbeEnds, Crash
<1>32. ASSUME NEW c \in Caller, AskDatabase(c) PROVE ListensLate'
  BY <1>32 DEF AskDatabase, ProbeEnds, Crash
<1>33. ASSUME NEW c \in Caller, AskAmqp(c) PROVE ListensLate'
  BY <1>33 DEF AskAmqp, ProbeEnds, Crash
<1>34. ASSUME NEW c \in Caller, EndCheck(c) PROVE ListensLate'
  BY <1>34 DEF EndCheck, Goto
<1>35. ASSUME NEW c \in Caller, CheckConn(c) PROVE ListensLate'
  BY <1>35 DEF CheckConn
<1>36. ASSUME NEW c \in Caller, Publish(c) PROVE ListensLate'
  BY <1>36 DEF Publish
<1>37. ASSUME NEW c \in Caller, Leave(c) PROVE ListensLate'
  BY <1>37 DEF Leave, Goto
<1>38. CASE UNCHANGED vars
  BY <1>38 DEF vars
<1>. QED
  BY <1>1, <1>2, <1>3, <1>4, <1>5, <1>6, <1>7, <1>8, <1>9, <1>10, <1>11,
     <1>12, <1>13, <1>14, <1>15, <1>16, <1>17, <1>18, <1>19, <1>20, <1>21,
     <1>22, <1>23, <1>24, <1>25, <1>26, <1>27, <1>28, <1>29, <1>30, <1>31,
     <1>32, <1>33, <1>34, <1>35, <1>36, <1>37, <1>38 DEF Next, Start, Stop,
     Handle

LEMMA CallsStep == IInv /\ [Next]_vars => ClientsOutliveCalls'
<1>. SUFFICES ASSUME IInv, [Next]_vars PROVE ClientsOutliveCalls'
  OBVIOUS
<1>. USE DEF IInv, Places, TypeOK, StepOfPhase, NotYetServed, ListensLate,
               ClientsOutliveCalls, Served, Alive, procVars, serverVars, amqpVars, storeVars, watchVars, callVars
<1>1. ASSUME ConnectDatabase PROVE ClientsOutliveCalls'
  BY <1>1 DEF ConnectDatabase, Starts
<1>2. ASSUME ConnectRedis PROVE ClientsOutliveCalls'
  BY <1>2 DEF ConnectRedis, Starts
<1>3. ASSUME ConnectAmqp PROVE ClientsOutliveCalls'
  BY <1>3 DEF ConnectAmqp, Starts
<1>4. ASSUME Serve PROVE ClientsOutliveCalls'
  BY <1>4 DEF Serve, Starts
<1>5. ASSUME StartTimesOut PROVE ClientsOutliveCalls'
  BY <1>5 DEF StartTimesOut
<1>6. ASSUME Make PROVE ClientsOutliveCalls'
  BY <1>6 DEF Make
<1>7. ASSUME Listen PROVE ClientsOutliveCalls'
  BY <1>7 DEF Listen
<1>8. ASSUME Reload PROVE ClientsOutliveCalls'
  BY <1>8 DEF Reload, Caller
<1>9. ASSUME UnusableConfiguration PROVE ClientsOutliveCalls'
  BY <1>9 DEF UnusableConfiguration
<1>10. ASSUME BadConfiguration PROVE ClientsOutliveCalls'
  BY <1>10 DEF BadConfiguration, Crash
<1>11. ASSUME Signal PROVE ClientsOutliveCalls'
  BY <1>11 DEF Signal
<1>12. ASSUME ShutdownNil PROVE ClientsOutliveCalls'
  BY <1>12 DEF ShutdownNil, Crash
<1>13. ASSUME ShutdownEarly PROVE ClientsOutliveCalls'
  BY <1>13 DEF ShutdownEarly, Stops
<1>14. ASSUME ShutdownBegins PROVE ClientsOutliveCalls'
  BY <1>14 DEF ShutdownBegins, Stops
<1>15. ASSUME ShutdownEnds PROVE ClientsOutliveCalls'
  BY <1>15 DEF ShutdownEnds, Stops
<1>16. ASSUME CloseEtcd PROVE ClientsOutliveCalls'
  BY <1>16 DEF CloseEtcd, Stops
<1>17. ASSUME CloseRedis PROVE ClientsOutliveCalls'
  BY <1>17 DEF CloseRedis, Stops
<1>18. ASSUME CloseChannel PROVE ClientsOutliveCalls'
  BY <1>18 DEF CloseChannel, Stops
<1>19. ASSUME CloseConn PROVE ClientsOutliveCalls'
  BY <1>19 DEF CloseConn, Stops
<1>20. ASSUME CloseDatabase PROVE ClientsOutliveCalls'
  BY <1>20 DEF CloseDatabase, Stops
<1>21. ASSUME StopTimesOut PROVE ClientsOutliveCalls'
  BY <1>21 DEF StopTimesOut
<1>22. ASSUME Abandon PROVE ClientsOutliveCalls'
  BY <1>22 DEF Abandon
<1>23. ASSUME ConnBreaks PROVE ClientsOutliveCalls'
  BY <1>23 DEF ConnBreaks
<1>24. ASSUME NEW c \in Caller, Request(c) PROVE ClientsOutliveCalls'
  BY <1>24 DEF Request, Accepts, Goto
<1>25. ASSUME NEW c \in Caller, Upgrade(c) PROVE ClientsOutliveCalls'
  BY <1>25 DEF Upgrade, Accepts, Goto
<1>26. ASSUME NEW c \in Caller, Message(c) PROVE ClientsOutliveCalls'
  BY <1>26, CallersAssumption DEF Message, Goto
<1>27. ASSUME NEW c \in Caller, BeginCheck(c) PROVE ClientsOutliveCalls'
  BY <1>27 DEF BeginCheck, Accepts, Goto, Probe
<1>28. ASSUME NEW c \in Caller, MeetNil(c) PROVE ClientsOutliveCalls'
  BY <1>28 DEF MeetNil, Panics, Crash, Goto
<1>29. ASSUME NEW c \in Caller, MeetNoDatabase(c) PROVE ClientsOutliveCalls'
  BY <1>29 DEF MeetNoDatabase, Panics, Crash, Goto
<1>30. ASSUME NEW c \in Caller, Finish(c) PROVE ClientsOutliveCalls'
  BY <1>30 DEF Finish, Goto
<1>31. ASSUME NEW c \in Caller, Ping(c) PROVE ClientsOutliveCalls'
  BY <1>31 DEF Ping, ProbeEnds, Crash
<1>32. ASSUME NEW c \in Caller, AskDatabase(c) PROVE ClientsOutliveCalls'
  BY <1>32 DEF AskDatabase, ProbeEnds, Crash
<1>33. ASSUME NEW c \in Caller, AskAmqp(c) PROVE ClientsOutliveCalls'
  BY <1>33 DEF AskAmqp, ProbeEnds, Crash
<1>34. ASSUME NEW c \in Caller, EndCheck(c) PROVE ClientsOutliveCalls'
  BY <1>34 DEF EndCheck, Goto
<1>35. ASSUME NEW c \in Caller, CheckConn(c) PROVE ClientsOutliveCalls'
  BY <1>35 DEF CheckConn
<1>36. ASSUME NEW c \in Caller, Publish(c) PROVE ClientsOutliveCalls'
  BY <1>36 DEF Publish
<1>37. ASSUME NEW c \in Caller, Leave(c) PROVE ClientsOutliveCalls'
  BY <1>37 DEF Leave, Goto
<1>38. CASE UNCHANGED vars
  BY <1>38 DEF vars
<1>. QED
  BY <1>1, <1>2, <1>3, <1>4, <1>5, <1>6, <1>7, <1>8, <1>9, <1>10, <1>11,
     <1>12, <1>13, <1>14, <1>15, <1>16, <1>17, <1>18, <1>19, <1>20, <1>21,
     <1>22, <1>23, <1>24, <1>25, <1>26, <1>27, <1>28, <1>29, <1>30, <1>31,
     <1>32, <1>33, <1>34, <1>35, <1>36, <1>37, <1>38 DEF Next, Start, Stop,
     Handle

LEMMA AmqpStep == IInv /\ [Next]_vars => AmqpLost'
<1>. SUFFICES ASSUME IInv, [Next]_vars PROVE AmqpLost'
  OBVIOUS
<1>. USE DEF IInv, Places, TypeOK, StepOfPhase, NotYetServed, AskedInCheck,
               ClientsOutliveCalls, AmqpLost, Served, Alive, procVars, serverVars, amqpVars, storeVars, watchVars, callVars
<1>1. ASSUME ConnectDatabase PROVE AmqpLost'
  BY <1>1 DEF ConnectDatabase, Starts
<1>2. ASSUME ConnectRedis PROVE AmqpLost'
  BY <1>2 DEF ConnectRedis, Starts
<1>3. ASSUME ConnectAmqp PROVE AmqpLost'
  BY <1>3 DEF ConnectAmqp, Starts
<1>4. ASSUME Serve PROVE AmqpLost'
  BY <1>4 DEF Serve, Starts
<1>5. ASSUME StartTimesOut PROVE AmqpLost'
  BY <1>5 DEF StartTimesOut
<1>6. ASSUME Make PROVE AmqpLost'
  BY <1>6 DEF Make
<1>7. ASSUME Listen PROVE AmqpLost'
  BY <1>7 DEF Listen
<1>8. ASSUME Reload PROVE AmqpLost'
  BY <1>8 DEF Reload, Caller
<1>9. ASSUME UnusableConfiguration PROVE AmqpLost'
  BY <1>9 DEF UnusableConfiguration
<1>10. ASSUME BadConfiguration PROVE AmqpLost'
  BY <1>10 DEF BadConfiguration, Crash
<1>11. ASSUME Signal PROVE AmqpLost'
  BY <1>11 DEF Signal
<1>12. ASSUME ShutdownNil PROVE AmqpLost'
  BY <1>12 DEF ShutdownNil, Crash
<1>13. ASSUME ShutdownEarly PROVE AmqpLost'
  BY <1>13 DEF ShutdownEarly, Stops
<1>14. ASSUME ShutdownBegins PROVE AmqpLost'
  BY <1>14 DEF ShutdownBegins, Stops
<1>15. ASSUME ShutdownEnds PROVE AmqpLost'
  BY <1>15 DEF ShutdownEnds, Stops
<1>16. ASSUME CloseEtcd PROVE AmqpLost'
  BY <1>16 DEF CloseEtcd, Stops
<1>17. ASSUME CloseRedis PROVE AmqpLost'
  BY <1>17 DEF CloseRedis, Stops
<1>18. ASSUME CloseChannel PROVE AmqpLost'
  BY <1>18 DEF CloseChannel, Stops
<1>19. ASSUME CloseConn PROVE AmqpLost'
  BY <1>19 DEF CloseConn, Stops
<1>20. ASSUME CloseDatabase PROVE AmqpLost'
  BY <1>20 DEF CloseDatabase, Stops
<1>21. ASSUME StopTimesOut PROVE AmqpLost'
  BY <1>21 DEF StopTimesOut
<1>22. ASSUME Abandon PROVE AmqpLost'
  BY <1>22 DEF Abandon
<1>23. ASSUME ConnBreaks PROVE AmqpLost'
  BY <1>23 DEF ConnBreaks
<1>24. ASSUME NEW c \in Caller, Request(c) PROVE AmqpLost'
  BY <1>24 DEF Request, Accepts, Goto
<1>25. ASSUME NEW c \in Caller, Upgrade(c) PROVE AmqpLost'
  BY <1>25 DEF Upgrade, Accepts, Goto
<1>26. ASSUME NEW c \in Caller, Message(c) PROVE AmqpLost'
  BY <1>26 DEF Message, Goto
<1>27. ASSUME NEW c \in Caller, BeginCheck(c) PROVE AmqpLost'
  BY <1>27 DEF BeginCheck, Accepts, Goto, Probe
<1>28. ASSUME NEW c \in Caller, MeetNil(c) PROVE AmqpLost'
  BY <1>28 DEF MeetNil, Panics, Crash, Goto
<1>29. ASSUME NEW c \in Caller, MeetNoDatabase(c) PROVE AmqpLost'
  BY <1>29 DEF MeetNoDatabase, Panics, Crash, Goto
<1>30. ASSUME NEW c \in Caller, Finish(c) PROVE AmqpLost'
  BY <1>30 DEF Finish, Goto
<1>31. ASSUME NEW c \in Caller, Ping(c) PROVE AmqpLost'
  BY <1>31 DEF Ping, ProbeEnds, Crash
<1>32. ASSUME NEW c \in Caller, AskDatabase(c) PROVE AmqpLost'
  BY <1>32 DEF AskDatabase, ProbeEnds, Crash
<1>33. ASSUME NEW c \in Caller, AskAmqp(c) PROVE AmqpLost'
  BY <1>33 DEF AskAmqp, ProbeEnds, Crash
<1>34. ASSUME NEW c \in Caller, EndCheck(c) PROVE AmqpLost'
  BY <1>34 DEF EndCheck, Goto
<1>35. ASSUME NEW c \in Caller, CheckConn(c) PROVE AmqpLost'
  BY <1>35 DEF CheckConn
<1>36. ASSUME NEW c \in Caller, Publish(c) PROVE AmqpLost'
  BY <1>36 DEF Publish
<1>37. ASSUME NEW c \in Caller, Leave(c) PROVE AmqpLost'
  BY <1>37 DEF Leave, Goto
<1>38. CASE UNCHANGED vars
  BY <1>38 DEF vars
<1>. QED
  BY <1>1, <1>2, <1>3, <1>4, <1>5, <1>6, <1>7, <1>8, <1>9, <1>10, <1>11,
     <1>12, <1>13, <1>14, <1>15, <1>16, <1>17, <1>18, <1>19, <1>20, <1>21,
     <1>22, <1>23, <1>24, <1>25, <1>26, <1>27, <1>28, <1>29, <1>30, <1>31,
     <1>32, <1>33, <1>34, <1>35, <1>36, <1>37, <1>38 DEF Next, Start, Stop,
     Handle

LEMMA CrashStep == IInv /\ [Next]_vars => CrashesExplained'
<1>. SUFFICES ASSUME IInv, [Next]_vars PROVE CrashesExplained'
  OBVIOUS
<1>. USE DEF IInv, Places, TypeOK, AmqpLost, CrashesExplained, Alive, procVars, serverVars, amqpVars, storeVars, watchVars, callVars
<1>1. ASSUME ConnectDatabase PROVE CrashesExplained'
  BY <1>1 DEF ConnectDatabase, Starts
<1>2. ASSUME ConnectRedis PROVE CrashesExplained'
  BY <1>2 DEF ConnectRedis, Starts
<1>3. ASSUME ConnectAmqp PROVE CrashesExplained'
  BY <1>3 DEF ConnectAmqp, Starts
<1>4. ASSUME Serve PROVE CrashesExplained'
  BY <1>4 DEF Serve, Starts
<1>5. ASSUME StartTimesOut PROVE CrashesExplained'
  BY <1>5 DEF StartTimesOut
<1>6. ASSUME Make PROVE CrashesExplained'
  BY <1>6 DEF Make
<1>7. ASSUME Listen PROVE CrashesExplained'
  BY <1>7 DEF Listen
<1>8. ASSUME Reload PROVE CrashesExplained'
  BY <1>8 DEF Reload, Caller
<1>9. ASSUME UnusableConfiguration PROVE CrashesExplained'
  BY <1>9 DEF UnusableConfiguration
<1>10. ASSUME BadConfiguration PROVE CrashesExplained'
  BY <1>10 DEF BadConfiguration, Crash
<1>11. ASSUME Signal PROVE CrashesExplained'
  BY <1>11 DEF Signal
<1>12. ASSUME ShutdownNil PROVE CrashesExplained'
  BY <1>12 DEF ShutdownNil, Crash
<1>13. ASSUME ShutdownEarly PROVE CrashesExplained'
  BY <1>13 DEF ShutdownEarly, Stops
<1>14. ASSUME ShutdownBegins PROVE CrashesExplained'
  BY <1>14 DEF ShutdownBegins, Stops
<1>15. ASSUME ShutdownEnds PROVE CrashesExplained'
  BY <1>15 DEF ShutdownEnds, Stops
<1>16. ASSUME CloseEtcd PROVE CrashesExplained'
  BY <1>16 DEF CloseEtcd, Stops
<1>17. ASSUME CloseRedis PROVE CrashesExplained'
  BY <1>17 DEF CloseRedis, Stops
<1>18. ASSUME CloseChannel PROVE CrashesExplained'
  BY <1>18 DEF CloseChannel, Stops
<1>19. ASSUME CloseConn PROVE CrashesExplained'
  BY <1>19 DEF CloseConn, Stops
<1>20. ASSUME CloseDatabase PROVE CrashesExplained'
  BY <1>20 DEF CloseDatabase, Stops
<1>21. ASSUME StopTimesOut PROVE CrashesExplained'
  BY <1>21 DEF StopTimesOut
<1>22. ASSUME Abandon PROVE CrashesExplained'
  BY <1>22 DEF Abandon
<1>23. ASSUME ConnBreaks PROVE CrashesExplained'
  BY <1>23 DEF ConnBreaks
<1>24. ASSUME NEW c \in Caller, Request(c) PROVE CrashesExplained'
  BY <1>24 DEF Request, Accepts, Goto
<1>25. ASSUME NEW c \in Caller, Upgrade(c) PROVE CrashesExplained'
  BY <1>25 DEF Upgrade, Accepts, Goto
<1>26. ASSUME NEW c \in Caller, Message(c) PROVE CrashesExplained'
  BY <1>26 DEF Message, Goto
<1>27. ASSUME NEW c \in Caller, BeginCheck(c) PROVE CrashesExplained'
  BY <1>27 DEF BeginCheck, Accepts, Goto, Probe
<1>28. ASSUME NEW c \in Caller, MeetNil(c) PROVE CrashesExplained'
  BY <1>28 DEF MeetNil, Panics, Crash, Goto
<1>29. ASSUME NEW c \in Caller, MeetNoDatabase(c) PROVE CrashesExplained'
  BY <1>29 DEF MeetNoDatabase, Panics, Crash, Goto
<1>30. ASSUME NEW c \in Caller, Finish(c) PROVE CrashesExplained'
  BY <1>30 DEF Finish, Goto
<1>31. ASSUME NEW c \in Caller, Ping(c) PROVE CrashesExplained'
  BY <1>31 DEF Ping, ProbeEnds, Crash
<1>32. ASSUME NEW c \in Caller, AskDatabase(c) PROVE CrashesExplained'
  BY <1>32 DEF AskDatabase, ProbeEnds, Crash
<1>33. ASSUME NEW c \in Caller, AskAmqp(c) PROVE CrashesExplained'
  BY <1>33 DEF AskAmqp, ProbeEnds, Crash
<1>34. ASSUME NEW c \in Caller, EndCheck(c) PROVE CrashesExplained'
  BY <1>34 DEF EndCheck, Goto
<1>35. ASSUME NEW c \in Caller, CheckConn(c) PROVE CrashesExplained'
  BY <1>35 DEF CheckConn
<1>36. ASSUME NEW c \in Caller, Publish(c) PROVE CrashesExplained'
  BY <1>36 DEF Publish
<1>37. ASSUME NEW c \in Caller, Leave(c) PROVE CrashesExplained'
  BY <1>37 DEF Leave, Goto
<1>38. CASE UNCHANGED vars
  BY <1>38 DEF vars
<1>. QED
  BY <1>1, <1>2, <1>3, <1>4, <1>5, <1>6, <1>7, <1>8, <1>9, <1>10, <1>11,
     <1>12, <1>13, <1>14, <1>15, <1>16, <1>17, <1>18, <1>19, <1>20, <1>21,
     <1>22, <1>23, <1>24, <1>25, <1>26, <1>27, <1>28, <1>29, <1>30, <1>31,
     <1>32, <1>33, <1>34, <1>35, <1>36, <1>37, <1>38 DEF Next, Start, Stop,
     Handle

LEMMA InvStep == IInv /\ [Next]_vars => IInv'
<1>. SUFFICES ASSUME IInv, [Next]_vars PROVE IInv'
  OBVIOUS
<1>1. Places'
  BY TypeStep, PhaseStep, ChannelStep, ServedStep, AskedStep DEF IInv, Places
<1>. QED
  BY <1>1, LateStep, CallsStep, AmqpStep, CrashStep DEF IInv

LEMMA Invariance == Spec => []IInv
  BY InvInit, InvStep, PTL DEF Spec

-----------------------------------------------------------------------------
(* Theorems                                                                *)

\* The types of the state, and that no channel is left without its
\* connection, whatever fails at the start and in whatever order the stop
\* meets the calls.
THEOREM TypeCorrect == Spec => []TypeOK
<1>1. IInv => TypeOK
  BY DEF IInv, Places
<1>. QED
  BY <1>1, Invariance, PTL

\* OnStop closes no client under a request or a check, unless it has waited
\* for StopTimeout or the server listened too late to be shut down.
THEOREM CallsOutlived == Spec => []ClientsOutliveCalls
<1>1. IInv => ClientsOutliveCalls
  BY DEF IInv
<1>. QED
  BY <1>1, Invariance, PTL

\* A panic that ends the process has one of the causes CrashesExplained
\* lists.
THEOREM CrashesHaveCauses == Spec => []CrashesExplained
<1>1. IInv => CrashesExplained
  BY DEF IInv
<1>. QED
  BY <1>1, Invariance, PTL
=============================================================================
