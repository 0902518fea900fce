------------------------------ MODULE Lifecycle ------------------------------
(***************************************************************************)
(* The life of one process of the proxy: the start hook, which goes on     *)
(* without a client it cannot connect, the goroutine that serves, the      *)
(* watcher, and the stop hook, which shuts the server down and closes the  *)
(* clients; and what all this does to those who call: HTTP requests,       *)
(* WebSocket connections, whose calls no one recovers, and health checks,  *)
(* whose three probes are goroutines of their own.                         *)
(*                                                                         *)
(* A client is a pointer here: "none" is nil, and using it panics.  What   *)
(* a call asks and is answered is in the other modules.  Prefork mode is   *)
(* left out.                                                               *)
(***************************************************************************)
EXTENDS FiniteSets

CONSTANTS Http, Ws, Check  \* requests, WebSocket connections, health checks

ASSUME CallersAssumption ==
    /\ Http \intersect Ws = {} /\ Http \intersect Check = {}
    /\ Ws \intersect Check = {}

VARIABLES
    phase,    \* of the process
    step,     \* where its start or stop hook is
    server,   \* where the goroutine is that serves, or what Shutdown made of it
    db,       \* database.DB
    redis,    \* redis.Client
    conn,     \* amqp.Conn
    channel,  \* amqp.Channel
    watch,    \* the watcher's goroutine
    pc,       \* where each caller is
    asks,     \* the probes a health check waits for
    report,   \* the goroutine that publishes a call, if there is one
    overdue,  \* the stop has taken longer than StopTimeout
    late,     \* history: the server began to listen after Shutdown
    bad,      \* history: a configuration that is not YAML arrived
    purged    \* history: callers that were served during a reload

procVars   == <<phase, step, overdue>>
serverVars == <<server, late>>
amqpVars   == <<conn, channel>>
storeVars  == <<db, redis>>
watchVars  == <<watch, bad, purged>>
callVars   == <<pc, asks, report>>
vars == <<procVars, serverVars, amqpVars, storeVars, watchVars, callVars>>

Caller == Http \union Ws \union Check
Probe  == {"redis", "database", "amqp"}
Alive  == phase \in {"starting", "up", "stopping"}
StartSteps == {"database", "redis", "amqp", "watch"}
StopSteps  == {"server", "waiting", "etcd", "redis", "channel", "conn",
               "database"}

Init ==
    /\ phase = "starting" /\ step = "database"
    /\ server = "none" /\ db = "none" /\ redis = "none"
    /\ conn = "none" /\ channel = "none" /\ watch = "none"
    /\ pc     = [c \in Caller |-> "out"]
    /\ asks   = [c \in Caller |-> {}]
    /\ report = [c \in Caller |-> "none"]
    /\ overdue = FALSE /\ late = FALSE /\ bad = FALSE /\ purged = {}

Goto(c, place) == pc' = [pc EXCEPT ![c] = place]

\* A panic that no one recovers.
Crash == phase' = "crashed" /\ UNCHANGED <<step, overdue>>

-----------------------------------------------------------------------------
(* OnStart: an error of Connect is logged, and the hook goes on.           *)

Starts(here, next) ==
    /\ phase = "starting" /\ step = here
    /\ step' = next
    /\ UNCHANGED <<overdue, late, bad, purged, callVars>>

\* A database that cannot be opened stays nil; one that cannot be migrated
\* is used as it is.
ConnectDatabase ==
    /\ Starts("database", "redis")
    /\ db' \in {"none", "open"}
    /\ UNCHANGED <<phase, server, redis, amqpVars, watch>>

\* A URL that cannot be parsed leaves no client, one that does not answer
\* leaves one that may work later.
ConnectRedis ==
    /\ Starts("redis", "amqp")
    /\ redis' \in {"none", "open"}
    /\ UNCHANGED <<phase, server, db, amqpVars, watch>>

\* No URL or no connection; no channel; or both, even if the exchange could
\* not be declared.
ConnectAmqp ==
    /\ Starts("amqp", "watch")
    /\ conn' \in {"none", "open"} /\ channel' \in {"none", conn'}
    /\ UNCHANGED <<phase, server, db, redis, watch>>

\* Watch, if a configuration key is set, and serve.
Serve ==
    /\ Starts("watch", "server")
    /\ watch' \in {"none", "watching"}
    /\ server' = "starting"
    /\ phase'  = "up"
    /\ UNCHANGED <<db, redis, amqpVars>>

\* fx gives up on a start that takes longer than StartTimeout.
StartTimesOut ==
    /\ phase = "starting"
    /\ phase' = "exited"
    /\ UNCHANGED <<step, overdue, serverVars, amqpVars, storeVars, watchVars,
                   callVars>>

-----------------------------------------------------------------------------
(* The goroutine that serves.                                              *)

\* Run, once the routes are registered, makes the server ...
Make ==
    /\ Alive /\ server = "starting"
    /\ server' = "made"
    /\ UNCHANGED <<procVars, late, amqpVars, storeVars, watchVars, callVars>>

\* ... and listens.  Shutdown has no effect on a server that does not.
Listen ==
    /\ Alive /\ server = "made"
    /\ server' \in {"listening", "failed"}
    /\ late'   = (server' = "listening" /\ phase = "stopping" /\ step # "server")
    /\ UNCHANGED <<procVars, amqpVars, storeVars, watchVars, callVars>>

-----------------------------------------------------------------------------
(* The watcher.                                                            *)

\* A new configuration; a call that had its list of endpoints before the
\* purge may find a nil in it (EndpointRegistry).
Reload ==
    /\ Alive /\ watch = "watching"
    /\ purged' = purged \union {c \in Http \union Ws : pc[c] = "handling"}
    /\ UNCHANGED <<procVars, serverVars, amqpVars, storeVars, watch, bad,
                   callVars>>

\* One that is YAML but no list of chains: the handler panics, and the watch
\* has ended for good.
UnusableConfiguration ==
    /\ Alive /\ watch = "watching"
    /\ watch' = "none"
    /\ UNCHANGED <<procVars, serverVars, amqpVars, storeVars, bad, purged,
                   callVars>>

\* Fatal: the process exits, and nothing is closed.
BadConfiguration ==
    /\ Alive /\ watch = "watching"
    /\ bad' = TRUE
    /\ Crash
    /\ UNCHANGED <<serverVars, amqpVars, storeVars, watch, purged, callVars>>

-----------------------------------------------------------------------------
(* Calls.                                                                  *)

\* A connection accepted before the shutdown may still bring a request.
Accepts ==
    /\ Alive
    /\ server = "listening" \/ (server = "closed" /\ (step = "waiting" \/ overdue))

\* A request reaches HandleCall.
Request(c) ==
    /\ Accepts /\ c \in Http /\ pc[c] = "out"
    /\ Goto(c, "handling")
    /\ UNCHANGED <<procVars, serverVars, amqpVars, storeVars, watchVars, asks,
                   report>>

\* A connection is upgraded, and the server no longer counts it.
Upgrade(c) ==
    /\ Accepts /\ c \in Ws /\ pc[c] = "out"
    /\ Goto(c, "connected")
    /\ UNCHANGED <<procVars, serverVars, amqpVars, storeVars, watchVars, asks,
                   report>>

\* A message.  Bound: one goroutine that publishes for each connection.
Message(c) ==
    /\ Alive /\ c \in Ws /\ pc[c] = "connected" /\ report[c] = "none"
    /\ Goto(c, "handling")
    /\ UNCHANGED <<procVars, serverVars, amqpVars, storeVars, watchVars, asks,
                   report>>

\* The router recovers a panic of a request's handler; a connection's runs
\* on the goroutine that the upgrade left it.
Panics(c) ==
    IF c \in Http THEN Goto(c, "done") /\ UNCHANGED procVars
                  ELSE Crash /\ UNCHANGED pc

\* A nil among the endpoints; or redis is asked, for the balance or a cached
\* result, and there is no client.  A client that is closed gives an error.
MeetNil(c) ==
    /\ Alive /\ c \in Http \union Ws /\ pc[c] = "handling"
    /\ c \in purged \/ redis = "none"
    /\ Panics(c)
    /\ UNCHANGED <<serverVars, amqpVars, storeVars, watchVars, asks, report>>

\* The tenant is read from the database, which only requests do.
MeetNoDatabase(c) ==
    /\ Alive /\ c \in Http /\ pc[c] = "handling" /\ db = "none"
    /\ Panics(c)
    /\ UNCHANGED <<serverVars, amqpVars, storeVars, watchVars, asks, report>>

\* The handler is done; a goroutine publishes the call.
Finish(c) ==
    /\ Alive /\ c \in Http \union Ws /\ pc[c] = "handling"
    /\ Goto(c, IF c \in Ws THEN "connected" ELSE "done")
    /\ report' = [report EXCEPT ![c] =
                     IF conn = "none" THEN "none" ELSE "checking"]
    /\ UNCHANGED <<procVars, serverVars, amqpVars, storeVars, watchVars, asks>>

\* publish() looks at the connection: it is open, it is closed, or it has
\* become nil, and the goroutine recovers.
CheckConn(c) ==
    /\ Alive /\ report[c] = "checking"
    /\ report' = [report EXCEPT ![c] =
                     IF conn = "open" THEN "publishing" ELSE "none"]
    /\ UNCHANGED <<procVars, serverVars, amqpVars, storeVars, watchVars, pc,
                   asks>>

\* Mutant: the goroutine does not recover.
PublishUnrecovered(c) ==
    /\ Alive /\ report[c] = "publishing"
    /\ report' = [report EXCEPT ![c] = "none"]
    /\ IF channel = "none" THEN Crash ELSE UNCHANGED procVars
    /\ UNCHANGED <<serverVars, amqpVars, storeVars, watchVars, pc, asks>>

\* It uses the channel, which may be nil: then, too, it recovers.
Publish(c) ==
    /\ Alive /\ report[c] = "publishing"
    /\ report' = [report EXCEPT ![c] = "none"]
    /\ UNCHANGED <<procVars, serverVars, amqpVars, storeVars, watchVars, pc,
                   asks>>

\* The peer closes, or is gone.
Leave(c) ==
    /\ Alive /\ c \in Ws /\ pc[c] = "connected"
    /\ Goto(c, "done")
    /\ UNCHANGED <<procVars, serverVars, amqpVars, storeVars, watchVars, asks,
                   report>>

-----------------------------------------------------------------------------
(* HandleK8sHealthz.                                                       *)

BeginCheck(c) ==
    /\ Accepts /\ c \in Check /\ pc[c] = "out"
    /\ asks' = [asks EXCEPT ![c] =
                   {"redis", "database"} \union
                   (IF conn = "none" THEN {} ELSE {"amqp"})]
    /\ Goto(c, "handling")
    /\ UNCHANGED <<procVars, serverVars, amqpVars, storeVars, watchVars, report>>

\* A probe ends; nobody recovers it if its client is nil.
ProbeEnds(c, p, client) ==
    /\ Alive /\ p \in asks[c]
    /\ asks' = [asks EXCEPT ![c] = @ \ {p}]
    /\ IF client = "none" THEN Crash ELSE UNCHANGED procVars
    /\ UNCHANGED <<serverVars, amqpVars, storeVars, watchVars, pc, report>>

\* Mutant: the ping has no deadline, and redis does not answer.
PingUntimed(c) == redis # "open" /\ ProbeEnds(c, "redis", redis)

\* The ping is answered, or is given up after three seconds.
Ping(c) == ProbeEnds(c, "redis", redis)

\* Raw() builds a statement and does not run it.
AskDatabase(c) == ProbeEnds(c, "database", db)

AskAmqp(c) == ProbeEnds(c, "amqp", conn)

EndCheck(c) ==
    /\ Alive /\ c \in Check /\ pc[c] = "handling" /\ asks[c] = {}
    /\ Goto(c, "done")
    /\ UNCHANGED <<procVars, serverVars, amqpVars, storeVars, watchVars, asks,
                   report>>

-----------------------------------------------------------------------------
(* OnStop.                                                                 *)

\* A signal; one that comes earlier waits for the start.
Signal ==
    /\ phase = "up"
    /\ phase' = "stopping"
    /\ UNCHANGED <<step, overdue, serverVars, amqpVars, storeVars, watchVars,
                   callVars>>

Stops(here, next) ==
    /\ phase = "stopping" /\ step = here
    /\ step' = next
    /\ UNCHANGED <<overdue, late, db, bad, purged, callVars>>

\* Run has not made the server yet.
ShutdownNil ==
    /\ phase = "stopping" /\ step = "server" /\ server = "starting"
    /\ Crash
    /\ UNCHANGED <<serverVars, amqpVars, storeVars, watchVars, callVars>>

\* The server does not listen, not yet or not at all.
ShutdownEarly ==
    /\ Stops("server", "etcd") /\ server \in {"made", "failed"}
    /\ UNCHANGED <<phase, server, redis, amqpVars, watch>>

ShutdownBegins ==
    /\ Stops("server", "waiting") /\ server = "listening"
    /\ server' = "closed"
    /\ UNCHANGED <<phase, redis, amqpVars, watch>>

\* The connections that the server counts.
Served(c) == c \in Http \union Check /\ pc[c] = "handling"

\* Mutant: the listener is closed, and no connection waited for.
ShutdownAtOnce ==
    /\ Stops("waiting", "etcd")
    /\ UNCHANGED <<phase, server, redis, amqpVars, watch>>

\* It waits for them, or for the context of the hook.
ShutdownEnds ==
    /\ Stops("waiting", "etcd")
    /\ overdue \/ \A c \in Caller : ~Served(c)
    /\ UNCHANGED <<phase, server, redis, amqpVars, watch>>

\* With the client the watch ends, and the goroutine with it.
CloseEtcd ==
    /\ Stops("etcd", "redis")
    /\ watch' = "none"
    /\ UNCHANGED <<phase, server, redis, amqpVars>>

CloseRedis ==
    /\ Stops("redis", "channel")
    /\ redis' = IF redis = "open" THEN "closed" ELSE redis
    /\ UNCHANGED <<phase, server, amqpVars, watch>>

\* Mutant: the connection is dropped first.
CloseConnFirst ==
    /\ Stops("channel", "conn")
    /\ conn' = "none"
    /\ UNCHANGED <<phase, server, redis, channel, watch>>

CloseChannel ==
    /\ Stops("channel", "conn")
    /\ channel' = "none"
    /\ UNCHANGED <<phase, server, redis, conn, watch>>

CloseConn ==
    /\ Stops("conn", "database")
    /\ conn' = "none"
    /\ UNCHANGED <<phase, server, redis, channel, watch>>

\* Close() returns before it closes anything; the hook ends, and main.
CloseDatabase ==
    /\ Stops("database", "database")
    /\ phase' = "exited"
    /\ UNCHANGED <<server, redis, amqpVars, watch>>

StopTimesOut ==
    /\ phase = "stopping" /\ ~overdue
    /\ overdue' = TRUE
    /\ UNCHANGED <<phase, step, serverVars, amqpVars, storeVars, watchVars,
                   callVars>>

\* fx no longer waits for the hook.
Abandon ==
    /\ phase = "stopping" /\ overdue
    /\ phase' = "exited"
    /\ UNCHANGED <<step, overdue, serverVars, amqpVars, storeVars, watchVars,
                   callVars>>

-----------------------------------------------------------------------------
\* The broker, or the network, drops the connection.
ConnBreaks ==
    /\ Alive /\ conn = "open"
    /\ conn' = "broken"
    /\ UNCHANGED <<procVars, serverVars, channel, storeVars, watchVars, callVars>>

-----------------------------------------------------------------------------
Start == ConnectDatabase \/ ConnectRedis \/ ConnectAmqp \/ Serve

Stop ==
    \/ ShutdownNil \/ ShutdownEarly \/ ShutdownBegins \/ ShutdownEnds
    \/ CloseEtcd \/ CloseRedis \/ CloseChannel \/ CloseConn \/ CloseDatabase

Handle(c) ==
    \/ MeetNil(c) \/ MeetNoDatabase(c) \/ Finish(c)
    \/ Ping(c) \/ AskDatabase(c) \/ AskAmqp(c) \/ EndCheck(c)

Next ==
    \/ Start \/ StartTimesOut \/ Make \/ Listen \/ Reload
    \/ UnusableConfiguration \/ BadConfiguration
    \/ Signal \/ Stop \/ StopTimesOut \/ Abandon
    \/ ConnBreaks
    \/ \E c \in Caller :
          \/ Request(c) \/ Upgrade(c) \/ Message(c) \/ BeginCheck(c)
          \/ Handle(c) \/ CheckConn(c) \/ Publish(c) \/ Leave(c)

\* The hook and the handlers run: a handler has a deadline of its own
\* (RetryLoop), a probe too.  Nothing is assumed of the peers, of
\* the broker or of the stop's timeout.
Fairness ==
    /\ WF_vars(Stop)
    /\ \A c \in Caller : WF_vars(Finish(c)) /\ WF_vars(EndCheck(c))
    /\ \A c \in Caller : /\ WF_vars(Ping(c)) /\ WF_vars(AskDatabase(c))
                         /\ WF_vars(AskAmqp(c))

Spec == Init /\ [][Next]_vars /\ Fairness

-----------------------------------------------------------------------------
(* Properties                                                              *)

\* A channel belongs to a connection: Close lets go of it first.
TypeOK ==
    /\ phase   \in {"starting", "up", "stopping", "exited", "crashed"}
    /\ step    \in StartSteps \union StopSteps
    /\ server  \in {"none", "starting", "made", "listening", "failed", "closed"}
    /\ db      \in {"none", "open"}
    /\ redis   \in {"none", "open", "closed"}
    /\ conn    \in {"none", "open", "broken"}
    /\ channel \in {"none", "open"} /\ (channel = "open" => conn # "none")
    /\ watch   \in {"none", "watching"}
    /\ pc      \in [Caller -> {"out", "connected", "handling", "done"}]
    /\ asks    \in [Caller -> SUBSET Probe]
    /\ report  \in [Caller -> {"none", "checking", "publishing"}]
    /\ overdue \in BOOLEAN /\ late \in BOOLEAN /\ bad \in BOOLEAN
    /\ purged  \in SUBSET (Http \union Ws)

\* The stop comes to closing the clients while a request or a check is under
\* way only if it has waited for the whole of StopTimeout, or if the server
\* began to listen after it had been told to shut down.
ClientsOutliveCalls ==
    phase = "stopping" /\ step \notin {"server", "waiting"} =>
        overdue \/ late \/ \A c \in Caller : ~Served(c)

\* A process that found its stores and whose server was made before the
\* stop dies of a malformed configuration; of a WebSocket call that was under
\* way during a reload; or of a check whose amqp connection the stop closed,
\* by what ClientsOutliveCalls allows.  No other panic gets that far.
CrashesExplained ==
    phase = "crashed" =>
        \/ bad
        \/ db = "none" \/ redis = "none" \/ server = "starting"
        \/ purged \intersect Ws # {}
        \/ conn = "none" /\ (overdue \/ late)

\* A stop ends without its timeout: all that Shutdown waits for ends.
StopEnds == phase = "stopping" ~> phase \in {"exited", "crashed"}
=============================================================================
