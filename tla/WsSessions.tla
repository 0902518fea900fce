----------------------------- MODULE WsSessions -----------------------------
(***************************************************************************)
(* One upstream WebSocket client (internal/core/endpoint/                  *)
(* websocket_client.go): callers write their requests on one shared        *)
(* connection and wait on a channel of their own; a reader goroutine per   *)
(* connection hands every response to the channel registered under the     *)
(* key of the response's ids.                                              *)
(*                                                                         *)
(* A call is identified with the unbuffered channel it makes, since it     *)
(* makes exactly one.  A link is one dialled connection, numbered in the   *)
(* order of dialling.  A session key is abstract: KeyOf gives the key of   *)
(* the ids a call carries, and two calls may carry the same ids.           *)
(***************************************************************************)
EXTENDS Integers

CONSTANTS
    Call,       \* invocations of websocketClient.request, one each
    Key,        \* session keys
    KeyOf,      \* the key of a call's ids
    Deadline,   \* the calls whose context has a deadline
    Recovered,  \* the calls of HandleCall: the router recovers their panics
    NoCall,     \* no session, no channel, the free mutex
    MaxLink     \* bound: connections dialled in a behaviour

ASSUME CallAssumption ==
    NoCall \notin Call /\ Deadline \subseteq Call /\ Recovered \subseteq Deadline
ASSUME KeyAssumption  == KeyOf \in [Call -> Key]
ASSUME LinkAssumption == MaxLink \in Nat \ {0}

Link   == 1 .. MaxLink
NoLink == 0                           \* e.conn == nil

VARIABLES
    pc,         \* where each call is in request()
    outcome,    \* what request() is going to return
    got,        \* the call whose response was returned
    grabbed,    \* the channel the deferred clean-up loaded from sessions
    sess,       \* e.sessions: session key -> channel
    closed,     \* the channels that have been closed
    mu,         \* e.mu: its holder across steps, or NoCall
    conn,       \* e.conn
    dialed,     \* connections opened so far
    status,     \* link -> state of the connection
    hooked,     \* links with the reconnecting close handler installed
    upstream,   \* link -> requests the upstream has yet to answer
    reader,     \* link -> state of its background() goroutine
    target,     \* link -> the channel the reader is sending to
    carried,    \* link -> the call whose response the reader is sending
    old,        \* link -> oldConn of its close handler
    fresh,      \* link -> what its close handler dialled
    health,     \* the endpoint's Health attribute
    down        \* a panic nothing recovers took the process down

callVars   == <<pc, outcome, got, grabbed>>
chanVars   == <<sess, closed>>
linkVars   == <<dialed, status, hooked, upstream>>
readerVars == <<reader, target, carried>>
hookVars   == <<old, fresh>>
netVars    == <<conn, linkVars, readerVars, hookVars, health>>
vars       == <<callVars, chanVars, mu, netVars, down>>

Steps    == {"idle", "writing", "waiting", "relock", "redialing",
             "rewriting", "rewaiting", "leaving", "deleting", "closing",
             "done"}
Failures == {"timeout", "connection", "request", "panic"}
Outcomes == {"none", "answer"} \union Failures
Statuses == {"unopened", "open", "cut", "pipe", "shut"}
Readers  == {"none", "reading", "sending", "dialing", "installing", "dead"}

\* NewWebSocketClient returned a client: link 1 is open and being read.
Init ==
    /\ pc       = [c \in Call |-> "idle"]
    /\ outcome  = [c \in Call |-> "none"]
    /\ got      = [c \in Call |-> NoCall]
    /\ grabbed  = [c \in Call |-> NoCall]
    /\ sess     = [k \in Key |-> NoCall]
    /\ closed   = {}
    /\ mu       = NoCall
    /\ conn     = 1
    /\ dialed   = 1
    /\ status   = [l \in Link |-> IF l = 1 THEN "open" ELSE "unopened"]
    /\ hooked   = {1}
    /\ upstream = [l \in Link |-> {}]
    /\ reader   = [l \in Link |-> IF l = 1 THEN "reading" ELSE "none"]
    /\ target   = [l \in Link |-> NoCall]
    /\ carried  = [l \in Link |-> NoCall]
    /\ old      = [l \in Link |-> NoLink]
    /\ fresh    = [l \in Link |-> NoLink]
    /\ health   = TRUE
    /\ down     = FALSE

\* Where a goroutine is, while the process is up.
At(c, step)     == ~down /\ pc[c] = step
Reader(l, step) == ~down /\ reader[l] = step

\* Mutant: whichever session is there, not the one under the ids.
AnySession(c) ==
    LET live == {k \in Key : sess[k] # NoCall}
    IN  IF live = {} THEN NoCall ELSE sess[CHOOSE k \in live : TRUE]

\* sessions.Load of the key of c's ids.
Session(c) == sess[KeyOf[c]]

-----------------------------------------------------------------------------
(* _connect: dialling opens the next link and starts its reader, or fails; *)
(* the deferred Update stores the result as the endpoint's health.         *)

Connected(rdr) ==
    /\ dialed < MaxLink
    /\ dialed' = dialed + 1
    /\ status' = [status EXCEPT ![dialed + 1] = "open"]
    /\ reader' = [rdr EXCEPT ![dialed + 1] = "reading"]
    /\ health' = TRUE

\* Mutant: a dial is healthy until proved otherwise.
RefusedHealthy(rdr) ==
    /\ reader' = rdr
    /\ health' = TRUE
    /\ UNCHANGED <<dialed, status>>

Refused(rdr) ==
    /\ reader' = rdr
    /\ health' = FALSE
    /\ UNCHANGED <<dialed, status>>

-----------------------------------------------------------------------------
(* request(): the caller's side.                                           *)

Leave(c, why) ==
    /\ pc' = [pc EXCEPT ![c] = "leaving"]
    /\ outcome' = [outcome EXCEPT ![c] = why]

Goto(c, step) == pc' = [pc EXCEPT ![c] = step] /\ UNCHANGED outcome

\* The connection is nil: fail before the clean-up is deferred.
EnterNoConn(c) ==
    /\ At(c, "idle") /\ conn = NoLink
    /\ pc' = [pc EXCEPT ![c] = "done"]
    /\ outcome' = [outcome EXCEPT ![c] = "connection"]
    /\ UNCHANGED <<got, grabbed, chanVars, mu, netVars, down>>

\* Make the channel and store it, over whatever the key had.
Enter(c) ==
    /\ At(c, "idle") /\ conn # NoLink
    /\ sess' = [sess EXCEPT ![KeyOf[c]] = c]
    /\ Goto(c, "writing")
    /\ UNCHANGED <<got, grabbed, closed, mu, netVars, down>>

\* The outcomes of conn.WriteMessage on a non-nil connection.  A connection
\* the peer has cut takes bytes that go nowhere until a write fails; gorilla
\* then returns the same error for every later write.
Sent(c) ==
    \/ /\ status[conn] = "open"
       /\ upstream' = [upstream EXCEPT ![conn] = @ \union {c}]
       /\ UNCHANGED status
    \/ /\ status[conn] = "cut"
       /\ UNCHANGED <<upstream, status>>

WriteFailed(error) ==
    /\ status[conn] \in {"cut", error}
    /\ status' = [status EXCEPT ![conn] = error]
    /\ UNCHANGED upstream

\* Mutant: a write that succeeded is taken for one that failed.
WriteTwice(c) ==
    /\ At(c, "writing") /\ mu = NoCall /\ conn # NoLink
    /\ Sent(c) /\ Goto(c, "relock")
    /\ UNCHANGED <<got, grabbed, chanVars, mu, conn, dialed, hooked,
                   readerVars, hookVars, health, down>>

\* Lock, write, unlock; then wait for the answer, reconnect, or give up.
Write(c) ==
    /\ At(c, "writing") /\ mu = NoCall /\ conn # NoLink
    /\ \/ Sent(c) /\ Goto(c, "waiting")
       \/ WriteFailed("pipe") /\ Goto(c, "relock")
       \/ WriteFailed("shut") /\ Leave(c, "request")
    /\ UNCHANGED <<got, grabbed, chanVars, mu, conn, dialed, hooked,
                   readerVars, hookVars, health, down>>

Relock(c) ==
    /\ At(c, "relock") /\ mu = NoCall
    /\ mu' = c
    /\ Goto(c, "redialing")
    /\ UNCHANGED <<got, grabbed, chanVars, netVars, down>>

\* connect() under the mutex, for at most a second; the reader of the link
\* that broke is left alone.
Redial(c) ==
    /\ At(c, "redialing")
    /\ \/ /\ Connected(reader)
          /\ conn' = dialed + 1
          /\ hooked' = hooked \union {dialed + 1}
          /\ Goto(c, "rewriting")
          /\ UNCHANGED mu
       \/ /\ Refused(reader)
          /\ Leave(c, "request")
          /\ mu' = NoCall
          /\ UNCHANGED <<conn, hooked>>
    /\ UNCHANGED <<got, grabbed, chanVars, upstream, target, carried,
                   hookVars, down>>

\* The message again, on whatever e.conn is by now; a second failure is final.
Rewrite(c) ==
    /\ At(c, "rewriting") /\ conn # NoLink
    /\ \/ Sent(c) /\ Goto(c, "rewaiting")
       \/ \E error \in {"pipe", "shut"} :
             WriteFailed(error) /\ Leave(c, "request")
    /\ mu' = NoCall
    /\ UNCHANGED <<got, grabbed, chanVars, conn, dialed, hooked,
                   readerVars, hookVars, health, down>>

\* A close handler set e.conn to nil since it was checked: the write panics
\* with the mutex held, and no deferred call unlocks it.  The router recovers
\* a call of HandleCall; one of HandleWebSocket takes the process down.
WriteOnNil(c) ==
    /\ \/ At(c, "writing") /\ mu = NoCall
       \/ At(c, "rewriting")
    /\ conn = NoLink
    /\ \/ c \in Recovered /\ Leave(c, "panic") /\ mu' = c /\ UNCHANGED down
       \/ c \notin Recovered /\ down' = TRUE /\ UNCHANGED <<pc, outcome, mu>>
    /\ UNCHANGED <<got, grabbed, chanVars, netVars>>

\* Mutant: the select of a first attempt has no ctx.Done() branch.
TimeoutOnlyResent(c) ==
    /\ At(c, "rewaiting")
    /\ Leave(c, "timeout")
    /\ UNCHANGED <<got, grabbed, chanVars, mu, netVars, down>>

\* Mutant: an error request() does not return.
TimeoutUntyped(c) ==
    /\ At(c, "waiting")
    /\ Leave(c, "unknown")
    /\ UNCHANGED <<got, grabbed, chanVars, mu, netVars, down>>

\* ctx.Done() wins the select.  After a reconnection the context selected on
\* is the dialling context, which has been cancelled already.
Timeout(c) ==
    /\ \/ At(c, "waiting") /\ c \in Deadline
       \/ At(c, "rewaiting")
    /\ Leave(c, "timeout")
    /\ UNCHANGED <<got, grabbed, chanVars, mu, netVars, down>>

\* The channel was closed by another call that found it under its key.
Disconnected(c) ==
    /\ At(c, "waiting") \/ At(c, "rewaiting")
    /\ c \in closed
    /\ Leave(c, "connection")
    /\ UNCHANGED <<got, grabbed, chanVars, mu, netVars, down>>

\* The deferred clean-up: Load, then Delete, then close what was loaded.
Unload(c) ==
    /\ At(c, "leaving")
    /\ grabbed' = [grabbed EXCEPT ![c] = Session(c)]
    /\ Goto(c, IF Session(c) = NoCall THEN "done" ELSE "deleting")
    /\ UNCHANGED <<got, chanVars, mu, netVars, down>>

\* Mutant: the session stays in the table.
DeleteForgotten(c) ==
    /\ At(c, "deleting")
    /\ Goto(c, "closing")
    /\ UNCHANGED <<got, grabbed, chanVars, mu, netVars, down>>

Delete(c) ==
    /\ At(c, "deleting")
    /\ sess' = [sess EXCEPT ![KeyOf[c]] = NoCall]
    /\ Goto(c, "closing")
    /\ UNCHANGED <<got, grabbed, closed, mu, netVars, down>>

\* Mutant: the channel is dropped, not closed.
CloseForgotten(c) ==
    /\ At(c, "closing")
    /\ Goto(c, "done")
    /\ UNCHANGED <<got, grabbed, chanVars, mu, netVars, down>>

CloseChannel(c) ==
    /\ At(c, "closing") /\ grabbed[c] \notin closed
    /\ closed' = closed \union {grabbed[c]}
    /\ grabbed' = [grabbed EXCEPT ![c] = NoCall]
    /\ Goto(c, "done")
    /\ UNCHANGED <<got, sess, mu, netVars, down>>

\* Two calls loaded the same channel: the second close panics, and whatever
\* request() was about to return is lost.
CloseTwice(c) ==
    /\ At(c, "closing") /\ grabbed[c] \in closed
    /\ \/ /\ c \in Recovered
          /\ pc' = [pc EXCEPT ![c] = "done"]
          /\ outcome' = [outcome EXCEPT ![c] = "panic"]
          /\ grabbed' = [grabbed EXCEPT ![c] = NoCall]
          /\ UNCHANGED down
       \/ c \notin Recovered /\ down' = TRUE /\ UNCHANGED callVars
    /\ UNCHANGED <<got, chanVars, mu, netVars>>

-----------------------------------------------------------------------------
(* background(): the reader of link l, and the upstream behind it.         *)

\* A response arrives; sessions.Load finds the channel to send it to.
Receive(l, c) ==
    /\ Reader(l, "reading") /\ status[l] = "open"
    /\ c \in upstream[l]
    /\ upstream' = [upstream EXCEPT ![l] = @ \ {c}]
    /\ Session(c) # NoCall
    /\ reader'  = [reader EXCEPT ![l] = "sending"]
    /\ target'  = [target EXCEPT ![l] = Session(c)]
    /\ carried' = [carried EXCEPT ![l] = c]
    /\ UNCHANGED <<callVars, chanVars, mu, conn, dialed, status, hooked,
                   hookVars, health, down>>

\* No session has the key: the response is logged and dropped.
ReceiveUnknown(l, c) ==
    /\ Reader(l, "reading") /\ status[l] = "open"
    /\ c \in upstream[l]
    /\ upstream' = [upstream EXCEPT ![l] = @ \ {c}]
    /\ Session(c) = NoCall
    /\ UNCHANGED <<callVars, chanVars, mu, conn, dialed, status, hooked,
                   readerVars, hookVars, health, down>>

\* The channel is unbuffered: the send completes with the caller's receive.
Deliver(l) ==
    LET c == target[l] IN
    /\ Reader(l, "sending") /\ c \notin closed
    /\ At(c, "waiting") \/ At(c, "rewaiting")
    /\ Leave(c, "answer")
    /\ got'     = [got EXCEPT ![c] = carried[l]]
    /\ reader'  = [reader EXCEPT ![l] = "reading"]
    /\ target'  = [target EXCEPT ![l] = NoCall]
    /\ carried' = [carried EXCEPT ![l] = NoCall]
    /\ UNCHANGED <<grabbed, chanVars, mu, conn, linkVars, hookVars, health,
                   down>>

\* A send on a closed channel panics; background() recovers and returns.
SendPanics(l) ==
    /\ Reader(l, "sending") /\ target[l] \in closed
    /\ reader'  = [reader EXCEPT ![l] = "dead"]
    /\ target'  = [target EXCEPT ![l] = NoCall]
    /\ carried' = [carried EXCEPT ![l] = NoCall]
    /\ UNCHANGED <<callVars, chanVars, mu, conn, linkVars, hookVars, health,
                   down>>

\* Reads on a connection that is gone fail until the goroutine ends: by the
\* returned close error, by its cancelled context, or by gorilla's panic on
\* the thousandth failed read.
ReaderExit(l) ==
    /\ Reader(l, "reading") /\ status[l] # "open"
    /\ reader' = [reader EXCEPT ![l] = "dead"]
    /\ UNCHANGED <<callVars, chanVars, mu, conn, linkVars, target, carried,
                   hookVars, health, down>>

\* The peer vanishes without a close frame.
Cut(l) ==
    /\ ~down /\ status[l] = "open"
    /\ status' = [status EXCEPT ![l] = "cut"]
    /\ UNCHANGED <<callVars, chanVars, mu, conn, dialed, hooked, upstream,
                   readerVars, hookVars, health, down>>

\* A close frame runs the handler on the reader: mark the endpoint unhealthy
\* and remember the current connection, whichever link that is.
PeerCloses(l) ==
    /\ Reader(l, "reading") /\ status[l] = "open" /\ l \in hooked
    /\ status' = [status EXCEPT ![l] = "cut"]
    /\ reader' = [reader EXCEPT ![l] = "dialing"]
    /\ old'    = [old EXCEPT ![l] = conn]
    /\ health' = FALSE
    /\ UNCHANGED <<callVars, chanVars, mu, conn, dialed, hooked, upstream,
                   target, carried, fresh, down>>

\* A link the handler itself dialled has only gorilla's default handler,
\* which echoes the frame: later writes fail with "close sent".
PeerClosesUnhooked(l) ==
    /\ Reader(l, "reading") /\ status[l] = "open" /\ l \notin hooked
    /\ status' = [status EXCEPT ![l] = "shut"]
    /\ reader' = [reader EXCEPT ![l] = "dead"]
    /\ UNCHANGED <<callVars, chanVars, mu, conn, dialed, hooked, upstream,
                   target, carried, hookVars, health, down>>

\* The close handler dials, without the mutex.
HandlerDials(l) ==
    LET rdr == [reader EXCEPT ![l] = "installing"] IN
    /\ Reader(l, "dialing")
    /\ \/ Connected(rdr) /\ fresh' = [fresh EXCEPT ![l] = dialed + 1]
       \/ Refused(rdr)   /\ fresh' = [fresh EXCEPT ![l] = NoLink]
    /\ UNCHANGED <<callVars, chanVars, mu, conn, hooked, upstream, target,
                   carried, old, down>>

\* It installs the result, nil included, and sends a close frame on oldConn,
\* closed a second later; the reader then returns with the close error.
HandlerInstalls(l) ==
    /\ Reader(l, "installing")
    /\ conn' = fresh[l]
    /\ status' = IF old[l] = NoLink THEN status
                 ELSE [status EXCEPT ![old[l]] = "shut"]
    /\ reader' = [reader EXCEPT ![l] = "dead"]
    /\ old'    = [old EXCEPT ![l] = NoLink]
    /\ fresh'  = [fresh EXCEPT ![l] = NoLink]
    /\ UNCHANGED <<callVars, chanVars, mu, dialed, hooked, upstream, target,
                   carried, health, down>>

\* Close(), called when the client cache evicts the client.
Close ==
    /\ ~down /\ conn # NoLink /\ mu = NoCall /\ status[conn] # "shut"
    /\ status' = [status EXCEPT ![conn] = "shut"]
    /\ UNCHANGED <<callVars, chanVars, mu, conn, dialed, hooked, upstream,
                   readerVars, hookVars, health, down>>

-----------------------------------------------------------------------------
CallStep(c) ==
    \/ Write(c) \/ Relock(c) \/ Redial(c) \/ Rewrite(c) \/ WriteOnNil(c)
    \/ Timeout(c) \/ Disconnected(c)
    \/ Unload(c) \/ Delete(c) \/ CloseChannel(c) \/ CloseTwice(c)

ReaderStep(l) ==
    \/ Deliver(l) \/ SendPanics(l) \/ ReaderExit(l)
    \/ HandlerDials(l) \/ HandlerInstalls(l)

Environment ==
    \/ \E c \in Call : Enter(c) \/ EnterNoConn(c)
    \/ \E l \in Link, c \in Call : Receive(l, c) \/ ReceiveUnknown(l, c)
    \/ \E l \in Link : Cut(l) \/ PeerCloses(l) \/ PeerClosesUnhooked(l)
    \/ Close

Next ==
    \/ \E c \in Call : CallStep(c)
    \/ \E l \in Link : ReaderStep(l)
    \/ Environment

\* A goroutine that can run does run: the Go scheduler gives weak fairness
\* to every caller and reader.  Nothing is assumed of the upstream.
Fairness ==
    /\ \A c \in Call : WF_vars(CallStep(c))
    /\ \A l \in Link : WF_vars(ReaderStep(l))

Spec     == Init /\ [][Next]_vars
FairSpec == Spec /\ Fairness

-----------------------------------------------------------------------------
(* Properties                                                              *)

TypeOK ==
    /\ pc       \in [Call -> Steps]
    /\ outcome  \in [Call -> Outcomes]
    /\ got      \in [Call -> Call \union {NoCall}]
    /\ grabbed  \in [Call -> Call \union {NoCall}]
    /\ sess     \in [Key -> Call \union {NoCall}]
    /\ closed   \in SUBSET (Call \union {NoCall})
    /\ mu       \in Call \union {NoCall}
    /\ conn     \in Link \union {NoLink}
    /\ dialed   \in Link
    /\ status   \in [Link -> Statuses]
    /\ hooked   \in SUBSET Link
    /\ upstream \in [Link -> SUBSET Call]
    /\ reader   \in [Link -> Readers]
    /\ target   \in [Link -> Call \union {NoCall}]
    /\ carried  \in [Link -> Call \union {NoCall}]
    /\ old      \in [Link -> Link \union {NoLink}]
    /\ fresh    \in [Link -> Link \union {NoLink}]
    /\ health   \in BOOLEAN
    /\ down     \in BOOLEAN

\* No two calls ever carry the same ids.
DistinctKeys == \A c, d \in Call : KeyOf[c] = KeyOf[d] => c = d

\* Whatever a call returns carries the ids it asked with, through every
\* reconnection, late answer and overwritten session.
AnswerHasKey ==
    \A c \in Call : outcome[c] = "answer" => KeyOf[got[c]] = KeyOf[c]

\* A call never returns the response to another call's request (comment of
\* NewWebSocketClient: the result comes back "through the channel associated
\* with the request's id").
OwnAnswer == \A c \in Call : outcome[c] = "answer" => got[c] = c

\* The sessions table forgets a call before request() returns, so that no
\* later response can find the channel of a caller that has gone.
SessionIsLive ==
    \A k \in Key : sess[k] # NoCall =>
        /\ KeyOf[sess[k]] = k
        /\ pc[sess[k]] \notin {"idle", "closing", "done"}

\* No two calls load the same channel to close it, however their clean-ups
\* interleave: the second close would panic.
NeverClosedTwice ==
    \A c \in Call : pc[c] = "closing" => grabbed[c] \notin closed

\* A connection that is open goes unread only after a call timed out with its
\* answer in the reader's hands, which then finds the channel closed.
UnreadNeedsTimeout ==
    \A l \in Link : status[l] = "open" /\ reader[l] = "dead" =>
        \E c \in Call : c \in closed /\ outcome[c] = "timeout"

\* A healthy endpoint has no connection, and no call will dial one, only if a
\* call reconnected while a close handler was failing to.
NilNeedsReconnect == conn = NoLink /\ health => hooked # {1}

\* However the close handler, the reconnecting calls and the late answers
\* interleave, the client of a healthy endpoint is lost in these ways only.
BreaksExplained == UnreadNeedsTimeout /\ NilNeedsReconnect

\* A call panicked in its write and left the mutex locked.
Poisoned == mu # NoCall /\ outcome[mu] = "panic"

\* Every call that has a deadline gets out of request(): no reconnection, no
\* dead reader and no lost answer can hold it, only a mutex that another
\* call's panic left locked.
EveryCallEnds ==
    \A c \in Deadline :
        pc[c] = "writing" ~> (pc[c] = "done" \/ down \/ Poisoned)

\* "Timeout duration, if exceeded, the request returns a 408 error": a call
\* with a deadline returns, whatever became of the other calls.
DeadlineIsKept ==
    \A c \in Deadline : pc[c] = "writing" ~> (pc[c] = "done" \/ down)

\* A reader that found a session is never blocked on its channel for good.
ReaderUnblocks ==
    \A l \in Link : reader[l] = "sending" ~> (reader[l] # "sending" \/ down)

\* The requests in flight as the callers of Call() see them.
PhaseOf(c) ==
    IF pc[c] = "idle" THEN "idle"
    ELSE IF outcome[c] = "none" THEN "asked"
    ELSE IF outcome[c] = "answer" THEN "answered"
    ELSE "failed"

ToSend(c)     == pc[c] \in {"writing", "relock", "redialing", "rewriting"}
WithPeer(c)   == \E l \in Link : c \in upstream[l]
WithReader(c) == \E l \in Link : reader[l] = "sending" /\ carried[l] = c

phaseView   == [c \in Call |-> PhaseOf(c)]
pendingView == {c \in Call : ToSend(c) \/ WithPeer(c)}
repliesView == {c \in Call : WithReader(c)}

Mux == INSTANCE RpcMux WITH
    phase <- phaseView, answer <- got, pending <- pendingView,
    replies <- repliesView

\* The client implements RpcMux whatever ids its calls carry: a request is
\* answered at most once, and its response goes to one call with its ids.
RefinesMux == Mux!Spec
=============================================================================
