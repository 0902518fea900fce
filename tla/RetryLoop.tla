------------------------------ MODULE RetryLoop ------------------------------
(***************************************************************************)
(* client.Request: the loop that calls a chain's endpoints one after       *)
(* another until one answers, for several requests at a time.  They share  *)
(* each endpoint's health, which every HTTP call rewrites when it ends and *)
(* which decides how long a call may take when it begins.                  *)
(*                                                                         *)
(* Time is left out but for one event per request, the expiry of its       *)
(* deadline.  The order the selector gives a request's endpoints is left   *)
(* open: its comparisons read the health that other calls change.  A       *)
(* WebSocket endpoint's health follows its link, not its calls (see        *)
(* WsSessions), and may be read as anything here.                          *)
(***************************************************************************)
EXTENDS Options, Sequences, FiniteSets

CONSTANTS
    Request,
    Endpoint,
    Ws            \* endpoints that are WebSocket ones

ASSUME WsAssumption == Ws \subseteq Endpoint

VARIABLES
    health,    \* HTTP endpoint -> its Health attribute
    pc,        \* where each request is
    order,     \* request -> the endpoints it goes round
    attempts,  \* request -> how often it may try
    tries,     \* request -> how often it has, i - 1 in the code
    mode,      \* request -> how its last call was begun
    result,    \* request -> what (results, err) hold
    expired,   \* requests whose deadline has passed
    asked,     \* history: request -> endpoints it has tried
    after      \* history: request -> HTTP calls begun past its deadline

loopVars == <<order, attempts, tries, mode, result>>
vars     == <<health, pc, loopVars, expired, asked, after>>

Steps == {"new", "trying", "calling", "answered"}

\* How an endpoint's answer ends a call.  An answer that is not JSON leaves
\* both results and error nil: UnmarshalJSONRPCResults returns the outer
\* error, which its two attempts shadow.
Answer  == {"good", "error", "batchError", "empty", "garbage"}
Failure == {"failed", "timeout"}
Outcome == Answer \union Failure

\* What the request holds; "none" is nil results and a nil error.
Result == {"none", "good", "error", "empty", "failed", "timeout"}

\* Mutant: an answer that is not JSON is kept as a result.
ResultRaw(o) == IF o = "batchError" THEN "error" ELSE o

ResultOf(o) == CASE o = "garbage"    -> "none"
                 [] o = "batchError" -> "error"
                 [] OTHER            -> o

\* The lists the selector may hand over.
Lists == {s \in UNION {[1 .. n -> Endpoint] : n \in 1 .. Cardinality(Endpoint)} :
             \A j, k \in DOMAIN s : s[j] = s[k] => j = k}

Init ==
    /\ health   = [e \in Endpoint \ Ws |-> TRUE]
    /\ pc       = [r \in Request |-> "new"]
    /\ order    = [r \in Request |-> <<>>]
    /\ attempts = [r \in Request |-> 0]
    /\ tries    = [r \in Request |-> 0]
    /\ mode     = [r \in Request |-> "none"]
    /\ result   = [r \in Request |-> "none"]
    /\ expired  = {}
    /\ asked    = [r \in Request |-> {}]
    /\ after    = [r \in Request |-> 0]

Goto(r, step) == pc' = [pc EXCEPT ![r] = step]

-----------------------------------------------------------------------------
\* The query's options and the selector's list; strategy "same" keeps its
\* head only, and a timeout that is not positive is over at once.
Begin(r) ==
    /\ pc[r] = "new"
    /\ \E q \in Query, s \in Lists :
          /\ order' = [order EXCEPT ![r] =
                  IF AttemptStrategy(q) = "same" THEN SubSeq(s, 1, 1) ELSE s]
          /\ attempts' = [attempts EXCEPT ![r] = Attempts(q)]
          /\ expired' = IF Timeout(q) > 0 THEN expired ELSE expired \union {r}
    /\ Goto(r, "trying")
    /\ UNCHANGED <<health, tries, mode, result, asked, after>>

\* Mutant: the strategy "rotation" alternates only on every other try.
PickSlowly(r) == order[r][((tries[r] \div 2) % Len(order[r])) + 1]

\* endpoints[(i - 1) % l]
Pick(r) == order[r][(tries[r] % Len(order[r])) + 1]

MayTry(r) == pc[r] = "trying" /\ tries[r] < attempts[r]

\* A WebSocket endpoint could not be dialled: the try is spent, and the loop
\* left if the endpoint is the only one.
NoClient(r) ==
    /\ MayTry(r) /\ Pick(r) \in Ws
    /\ asked' = [asked EXCEPT ![r] = @ \union {Pick(r)}]
    /\ tries' = [tries EXCEPT ![r] = @ + 1]
    /\ Goto(r, IF Len(order[r]) = 1 THEN "answered" ELSE "trying")
    /\ UNCHANGED <<health, order, attempts, mode, result, expired, after>>

\* A call under the request's own deadline, or under a shorter one if the
\* endpoint is unhealthy; or one whose deadline has passed already.
Call(r) ==
    /\ MayTry(r)
    /\ \E healthy \in IF Pick(r) \in Ws THEN BOOLEAN ELSE {health[Pick(r)]} :
          mode' = [mode EXCEPT ![r] = IF r \in expired THEN "dead"
                                      ELSE IF healthy THEN "full"
                                      ELSE "probe"]
    /\ asked' = [asked EXCEPT ![r] = @ \union {Pick(r)}]
    /\ after' = IF r \in expired /\ Pick(r) \notin Ws
                THEN [after EXCEPT ![r] = @ + 1] ELSE after
    /\ Goto(r, "calling")
    /\ UNCHANGED <<health, order, attempts, tries, result, expired>>

\* An HTTP call past its deadline times out before anything is sent; a
\* WebSocket client writes first, and may find an answer when it looks.
\* Before the deadline a call can time out too: the shorter deadline, the
\* transport's own limits on dialling and handshakes, a WebSocket client's
\* resend.
CanEnd(r, o) == mode[r] = "dead" /\ Pick(r) \notin Ws => o = "timeout"

\* updateMetrics: an HTTP client sets the health when its call ends.  A
\* single JSON-RPC error counts as ill health; one in a batch, no answer at
\* all, or one that is not JSON does not.
Healthy(o) == o \in {"good", "batchError", "empty", "garbage"}

\* Mutant: a timeout is retried like any failure.
StopsOnAnswer(o) == o \in {"good", "empty"}

\* Results without an error among them, none included, or a timeout.
Stops(o) == o \in {"good", "empty", "timeout"}

EndCall(r, o) ==
    /\ pc[r] = "calling" /\ CanEnd(r, o)
    /\ health' = IF Pick(r) \in Ws THEN health
                 ELSE [health EXCEPT ![Pick(r)] = Healthy(o)]
    /\ result' = [result EXCEPT ![r] = ResultOf(o)]
    /\ tries'  = [tries EXCEPT ![r] = @ + 1]
    /\ Goto(r, IF Stops(o) THEN "answered" ELSE "trying")
    /\ UNCHANGED <<order, attempts, mode, expired, asked, after>>

\* The tries are used up.
Exhausted(r) ==
    /\ pc[r] = "trying" /\ tries[r] >= attempts[r]
    /\ Goto(r, "answered")
    /\ UNCHANGED <<health, loopVars, expired, asked, after>>

\* Mutant: a call is not made under the request's context.
ExpireBetweenCalls(r) ==
    /\ pc[r] = "trying" /\ r \notin expired
    /\ expired' = expired \union {r}
    /\ UNCHANGED <<health, pc, loopVars, asked, after>>

\* context.WithTimeoutCause around the whole request.
Expire(r) ==
    /\ pc[r] \in {"trying", "calling"} /\ r \notin expired
    /\ expired' = expired \union {r}
    /\ UNCHANGED <<health, pc, loopVars, asked, after>>

Advance(r) == Begin(r) \/ NoClient(r) \/ Call(r) \/ Exhausted(r)

Next ==
    \E r \in Request :
        \/ Begin(r) \/ NoClient(r) \/ Call(r) \/ Exhausted(r) \/ Expire(r)
        \/ \E o \in Outcome : EndCall(r, o)

Spec == Init /\ [][Next]_vars

\* The loop runs on, deadlines pass, and a call ends once its own has:
\* http.Client.Do, reading the body and the WebSocket client's select all
\* watch the context.
Fairness ==
    \A r \in Request :
        /\ WF_vars(Advance(r)) /\ WF_vars(Expire(r))
        /\ WF_vars(r \in expired /\ \E o \in Outcome : EndCall(r, o))

FairSpec == Spec /\ Fairness

-----------------------------------------------------------------------------
(* Properties                                                              *)

TypeOK ==
    /\ health   \in [Endpoint \ Ws -> BOOLEAN]
    /\ pc       \in [Request -> Steps]
    /\ order    \in [Request -> Seq(Endpoint)]
    /\ \A r \in Request : pc[r] # "new" => order[r] # <<>>
    /\ attempts \in [Request -> Nat]
    /\ tries    \in [Request -> Nat]
    /\ mode     \in [Request -> {"none", "full", "probe", "dead"}]
    /\ result   \in [Request -> Result]
    /\ expired  \in SUBSET Request
    /\ asked    \in [Request -> SUBSET Endpoint]
    /\ after    \in [Request -> Nat]

\* A request that may try as often as it has endpoints, and that met no
\* timeout, tells the client of a failure only after trying every one.
RotationCoversAll ==
    \A r \in Request :
        /\ pc[r] = "answered" /\ attempts[r] >= Len(order[r])
        /\ result[r] \notin {"good", "empty", "timeout"}
        => \A k \in 1 .. Len(order[r]) : order[r][k] \in asked[r]

\* Whatever a query asks for, a request is answered after one try at least,
\* and none makes more than MaxAttempts.
TriesAreBounded ==
    \A r \in Request :
        /\ tries[r] <= MaxAttempts
        /\ pc[r] = "answered" => asked[r] # {}

\* However many tries are left, a request past its deadline begins at most
\* one more HTTP call.
OneCallPastDeadline == \A r \in Request : after[r] <= 1

\* Every request is answered.
EveryRequestEnds ==
    \A r \in Request : pc[r] # "new" ~> pc[r] = "answered"
=============================================================================
