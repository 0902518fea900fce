------------------------------ MODULE Selector ------------------------------
(***************************************************************************)
(* How a request's endpoints are ranked, and how its calls change the      *)
(* ranking of the next: selector.Select over the attributes of HTTP        *)
(* endpoints, updateMetrics and Endpoint.Update after each call, and the   *)
(* periodic refresh of the 95th percentiles from the summaries that Update *)
(* feeds.                                                                  *)
(*                                                                         *)
(* LastUpdateTime only breaks ties and is left out: endpoints that tie may *)
(* come in either order.  The block number is an attribute no code writes, *)
(* so its part of the score is zero.                                       *)
(***************************************************************************)
EXTENDS Integers, Sequences, SequencesExt

CONSTANTS
    Request,
    Pool,         \* a chain's endpoints in the order GetAll returns them
    TypeOf,       \* endpoint -> its type
    Full,         \* the type "fullnode"
    Wanted,       \* request -> the types it asks for
    Light,        \* requests whose methods any full node serves
    Alternating,  \* requests with several tries, strategy "rotation"
    Weight,       \* endpoint -> its configured weight
    Durations,    \* milliseconds a call may take
    Counts        \* how often an endpoint may have been called at first

Endpoint == ToSet(Pool)

ASSUME PoolAssumption ==
    /\ Pool \in Seq(Endpoint) \ {<<>>}
    /\ \A j, k \in DOMAIN Pool : Pool[j] = Pool[k] => j = k
    /\ Light \subseteq Request /\ Alternating \subseteq Request
ASSUME NumberAssumption ==
    Durations \subseteq Nat /\ Counts \subseteq Nat /\ Weight \in [Endpoint -> Nat]

VARIABLES
    health,     \* endpoint -> Health
    p95,        \* endpoint -> P95Health
    count,      \* endpoint -> Count
    duration,   \* endpoint -> Duration
    window,     \* endpoint -> statuses in its summary, oldest first
    seen,       \* endpoints that have a summary
    gathered,   \* what the last Gather of the refresh returned
    pending,    \* endpoints the refresh has still to update
    refreshing, \* the one it is updating and the health it has read
    pc,         \* where each request is
    list,       \* request -> the endpoints, as ranked so far
    scores,     \* request -> endpoint -> its score in this Select
    span,       \* request -> parts of the list still to be sorted
    left,       \* request -> where quicksort puts the next smaller one
    scan,       \* request -> the one quicksort looks at
    at,         \* request -> the position of the endpoint it calls
    call,       \* request -> how its call ended, and the health before
    failed,     \* history: endpoints of which a call has failed
    calm        \* history: requests ranked with no attribute changed since

attrVars    == <<health, p95, count, duration>>
summaryVars == <<window, seen, gathered, pending, refreshing>>
sortVars    == <<scores, span, left, scan>>
vars == <<attrVars, summaryVars, pc, list, sortVars, at, call, failed, calm>>

Steps  == {"new", "filtered", "sorting", "sorted", "ranked", "reporting",
           "observing", "done"}
NoScores == [e \in Endpoint |-> 0]
NoCall   == [ok |-> TRUE, took |-> 0, was |-> TRUE]

\* A chain whose endpoints have answered every call so far.
Init ==
    /\ health   = [e \in Endpoint |-> TRUE]
    /\ p95      = [e \in Endpoint |-> TRUE]
    /\ count    \in [Endpoint -> Counts]
    /\ duration \in [Endpoint -> Durations \union {0}]
    /\ \A e \in Endpoint : duration[e] \in IF count[e] = 0 THEN {0} ELSE Durations
    /\ window   = [e \in Endpoint |-> <<>>]
    /\ seen     = {} /\ pending = {} /\ refreshing = <<>>
    /\ gathered = [e \in Endpoint |-> <<>>]
    /\ pc       = [r \in Request |-> "new"]
    /\ list     = [r \in Request |-> <<>>]
    /\ scores   = [r \in Request |-> NoScores]
    /\ span     = [r \in Request |-> <<>>]
    /\ left     = [r \in Request |-> 0]
    /\ scan     = [r \in Request |-> 0]
    /\ at       = [r \in Request |-> 0]
    /\ call     = [r \in Request |-> NoCall]
    /\ failed   = {} /\ calm = {}

Goto(r, step) == pc' = [pc EXCEPT ![r] = step]

-----------------------------------------------------------------------------
(* Select: filter by type, score, sort, and perhaps put an ill one first.  *)

\* The loops over a slice are functions of the number of elements seen.
OfType(types) ==
    LET kept[n \in 0 .. Len(Pool)] ==
          IF n = 0 THEN <<>>
          ELSE IF TypeOf[Pool[n]] \in types THEN Append(kept[n - 1], Pool[n])
          ELSE kept[n - 1]
    IN  kept[Len(Pool)]

\* The types the request asks for; else, for methods any full node serves,
\* full nodes; else all.
Eligible(r) ==
    IF OfType(Wanted[r]) # <<>> THEN OfType(Wanted[r])
    ELSE IF r \in Light /\ OfType({Full}) # <<>> THEN OfType({Full})
    ELSE Pool

Filter(r) ==
    /\ pc[r] = "new"
    /\ list' = [list EXCEPT ![r] = Eligible(r)]
    /\ at'   = [at EXCEPT ![r] = 1]
    /\ Goto(r, IF Len(Eligible(r)) = 1 THEN "ranked" ELSE "filtered")
    /\ UNCHANGED <<attrVars, summaryVars, sortVars, call, failed, calm>>

\* The extremes of attribute f over the endpoints es: a zero is taken for
\* an extreme not set yet.
Lowest(es, f) ==
    LET low[n \in 0 .. Len(es)] ==
          IF n = 0 THEN 0
          ELSE IF low[n - 1] = 0 \/ f[es[n]] < low[n - 1] THEN f[es[n]]
          ELSE low[n - 1]
    IN  low[Len(es)]
Highest(es, f) ==
    LET high[n \in 0 .. Len(es)] ==
          IF n = 0 THEN 0
          ELSE IF high[n - 1] = 0 \/ f[es[n]] > high[n - 1] THEN f[es[n]]
          ELSE high[n - 1]
    IN  high[Len(es)]

\* A normal value is Above / Spread, of a hundred.
Spread(es, f) ==
    LET low == Lowest(es, f) high == Highest(es, f)
    IN  IF high > low THEN high - low ELSE 1
Above(es, f, e) ==
    IF Highest(es, f) > Lowest(es, f) THEN f[e] - Lowest(es, f) ELSE 0

\* Endpoint.Duration() asserts a float64; the duration of an HTTP call is an
\* int64, so Duration() reads zero, Update observes zeros, and refresh finds
\* a percentile of zero, or a NaN that it takes for zero.
P95Duration == [e \in Endpoint |-> 0]

Smaller(m, n) == IF m < n THEN m ELSE n

\* Mutant: what speaks against an endpoint is taken off 0, not off 100.
ScoreUnbased(es, e) ==
    10 * Spread(es, count) * Above(es, Weight, e)
    - 11 * Spread(es, Weight) * Above(es, count, e)

\* Duration, load and weight, never below zero: exact, in tens over the
\* product of the spreads, which the scores of one Select have in common.
Score(es, e) ==
    LET d == Spread(es, duration)
        q == Spread(es, P95Duration)
        c == Spread(es, count)
        w == Spread(es, Weight)
        late  == Smaller(Above(es, duration, e) * q, Above(es, P95Duration, e) * d)
        score == 10 * (d * q - late) * c * w
                 + (10 * c - 11 * Above(es, count, e)) * d * q * w
                 + 10 * Above(es, Weight, e) * d * q * c
    IN  IF score < 0 THEN 0 ELSE score

Rank(r) ==
    LET es == list[r] IN
    /\ pc[r] = "filtered"
    /\ scores' = [scores EXCEPT ![r] =
          [e \in Endpoint |-> IF e \in ToSet(es) THEN Score(es, e) ELSE 0]]
    /\ span' = [span EXCEPT ![r] = <<<<1, Len(es)>>>>]
    /\ left' = [left EXCEPT ![r] = 1]
    /\ scan' = [scan EXCEPT ![r] = 1]
    /\ calm' = calm \union {r}
    /\ Goto(r, "sorting")
    /\ UNCHANGED <<attrVars, summaryVars, list, at, call, failed>>

\* Mutant: the score comes before the health.
BetterScoreFirst(r, d, e) ==
    \/ scores[r][d] > scores[r][e]
    \/ /\ scores[r][d] = scores[r][e]
       /\ \/ health[d] /\ ~health[e]
          \/ health[d] = health[e] /\ p95[d] /\ ~p95[e]

\* best: health, then its 95th percentile, then the score.
Better(r, d, e) ==
    \/ health[d] /\ ~health[e]
    \/ /\ health[d] = health[e]
       /\ \/ p95[d] /\ ~p95[e]
          \/ p95[d] = p95[e] /\ scores[r][d] > scores[r][e]

Swapped(s, j, k) == [s EXCEPT ![j] = s[k], ![k] = s[j]]

\* One comparison with the pivot, the last of the part being sorted.
Compare(r) ==
    LET s    == list[r]
        high == span[r][1][2]
        j    == scan[r]
    IN
    /\ pc[r] = "sorting" /\ j < high
    /\ \/ /\ ~Better(r, s[high], s[j])
          /\ list' = [list EXCEPT ![r] = Swapped(s, left[r], j)]
          /\ left' = [left EXCEPT ![r] = @ + 1]
       \/ /\ ~Better(r, s[j], s[high])
          /\ UNCHANGED <<list, left>>
    /\ scan' = [scan EXCEPT ![r] = j + 1]
    /\ UNCHANGED <<attrVars, summaryVars, pc, scores, span, at, call, failed,
                   calm>>

\* What is left to sort with the pivot of the first part at p.
Rest(parts, p) ==
    LET part(j, k) == IF j < k THEN <<<<j, k>>>> ELSE <<>>
    IN  part(parts[1][1], p - 1) \o part(p + 1, parts[1][2]) \o Tail(parts)

\* The pivot goes between the parts, which are sorted in turn.
Partition(r) ==
    LET high  == span[r][1][2]
        rest  == Rest(span[r], left[r])
        start == IF rest = <<>> THEN 0 ELSE rest[1][1]
    IN
    /\ pc[r] = "sorting" /\ scan[r] = high
    /\ list' = [list EXCEPT ![r] = Swapped(list[r], left[r], high)]
    /\ span' = [span EXCEPT ![r] = rest]
    /\ left' = [left EXCEPT ![r] = start]
    /\ scan' = [scan EXCEPT ![r] = start]
    /\ Goto(r, IF rest = <<>> THEN "sorted" ELSE "sorting")
    /\ UNCHANGED <<attrVars, summaryVars, scores, at, call, failed, calm>>

\* Mutant: the ill endpoint is put first and stays where it was.
WithFirstTwice(s, k) == <<s[k]>> \o s

WithFirst(s, k) == <<s[k]>> \o RemoveAt(s, k)

\* The dice, which are thrown for requests with several alternating tries,
\* decide whether the first ill endpoint is put before a healthy one.
Check(r) ==
    LET s   == list[r]
        ill == {k \in DOMAIN s : ~health[s[k]]}
    IN
    /\ pc[r] = "sorted"
    /\ scores' = [scores EXCEPT ![r] = NoScores]
    /\ \/ UNCHANGED list
       \/ /\ r \in Alternating /\ health[s[1]]
          /\ \E k \in ill : /\ \A j \in ill : k <= j
                            /\ list' = [list EXCEPT ![r] = WithFirst(s, k)]
    /\ Goto(r, "ranked")
    /\ UNCHANGED <<attrVars, summaryVars, span, left, scan, at, call, failed,
                   calm>>

-----------------------------------------------------------------------------
(* Calls, in the order of the list, and what they report.                  *)

Callee(r) == list[r][at[r]]

\* The call ends; Update reads the health before it takes the lock.
EndCall(r) ==
    /\ pc[r] = "ranked"
    /\ \E ok \in BOOLEAN, d \in Durations :
          call' = [call EXCEPT ![r] =
                      [ok |-> ok, took |-> d, was |-> health[Callee(r)]]]
    /\ calm' = calm \ {r}
    /\ Goto(r, "reporting")
    /\ UNCHANGED <<attrVars, summaryVars, list, sortVars, at, failed>>

\* Under the lock: the count, the duration unless it is zero, the health.
Update(r) ==
    LET e == Callee(r) IN
    /\ pc[r] = "reporting"
    /\ count'  = [count EXCEPT ![e] = @ + 1]
    /\ duration' = [duration EXCEPT ![e] = IF call[r].took > 0 THEN call[r].took ELSE @]
    /\ health' = [health EXCEPT ![e] = call[r].ok]
    /\ failed' = IF call[r].ok THEN failed ELSE failed \union {e}
    /\ calm'   = {}
    /\ Goto(r, "observing")
    /\ UNCHANGED <<p95, summaryVars, list, sortVars, at, call>>

\* Mutant: the count is read as the int it is, so every call is observed.
SeesCall(r) == TRUE

\* Update compares Count(), Health() and Duration().  Count() asserts a
\* uint64 of what is an int: like Duration() it reads zero before and after.
SeesChange(r) == health[Callee(r)] # call[r].was

Status(e) == IF health[e] THEN 200 ELSE 500

\* After a change the current health is observed.  Then comes the next
\* endpoint, if the call failed and the tries alternate.  A second try of
\* the same one is left out, as are those that go round the list again.
Observe(r) ==
    LET e == Callee(r) IN
    /\ pc[r] = "observing"
    /\ IF SeesChange(r)
       THEN /\ window' = [window EXCEPT ![e] = Append(@, Status(e))]
            /\ seen' = seen \union {e}
       ELSE UNCHANGED <<window, seen>>
    /\ \/ /\ ~call[r].ok /\ r \in Alternating /\ at[r] < Len(list[r])
          /\ at' = [at EXCEPT ![r] = @ + 1]
          /\ Goto(r, "ranked")
          /\ UNCHANGED list
       \/ /\ at'   = [at EXCEPT ![r] = 0]
          /\ list' = [list EXCEPT ![r] = <<>>]
          /\ Goto(r, "done")
    /\ call' = [call EXCEPT ![r] = NoCall]
    /\ UNCHANGED <<attrVars, gathered, pending, refreshing, sortVars, failed,
                   calm>>

-----------------------------------------------------------------------------
(* refresh: gather the summaries, then update each endpoint that has one.  *)

\* The oldest observation is ten minutes old.
Forget(e) ==
    /\ window[e] # <<>>
    /\ window' = [window EXCEPT ![e] = Tail(@)]
    /\ UNCHANGED <<attrVars, seen, gathered, pending, refreshing, pc, list,
                   sortVars, at, call, failed, calm>>

Gather ==
    /\ pending = {} /\ refreshing = <<>> /\ seen # {}
    /\ pending'  = seen
    /\ gathered' = window
    /\ UNCHANGED <<attrVars, window, seen, refreshing, pc, list, sortVars, at,
                   call, failed, calm>>

\* Fewer than twenty statuses: the 95th percentile is the greatest of them.
\* Of none it is NaN, which counts as ill.
P95Status(w) == w # <<>> /\ \A k \in DOMAIN w : w[k] = 200

\* The two Updates of an endpoint are taken as one, from where the first
\* reads the health...
StartRefresh(e) ==
    /\ refreshing = <<>> /\ e \in pending
    /\ refreshing' = <<e, health[e]>>
    /\ pending' = pending \ {e}
    /\ UNCHANGED <<attrVars, window, seen, gathered, pc, list, sortVars, at,
                   call, failed, calm>>

\* ...to where the second observes a change that a request made meanwhile.
RefreshEndpoint ==
    LET e == refreshing[1] IN
    /\ refreshing # <<>>
    /\ p95' = [p95 EXCEPT ![e] = P95Status(gathered[e])]
    /\ gathered' = [gathered EXCEPT ![e] = <<>>]
    /\ window' = [window EXCEPT ![e] =
                     IF health[e] # refreshing[2] THEN Append(@, Status(e)) ELSE @]
    /\ refreshing' = <<>>
    /\ calm' = {}
    /\ UNCHANGED <<health, count, duration, seen, pending, pc, list, sortVars,
                   at, call, failed>>

-----------------------------------------------------------------------------
Next ==
    \/ \E r \in Request :
          \/ Filter(r) \/ Rank(r) \/ Compare(r) \/ Partition(r) \/ Check(r)
          \/ EndCall(r) \/ Update(r) \/ Observe(r)
    \/ \E e \in Endpoint : Forget(e) \/ StartRefresh(e)
    \/ Gather \/ RefreshEndpoint

Spec == Init /\ [][Next]_vars

-----------------------------------------------------------------------------
(* Properties                                                              *)

TypeOK ==
    /\ health   \in [Endpoint -> BOOLEAN]
    /\ p95      \in [Endpoint -> BOOLEAN]
    /\ count    \in [Endpoint -> Nat]
    /\ duration \in [Endpoint -> Nat]
    /\ window   \in [Endpoint -> Seq({200, 500})]
    /\ gathered \in [Endpoint -> Seq({200, 500})]
    /\ seen     \in SUBSET Endpoint /\ pending \in SUBSET seen
    /\ refreshing \in {<<>>} \union (seen \X BOOLEAN)
    /\ pc       \in [Request -> Steps]
    /\ list     \in [Request -> Seq(Endpoint)]
    /\ scores   \in [Request -> [Endpoint -> Nat]]
    /\ span     \in [Request -> Seq(Nat \X Nat)]
    /\ left     \in [Request -> Nat]
    /\ scan     \in [Request -> Nat]
    /\ at       \in [Request -> Nat]
    /\ call     \in [Request -> [ok : BOOLEAN, took : Nat, was : BOOLEAN]]
    /\ failed   \in SUBSET Endpoint
    /\ calm     \in SUBSET Request

\* The endpoints a request may use, as a set: of the wanted types if there
\* are any, else full nodes if any full node will do, else all.
Suitable(r) ==
    LET ofType(types) == {e \in Endpoint : TypeOf[e] \in types}
    IN  IF ofType(Wanted[r]) # {} THEN ofType(Wanted[r])
        ELSE IF r \in Light /\ ofType({Full}) # {} THEN ofType({Full})
        ELSE Endpoint

\* However the attributes change while a list is sorted and checked, it
\* holds every endpoint the request may use, no other, and each once.
ListIsWhole ==
    \A r \in Request : pc[r] \notin {"new", "done"} =>
        ToSet(list[r]) = Suitable(r) /\ IsInjective(list[r])

\* Of two endpoints of the same weight the one before the other is healthier
\* or, for the same health, has had no more requests.
NoWorse(d, e) ==
    \/ health[d] /\ ~health[e]
    \/ /\ health[d] = health[e]
       /\ \/ p95[d] /\ ~p95[e]
          \/ p95[d] = p95[e] /\ count[d] <= count[e]

Balanced(s) == \A j, k \in DOMAIN s : j < k => NoWorse(s[j], s[k])

\* A list that is ranked while no attribute changes has the healthy ones
\* first and balances the load, but for an ill one put first to be checked.
\* Endpoints that have no duration yet upset the scores and are exempt.
HealthThenLoad ==
    \A r \in calm :
        /\ pc[r] = "ranked" /\ Len(list[r]) > 1
        /\ \A e \in ToSet(list[r]) : duration[e] > 0 /\ Weight[e] = Weight[list[r][1]]
        => \/ Balanced(list[r])
           \/ r \in Alternating /\ ~health[list[r][1]] /\ Balanced(Tail(list[r]))

\* An endpoint is held ill by its 95th percentile only if a call has failed.
DemotedHasFailed == \A e \in Endpoint : ~p95[e] => e \in failed
=============================================================================
