---------------------------- MODULE TenantLimiter ----------------------------
(***************************************************************************)
(* The requests of one tenant bucket: HandleCall of the agent controller   *)
(* (internal/app/agent/controller/agent_controller.go), the tenant service *)
(* (internal/app/agent/service/tenant_service.go) and the balance script   *)
(* (internal/app/shared/redis_scripts/balance.go).  A request fetches the  *)
(* tenant, is charged by the script, calls upstream and is answered; then  *)
(* it reports, by the status of its answer, whether it counts, and reports *)
(* are debounced and saved to redis a millisecond later.                   *)
(*                                                                         *)
(* Several proxies share the redis hash; each has a local tenant cache and *)
(* a local table of debounce timers, which a crash loses.  Every request   *)
(* works on its own copy of the tenant, of which only LastTime and Offset  *)
(* change.                                                                 *)
(***************************************************************************)
EXTENDS Integers, FiniteSets

CONSTANTS
    Request,    \* requests of the bucket
    Proxy,      \* proxy processes
    ProxyOf,    \* the proxy a request arrives at
    Capacity,   \* int64(app.Capacity)
    Rate,       \* int64(app.Rate), recovered per unit of time
    Skew,       \* how far a proxy's clock runs ahead of redis's, or behind
    Start,      \* the time of redis when the behaviour begins
    MaxTime,    \* bound: the last time of a behaviour
    MaxCrashes  \* bound: crashes of proxies in a behaviour

ASSUME ProxyAssumption ==
    ProxyOf \in [Request -> Proxy] /\ Skew \in [Proxy -> Int]
ASSUME RateAssumption  ==
    /\ Capacity \in Int /\ Rate \in Int
    /\ Start \in Nat \ {0} /\ MaxTime \in Nat /\ MaxCrashes \in Nat

VARIABLES
    now,        \* the clock of redis
    created,    \* does the redis hash have a field "balance"
    balance,    \* the field, 0 until it is created
    last,       \* redis hash field "last", 0 when absent
    cache,      \* proxy -> the tenant in bigcache
    timers,     \* proxy -> is a debounce timer stored for the bucket
    pc,         \* where each request is
    app,        \* request -> LastTime and Offset of its copy of the tenant
    flush,      \* request -> state of the debounce() goroutine it started
    crashes,    \* how often a proxy has crashed
    charges,    \* how often the script took 1 from the balance
    grants,     \* how often it did and the request was admitted
    refunds,    \* how much HINCRBY has given back
    refund,     \* request -> how much of that its goroutine gave back
    recovered,  \* the time of the last charge: the balance is recovered to it
    twice       \* has a charge recovered for time before that once more

bucket    == <<created, balance>>
redisVars == <<now, bucket, last>>
reqVars   == <<pc, app>>
paidVars  == <<refunds, refund>>
chargeVars == <<charges, recovered, twice>>
ghostVars == <<chargeVars, grants, paidVars>>
vars == <<redisVars, cache, timers, reqVars, flush, crashes, ghostVars>>

NoApp   == [known |-> FALSE, last |-> 0, offset |-> 0]
NewApp  == [known |-> TRUE,  last |-> 0, offset |-> 0]
Steps   == {"idle", "loading", "fetched", "admitted", "counted", "uncounted",
            "affected", "unaffected", "refused", "failed"}
Flushes == {"none", "spawned", "armed", "written", "saved", "failed", "done",
            "lost"}

Init ==
    /\ now     = Start
    /\ created = FALSE
    /\ balance = 0
    /\ last    = 0
    /\ cache   = [p \in Proxy |-> NoApp]
    /\ timers  = [p \in Proxy |-> FALSE]
    /\ pc      = [r \in Request |-> "idle"]
    /\ app     = [r \in Request |-> NoApp]
    /\ flush   = [r \in Request |-> "none"]
    /\ crashes = 0
    /\ charges = 0 /\ grants = 0
    /\ refunds = 0 /\ refund = [r \in Request |-> 0]
    /\ recovered = Start /\ twice = FALSE

-----------------------------------------------------------------------------
(* HandleCall up to the tenant: getTenantApp and Access                    *)

Goto(r, step) == pc' = [pc EXCEPT ![r] = step]

\* GetAll has no endpoint of the chain, or the request carries no token: it
\* is rejected before any tenant is looked up.
Reject(r) ==
    /\ pc[r] = "idle"
    /\ Goto(r, "failed")
    /\ UNCHANGED <<redisVars, cache, timers, app, flush, crashes, ghostVars>>

\* The tenant is in bigcache: unmarshal a copy of it.
Hit(r) ==
    /\ pc[r] = "idle" /\ cache[ProxyOf[r]].known
    /\ app' = [app EXCEPT ![r] = cache[ProxyOf[r]]]
    /\ Goto(r, "fetched")
    /\ UNCHANGED <<redisVars, cache, timers, flush, crashes, ghostVars>>

\* It is not: getTenantInfo reads redis or the database.
Miss(r) ==
    /\ pc[r] = "idle" /\ ~cache[ProxyOf[r]].known
    /\ Goto(r, "loading")
    /\ UNCHANGED <<redisVars, cache, timers, app, flush, crashes, ghostVars>>

\* The tenant exists: a new App goes to bigcache, over what got there since.
Load(r) ==
    /\ pc[r] = "loading"
    /\ app'   = [app EXCEPT ![r] = NewApp]
    /\ cache' = [cache EXCEPT ![ProxyOf[r]] = NewApp]
    /\ Goto(r, "fetched")
    /\ UNCHANGED <<redisVars, timers, flush, crashes, ghostVars>>

\* No such tenant, no database or no time left: a rejection or a timeout, and
\* no App in the request, so nothing is reported.
LoadFails(r) ==
    /\ pc[r] = "loading"
    /\ Goto(r, "failed")
    /\ UNCHANGED <<redisVars, cache, timers, app, flush, crashes, ghostVars>>

\* The script: no limit without a capacity and a rate; otherwise recover for
\* the time since the last good request, and take 1, up to Capacity - 1.
Limited == Capacity > 0 /\ Rate > 0

Smaller(a, b) == IF a < b THEN a ELSE b

\* Mutant: a last time ahead of redis's clock is not corrected.
UnclampedSince == IF last = 0 THEN now ELSE last

Since == IF last = 0 THEN now ELSE Smaller(last, now)

\* Mutant: hset in place of hsetnx.
RefilledCharge == Smaller(Capacity - 1, Capacity - 1 + (now - Since) * Rate)

Charged ==
    LET held == IF created THEN balance ELSE Capacity   \* hsetnx
    IN  Smaller(Capacity - 1, held - 1 + (now - Since) * Rate)

Charge ==
    IF Limited
    THEN /\ balance' = Charged /\ created' = TRUE
         /\ charges' = charges + 1 /\ recovered' = now
         /\ twice' = (twice \/ Since < recovered)
    ELSE UNCHANGED <<bucket, chargeVars>>

\* getTenantApp refuses a balance of -1 or less, and drops the App.
Reply   == IF Limited THEN Charged ELSE 0
Refused == Reply <= -1
Drop(r) == app' = [app EXCEPT ![r] = NoApp]

Balance(r) ==
    /\ pc[r] = "fetched"
    /\ Charge
    /\ IF Refused
       THEN Goto(r, "refused") /\ Drop(r) /\ UNCHANGED grants
       ELSE Goto(r, "admitted") /\ grants' = grants + 1 /\ UNCHANGED app
    /\ UNCHANGED <<now, last, cache, timers, flush, crashes, paidVars>>

\* The script's reply is an error or late; it may have run.  The App is
\* dropped, so a charge it made is not given back.
BalanceFails(r) ==
    /\ pc[r] = "fetched"
    /\ Charge \/ UNCHANGED <<bucket, chargeVars>>
    /\ Goto(r, "failed") /\ Drop(r)
    /\ UNCHANGED <<now, last, cache, timers, flush, crashes, grants, paidVars>>

-----------------------------------------------------------------------------
(* HandleCall after the tenant: the upstream call, its status, the report  *)

\* The statuses agentService.Call ends with; "fail" is an upstream's error.
Statuses == {"success", "fail", "timeout", "reject", "error"}
Consumed == {"success", "fail"}

\* The client is answered and a goroutine started for the report.
Respond(r) ==
    /\ pc[r] = "admitted"
    /\ \E status \in Statuses :
           Goto(r, IF status \in Consumed THEN "counted" ELSE "uncounted")
    /\ UNCHANGED <<redisVars, cache, timers, app, flush, crashes, ghostVars>>

\* The call panics: the router's handler logs it and nothing is reported.
Panic(r) ==
    /\ pc[r] = "admitted"
    /\ Goto(r, "failed") /\ Drop(r)
    /\ UNCHANGED <<redisVars, cache, timers, flush, crashes, ghostVars>>

\* debounce is started unless a timer is stored (it stores its own later);
\* when none is started, the copy and what it counts are garbage.
Debounce(r, copy) ==
    IF timers[ProxyOf[r]]
    THEN Drop(r) /\ UNCHANGED flush
    ELSE /\ app'   = [app EXCEPT ![r] = copy]
         /\ flush' = [flush EXCEPT ![r] = "spawned"]

\* The request counts, at the proxy's time.
Affected(r) ==
    /\ pc[r] = "counted"
    /\ Debounce(r, [app[r] EXCEPT !.last = now + Skew[ProxyOf[r]]])
    /\ Goto(r, "affected")
    /\ UNCHANGED <<redisVars, cache, timers, crashes, ghostVars>>

\* It does not: it is to be given back.
Unaffected(r) ==
    /\ pc[r] = "uncounted"
    /\ Debounce(r, [app[r] EXCEPT !.offset = @ + 1])
    /\ Goto(r, "unaffected")
    /\ UNCHANGED <<redisVars, cache, timers, crashes, ghostVars>>

-----------------------------------------------------------------------------
(* debounce, one goroutine for each request that started it                *)

Step(r, step) == flush' = [flush EXCEPT ![r] = step]

Arm(r) ==
    /\ flush[r] = "spawned"
    /\ timers' = [timers EXCEPT ![ProxyOf[r]] = TRUE]
    /\ Step(r, "armed")
    /\ UNCHANGED <<redisVars, cache, reqVars, crashes, ghostVars>>

\* The pipeline: HSET of a positive LastTime, HINCRBY of a positive Offset.
SaveTime(r) == last' = IF app[r].last > 0 THEN app[r].last ELSE last

\* Mutant: the offset is taken once more instead of given back.
RefundTaken(r) ==
    /\ balance' = balance - app[r].offset
    /\ created' = (created \/ app[r].offset > 0)
    /\ refunds' = refunds - app[r].offset
    /\ refund'  = [refund EXCEPT ![r] = @ - app[r].offset]

\* Mutant: no HINCRBY in the pipeline that has an HSET.
RefundUnlessTimed(r) ==
    LET back == IF app[r].last > 0 THEN 0 ELSE app[r].offset IN
    /\ balance' = balance + back
    /\ created' = (created \/ back > 0)
    /\ refunds' = refunds + back
    /\ refund'  = [refund EXCEPT ![r] = @ + back]

Refund(r) ==
    /\ balance' = balance + app[r].offset
    /\ created' = (created \/ app[r].offset > 0)
    /\ refunds' = refunds + app[r].offset
    /\ refund'  = [refund EXCEPT ![r] = @ + app[r].offset]

Write(r) ==
    /\ flush[r] = "armed"
    /\ SaveTime(r) /\ Refund(r)
    /\ Step(r, "written")
    /\ UNCHANGED <<now, cache, timers, reqVars, crashes, chargeVars, grants>>

\* Exec fails after none, one or both commands were done: no retry, and the
\* tenant is not cached again.
WriteFails(r) ==
    /\ flush[r] = "armed"
    /\ \/ SaveTime(r) /\ Refund(r)
       \/ SaveTime(r) /\ UNCHANGED <<bucket, paidVars>>
       \/ UNCHANGED <<bucket, last, paidVars>>
    /\ Step(r, "failed")
    /\ UNCHANGED <<now, cache, timers, reqVars, crashes, chargeVars, grants>>

\* Mutant: the offset that was saved stays in the tenant.
SaveKeepingOffset(r) ==
    /\ flush[r] = "written"
    /\ cache' = [cache EXCEPT ![ProxyOf[r]] = app[r]]
    /\ Step(r, "saved")
    /\ UNCHANGED <<redisVars, timers, reqVars, crashes, ghostVars>>

\* The copy, less what was saved, becomes the cached tenant.
Save(r) ==
    LET kept == IF app[r].offset > 0 THEN NewApp ELSE app[r] IN
    /\ flush[r] = "written"
    /\ app'   = [app EXCEPT ![r] = kept]
    /\ cache' = [cache EXCEPT ![ProxyOf[r]] = kept]
    /\ Step(r, "saved")
    /\ UNCHANGED <<redisVars, timers, pc, crashes, ghostVars>>

\* The deferred Delete removes whichever timer is stored; the copy is gone.
Disarm(r) ==
    /\ flush[r] \in {"saved", "failed"}
    /\ timers' = [timers EXCEPT ![ProxyOf[r]] = FALSE]
    /\ Step(r, IF flush[r] = "saved" THEN "done" ELSE "lost")
    /\ Drop(r)
    /\ UNCHANGED <<redisVars, cache, pc, crashes, ghostVars>>

-----------------------------------------------------------------------------
\* bigcache drops the tenant when its window is over.
Expire(p) ==
    /\ cache[p].known
    /\ cache' = [cache EXCEPT ![p] = NoApp]
    /\ UNCHANGED <<redisVars, timers, reqVars, flush, crashes, ghostVars>>

Running  == {"loading", "fetched", "admitted", "counted", "uncounted"}
Flushing == {"spawned", "armed", "written", "saved", "failed"}

\* A proxy dies and is started again: its requests, reports, timers and
\* tenants are gone, what redis was told stays.
Crash(p) ==
    /\ crashes < MaxCrashes
    /\ crashes' = crashes + 1
    /\ pc' = [r \in Request |->
                 IF ProxyOf[r] = p /\ pc[r] \in Running THEN "failed"
                 ELSE pc[r]]
    /\ flush' = [r \in Request |->
                    IF ProxyOf[r] = p /\ flush[r] \in Flushing THEN "lost"
                    ELSE flush[r]]
    /\ app' = [r \in Request |-> IF ProxyOf[r] = p THEN NoApp ELSE app[r]]
    /\ timers' = [timers EXCEPT ![p] = FALSE]
    /\ cache' = [cache EXCEPT ![p] = NoApp]
    /\ UNCHANGED <<redisVars, ghostVars>>

Tick ==
    /\ now < MaxTime
    /\ now' = now + 1
    /\ UNCHANGED <<bucket, last, cache, timers, reqVars, flush, crashes,
                   ghostVars>>

Serve(r) ==
    \/ Reject(r) \/ Hit(r) \/ Miss(r) \/ Load(r) \/ LoadFails(r)
    \/ Balance(r) \/ BalanceFails(r)
    \/ Respond(r) \/ Panic(r) \/ Affected(r) \/ Unaffected(r)

Flush(r) == Arm(r) \/ Write(r) \/ WriteFails(r) \/ Save(r) \/ Disarm(r)

Next ==
    \/ \E r \in Request : Serve(r) \/ Flush(r)
    \/ \E p \in Proxy : Expire(p) \/ Crash(p)
    \/ Tick

Spec == Init /\ [][Next]_vars

-----------------------------------------------------------------------------
(* Properties                                                              *)

Apps == [known : BOOLEAN, last : Int, offset : Nat]

TypeOK ==
    /\ now     \in Nat
    /\ created \in BOOLEAN
    /\ balance \in Int
    /\ last    \in Nat
    /\ cache   \in [Proxy -> Apps]
    /\ timers  \in [Proxy -> BOOLEAN]
    /\ pc      \in [Request -> Steps]
    /\ app     \in [Request -> Apps]
    /\ flush   \in [Request -> Flushes]
    /\ crashes \in Nat
    /\ charges \in Nat /\ grants \in Nat
    /\ refunds \in Nat /\ refund \in [Request -> Nat]
    /\ recovered \in Nat /\ twice \in BOOLEAN

\* The bucket's first Capacity charges are all granted: however late or
\* skewed the saved times are, a refused request means that more than
\* Capacity were charged.
CapacityIsGranted ==
    (\E r \in Request : pc[r] = "refused") => charges > Capacity

\* The bucket grants no more than its capacity, what it recovers and what is
\* given back, unless the script recovers for the same time in two charges
\* (its "last" is not the time of a charge but a saved time of an answer).
GrantsAreBounded ==
    Limited /\ ~twice => grants <= Capacity + refunds + Rate * (now - Start)

\* A request that did not count is given back at most once, and one that did
\* never, whatever the copies of the tenant that are saved and cached again.
RefundedOnce ==
    \A r \in Request :
        /\ refund[r] <= 1
        /\ refund[r] = 1 => pc[r] = "unaffected"

\* Another goroutine of the proxy had stored its timer when r reported.
Suppressed(r) ==
    /\ flush[r] = "none"
    /\ \E q \in Request \ {r} :
           ProxyOf[q] = ProxyOf[r] /\ flush[q] \notin {"none", "spawned"}

\* A request that did not count is given back by its own goroutine, and lost
\* only for one of three reasons: another goroutine's timer was stored when
\* it reported, so it has none; its pipeline failed; or its proxy crashed.
LostOffsetsExplained ==
    \A r \in Request :
        pc[r] = "unaffected" /\ refund[r] = 0
            => \/ flush[r] \in {"spawned", "armed"}
               \/ Suppressed(r)
               \/ flush[r] \in {"failed", "lost"}
=============================================================================
