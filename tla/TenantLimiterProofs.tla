------------------------- MODULE TenantLimiterProofs -------------------------
(***************************************************************************)
(* Theorems about TenantLimiter, for every number of requests and proxies, *)
(* every capacity, rate and lead of the proxies' clocks.                   *)
(***************************************************************************)
EXTENDS TenantLimiter, TLAPS

LEMMA RecoveryIsNat ==
  ASSUME NEW t \in Nat, NEW n \in Nat PROVE t * n \in Nat
OBVIOUS

\* The time recovered for is never negative, whatever is saved as "last".
LEMMA SinceIsPast ==
  ASSUME now \in Nat, last \in Nat PROVE Since \in Nat /\ now - Since \in Nat
BY DEF Since, Smaller

\* A charge leaves at least what the balance held, less one, up to the cap.
LEMMA ChargeTakesOne ==
  ASSUME now \in Nat, last \in Nat, balance \in Int, Limited
  PROVE  LET held == IF created THEN balance ELSE Capacity IN
         /\ Charged \in Int /\ Charged < Capacity
         /\ Charged >= Smaller(Capacity - 1, held - 1)
<1>. USE RateAssumption
<1>. DEFINE held == IF created THEN balance ELSE Capacity
            released == (now - Since) * Rate
<1>1. released \in Nat
  BY SinceIsPast, RecoveryIsNat DEF Limited
<1>2. held \in Int
  OBVIOUS
<1>3. Charged = Smaller(Capacity - 1, held - 1 + released)
  BY DEF Charged
<1>. HIDE DEF held, released
<1>4. Charged \in Int /\ Charged < Capacity
      /\ Charged >= Smaller(Capacity - 1, held - 1)
  BY <1>1, <1>2, <1>3 DEF Smaller
<1>. QED
  BY <1>4 DEF held

\* Init and every step keep the type; a charge is an integer.
LEMMA ChargeType ==
  ASSUME TypeOK, Charge
  PROVE  /\ balance' \in Int /\ created' \in BOOLEAN /\ charges' \in Nat
         /\ recovered' \in Nat /\ twice' \in BOOLEAN
<1>1. CASE Limited
  BY <1>1, ChargeTakesOne DEF Charge, TypeOK
<1>2. CASE ~Limited
  BY <1>2 DEF Charge, TypeOK, bucket, chargeVars
<1>. QED
  BY <1>1, <1>2

LEMMA TypeInit == Init => TypeOK
<1>1. NoApp \in Apps
  BY DEF NoApp, Apps
<1>. SUFFICES ASSUME Init PROVE TypeOK
  OBVIOUS
<1>2. /\ now \in Nat /\ last \in Nat /\ charges \in Nat /\ refunds \in Nat
      /\ balance \in Int /\ crashes \in Nat /\ grants \in Nat
      /\ recovered \in Nat
  BY RateAssumption DEF Init
<1>3. cache \in [Proxy -> Apps] /\ app \in [Request -> Apps]
  BY <1>1 DEF Init
<1>4. pc \in [Request -> Steps] /\ flush \in [Request -> Flushes]
  BY DEF Init, Steps, Flushes
<1>5. /\ timers \in [Proxy -> BOOLEAN] /\ created \in BOOLEAN
      /\ refund \in [Request -> Nat] /\ twice \in BOOLEAN
  BY DEF Init
<1>. QED
  BY <1>2, <1>3, <1>4, <1>5 DEF TypeOK

\* What dropping a copy, a report and a pipeline do to the types.
LEMMA DropType ==
  ASSUME TypeOK, NEW r \in Request, Drop(r) PROVE app' \in [Request -> Apps]
<1>1. NoApp \in Apps
  BY DEF NoApp, Apps
<1>2. app \in [Request -> Apps]
  BY DEF TypeOK
<1>. QED
  BY <1>1, <1>2 DEF Drop

LEMMA DebounceType ==
  ASSUME TypeOK, NEW r \in Request, NEW copy \in Apps, Debounce(r, copy)
  PROVE  app' \in [Request -> Apps] /\ flush' \in [Request -> Flushes]
<1>1. NoApp \in Apps
  BY DEF NoApp, Apps
<1>2. app \in [Request -> Apps] /\ flush \in [Request -> Flushes]
  BY DEF TypeOK
<1>3. "spawned" \in Flushes
  BY DEF Flushes
<1>. QED
  BY <1>1, <1>2, <1>3 DEF Debounce, Drop

LEMMA PipelineType ==
  ASSUME TypeOK, NEW r \in Request
  PROVE  /\ SaveTime(r) => last' \in Nat
         /\ Refund(r) => /\ balance' \in Int /\ created' \in BOOLEAN
                         /\ refunds' \in Nat /\ refund' \in [Request -> Nat]
<1>1. app[r].last \in Int /\ app[r].offset \in Nat
  BY DEF TypeOK, Apps
<1>2. /\ last \in Nat /\ balance \in Int /\ created \in BOOLEAN
      /\ refunds \in Nat /\ refund \in [Request -> Nat]
  BY DEF TypeOK
<1>3. SaveTime(r) => last' \in Nat
  BY <1>1, <1>2 DEF SaveTime
<1>4. Refund(r) => balance' \in Int /\ refunds' \in Nat
  BY <1>1, <1>2 DEF Refund
<1>5. Refund(r) => created' \in BOOLEAN
  BY DEF Refund
<1>6. Refund(r) => refund' \in [Request -> Nat]
  BY <1>1, <1>2 DEF Refund
<1>. QED
  BY <1>3, <1>4, <1>5, <1>6

LEMMA TypeStep == TypeOK /\ [Next]_vars => TypeOK'
<1>. SUFFICES ASSUME TypeOK, [Next]_vars PROVE TypeOK'
  OBVIOUS
<1>. USE ProxyAssumption, RateAssumption
     DEF TypeOK, Apps, Steps, Flushes, NoApp, NewApp, bucket, redisVars,
         reqVars, ghostVars, chargeVars, paidVars
<1>1. ASSUME NEW r \in Request, Reject(r) PROVE TypeOK'
  BY <1>1 DEF Reject, Goto
<1>2. ASSUME NEW r \in Request, Hit(r) PROVE TypeOK'
  BY <1>2 DEF Hit, Goto
<1>3. ASSUME NEW r \in Request, Miss(r) PROVE TypeOK'
  BY <1>3 DEF Miss, Goto
<1>4. ASSUME NEW r \in Request, Load(r) PROVE TypeOK'
  BY <1>4 DEF Load, Goto
<1>5. ASSUME NEW r \in Request, LoadFails(r) PROVE TypeOK'
  BY <1>5 DEF LoadFails, Goto
<1>6. ASSUME NEW r \in Request, Balance(r) PROVE TypeOK'
  <2>1. /\ balance' \in Int /\ created' \in BOOLEAN /\ charges' \in Nat
        /\ recovered' \in Nat /\ twice' \in BOOLEAN
    BY <1>6, ChargeType DEF Balance
  <2>2. grants' \in Nat /\ app' \in [Request -> Apps]
    BY <1>6, DropType DEF Balance
  <2>3. pc' \in [Request -> Steps]
    BY <1>6 DEF Balance, Goto
  <2>. QED
    BY <1>6, <2>1, <2>2, <2>3 DEF Balance
<1>7. ASSUME NEW r \in Request, BalanceFails(r) PROVE TypeOK'
  <2>1. /\ balance' \in Int /\ created' \in BOOLEAN /\ charges' \in Nat
        /\ recovered' \in Nat /\ twice' \in BOOLEAN
    BY <1>7, ChargeType DEF BalanceFails
  <2>. QED
    BY <1>7, <2>1 DEF BalanceFails, Goto, Drop
<1>8. ASSUME NEW r \in Request, Respond(r) PROVE TypeOK'
  BY <1>8 DEF Respond, Goto
<1>9. ASSUME NEW r \in Request, Panic(r) PROVE TypeOK'
  BY <1>9 DEF Panic, Goto, Drop
<1>10. ASSUME NEW r \in Request, Affected(r) PROVE TypeOK'
  <2>1. [app[r] EXCEPT !.last = now + Skew[ProxyOf[r]]] \in Apps
    OBVIOUS
  <2>2. app' \in [Request -> Apps] /\ flush' \in [Request -> Flushes]
    BY <1>10, <2>1, DebounceType DEF Affected
  <2>. QED
    BY <1>10, <2>2 DEF Affected, Goto
<1>11. ASSUME NEW r \in Request, Unaffected(r) PROVE TypeOK'
  <2>1. [app[r] EXCEPT !.offset = @ + 1] \in Apps
    OBVIOUS
  <2>2. app' \in [Request -> Apps] /\ flush' \in [Request -> Flushes]
    BY <1>11, <2>1, DebounceType DEF Unaffected
  <2>. QED
    BY <1>11, <2>2 DEF Unaffected, Goto
<1>12. ASSUME NEW r \in Request, Arm(r) PROVE TypeOK'
  BY <1>12 DEF Arm, Step
<1>13. ASSUME NEW r \in Request, Write(r) PROVE TypeOK'
  BY <1>13, PipelineType DEF Write, Step
<1>14. ASSUME NEW r \in Request, WriteFails(r) PROVE TypeOK'
  BY <1>14, PipelineType DEF WriteFails, Step
<1>15. ASSUME NEW r \in Request, Save(r) PROVE TypeOK'
  BY <1>15 DEF Save, Step
<1>16. ASSUME NEW r \in Request, Disarm(r) PROVE TypeOK'
  BY <1>16 DEF Disarm, Step, Drop
<1>17. ASSUME NEW p \in Proxy, Expire(p) PROVE TypeOK'
  BY <1>17 DEF Expire
<1>18. ASSUME NEW p \in Proxy, Crash(p) PROVE TypeOK'
  BY <1>18 DEF Crash
<1>19. CASE Tick
  BY <1>19 DEF Tick
<1>20. CASE UNCHANGED vars
  BY <1>20 DEF vars
<1>. QED
  BY <1>1, <1>2, <1>3, <1>4, <1>5, <1>6, <1>7, <1>8, <1>9, <1>10, <1>11,
     <1>12, <1>13, <1>14, <1>15, <1>16, <1>17, <1>18, <1>19, <1>20
  DEF Next, Serve, Flush

\* The state is of its type at every step: the variables of TypeOK.
THEOREM TypeCorrect == Spec => []TypeOK
BY TypeInit, TypeStep, PTL DEF Spec

-----------------------------------------------------------------------------
(* The first Capacity charges of a bucket are granted.                     *)

\* A request that may be given back was charged, so a refund finds the
\* balance; and the balance is behind the capacity by no more than the
\* charges made.
ChargedBefore ==
    /\ \A r \in Request : pc[r] \in {"admitted", "uncounted"}
                            \/ app[r].offset > 0 => created
    /\ \A p \in Proxy : cache[p].offset = 0
    /\ ~created => charges = 0

BalanceInv ==
    Limited => ChargedBefore /\ (created => balance >= Capacity - charges)

LEMMA ChargeKeepsBalance ==
  ASSUME TypeOK, BalanceInv, Limited, Charge
  PROVE  /\ created' /\ charges' = charges + 1
         /\ balance' = Charged /\ balance' >= Capacity - charges'
<1>1. Charged \in Int /\ Charged >= Capacity - (charges + 1)
  BY ChargeTakesOne, RateAssumption
  DEF TypeOK, BalanceInv, ChargedBefore, Smaller
<1>. QED
  BY <1>1 DEF Charge

LEMMA GrantStep ==
  TypeOK /\ BalanceInv /\ CapacityIsGranted /\ [Next]_vars
    => (BalanceInv /\ CapacityIsGranted)'
<1>. SUFFICES ASSUME TypeOK, BalanceInv, CapacityIsGranted, [Next]_vars
              PROVE  (BalanceInv /\ CapacityIsGranted)'
  OBVIOUS
<1>. DEFINE I == BalanceInv /\ CapacityIsGranted
<1>. USE ProxyAssumption, RateAssumption
     DEF TypeOK, BalanceInv, ChargedBefore, CapacityIsGranted, Apps, Steps,
         NoApp, NewApp, Limited, bucket, redisVars, reqVars, ghostVars,
         chargeVars, paidVars
<1>1. ASSUME NEW r \in Request, Reject(r) PROVE I'
  BY <1>1 DEF Reject, Goto
<1>2. ASSUME NEW r \in Request, Hit(r) PROVE I'
  BY <1>2 DEF Hit, Goto
<1>3. ASSUME NEW r \in Request, Miss(r) PROVE I'
  BY <1>3 DEF Miss, Goto
<1>4. ASSUME NEW r \in Request, Load(r) PROVE I'
  BY <1>4 DEF Load, Goto
<1>5. ASSUME NEW r \in Request, LoadFails(r) PROVE I'
  BY <1>5 DEF LoadFails, Goto
<1>6. ASSUME NEW r \in Request, Balance(r) PROVE I'
  <2>1. CASE Limited
    <3>1. /\ created' /\ charges' = charges + 1
          /\ balance' = Charged /\ balance' >= Capacity - charges'
      BY <1>6, <2>1, ChargeKeepsBalance DEF Balance
    <3>2. pc'[r] = "refused" => charges' > Capacity
      BY <1>6, <2>1, <3>1, ChargeTakesOne DEF Balance, Goto, Refused, Reply
    <3>3. \A q \in Request \ {r} : pc'[q] = pc[q]
      BY <1>6 DEF Balance, Goto
    <3>4. \A p \in Proxy : cache'[p] = cache[p]
      BY <1>6 DEF Balance
    <3>. HIDE DEF Limited
    <3>. QED
      BY <3>1, <3>2, <3>3, <3>4
  <2>2. CASE ~Limited
    BY <1>6, <2>2 DEF Balance, Goto, Refused, Reply, Charge
  <2>. QED
    BY <2>1, <2>2
<1>7. ASSUME NEW r \in Request, BalanceFails(r) PROVE I'
  <2>1. CASE Limited /\ Charge
    <3>1. /\ created' /\ charges' = charges + 1
          /\ balance' >= Capacity - charges'
      BY <2>1, ChargeKeepsBalance
    <3>2. \A q \in Request \ {r} : pc'[q] = pc[q]
      BY <1>7 DEF BalanceFails, Goto
    <3>3. cache' = cache /\ pc'[r] = "failed"
      BY <1>7 DEF BalanceFails, Goto
    <3>. QED
      BY <3>1, <3>2, <3>3
  <2>2. CASE UNCHANGED <<bucket, chargeVars>>
    BY <1>7, <2>2 DEF BalanceFails, Goto, Drop
  <2>. QED
    BY <1>7, <2>1, <2>2 DEF BalanceFails, Charge
<1>8. ASSUME NEW r \in Request, Respond(r) PROVE I'
  BY <1>8 DEF Respond, Goto
<1>9. ASSUME NEW r \in Request, Panic(r) PROVE I'
  BY <1>9 DEF Panic, Goto, Drop
<1>10. ASSUME NEW r \in Request, Affected(r) PROVE I'
  BY <1>10 DEF Affected, Debounce, Drop, Goto
<1>11. ASSUME NEW r \in Request, Unaffected(r) PROVE I'
  BY <1>11 DEF Unaffected, Debounce, Drop, Goto
<1>12. ASSUME NEW r \in Request, Arm(r) PROVE I'
  BY <1>12 DEF Arm
<1>13. ASSUME NEW r \in Request, Write(r) PROVE I'
  BY <1>13 DEF Write, SaveTime, Refund
<1>14. ASSUME NEW r \in Request, WriteFails(r) PROVE I'
  BY <1>14 DEF WriteFails, SaveTime, Refund
<1>15. ASSUME NEW r \in Request, Save(r) PROVE I'
  BY <1>15 DEF Save
<1>16. ASSUME NEW r \in Request, Disarm(r) PROVE I'
  BY <1>16 DEF Disarm, Drop
<1>17. ASSUME NEW p \in Proxy, Expire(p) PROVE I'
  BY <1>17 DEF Expire
<1>18. ASSUME NEW p \in Proxy, Crash(p) PROVE I'
  BY <1>18 DEF Crash
<1>19. CASE Tick
  BY <1>19 DEF Tick
<1>20. CASE UNCHANGED vars
  BY <1>20 DEF vars
<1>. QED
  BY <1>1, <1>2, <1>3, <1>4, <1>5, <1>6, <1>7, <1>8, <1>9, <1>10, <1>11,
     <1>12, <1>13, <1>14, <1>15, <1>16, <1>17, <1>18, <1>19, <1>20
  DEF Next, Serve, Flush

LEMMA BalanceCorrect == Spec => [](BalanceInv /\ CapacityIsGranted)
<1>1. Init => BalanceInv /\ CapacityIsGranted
  BY DEF Init, BalanceInv, ChargedBefore, CapacityIsGranted, NoApp
<1>. QED
  BY <1>1, GrantStep, TypeCorrect, PTL DEF Spec

\* A request is refused only after more than Capacity were charged.
THEOREM CapacityGranted == Spec => []CapacityIsGranted
BY BalanceCorrect, PTL

-----------------------------------------------------------------------------
(* Where an offset is, from the report that counts it to redis.            *)

\* Only a request that did not count has an offset, one, until its goroutine
\* has given it back; a copy in a cache has none.
OffsetHeld ==
    /\ \A p \in Proxy : cache[p].offset = 0
    /\ \A r \in Request :
        /\ pc[r] \notin {"affected", "unaffected"} => flush[r] = "none"
        /\ pc[r] # "unaffected" => app[r].offset = 0 /\ refund[r] = 0
        /\ flush[r] = "none" => app[r].offset = 0 /\ refund[r] = 0
        /\ pc[r] = "unaffected" /\ flush[r] \in {"spawned", "armed"}
              => app[r].offset = 1 /\ refund[r] = 0
        /\ pc[r] = "unaffected" /\ flush[r] \in {"written", "saved", "done"}
              => refund[r] = 1
        /\ refund[r] <= 1

\* A stored timer has a goroutine that stored one; a request that reported
\* and has no goroutine was suppressed.
TimerHasOwner ==
    /\ \A p \in Proxy : timers[p] =>
          \E q \in Request : ProxyOf[q] = p /\ flush[q] \notin {"none", "spawned"}
    /\ \A r \in Request : pc[r] \in {"affected", "unaffected"}
          => flush[r] # "none" \/ Suppressed(r)

OffsetInv == OffsetHeld /\ TimerHasOwner

LEMMA HeldStep == TypeOK /\ OffsetHeld /\ [Next]_vars => OffsetHeld'
<1>. SUFFICES ASSUME TypeOK, OffsetHeld, [Next]_vars PROVE OffsetHeld'
  OBVIOUS
<1>. USE ProxyAssumption
     DEF TypeOK, OffsetHeld, Apps, Steps, Flushes, NoApp, NewApp, Goto,
         redisVars, reqVars, ghostVars, chargeVars, paidVars
<1>1. ASSUME NEW r \in Request, Reject(r) PROVE OffsetHeld'
  BY <1>1 DEF Reject
<1>2. ASSUME NEW r \in Request, Hit(r) PROVE OffsetHeld'
  BY <1>2 DEF Hit
<1>3. ASSUME NEW r \in Request, Miss(r) PROVE OffsetHeld'
  BY <1>3 DEF Miss
<1>4. ASSUME NEW r \in Request, Load(r) PROVE OffsetHeld'
  BY <1>4 DEF Load
<1>5. ASSUME NEW r \in Request, LoadFails(r) PROVE OffsetHeld'
  BY <1>5 DEF LoadFails
<1>6. ASSUME NEW r \in Request, Balance(r) PROVE OffsetHeld'
  BY <1>6 DEF Balance, Drop
<1>7. ASSUME NEW r \in Request, BalanceFails(r) PROVE OffsetHeld'
  BY <1>7 DEF BalanceFails, Drop
<1>8. ASSUME NEW r \in Request, Respond(r) PROVE OffsetHeld'
  BY <1>8 DEF Respond
<1>9. ASSUME NEW r \in Request, Panic(r) PROVE OffsetHeld'
  BY <1>9 DEF Panic, Drop
<1>10. ASSUME NEW r \in Request, Affected(r) PROVE OffsetHeld'
  BY <1>10 DEF Affected, Debounce, Drop
<1>11. ASSUME NEW r \in Request, Unaffected(r) PROVE OffsetHeld'
  BY <1>11 DEF Unaffected, Debounce, Drop
<1>12. ASSUME NEW r \in Request, Arm(r) PROVE OffsetHeld'
  BY <1>12 DEF Arm, Step
<1>13. ASSUME NEW r \in Request, Write(r) PROVE OffsetHeld'
  BY <1>13 DEF Write, Refund, Step
<1>14. ASSUME NEW r \in Request, WriteFails(r) PROVE OffsetHeld'
  BY <1>14 DEF WriteFails, Refund, Step
<1>15. ASSUME NEW r \in Request, Save(r) PROVE OffsetHeld'
  BY <1>15 DEF Save, Step
<1>16. ASSUME NEW r \in Request, Disarm(r) PROVE OffsetHeld'
  BY <1>16 DEF Disarm, Step, Drop
<1>17. ASSUME NEW p \in Proxy, Expire(p) PROVE OffsetHeld'
  BY <1>17 DEF Expire
<1>18. ASSUME NEW p \in Proxy, Crash(p) PROVE OffsetHeld'
  BY <1>18 DEF Crash, Running, Flushing
<1>19. CASE Tick
  BY <1>19 DEF Tick
<1>20. CASE UNCHANGED vars
  BY <1>20 DEF vars
<1>. QED
  BY <1>1, <1>2, <1>3, <1>4, <1>5, <1>6, <1>7, <1>8, <1>9, <1>10, <1>11,
     <1>12, <1>13, <1>14, <1>15, <1>16, <1>17, <1>18, <1>19, <1>20
  DEF Next, Serve, Flush

\* A report leaves every other request as it was, and either finds the owner
\* of the stored timer or starts a goroutine of its own.
LEMMA ReportKeepsOwner ==
  ASSUME TypeOK, OffsetHeld, TimerHasOwner, NEW r \in Request,
         pc[r] \in {"counted", "uncounted"}, NEW copy, Debounce(r, copy),
         NEW step \in {"affected", "unaffected"}, Goto(r, step),
         UNCHANGED timers
  PROVE  TimerHasOwner'
<1>. USE ProxyAssumption DEF TypeOK, Suppressed
<1>1. flush[r] = "none"
  BY DEF OffsetHeld
<1>2. CASE timers[ProxyOf[r]]
  <2>1. flush' = flush
    BY <1>2 DEF Debounce
  <2>2. Suppressed(r)'
    BY <1>1, <1>2, <2>1 DEF TimerHasOwner
  <2>. QED
    BY <2>1, <2>2 DEF TimerHasOwner, Goto
<1>3. CASE ~timers[ProxyOf[r]]
  <2>1. flush' = [flush EXCEPT ![r] = "spawned"]
    BY <1>3 DEF Debounce
  <2>2. \A q \in Request \ {r} : flush'[q] = flush[q] /\ pc'[q] = pc[q]
    BY <2>1 DEF Goto
  <2>3. flush'[r] = "spawned"
    BY <2>1
  <2>4. \A q \in Request : pc'[q] \in {"affected", "unaffected"}
          => flush'[q] # "none" \/ Suppressed(q)'
    BY <1>1, <2>2, <2>3 DEF TimerHasOwner
  <2>5. \A p \in Proxy : timers[p] =>
          \E q \in Request : ProxyOf[q] = p /\ flush'[q] \notin {"none", "spawned"}
    BY <1>1, <2>2, <2>3 DEF TimerHasOwner
  <2>. QED
    BY <2>4, <2>5 DEF TimerHasOwner
<1>. QED
  BY <1>2, <1>3

LEMMA OwnerStep ==
  TypeOK /\ OffsetHeld /\ TimerHasOwner /\ [Next]_vars => TimerHasOwner'
<1>. SUFFICES ASSUME TypeOK, OffsetHeld, TimerHasOwner, [Next]_vars
              PROVE  TimerHasOwner'
  OBVIOUS
<1>. USE ProxyAssumption
     DEF TypeOK, TimerHasOwner, Suppressed, Steps, Flushes, Goto,
         redisVars, reqVars, ghostVars, chargeVars, paidVars
<1>1. ASSUME NEW r \in Request, Reject(r) PROVE TimerHasOwner'
  BY <1>1 DEF Reject
<1>2. ASSUME NEW r \in Request, Hit(r) PROVE TimerHasOwner'
  BY <1>2 DEF Hit
<1>3. ASSUME NEW r \in Request, Miss(r) PROVE TimerHasOwner'
  BY <1>3 DEF Miss
<1>4. ASSUME NEW r \in Request, Load(r) PROVE TimerHasOwner'
  BY <1>4 DEF Load
<1>5. ASSUME NEW r \in Request, LoadFails(r) PROVE TimerHasOwner'
  BY <1>5 DEF LoadFails
<1>6. ASSUME NEW r \in Request, Balance(r) PROVE TimerHasOwner'
  BY <1>6 DEF Balance, OffsetHeld
<1>7. ASSUME NEW r \in Request, BalanceFails(r) PROVE TimerHasOwner'
  BY <1>7 DEF BalanceFails, OffsetHeld
<1>8. ASSUME NEW r \in Request, Respond(r) PROVE TimerHasOwner'
  BY <1>8 DEF Respond
<1>9. ASSUME NEW r \in Request, Panic(r) PROVE TimerHasOwner'
  BY <1>9 DEF Panic, OffsetHeld
<1>10. ASSUME NEW r \in Request, Affected(r) PROVE TimerHasOwner'
  BY <1>10, ReportKeepsOwner DEF Affected
<1>11. ASSUME NEW r \in Request, Unaffected(r) PROVE TimerHasOwner'
  BY <1>11, ReportKeepsOwner DEF Unaffected
<1>12. ASSUME NEW r \in Request, Arm(r) PROVE TimerHasOwner'
  BY <1>12 DEF Arm, Step
<1>13. ASSUME NEW r \in Request, Write(r) PROVE TimerHasOwner'
  BY <1>13 DEF Write, Refund, Step
<1>14. ASSUME NEW r \in Request, WriteFails(r) PROVE TimerHasOwner'
  BY <1>14 DEF WriteFails, Refund, Step
<1>15. ASSUME NEW r \in Request, Save(r) PROVE TimerHasOwner'
  BY <1>15 DEF Save, Step
<1>16. ASSUME NEW r \in Request, Disarm(r) PROVE TimerHasOwner'
  BY <1>16 DEF Disarm, Step, Drop
<1>17. ASSUME NEW p \in Proxy, Expire(p) PROVE TimerHasOwner'
  BY <1>17 DEF Expire
<1>18. ASSUME NEW p \in Proxy, Crash(p) PROVE TimerHasOwner'
  BY <1>18 DEF Crash, Running, Flushing
<1>19. CASE Tick
  BY <1>19 DEF Tick
<1>20. CASE UNCHANGED vars
  BY <1>20 DEF vars
<1>. QED
  BY <1>1, <1>2, <1>3, <1>4, <1>5, <1>6, <1>7, <1>8, <1>9, <1>10, <1>11,
     <1>12, <1>13, <1>14, <1>15, <1>16, <1>17, <1>18, <1>19, <1>20
  DEF Next, Serve, Flush

LEMMA OffsetCorrect == Spec => []OffsetInv
<1>1. Init => OffsetInv
  BY ProxyAssumption
  DEF Init, OffsetInv, OffsetHeld, TimerHasOwner, NoApp
<1>2. TypeOK /\ OffsetInv /\ [Next]_vars => OffsetInv'
  BY HeldStep, OwnerStep DEF OffsetInv
<1>. QED
  BY <1>1, <1>2, TypeCorrect, PTL DEF Spec

\* A request that did not count is given back at most once, another never.
THEOREM NotRefundedTwice == Spec => []RefundedOnce
<1>1. TypeOK /\ OffsetInv => RefundedOnce
  BY DEF TypeOK, OffsetInv, OffsetHeld, RefundedOnce
<1>. QED
  BY <1>1, TypeCorrect, OffsetCorrect, PTL

\* An offset is lost only to a stored timer, a failed pipeline or a crash.
THEOREM OffsetsSettle == Spec => []LostOffsetsExplained
<1>1. TypeOK /\ OffsetInv => LostOffsetsExplained
  BY DEF TypeOK, Flushes, OffsetInv, OffsetHeld, TimerHasOwner,
         LostOffsetsExplained
<1>. QED
  BY <1>1, TypeCorrect, OffsetCorrect, PTL

-----------------------------------------------------------------------------
(* A bucket grants no more than its capacity, its recovery and the refunds.*)

\* What a bucket recovers from the start to time t.
Recovery(t) == Rate * (t - Start)

LEMMA RecoveryGrows ==
  ASSUME NEW s \in Int, NEW t \in Int, s <= t, Rate > 0
  PROVE  /\ Recovery(s) \in Int /\ Recovery(t) \in Int
         /\ Recovery(s) <= Recovery(t)
         /\ (t - s) * Rate = Recovery(t) - Recovery(s)
<1>. USE RateAssumption
<1>1. Recovery(s) \in Int /\ Recovery(t) \in Int
  BY DEF Recovery
<1>2. (t - s) * Rate = Recovery(t) - Recovery(s)
  BY DEF Recovery
<1>3. (t - s) * Rate \in Nat
  BY RecoveryIsNat
<1>. QED
  BY <1>1, <1>2, <1>3

\* As long as no time was recovered for twice, the balance is ahead of the
\* charges by no more than the recovery to the last charge and the refunds;
\* a request is granted when the charge leaves no less than 0.
GrantInv ==
    Limited =>
      /\ Start <= recovered /\ recovered <= now /\ grants <= charges
      /\ ~twice =>
           /\ created => balance <= Capacity - charges + refunds
                                      + Recovery(recovered)
           /\ grants <= Capacity + refunds + Recovery(recovered)

LEMMA ChargeKeepsBound ==
  ASSUME TypeOK, BalanceInv, GrantInv, Limited, Charge, ~twice'
  PROVE  Charged <= Capacity - charges' + refunds + Recovery(now)
<1>. USE RateAssumption DEF TypeOK
<1>. DEFINE held == IF created THEN balance ELSE Capacity
            released == (now - Since) * Rate
<1>1. ~twice /\ recovered <= Since /\ charges' = charges + 1
  <2>1. twice' = (twice \/ Since < recovered) /\ charges' = charges + 1
    BY DEF Charge
  <2>2. ~twice /\ ~(Since < recovered)
    BY <2>1
  <2>3. Since \in Int /\ recovered \in Int
    BY SinceIsPast
  <2>. HIDE DEF TypeOK
  <2>. QED
    BY <2>1, <2>2, <2>3
<1>2. Since \in Int /\ Since <= now /\ Rate > 0
  BY SinceIsPast DEF Limited
<1>3. /\ Recovery(Since) \in Int /\ Recovery(now) \in Int
      /\ released = Recovery(now) - Recovery(Since)
  BY <1>2, RecoveryGrows
<1>4. Recovery(recovered) \in Int /\ Recovery(recovered) <= Recovery(Since)
  BY <1>1, <1>2, RecoveryGrows
<1>5. Recovery(Start) = 0 /\ Recovery(Start) <= Recovery(recovered)
  <2>1. Recovery(Start) = 0
    BY DEF Recovery
  <2>. QED
    BY <1>2, <2>1, RecoveryGrows DEF GrantInv
<1>6. held \in Int /\ held <= Capacity - charges + refunds + Recovery(recovered)
  BY <1>1, <1>4, <1>5 DEF GrantInv, BalanceInv, ChargedBefore
<1>7. Charged = Smaller(Capacity - 1, held - 1 + released)
  BY DEF Charged
<1>. HIDE DEF held, released
<1>. QED
  BY <1>1, <1>3, <1>4, <1>6, <1>7 DEF Smaller

\* A charge and the decision on it keep the bound.
LEMMA GrantKeepsBound ==
  ASSUME TypeOK, BalanceInv, GrantInv, Limited, Charge, UNCHANGED <<now, paidVars>>,
         \/ UNCHANGED grants
         \/ grants' = grants + 1 /\ ~Refused
  PROVE  GrantInv'
<1>. USE RateAssumption DEF TypeOK
<1>1. /\ created' /\ balance' = Charged /\ Charged \in Int
      /\ charges' = charges + 1 /\ recovered' = now
  BY ChargeTakesOne DEF Charge
<1>2. UNCHANGED <<now, refunds>>
  BY DEF paidVars
<1>3. Start <= recovered' /\ recovered' <= now' /\ grants' <= charges'
  BY <1>1, <1>2 DEF GrantInv
<1>4. ASSUME ~twice'
      PROVE  /\ balance' <= Capacity - charges' + refunds' + Recovery(recovered')
             /\ grants' <= Capacity + refunds' + Recovery(recovered')
  <2>1. Charged <= Capacity - charges' + refunds + Recovery(now)
    BY <1>4, ChargeKeepsBound
  <2>2. Recovery(now) \in Int /\ Recovery(recovered) <= Recovery(now)
        /\ Recovery(recovered) \in Int
    BY RecoveryGrows DEF Limited, GrantInv
  <2>3. balance' <= Capacity - charges' + refunds' + Recovery(recovered')
    BY <1>1, <1>2, <2>1
  <2>4. CASE UNCHANGED grants
    <3>1. grants <= Capacity + refunds + Recovery(recovered)
      BY <1>4 DEF Charge, GrantInv
    <3>. QED
      BY <1>1, <1>2, <2>2, <2>3, <2>4, <3>1
  <2>5. CASE grants' = grants + 1 /\ ~Refused
    <3>1. Charged >= 0
      BY <1>1, <2>5 DEF Refused, Reply
    <3>. QED
      BY <1>1, <1>2, <1>3, <2>1, <2>2, <2>3, <2>5, <3>1
  <2>. QED
    BY <2>4, <2>5
<1>. QED
  BY <1>1, <1>3, <1>4 DEF GrantInv

\* A refund raises the balance and the bound alike.
LEMMA RefundKeepsBound ==
  ASSUME TypeOK, BalanceInv, GrantInv, Limited, NEW r \in Request, Refund(r),
         UNCHANGED <<now, chargeVars, grants>>
  PROVE  GrantInv'
<1>. USE RateAssumption DEF TypeOK
<1>1. app[r].offset \in Nat /\ (app[r].offset > 0 => created)
  BY DEF Apps, BalanceInv, ChargedBefore
<1>2. /\ balance' = balance + app[r].offset
      /\ refunds' = refunds + app[r].offset /\ created' = created
  BY <1>1 DEF Refund
<1>3. UNCHANGED <<now, charges, recovered, twice, grants>>
  BY DEF chargeVars
<1>4. Recovery(recovered) \in Int
  BY RecoveryGrows DEF Limited
<1>. QED
  BY <1>1, <1>2, <1>3, <1>4 DEF GrantInv

LEMMA BoundStep ==
  TypeOK /\ BalanceInv /\ GrantInv /\ [Next]_vars => GrantInv'
<1>. SUFFICES ASSUME TypeOK, BalanceInv, GrantInv, [Next]_vars, Limited
              PROVE  GrantInv'
  BY DEF GrantInv, Limited
<1>1. ASSUME UNCHANGED <<now, bucket, ghostVars>> PROVE GrantInv'
  BY <1>1 DEF GrantInv, bucket, ghostVars, chargeVars, paidVars
<1>2. ASSUME NEW r \in Request, Balance(r) PROVE GrantInv'
  <2>1. \/ UNCHANGED grants
        \/ grants' = grants + 1 /\ ~Refused
    BY <1>2 DEF Balance
  <2>. QED
    BY <1>2, <2>1, GrantKeepsBound DEF Balance
<1>3. ASSUME NEW r \in Request, BalanceFails(r) PROVE GrantInv'
  <2>1. CASE Charge
    BY <1>3, <2>1, GrantKeepsBound DEF BalanceFails
  <2>2. CASE UNCHANGED <<bucket, chargeVars>>
    BY <1>1, <1>3, <2>2 DEF BalanceFails, ghostVars
  <2>. QED
    BY <1>3, <2>1, <2>2 DEF BalanceFails
<1>4. ASSUME NEW r \in Request, Write(r) PROVE GrantInv'
  BY <1>4, RefundKeepsBound DEF Write
<1>5. ASSUME NEW r \in Request, WriteFails(r) PROVE GrantInv'
  <2>1. CASE Refund(r)
    BY <1>5, <2>1, RefundKeepsBound DEF WriteFails
  <2>2. CASE UNCHANGED <<bucket, paidVars>>
    BY <1>1, <1>5, <2>2 DEF WriteFails, ghostVars
  <2>. QED
    BY <1>5, <2>1, <2>2 DEF WriteFails
<1>6. CASE Tick
  BY <1>6 DEF Tick, GrantInv, TypeOK, bucket, ghostVars, chargeVars, paidVars
<1>7. ASSUME NEW r \in Request, Serve(r), ~Balance(r), ~BalanceFails(r)
      PROVE  GrantInv'
  BY <1>1, <1>7
  DEF Serve, Reject, Hit, Miss, Load, LoadFails, Respond, Panic, Affected,
      Unaffected, redisVars
<1>8. ASSUME NEW r \in Request, Arm(r) \/ Save(r) \/ Disarm(r) PROVE GrantInv'
  BY <1>1, <1>8 DEF Arm, Save, Disarm, redisVars
<1>9. ASSUME NEW p \in Proxy, Expire(p) \/ Crash(p) PROVE GrantInv'
  BY <1>1, <1>9 DEF Expire, Crash, redisVars
<1>10. CASE UNCHANGED vars
  BY <1>1, <1>10 DEF vars, redisVars
<1>. QED
  BY <1>2, <1>3, <1>4, <1>5, <1>6, <1>7, <1>8, <1>9, <1>10 DEF Next, Flush

\* Unless time is recovered for twice, grants stay within the capacity, what
\* is recovered since the start, and what is given back.
THEOREM GrantsBounded == Spec => []GrantsAreBounded
<1>1. Init => GrantInv
  <2>1. Limited => Recovery(Start) = 0
    BY RateAssumption DEF Recovery
  <2>. QED
    BY <2>1, RateAssumption DEF Init, GrantInv, Limited
<1>2. TypeOK /\ GrantInv => GrantsAreBounded
  <2>. SUFFICES ASSUME TypeOK, GrantInv, Limited, ~twice
                PROVE  grants <= Capacity + refunds + Rate * (now - Start)
    BY DEF GrantsAreBounded
  <2>1. /\ Recovery(recovered) \in Int /\ Recovery(now) \in Int
        /\ Recovery(recovered) <= Recovery(now)
    BY RecoveryGrows DEF TypeOK, GrantInv, Limited
  <2>2. grants <= Capacity + refunds + Recovery(now)
    BY <2>1, RateAssumption DEF TypeOK, GrantInv
  <2>. QED
    BY <2>2 DEF Recovery
<1>3. TypeOK /\ BalanceInv /\ GrantInv /\ [Next]_vars => GrantInv'
  BY BoundStep
<1>. QED
  BY <1>1, <1>2, <1>3, TypeCorrect, BalanceCorrect, PTL DEF Spec
=============================================================================
