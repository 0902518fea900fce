--------------------------- MODULE RetryLoopProofs ---------------------------
(***************************************************************************)
(* Theorems about RetryLoop, for all requests, endpoints and numbers of    *)
(* attempts.                                                               *)
(***************************************************************************)
EXTENDS RetryLoop, TLAPS

\* (i - 1) % l stays in the list, and the first l tries go through it.
LEMMA Modulo ==
    \A n \in Nat, l \in Nat \ {0} :
        /\ n % l \in 0 .. l - 1
        /\ n < l => n % l = n
  OBVIOUS

\* Whatever a query says, its attempts are within bounds.
LEMMA AttemptsTypes ==
  ASSUME NEW q \in Query PROVE Attempts(q) \in 1 .. MaxAttempts
<1>. USE AttemptsAssumption
<1>1. q.attempts \subseteq Int /\ q.maxRetryCount \subseteq Int
  BY DEF Query, Parameter
<1>2. ASSUME NEW p \in SUBSET Int, Positive(p) # {}
      PROVE  Capped(The(Positive(p))) \in 1 .. MaxAttempts
  <2>1. The(Positive(p)) \in Positive(p)
    BY <1>2 DEF The
  <2>2. The(Positive(p)) \in Int /\ The(Positive(p)) > 0
    BY <2>1 DEF Positive
  <2>. QED
    BY <2>2 DEF Capped
<1>. QED
  BY <1>1, <1>2 DEF Attempts

LEMMA ListTypes ==
  ASSUME NEW s \in Lists
  PROVE  s \in Seq(Endpoint) /\ s # <<>> /\ SubSeq(s, 1, 1) \in Seq(Endpoint)
         /\ SubSeq(s, 1, 1) # <<>>
<1>1. PICK n \in 1 .. Cardinality(Endpoint) : s \in [1 .. n -> Endpoint]
  BY DEF Lists
<1>2. n \in Nat /\ n >= 1
  BY <1>1
<1>3. s \in Seq(Endpoint) /\ Len(s) = n
  BY <1>1, <1>2
<1>. QED
  BY <1>2, <1>3

\* An endpoint is picked from the request's list.
LEMMA PickTypes ==
  ASSUME TypeOK, NEW r \in Request, pc[r] # "new"
  PROVE  /\ Len(order[r]) \in Nat \ {0}
         /\ tries[r] % Len(order[r]) \in 0 .. Len(order[r]) - 1
         /\ Pick(r) \in Endpoint
<1>1. order[r] \in Seq(Endpoint) /\ order[r] # <<>> /\ tries[r] \in Nat
  BY DEF TypeOK
<1>2. Len(order[r]) \in Nat \ {0}
  BY <1>1
<1>3. tries[r] % Len(order[r]) \in 0 .. Len(order[r]) - 1
  BY <1>1, <1>2, Modulo
<1>. QED
  BY <1>1, <1>2, <1>3 DEF Pick

LEMMA TypeInit == Init => TypeOK
  BY DEF Init, TypeOK, Steps, Result

LEMMA TypeStep == TypeOK /\ [Next]_vars => TypeOK'
<1>. SUFFICES ASSUME TypeOK, [Next]_vars PROVE TypeOK'
  OBVIOUS
<1>. USE DEF TypeOK, Steps, loopVars, Goto
<1>1. ASSUME NEW r \in Request, Begin(r) PROVE TypeOK'
  <2>1. PICK q \in Query, s \in Lists :
          /\ order' = [order EXCEPT ![r] =
                  IF AttemptStrategy(q) = "same" THEN SubSeq(s, 1, 1) ELSE s]
          /\ attempts' = [attempts EXCEPT ![r] = Attempts(q)]
          /\ expired' = IF Timeout(q) > 0 THEN expired ELSE expired \union {r}
    BY <1>1 DEF Begin
  <2>2. PICK t \in Seq(Endpoint) : t # <<>> /\ order' = [order EXCEPT ![r] = t]
    BY <2>1, ListTypes
  <2>3. Attempts(q) \in Nat
    BY AttemptsTypes, AttemptsAssumption
  <2>4. attempts' \in [Request -> Nat]
    BY <2>1, <2>3
  <2>5. order' \in [Request -> Seq(Endpoint)]
        /\ \A p \in Request : pc'[p] # "new" => order'[p] # <<>>
    BY <1>1, <2>2 DEF Begin
  <2>6. expired' \in SUBSET Request
    BY <2>1
  <2>. QED
    BY <1>1, <2>4, <2>5, <2>6 DEF Begin
<1>2. ASSUME NEW r \in Request, NoClient(r) PROVE TypeOK'
  <2>1. Pick(r) \in Endpoint
    BY <1>2, PickTypes DEF NoClient, MayTry
  <2>. QED
    BY <1>2, <2>1 DEF NoClient, MayTry
<1>3. ASSUME NEW r \in Request, Call(r) PROVE TypeOK'
  <2>1. Pick(r) \in Endpoint
    BY <1>3, PickTypes DEF Call, MayTry
  <2>2. mode' \in [Request -> {"none", "full", "probe", "dead"}]
    BY <1>3 DEF Call
  <2>3. after' \in [Request -> Nat]
    BY <1>3 DEF Call
  <2>. QED
    BY <1>3, <2>1, <2>2, <2>3 DEF Call, MayTry
<1>4. ASSUME NEW r \in Request, NEW o \in Outcome, EndCall(r, o)
      PROVE  TypeOK'
  <2>1. Pick(r) \in Endpoint
    BY <1>4, PickTypes DEF EndCall
  <2>2. ResultOf(o) \in Result
    BY DEF ResultOf, Result, Outcome, Answer, Failure
  <2>3. health' \in [Endpoint \ Ws -> BOOLEAN]
    <3>1. Healthy(o) \in BOOLEAN
      BY DEF Healthy
    <3>. QED
      BY <1>4, <2>1, <3>1 DEF EndCall
  <2>. QED
    BY <1>4, <2>2, <2>3 DEF EndCall
<1>5. ASSUME NEW r \in Request, Exhausted(r) PROVE TypeOK'
  BY <1>5 DEF Exhausted
<1>6. ASSUME NEW r \in Request, Expire(r) PROVE TypeOK'
  BY <1>6 DEF Expire
<1>7. CASE UNCHANGED vars
  BY <1>7 DEF vars
<1>. QED
  BY <1>1, <1>2, <1>3, <1>4, <1>5, <1>6, <1>7 DEF Next

\* The state is of its type at every step; the index into the endpoints is
\* never out of range, whatever is left of them.
THEOREM TypeCorrect == Spec => []TypeOK
  BY TypeInit, TypeStep, PTL DEF Spec

-----------------------------------------------------------------------------
(* The deadline.                                                           *)

\* The one HTTP call past the deadline is the request's last.
LastCallInv ==
    \A r \in Request :
        \/ after[r] = 0
        \/ /\ after[r] = 1 /\ r \in expired
           /\ \/ pc[r] = "answered"
              \/ pc[r] = "calling" /\ mode[r] = "dead" /\ Pick(r) \notin Ws

LEMMA LastCallStep == TypeOK /\ LastCallInv /\ [Next]_vars => LastCallInv'
<1>. SUFFICES ASSUME TypeOK, LastCallInv, [Next]_vars PROVE LastCallInv'
  OBVIOUS
<1>. USE DEF TypeOK, LastCallInv, Pick, loopVars, Goto
<1>1. ASSUME NEW r \in Request, Begin(r) PROVE LastCallInv'
  <2>1. after[r] = 0 /\ \A q \in Request \ {r} : order'[q] = order[q]
    BY <1>1 DEF Begin
  <2>. QED
    BY <1>1, <2>1 DEF Begin
<1>2. ASSUME NEW r \in Request, NoClient(r) PROVE LastCallInv'
  BY <1>2 DEF NoClient, MayTry
<1>3. ASSUME NEW r \in Request, Call(r) PROVE LastCallInv'
  BY <1>3 DEF Call, MayTry
<1>4. ASSUME NEW r \in Request, NEW o \in Outcome, EndCall(r, o)
      PROVE  LastCallInv'
  <2>1. after[r] # 0 => Stops(o)
    BY <1>4 DEF EndCall, CanEnd, Stops
  <2>. QED
    BY <1>4, <2>1 DEF EndCall
<1>5. ASSUME NEW r \in Request, Exhausted(r) PROVE LastCallInv'
  BY <1>5 DEF Exhausted
<1>6. ASSUME NEW r \in Request, Expire(r) PROVE LastCallInv'
  BY <1>6 DEF Expire
<1>7. CASE UNCHANGED vars
  BY <1>7 DEF vars
<1>. QED
  BY <1>1, <1>2, <1>3, <1>4, <1>5, <1>6, <1>7 DEF Next

\* A request past its deadline begins at most one more HTTP call, however
\* many attempts and endpoints it has left.
THEOREM DeadlineStopsRetries == Spec => []OneCallPastDeadline
<1>1. Init => LastCallInv
  BY DEF Init, LastCallInv
<1>2. TypeOK /\ LastCallInv => OneCallPastDeadline
  BY DEF LastCallInv, OneCallPastDeadline
<1>. QED
  BY <1>1, <1>2, TypeCorrect, LastCallStep, PTL DEF Spec

-----------------------------------------------------------------------------
(* The rotation.                                                           *)

\* The tries made so far went through the list from its head; the loop is
\* left early only on a stop, or with a single endpoint.
RotationInv ==
    \A r \in Request :
        /\ \A k \in 1 .. Len(order[r]) : k <= tries[r] => order[r][k] \in asked[r]
        /\ pc[r] = "answered" =>
              \/ tries[r] >= attempts[r]
              \/ result[r] \in {"good", "empty", "timeout"}
              \/ Len(order[r]) = 1 /\ tries[r] >= 1
        /\ pc[r] = "calling" => Pick(r) \in asked[r]
        /\ pc[r] = "new" => tries[r] = 0

LEMMA NextTry ==
  ASSUME TypeOK, NEW r \in Request, pc[r] # "new", NEW A, Pick(r) \in A,
         \A k \in 1 .. Len(order[r]) : k <= tries[r] => order[r][k] \in A
  PROVE  \A k \in 1 .. Len(order[r]) : k <= tries[r] + 1 => order[r][k] \in A
<1>1. Len(order[r]) \in Nat \ {0} /\ tries[r] \in Nat
  BY PickTypes DEF TypeOK
<1>2. tries[r] < Len(order[r]) => tries[r] % Len(order[r]) = tries[r]
  BY <1>1, Modulo
<1>3. tries[r] < Len(order[r]) => order[r][tries[r] + 1] \in A
  BY <1>2 DEF Pick
<1>. QED
  BY <1>1, <1>3

LEMMA RotationStep == TypeOK /\ RotationInv /\ [Next]_vars => RotationInv'
<1>. SUFFICES ASSUME TypeOK, RotationInv, [Next]_vars PROVE RotationInv'
  OBVIOUS
<1>. USE DEF RotationInv, loopVars, Goto
<1>1. ASSUME NEW r \in Request, Begin(r) PROVE RotationInv'
  <2>1. tries[r] = 0 /\ tries' = tries /\ pc'[r] = "trying"
    BY <1>1 DEF Begin, TypeOK
  <2>2. ASSUME NEW q \in Request, q # r
        PROVE  order'[q] = order[q] /\ pc'[q] = pc[q] /\ attempts'[q] = attempts[q]
    BY <1>1, <2>2 DEF Begin, TypeOK
  <2>3. asked' = asked /\ result' = result
    BY <1>1 DEF Begin
  <2>4. ASSUME NEW k \in 1 .. Len(order'[r]) PROVE ~(k <= 0)
    OBVIOUS
  <2>. QED
    BY <2>1, <2>2, <2>3, <2>4 DEF Pick
<1>2. ASSUME NEW r \in Request, NoClient(r) PROVE RotationInv'
  <2>1. \A k \in 1 .. Len(order[r]) :
          k <= tries[r] + 1 => order[r][k] \in asked[r] \union {Pick(r)}
    BY <1>2, NextTry DEF NoClient, MayTry
  <2>2. /\ asked' = [asked EXCEPT ![r] = @ \union {Pick(r)}]
        /\ tries' = [tries EXCEPT ![r] = @ + 1]
        /\ pc' = [pc EXCEPT ![r] = IF Len(order[r]) = 1 THEN "answered" ELSE "trying"]
        /\ UNCHANGED <<order, attempts, result>>
    BY <1>2 DEF NoClient
  <2>3. tries'[r] = tries[r] + 1 /\ asked'[r] = asked[r] \union {Pick(r)} /\ tries[r] \in Nat
    BY <2>2 DEF TypeOK
  <2>4. pc'[r] = (IF Len(order[r]) = 1 THEN "answered" ELSE "trying")
    BY <2>2 DEF TypeOK
  <2>5. ASSUME NEW q \in Request, q # r
        PROVE  pc'[q] = pc[q] /\ tries'[q] = tries[q] /\ asked'[q] = asked[q]
    BY <2>2, <2>5 DEF TypeOK
  <2>. QED
    BY <2>1, <2>2, <2>3, <2>4, <2>5 DEF Pick
<1>3. ASSUME NEW r \in Request, Call(r) PROVE RotationInv'
  BY <1>3 DEF Call, MayTry, TypeOK, Pick
<1>4. ASSUME NEW r \in Request, NEW o \in Outcome, EndCall(r, o)
      PROVE  RotationInv'
  <2>1. \A k \in 1 .. Len(order[r]) :
          k <= tries[r] + 1 => order[r][k] \in asked[r]
    BY <1>4, NextTry DEF EndCall
  <2>2. Stops(o) => ResultOf(o) \in {"good", "empty", "timeout"}
    BY DEF Stops, ResultOf
  <2>. QED
    BY <1>4, <2>1, <2>2 DEF EndCall, TypeOK, Pick
<1>5. ASSUME NEW r \in Request, Exhausted(r) PROVE RotationInv'
  BY <1>5 DEF Exhausted, TypeOK, Pick
<1>6. ASSUME NEW r \in Request, Expire(r) PROVE RotationInv'
  BY <1>6 DEF Expire, Pick
<1>7. CASE UNCHANGED vars
  BY <1>7 DEF vars, Pick
<1>. QED
  BY <1>1, <1>2, <1>3, <1>4, <1>5, <1>6, <1>7 DEF Next

\* With as many attempts as endpoints, a request reports a failure other
\* than a timeout only after it has tried every endpoint of its list.
THEOREM RotationCovers == Spec => []RotationCoversAll
<1>1. Init => RotationInv
  BY DEF Init, RotationInv
<1>2. TypeOK /\ RotationInv => RotationCoversAll
  BY DEF TypeOK, RotationInv, RotationCoversAll
<1>. QED
  BY <1>1, <1>2, TypeCorrect, RotationStep, PTL DEF Spec

-----------------------------------------------------------------------------
(* The bounds of the tries.                                                *)

\* A request's attempts are those of its query, it stops at them, and it has
\* tried an endpoint before it counts a try.
TriesInv ==
    \A r \in Request :
        /\ tries[r] <= attempts[r] /\ attempts[r] <= MaxAttempts
        /\ IF pc[r] = "new" THEN tries[r] = 0 ELSE attempts[r] >= 1
        /\ pc[r] = "calling" => tries[r] < attempts[r]
        /\ pc[r] = "calling" \/ tries[r] >= 1 => asked[r] # {}
        /\ pc[r] = "answered" => tries[r] >= 1

LEMMA TriesStep == TypeOK /\ TriesInv /\ [Next]_vars => TriesInv'
<1>. SUFFICES ASSUME TypeOK, TriesInv, [Next]_vars PROVE TriesInv'
  OBVIOUS
<1>. USE AttemptsAssumption DEF TypeOK, TriesInv, loopVars, Goto
<1>1. ASSUME NEW r \in Request, Begin(r) PROVE TriesInv'
  <2>1. PICK q \in Query : attempts' = [attempts EXCEPT ![r] = Attempts(q)]
    BY <1>1 DEF Begin
  <2>2. attempts'[r] \in 1 .. MaxAttempts
    BY <2>1, AttemptsTypes
  <2>3. /\ tries' = tries /\ asked' = asked /\ pc'[r] = "trying"
        /\ tries[r] = 0
    BY <1>1 DEF Begin
  <2>. QED
    BY <1>1, <2>1, <2>2, <2>3 DEF Begin
<1>2. ASSUME NEW r \in Request, NoClient(r) PROVE TriesInv'
  <2>1. /\ tries[r] < attempts[r] /\ pc[r] = "trying"
        /\ asked'[r] = asked[r] \union {Pick(r)}
        /\ tries'[r] = tries[r] + 1 /\ attempts' = attempts
        /\ pc'[r] \in {"answered", "trying"}
    BY <1>2 DEF NoClient, MayTry
  <2>2. ASSUME NEW q \in Request, q # r
        PROVE  tries'[q] = tries[q] /\ asked'[q] = asked[q] /\ pc'[q] = pc[q]
    BY <1>2, <2>2 DEF NoClient
  <2>3. asked'[r] # {}
    BY <2>1
  <2>4. tries[r] \in Nat /\ attempts[r] \in Nat
    OBVIOUS
  <2>5. /\ tries'[r] <= attempts'[r] /\ attempts'[r] <= MaxAttempts
        /\ attempts'[r] >= 1 /\ tries'[r] >= 1
    BY <2>1, <2>4
  <2>6. ASSUME NEW q \in Request, q # r
        PROVE  attempts'[q] = attempts[q]
    BY <2>1
  <2>. HIDE DEF TypeOK
  <2>. QED
    BY <2>1, <2>2, <2>3, <2>5, <2>6
<1>3. ASSUME NEW r \in Request, Call(r) PROVE TriesInv'
  BY <1>3 DEF Call, MayTry
<1>4. ASSUME NEW r \in Request, NEW o \in Outcome, EndCall(r, o)
      PROVE  TriesInv'
  BY <1>4 DEF EndCall
<1>5. ASSUME NEW r \in Request, Exhausted(r) PROVE TriesInv'
  BY <1>5 DEF Exhausted
<1>6. ASSUME NEW r \in Request, Expire(r) PROVE TriesInv'
  BY <1>6 DEF Expire
<1>7. CASE UNCHANGED vars
  BY <1>7 DEF vars
<1>. QED
  BY <1>1, <1>2, <1>3, <1>4, <1>5, <1>6, <1>7 DEF Next

\* Whatever its query says, a request makes at least one try and at most
\* MaxAttempts.
THEOREM TriesBounded == Spec => []TriesAreBounded
<1>1. Init => TriesInv
  BY AttemptsAssumption DEF Init, TriesInv
<1>2. TypeOK /\ TriesInv => TriesAreBounded
  BY AttemptsAssumption DEF TypeOK, TriesInv, TriesAreBounded
<1>. QED
  BY <1>1, <1>2, TypeCorrect, TriesStep, PTL DEF Spec

-----------------------------------------------------------------------------
(* The steps a request has left.                                           *)

\* What the loop may still do for a request: two steps for each try left, and
\* the expiry of its deadline.
LoopLeft(r) ==
    CASE pc[r] = "new"      -> 2 * MaxAttempts + 2
      [] pc[r] = "trying"   -> 2 * (attempts[r] - tries[r]) + 1
      [] pc[r] = "calling"  -> 2 * (attempts[r] - tries[r])
      [] pc[r] = "answered" -> 0
StepsLeft(r) == LoopLeft(r) + IF r \in expired THEN 0 ELSE 1

\* A step is one of some request, has it closer to its end, and no other
\* request further from it.
StepCounts ==
    \E r \in Request :
        /\ StepsLeft(r)' < StepsLeft(r)
        /\ \A q \in Request \ {r} : StepsLeft(q)' = StepsLeft(q)

LEMMA StepsLeftTypes ==
  ASSUME TypeOK, TriesInv, NEW r \in Request
  PROVE  LoopLeft(r) \in Nat /\ StepsLeft(r) \in 0 .. 2 * MaxAttempts + 3
<1>1. /\ attempts[r] \in Nat /\ tries[r] \in Nat /\ tries[r] <= attempts[r]
      /\ attempts[r] <= MaxAttempts /\ MaxAttempts \in Nat
      /\ pc[r] \in Steps
  BY AttemptsAssumption DEF TypeOK, TriesInv
<1>2. LoopLeft(r) \in 0 .. 2 * MaxAttempts + 2
  <2>1. CASE pc[r] = "new"
    BY <1>1, <2>1 DEF LoopLeft
  <2>2. CASE pc[r] = "trying"
    BY <1>1, <2>2 DEF LoopLeft
  <2>3. CASE pc[r] = "calling"
    BY <1>1, <2>3 DEF LoopLeft
  <2>4. CASE pc[r] = "answered"
    BY <1>1, <2>4 DEF LoopLeft
  <2>. QED
    BY <1>1, <2>1, <2>2, <2>3, <2>4 DEF Steps
<1>. QED
  BY <1>1, <1>2 DEF StepsLeft

LEMMA NextStepsLeftTypes ==
  TypeOK' /\ TriesInv' => (\A r \in Request : LoopLeft(r) \in Nat)'
<1>1. TypeOK /\ TriesInv => \A r \in Request : LoopLeft(r) \in Nat
  BY StepsLeftTypes
<1>. QED
  BY <1>1, PTL

LEMMA StepCountsStep ==
  TypeOK /\ TriesInv /\ TriesInv' /\ TypeOK' /\ Next => StepCounts
<1>. SUFFICES ASSUME TypeOK, TriesInv, TriesInv', TypeOK', Next PROVE StepCounts
  OBVIOUS
<1>1. ASSUME NEW r \in Request,
             \A q \in Request \ {r} :
                 /\ pc'[q] = pc[q] /\ attempts'[q] = attempts[q]
                 /\ tries'[q] = tries[q] /\ (q \in expired' <=> q \in expired),
             \/ LoopLeft(r)' < LoopLeft(r) /\ (r \in expired => r \in expired')
             \/ LoopLeft(r)' = LoopLeft(r) /\ r \in expired' /\ r \notin expired
      PROVE  StepCounts
  <2>1. LoopLeft(r) \in Nat /\ LoopLeft(r)' \in Nat
    BY StepsLeftTypes, NextStepsLeftTypes
  <2>2. StepsLeft(r)' < StepsLeft(r)
    BY <1>1, <2>1 DEF StepsLeft
  <2>3. \A q \in Request \ {r} : StepsLeft(q)' = StepsLeft(q)
    BY <1>1 DEF StepsLeft, LoopLeft
  <2>. QED
    BY <2>2, <2>3 DEF StepCounts
<1>2. \A r \in Request : /\ attempts[r] \in Nat /\ tries[r] \in Nat
                         /\ tries[r] <= attempts[r] /\ attempts[r] <= MaxAttempts
                         /\ attempts'[r] \in Nat /\ tries'[r] \in Nat
                         /\ tries'[r] <= attempts'[r] /\ attempts'[r] <= MaxAttempts
                         /\ MaxAttempts \in Nat
  BY AttemptsAssumption DEF TypeOK, TriesInv
<1>. USE DEF Goto, loopVars
<1>3. ASSUME NEW r \in Request, Begin(r) PROVE StepCounts
  <2>1. pc[r] = "new" /\ pc'[r] = "trying"
    BY <1>3 DEF Begin, TypeOK
  <2>2. LoopLeft(r) = 2 * MaxAttempts + 2
        /\ LoopLeft(r)' = 2 * (attempts'[r] - tries'[r]) + 1
    BY <2>1 DEF LoopLeft
  <2>3. LoopLeft(r)' < LoopLeft(r) /\ (r \in expired => r \in expired')
    BY <1>2, <1>3, <2>2 DEF Begin
  <2>. QED
    BY <1>1, <1>3, <2>3 DEF Begin, TypeOK
<1>4. ASSUME NEW r \in Request, NoClient(r) PROVE StepCounts
  <2>1. /\ pc[r] = "trying" /\ pc'[r] \in {"trying", "answered"}
        /\ tries'[r] = tries[r] + 1 /\ attempts' = attempts /\ expired' = expired
        /\ tries[r] < attempts[r]
    BY <1>4 DEF NoClient, MayTry, TypeOK
  <2>2. LoopLeft(r) = 2 * (attempts[r] - tries[r]) + 1
        /\ LoopLeft(r)' \in {2 * (attempts[r] - (tries[r] + 1)) + 1, 0}
    BY <2>1 DEF LoopLeft
  <2>3. LoopLeft(r)' < LoopLeft(r)
    BY <1>2, <2>1, <2>2
  <2>. QED
    BY <1>1, <1>4, <2>3 DEF NoClient, TypeOK
<1>5. ASSUME NEW r \in Request, Call(r) PROVE StepCounts
  <2>1. /\ pc[r] = "trying" /\ pc'[r] = "calling"
        /\ UNCHANGED <<tries, attempts, expired>>
    BY <1>5 DEF Call, MayTry, TypeOK
  <2>2. LoopLeft(r) = 2 * (attempts[r] - tries[r]) + 1
        /\ LoopLeft(r)' = 2 * (attempts[r] - tries[r])
    BY <2>1 DEF LoopLeft
  <2>3. LoopLeft(r)' < LoopLeft(r)
    BY <1>2, <2>2
  <2>. QED
    BY <1>1, <1>5, <2>3 DEF Call, TypeOK
<1>6. ASSUME NEW r \in Request, NEW o \in Outcome, EndCall(r, o) PROVE StepCounts
  <2>1. /\ pc[r] = "calling" /\ pc'[r] \in {"trying", "answered"}
        /\ tries'[r] = tries[r] + 1 /\ attempts' = attempts /\ expired' = expired
        /\ tries[r] < attempts[r]
    BY <1>6 DEF EndCall, TypeOK, TriesInv
  <2>2. LoopLeft(r) = 2 * (attempts[r] - tries[r])
        /\ LoopLeft(r)' \in {2 * (attempts[r] - (tries[r] + 1)) + 1, 0}
    BY <2>1 DEF LoopLeft
  <2>3. LoopLeft(r)' < LoopLeft(r)
    BY <1>2, <2>1, <2>2
  <2>. QED
    BY <1>1, <1>6, <2>3 DEF EndCall, TypeOK
<1>7. ASSUME NEW r \in Request, Exhausted(r) PROVE StepCounts
  <2>1. pc[r] = "trying" /\ pc'[r] = "answered"
    BY <1>7 DEF Exhausted, TypeOK
  <2>2. LoopLeft(r) = 2 * (attempts[r] - tries[r]) + 1 /\ LoopLeft(r)' = 0
    BY <2>1 DEF LoopLeft
  <2>3. LoopLeft(r)' < LoopLeft(r)
    BY <1>2, <2>2
  <2>. QED
    BY <1>1, <1>7, <2>3 DEF Exhausted, TypeOK
<1>8. ASSUME NEW r \in Request, Expire(r) PROVE StepCounts
  <2>1. LoopLeft(r)' = LoopLeft(r) /\ r \notin expired /\ r \in expired'
    BY <1>8 DEF Expire, LoopLeft
  <2>. QED
    BY <1>1, <1>8, <2>1 DEF Expire
<1>. QED
  BY <1>3, <1>4, <1>5, <1>6, <1>7, <1>8 DEF Next

\* No query, order of the endpoints, answer or expiry keeps the loop going:
\* a request takes at most 2 * MaxAttempts + 3 steps, whatever the others do.
THEOREM EveryStepCounts ==
  Spec => /\ [](\A r \in Request : StepsLeft(r) \in 0 .. 2 * MaxAttempts + 3)
          /\ [][StepCounts]_vars
<1>1. Init => TriesInv
  BY AttemptsAssumption DEF Init, TriesInv
<1>2. TypeOK /\ TriesInv => \A r \in Request : StepsLeft(r) \in 0 .. 2 * MaxAttempts + 3
  BY StepsLeftTypes
<1>3. TypeOK /\ TriesInv /\ [Next]_vars => [StepCounts]_vars
  BY TypeStep, TriesStep, StepCountsStep
<1>. QED
  BY <1>1, <1>2, <1>3, TypeInit, TypeStep, TriesStep, PTL DEF Spec
=============================================================================
