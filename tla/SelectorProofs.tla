--------------------------- MODULE SelectorProofs ---------------------------
(***************************************************************************)
(* Theorems about Selector, for any requests, endpoints, weights, numbers  *)
(* of calls and durations.                                                 *)
(***************************************************************************)
EXTENDS Selector, FiniteSetTheorems, WellFoundedInduction, TLAPS

-----------------------------------------------------------------------------
(* Who is held ill                                                         *)

Domains ==
    /\ DOMAIN health = Endpoint /\ DOMAIN p95 = Endpoint
    /\ DOMAIN pc = Request /\ DOMAIN list = Request
    /\ DOMAIN at = Request /\ DOMAIN call = Request

\* Only what a call failed for has a summary.
Summarised ==
    /\ pending \in SUBSET seen
    /\ refreshing # <<>> => refreshing[1] \in seen

\* An endpoint that has not failed is well, and was when its calls began.
Blameless ==
    \A e \in Endpoint \ failed :
        /\ health[e] = TRUE /\ p95[e] = TRUE /\ e \notin seen
        /\ \A r \in Request :
              pc[r] \in {"reporting", "observing"} /\ Callee(r) = e =>
                  call[r].was = TRUE

IllInv == Domains /\ Summarised /\ Blameless

LEMMA IllInit == Init => IllInv
  BY DEF Init, IllInv, Domains, Summarised, Blameless

LEMMA IllStep == IllInv /\ [Next]_vars => IllInv'
<1>. SUFFICES ASSUME IllInv, [Next]_vars PROVE IllInv'
  OBVIOUS
<1>. USE DEF IllInv, Domains, Summarised, Blameless, Callee, attrVars, summaryVars, sortVars
<1>1. ASSUME NEW r \in Request, Filter(r) PROVE IllInv'
  BY <1>1 DEF Filter, Goto
<1>2. ASSUME NEW r \in Request, Rank(r) PROVE IllInv'
  BY <1>2 DEF Rank, Goto
<1>3. ASSUME NEW r \in Request, Compare(r) PROVE IllInv'
  BY <1>3 DEF Compare
<1>4. ASSUME NEW r \in Request, Partition(r) PROVE IllInv'
  BY <1>4 DEF Partition, Goto
<1>5. ASSUME NEW r \in Request, Check(r) PROVE IllInv'
  BY <1>5 DEF Check, Goto
<1>6. ASSUME NEW r \in Request, EndCall(r) PROVE IllInv'
  BY <1>6 DEF EndCall, Goto
<1>7. ASSUME NEW r \in Request, Update(r) PROVE IllInv'
  BY <1>7 DEF Update, Goto
<1>8. ASSUME NEW r \in Request, Observe(r) PROVE IllInv'
  <2>1. /\ health' = health /\ p95' = p95 /\ failed' = failed
        /\ pending' = pending /\ refreshing' = refreshing
        /\ \A q \in Request \ {r} :
              pc'[q] = pc[q] /\ Callee(q)' = Callee(q) /\ call'[q] = call[q]
        /\ pc'[r] \in {"ranked", "done"}
        /\ DOMAIN pc' = Request /\ DOMAIN list' = Request
        /\ DOMAIN at' = Request /\ DOMAIN call' = Request
    BY <1>8 DEF Observe, Goto
  <2>2. seen' = seen \/ (seen' = seen \union {Callee(r)} /\ SeesChange(r))
    BY <1>8 DEF Observe
  <2>3. SeesChange(r) => Callee(r) \notin Endpoint \ failed
    BY <1>8 DEF Observe, SeesChange
  <2>. QED
    BY <2>1, <2>2, <2>3
<1>9. ASSUME NEW e \in Endpoint, Forget(e) PROVE IllInv'
  BY <1>9 DEF Forget
<1>10. ASSUME NEW e \in Endpoint, StartRefresh(e) PROVE IllInv'
  BY <1>10 DEF StartRefresh
<1>11. ASSUME Gather PROVE IllInv'
  BY <1>11 DEF Gather
<1>12. ASSUME RefreshEndpoint PROVE IllInv'
  BY <1>12 DEF RefreshEndpoint
<1>13. CASE UNCHANGED vars
  BY <1>13 DEF vars
<1>. QED
  BY <1>1, <1>2, <1>3, <1>4, <1>5, <1>6, <1>7, <1>8, <1>9, <1>10, <1>11,
     <1>12, <1>13 DEF Next

\* Whatever calls and refreshes overlap, and whatever observations a summary
\* has forgotten, refresh holds no endpoint ill that has answered every call.
THEOREM OnlyFailedDemoted == Spec => []DemotedHasFailed
<1>1. IllInv => DemotedHasFailed
  BY DEF IllInv, Blameless, DemotedHasFailed
<1>. QED
  BY <1>1, IllInit, IllStep, PTL DEF Spec

-----------------------------------------------------------------------------
(* Induction and loops                                                     *)

\* A set of natural numbers that is not empty has a least one.
LEMMA Least ==
  ASSUME NEW T \in SUBSET Nat, T # {}
  PROVE  \E n \in T : \A m \in T : n <= m
<1>1. PICK n \in T : \A m \in T : ~(<<m, n>> \in OpToRel(<, Nat))
  BY NatLessThanWellFounded, WFMin
<1>2. \A m \in T : ~(m < n)
  BY <1>1 DEF OpToRel
<1>. QED
  BY <1>2

\* Induction, for sets in place of predicates.
LEMMA SetInduction ==
  ASSUME NEW P \in SUBSET Nat, 0 \in P, \A n \in P : n + 1 \in P
  PROVE  P = Nat
<1>. SUFFICES ASSUME P # Nat PROVE FALSE
  OBVIOUS
<1>1. PICK n \in Nat \ P : \A m \in Nat \ P : n <= m
  BY Least
<1>2. n # 0 /\ n - 1 \in Nat
  OBVIOUS
<1>3. n - 1 \in P
  BY <1>1, <1>2
<1>. QED
  BY <1>1, <1>3

\* A loop of so many steps has values: what makes a recursive definition
\* equal to its body.
Iterated(S, base, step, len) ==
    \E g \in [0 .. len -> S] :
       g[0] = base /\ \A n \in 1 .. len : g[n] = step[n][g[n - 1]]

LEMMA Iterates ==
  ASSUME NEW S, NEW base \in S, NEW step \in [Nat -> [S -> S]], NEW len \in Nat
  PROVE  Iterated(S, base, step, len)
<1>. DEFINE Good(g, m) == /\ g \in [0 .. m -> S]
                          /\ g[0] = base
                          /\ \A n \in 1 .. m : g[n] = step[n][g[n - 1]]
            P == {m \in Nat : \E g : Good(g, m)}
<1>1. 0 \in P
  <2>1. Good([i \in 0 .. 0 |-> base], 0)
    OBVIOUS
  <2>. QED
    BY <2>1
<1>2. ASSUME NEW m \in P PROVE m + 1 \in P
  <2>1. PICK g : Good(g, m)
    OBVIOUS
  <2>2. m \in Nat /\ m + 1 \in Nat /\ m \in 0 .. m
    OBVIOUS
  <2>. DEFINE last == step[m + 1][g[m]]
              h == [i \in 0 .. m + 1 |-> IF i = m + 1 THEN last ELSE g[i]]
  <2>3. last \in S
    <3>1. step[m + 1] \in [S -> S] /\ g[m] \in S
      BY <2>1, <2>2
    <3>. QED
      BY <3>1
  <2>. HIDE DEF last
  <2>4. \A i \in 0 .. m + 1 : i # m + 1 => i \in 0 .. m
    BY <2>2
  <2>5. \A i \in 0 .. m + 1 : (IF i = m + 1 THEN last ELSE g[i]) \in S
    BY <2>1, <2>3, <2>4
  <2>6. h \in [0 .. m + 1 -> S]
    BY <2>5
  <2>7. h[0] = base /\ h[m + 1] = last /\ \A i \in 0 .. m : h[i] = g[i]
    <3>1. 0 \in 0 .. m + 1 /\ 0 # m + 1 /\ m + 1 \in 0 .. m + 1
          /\ \A i \in 0 .. m : i \in 0 .. m + 1 /\ i # m + 1
      BY <2>2
    <3>. QED
      BY <2>1, <3>1
  <2>. HIDE DEF h
  <2>8. ASSUME NEW n \in 1 .. m + 1 PROVE h[n] = step[n][h[n - 1]]
    <3>1. n - 1 \in 0 .. m /\ h[n - 1] = g[n - 1]
      BY <2>2, <2>7
    <3>2. CASE n = m + 1
      <4>1. n - 1 = m
        BY <2>2, <3>2
      <4>. QED
        BY <2>7, <3>1, <3>2, <4>1 DEF last
    <3>3. CASE n # m + 1
      <4>1. n \in 1 .. m /\ n \in 0 .. m
        BY <2>2, <3>3
      <4>. QED
        BY <2>1, <2>7, <3>1, <4>1
    <3>. QED
      BY <3>2, <3>3
  <2>9. Good(h, m + 1)
    BY <2>6, <2>7, <2>8
  <2>. HIDE DEF Good
  <2>. QED
    BY <2>2, <2>9
<1>3. P = Nat
  <2>1. P \in SUBSET Nat
    OBVIOUS
  <2>. HIDE DEF P
  <2>. QED
    BY <1>1, <1>2, <2>1, SetInduction
<1>. QED
  BY <1>3 DEF Iterated

-----------------------------------------------------------------------------
(* What the filters leave                                                  *)

LEMMA PoolFacts ==
  /\ Pool \in Seq(Endpoint) /\ Len(Pool) \in Nat /\ Len(Pool) > 0
  /\ \A n \in 1 .. Len(Pool) : Pool[n] \in Endpoint
  /\ \A j, k \in 1 .. Len(Pool) : Pool[j] = Pool[k] => j = k
  /\ \A e \in Endpoint : \E n \in 1 .. Len(Pool) : e = Pool[n]
  BY PoolAssumption DEF Endpoint, ToSet

LEMMA AppendFacts ==
  ASSUME NEW S, NEW s \in Seq(S), NEW e \in S
  PROVE  /\ Append(s, e) \in Seq(S) /\ Len(Append(s, e)) = Len(s) + 1
         /\ Append(s, e)[Len(s) + 1] = e
         /\ \A i \in 1 .. Len(s) : Append(s, e)[i] = s[i]
  OBVIOUS

\* A sequence that has each element of a set once.
Lists(s, es) ==
    /\ s \in Seq(es)
    /\ \A e \in es : \E i \in 1 .. Len(s) : s[i] = e
    /\ \A i, j \in 1 .. Len(s) : s[i] = s[j] => i = j

LEMMA ListsAppend ==
  ASSUME NEW es, NEW s, Lists(s, es), NEW e, e \notin es
  PROVE  Lists(Append(s, e), es \union {e})
<1>. DEFINE S == es \union {e}
            t == Append(s, e)
<1>1. s \in Seq(es) /\ Len(s) \in Nat /\ \A i \in 1 .. Len(s) : s[i] \in es
  BY DEF Lists
<1>2. s \in Seq(S) /\ e \in S
  BY <1>1
<1>3. /\ t \in Seq(S) /\ Len(t) = Len(s) + 1 /\ t[Len(s) + 1] = e
      /\ \A i \in 1 .. Len(s) : t[i] = s[i]
  <2>. HIDE DEF S
  <2>. QED
    BY <1>2, AppendFacts
<1>. HIDE DEF t
<1>4. /\ Len(t) \in 1 .. Len(t) /\ t[Len(t)] = e
      /\ \A i \in 1 .. Len(s) : i \in 1 .. Len(t) /\ t[i] = s[i] /\ t[i] \in es /\ t[i] # e
      /\ \A i \in 1 .. Len(t) : i \in 1 .. Len(s) \/ i = Len(t)
  BY <1>1, <1>3
<1>5. \A d \in S : \E i \in 1 .. Len(t) : t[i] = d
  BY <1>4 DEF Lists
<1>6. ASSUME NEW i \in 1 .. Len(t), NEW j \in 1 .. Len(t), t[i] = t[j]
      PROVE  i = j
  <2>1. \A k, l \in 1 .. Len(s) : s[k] = s[l] => k = l
    BY DEF Lists
  <2>. QED
    BY <1>4, <1>6, <2>1
<1>. QED
  BY <1>3, <1>5, <1>6 DEF Lists, t

LEMMA OfTypeFacts ==
  ASSUME NEW types
  PROVE  Lists(OfType(types), {e \in Endpoint : TypeOf[e] \in types})
<1>. DEFINE S == Seq(Endpoint)
            add == [n \in Nat |-> [x \in S |->
                      IF TypeOf[Pool[n]] \in types /\ Pool[n] \in Endpoint
                      THEN Append(x, Pool[n]) ELSE x]]
            len == Len(Pool)
            Kept(g) == [n \in 0 .. len |->
                          IF n = 0 THEN <<>>
                          ELSE IF TypeOf[Pool[n]] \in types
                               THEN Append(g[n - 1], Pool[n])
                          ELSE g[n - 1]]
<1>1. add \in [Nat -> [S -> S]]
  <2>1. ASSUME NEW n \in Nat, NEW x \in S
        PROVE  (IF TypeOf[Pool[n]] \in types /\ Pool[n] \in Endpoint
                THEN Append(x, Pool[n]) ELSE x) \in S
    OBVIOUS
  <2>. HIDE DEF S
  <2>. QED
    BY <2>1
<1>2. PICK g \in [0 .. len -> S] :
           g[0] = <<>> /\ \A n \in 1 .. len : g[n] = add[n][g[n - 1]]
  <2>. DEFINE none == <<>>
  <2>1. len \in Nat /\ none \in S
    BY PoolFacts
  <2>. HIDE DEF add, len, S, none
  <2>2. Iterated(S, none, add, len)
    BY <1>1, <2>1, Iterates
  <2>. QED
    BY <2>2 DEF Iterated, none
<1>3. \A n \in 1 .. len :
         g[n] = IF TypeOf[Pool[n]] \in types THEN Append(g[n - 1], Pool[n])
                ELSE g[n - 1]
  <2>. TAKE n \in 1 .. len
  <2>1. n \in Nat /\ n - 1 \in 0 .. len /\ Pool[n] \in Endpoint
    BY PoolFacts
  <2>2. g[n - 1] \in Seq(Endpoint)
    BY <2>1
  <2>. QED
    BY <1>2, <2>1, <2>2
<1>4. g = Kept(g)
  <2>1. \A n \in 0 .. len : n # 0 => n \in 1 .. len
    BY PoolFacts
  <2>2. \A n \in 0 .. len : g[n] = Kept(g)[n]
    BY <1>2, <1>3, <2>1
  <2>. QED
    BY <2>2
<1>. DEFINE kept == CHOOSE kept : kept = Kept(kept)
<1>5. kept = Kept(kept)
  <2>. HIDE DEF Kept
  <2>. QED
    BY <1>4
<1>6. OfType(types) = kept[len]
  BY DEF OfType
<1>. HIDE DEF kept
<1>7. kept[0] = <<>> /\ \A n \in 1 .. len :
         kept[n] = IF TypeOf[Pool[n]] \in types THEN Append(kept[n - 1], Pool[n])
                   ELSE kept[n - 1]
  <2>1. 0 \in 0 .. len /\ \A n \in 1 .. len : n \in 0 .. len /\ n # 0
    BY PoolFacts
  <2>2. \A n \in 0 .. len : kept[n] = Kept(kept)[n]
    BY <1>5
  <2>. QED
    BY <2>1, <2>2
<1>. DEFINE Among(n) == {e \in {Pool[i] : i \in 1 .. n} : TypeOf[e] \in types}
            P == {n \in Nat : n <= len => Lists(kept[n], Among(n))}
<1>8. 0 \in P
  <2>1. Among(0) = {}
    OBVIOUS
  <2>2. Lists(<<>>, {})
    BY DEF Lists
  <2>. QED
    BY <1>7, <2>1, <2>2
<1>9. ASSUME NEW n \in P PROVE n + 1 \in P
  <2>1. CASE n + 1 <= len
    <3>0. n \in Nat
      OBVIOUS
    <3>1. n + 1 \in 1 .. len /\ (n + 1) - 1 = n /\ Lists(kept[n], Among(n))
      BY <2>1, PoolFacts
    <3>2. kept[n + 1] = IF TypeOf[Pool[n + 1]] \in types
                        THEN Append(kept[n], Pool[n + 1]) ELSE kept[n]
      BY <1>7, <3>1
    <3>3. {Pool[i] : i \in 1 .. n + 1} = {Pool[i] : i \in 1 .. n} \union {Pool[n + 1]}
      <4>1. \A i \in 1 .. n + 1 : i \in 1 .. n \/ i = n + 1
        OBVIOUS
      <4>2. n + 1 \in 1 .. n + 1 /\ \A i \in 1 .. n : i \in 1 .. n + 1
        OBVIOUS
      <4>. QED
        BY <4>1, <4>2
    <3>4. CASE TypeOf[Pool[n + 1]] \in types
      <4>1. Among(n + 1) = Among(n) \union {Pool[n + 1]}
        BY <3>3, <3>4
      <4>2. Pool[n + 1] \notin Among(n)
        <5>1. \A i \in 1 .. n : i \in 1 .. len /\ i # n + 1
          <6>1. len \in Nat
            BY PoolFacts
          <6>. QED
            BY ONLY <2>1, <3>0, <6>1
        <5>. QED
          BY <3>1, <5>1, PoolFacts
      <4>. HIDE DEF Among
      <4>3. Lists(kept[n + 1], Among(n + 1))
        BY <3>1, <3>2, <3>4, <4>1, <4>2, ListsAppend
      <4>. QED
        BY <4>3
    <3>5. CASE TypeOf[Pool[n + 1]] \notin types
      <4>1. Among(n + 1) = Among(n)
        BY <3>3, <3>5
      <4>. HIDE DEF Among
      <4>. QED
        BY <3>1, <3>2, <3>5, <4>1
    <3>. QED
      BY <3>4, <3>5
  <2>. QED
    BY <2>1, PoolFacts
<1>10. P = Nat
  <2>1. P \in SUBSET Nat
    OBVIOUS
  <2>. HIDE DEF P
  <2>. QED
    BY <1>8, <1>9, <2>1, SetInduction
<1>11. Lists(kept[len], Among(len))
  <2>. HIDE DEF Among
  <2>. QED
    BY <1>10, PoolFacts
<1>12. {Pool[i] : i \in 1 .. len} = Endpoint
  BY PoolFacts
<1>. QED
  BY <1>6, <1>11, <1>12

LEMMA ListsEmpty == ASSUME NEW es, NEW s, Lists(s, es) PROVE s = <<>> <=> es = {}
<1>1. s \in Seq(es) /\ \A e \in es : \E i \in 1 .. Len(s) : s[i] = e
  BY DEF Lists
<1>2. CASE s = <<>>
  <2>1. 1 .. Len(s) = {}
    BY <1>2
  <2>. QED
    BY <1>1, <1>2, <2>1
<1>3. CASE s # <<>>
  <2>1. 1 \in 1 .. Len(s) /\ s[1] \in es
    BY <1>1, <1>3
  <2>. QED
    BY <1>3, <2>1
<1>. QED
  BY <1>2, <1>3

\* Whatever types there are and whatever a request asks for, the filters
\* leave it a list of its suitable endpoints, and at least one.
LEMMA EligibleFacts ==
  ASSUME NEW r \in Request
  PROVE  Lists(Eligible(r), Suitable(r)) /\ Eligible(r) # <<>>
<1>. DEFINE ofType(types) == {e \in Endpoint : TypeOf[e] \in types}
<1>1. \A types : /\ Lists(OfType(types), ofType(types))
                 /\ OfType(types) = <<>> <=> ofType(types) = {}
  <2>. TAKE types
  <2>1. Lists(OfType(types), ofType(types))
    BY OfTypeFacts
  <2>. HIDE DEF ofType
  <2>. QED
    BY <2>1, ListsEmpty
<1>2. Lists(Pool, Endpoint) /\ Pool # <<>>
  BY PoolFacts DEF Lists
<1>3. Suitable(r) = IF ofType(Wanted[r]) # {} THEN ofType(Wanted[r])
                    ELSE IF r \in Light /\ ofType({Full}) # {} THEN ofType({Full})
                    ELSE Endpoint
  BY DEF Suitable
<1>. HIDE DEF ofType
<1>. QED
  BY <1>1, <1>2, <1>3 DEF Eligible

-----------------------------------------------------------------------------
(* Extremes and scores                                                     *)

LEMMA LowestFacts ==
  ASSUME NEW es \in Seq(Endpoint), NEW f \in [Endpoint -> Nat]
  PROVE  /\ Lowest(es, f) \in Nat
         /\ es # <<>> => \E i \in 1 .. Len(es) : f[es[i]] = Lowest(es, f)
         /\ (\A i \in 1 .. Len(es) : f[es[i]] > 0) =>
               /\ es # <<>> => Lowest(es, f) > 0
               /\ \A i \in 1 .. Len(es) : Lowest(es, f) <= f[es[i]]
<1>. DEFINE len == Len(es)
            val(n) == f[es[n]]
            less(n, x) == IF x = 0 \/ val(n) < x THEN val(n) ELSE x
            step == [n \in Nat |-> [x \in Nat |-> IF n \in 1 .. len THEN less(n, x) ELSE 0]]
            Low(g) == [n \in 0 .. len |->
                          IF n = 0 THEN 0
                          ELSE IF g[n - 1] = 0 \/ f[es[n]] < g[n - 1] THEN f[es[n]]
                          ELSE g[n - 1]]
<1>0. len \in Nat /\ \A n \in 1 .. len : val(n) \in Nat
  OBVIOUS
<1>1. step \in [Nat -> [Nat -> Nat]]
  <2>1. ASSUME NEW n \in Nat, NEW x \in Nat
        PROVE  (IF n \in 1 .. len THEN less(n, x) ELSE 0) \in Nat
    BY <1>0
  <2>. HIDE DEF less, len
  <2>. QED
    BY <2>1
<1>2. PICK g \in [0 .. len -> Nat] :
           g[0] = 0 /\ \A n \in 1 .. len : g[n] = step[n][g[n - 1]]
  <2>1. len \in Nat /\ 0 \in Nat
    OBVIOUS
  <2>. HIDE DEF step, len
  <2>2. Iterated(Nat, 0, step, len)
    BY <1>1, <2>1, Iterates
  <2>. QED
    BY <2>2 DEF Iterated
<1>3. \A n \in 1 .. len : g[n] = less(n, g[n - 1])
  <2>. TAKE n \in 1 .. len
  <2>1. n \in Nat /\ n - 1 \in 0 .. len
    OBVIOUS
  <2>2. g[n - 1] \in Nat
    BY <2>1
  <2>. QED
    BY <1>2, <2>1, <2>2
<1>4. g = Low(g)
  <2>1. \A n \in 0 .. len : n # 0 => n \in 1 .. len
    OBVIOUS
  <2>2. \A n \in 0 .. len : g[n] = Low(g)[n]
    BY <1>2, <1>3, <2>1
  <2>. QED
    BY <2>2
<1>. DEFINE low == CHOOSE low : low = Low(low)
<1>5. low = Low(low)
  <2>. HIDE DEF Low
  <2>. QED
    BY <1>4
<1>6. Lowest(es, f) = low[len]
  BY DEF Lowest
<1>. HIDE DEF low
<1>. DEFINE Good(n) == /\ low[n] \in Nat
                       /\ n > 0 => \E i \in 1 .. n : val(i) = low[n]
                       /\ (\A i \in 1 .. n : val(i) > 0) =>
                             /\ n > 0 => low[n] > 0
                             /\ \A i \in 1 .. n : low[n] <= val(i)
            P == {n \in Nat : n <= len => Good(n)}
<1>7. low[0] = 0 /\ \A n \in 1 .. len : low[n] = less(n, low[n - 1])
  <2>1. 0 \in 0 .. len /\ \A n \in 1 .. len : n \in 0 .. len /\ n # 0
    OBVIOUS
  <2>2. \A n \in 0 .. len : low[n] = Low(low)[n]
    BY <1>5
  <2>. QED
    BY <2>1, <2>2
<1>8. 0 \in P
  BY <1>7
<1>. HIDE DEF len, val
<1>9. ASSUME NEW n \in P PROVE n + 1 \in P
  <2>1. CASE n + 1 <= len
    <3>1. n + 1 \in 1 .. len /\ (n + 1) - 1 = n /\ Good(n)
      BY <1>0, <2>1
    <3>2. low[n + 1] = less(n + 1, low[n])
      BY <1>7, <3>1
    <3>3. low[n] \in Nat /\ val(n + 1) \in Nat
      BY <1>0, <3>1
    <3>4. ASSUME \A i \in 1 .. n + 1 : val(i) > 0
          PROVE  low[n + 1] > 0 /\ \A i \in 1 .. n + 1 : low[n + 1] <= val(i)
      <4>1. n + 1 \in 1 .. n + 1 /\ \A i \in 1 .. n : i \in 1 .. n + 1
        OBVIOUS
      <4>2. val(n + 1) > 0
        BY <3>4, <4>1
      <4>3. /\ n > 0 => low[n] > 0
            /\ \A i \in 1 .. n : low[n] <= val(i)
        BY <3>1, <3>4, <4>1
      <4>4. low[n + 1] > 0 /\ low[n + 1] <= val(n + 1)
            /\ (n > 0 => low[n + 1] <= low[n])
        BY <3>2, <3>3, <4>2, <4>3
      <4>5. ASSUME NEW i \in 1 .. n + 1 PROVE low[n + 1] <= val(i)
        <5>1. CASE i = n + 1
          BY <4>4, <5>1
        <5>2. CASE i # n + 1
          <6>1. i \in 1 .. n /\ n > 0 /\ i \in 1 .. len
            BY <1>0, <2>1, <5>2
          <6>2. val(i) \in Nat /\ low[n] <= val(i) /\ low[n + 1] <= low[n]
            BY <1>0, <4>3, <4>4, <6>1
          <6>. QED
            BY <3>2, <3>3, <6>2
        <5>. QED
          BY <5>1, <5>2
      <4>. QED
        BY <4>4, <4>5
    <3>5. low[n + 1] \in Nat /\ \E i \in 1 .. n + 1 : val(i) = low[n + 1]
      <4>1. n + 1 \in 1 .. n + 1 /\ \A i \in 1 .. n : i \in 1 .. n + 1
        OBVIOUS
      <4>2. low[n + 1] = val(n + 1) \/ (n > 0 /\ low[n + 1] = low[n])
        <5>1. n = 0 => low[n] = 0
          BY <1>7
        <5>. QED
          BY <3>2, <3>3, <5>1
      <4>. QED
        BY <3>1, <3>2, <3>3, <4>1, <4>2
    <3>. QED
      BY <3>4, <3>5
  <2>. QED
    BY <1>0, <2>1
<1>10. P = Nat
  <2>1. P \in SUBSET Nat
    OBVIOUS
  <2>. HIDE DEF P
  <2>. QED
    BY <1>8, <1>9, <2>1, SetInduction
<1>11. Good(len)
  <2>1. len \in P
    <3>. HIDE DEF P
    <3>. QED
      BY <1>0, <1>10
  <2>. HIDE DEF Good
  <2>. QED
    BY <1>0, <2>1
<1>. QED
  <2>1. es # <<>> => len > 0
    BY DEF len
  <2>. QED
    BY <1>6, <1>11, <2>1 DEF len, val

LEMMA HighestFacts ==
  ASSUME NEW es \in Seq(Endpoint), NEW f \in [Endpoint -> Nat]
  PROVE  /\ Highest(es, f) \in Nat
         /\ \A i \in 1 .. Len(es) : f[es[i]] <= Highest(es, f)
         /\ es # <<>> => \E i \in 1 .. Len(es) : f[es[i]] = Highest(es, f)
<1>. DEFINE len == Len(es)
            val(n) == f[es[n]]
            more(n, x) == IF x = 0 \/ val(n) > x THEN val(n) ELSE x
            step == [n \in Nat |-> [x \in Nat |-> IF n \in 1 .. len THEN more(n, x) ELSE 0]]
            Top(g) == [n \in 0 .. len |->
                          IF n = 0 THEN 0
                          ELSE IF g[n - 1] = 0 \/ f[es[n]] > g[n - 1] THEN f[es[n]]
                          ELSE g[n - 1]]
<1>0. len \in Nat /\ \A n \in 1 .. len : val(n) \in Nat
  OBVIOUS
<1>1. step \in [Nat -> [Nat -> Nat]]
  <2>1. ASSUME NEW n \in Nat, NEW x \in Nat
        PROVE  (IF n \in 1 .. len THEN more(n, x) ELSE 0) \in Nat
    BY <1>0
  <2>. HIDE DEF more, len
  <2>. QED
    BY <2>1
<1>2. PICK g \in [0 .. len -> Nat] :
           g[0] = 0 /\ \A n \in 1 .. len : g[n] = step[n][g[n - 1]]
  <2>1. len \in Nat /\ 0 \in Nat
    OBVIOUS
  <2>. HIDE DEF step, len
  <2>2. Iterated(Nat, 0, step, len)
    BY <1>1, <2>1, Iterates
  <2>. QED
    BY <2>2 DEF Iterated
<1>3. \A n \in 1 .. len : g[n] = more(n, g[n - 1])
  <2>. TAKE n \in 1 .. len
  <2>1. n \in Nat /\ n - 1 \in 0 .. len
    OBVIOUS
  <2>2. g[n - 1] \in Nat
    BY <2>1
  <2>. QED
    BY <1>2, <2>1, <2>2
<1>4. g = Top(g)
  <2>1. \A n \in 0 .. len : n # 0 => n \in 1 .. len
    OBVIOUS
  <2>2. \A n \in 0 .. len : g[n] = Top(g)[n]
    BY <1>2, <1>3, <2>1
  <2>. QED
    BY <2>2
<1>. DEFINE high == CHOOSE high : high = Top(high)
<1>5. high = Top(high)
  <2>. HIDE DEF Top
  <2>. QED
    BY <1>4
<1>6. Highest(es, f) = high[len]
  BY DEF Highest
<1>. HIDE DEF high
<1>. DEFINE Good(n) == /\ high[n] \in Nat
                       /\ \A i \in 1 .. n : val(i) <= high[n]
                       /\ n > 0 => \E i \in 1 .. n : val(i) = high[n]
            P == {n \in Nat : n <= len => Good(n)}
<1>7. high[0] = 0 /\ \A n \in 1 .. len : high[n] = more(n, high[n - 1])
  <2>1. 0 \in 0 .. len /\ \A n \in 1 .. len : n \in 0 .. len /\ n # 0
    OBVIOUS
  <2>2. \A n \in 0 .. len : high[n] = Top(high)[n]
    BY <1>5
  <2>. QED
    BY <2>1, <2>2
<1>8. 0 \in P
  BY <1>7
<1>. HIDE DEF len, val
<1>9. ASSUME NEW n \in P PROVE n + 1 \in P
  <2>1. CASE n + 1 <= len
    <3>1. n + 1 \in 1 .. len /\ (n + 1) - 1 = n /\ Good(n)
      BY <1>0, <2>1
    <3>2. high[n + 1] = more(n + 1, high[n])
      BY <1>7, <3>1
    <3>3. high[n] \in Nat /\ val(n + 1) \in Nat
      BY <1>0, <3>1
    <3>4. /\ high[n + 1] \in Nat /\ high[n] <= high[n + 1]
          /\ val(n + 1) <= high[n + 1]
          /\ high[n + 1] = val(n + 1) \/ (n > 0 /\ high[n + 1] = high[n])
      <4>1. n = 0 => high[n] = 0
        BY <1>7
      <4>. QED
        BY <3>2, <3>3, <4>1
    <3>5. ASSUME NEW i \in 1 .. n + 1 PROVE val(i) <= high[n + 1]
      <4>1. CASE i = n + 1
        BY <3>4, <4>1
      <4>2. CASE i # n + 1
        <5>1. i \in 1 .. n /\ i \in 1 .. len
          BY <1>0, <2>1, <4>2
        <5>2. val(i) \in Nat /\ val(i) <= high[n]
          BY <1>0, <3>1, <5>1
        <5>. QED
          BY <3>3, <3>4, <5>2
      <4>. QED
        BY <4>1, <4>2
    <3>6. \E i \in 1 .. n + 1 : val(i) = high[n + 1]
      <4>1. n + 1 \in 1 .. n + 1 /\ \A i \in 1 .. n : i \in 1 .. n + 1
        OBVIOUS
      <4>. QED
        BY <3>1, <3>4, <4>1
    <3>. QED
      BY <3>4, <3>5, <3>6
  <2>. QED
    BY <1>0, <2>1
<1>10. P = Nat
  <2>1. P \in SUBSET Nat
    OBVIOUS
  <2>. HIDE DEF P
  <2>. QED
    BY <1>8, <1>9, <2>1, SetInduction
<1>11. Good(len)
  <2>1. len \in P
    <3>. HIDE DEF P
    <3>. QED
      BY <1>0, <1>10
  <2>. HIDE DEF Good
  <2>. QED
    BY <1>0, <2>1
<1>. QED
  <2>1. es # <<>> => len > 0
    BY DEF len
  <2>. QED
    BY <1>6, <1>11, <2>1 DEF len, val

LEMMA SpreadFacts ==
  ASSUME NEW es \in Seq(Endpoint), NEW f \in [Endpoint -> Nat]
  PROVE  /\ Spread(es, f) \in Nat /\ Spread(es, f) > 0
         /\ \A e \in Endpoint : Above(es, f, e) \in Int
         /\ \A e \in ToSet(es) : Above(es, f, e) <= Spread(es, f)
<1>1. Lowest(es, f) \in Nat /\ Highest(es, f) \in Nat
  BY LowestFacts, HighestFacts
<1>2. Spread(es, f) \in Nat /\ Spread(es, f) > 0
  BY <1>1 DEF Spread
<1>3. ASSUME NEW e \in Endpoint PROVE Above(es, f, e) \in Int
  BY <1>1 DEF Above
<1>4. ASSUME NEW e \in ToSet(es) PROVE Above(es, f, e) <= Spread(es, f)
  <2>1. PICK i \in 1 .. Len(es) : e = es[i]
    BY DEF ToSet
  <2>2. e \in Endpoint /\ f[e] <= Highest(es, f) /\ f[e] \in Nat
    BY <2>1, HighestFacts
  <2>. QED
    BY <1>1, <2>2 DEF Above, Spread
<1>. QED
  BY <1>2, <1>3, <1>4

\* The attribute is the same for all: it has no part in the score.
LEMMA FlatFacts ==
  ASSUME NEW es \in Seq(Endpoint), es # <<>>, NEW f \in [Endpoint -> Nat],
         NEW v \in Nat, \A e \in ToSet(es) : f[e] = v
  PROVE  Spread(es, f) = 1 /\ \A e \in Endpoint : Above(es, f, e) = 0
<1>1. \A i \in 1 .. Len(es) : f[es[i]] = v
  BY DEF ToSet
<1>2. Lowest(es, f) = v /\ Highest(es, f) = v
  BY <1>1, LowestFacts, HighestFacts
<1>3. ~(Highest(es, f) > Lowest(es, f))
  BY <1>2
<1>. QED
  BY <1>3 DEF Spread, Above

LEMMA ScoreType ==
  ASSUME NEW es \in Seq(Endpoint), NEW e \in Endpoint,
         count \in [Endpoint -> Nat], duration \in [Endpoint -> Nat]
  PROVE  Score(es, e) \in Nat
<1>. DEFINE d == Spread(es, duration)
            q == Spread(es, P95Duration)
            c == Spread(es, count)
            w == Spread(es, Weight)
            late  == Smaller(Above(es, duration, e) * q, Above(es, P95Duration, e) * d)
            score == 10 * (d * q - late) * c * w
                     + (10 * c - 11 * Above(es, count, e)) * d * q * w
                     + 10 * Above(es, Weight, e) * d * q * c
<1>1. P95Duration \in [Endpoint -> Nat] /\ Weight \in [Endpoint -> Nat]
  BY NumberAssumption DEF P95Duration
<1>2. d \in Int /\ q \in Int /\ c \in Int /\ w \in Int
  BY <1>1, SpreadFacts
<1>3. /\ Above(es, duration, e) \in Int /\ Above(es, P95Duration, e) \in Int
      /\ Above(es, count, e) \in Int /\ Above(es, Weight, e) \in Int
  BY <1>1, SpreadFacts
<1>4. Score(es, e) = IF score < 0 THEN 0 ELSE score
  BY DEF Score
<1>. HIDE DEF d, q, c, w
<1>5. late \in Int
  BY <1>2, <1>3 DEF Smaller
<1>. HIDE DEF late
<1>6. score \in Int
  <2>1. \A x, y \in Int : x * y \in Int /\ x + y \in Int /\ x - y \in Int
    OBVIOUS
  <2>2. /\ 10 * (d * q - late) \in Int
        /\ 10 * c - 11 * Above(es, count, e) \in Int
        /\ 10 * Above(es, Weight, e) \in Int
    BY <1>2, <1>3, <1>5, <2>1
  <2>3. /\ 10 * (d * q - late) * c * w \in Int
        /\ (10 * c - 11 * Above(es, count, e)) * d * q * w \in Int
        /\ 10 * Above(es, Weight, e) * d * q * c \in Int
    BY ONLY <1>2, <2>1, <2>2
  <2>. QED
    BY ONLY <2>1, <2>3
<1>. HIDE DEF score
<1>. QED
  BY <1>4, <1>6

\* The percentile of the duration is zero for all, so what is taken off for
\* the duration is at most zero: less than zero where an unset duration lies
\* below an extreme.
LEMMA LateFacts ==
  ASSUME NEW es \in Seq(Endpoint), es # <<>>, NEW e \in Endpoint,
         duration \in [Endpoint -> Nat]
  PROVE  /\ Spread(es, P95Duration) = 1 /\ Above(es, P95Duration, e) = 0
         /\ Smaller(Above(es, duration, e), 0) \in Int
         /\ Smaller(Above(es, duration, e), 0) <= 0
<1>1. P95Duration \in [Endpoint -> Nat] /\ \A d \in Endpoint : P95Duration[d] = 0
  BY DEF P95Duration
<1>2. \A d \in ToSet(es) : d \in Endpoint
  BY DEF ToSet
<1>3. Spread(es, P95Duration) = 1 /\ Above(es, P95Duration, e) = 0
  BY <1>1, <1>2, FlatFacts
<1>4. Above(es, duration, e) \in Int
  BY SpreadFacts
<1>. QED
  BY <1>3, <1>4 DEF Smaller

\* A score, less the percentile.
LEMMA ScoreSimpler ==
  ASSUME NEW es \in Seq(Endpoint), es # <<>>, NEW e \in Endpoint,
         count \in [Endpoint -> Nat], duration \in [Endpoint -> Nat]
  PROVE  LET d == Spread(es, duration)
             c == Spread(es, count)
             w == Spread(es, Weight)
             late  == Smaller(Above(es, duration, e), 0)
             score == 10 * (d - late) * c * w
                      + (10 * c - 11 * Above(es, count, e)) * d * w
                      + 10 * Above(es, Weight, e) * d * c
         IN  Score(es, e) = IF score < 0 THEN 0 ELSE score
<1>. DEFINE d == Spread(es, duration)
            c == Spread(es, count)
            w == Spread(es, Weight)
            a == Above(es, duration, e)
            b == Above(es, count, e)
            h == Above(es, Weight, e)
            late == Smaller(a, 0)
            q == Spread(es, P95Duration)
            p == Above(es, P95Duration, e)
<1>1. /\ d \in Int /\ c \in Int /\ w \in Int
      /\ a \in Int /\ b \in Int /\ h \in Int
  <2>1. d \in Int /\ a \in Int
    BY SpreadFacts
  <2>2. c \in Int /\ b \in Int
    BY SpreadFacts
  <2>3. w \in Int /\ h \in Int
    BY NumberAssumption, SpreadFacts
  <2>. QED
    BY ONLY <2>1, <2>2, <2>3
<1>2. q = 1 /\ p = 0
  BY LateFacts
<1>3. LET sooner == Smaller(a * q, p * d)
          score == 10 * (d * q - sooner) * c * w
                   + (10 * c - 11 * b) * d * q * w + 10 * h * d * q * c
      IN  Score(es, e) = IF score < 0 THEN 0 ELSE score
  BY DEF Score
<1>. HIDE DEF a, b, c, d, h, p, q, w
<1>4. a * q = a /\ p * d = 0 /\ d * q = d
  BY <1>1, <1>2
<1>5. (10 * c - 11 * b) * d * q * w = (10 * c - 11 * b) * d * w
      /\ 10 * h * d * q * c = 10 * h * d * c
  <2>1. /\ (10 * c - 11 * b) * d \in Int /\ 10 * h * d \in Int
    BY <1>1
  <2>. QED
    BY <1>2, <2>1
<1>6. LET score == 10 * (d - late) * c * w
                   + (10 * c - 11 * b) * d * w + 10 * h * d * c
      IN  Score(es, e) = IF score < 0 THEN 0 ELSE score
  BY <1>3, <1>4, <1>5
<1>. QED
  BY <1>6 DEF a, b, c, d, h, w

\* The code shuffles the endpoints if the scores add up to nothing; they do
\* not: the endpoint of the greatest weight has a score above zero.
LEMMA SomeScore ==
  ASSUME NEW es \in Seq(Endpoint), es # <<>>,
         count \in [Endpoint -> Nat], duration \in [Endpoint -> Nat]
  PROVE  \E e \in ToSet(es) : Score(es, e) > 0
<1>1. PICK e \in ToSet(es) : Weight[e] = Highest(es, Weight)
  <2>1. \E i \in 1 .. Len(es) : Weight[es[i]] = Highest(es, Weight)
    BY NumberAssumption, HighestFacts
  <2>. QED
    BY <2>1 DEF ToSet
<1>. DEFINE d == Spread(es, duration)
            c == Spread(es, count)
            w == Spread(es, Weight)
            b == Above(es, count, e)
            h == Above(es, Weight, e)
            late == Smaller(Above(es, duration, e), 0)
            score == 10 * (d - late) * c * w + (10 * c - 11 * b) * d * w
                     + 10 * h * d * c
<1>2. e \in Endpoint
  BY DEF ToSet
<1>3. /\ d \in Int /\ d > 0 /\ c \in Int /\ c > 0 /\ w \in Int /\ w > 0
      /\ b \in Int /\ b <= c /\ h \in Int
  <2>1. d \in Int /\ d > 0
    BY SpreadFacts
  <2>2. c \in Int /\ c > 0 /\ b \in Int /\ b <= c
    BY <1>2, SpreadFacts
  <2>3. w \in Int /\ w > 0 /\ h \in Int
    BY <1>2, NumberAssumption, SpreadFacts
  <2>. QED
    BY ONLY <2>1, <2>2, <2>3
<1>4. h >= 0
  <2>1. Lowest(es, Weight) \in Nat /\ Highest(es, Weight) \in Nat
    BY NumberAssumption, LowestFacts, HighestFacts
  <2>. QED
    BY <1>1, <2>1 DEF Above
<1>5. late \in Int /\ late <= 0
  BY <1>2, LateFacts
<1>6. Score(es, e) = IF score < 0 THEN 0 ELSE score
  BY <1>2, ScoreSimpler
<1>. HIDE DEF d, c, w, b, h, late
<1>7. score \in Int /\ score > 0
  <2>1. \A x, y \in Int : x >= 0 /\ y >= 0 => x * y \in Int /\ x * y >= 0
    OBVIOUS
  <2>2. \A x, y \in Int : x > 0 /\ y > 0 => x * y \in Int /\ x * y > 0
    OBVIOUS
  <2>3. d * c * w \in Int /\ d * c * w > 0
    BY ONLY <1>3, <2>2
  <2>4. (0 - late) * c * w \in Int /\ (0 - late) * c * w >= 0
    BY ONLY <1>3, <1>5, <2>1
  <2>5. (c - b) * d * w \in Int /\ (c - b) * d * w >= 0
    BY ONLY <1>3, <2>1
  <2>6. h * d * c \in Int /\ h * d * c >= 0
    BY ONLY <1>3, <1>4, <2>1
  <2>7. /\ 10 * (d - late) * c * w = 10 * (d * c * w) + 10 * ((0 - late) * c * w)
        /\ (10 * c - 11 * b) * d * w = 11 * ((c - b) * d * w) - d * c * w
        /\ 10 * h * d * c = 10 * (h * d * c)
    BY ONLY <1>3, <1>5
  <2>. QED
    BY ONLY <2>3, <2>4, <2>5, <2>6, <2>7
<1>. HIDE DEF score
<1>. QED
  BY <1>2, <1>6, <1>7

\* Where all have had a call and the same weight, the score tells who has had
\* fewer.
LEMMA ScoreByLoad ==
  ASSUME NEW es \in Seq(Endpoint), es # <<>>,
         count \in [Endpoint -> Nat], duration \in [Endpoint -> Nat],
         \A e \in ToSet(es) : count[e] > 0 /\ duration[e] > 0,
         \A d, e \in ToSet(es) : Weight[d] = Weight[e],
         NEW x \in ToSet(es), NEW y \in ToSet(es),
         Score(es, x) >= Score(es, y)
  PROVE  count[x] <= count[y]
<1>1. \A i \in 1 .. Len(es) : es[i] \in ToSet(es) /\ es[i] \in Endpoint
  BY DEF ToSet
<1>2. \A e \in ToSet(es) : \E i \in 1 .. Len(es) : e = es[i]
  BY DEF ToSet
<1>3. x \in Endpoint /\ y \in Endpoint
  BY <1>1, <1>2
<1>. DEFINE d == Spread(es, duration)
            c == Spread(es, count)
            low == Lowest(es, count)
            high == Highest(es, count)
            a(e) == Above(es, count, e)
<1>4. Spread(es, Weight) = 1 /\ \A e \in Endpoint : Above(es, Weight, e) = 0
  <2>1. Weight[x] \in Nat /\ \A e \in ToSet(es) : Weight[e] = Weight[x]
    BY <1>3, NumberAssumption
  <2>. QED
    BY <2>1, NumberAssumption, FlatFacts
<1>5. \A e \in ToSet(es) : Above(es, duration, e) >= 0
  <2>. TAKE e \in ToSet(es)
  <2>1. PICK i \in 1 .. Len(es) : e = es[i]
    BY <1>2
  <2>2. \A k \in 1 .. Len(es) : duration[es[k]] > 0
    BY <1>1
  <2>3. Lowest(es, duration) \in Nat /\ Lowest(es, duration) <= duration[e]
    BY <2>1, <2>2, LowestFacts
  <2>4. duration[e] \in Nat
    BY <1>1, <2>1
  <2>. QED
    BY <2>3, <2>4 DEF Above
<1>6. /\ low \in Nat /\ high \in Nat
      /\ \A e \in ToSet(es) : count[e] \in Nat /\ low <= count[e] /\ count[e] <= high
  <2>1. \A k \in 1 .. Len(es) : count[es[k]] > 0
    BY <1>1
  <2>2. low \in Nat /\ \A k \in 1 .. Len(es) : low <= count[es[k]]
    BY <2>1, LowestFacts
  <2>3. high \in Nat /\ \A k \in 1 .. Len(es) : count[es[k]] <= high
    BY HighestFacts
  <2>. HIDE DEF low, high
  <2>4. \A e \in ToSet(es) : count[e] \in Nat
    BY <1>1, <1>2
  <2>. QED
    BY ONLY <1>2, <2>2, <2>3, <2>4
<1>7. d \in Int /\ d > 0 /\ c \in Int /\ c > 0
  BY SpreadFacts
<1>8. \A e \in ToSet(es) : a(e) \in Int /\ a(e) <= c
  BY <1>1, <1>2, SpreadFacts
<1>9. ASSUME NEW e \in ToSet(es)
      PROVE  Score(es, e) = (20 * c - 11 * a(e)) * d
  <2>. DEFINE late == Smaller(Above(es, duration, e), 0)
              w == Spread(es, Weight)
              h == Above(es, Weight, e)
              score == 10 * (d - late) * c * w + (10 * c - 11 * a(e)) * d * w
                       + 10 * h * d * c
  <2>1. e \in Endpoint
    BY <1>1, <1>2
  <2>2. Score(es, e) = IF score < 0 THEN 0 ELSE score
    BY <2>1, ScoreSimpler
  <2>3. late = 0 /\ w = 1 /\ h = 0
    <3>1. Above(es, duration, e) \in Int
      BY <2>1, SpreadFacts
    <3>. QED
      BY <1>4, <1>5, <2>1, <3>1 DEF Smaller
  <2>. DEFINE b == a(e)
  <2>4. b \in Int /\ b <= c
    BY <1>8
  <2>. HIDE DEF late, w, h, b, c, d
  <2>5. score = (20 * c - 11 * b) * d
    <3>1. score = 10 * d * c + (10 * c - 11 * b) * d
      BY <1>7, <2>3, <2>4 DEF b
    <3>. QED
      BY ONLY <1>7, <2>4, <3>1
  <2>6. (20 * c - 11 * b) * d >= 0
    <3>1. 20 * c - 11 * b \in Int /\ 20 * c - 11 * b >= 0
      BY ONLY <1>7, <2>4
    <3>. QED
      BY ONLY <1>7, <3>1
  <2>7. (20 * c - 11 * b) * d \in Int
    BY ONLY <1>7, <2>4
  <2>. QED
    BY <2>2, <2>5, <2>6, <2>7 DEF b
<1>. HIDE DEF c, d
<1>10. a(x) <= a(y)
  <2>. DEFINE m == 20 * c - 11 * a(x)
              n == 20 * c - 11 * a(y)
  <2>1. m \in Int /\ n \in Int /\ a(x) \in Int /\ a(y) \in Int
    BY <1>7, <1>8
  <2>2. m * d >= n * d
    BY <1>9
  <2>3. m >= n
    <3>. HIDE DEF m, n
    <3>. QED
      BY ONLY <1>7, <2>1, <2>2
  <2>. QED
    BY <1>7, <2>1, <2>3
<1>. QED
  <2>1. high > low => a(x) = count[x] - low /\ a(y) = count[y] - low
    BY DEF Above
  <2>2. /\ count[x] \in Nat /\ low <= count[x] /\ count[x] <= high
        /\ count[y] \in Nat /\ low <= count[y] /\ count[y] <= high
    BY <1>6
  <2>. HIDE DEF low, high
  <2>. QED
    BY <1>6, <1>10, <2>1, <2>2


-----------------------------------------------------------------------------
(* Rearranging a list                                                      *)

LEMMA ListsFacts ==
  ASSUME NEW es \in SUBSET Endpoint, NEW s, Lists(s, es)
  PROVE  /\ s \in Seq(es) /\ s \in Seq(Endpoint) /\ Len(s) \in Nat
         /\ DOMAIN s = 1 .. Len(s)
         /\ \A i \in 1 .. Len(s) : s[i] \in es /\ s[i] \in Endpoint
         /\ ToSet(s) = es /\ IsInjective(s)
<1>1. s \in Seq(es)
  BY DEF Lists
<1>2. /\ Len(s) \in Nat /\ DOMAIN s = 1 .. Len(s)
      /\ \A i \in 1 .. Len(s) : s[i] \in es
  BY <1>1
<1>3. s \in Seq(Endpoint)
  BY <1>1
<1>4. ToSet(s) = es
  BY <1>2 DEF Lists, ToSet
<1>5. IsInjective(s)
  BY <1>2 DEF Lists, IsInjective
<1>. QED
  BY <1>1, <1>2, <1>3, <1>4, <1>5

LEMMA SwapLists ==
  ASSUME NEW es, NEW s, Lists(s, es), NEW j \in 1 .. Len(s), NEW k \in 1 .. Len(s)
  PROVE  LET t == Swapped(s, j, k) IN
         /\ Lists(t, es) /\ Len(t) = Len(s)
         /\ t[j] = s[k] /\ t[k] = s[j]
         /\ \A i \in 1 .. Len(s) : i # j /\ i # k => t[i] = s[i]
<1>. DEFINE t == Swapped(s, j, k)
<1>1. s \in Seq(es)
  BY DEF Lists
<1>2. t \in Seq(es) /\ Len(t) = Len(s)
  BY <1>1 DEF Swapped
<1>3. t[j] = s[k] /\ t[k] = s[j] /\ \A i \in 1 .. Len(s) : i # j /\ i # k => t[i] = s[i]
  BY <1>1 DEF Swapped
<1>. HIDE DEF t
<1>4. \A e \in es : \E i \in 1 .. Len(t) : t[i] = e
  <2>1. \A e \in es : \E i \in 1 .. Len(s) : s[i] = e
    BY DEF Lists
  <2>. QED
    BY <1>2, <1>3, <2>1
<1>5. ASSUME NEW m \in 1 .. Len(t), NEW n \in 1 .. Len(t), t[m] = t[n]
      PROVE  m = n
  <2>1. \A x, y \in 1 .. Len(s) : s[x] = s[y] => x = y
    BY DEF Lists
  <2>. QED
    BY <1>2, <1>3, <1>5, <2>1
<1>. QED
  BY <1>2, <1>3, <1>4, <1>5 DEF Lists, t

LEMMA SeqInto ==
  ASSUME NEW S, NEW T, NEW s \in Seq(S), \A k \in DOMAIN s : s[k] \in T
  PROVE  s \in Seq(T)
  OBVIOUS

LEMMA ConcatFacts ==
  ASSUME NEW S, NEW s \in Seq(S), NEW t \in Seq(S)
  PROVE  /\ s \o t \in Seq(S) /\ Len(s \o t) = Len(s) + Len(t)
         /\ \A i \in 1 .. Len(s) : (s \o t)[i] = s[i]
         /\ \A i \in Len(s) + 1 .. Len(s) + Len(t) : (s \o t)[i] = t[i - Len(s)]
  OBVIOUS

LEMMA FirstValues ==
  ASSUME NEW S, NEW s \in Seq(S), NEW k \in 1 .. Len(s)
  PROVE  LET t == WithFirst(s, k) IN
         /\ t \in Seq(S) /\ Len(t) = Len(s)
         /\ t[1] = s[k]
         /\ \A i \in 2 .. k : t[i] = s[i - 1]
         /\ \A i \in k + 1 .. Len(s) : t[i] = s[i]
<1>. DEFINE a == <<s[k]>>
            u == SubSeq(s, 1, k - 1)
            v == SubSeq(s, k + 1, Len(s))
            w == u \o v
            t == WithFirst(s, k)
<1>1. /\ a \in Seq(S) /\ Len(a) = 1 /\ a[1] = s[k]
      /\ u \in Seq(S) /\ Len(u) = k - 1 /\ \A i \in 1 .. k - 1 : u[i] = s[i]
      /\ v \in Seq(S) /\ Len(v) = Len(s) - k
      /\ \A i \in 1 .. Len(s) - k : v[i] = s[k + i]
  OBVIOUS
<1>2. t = a \o w
  BY DEF WithFirst, RemoveAt
<1>3. Len(s) \in Nat /\ k \in Nat /\ 1 <= k /\ k <= Len(s)
  OBVIOUS
<1>. HIDE DEF a, u, v, w, t
<1>4. /\ w \in Seq(S) /\ Len(w) = Len(s) - 1
      /\ \A i \in 1 .. k - 1 : w[i] = s[i]
      /\ \A i \in k .. Len(s) - 1 : w[i] = s[i + 1]
  <2>1. /\ w \in Seq(S) /\ Len(w) = Len(s) - 1
        /\ \A i \in 1 .. k - 1 : w[i] = u[i]
        /\ \A i \in k .. Len(s) - 1 : w[i] = v[i - (k - 1)]
    <3>1. Len(u) = k - 1 /\ Len(u) + Len(v) = Len(s) - 1 /\ Len(u) + 1 = k
      BY <1>1, <1>3
    <3>2. /\ w \in Seq(S) /\ Len(w) = Len(u) + Len(v)
          /\ \A i \in 1 .. Len(u) : w[i] = u[i]
          /\ \A i \in Len(u) + 1 .. Len(u) + Len(v) : w[i] = v[i - Len(u)]
      <4>1. u \in Seq(S) /\ v \in Seq(S)
        BY <1>1
      <4>. QED
        BY ONLY <4>1, ConcatFacts DEF w
    <3>. QED
      BY ONLY <3>1, <3>2
  <2>2. \A i \in k .. Len(s) - 1 : v[i - (k - 1)] = s[i + 1]
    <3>. TAKE i \in k .. Len(s) - 1
    <3>1. i - (k - 1) \in 1 .. Len(s) - k /\ k + (i - (k - 1)) = i + 1
      BY <1>3
    <3>. QED
      BY <1>1, <3>1
  <2>. QED
    BY <1>1, <2>1, <2>2
<1>5. /\ t \in Seq(S) /\ Len(t) = Len(s)
      /\ t[1] = s[k]
      /\ \A i \in 2 .. Len(s) : t[i] = w[i - 1]
  <2>1. Len(a) = 1 /\ Len(a) + Len(w) = Len(s) /\ Len(a) + 1 = 2
    BY <1>1, <1>3, <1>4
  <2>2. /\ t \in Seq(S) /\ Len(t) = Len(a) + Len(w)
        /\ \A i \in 1 .. Len(a) : t[i] = a[i]
        /\ \A i \in Len(a) + 1 .. Len(a) + Len(w) : t[i] = w[i - Len(a)]
    <3>1. a \in Seq(S) /\ w \in Seq(S)
      BY <1>1, <1>4
    <3>. QED
      BY ONLY <1>2, <3>1, ConcatFacts
  <2>. QED
    <3>1. a[1] = s[k] /\ 1 \in 1 .. Len(a)
      BY <1>1
    <3>. QED
      BY ONLY <2>1, <2>2, <3>1
<1>6. /\ \A i \in 2 .. k : t[i] = s[i - 1]
      /\ \A i \in k + 1 .. Len(s) : t[i] = s[i]
  <2>1. ASSUME NEW i \in 2 .. k PROVE t[i] = s[i - 1]
    <3>1. i \in 2 .. Len(s) /\ i - 1 \in 1 .. k - 1
      BY <1>3
    <3>. QED
      BY <1>4, <1>5, <3>1
  <2>2. ASSUME NEW i \in k + 1 .. Len(s) PROVE t[i] = s[i]
    <3>1. i \in 2 .. Len(s) /\ i - 1 \in k .. Len(s) - 1 /\ (i - 1) + 1 = i
      BY <1>3
    <3>. QED
      BY <1>4, <1>5, <3>1
  <2>. QED
    BY <2>1, <2>2
<1>. QED
  BY <1>5, <1>6 DEF t

LEMMA FirstLists ==
  ASSUME NEW es, NEW s, Lists(s, es), NEW k \in 1 .. Len(s)
  PROVE  LET t == WithFirst(s, k) IN Lists(t, es) /\ Len(t) = Len(s)
<1>. DEFINE t == WithFirst(s, k)
            from(i) == IF i = 1 THEN k ELSE IF i <= k THEN i - 1 ELSE i
            to(i) == IF i = k THEN 1 ELSE IF i < k THEN i + 1 ELSE i
<1>1. s \in Seq(es) /\ Len(s) \in Nat /\ k \in Nat /\ 1 <= k /\ k <= Len(s)
  BY DEF Lists
<1>2. /\ t \in Seq(es) /\ Len(t) = Len(s) /\ t[1] = s[k]
      /\ \A i \in 2 .. k : t[i] = s[i - 1]
      /\ \A i \in k + 1 .. Len(s) : t[i] = s[i]
  BY <1>1, FirstValues
<1>. HIDE DEF t
<1>3. \A i \in 1 .. Len(s) : from(i) \in 1 .. Len(s) /\ t[i] = s[from(i)]
  <2>. TAKE i \in 1 .. Len(s)
  <2>1. i = 1 \/ i \in 2 .. k \/ i \in k + 1 .. Len(s)
    BY <1>1
  <2>. QED
    BY <1>1, <1>2, <2>1
<1>4. \A i, j \in 1 .. Len(s) : from(i) = from(j) => i = j
  BY <1>1
<1>5. \A i \in 1 .. Len(s) : to(i) \in 1 .. Len(s) /\ from(to(i)) = i
  BY <1>1
<1>. HIDE DEF from, to
<1>6. \A e \in es : \E i \in 1 .. Len(t) : t[i] = e
  <2>. TAKE e \in es
  <2>1. PICK i \in 1 .. Len(s) : s[i] = e
    BY DEF Lists
  <2>2. to(i) \in 1 .. Len(t) /\ t[to(i)] = e
    BY <1>2, <1>3, <1>5, <2>1
  <2>. QED
    BY <2>2
<1>7. ASSUME NEW m \in 1 .. Len(t), NEW n \in 1 .. Len(t), t[m] = t[n]
      PROVE  m = n
  <2>1. \A x, y \in 1 .. Len(s) : s[x] = s[y] => x = y
    BY DEF Lists
  <2>2. /\ m \in 1 .. Len(s) /\ n \in 1 .. Len(s)
        /\ from(m) \in 1 .. Len(s) /\ from(n) \in 1 .. Len(s)
        /\ s[from(m)] = s[from(n)]
    BY <1>2, <1>3, <1>7
  <2>3. from(m) = from(n)
    BY ONLY <2>1, <2>2
  <2>. QED
    BY <1>4, <2>2, <2>3
<1>. QED
  BY <1>2, <1>6, <1>7 DEF Lists, t

-----------------------------------------------------------------------------
(* The parts that quicksort has still to sort                              *)

Part(n) == {x \in Nat \X Nat : 1 <= x[1] /\ x[1] <= x[2] /\ x[2] <= n}

InOrder(parts) ==
    \A a, b \in DOMAIN parts : a < b => parts[a][2] < parts[b][1]

\* Parts of a list of n, in their order.
PartsOf(parts, n) == parts \in Seq(Part(n)) /\ InOrder(parts)

LEMMA PartFacts ==
  ASSUME NEW n \in Nat, NEW x \in Part(n)
  PROVE  /\ x[1] \in Nat /\ x[2] \in Nat /\ x = <<x[1], x[2]>>
         /\ 1 <= x[1] /\ x[1] <= x[2] /\ x[2] <= n
  BY DEF Part

LEMMA PartsConcat ==
  ASSUME NEW n \in Nat, NEW u, PartsOf(u, n), NEW v, PartsOf(v, n),
         \A a \in DOMAIN u, b \in DOMAIN v : u[a][2] < v[b][1]
  PROVE  PartsOf(u \o v, n) /\ ToSet(u \o v) = ToSet(u) \union ToSet(v)
<1>. DEFINE S == Part(n)
            t == u \o v
<1>1. /\ u \in Seq(S) /\ Len(u) \in Nat /\ DOMAIN u = 1 .. Len(u)
      /\ v \in Seq(S) /\ Len(v) \in Nat /\ DOMAIN v = 1 .. Len(v)
  BY DEF PartsOf
<1>. HIDE DEF S
<1>2. /\ t \in Seq(S) /\ Len(t) = Len(u) + Len(v)
      /\ \A i \in 1 .. Len(u) : t[i] = u[i]
      /\ \A i \in Len(u) + 1 .. Len(u) + Len(v) : t[i] = v[i - Len(u)]
  BY <1>1, ConcatFacts
<1>. HIDE DEF t
<1>3. DOMAIN t = 1 .. Len(u) + Len(v)
  BY <1>2
<1>4. ASSUME NEW i \in DOMAIN t
      PROVE  \/ i \in DOMAIN u /\ t[i] = u[i]
             \/ i - Len(u) \in DOMAIN v /\ t[i] = v[i - Len(u)]
  <2>1. \/ i \in 1 .. Len(u)
        \/ i \in Len(u) + 1 .. Len(u) + Len(v) /\ i - Len(u) \in 1 .. Len(v)
    BY <1>1, <1>3
  <2>. QED
    BY <1>1, <1>2, <2>1
<1>5. ASSUME NEW a \in DOMAIN t, NEW b \in DOMAIN t, a < b
      PROVE  t[a][2] < t[b][1]
  <2>1. a \in 1 .. Len(u) + Len(v) /\ b \in 1 .. Len(u) + Len(v)
    BY <1>3
  <2>2. CASE b \in 1 .. Len(u)
    <3>1. a \in 1 .. Len(u)
      BY <1>1, <1>5, <2>1, <2>2
    <3>. QED
      BY <1>1, <1>2, <1>5, <2>2, <3>1 DEF PartsOf, InOrder
  <2>3. CASE a \in 1 .. Len(u) /\ b \notin 1 .. Len(u)
    <3>1. b \in Len(u) + 1 .. Len(u) + Len(v) /\ b - Len(u) \in 1 .. Len(v)
      BY <1>1, <2>1, <2>3
    <3>. QED
      BY <1>1, <1>2, <2>3, <3>1
  <2>4. CASE a \notin 1 .. Len(u)
    <3>1. /\ a \in Len(u) + 1 .. Len(u) + Len(v) /\ a - Len(u) \in 1 .. Len(v)
          /\ b \in Len(u) + 1 .. Len(u) + Len(v) /\ b - Len(u) \in 1 .. Len(v)
          /\ a - Len(u) < b - Len(u)
      BY <1>1, <1>5, <2>1, <2>4
    <3>. QED
      BY <1>1, <1>2, <3>1 DEF PartsOf, InOrder
  <2>. QED
    BY <2>2, <2>3, <2>4
<1>6. \A i \in DOMAIN u : i \in DOMAIN t /\ t[i] = u[i]
  BY <1>1, <1>2, <1>3
<1>7. ASSUME NEW i \in DOMAIN v PROVE i + Len(u) \in DOMAIN t /\ t[i + Len(u)] = v[i]
  <2>1. i + Len(u) \in Len(u) + 1 .. Len(u) + Len(v) /\ (i + Len(u)) - Len(u) = i
    BY <1>1
  <2>2. i + Len(u) \in 1 .. Len(u) + Len(v)
    BY <1>1, <2>1
  <2>. QED
    BY <1>2, <1>3, <2>1, <2>2
<1>8. ToSet(t) = ToSet(u) \union ToSet(v)
  <2>1. ToSet(t) \subseteq ToSet(u) \union ToSet(v)
    BY <1>4 DEF ToSet
  <2>2. ToSet(u) \subseteq ToSet(t)
    BY <1>6 DEF ToSet
  <2>3. ToSet(v) \subseteq ToSet(t)
    BY <1>7 DEF ToSet
  <2>. QED
    BY <2>1, <2>2, <2>3
<1>9. InOrder(t)
  BY <1>5 DEF InOrder
<1>. QED
  BY <1>2, <1>8, <1>9 DEF PartsOf, S, t

LEMMA TailFacts ==
  ASSUME NEW S, NEW s \in Seq(S), s # <<>>
  PROVE  /\ Tail(s) \in Seq(S) /\ Len(Tail(s)) = Len(s) - 1
         /\ \A i \in 1 .. Len(s) - 1 : Tail(s)[i] = s[i + 1]
  OBVIOUS

LEMMA TailParts ==
  ASSUME NEW n \in Nat, NEW parts, PartsOf(parts, n), parts # <<>>
  PROVE  /\ PartsOf(Tail(parts), n)
         /\ \A x \in ToSet(Tail(parts)) : parts[1][2] < x[1]
         /\ ToSet(parts) = {parts[1]} \union ToSet(Tail(parts))
<1>. DEFINE S == Part(n)
            t == Tail(parts)
<1>1. /\ parts \in Seq(S) /\ Len(parts) \in Nat /\ Len(parts) >= 1
      /\ DOMAIN parts = 1 .. Len(parts)
  BY DEF PartsOf
<1>. HIDE DEF S
<1>2. /\ t \in Seq(S) /\ Len(t) = Len(parts) - 1
      /\ \A i \in 1 .. Len(parts) - 1 : t[i] = parts[i + 1]
  BY <1>1, TailFacts
<1>. HIDE DEF t
<1>3. \A i \in DOMAIN t : i + 1 \in DOMAIN parts /\ t[i] = parts[i + 1] /\ 1 < i + 1 /\ i \in Nat
  BY <1>1, <1>2
<1>4. 1 \in DOMAIN parts /\ \A i \in DOMAIN parts : i = 1 \/ (i - 1 \in DOMAIN t /\ t[i - 1] = parts[i])
  <2>1. DOMAIN t = 1 .. Len(parts) - 1
    BY <1>1, <1>2
  <2>2. \A i \in 1 .. Len(parts) : i = 1 \/ (i - 1 \in 1 .. Len(parts) - 1 /\ (i - 1) + 1 = i)
    BY <1>1
  <2>. QED
    BY <1>1, <1>2, <2>1, <2>2
<1>5. InOrder(t)
  <2>. SUFFICES ASSUME NEW a \in DOMAIN t, NEW b \in DOMAIN t, a < b
                PROVE  t[a][2] < t[b][1]
    BY DEF InOrder
  <2>1. a + 1 < b + 1
    BY <1>3
  <2>. QED
    BY <1>3, <2>1 DEF PartsOf, InOrder
<1>6. \A i \in DOMAIN t : parts[1][2] < t[i][1]
  BY <1>3, <1>4 DEF PartsOf, InOrder
<1>7. ToSet(parts) = {parts[1]} \union ToSet(t)
  <2>1. ToSet(parts) \subseteq {parts[1]} \union ToSet(t)
    BY <1>4 DEF ToSet
  <2>2. ToSet(t) \subseteq ToSet(parts) /\ parts[1] \in ToSet(parts)
    BY <1>3, <1>4 DEF ToSet
  <2>. QED
    BY <2>1, <2>2
<1>. QED
  <2>1. \A x \in ToSet(t) : parts[1][2] < x[1]
    BY <1>6 DEF ToSet
  <2>. QED
    BY <1>2, <1>5, <1>7, <2>1 DEF PartsOf, S, t

\* With the pivot of the first part at p, the parts before and after it are
\* left, if they have more than one element, and the other parts.
LEMMA RestFacts ==
  ASSUME NEW n \in Nat, NEW parts, PartsOf(parts, n), parts # <<>>,
         NEW p \in Nat, parts[1][1] <= p, p <= parts[1][2]
  PROVE  LET rest == Rest(parts, p)
             before == <<parts[1][1], p - 1>>
             after == <<p + 1, parts[1][2]>>
         IN  /\ PartsOf(rest, n)
             /\ ToSet(rest) = (IF parts[1][1] < p - 1 THEN {before} ELSE {})
                              \union (IF p + 1 < parts[1][2] THEN {after} ELSE {})
                              \union ToSet(Tail(parts))
<1>. DEFINE low == parts[1][1]
            high == parts[1][2]
            part(j, k) == IF j < k THEN <<<<j, k>>>> ELSE <<>>
            u == part(low, p - 1)
            v == part(p + 1, high)
            t == Tail(parts)
<1>1. /\ low \in Nat /\ high \in Nat /\ 1 <= low /\ low <= high /\ high <= n
  <2>. DEFINE S == Part(n)
  <2>1. parts \in Seq(S)
    BY DEF PartsOf
  <2>2. parts[1] \in S
    <3>. HIDE DEF S
    <3>. QED
      BY <2>1
  <2>. QED
    BY <2>2, PartFacts
<1>. HIDE DEF low, high
<1>2. ASSUME NEW j \in Int, NEW k \in Int, 1 <= j, k <= n
      PROVE  /\ PartsOf(part(j, k), n)
             /\ ToSet(part(j, k)) = IF j < k THEN {<<j, k>>} ELSE {}
             /\ \A a \in DOMAIN part(j, k) : part(j, k)[a] = <<j, k>>
  <2>1. CASE j < k
    <3>. DEFINE S == Part(n)
                x == <<j, k>>
    <3>1. x \in S
      BY <1>2, <2>1 DEF Part
    <3>. HIDE DEF S, x
    <3>2. <<x>> \in Seq(S) /\ DOMAIN <<x>> = {1} /\ <<x>>[1] = x
      BY <3>1
    <3>3. PartsOf(<<x>>, n) /\ ToSet(<<x>>) = {x} /\ \A a \in DOMAIN <<x>> : <<x>>[a] = x
      BY <3>2 DEF PartsOf, InOrder, ToSet, S
    <3>. QED
      BY <2>1, <3>3 DEF x
  <2>2. CASE ~(j < k)
    <3>1. PartsOf(<<>>, n) /\ ToSet(<<>>) = {} /\ DOMAIN <<>> = {}
      BY DEF PartsOf, InOrder, ToSet
    <3>. QED
      BY <2>2, <3>1
  <2>. QED
    BY <2>1, <2>2
<1>. HIDE DEF part
<1>3. /\ PartsOf(u, n) /\ ToSet(u) = IF low < p - 1 THEN {<<low, p - 1>>} ELSE {}
      /\ \A a \in DOMAIN u : u[a] = <<low, p - 1>>
  <2>1. low \in Int /\ p - 1 \in Int /\ 1 <= low /\ p - 1 <= n
    BY <1>1 DEF high
  <2>. QED
    BY <1>2, <2>1
<1>4. /\ PartsOf(v, n) /\ ToSet(v) = IF p + 1 < high THEN {<<p + 1, high>>} ELSE {}
      /\ \A a \in DOMAIN v : v[a] = <<p + 1, high>>
  <2>1. p + 1 \in Int /\ high \in Int /\ 1 <= p + 1 /\ high <= n
    BY <1>1
  <2>. QED
    BY <1>2, <2>1
<1>5. /\ PartsOf(t, n) /\ \A x \in ToSet(t) : high < x[1]
      /\ \A b \in DOMAIN t : t[b] \in ToSet(t)
  <2>1. PartsOf(t, n) /\ \A x \in ToSet(t) : high < x[1]
    BY TailParts DEF high
  <2>. QED
    BY <2>1 DEF ToSet
<1>. HIDE DEF u, v, t
<1>6. PartsOf(u \o v, n) /\ ToSet(u \o v) = ToSet(u) \union ToSet(v)
  <2>1. \A a \in DOMAIN u, b \in DOMAIN v : u[a][2] < v[b][1]
    BY <1>3, <1>4
  <2>. QED
    BY <1>3, <1>4, <2>1, PartsConcat
<1>7. \A a \in DOMAIN (u \o v), b \in DOMAIN t : (u \o v)[a][2] < t[b][1]
  <2>. TAKE a \in DOMAIN (u \o v), b \in DOMAIN t
  <2>1. (u \o v)[a] \in ToSet(u \o v)
    BY DEF ToSet
  <2>2. (u \o v)[a] = <<low, p - 1>> \/ (u \o v)[a] = <<p + 1, high>>
    BY <1>3, <1>4, <1>6, <2>1
  <2>3. (u \o v)[a][2] \in Int /\ (u \o v)[a][2] <= high
    <3>. DEFINE x == (u \o v)[a]
    <3>1. x[2] = p - 1 \/ x[2] = high
      BY <2>2
    <3>2. p \in Nat /\ p <= high
      BY DEF high
    <3>. HIDE DEF x
    <3>3. x[2] \in Int /\ x[2] <= high
      BY ONLY <1>1, <3>1, <3>2
    <3>. QED
      BY <3>3 DEF x
  <2>4. t[b][1] \in Nat /\ high < t[b][1]
    <3>. DEFINE S == Part(n)
    <3>1. t \in Seq(S)
      BY <1>5 DEF PartsOf
    <3>2. t[b] \in S
      <4>. HIDE DEF S
      <4>. QED
        BY <3>1
    <3>. QED
      BY <1>5, <3>2, PartFacts
  <2>. QED
    BY <1>1, <2>3, <2>4
<1>8. /\ PartsOf((u \o v) \o t, n)
      /\ ToSet((u \o v) \o t) = ToSet(u \o v) \union ToSet(t)
  <2>. DEFINE uv == u \o v
  <2>1. PartsOf(uv, n) /\ \A a \in DOMAIN uv, b \in DOMAIN t : uv[a][2] < t[b][1]
    BY <1>6, <1>7
  <2>. HIDE DEF uv
  <2>2. PartsOf(uv \o t, n) /\ ToSet(uv \o t) = ToSet(uv) \union ToSet(t)
    BY <1>5, <2>1, PartsConcat
  <2>. QED
    BY <2>2 DEF uv
<1>9. Rest(parts, p) = (u \o v) \o t
  BY DEF Rest, part, u, v, t, low, high
<1>. QED
  BY <1>3, <1>4, <1>6, <1>8, <1>9 DEF low, high, t

-----------------------------------------------------------------------------
(* Sorting: R is who comes before whom                                     *)

\* Of two that are in no part together the second does not come before the
\* first.
Ordered(s, parts, R) ==
    \A j, k \in 1 .. Len(s) :
        j < k /\ (\A x \in parts : ~(x[1] <= j /\ k <= x[2])) => <<s[k], s[j]>> \notin R

\* In the part from low to high, what is before p does not come after the
\* pivot, and what is from p to q does not come before it.
Sided(s, low, high, p, q, R) ==
    /\ \A i \in low .. p - 1 : <<s[high], s[i]>> \notin R
    /\ \A i \in p .. q - 1 : <<s[i], s[high]>> \notin R

LEMMA SwapOutside ==
  ASSUME NEW n \in Nat, NEW parts, PartsOf(parts, n), parts # <<>>,
         NEW es, NEW s, Lists(s, es), Len(s) = n, NEW R, Ordered(s, ToSet(parts), R),
         NEW u \in parts[1][1] .. parts[1][2], NEW v \in parts[1][1] .. parts[1][2],
         NEW j \in 1 .. n, NEW k \in 1 .. n, j < k,
         ~(parts[1][1] <= j /\ k <= parts[1][2]),
         \A x \in ToSet(Tail(parts)) : ~(x[1] <= j /\ k <= x[2])
  PROVE  <<Swapped(s, u, v)[k], Swapped(s, u, v)[j]>> \notin R
<1>. DEFINE low == parts[1][1]
            high == parts[1][2]
            t == Swapped(s, u, v)
            from(i) == IF i = u THEN v ELSE IF i = v THEN u ELSE i
            S == Part(n)
<1>0. parts \in Seq(S)
  BY DEF PartsOf
<1>1. /\ low \in Nat /\ high \in Nat /\ 1 <= low /\ low <= high /\ high <= n
  <2>1. parts[1] \in S
    <3>. HIDE DEF S
    <3>. QED
      BY <1>0
  <2>. QED
    BY <2>1, PartFacts
<1>2. \A x \in ToSet(Tail(parts)) : x[1] \in Nat /\ high < x[1]
  <2>. TAKE x \in ToSet(Tail(parts))
  <2>1. x \in S
    <3>1. Tail(parts) \in Seq(S)
      BY TailParts DEF PartsOf
    <3>. HIDE DEF S
    <3>. QED
      BY <3>1 DEF ToSet
  <2>. QED
    BY <2>1, PartFacts, TailParts
<1>3. u \in low .. high /\ v \in low .. high
  OBVIOUS
<1>. HIDE DEF low, high
<1>4. \A i \in 1 .. n : /\ from(i) \in 1 .. n /\ t[i] = s[from(i)]
                        /\ i \notin low .. high => from(i) = i
                        /\ i \in low .. high => from(i) \in low .. high
  <2>1. u \in 1 .. Len(s) /\ v \in 1 .. Len(s)
    BY <1>1, <1>3
  <2>2. /\ t[u] = s[v] /\ t[v] = s[u]
        /\ \A i \in 1 .. Len(s) : i # u /\ i # v => t[i] = s[i]
    <3>1. s \in Seq(es)
      BY DEF Lists
    <3>. HIDE DEF from
    <3>. QED
      BY ONLY <2>1, <3>1 DEF Swapped
  <2>. HIDE DEF t
  <2>. QED
    BY <1>1, <1>3, <2>1, <2>2
<1>. HIDE DEF from, t
<1>5. ~(low <= j /\ k <= high)
  BY DEF low, high
<1>6. from(j) < from(k) /\ ~(low <= from(j) /\ from(k) <= high)
  <2>1. j \in Nat /\ k \in Nat /\ from(j) \in Nat /\ from(k) \in Nat
    BY <1>4
  <2>2. CASE j \in low .. high
    <3>1. k \notin low .. high /\ k > high
      BY <1>1, <1>5, <2>1, <2>2
    <3>2. from(k) = k
      BY <1>4, <3>1
    <3>3. from(j) <= high
      BY <1>1, <1>4, <2>2
    <3>. QED
      BY <1>1, <2>1, <3>1, <3>2, <3>3
  <2>3. CASE j \notin low .. high
    <3>1. from(j) = j
      BY <1>4, <2>3
    <3>2. CASE k \in low .. high
      BY <1>1, <1>4, <2>1, <2>3, <3>1, <3>2
    <3>3. CASE k \notin low .. high
      BY <1>1, <1>4, <1>5, <2>1, <2>3, <3>1, <3>3
    <3>. QED
      BY <3>2, <3>3
  <2>. QED
    BY <2>2, <2>3
<1>7. ASSUME NEW x \in ToSet(parts) PROVE ~(x[1] <= from(j) /\ from(k) <= x[2])
  <2>1. CASE x = parts[1]
    BY <1>6, <2>1 DEF low, high
  <2>2. CASE x \in ToSet(Tail(parts))
    <3>1. x[1] \in Nat /\ high < x[1] /\ ~(x[1] <= j /\ k <= x[2])
      BY <1>2, <2>2
    <3>2. from(j) \in Nat /\ j \in Nat /\ k \in Nat
      BY <1>4
    <3>3. CASE j \in low .. high
      <4>1. from(j) <= high
        BY <1>1, <1>4, <3>3
      <4>. QED
        BY <1>1, <3>1, <3>2, <4>1
    <3>4. CASE j \notin low .. high
      <4>1. from(j) = j
        BY <1>4, <3>4
      <4>2. CASE x[1] <= j
        <5>1. k \notin low .. high
          BY <1>1, <3>1, <3>2, <4>2
        <5>. QED
          BY <1>4, <3>1, <4>1, <5>1
      <4>. QED
        BY <4>1, <4>2
    <3>. QED
      BY <3>3, <3>4
  <2>. QED
    BY <2>1, <2>2, TailParts
<1>8. from(j) \in 1 .. Len(s) /\ from(k) \in 1 .. Len(s)
  BY <1>4
<1>9. <<s[from(k)], s[from(j)]>> \notin R
  BY <1>6, <1>7, <1>8 DEF Ordered
<1>. QED
  BY <1>4, <1>9 DEF t

LEMMA CompareOrdered ==
  ASSUME NEW n \in Nat, NEW parts, PartsOf(parts, n), parts # <<>>,
         NEW es, NEW s, Lists(s, es), Len(s) = n, NEW R, Ordered(s, ToSet(parts), R),
         NEW u \in parts[1][1] .. parts[1][2], NEW v \in parts[1][1] .. parts[1][2]
  PROVE  Ordered(Swapped(s, u, v), ToSet(parts), R)
<1>. DEFINE t == Swapped(s, u, v)
<1>1. parts[1] \in ToSet(parts) /\ ToSet(Tail(parts)) \subseteq ToSet(parts)
  BY TailParts
<1>2. Len(t) = n
  BY DEF Swapped, Lists
<1>. SUFFICES ASSUME NEW j \in 1 .. n, NEW k \in 1 .. n, j < k,
                     \A x \in ToSet(parts) : ~(x[1] <= j /\ k <= x[2])
              PROVE  <<t[k], t[j]>> \notin R
  BY <1>2 DEF Ordered
<1>. QED
  BY <1>1, SwapOutside

LEMMA PartitionOrdered ==
  ASSUME NEW n \in Nat, NEW parts, PartsOf(parts, n), parts # <<>>,
         NEW es, NEW s, Lists(s, es), Len(s) = n, NEW R, Ordered(s, ToSet(parts), R),
         NEW p \in parts[1][1] .. parts[1][2],
         Sided(s, parts[1][1], parts[1][2], p, parts[1][2], R),
         \A a, b, c \in es : <<a, b>> \notin R /\ <<b, c>> \notin R => <<a, c>> \notin R
  PROVE  Ordered(Swapped(s, p, parts[1][2]), ToSet(Rest(parts, p)), R)
<1>. DEFINE low == parts[1][1]
            high == parts[1][2]
            t == Swapped(s, p, high)
            rest == ToSet(Rest(parts, p))
            S == Part(n)
<1>0. parts \in Seq(S)
  BY DEF PartsOf
<1>1. /\ low \in Nat /\ high \in Nat /\ 1 <= low /\ low <= high /\ high <= n
  <2>1. parts[1] \in S
    <3>. HIDE DEF S
    <3>. QED
      BY <1>0
  <2>. QED
    BY <2>1, PartFacts
<1>2. p \in Nat /\ low <= p /\ p <= high
  BY <1>1
<1>3. rest = (IF low < p - 1 THEN {<<low, p - 1>>} ELSE {})
             \union (IF p + 1 < high THEN {<<p + 1, high>>} ELSE {})
             \union ToSet(Tail(parts))
  BY <1>2, RestFacts
<1>4. Len(t) = n
  BY DEF Swapped, Lists
<1>5. Sided(s, low, high, p, high, R)
  OBVIOUS
<1>6. /\ t[p] = s[high] /\ t[high] = s[p]
      /\ \A i \in 1 .. n : i # p /\ i # high => t[i] = s[i]
  <2>1. p \in 1 .. n /\ high \in 1 .. n
    BY <1>1, <1>2
  <2>. HIDE DEF high
  <2>. QED
    BY <2>1, SwapLists
<1>7. \A i \in 1 .. n : s[i] \in es
  BY DEF Lists
<1>8. ASSUME NEW j \in 1 .. n, NEW k \in 1 .. n, j < k,
             \A x \in rest : ~(x[1] <= j /\ k <= x[2]),
             low <= j, k <= high
      PROVE  <<t[k], t[j]>> \notin R
  <2>. HIDE DEF low, high, t, rest
  <2>1. j <= p /\ p <= k
    <3>1. CASE k < p
      <4>1. low < p - 1 /\ j >= low /\ k <= p - 1
        BY <1>1, <1>2, <1>8, <3>1
      <4>2. <<low, p - 1>> \in rest
        BY <1>3, <4>1
      <4>. QED
        BY <1>8, <4>1, <4>2
    <3>2. CASE p < j
      <4>1. p + 1 < high /\ p + 1 <= j /\ k <= high
        BY <1>1, <1>2, <1>8, <3>2
      <4>2. <<p + 1, high>> \in rest
        BY <1>3, <4>1
      <4>. QED
        BY <1>8, <4>1, <4>2
    <3>. QED
      BY <1>2, <3>1, <3>2
  <2>2. j < p => t[j] = s[j] /\ <<s[high], s[j]>> \notin R
    <3>. SUFFICES ASSUME j < p PROVE t[j] = s[j] /\ <<s[high], s[j]>> \notin R
      OBVIOUS
    <3>1. j # p /\ j # high /\ j \in low .. p - 1
      BY <1>1, <1>2, <1>8
    <3>. QED
      BY <1>5, <1>6, <3>1 DEF Sided
  <2>3. p < k => <<t[k], s[high]>> \notin R /\ t[k] \in es
    <3>. SUFFICES ASSUME p < k PROVE <<t[k], s[high]>> \notin R /\ t[k] \in es
      OBVIOUS
    <3>1. CASE k = high
      <4>1. p \in p .. high - 1 /\ p \in 1 .. n
        BY <1>1, <1>2, <3>1
      <4>. QED
        BY <1>5, <1>6, <1>7, <3>1, <4>1 DEF Sided
    <3>2. CASE k # high
      <4>1. k # p /\ k \in p .. high - 1
        BY <1>1, <1>2, <1>8, <3>2
      <4>. QED
        BY <1>5, <1>6, <1>7, <3>2, <4>1 DEF Sided
    <3>. QED
      BY <3>1, <3>2
  <2>4. s[high] \in es /\ s[j] \in es
    BY <1>1, <1>7
  <2>5. CASE j < p /\ p < k
    BY <2>2, <2>3, <2>4, <2>5
  <2>6. CASE j = p
    BY <1>2, <1>6, <1>8, <2>3, <2>6
  <2>7. CASE k = p
    BY <1>2, <1>6, <1>8, <2>2, <2>7
  <2>. QED
    BY <1>2, <2>1, <2>5, <2>6, <2>7
<1>. SUFFICES ASSUME NEW j \in 1 .. n, NEW k \in 1 .. n, j < k,
                     \A x \in rest : ~(x[1] <= j /\ k <= x[2])
              PROVE  <<t[k], t[j]>> \notin R
  BY <1>4 DEF Ordered
<1>9. CASE ~(low <= j /\ k <= high)
  <2>1. \A x \in ToSet(Tail(parts)) : ~(x[1] <= j /\ k <= x[2])
    BY <1>3
  <2>2. high \in low .. high /\ p \in low .. high
    BY <1>1, <1>2
  <2>. QED
    BY <1>9, <2>1, <2>2, SwapOutside
<1>. QED
  BY <1>8, <1>9

-----------------------------------------------------------------------------
(* What every Select keeps                                                 *)

Places ==
    /\ pc   \in [Request -> Steps]
    /\ DOMAIN list = Request
    /\ span \in [Request -> Seq(Nat \X Nat)]
    /\ left \in [Request -> Nat]
    /\ scan \in [Request -> Nat]
    /\ at   \in [Request -> Nat]

\* The parts that quicksort has still to sort, and its place in the first.
InBounds(r) ==
    /\ span[r] # <<>> /\ PartsOf(span[r], Len(list[r]))
    /\ span[r][1][1] <= left[r] /\ left[r] <= scan[r]
    /\ scan[r] <= span[r][1][2]

ListInv ==
    /\ Places
    /\ \A r \in Request :
          /\ pc[r] \notin {"new", "done"} =>
                Lists(list[r], Suitable(r)) /\ at[r] \in 1 .. Len(list[r])
          /\ pc[r] = "sorting" => InBounds(r)

LEMMA ListInit == Init => ListInv
<1>. SUFFICES ASSUME Init PROVE ListInv
  OBVIOUS
<1>1. Places
  <2>1. <<>> \in Seq(Nat \X Nat)
    OBVIOUS
  <2>. QED
    BY <2>1 DEF Init, Places, Steps
<1>. QED
  BY <1>1 DEF Init, ListInv

\* A list that is in place, and where quicksort is in it.
LEMMA BoundsFacts ==
  ASSUME NEW r \in Request, ListInv, pc[r] = "sorting"
  PROVE  LET n == Len(list[r]) low == span[r][1][1] high == span[r][1][2] IN
         /\ Lists(list[r], Suitable(r)) /\ n \in Nat
         /\ PartsOf(span[r], n) /\ span[r] # <<>>
         /\ low \in Nat /\ high \in Nat /\ 1 <= low /\ high <= n
         /\ left[r] \in Nat /\ scan[r] \in Nat
         /\ low <= left[r] /\ left[r] <= scan[r] /\ scan[r] <= high
<1>. DEFINE S == Part(Len(list[r]))
<1>1. Lists(list[r], Suitable(r)) /\ InBounds(r)
  BY DEF ListInv
<1>2. Len(list[r]) \in Nat
  BY <1>1 DEF Lists
<1>3. span[r][1] \in S
  <2>1. span[r] \in Seq(S) /\ span[r] # <<>>
    BY <1>1 DEF InBounds, PartsOf
  <2>. HIDE DEF S
  <2>. QED
    BY <2>1
<1>4. left[r] \in Nat /\ scan[r] \in Nat
  BY DEF ListInv, Places
<1>. QED
  BY <1>1, <1>2, <1>3, <1>4, PartFacts DEF InBounds

LEMMA PartsAreSpans ==
  ASSUME NEW n \in Nat, NEW parts, PartsOf(parts, n)
  PROVE  /\ parts \in Seq(Nat \X Nat)
         /\ parts # <<>> => /\ parts[1] \in ToSet(parts)
                            /\ parts[1][1] \in Nat /\ parts[1][2] \in Nat
                            /\ parts[1][1] <= parts[1][2]
<1>. DEFINE S == Part(n)
<1>1. parts \in Seq(S)
  BY DEF PartsOf
<1>2. \A k \in DOMAIN parts : parts[k] \in S
  <2>. HIDE DEF S
  <2>. QED
    BY <1>1
<1>3. \A k \in DOMAIN parts : parts[k] \in Nat \X Nat
  BY <1>2 DEF Part
<1>4. parts \in Seq(Nat \X Nat)
  <2>. HIDE DEF S
  <2>. QED
    BY ONLY <1>1, <1>3, SeqInto
<1>5. ASSUME parts # <<>>
      PROVE  /\ parts[1] \in ToSet(parts)
             /\ parts[1][1] \in Nat /\ parts[1][2] \in Nat
             /\ parts[1][1] <= parts[1][2]
  <2>1. 1 \in DOMAIN parts
    <3>. HIDE DEF S
    <3>. QED
      BY <1>1, <1>5
  <2>. QED
    BY <1>2, <2>1, PartFacts DEF ToSet
<1>. QED
  BY <1>4, <1>5

LEMMA ListStep == ListInv /\ [Next]_vars => ListInv'
<1>. SUFFICES ASSUME ListInv, [Next]_vars PROVE ListInv'
  OBVIOUS
<1>0. Places
  BY DEF ListInv
\* A step of one request, seen from all.
<1>a. ASSUME NEW r \in Request, Places',
             \A q \in Request \ {r} :
                /\ pc'[q] = pc[q] /\ list'[q] = list[q] /\ span'[q] = span[q]
                /\ left'[q] = left[q] /\ scan'[q] = scan[q] /\ at'[q] = at[q],
             pc'[r] \notin {"new", "done"} =>
                Lists(list'[r], Suitable(r)) /\ at'[r] \in 1 .. Len(list'[r]),
             pc'[r] = "sorting" => InBounds(r)'
      PROVE  ListInv'
  BY <1>a DEF ListInv, InBounds
<1>1. ASSUME NEW r \in Request, Filter(r) PROVE ListInv'
  <2>1. Places'
    BY <1>0, <1>1 DEF Filter, Goto, Places, Steps, sortVars
  <2>2. list'[r] = Eligible(r) /\ at'[r] = 1 /\ pc'[r] # "sorting"
    BY <1>0, <1>1 DEF Filter, Goto, Places
  <2>3. Lists(Eligible(r), Suitable(r)) /\ 1 \in 1 .. Len(Eligible(r))
    <3>1. Lists(Eligible(r), Suitable(r)) /\ Eligible(r) # <<>>
      BY EligibleFacts
    <3>2. Eligible(r) \in Seq(Suitable(r))
      BY <3>1 DEF Lists
    <3>. QED
      BY <3>1, <3>2
  <2>. QED
    BY <1>a, <1>0, <1>1, <2>1, <2>2, <2>3 DEF Filter, Goto, Places, sortVars
<1>2. ASSUME NEW r \in Request, Rank(r) PROVE ListInv'
  <2>. DEFINE n == Len(list[r])
  <2>1. Lists(list[r], Suitable(r)) /\ at[r] \in 1 .. n
    BY <1>2 DEF Rank, ListInv
  <2>2. n \in Nat /\ n >= 1
    BY <2>1 DEF Lists
  <2>. HIDE DEF n
  <2>3. PartsOf(<<<<1, n>>>>, n)
    <3>1. <<1, n>> \in Part(n)
      BY <2>2 DEF Part
    <3>2. <<<<1, n>>>> \in Seq(Part(n)) /\ DOMAIN <<<<1, n>>>> = {1}
      <4>. DEFINE S == Part(n)
                  x == <<1, n>>
      <4>1. x \in S
        BY <3>1
      <4>. HIDE DEF S, x
      <4>2. <<x>> \in Seq(S) /\ DOMAIN <<x>> = {1}
        BY <4>1
      <4>. QED
        BY <4>2 DEF S, x
    <3>. QED
      BY <3>2 DEF PartsOf, InOrder
  <2>4. <<<<1, n>>>> \in Seq(Nat \X Nat)
    BY <2>2
  <2>5. Places'
    BY <1>0, <1>2, <2>4 DEF Rank, Goto, Places, Steps, n
  <2>6. /\ span'[r] = <<<<1, n>>>> /\ left'[r] = 1 /\ scan'[r] = 1
        /\ list' = list /\ at' = at /\ Len(list'[r]) = n
    BY <1>0, <1>2 DEF Rank, Places, n
  <2>7. InBounds(r)'
    BY <2>2, <2>3, <2>6 DEF InBounds
  <2>. QED
    BY <1>a, <1>0, <1>2, <2>1, <2>5, <2>6, <2>7 DEF Rank, Goto, Places
<1>3. ASSUME NEW r \in Request, Compare(r) PROVE ListInv'
  <2>. DEFINE n == Len(list[r])
              low == span[r][1][1]
              high == span[r][1][2]
              t == Swapped(list[r], left[r], scan[r])
  <2>1. /\ Lists(list[r], Suitable(r)) /\ n \in Nat
        /\ PartsOf(span[r], n) /\ span[r] # <<>>
        /\ low \in Nat /\ high \in Nat /\ 1 <= low /\ high <= n
        /\ left[r] \in Nat /\ scan[r] \in Nat
        /\ low <= left[r] /\ left[r] <= scan[r] /\ scan[r] < high
    BY <1>3, BoundsFacts DEF Compare
  <2>. HIDE DEF low, high, n
  <2>2. left[r] \in 1 .. n /\ scan[r] \in 1 .. n
    BY <2>1
  <2>3. Lists(t, Suitable(r)) /\ Len(t) = n
    BY <2>1, <2>2, SwapLists DEF n
  <2>. HIDE DEF t
  <2>4. \/ /\ list' = [list EXCEPT ![r] = t]
           /\ left' = [left EXCEPT ![r] = @ + 1]
        \/ list' = list /\ left' = left
    BY <1>3 DEF Compare, t
  <2>5. /\ scan' = [scan EXCEPT ![r] = @ + 1]
        /\ span' = span /\ pc' = pc /\ at' = at
    BY <1>3 DEF Compare
  <2>6. Lists(list'[r], Suitable(r)) /\ Len(list'[r]) = n
    BY <1>0, <2>1, <2>3, <2>4 DEF Places, n
  <2>7. scan'[r] = scan[r] + 1 /\ left'[r] \in {left[r], left[r] + 1}
    BY <1>0, <2>4, <2>5 DEF Places
  <2>8. Places'
    <3>1. left' \in [Request -> Nat] /\ scan' \in [Request -> Nat]
      <4>1. left[r] + 1 \in Nat /\ scan[r] + 1 \in Nat
        BY <2>1
      <4>2. left \in [Request -> Nat] /\ scan \in [Request -> Nat]
        BY <1>0 DEF Places
      <4>. QED
        BY ONLY <2>4, <2>5, <4>1, <4>2
    <3>. QED
      BY <1>0, <2>4, <2>5, <3>1 DEF Places
  <2>9. InBounds(r)'
    <3>1. low <= left'[r] /\ left'[r] <= scan'[r] /\ scan'[r] <= high
      BY <2>1, <2>7
    <3>. QED
      BY <2>1, <2>5, <2>6, <3>1 DEF InBounds, low, high
  <2>10. at'[r] \in 1 .. Len(list'[r])
    BY <1>3, <2>5, <2>6 DEF ListInv, Compare, n
  <2>. QED
    BY <1>a, <1>0, <2>4, <2>5, <2>6, <2>8, <2>9, <2>10 DEF Places
<1>4. ASSUME NEW r \in Request, Partition(r) PROVE ListInv'
  <2>. DEFINE n == Len(list[r])
              low == span[r][1][1]
              high == span[r][1][2]
              p == left[r]
              t == Swapped(list[r], p, high)
              rest == Rest(span[r], p)
              start == IF rest = <<>> THEN 0 ELSE rest[1][1]
  <2>1. /\ Lists(list[r], Suitable(r)) /\ n \in Nat
        /\ PartsOf(span[r], n) /\ span[r] # <<>>
        /\ low \in Nat /\ high \in Nat /\ 1 <= low /\ high <= n
        /\ p \in Nat /\ low <= p /\ p <= high
    BY <1>4, BoundsFacts DEF Partition
  <2>2. /\ list' = [list EXCEPT ![r] = t]
        /\ span' = [span EXCEPT ![r] = rest]
        /\ left' = [left EXCEPT ![r] = start]
        /\ scan' = [scan EXCEPT ![r] = start]
        /\ pc'   = [pc EXCEPT ![r] = IF rest = <<>> THEN "sorted" ELSE "sorting"]
        /\ at' = at
    BY <1>4 DEF Partition, Goto
  <2>3. PartsOf(rest, n)
    BY <2>1, RestFacts
  <2>. HIDE DEF n, rest
  <2>4. /\ rest \in Seq(Nat \X Nat)
        /\ rest # <<>> => /\ rest[1][1] \in Nat /\ rest[1][2] \in Nat
                          /\ rest[1][1] <= rest[1][2]
    BY <2>1, <2>3, PartsAreSpans
  <2>5. start \in Nat
    BY <2>4
  <2>6. Lists(t, Suitable(r)) /\ Len(t) = n
    <3>1. p \in 1 .. n /\ high \in 1 .. n
      BY <2>1
    <3>. HIDE DEF p, high
    <3>. QED
      BY <2>1, <3>1, SwapLists DEF n
  <2>. HIDE DEF t, start
  <2>7. list'[r] = t /\ span'[r] = rest /\ left'[r] = start /\ scan'[r] = start
    BY <1>0, <2>2 DEF Places
  <2>8. Places'
    BY <1>0, <2>2, <2>4, <2>5 DEF Places, Steps
  <2>9. ASSUME pc'[r] = "sorting" PROVE InBounds(r)'
    <3>1. rest # <<>>
      BY <1>0, <2>2, <2>9 DEF Places
    <3>2. start = rest[1][1]
      BY <3>1 DEF start
    <3>. QED
      BY <2>3, <2>4, <2>6, <2>7, <3>1, <3>2 DEF InBounds
  <2>10. at'[r] \in 1 .. Len(list'[r])
    <3>1. at[r] \in 1 .. n
      BY <1>4 DEF ListInv, Partition, n
    <3>. QED
      BY <2>2, <2>6, <2>7, <3>1
  <2>. QED
    BY <1>a, <1>0, <2>2, <2>6, <2>7, <2>8, <2>9, <2>10 DEF Places
<1>5. ASSUME NEW r \in Request, Check(r) PROVE ListInv'
  <2>1. Lists(list[r], Suitable(r)) /\ at[r] \in 1 .. Len(list[r])
    BY <1>5 DEF Check, ListInv
  <2>2. /\ Lists(list'[r], Suitable(r)) /\ Len(list'[r]) = Len(list[r])
        /\ DOMAIN list' = Request
        /\ \A q \in Request \ {r} : list'[q] = list[q]
    <3>1. CASE list' = list
      BY <1>0, <2>1, <3>1 DEF Places
    <3>2. CASE list' # list
      <4>1. PICK k \in DOMAIN list[r] : list' = [list EXCEPT ![r] = WithFirst(list[r], k)]
        BY <1>5, <3>2 DEF Check
      <4>2. k \in 1 .. Len(list[r])
        <5>1. DOMAIN list[r] = 1 .. Len(list[r])
          BY <2>1 DEF Lists
        <5>. QED
          BY ONLY <5>1
      <4>3. LET t == WithFirst(list[r], k)
            IN  Lists(t, Suitable(r)) /\ Len(t) = Len(list[r])
        BY <2>1, <4>2, FirstLists
      <4>. QED
        BY <1>0, <4>1, <4>3 DEF Places
    <3>. QED
      BY <3>1, <3>2
  <2>3. /\ pc' = [pc EXCEPT ![r] = "ranked"] /\ at' = at
        /\ span' = span /\ left' = left /\ scan' = scan
    BY <1>5 DEF Check, Goto
  <2>4. Places'
    BY <1>0, <2>2, <2>3 DEF Places, Steps
  <2>. QED
    BY <1>a, <1>0, <2>1, <2>2, <2>3, <2>4 DEF Places
<1>6. ASSUME NEW r \in Request, EndCall(r) PROVE ListInv'
  <2>1. Places'
    BY <1>0, <1>6 DEF EndCall, Goto, Places, Steps, sortVars
  <2>. QED
    BY <1>a, <1>0, <1>6, <2>1 DEF EndCall, Goto, Places, ListInv, sortVars
<1>7. ASSUME NEW r \in Request, Update(r) PROVE ListInv'
  <2>1. Places'
    BY <1>0, <1>7 DEF Update, Goto, Places, Steps, sortVars
  <2>. QED
    BY <1>a, <1>0, <1>7, <2>1 DEF Update, Goto, Places, ListInv, sortVars
<1>8. ASSUME NEW r \in Request, Observe(r) PROVE ListInv'
  <2>1. Lists(list[r], Suitable(r)) /\ at[r] \in 1 .. Len(list[r])
    BY <1>8 DEF Observe, ListInv
  <2>2. CASE /\ at[r] < Len(list[r]) /\ at' = [at EXCEPT ![r] = @ + 1]
             /\ Goto(r, "ranked") /\ UNCHANGED list
    <3>1. at[r] + 1 \in 1 .. Len(list[r]) /\ at[r] + 1 \in Nat
      <4>1. list[r] \in Seq(Suitable(r))
        BY <2>1 DEF Lists
      <4>2. Len(list[r]) \in Nat
        BY <4>1
      <4>. QED
        BY <2>1, <2>2, <4>2
    <3>2. Places'
      BY <1>0, <1>8, <2>2, <3>1 DEF Observe, Goto, Places, Steps, sortVars
    <3>3. at'[r] = at[r] + 1 /\ list' = list /\ pc'[r] = "ranked"
      BY <1>0, <2>2 DEF Goto, Places
    <3>. QED
      BY <1>a, <1>0, <1>8, <2>1, <2>2, <3>1, <3>2, <3>3 DEF Observe, Goto, Places, sortVars
  <2>3. CASE /\ at' = [at EXCEPT ![r] = 0] /\ list' = [list EXCEPT ![r] = <<>>]
             /\ Goto(r, "done")
    <3>1. Places'
      BY <1>0, <1>8, <2>3 DEF Observe, Goto, Places, Steps, sortVars
    <3>. QED
      BY <1>a, <1>0, <1>8, <2>3, <3>1 DEF Observe, Goto, Places, sortVars
  <2>. QED
    BY <1>8, <2>2, <2>3 DEF Observe
\* The others leave the lists alone.
<1>9. CASE UNCHANGED <<pc, list, span, left, scan, at>>
  BY <1>9 DEF ListInv, Places, InBounds
<1>10. ASSUME NEW e \in Endpoint, Forget(e) PROVE ListInv'
  BY <1>9, <1>10 DEF Forget, sortVars
<1>11. ASSUME NEW e \in Endpoint, StartRefresh(e) PROVE ListInv'
  BY <1>9, <1>11 DEF StartRefresh, sortVars
<1>12. CASE Gather
  BY <1>9, <1>12 DEF Gather, sortVars
<1>13. CASE RefreshEndpoint
  BY <1>9, <1>13 DEF RefreshEndpoint, sortVars
<1>14. CASE UNCHANGED vars
  BY <1>9, <1>14 DEF vars, sortVars
<1>. QED
  BY <1>1, <1>2, <1>3, <1>4, <1>5, <1>6, <1>7, <1>8, <1>10, <1>11, <1>12,
     <1>13, <1>14 DEF Next

\* However the attributes change while a list is sorted and checked,
\* quicksort stays within it, and the request tries every endpoint that
\* suits it, no other, and each once.
THEOREM ListsAreWhole == Spec => []ListIsWhole
<1>1. ASSUME ListInv, NEW r \in Request, pc[r] \notin {"new", "done"}
      PROVE  ToSet(list[r]) = Suitable(r) /\ IsInjective(list[r])
  <2>1. Lists(list[r], Suitable(r)) /\ Suitable(r) \in SUBSET Endpoint
    BY <1>1 DEF ListInv, Suitable
  <2>. QED
    BY <2>1, ListsFacts
<1>2. ListInv => ListIsWhole
  BY <1>1 DEF ListIsWhole
<1>. QED
  BY <1>2, ListInit, ListStep, PTL DEF Spec

-----------------------------------------------------------------------------
(* Types                                                                   *)

LEMMA SeqFacts ==
  ASSUME NEW S
  PROVE  /\ <<>> \in Seq(S)
         /\ \A s \in Seq(S), x \in S : Append(s, x) \in Seq(S)
         /\ \A s \in Seq(S) : s # <<>> => Tail(s) \in Seq(S)
OBVIOUS

LEMMA TypeInit == Init => TypeOK
<1>. SUFFICES ASSUME Init PROVE TypeOK
  OBVIOUS
<1>1. \A S : <<>> \in Seq(S)
  OBVIOUS
<1>2. count \in [Endpoint -> Nat] /\ duration \in [Endpoint -> Nat]
  <2>1. Counts \subseteq Nat /\ Durations \union {0} \subseteq Nat
    BY NumberAssumption
  <2>. QED
    BY <2>1 DEF Init
<1>. QED
  BY <1>1, <1>2 DEF Init, TypeOK, Steps, NoScores, NoCall

LEMMA CalleeType ==
  ASSUME NEW r \in Request, ListInv, pc[r] \notin {"new", "done"}
  PROVE  Callee(r) \in Endpoint
<1>1. Lists(list[r], Suitable(r)) /\ Suitable(r) \in SUBSET Endpoint
      /\ at[r] \in 1 .. Len(list[r])
  BY DEF ListInv, Suitable
<1>. QED
  BY <1>1, ListsFacts DEF Callee

LEMMA TypeStep == ListInv /\ ListInv' /\ TypeOK /\ [Next]_vars => TypeOK'
<1>. SUFFICES ASSUME ListInv, ListInv', TypeOK, [Next]_vars PROVE TypeOK'
  OBVIOUS
<1>0. /\ pc' \in [Request -> Steps] /\ at' \in [Request -> Nat]
      /\ span' \in [Request -> Seq(Nat \X Nat)]
      /\ left' \in [Request -> Nat] /\ scan' \in [Request -> Nat]
      /\ DOMAIN list' = Request
  BY DEF ListInv, Places
<1>l. ASSUME NEW r \in Request, NEW s, list' = [list EXCEPT ![r] = s],
             pc'[r] \notin {"new", "done"}
      PROVE  list' \in [Request -> Seq(Endpoint)]
  <2>1. list \in [Request -> Seq(Endpoint)]
    BY DEF TypeOK
  <2>2. Lists(s, Suitable(r)) /\ Suitable(r) \in SUBSET Endpoint
    BY <1>l, <2>1 DEF ListInv, Suitable
  <2>3. s \in Seq(Endpoint)
    BY <2>2, ListsFacts
  <2>. QED
    BY <1>l, <2>1, <2>3
<1>1. ASSUME NEW r \in Request, Filter(r) PROVE TypeOK'
  <2>1. pc'[r] \notin {"new", "done"} /\ list' = [list EXCEPT ![r] = Eligible(r)]
    BY <1>1 DEF Filter, Goto, TypeOK
  <2>2. list' \in [Request -> Seq(Endpoint)]
    BY <1>l, <2>1
  <2>. QED
    BY <1>0, <1>1, <2>2 DEF Filter, TypeOK, attrVars, summaryVars, sortVars
<1>2. ASSUME NEW r \in Request, Rank(r) PROVE TypeOK'
  <2>. DEFINE s == [e \in Endpoint |-> IF e \in ToSet(list[r]) THEN Score(list[r], e) ELSE 0]
  <2>1. list[r] \in Seq(Endpoint)
    BY DEF TypeOK
  <2>2. \A e \in Endpoint : Score(list[r], e) \in Nat
    BY <2>1, ScoreType DEF TypeOK
  <2>3. s \in [Endpoint -> Nat]
    BY <2>2
  <2>4. scores' = [scores EXCEPT ![r] = s]
    BY <1>2 DEF Rank
  <2>. HIDE DEF s
  <2>5. scores' \in [Request -> [Endpoint -> Nat]]
    <3>1. scores \in [Request -> [Endpoint -> Nat]]
      BY DEF TypeOK
    <3>. QED
      BY ONLY <2>3, <2>4, <3>1
  <2>6. calm' \in SUBSET Request
    BY <1>2 DEF Rank, TypeOK
  <2>7. UNCHANGED <<attrVars, summaryVars, list, at, call, failed>>
    BY <1>2 DEF Rank
  <2>. QED
    BY <1>0, <2>5, <2>6, <2>7 DEF TypeOK, attrVars, summaryVars
<1>3. ASSUME NEW r \in Request, Compare(r) PROVE TypeOK'
  <2>1. pc'[r] \notin {"new", "done"}
    BY <1>3 DEF Compare
  <2>2. list' \in [Request -> Seq(Endpoint)]
    <3>1. CASE list' = list
      BY <3>1 DEF TypeOK
    <3>2. CASE list' = [list EXCEPT ![r] = Swapped(list[r], left[r], scan[r])]
      BY <1>l, <2>1, <3>2
    <3>. QED
      BY <1>3, <3>1, <3>2 DEF Compare
  <2>. QED
    BY <1>0, <1>3, <2>2 DEF Compare, TypeOK, attrVars, summaryVars
<1>4. ASSUME NEW r \in Request, Partition(r) PROVE TypeOK'
  <2>1. /\ pc'[r] \notin {"new", "done"}
        /\ list' = [list EXCEPT ![r] = Swapped(list[r], left[r], span[r][1][2])]
    BY <1>4 DEF Partition, Goto, TypeOK
  <2>2. list' \in [Request -> Seq(Endpoint)]
    BY <1>l, <2>1
  <2>. QED
    BY <1>0, <1>4, <2>2 DEF Partition, TypeOK, attrVars, summaryVars
<1>5. ASSUME NEW r \in Request, Check(r) PROVE TypeOK'
  <2>1. pc'[r] \notin {"new", "done"}
    BY <1>5 DEF Check, Goto, TypeOK
  <2>2. list' \in [Request -> Seq(Endpoint)]
    <3>1. CASE list' = list
      BY <3>1 DEF TypeOK
    <3>2. CASE \E k : list' = [list EXCEPT ![r] = WithFirst(list[r], k)]
      BY <1>l, <2>1, <3>2
    <3>. QED
      BY <1>5, <3>1, <3>2 DEF Check
  <2>3. scores' \in [Request -> [Endpoint -> Nat]]
    BY <1>5 DEF Check, TypeOK, NoScores
  <2>. QED
    BY <1>0, <1>5, <2>2, <2>3 DEF Check, TypeOK, attrVars, summaryVars
<1>6. ASSUME NEW r \in Request, EndCall(r) PROVE TypeOK'
  <2>1. Callee(r) \in Endpoint
    BY <1>6, CalleeType DEF EndCall
  <2>2. call' \in [Request -> [ok : BOOLEAN, took : Nat, was : BOOLEAN]]
    BY <1>6, <2>1, NumberAssumption DEF EndCall, TypeOK
  <2>. QED
    BY <1>0, <1>6, <2>2 DEF EndCall, TypeOK, attrVars, summaryVars, sortVars
<1>7. ASSUME NEW r \in Request, Update(r) PROVE TypeOK'
  <2>. DEFINE e == Callee(r)
  <2>1. e \in Endpoint
    BY <1>7, CalleeType DEF Update
  <2>2. call[r].ok \in BOOLEAN /\ call[r].took \in Nat
    BY DEF TypeOK
  <2>3. /\ count' = [count EXCEPT ![e] = @ + 1]
        /\ duration' = [duration EXCEPT ![e] = IF call[r].took > 0 THEN call[r].took ELSE @]
        /\ health' = [health EXCEPT ![e] = call[r].ok]
        /\ failed' = IF call[r].ok THEN failed ELSE failed \union {e}
    BY <1>7 DEF Update
  <2>. HIDE DEF e
  <2>4. /\ count' \in [Endpoint -> Nat] /\ duration' \in [Endpoint -> Nat]
        /\ health' \in [Endpoint -> BOOLEAN] /\ failed' \in SUBSET Endpoint
    <3>1. health' \in [Endpoint -> BOOLEAN]
      BY <2>2, <2>3 DEF TypeOK
    <3>. QED
      BY <2>1, <2>2, <2>3, <3>1 DEF TypeOK
  <2>. QED
    BY <1>0, <1>7, <2>4 DEF Update, TypeOK, summaryVars, sortVars
<1>8. ASSUME NEW r \in Request, Observe(r) PROVE TypeOK'
  <2>. DEFINE e == Callee(r)
  <2>1. e \in Endpoint
    BY <1>8, CalleeType DEF Observe
  <2>2. \/ window' = window /\ seen' = seen
        \/ window' = [window EXCEPT ![e] = Append(@, Status(e))] /\ seen' = seen \union {e}
    BY <1>8 DEF Observe
  <2>. HIDE DEF e
  <2>3. window' \in [Endpoint -> Seq({200, 500})]
    <3>1. Status(e) \in {200, 500}
      BY DEF Status
    <3>2. Append(window[e], Status(e)) \in Seq({200, 500})
      <4>1. window[e] \in Seq({200, 500})
        BY <2>1 DEF TypeOK
      <4>. QED
        BY ONLY <3>1, <4>1, SeqFacts
    <3>3. window \in [Endpoint -> Seq({200, 500})]
      BY DEF TypeOK
    <3>. DEFINE S == Seq({200, 500})
                w == Append(window[e], Status(e))
    <3>4. window' = window \/ window' = [window EXCEPT ![e] = w]
      BY <2>2
    <3>5. w \in S /\ window \in [Endpoint -> S]
      BY <3>2, <3>3
    <3>. HIDE DEF S, w
    <3>6. window' \in [Endpoint -> S]
      BY ONLY <2>1, <3>4, <3>5
    <3>. QED
      BY <3>6 DEF S
  <2>4. /\ seen' \in SUBSET Endpoint /\ pending \in SUBSET seen'
        /\ refreshing \in {<<>>} \union (seen' \X BOOLEAN)
    BY <2>1, <2>2 DEF TypeOK
  <2>5. list' \in [Request -> Seq(Endpoint)]
    <3>1. list' = list \/ list' = [list EXCEPT ![r] = <<>>]
      BY <1>8 DEF Observe
    <3>2. <<>> \in Seq(Endpoint) /\ list \in [Request -> Seq(Endpoint)]
      BY DEF TypeOK
    <3>. QED
      BY ONLY <3>1, <3>2
  <2>6. call' \in [Request -> [ok : BOOLEAN, took : Nat, was : BOOLEAN]]
    BY <1>8 DEF Observe, TypeOK, NoCall
  <2>. QED
    BY <1>0, <1>8, <2>3, <2>4, <2>5, <2>6 DEF Observe, TypeOK, attrVars, sortVars
<1>9. ASSUME NEW e \in Endpoint, Forget(e) PROVE TypeOK'
  <2>1. window' \in [Endpoint -> Seq({200, 500})]
    <3>1. window[e] \in Seq({200, 500}) /\ window[e] # <<>>
      BY <1>9 DEF TypeOK, Forget
    <3>2. Tail(window[e]) \in Seq({200, 500})
      BY ONLY <3>1, SeqFacts
    <3>. QED
      BY <1>9, <3>2 DEF Forget, TypeOK
  <2>. QED
    BY <1>0, <1>9, <2>1 DEF Forget, TypeOK, attrVars, sortVars
<1>10. ASSUME NEW e \in Endpoint, StartRefresh(e) PROVE TypeOK'
  <2>1. /\ pending' \in SUBSET seen
        /\ refreshing' \in {<<>>} \union (seen \X BOOLEAN)
    BY <1>10 DEF StartRefresh, TypeOK
  <2>. QED
    BY <1>0, <1>10, <2>1 DEF StartRefresh, TypeOK, attrVars, sortVars
<1>11. ASSUME Gather PROVE TypeOK'
  BY <1>0, <1>11 DEF Gather, TypeOK, attrVars, sortVars
<1>12. ASSUME RefreshEndpoint PROVE TypeOK'
  <2>. DEFINE e == refreshing[1]
  <2>1. e \in Endpoint
    BY <1>12 DEF RefreshEndpoint, TypeOK
  <2>2. /\ p95' = [p95 EXCEPT ![e] = P95Status(gathered[e])]
        /\ gathered' = [gathered EXCEPT ![e] = <<>>]
        /\ window' = [window EXCEPT ![e] =
                         IF health[e] # refreshing[2] THEN Append(@, Status(e)) ELSE @]
        /\ refreshing' = <<>>
    BY <1>12 DEF RefreshEndpoint
  <2>. HIDE DEF e
  <2>3. p95' \in [Endpoint -> BOOLEAN]
    <3>1. P95Status(gathered[e]) \in BOOLEAN
      BY DEF P95Status
    <3>. QED
      BY <2>2, <3>1 DEF TypeOK
  <2>4. gathered' \in [Endpoint -> Seq({200, 500})]
    <3>1. <<>> \in Seq({200, 500})
      BY ONLY SeqFacts
    <3>. DEFINE S == Seq({200, 500})
    <3>2. gathered \in [Endpoint -> S] /\ <<>> \in S
      BY <3>1 DEF TypeOK
    <3>. HIDE DEF S
    <3>3. gathered' \in [Endpoint -> S]
      BY ONLY <2>2, <3>2
    <3>. QED
      BY <3>3 DEF S
  <2>5. window' \in [Endpoint -> Seq({200, 500})]
    <3>1. window[e] \in Seq({200, 500}) /\ Status(e) \in {200, 500}
      BY <2>1 DEF TypeOK, Status
    <3>2. Append(window[e], Status(e)) \in Seq({200, 500})
      BY ONLY <3>1, SeqFacts
    <3>. DEFINE S == Seq({200, 500})
                w == Append(window[e], Status(e))
    <3>3. w \in S /\ window \in [Endpoint -> S]
      BY <3>2 DEF TypeOK
    <3>4. window' = window \/ window' = [window EXCEPT ![e] = w]
      BY <2>2, <3>3
    <3>. HIDE DEF S, w
    <3>5. window' \in [Endpoint -> S]
      BY ONLY <2>1, <3>3, <3>4
    <3>. QED
      BY <3>5 DEF S
  <2>. QED
    BY <1>0, <1>12, <2>2, <2>3, <2>4, <2>5 DEF RefreshEndpoint, TypeOK, sortVars
<1>13. CASE UNCHANGED vars
  BY <1>13 DEF vars, TypeOK, attrVars, summaryVars, sortVars
<1>. QED
  BY <1>1, <1>2, <1>3, <1>4, <1>5, <1>6, <1>7, <1>8, <1>9, <1>10, <1>11,
     <1>12, <1>13 DEF Next

\* Every variable keeps its type: no endpoint is called that is not in the
\* pool, quicksort's places are natural numbers, and a score is never below
\* zero, however many calls and milliseconds the attributes have added up.
THEOREM TypeCorrect == Spec => []TypeOK
  BY ListInit, ListStep, TypeInit, TypeStep, PTL DEF Spec

\* Of the endpoints left by the filters, one has a score: the code's shuffle,
\* for scores that add up to nothing, is out of reach.
NeverShuffled ==
    \A r \in Request : pc[r] = "filtered" =>
        \E e \in ToSet(list[r]) : Score(list[r], e) > 0

THEOREM ScoresAddUp == Spec => []NeverShuffled
<1>1. ListInv /\ TypeOK => NeverShuffled
  <2>. SUFFICES ASSUME ListInv, TypeOK, NEW r \in Request, pc[r] = "filtered"
                PROVE  \E e \in ToSet(list[r]) : Score(list[r], e) > 0
    BY DEF NeverShuffled
  <2>1. list[r] \in Seq(Endpoint) /\ at[r] \in 1 .. Len(list[r])
    BY DEF TypeOK, ListInv
  <2>2. list[r] # <<>>
    BY <2>1
  <2>. QED
    BY <2>1, <2>2, SomeScore DEF TypeOK
<1>. QED
  BY <1>1, ListInit, ListStep, TypeInit, TypeStep, PTL DEF Spec

-----------------------------------------------------------------------------
(* The order of a calm request's list                                      *)

\* Only an endpoint that has been called has a duration.
Called == \A e \in Endpoint : duration[e] > 0 => count[e] > 0

\* Who comes before whom in a list of r.
Before(r) == {x \in Endpoint \X Endpoint : Better(r, x[1], x[2])}

\* The endpoints r may use have a duration and the same weight.
Comparable(r) ==
    /\ \A e \in Suitable(r) : duration[e] > 0
    /\ \A d, e \in Suitable(r) : Weight[d] = Weight[e]

ScoredByLoad(r) ==
    \A d, e \in Suitable(r) : scores[r][d] >= scores[r][e] => count[d] <= count[e]

\* Balanced, but for an ill one that comes first to be checked.
Ranked(r) ==
    \/ Balanced(list[r])
    \/ r \in Alternating /\ ~health[list[r][1]] /\ Balanced(Tail(list[r]))

\* What quicksort has done so far for a request, and what it will have done.
Calm(r) ==
    /\ pc[r] \in {"sorting", "sorted", "ranked"}
    /\ pc[r] \in {"sorting", "sorted"} /\ Comparable(r) => ScoredByLoad(r)
    /\ pc[r] = "sorting" =>
          /\ Ordered(list[r], ToSet(span[r]), Before(r))
          /\ Sided(list[r], span[r][1][1], span[r][1][2], left[r], scan[r], Before(r))
    /\ pc[r] = "sorted" => Ordered(list[r], {}, Before(r))
    /\ pc[r] = "ranked" /\ Comparable(r) => Ranked(r)

OrderInv == Called /\ \A r \in calm : Calm(r)

\* Who does not come before another is a weak order: quicksort needs it.
LEMMA BeforeFacts ==
  ASSUME NEW r \in Request, TypeOK
  PROVE  \A a, b, c \in Suitable(r) :
            <<a, b>> \notin Before(r) /\ <<b, c>> \notin Before(r) =>
                <<a, c>> \notin Before(r)
<1>1. \A e \in Suitable(r) : /\ e \in Endpoint /\ scores[r][e] \in Nat
                             /\ health[e] \in BOOLEAN /\ p95[e] \in BOOLEAN
  BY DEF Suitable, TypeOK
<1>2. \A d, e \in Suitable(r) : <<d, e>> \in Before(r) <=> Better(r, d, e)
  BY <1>1 DEF Before
<1>. QED
  BY <1>1, <1>2 DEF Better

\* Nothing of the request, nor of any endpoint, has changed.
LEMMA StillCalm ==
  ASSUME NEW r \in Request, Calm(r), attrVars' = attrVars,
         pc'[r] = pc[r], list'[r] = list[r], scores'[r] = scores[r],
         span'[r] = span[r], left'[r] = left[r], scan'[r] = scan[r]
  PROVE  Calm(r)'
<1>1. /\ health' = health /\ p95' = p95 /\ count' = count /\ duration' = duration
  BY DEF attrVars
<1>2. Before(r)' = Before(r)
  BY <1>1 DEF Before, Better
<1>3. /\ Comparable(r)' = Comparable(r) /\ ScoredByLoad(r)' = ScoredByLoad(r)
      /\ Ranked(r)' = Ranked(r)
  BY <1>1 DEF Comparable, ScoredByLoad, Ranked, Balanced, NoWorse
<1>. QED
  BY <1>2, <1>3 DEF Calm

\* A part that is all of a list says nothing of its order.
LEMMA WholeOrdered ==
  ASSUME NEW s, Len(s) \in Nat, NEW R
  PROVE  Ordered(s, ToSet(<<<<1, Len(s)>>>>), R)
<1>. DEFINE x == <<1, Len(s)>>
            parts == ToSet(<<x>>)
<1>1. x[1] = 1 /\ x[2] = Len(s)
  OBVIOUS
<1>2. x \in parts
  <2>. HIDE DEF x
  <2>1. DOMAIN <<x>> = {1} /\ <<x>>[1] = x
    OBVIOUS
  <2>. QED
    BY <2>1 DEF ToSet
<1>. HIDE DEF x, parts
<1>3. \A j, k \in 1 .. Len(s) : x[1] <= j /\ k <= x[2]
  BY <1>1
<1>4. Ordered(s, parts, R)
  BY <1>2, <1>3 DEF Ordered
<1>. QED
  BY <1>4 DEF parts, x

LEMMA RankCalm ==
  ASSUME NEW r \in Request, TypeOK, ListInv, Called, Rank(r)
  PROVE  Calm(r)'
<1>. DEFINE n == Len(list[r])
            s == list[r]
<1>1. Lists(s, Suitable(r)) /\ s # <<>> /\ Suitable(r) \in SUBSET Endpoint
  <2>1. Lists(s, Suitable(r)) /\ at[r] \in 1 .. Len(s)
    BY DEF ListInv, Rank
  <2>2. s # <<>>
    BY <2>1 DEF Lists
  <2>. QED
    BY <2>1, <2>2 DEF Suitable
<1>2. s \in Seq(Endpoint) /\ n \in Nat /\ ToSet(s) = Suitable(r)
  BY <1>1, ListsFacts
<1>3. /\ list' = list /\ attrVars' = attrVars
      /\ pc'[r] = "sorting" /\ span'[r] = <<<<1, n>>>>
      /\ left'[r] = 1 /\ scan'[r] = 1
      /\ scores'[r] = [e \in Endpoint |-> IF e \in ToSet(s) THEN Score(s, e) ELSE 0]
  BY DEF Rank, Goto, TypeOK
<1>4. ASSUME Comparable(r)' PROVE ScoredByLoad(r)'
  <2>1. /\ \A e \in Suitable(r) : duration[e] > 0 /\ count[e] > 0
        /\ \A d, e \in Suitable(r) : Weight[d] = Weight[e]
    BY <1>1, <1>3, <1>4 DEF Comparable, attrVars, Called
  <2>2. \A d, e \in Suitable(r) : Score(s, d) >= Score(s, e) => count[d] <= count[e]
    <3>1. count \in [Endpoint -> Nat] /\ duration \in [Endpoint -> Nat]
      BY DEF TypeOK
    <3>. QED
      BY <1>1, <1>2, <2>1, <3>1, ScoreByLoad
  <2>3. \A e \in Suitable(r) : scores'[r][e] = Score(s, e)
    BY <1>1, <1>2, <1>3
  <2>4. count' = count
    BY <1>3 DEF attrVars
  <2>. QED
    BY <2>2, <2>3, <2>4 DEF ScoredByLoad
<1>5. Ordered(s, ToSet(<<<<1, n>>>>), Before(r)')
  BY <1>2, WholeOrdered
<1>6. Sided(s, 1, n, 1, 1, Before(r)')
  BY DEF Sided
<1>. QED
  <2>1. /\ Ordered(list'[r], ToSet(span'[r]), Before(r)')
        /\ Sided(list'[r], span'[r][1][1], span'[r][1][2], left'[r], scan'[r],
                 Before(r)')
    BY <1>3, <1>5, <1>6
  <2>. QED
    BY <1>3, <1>4, <2>1 DEF Calm

LEMMA CompareCalm ==
  ASSUME NEW r \in Request, TypeOK, ListInv, Calm(r), Compare(r)
  PROVE  Calm(r)'
<1>. DEFINE n == Len(list[r])
            s == list[r]
            low == span[r][1][1]
            high == span[r][1][2]
            p == left[r]
            q == scan[r]
            R == Before(r)
            t == Swapped(s, p, q)
<1>1. /\ Lists(s, Suitable(r)) /\ n \in Nat
      /\ PartsOf(span[r], n) /\ span[r] # <<>>
      /\ low \in Nat /\ high \in Nat /\ 1 <= low /\ high <= n
      /\ p \in Nat /\ q \in Nat /\ low <= p /\ p <= q /\ q < high
  BY BoundsFacts DEF Compare
<1>2. Ordered(s, ToSet(span[r]), R) /\ Sided(s, low, high, p, q, R)
  BY DEF Calm, Compare
<1>3. /\ attrVars' = attrVars /\ scores' = scores /\ span' = span /\ pc' = pc
      /\ pc[r] = "sorting" /\ scan'[r] = q + 1
  BY DEF Compare, TypeOK
<1>4. R' = R
  BY <1>3 DEF Before, Better, attrVars
<1>5. Comparable(r)' = Comparable(r) /\ ScoredByLoad(r)' = ScoredByLoad(r)
  BY <1>3 DEF Comparable, ScoredByLoad, attrVars
<1>6. \A i \in 1 .. n : s[i] \in Suitable(r) /\ s[i] \in Endpoint
  BY <1>1 DEF Lists, Suitable
<1>7. \A d, e \in Endpoint : <<d, e>> \in R <=> Better(r, d, e)
  BY DEF Before
<1>8. CASE ~Better(r, s[high], s[q]) /\ list'[r] = t /\ left'[r] = p + 1
  <2>1. p \in 1 .. n /\ q \in 1 .. n /\ high \in 1 .. n /\ high # p /\ high # q
    BY <1>1
  <2>2. /\ t[p] = s[q] /\ t[q] = s[p]
        /\ \A i \in 1 .. n : i # p /\ i # q => t[i] = s[i]
    <3>1. s \in Seq(Suitable(r))
      BY <1>1 DEF Lists
    <3>2. p \in 1 .. Len(s) /\ q \in 1 .. Len(s)
      BY <2>1
    <3>. HIDE DEF s, p, q
    <3>. QED
      <4>1. /\ t[p] = s[q] /\ t[q] = s[p]
            /\ \A i \in 1 .. Len(s) : i # p /\ i # q => t[i] = s[i]
        BY <3>1, <3>2 DEF Swapped
      <4>. QED
        BY <4>1 DEF n, s
  <2>3. <<s[high], s[q]>> \notin R
    BY <1>6, <1>7, <1>8, <2>1
  <2>4. Ordered(t, ToSet(span[r]), R)
    <3>1. p \in low .. high /\ q \in low .. high
      BY <1>1
    <3>. QED
      BY <1>1, <1>2, <3>1, CompareOrdered
  <2>. HIDE DEF t, R, low, high, p, q, n
  <2>5. Sided(t, low, high, p + 1, q + 1, R)
    <3>1. ASSUME NEW i \in low .. (p + 1) - 1 PROVE <<t[high], t[i]>> \notin R
      <4>1. i \in 1 .. n /\ (i = p \/ (i \in low .. p - 1 /\ i # q /\ i # p))
        BY <1>1
      <4>. QED
        BY <1>2, <2>1, <2>2, <2>3, <4>1 DEF Sided
    <3>2. ASSUME NEW i \in p + 1 .. (q + 1) - 1 PROVE <<t[i], t[high]>> \notin R
      <4>1. i \in 1 .. n /\ p \in p .. q - 1 /\ (i = q \/ (i \in p .. q - 1 /\ i # q /\ i # p))
        BY <1>1
      <4>. QED
        BY <1>2, <2>1, <2>2, <4>1 DEF Sided
    <3>. QED
      BY <3>1, <3>2 DEF Sided
  <2>6. /\ Ordered(list'[r], ToSet(span'[r]), R')
        /\ Sided(list'[r], span'[r][1][1], span'[r][1][2], left'[r], scan'[r], R')
    BY <1>3, <1>4, <1>8, <2>4, <2>5 DEF low, high
  <2>. QED
    BY <1>3, <1>5, <2>6 DEF Calm, R
<1>9. CASE ~Better(r, s[q], s[high]) /\ list'[r] = s /\ left'[r] = p
  <2>1. q \in 1 .. n /\ high \in 1 .. n
    BY <1>1
  <2>2. <<s[q], s[high]>> \notin R
    BY <1>6, <1>7, <1>9, <2>1
  <2>. HIDE DEF R, low, high, p, q, n, s
  <2>3. Sided(s, low, high, p, q + 1, R)
    <3>1. \A i \in p .. (q + 1) - 1 : i = q \/ i \in p .. q - 1
      BY <1>1
    <3>. QED
      BY <1>2, <2>2, <3>1 DEF Sided
  <2>4. /\ Ordered(list'[r], ToSet(span'[r]), R')
        /\ Sided(list'[r], span'[r][1][1], span'[r][1][2], left'[r], scan'[r], R')
    BY <1>2, <1>3, <1>4, <1>9, <2>3 DEF low, high
  <2>. QED
    BY <1>3, <1>5, <2>4 DEF Calm, R
<1>. QED
  BY <1>8, <1>9 DEF Compare, TypeOK

LEMMA PartitionCalm ==
  ASSUME NEW r \in Request, TypeOK, ListInv, Calm(r), Partition(r)
  PROVE  Calm(r)'
<1>. DEFINE n == Len(list[r])
            s == list[r]
            low == span[r][1][1]
            high == span[r][1][2]
            p == left[r]
            R == Before(r)
            t == Swapped(s, p, high)
            rest == Rest(span[r], p)
<1>1. /\ Lists(s, Suitable(r)) /\ n \in Nat
      /\ PartsOf(span[r], n) /\ span[r] # <<>>
      /\ low \in Nat /\ high \in Nat
      /\ p \in Nat /\ low <= p /\ p <= high /\ scan[r] = high
  BY BoundsFacts DEF Partition
<1>2. Ordered(s, ToSet(span[r]), R) /\ Sided(s, low, high, p, high, R)
  BY <1>1 DEF Calm, Partition
<1>3. /\ attrVars' = attrVars /\ scores' = scores
      /\ list'[r] = t /\ span'[r] = rest
      /\ left'[r] = IF rest = <<>> THEN 0 ELSE rest[1][1]
      /\ scan'[r] = left'[r]
      /\ pc'[r] = IF rest = <<>> THEN "sorted" ELSE "sorting"
      /\ pc[r] = "sorting"
  BY DEF Partition, Goto, TypeOK
<1>4. R' = R
  BY <1>3 DEF Before, Better, attrVars
<1>5. Comparable(r)' = Comparable(r) /\ ScoredByLoad(r)' = ScoredByLoad(r)
  BY <1>3 DEF Comparable, ScoredByLoad, attrVars
<1>6. PartsOf(rest, n)
  BY <1>1, RestFacts
<1>7. Ordered(t, ToSet(rest), R)
  <2>1. p \in low .. high
    BY <1>1
  <2>2. \A a, b, c \in Suitable(r) :
           <<a, b>> \notin R /\ <<b, c>> \notin R => <<a, c>> \notin R
    BY BeforeFacts
  <2>. HIDE DEF R
  <2>. QED
    BY <1>1, <1>2, <2>1, <2>2, PartitionOrdered
<1>. HIDE DEF R, rest, t, n
<1>8. CASE rest = <<>>
  <2>1. ToSet(rest) = {} /\ pc'[r] = "sorted"
    BY <1>3, <1>8 DEF ToSet
  <2>2. Ordered(list'[r], {}, R')
    BY <1>3, <1>4, <1>7, <2>1
  <2>. QED
    BY <1>3, <1>5, <2>1, <2>2 DEF Calm, R
<1>9. CASE rest # <<>>
  <2>1. pc'[r] = "sorting" /\ left'[r] = rest[1][1] /\ scan'[r] = rest[1][1]
    BY <1>3, <1>9
  <2>2. rest[1][1] \in Nat
    BY <1>1, <1>6, <1>9, PartsAreSpans
  <2>3. Sided(t, rest[1][1], rest[1][2], rest[1][1], rest[1][1], R)
    <3>. DEFINE a == rest[1][1]
    <3>1. a .. a - 1 = {}
      BY <2>2
    <3>. QED
      BY <3>1 DEF Sided
  <2>4. /\ Ordered(list'[r], ToSet(span'[r]), R')
        /\ Sided(list'[r], span'[r][1][1], span'[r][1][2], left'[r], scan'[r], R')
    BY <1>3, <1>4, <1>7, <2>1, <2>3
  <2>. QED
    BY <1>3, <1>5, <2>1, <2>4 DEF Calm, R
<1>. QED
  BY <1>8, <1>9

\* A list in order, by scores that go by the load, is balanced.
LEMMA OrderedBalanced ==
  ASSUME NEW r \in Request, TypeOK, NEW s, Lists(s, Suitable(r)),
         Ordered(s, {}, Before(r)), ScoredByLoad(r)
  PROVE  Balanced(s)
<1>1. DOMAIN s = 1 .. Len(s) /\ \A i \in 1 .. Len(s) : s[i] \in Suitable(r)
  BY DEF Lists
<1>2. \A e \in Suitable(r) : /\ e \in Endpoint /\ scores[r][e] \in Nat
                             /\ health[e] \in BOOLEAN /\ p95[e] \in BOOLEAN
  BY DEF Suitable, TypeOK
<1>. SUFFICES ASSUME NEW j \in 1 .. Len(s), NEW k \in 1 .. Len(s), j < k
              PROVE  NoWorse(s[j], s[k])
  BY <1>1 DEF Balanced
<1>. DEFINE d == s[j]
            e == s[k]
<1>3. d \in Suitable(r) /\ e \in Suitable(r)
  BY <1>1
<1>4. <<e, d>> \notin Before(r)
  BY DEF Ordered
<1>. HIDE DEF d, e
<1>5. ~Better(r, e, d)
  BY <1>2, <1>3, <1>4 DEF Before
<1>6. scores[r][d] >= scores[r][e] => count[d] <= count[e]
  BY <1>3 DEF ScoredByLoad
<1>7. NoWorse(d, e)
  BY <1>2, <1>3, <1>5, <1>6 DEF Better, NoWorse
<1>. QED
  BY <1>7 DEF d, e

\* What is put first is out of the way.
LEMMA TailBalanced ==
  ASSUME NEW s \in Seq(Endpoint), Balanced(s), NEW k \in 1 .. Len(s)
  PROVE  Balanced(Tail(WithFirst(s, k)))
<1>. DEFINE t == WithFirst(s, k)
            u == Tail(t)
            from(i) == IF i < k THEN i ELSE i + 1
<1>1. /\ t \in Seq(Endpoint) /\ Len(t) = Len(s)
      /\ \A i \in 2 .. k : t[i] = s[i - 1]
      /\ \A i \in k + 1 .. Len(s) : t[i] = s[i]
  BY FirstValues
<1>2. Len(s) \in Nat /\ k \in Nat /\ 1 <= k /\ k <= Len(s) /\ DOMAIN s = 1 .. Len(s)
  OBVIOUS
<1>. HIDE DEF t
<1>3. /\ DOMAIN u = 1 .. Len(s) - 1
      /\ \A i \in 1 .. Len(s) - 1 : u[i] = t[i + 1]
  <2>1. t # <<>>
    BY <1>1, <1>2
  <2>. QED
    BY <1>1, <2>1, TailFacts
<1>. HIDE DEF u
<1>4. ASSUME NEW i \in 1 .. Len(s) - 1
      PROVE  from(i) \in 1 .. Len(s) /\ u[i] = s[from(i)]
  <2>1. CASE i < k
    <3>1. i + 1 \in 2 .. k /\ (i + 1) - 1 = i
      BY <1>2, <2>1
    <3>. QED
      BY <1>1, <1>2, <1>3, <2>1, <3>1
  <2>2. CASE ~(i < k)
    <3>1. i + 1 \in k + 1 .. Len(s)
      BY <1>2, <2>2
    <3>. QED
      BY <1>1, <1>2, <1>3, <2>2, <3>1
  <2>. QED
    BY <2>1, <2>2
<1>5. \A i, j \in 1 .. Len(s) - 1 : i < j => from(i) < from(j)
  BY <1>2
<1>. HIDE DEF from
<1>6. \A i, j \in DOMAIN u : i < j => NoWorse(u[i], u[j])
  BY <1>2, <1>3, <1>4, <1>5 DEF Balanced
<1>. QED
  BY <1>6 DEF Balanced, u, t

LEMMA CheckCalm ==
  ASSUME NEW r \in Request, TypeOK, ListInv, Calm(r), Check(r)
  PROVE  Calm(r)'
<1>. DEFINE s == list[r]
<1>1. Lists(s, Suitable(r)) /\ Ordered(s, {}, Before(r)) /\ pc[r] = "sorted"
  BY DEF ListInv, Calm, Check
<1>2. /\ health' = health /\ p95' = p95 /\ count' = count /\ duration' = duration
      /\ pc'[r] = "ranked"
  BY DEF Check, Goto, attrVars, TypeOK
<1>3. ASSUME Comparable(r)' PROVE Ranked(r)'
  <2>1. Comparable(r)
    BY <1>2, <1>3 DEF Comparable
  <2>2. ScoredByLoad(r)
    BY <1>1, <2>1 DEF Calm
  <2>3. Balanced(s)
    BY <1>1, <2>2, OrderedBalanced
  <2>4. \A u : Balanced(u)' = Balanced(u)
    BY <1>2 DEF Balanced, NoWorse
  <2>5. CASE list' = list
    BY <1>2, <2>3, <2>5 DEF Ranked, Balanced, NoWorse
  <2>6. CASE list' # list
    <3>1. PICK k \in DOMAIN s : /\ r \in Alternating /\ ~health[s[k]]
                                /\ list' = [list EXCEPT ![r] = WithFirst(s, k)]
      BY <2>6 DEF Check
    <3>2. s \in Seq(Endpoint) /\ k \in 1 .. Len(s)
      <4>1. s \in Seq(Endpoint)
        BY DEF TypeOK
      <4>. HIDE DEF s
      <4>. QED
        BY <4>1
    <3>3. list'[r] = WithFirst(s, k)
      BY <3>1 DEF TypeOK
    <3>4. WithFirst(s, k)[1] = s[k]
      BY <3>2, FirstValues
    <3>5. Balanced(Tail(WithFirst(s, k)))
      BY <2>3, <3>2, TailBalanced
    <3>6. Balanced(Tail(list[r]))'
      BY <1>2, <3>3, <3>5 DEF Balanced, NoWorse
    <3>. QED
      BY <1>2, <3>1, <3>3, <3>4, <3>6 DEF Ranked
  <2>. QED
    BY <2>5, <2>6
<1>. QED
  BY <1>2, <1>3 DEF Calm

LEMMA OrderInit == Init => OrderInv
<1>. SUFFICES ASSUME Init, NEW e \in Endpoint, duration[e] > 0 PROVE count[e] > 0
  BY DEF OrderInv, Called, Init
<1>1. count[e] \in Nat
  BY NumberAssumption DEF Init
<1>2. duration[e] \in IF count[e] = 0 THEN {0} ELSE Durations
  BY DEF Init
<1>3. count[e] # 0
  <2>1. \A m \in {0} : ~(m > 0)
    OBVIOUS
  <2>. QED
    BY <1>2, <2>1
<1>. QED
  BY <1>1, <1>3

LEMMA OrderStep ==
  TypeOK /\ ListInv /\ OrderInv /\ [Next]_vars => OrderInv'
<1>. SUFFICES ASSUME TypeOK, ListInv, OrderInv, [Next]_vars PROVE OrderInv'
  OBVIOUS
<1>0. calm \in SUBSET Request
  BY DEF TypeOK
\* A step of one request that changes no attribute.
<1>a. ASSUME NEW r \in Request, attrVars' = attrVars, calm' \in SUBSET (calm \union {r}),
             \A q \in Request \ {r} :
                /\ pc'[q] = pc[q] /\ list'[q] = list[q] /\ scores'[q] = scores[q]
                /\ span'[q] = span[q] /\ left'[q] = left[q] /\ scan'[q] = scan[q],
             r \in calm' => Calm(r)'
      PROVE  OrderInv'
  <2>1. Called'
    BY <1>a DEF OrderInv, Called, attrVars
  <2>2. ASSUME NEW q \in calm' PROVE Calm(q)'
    <3>1. CASE q = r
      BY <1>a, <2>2, <3>1
    <3>2. CASE q # r
      <4>1. q \in Request \ {r} /\ q \in calm
        BY <1>0, <1>a, <2>2, <3>2
      <4>2. Calm(q)
        BY <4>1 DEF OrderInv
      <4>. QED
        BY <1>a, <4>1, <4>2, StillCalm
    <3>. QED
      BY <3>1, <3>2
  <2>. QED
    BY <2>1, <2>2 DEF OrderInv
<1>1. ASSUME NEW r \in Request, Filter(r) PROVE OrderInv'
  <2>1. r \notin calm
    BY <1>1 DEF Filter, OrderInv, Calm
  <2>. QED
    BY <1>a, <1>1, <2>1 DEF Filter, Goto, TypeOK, sortVars
<1>2. ASSUME NEW r \in Request, Rank(r) PROVE OrderInv'
  <2>1. Calm(r)'
    BY <1>2, RankCalm DEF OrderInv
  <2>. QED
    BY <1>a, <1>2, <2>1 DEF Rank, Goto, TypeOK
<1>3. ASSUME NEW r \in Request, Compare(r) PROVE OrderInv'
  <2>1. r \in calm => Calm(r)'
    BY <1>3, CompareCalm DEF OrderInv
  <2>2. \A q \in Request \ {r} : list'[q] = list[q] /\ left'[q] = left[q]
    BY <1>3 DEF Compare, TypeOK
  <2>. QED
    BY <1>a, <1>3, <2>1, <2>2 DEF Compare, TypeOK
<1>4. ASSUME NEW r \in Request, Partition(r) PROVE OrderInv'
  <2>1. r \in calm => Calm(r)'
    BY <1>4, PartitionCalm DEF OrderInv
  <2>. QED
    BY <1>a, <1>4, <2>1 DEF Partition, Goto, TypeOK
<1>5. ASSUME NEW r \in Request, Check(r) PROVE OrderInv'
  <2>1. r \in calm => Calm(r)'
    BY <1>5, CheckCalm DEF OrderInv
  <2>2. \A q \in Request \ {r} : list'[q] = list[q]
    BY <1>5 DEF Check, TypeOK
  <2>. QED
    BY <1>a, <1>5, <2>1, <2>2 DEF Check, Goto, TypeOK
<1>6. ASSUME NEW r \in Request, EndCall(r) PROVE OrderInv'
  BY <1>a, <1>6 DEF EndCall, Goto, TypeOK, sortVars
<1>7. ASSUME NEW r \in Request, Update(r) PROVE OrderInv'
  <2>. DEFINE e == Callee(r)
  <2>1. /\ count' = [count EXCEPT ![e] = @ + 1]
        /\ duration' = [duration EXCEPT ![e] = IF call[r].took > 0 THEN call[r].took ELSE @]
        /\ calm' = {}
    BY <1>7 DEF Update
  <2>. HIDE DEF e
  <2>. QED
    BY <2>1 DEF OrderInv, Called, TypeOK
<1>8. ASSUME NEW r \in Request, Observe(r) PROVE OrderInv'
  <2>1. r \notin calm
    BY <1>8 DEF Observe, OrderInv, Calm
  <2>2. \A q \in Request \ {r} : pc'[q] = pc[q] /\ list'[q] = list[q]
    BY <1>8 DEF Observe, Goto, TypeOK
  <2>. QED
    BY <1>a, <1>8, <2>1, <2>2 DEF Observe, sortVars
\* The others leave the lists alone.
<1>9. CASE attrVars' = attrVars /\ UNCHANGED <<pc, list, sortVars, calm>>
  <2>1. \A r \in calm : Calm(r)'
    BY <1>0, <1>9, StillCalm DEF OrderInv, sortVars
  <2>. QED
    BY <1>9, <2>1 DEF OrderInv, Called, attrVars
<1>10. ASSUME NEW e \in Endpoint, Forget(e) PROVE OrderInv'
  BY <1>9, <1>10 DEF Forget
<1>11. ASSUME NEW e \in Endpoint, StartRefresh(e) PROVE OrderInv'
  BY <1>9, <1>11 DEF StartRefresh
<1>12. CASE Gather
  BY <1>9, <1>12 DEF Gather
<1>13. CASE RefreshEndpoint
  BY <1>13 DEF RefreshEndpoint, OrderInv, Called
<1>14. CASE UNCHANGED vars
  BY <1>9, <1>14 DEF vars
<1>. QED
  BY <1>1, <1>2, <1>3, <1>4, <1>5, <1>6, <1>7, <1>8, <1>10, <1>11, <1>12,
     <1>13, <1>14 DEF Next

\* Quicksort sorts: whichever pivots it meets and however it breaks ties, a
\* list ranked while no attribute changes has the healthy endpoints first
\* and, of endpoints with the same weight that all have been called, those
\* with fewer requests, but for an ill one that Check has put first.
THEOREM HealthyFirst == Spec => []HealthThenLoad
<1>1. ASSUME TypeOK, ListInv, OrderInv PROVE HealthThenLoad
  <2>. SUFFICES ASSUME NEW r \in calm, pc[r] = "ranked",
                       \A e \in ToSet(list[r]) :
                          duration[e] > 0 /\ Weight[e] = Weight[list[r][1]]
                PROVE  Ranked(r)
    BY DEF HealthThenLoad, Ranked
  <2>1. Lists(list[r], Suitable(r)) /\ Suitable(r) \in SUBSET Endpoint /\ Calm(r)
    BY <1>1 DEF ListInv, OrderInv, TypeOK, Suitable
  <2>2. ToSet(list[r]) = Suitable(r)
    BY <2>1, ListsFacts
  <2>3. Comparable(r)
    BY <2>2 DEF Comparable
  <2>. QED
    BY <2>1, <2>3 DEF Calm
<1>2. TypeOK /\ ListInv /\ OrderInv => HealthThenLoad
  BY <1>1
<1>. QED
  BY <1>2, ListInit, ListStep, TypeInit, TypeStep, OrderInit, OrderStep, PTL DEF Spec

-----------------------------------------------------------------------------
(* Sorting ends                                                            *)

\* The positions that are in a part still to be sorted.
InParts(parts, n) ==
    {i \in 1 .. n : \E x \in ToSet(parts) : x[1] <= i /\ i <= x[2]}

\* What quicksort has left to do on a request's list: each position that it
\* settles is worth a pass over the list.
SortLeft(r) ==
    IF pc[r] = "sorting"
    THEN Cardinality(InParts(span[r], Len(list[r]))) * Len(list[r])
         + (span[r][1][2] - scan[r])
    ELSE 0

\* A sort that takes a step is closer to its end.
SortShrinks(r) ==
    pc[r] = "sorting" =>
        \/ SortLeft(r)' < SortLeft(r)
        \/ UNCHANGED <<pc[r], list[r], span[r], left[r], scan[r]>>

SortBounded(r) ==
    pc[r] = "sorting" =>
        SortLeft(r) \in 0 .. Len(list[r]) * Len(list[r]) + Len(list[r])

LEMMA InPartsFacts ==
  ASSUME NEW n \in Nat, NEW parts
  PROVE  /\ IsFiniteSet(InParts(parts, n))
         /\ Cardinality(InParts(parts, n)) \in 0 .. n
<1>1. IsFiniteSet(1 .. n) /\ Cardinality(1 .. n) = n
  BY FS_Interval
<1>2. InParts(parts, n) \subseteq 1 .. n
  BY DEF InParts
<1>3. /\ IsFiniteSet(InParts(parts, n))
      /\ Cardinality(InParts(parts, n)) <= Cardinality(1 .. n)
  BY ONLY <1>1, <1>2, FS_Subset
<1>4. Cardinality(InParts(parts, n)) \in Nat
  BY <1>3, FS_CardinalityType
<1>. QED
  BY <1>1, <1>3, <1>4

\* The pivot's position is in no part that is left.
LEMMA PivotSettled ==
  ASSUME NEW n \in Nat, NEW parts, PartsOf(parts, n), parts # <<>>,
         NEW p \in Nat, parts[1][1] <= p, p <= parts[1][2]
  PROVE  Cardinality(InParts(Rest(parts, p), n)) < Cardinality(InParts(parts, n))
<1>. DEFINE low  == parts[1][1]
            high == parts[1][2]
            rest == Rest(parts, p)
<1>1. /\ \A x \in ToSet(rest) : \/ x = <<low, p - 1>>
                                 \/ x = <<p + 1, high>>
                                 \/ x \in ToSet(Tail(parts))
      /\ PartsOf(rest, n)
  BY RestFacts
<1>2. /\ \A x \in ToSet(Tail(parts)) : high < x[1]
      /\ ToSet(parts) = {parts[1]} \union ToSet(Tail(parts))
  BY TailParts
<1>3. low \in Nat /\ high \in Nat /\ 1 <= low /\ high <= n
      /\ \A x \in ToSet(parts) : x[1] \in Nat /\ x[2] \in Nat
  <2>. DEFINE S == Part(n)
  <2>1. parts \in Seq(S)
    BY DEF PartsOf
  <2>2. parts[1] \in S /\ \A x \in ToSet(parts) : x \in S
    <3>. HIDE DEF S
    <3>. QED
      BY <2>1 DEF ToSet
  <2>. QED
    BY <2>2, PartFacts
<1>. HIDE DEF rest
<1>4. p \in InParts(parts, n)
  <2>1. p \in 1 .. n
    BY <1>3
  <2>. QED
    BY <1>2, <2>1 DEF InParts
<1>. HIDE DEF low, high
<1>5. ASSUME NEW i \in InParts(rest, n) PROVE i \in InParts(parts, n) /\ i # p
  <2>1. PICK x \in ToSet(rest) : x[1] <= i /\ i <= x[2]
    BY <1>5 DEF InParts
  <2>2. i \in 1 .. n
    BY <1>5 DEF InParts
  <2>3. CASE x \in ToSet(Tail(parts))
    <3>1. high < x[1] /\ x \in ToSet(parts) /\ x[1] \in Nat
      BY <1>2, <1>3, <2>3
    <3>2. p < x[1]
      BY <1>3, <3>1 DEF high
    <3>. QED
      BY <2>1, <2>2, <3>1, <3>2 DEF InParts
  <2>4. CASE x = <<low, p - 1>> \/ x = <<p + 1, high>>
    <3>1. low <= i /\ i <= high /\ i # p
      <4>1. low <= p /\ p <= high
        BY DEF low, high
      <4>2. CASE x = <<low, p - 1>>
        <5>1. x[1] = low /\ x[2] = p - 1
          BY <4>2
        <5>. QED
          BY <1>3, <2>1, <2>2, <4>1, <5>1
      <4>3. CASE x = <<p + 1, high>>
        <5>1. x[1] = p + 1 /\ x[2] = high
          BY <4>3
        <5>. QED
          BY <1>3, <2>1, <2>2, <4>1, <5>1
      <4>. QED
        BY <2>4, <4>2, <4>3
    <3>2. parts[1] \in ToSet(parts)
      BY <1>2
    <3>. QED
      BY <2>2, <3>1, <3>2 DEF InParts, low, high
  <2>. QED
    BY <1>1, <2>3, <2>4
<1>. DEFINE S == InParts(rest, n)
            T == InParts(parts, n)
<1>6. IsFiniteSet(T) /\ S \subseteq T /\ S # T
  BY <1>4, <1>5, InPartsFacts
<1>7. Cardinality(S) <= Cardinality(T) /\ (Cardinality(S) = Cardinality(T) => S = T)
  <2>. HIDE DEF S, T
  <2>. QED
    BY <1>6, FS_Subset
<1>8. Cardinality(S) \in Nat /\ Cardinality(T) \in Nat
  BY InPartsFacts
<1>. QED
  BY <1>6, <1>7, <1>8 DEF rest

LEMMA SortLeftBounded == ASSUME ListInv, NEW r \in Request PROVE SortBounded(r)
<1>1. SUFFICES ASSUME pc[r] = "sorting"
               PROVE  SortLeft(r) \in 0 .. Len(list[r]) * Len(list[r]) + Len(list[r])
  BY DEF SortBounded
<1>. DEFINE n    == Len(list[r])
            high == span[r][1][2]
            c    == Cardinality(InParts(span[r], n))
<1>2. /\ n \in Nat /\ high \in Nat /\ high <= n
      /\ scan[r] \in Nat /\ 1 <= scan[r] /\ scan[r] <= high
  BY <1>1, BoundsFacts
<1>3. c \in 0 .. n
  BY <1>2, InPartsFacts
<1>4. SortLeft(r) = c * n + (high - scan[r])
  BY <1>1 DEF SortLeft
<1>. HIDE DEF n, high, c
<1>5. c * n \in 0 .. n * n
  BY <1>2, <1>3
<1>6. c * n + (high - scan[r]) \in 0 .. n * n + n
  BY <1>2, <1>5
<1>. QED
  BY <1>4, <1>6 DEF n

LEMMA NextBounds ==
  ListInv' => (\A r \in Request : pc[r] = "sorting" =>
                  /\ span[r][1][2] \in Nat /\ span[r][1][2] <= Len(list[r])
                  /\ scan[r] \in Nat /\ 1 <= scan[r])'
<1>1. ListInv => \A r \in Request : pc[r] = "sorting" =>
                  /\ span[r][1][2] \in Nat /\ span[r][1][2] <= Len(list[r])
                  /\ scan[r] \in Nat /\ 1 <= scan[r]
  BY BoundsFacts
<1>. QED
  BY <1>1, PTL

\* A comparison has scanned one more; a partition has settled the pivot.
LEMMA SortStep ==
  ASSUME ListInv, ListInv', [Next]_vars, NEW r \in Request
  PROVE  SortShrinks(r)
<1>0. Places
  BY DEF ListInv
<1>1. SUFFICES ASSUME pc[r] = "sorting" PROVE
        \/ SortLeft(r)' < SortLeft(r)
        \/ UNCHANGED <<pc[r], list[r], span[r], left[r], scan[r]>>
  BY DEF SortShrinks
<1>. DEFINE n    == Len(list[r])
            low  == span[r][1][1]
            high == span[r][1][2]
            c    == Cardinality(InParts(span[r], n))
<1>2. /\ Lists(list[r], Suitable(r)) /\ n \in Nat
      /\ PartsOf(span[r], n) /\ span[r] # <<>>
      /\ low \in Nat /\ high \in Nat /\ 1 <= low /\ high <= n
      /\ left[r] \in Nat /\ scan[r] \in Nat
      /\ low <= left[r] /\ left[r] <= scan[r] /\ scan[r] <= high
  BY <1>1, BoundsFacts
<1>3. /\ n >= 1 /\ left[r] \in 1 .. n /\ scan[r] \in 1 .. n /\ high \in 1 .. n
      /\ left[r] <= high
  <2>. HIDE DEF n, low, high
  <2>. QED
    BY <1>2
<1>4. c \in Nat
  BY <1>2, InPartsFacts
<1>5. SortLeft(r) = c * n + (high - scan[r])
  BY <1>1 DEF SortLeft
<1>6. ASSUME Compare(r) PROVE SortLeft(r)' < SortLeft(r)
  <2>1. /\ pc' = pc /\ span' = span /\ scan'[r] = scan[r] + 1
        /\ list' = list \/ list' = [list EXCEPT ![r] = Swapped(@, left[r], scan[r])]
    BY <1>0, <1>6 DEF Compare, Places
  <2>2. Len(list'[r]) = n
    <3>1. Len(Swapped(list[r], left[r], scan[r])) = n
      BY <1>2, <1>3, SwapLists
    <3>. QED
      BY <1>0, <2>1, <3>1 DEF Places
  <2>3. SortLeft(r)' = c * n + (high - (scan[r] + 1))
    BY <1>1, <2>1, <2>2 DEF SortLeft
  <2>4. c * n \in Int
    BY <1>2, <1>4
  <2>. HIDE DEF n, high, c
  <2>5. c * n + (high - (scan[r] + 1)) < c * n + (high - scan[r])
    BY <1>2, <2>4
  <2>. QED
    BY <1>5, <2>3, <2>5
<1>7. ASSUME Partition(r) PROVE SortLeft(r)' < SortLeft(r)
  <2>. DEFINE p    == left[r]
              rest == Rest(span[r], p)
              d    == Cardinality(InParts(rest, n))
  <2>1. scan[r] = high /\ span'[r] = rest
        /\ pc'[r] = (IF rest = <<>> THEN "sorted" ELSE "sorting")
        /\ list' = [list EXCEPT ![r] = Swapped(@, p, high)]
    BY <1>0, <1>7 DEF Partition, Goto, Places
  <2>2. Len(list'[r]) = n
    <3>1. Len(Swapped(list[r], p, high)) = n
      BY <1>2, <1>3, SwapLists
    <3>. QED
      BY <1>0, <2>1, <3>1 DEF Places
  <2>3. d < c
    BY <1>2, <1>3, PivotSettled
  <2>4. d \in Nat
    BY <1>2, InPartsFacts
  <2>5. CASE rest = <<>>
    <3>1. SortLeft(r)' = 0
      BY <2>1, <2>5 DEF SortLeft
    <3>. HIDE DEF n, high, c, d, rest
    <3>2. c >= 1 /\ c * n >= 1
      BY <1>2, <1>4, <1>3, <2>3, <2>4
    <3>3. c * n \in Int /\ high - scan[r] = 0
      BY <1>2, <1>4, <2>1
    <3>. QED
      BY <1>5, <3>1, <3>2, <3>3
  <2>6. CASE rest # <<>>
    <3>1. pc'[r] = "sorting"
      BY <2>1, <2>6
    <3>2. span'[r][1][2] <= n /\ span'[r][1][2] \in Nat
          /\ 1 <= scan'[r] /\ scan'[r] \in Nat
      BY <2>2, <3>1, NextBounds
    <3>3. SortLeft(r)' = d * n + (span'[r][1][2] - scan'[r])
      BY <2>1, <2>2, <3>1 DEF SortLeft
    <3>. HIDE DEF n, high, c, d, rest
    <3>4. d * n + n <= c * n
      <4>1. d + 1 <= c
        BY <1>4, <2>3, <2>4
      <4>2. (d + 1) * n <= c * n
        BY ONLY <1>2, <1>4, <2>4, <4>1
      <4>3. (d + 1) * n = d * n + n
        BY ONLY <1>2, <2>4
      <4>. QED
        BY <4>2, <4>3
    <3>5. d * n \in Int /\ c * n \in Int
      BY ONLY <1>2, <1>4, <2>4
    <3>6. SortLeft(r) = c * n + (high - scan[r]) /\ high - scan[r] = 0
          /\ n \in Nat
      BY <1>2, <1>5, <2>1
    <3>. DEFINE before == c * n
                after  == d * n
    <3>. HIDE DEF before, after
    <3>7. /\ SortLeft(r)' = after + (span'[r][1][2] - scan'[r])
          /\ SortLeft(r) = before + 0
          /\ after + n <= before /\ after \in Int /\ before \in Int
      BY <3>3, <3>4, <3>5, <3>6 DEF before, after
    <3>. QED
      BY ONLY <3>2, <3>6, <3>7
  <2>. QED
    BY <2>5, <2>6
<1>. DEFINE Same == UNCHANGED <<pc[r], list[r], span[r], left[r], scan[r]>>
<1>8. ASSUME ~Compare(r), ~Partition(r) PROVE Same
  <2>. USE <1>0, <1>1 DEF Goto, Places, sortVars
  <2>1. CASE UNCHANGED vars
    BY <2>1 DEF vars
  <2>2. ASSUME NEW q \in Request, Filter(q) PROVE Same
    BY <2>2 DEF Filter
  <2>3. ASSUME NEW q \in Request, Rank(q) PROVE Same
    BY <2>3 DEF Rank
  <2>4. ASSUME NEW q \in Request, Compare(q) PROVE Same
    BY <1>8, <2>4 DEF Compare
  <2>5. ASSUME NEW q \in Request, Partition(q) PROVE Same
    BY <1>8, <2>5 DEF Partition
  <2>6. ASSUME NEW q \in Request, Check(q) PROVE Same
    BY <2>6 DEF Check
  <2>7. ASSUME NEW q \in Request, EndCall(q) \/ Update(q) PROVE Same
    BY <2>7 DEF EndCall, Update
  <2>8. ASSUME NEW q \in Request, Observe(q) PROVE Same
    BY <2>8 DEF Observe
  <2>9. ASSUME NEW e \in Endpoint, Forget(e) \/ StartRefresh(e) PROVE Same
    BY <2>9 DEF Forget, StartRefresh
  <2>10. ASSUME Gather \/ RefreshEndpoint PROVE Same
    BY <2>10 DEF Gather, RefreshEndpoint
  <2>. QED
    BY <2>1, <2>2, <2>3, <2>4, <2>5, <2>6, <2>7, <2>8, <2>9, <2>10 DEF Next
<1>. QED
  BY <1>6, <1>7, <1>8

\* Whatever the comparator answers from one comparison to the next, quicksort
\* ends: on a list of n endpoints it takes at most n * n + n steps.
THEOREM SortEnds ==
  Spec => /\ [](\A r \in Request : SortBounded(r))
          /\ [][\A r \in Request : SortShrinks(r)]_vars
<1>1. ListInv => \A r \in Request : SortBounded(r)
  BY SortLeftBounded
<1>2. ListInv /\ ListInv' /\ [Next]_vars => \A r \in Request : SortShrinks(r)
  BY SortStep
<1>. QED
  BY <1>1, <1>2, ListInit, ListStep, PTL DEF Spec
=============================================================================
