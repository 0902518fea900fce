-------------------------- MODULE BatchCacheProofs --------------------------
(***************************************************************************)
(* Theorems about BatchCache, for all calls, batches and keys.             *)
(***************************************************************************)
EXTENDS BatchCache, SequenceTheorems, WellFoundedInduction, TLAPS

\* A call's lists are about its own batch, and how far they have grown.
Shape(c) ==
    /\ pending[c] \in Seq(Positions(c))
    /\ mapped[c]  \in SUBSET Positions(c)
    /\ Len(pending[c]) <= Len(Batch[c])
    /\ pc[c] = "looking" => pos[c] <= Len(Batch[c]) /\ Len(pending[c]) < pos[c]
    /\ pc[c] \in {"looking", "sending"} => got[c] = <<>>
    /\ pc[c] = "storing" => Len(got[c]) <= Len(pending[c])

\* If nothing is sent, the cache had a value for every request looked up.
Covered(c) ==
    pending[c] = <<>> =>
        \A i \in Positions(c) :
            hit[c][i] # None \/ (pc[c] = "looking" /\ pos[c] <= i)

TypeInv == TypeOK /\ \A c \in Call : Shape(c) /\ Covered(c)

LEMMA BatchTypes ==
    \A c \in Call : Len(Batch[c]) \in Nat \ {0} /\ Positions(c) \subseteq Nat
  BY CallAssumption DEF Positions

LEMMA SeqOf ==
  ASSUME NEW S, NEW m \in Nat, NEW f \in [1 .. m -> S]
  PROVE  f \in Seq(S) /\ Len(f) = m
  OBVIOUS

LEMMA AppendedTo ==
  ASSUME NEW S, NEW s \in Seq(S), NEW e \in S
  PROVE  Append(s, e) # <<>>
  BY AppendProperties

LEMMA TypeInit == Init => TypeInv
<1>. SUFFICES ASSUME Init PROVE TypeInv
  OBVIOUS
<1>. USE BatchTypes DEF Init
<1>1. \A c \in Call : hit[c] \in [Positions(c) -> Hit]
  BY DEF Hit
<1>2. DOMAIN hit = Call
  OBVIOUS
<1>3. ASSUME NEW c \in Call
      PROVE  /\ pending[c] \in Seq(Positions(c)) /\ pending[c] \in Seq(Nat)
             /\ Len(pending[c]) <= Len(Batch[c])
             /\ c \notin Direct => pending[c] = <<>>
  <2>1. CASE c \in Direct
    <3>1. pending[c] = [i \in 1 .. Len(Batch[c]) |-> i]
      BY <2>1 DEF Positions
    <3>2. Len(Batch[c]) \in Nat
      OBVIOUS
    <3>3. pending[c] \in [1 .. Len(Batch[c]) -> Positions(c)]
      BY <3>1 DEF Positions
    <3>4. pending[c] \in Seq(Positions(c)) /\ Len(pending[c]) = Len(Batch[c])
      BY <3>2, <3>3, SeqOf
    <3>5. pending[c] \in Seq(Nat)
      BY <3>4
    <3>. QED
      BY <2>1, <3>2, <3>4, <3>5
  <2>2. CASE c \notin Direct
    BY <2>2
  <2>. QED
    BY <2>1, <2>2
<1>4. pending \in [Call -> Seq(Nat)]
  BY <1>3
<1>5. redis \in [Cacheable -> Hit] /\ fresh \in SUBSET Cacheable
  BY DEF Hit
<1>6. pc \in [Call -> Steps] /\ pos \in [Call -> Nat \ {0}]
      /\ \A c \in Call : pc[c] = IF c \in Direct THEN "sending" ELSE "looking"
  BY DEF Steps
<1>7. /\ mapped \in [Call -> SUBSET Nat] /\ got \in [Call -> Seq(Value)]
      /\ reply \in [Call -> Seq(Slot)]
  OBVIOUS
<1>8. ASSUME NEW c \in Call PROVE Shape(c)
  <2>1. mapped[c] = {} /\ got[c] = <<>> /\ pos[c] = 1 /\ pc[c] # "storing"
    BY <1>6
  <2>2. pc[c] = "looking" => pending[c] = <<>>
    BY <1>3, <1>6
  <2>3. pc[c] = "looking" => pos[c] <= Len(Batch[c]) /\ Len(pending[c]) < pos[c]
    BY <2>1, <2>2
  <2>4. pc[c] \in {"looking", "sending"} => got[c] = <<>>
    BY <2>1
  <2>5. pc[c] = "storing" => Len(got[c]) <= Len(pending[c])
    BY <2>1
  <2>6. mapped[c] \in SUBSET Positions(c)
    BY <2>1
  <2>. QED
    BY <1>3, <2>3, <2>4, <2>5, <2>6 DEF Shape
<1>9. ASSUME NEW c \in Call PROVE Covered(c)
  <2>1. CASE c \in Direct
    <3>1. 1 \in Positions(c) /\ pending[c] = [i \in Positions(c) |-> i]
      BY <2>1 DEF Positions
    <3>2. 1 \in DOMAIN pending[c]
      BY <3>1
    <3>3. pending[c] # <<>>
      BY <3>2
    <3>. QED
      BY <3>3 DEF Covered
  <2>2. CASE c \notin Direct
    BY <2>2, <1>6 DEF Covered, Positions
  <2>. QED
    BY <2>1, <2>2
<1>. QED
  BY <1>1, <1>2, <1>4, <1>5, <1>6, <1>7, <1>8, <1>9 DEF TypeInv, TypeOK

\* The key of what a result answers.
LEMMA AskedTypes ==
  ASSUME TypeInv, NEW c \in Call, NEW j \in 1 .. Len(pending[c])
  PROVE  Asked(c, j) \in Positions(c) /\ KeyAt(c, Asked(c, j)) \in Key
         /\ IdAt(c, Asked(c, j)) \in Id
<1>1. pending[c] \in Seq(Positions(c)) /\ Len(pending[c]) \in Nat
  BY DEF TypeInv, Shape
<1>2. pending[c][j] \in Positions(c)
  BY <1>1
<1>. QED
  BY <1>2, KeyAssumption DEF Asked, KeyAt, Positions, Id

LEMMA ReplyTypes ==
  ASSUME TypeInv, NEW c \in Call
  PROVE  /\ \A i \in Positions(c) : Merged(c, i) \in Slot
         /\ \A j \in 1 .. Len(got[c]) : got[c][j] \in Value
<1>1. ASSUME NEW j \in 1 .. Len(got[c]) PROVE got[c][j] \in Value
  <2>1. got[c] \in Seq(Value)
    BY DEF TypeInv, TypeOK
  <2>. QED
    BY <2>1
<1>2. ASSUME NEW i \in Positions(c) PROVE Merged(c, i) \in Slot
  <2>. IdAt(c, i) \in Id
    BY DEF Id
  <2>1. CASE i \in mapped[c] /\ Takes(c, i) # {}
    <3>. DEFINE j == CHOOSE k \in Takes(c, i) : TRUE
    <3>1. j \in 1 .. Len(got[c])
      BY <2>1 DEF Takes
    <3>2. got[c][j] \in Value
      BY <1>1, <3>1
    <3>3. Merged(c, i) = [id |-> IdAt(c, i), value |-> got[c][j]]
      BY <2>1 DEF Merged
    <3>. QED
      BY <3>2, <3>3 DEF Slot
  <2>2. CASE ~(i \in mapped[c] /\ Takes(c, i) # {})
    <3>1. hit[c][i] \notin {Null, None} => hit[c][i] \in Value
      BY DEF Value, Hit, TypeInv, TypeOK
    <3>. QED
      BY <2>2, <3>1 DEF Merged, Slot
  <2>. QED
    BY <2>1, <2>2
<1>. QED
  BY <1>1, <1>2

LEMMA TypeStep == TypeInv /\ [Next]_vars => TypeInv'
<1>. SUFFICES ASSUME TypeInv, [Next]_vars PROVE TypeInv'
  OBVIOUS
<1>. USE BatchTypes DEF TypeInv, TypeOK, Shape, Covered, Steps, cacheVars, callVars, Goto
<1>1. ASSUME NEW c \in Call, LookUp(c) PROVE TypeInv'
  <2>. DEFINE i == pos[c]
  <2>1. i \in Positions(c) /\ i \in Nat /\ pc[c] = "looking"
    BY <1>1 DEF LookUp, Positions
  <2>2. \/ /\ pending' = [pending EXCEPT ![c] = Append(@, i)]
           /\ mapped' = mapped \/ mapped' = [mapped EXCEPT ![c] = @ \union {i}]
           /\ UNCHANGED hit
        \/ \E v \in Hit \ {None} : /\ hit' = [hit EXCEPT ![c][i] = v]
                                     /\ UNCHANGED <<pending, mapped>>
    <3>1. \/ \E ps \in {{}, {i}} : Ask(c, i, ps) /\ UNCHANGED hit
          \/ \E v \in Read(KeyAt(c, i)) :
                /\ KeyAt(c, i) \in Cacheable /\ v # None
                /\ hit' = [hit EXCEPT ![c][i] = v]
                /\ UNCHANGED <<pending, mapped>>
      BY <1>1 DEF LookUp, IndexOf
    <3>2. KeyAt(c, i) \in Cacheable => Read(KeyAt(c, i)) \subseteq Hit
      BY DEF Read, Hit
    <3>3. ASSUME Ask(c, i, {}), UNCHANGED hit
          PROVE  /\ pending' = [pending EXCEPT ![c] = Append(@, i)]
                 /\ mapped' = mapped
      BY <3>3 DEF Ask
    <3>. QED
      BY <3>1, <3>2, <3>3 DEF Ask
  <2>3. /\ DOMAIN hit' = Call
        /\ hit'[c] \in [Positions(c) -> Hit]
        /\ \A b \in Call \ {c} : hit'[b] = hit[b]
    <3>1. CASE UNCHANGED hit
      BY <3>1
    <3>2. ASSUME NEW v \in Hit, hit' = [hit EXCEPT ![c][i] = v]
          PROVE  /\ DOMAIN hit' = Call
                 /\ hit'[c] \in [Positions(c) -> Hit]
                 /\ \A b \in Call \ {c} : hit'[b] = hit[b]
      <4>1. [hit[c] EXCEPT ![i] = v] \in [Positions(c) -> Hit]
        BY <2>1
      <4>2. hit' = [hit EXCEPT ![c] = [hit[c] EXCEPT ![i] = v]]
        BY <3>2
      <4>. QED
        BY <4>1, <4>2
    <3>. QED
      BY <2>2, <3>1, <3>2
  <2>4. /\ pending' \in [Call -> Seq(Nat)]
        /\ pending'[c] \in Seq(Positions(c))
        /\ Len(pending'[c]) \in Nat /\ Len(pending'[c]) <= Len(pending[c]) + 1
        /\ \A b \in Call \ {c} : pending'[b] = pending[b]
    <3>1. CASE pending' = pending
      BY <3>1
    <3>2. CASE pending' = [pending EXCEPT ![c] = Append(@, i)]
      <4>1. Append(pending[c], i) \in Seq(Positions(c))
            /\ Append(pending[c], i) \in Seq(Nat)
            /\ Len(Append(pending[c], i)) = Len(pending[c]) + 1
        BY <2>1
      <4>. QED
        BY <3>2, <4>1
    <3>. QED
      BY <2>2, <3>1, <3>2
  <2>5. /\ mapped' \in [Call -> SUBSET Nat]
        /\ mapped'[c] \in SUBSET Positions(c)
        /\ \A b \in Call \ {c} : mapped'[b] = mapped[b]
    <3>1. CASE mapped' = mapped
      BY <3>1
    <3>2. CASE mapped' = [mapped EXCEPT ![c] = @ \union {i}]
      BY <2>1, <3>2
    <3>. QED
      BY <2>2, <3>1, <3>2
  <2>6. /\ pos' = [pos EXCEPT ![c] = i + 1]
        /\ pc' = [pc EXCEPT ![c] = IF i < Len(Batch[c]) THEN "looking" ELSE "sending"]
        /\ UNCHANGED <<redis, fresh, got, reply>>
    BY <1>1 DEF LookUp
  <2>7. TypeOK'
    <3>1. \A b \in Call : hit'[b] \in [Positions(b) -> Hit]
      BY <2>3
    <3>2. i + 1 \in Nat \ {0}
      BY <2>1
    <3>3. pos' \in [Call -> Nat \ {0}] /\ pc' \in [Call -> Steps]
      BY <2>6, <3>2
    <3>. QED
      BY <2>3, <2>4, <2>5, <2>6, <3>1, <3>3
  <2>8. ASSUME NEW b \in Call, b # c PROVE Shape(b)'
    BY <2>3, <2>4, <2>5, <2>6, <2>8
  <2>9. Shape(c)'
    <3>1. Len(pending[c]) \in Nat /\ Len(pending[c]) < i /\ i <= Len(Batch[c])
      BY <2>1
    <3>2. /\ pos'[c] = i + 1 /\ pc'[c] \in {"looking", "sending"} /\ got'[c] = <<>>
          /\ pc'[c] = "looking" => i < Len(Batch[c])
      BY <2>1, <2>6
    <3>. QED
      BY <2>1, <2>3, <2>4, <2>5, <3>1, <3>2
  <2>10. ASSUME NEW b \in Call, b # c PROVE Covered(b)'
    BY <2>3, <2>4, <2>6, <2>10
  <2>11. Covered(c)'
    <3>1. CASE pending' = [pending EXCEPT ![c] = Append(@, i)]
      <4>1. pending'[c] = Append(pending[c], i)
        BY <3>1
      <4>2. pending[c] \in Seq(Positions(c)) /\ i \in Positions(c)
        BY <2>1
      <4>3. Append(pending[c], i) # <<>>
        BY <4>2, AppendedTo
      <4>. QED
        BY <4>1, <4>3
    <3>2. ASSUME NEW v \in Hit \ {None}, hit' = [hit EXCEPT ![c][i] = v],
                 pending' = pending
          PROVE  Covered(c)'
      <4>1. hit'[c][i] = v /\ \A k \in Positions(c) \ {i} : hit'[c][k] = hit[c][k]
        BY <2>1, <3>2
      <4>2. pos'[c] = i + 1 /\ (i = Len(Batch[c]) \/ pc'[c] = "looking")
        BY <2>1, <2>6 DEF Positions
      <4>3. ASSUME NEW k \in Positions(c), pending'[c] = <<>>
            PROVE  hit'[c][k] # None \/ (pc'[c] = "looking" /\ pos'[c] <= k)
        <5>1. CASE k < i
          BY <2>1, <3>2, <4>1, <4>3, <5>1 DEF Positions
        <5>2. CASE k = i
          BY <4>1, <5>2
        <5>3. CASE k > i
          BY <2>1, <4>2, <5>3 DEF Positions
        <5>. QED
          BY <2>1, <5>1, <5>2, <5>3 DEF Positions
      <4>. QED
        BY <4>3
    <3>. QED
      BY <2>2, <3>1, <3>2
  <2>. QED
    BY <2>7, <2>8, <2>9, <2>10, <2>11
<1>2. ASSUME NEW c \in Call, ReplyFromCache(c) PROVE TypeInv'
  <2>. DEFINE hits == [i \in Positions(c) |-> [id |-> IdAt(c, i), value |-> hit[c][i]]]
  <2>1. hits \in Seq(Slot)
    <3>1. PICK m \in Nat : Positions(c) = 1 .. m
      BY DEF Positions
    <3>2. hits \in [1 .. m -> Slot]
      <4>. SUFFICES ASSUME NEW i \in Positions(c)
                    PROVE  [id |-> IdAt(c, i), value |-> hit[c][i]] \in Slot
        BY <3>1
      <4>1. hit[c][i] \in Value
        BY <1>2 DEF ReplyFromCache, Value, Hit
      <4>. QED
        BY <4>1 DEF Slot, Id
    <3>. QED
      BY <3>2, SeqOf
  <2>2. reply' \in [Call -> Seq(Slot)]
    BY <1>2, <2>1 DEF ReplyFromCache
  <2>. QED
    BY <1>2, <2>2 DEF ReplyFromCache
<1>3. ASSUME NEW c \in Call, Send(c) PROVE TypeInv'
  <2>1. PICK g \in Results(c) : got' = [got EXCEPT ![c] = g]
    BY <1>3 DEF Send
  <2>2. Len(pending[c]) \in Nat \ {0} /\ pending[c] # <<>>
    BY <1>3 DEF Send
  <2>3. g \in Seq(Value) /\ Len(g) <= Len(pending[c])
    <3>1. CASE g = <<Failed>>
      BY <3>1, <2>2 DEF Value
    <3>2. CASE g \in [1 .. Len(pending[c]) -> Value]
      <4>. DEFINE n == Len(pending[c])
      <4>1. n \in Nat
        BY <2>2
      <4>2. g \in Seq(Value) /\ Len(g) = n
        BY <3>2, <4>1, SeqOf
      <4>. QED
        BY <4>1, <4>2
    <3>. QED
      BY <3>1, <3>2 DEF Results, Value
  <2>4. got' \in [Call -> Seq(Value)] /\ got'[c] = g
        /\ \A b \in Call \ {c} : got'[b] = got[b]
    BY <2>1, <2>3
  <2>5. UNCHANGED <<redis, fresh, hit, pending, mapped, reply>>
        /\ pos' = [pos EXCEPT ![c] = 1] /\ pc' = [pc EXCEPT ![c] = "storing"]
    BY <1>3 DEF Send
  <2>6. TypeOK'
    BY <2>4, <2>5
  <2>7. ASSUME NEW b \in Call PROVE Shape(b)'
    BY <2>3, <2>4, <2>5
  <2>8. ASSUME NEW b \in Call PROVE Covered(b)'
    <3>1. CASE b = c
      BY <2>2, <2>5, <3>1
    <3>2. CASE b # c
      BY <2>5, <3>2
    <3>. QED
      BY <3>1, <3>2
  <2>. QED
    BY <2>6, <2>7, <2>8
<1>4. ASSUME NEW c \in Call, SendFails(c) PROVE TypeInv'
  BY <1>4 DEF SendFails
<1>5. ASSUME NEW c \in Call, Store(c) PROVE TypeInv'
  <2>1. pos[c] \in 1 .. Len(got[c]) /\ pc[c] = "storing"
    BY <1>5 DEF Store
  <2>2. got[c][pos[c]] \in Value
    BY <2>1, ReplyTypes
  <2>3. redis' \in [Cacheable -> Hit] /\ fresh' \in SUBSET Cacheable
    BY <1>5, <2>2 DEF Store, Storable, Value, Hit
  <2>4. UNCHANGED <<pc, hit, pending, mapped, got, reply>>
        /\ pos' = [pos EXCEPT ![c] = pos[c] + 1]
    BY <1>5 DEF Store
  <2>5. pos' \in [Call -> Nat \ {0}]
    BY <2>4
  <2>6. TypeOK'
    BY <2>3, <2>4, <2>5
  <2>7. ASSUME NEW b \in Call PROVE (Shape(b) /\ Covered(b))'
    BY <2>1, <2>4
  <2>. QED
    BY <2>6, <2>7
<1>6. ASSUME NEW c \in Call, Combine(c) PROVE TypeInv'
  <2>1. Len(got[c]) \in Nat /\ Len(got[c]) <= Len(pending[c])
    BY <1>6 DEF Combine
  <2>. DEFINE results == [j \in 1 .. Len(got[c]) |->
                             [id |-> IdAt(c, Asked(c, j)), value |-> got[c][j]]]
              merged  == [i \in Positions(c) |-> Merged(c, i)]
  <2>2. results \in Seq(Slot)
    <3>1. ASSUME NEW j \in 1 .. Len(got[c])
          PROVE  [id |-> IdAt(c, Asked(c, j)), value |-> got[c][j]] \in Slot
      <4>1. j \in 1 .. Len(pending[c])
        BY <2>1
      <4>. QED
        BY <4>1, AskedTypes, ReplyTypes DEF Slot
    <3>2. results \in [1 .. Len(got[c]) -> Slot]
      BY <3>1
    <3>3. Len(got[c]) \in Nat
      BY <2>1
    <3>. HIDE DEF results
    <3>. QED
      BY ONLY <3>2, <3>3, SeqOf
  <2>3. merged \in Seq(Slot)
    <3>1. PICK m \in Nat : Positions(c) = 1 .. m
      BY DEF Positions
    <3>2. merged \in [1 .. m -> Slot]
      BY <3>1, ReplyTypes
    <3>. QED
      BY <3>2, SeqOf
  <2>4. reply' = [reply EXCEPT ![c] = results] \/ reply' = [reply EXCEPT ![c] = merged]
    BY <1>6 DEF Combine
  <2>5. reply' \in [Call -> Seq(Slot)]
    BY <2>2, <2>3, <2>4
  <2>. QED
    BY <1>6, <2>5 DEF Combine
<1>7. ASSUME NEW k \in Cacheable, Age(k) PROVE TypeInv'
  BY <1>7 DEF Age
<1>8. ASSUME NEW k \in Cacheable, Drop(k) PROVE TypeInv'
  BY <1>8 DEF Drop, Hit
<1>9. CASE UNCHANGED vars
  BY <1>9 DEF vars
<1>. QED
  BY <1>1, <1>2, <1>3, <1>4, <1>5, <1>6, <1>7, <1>8, <1>9 DEF Next

\* The state is of its type at every step: what is put together for a call
\* has the ids of its batch, and the positions mapped are in it.
THEOREM TypeCorrect == Spec => []TypeOK
<1>1. TypeInv => TypeOK
  BY DEF TypeInv
<1>. QED
  BY <1>1, TypeInit, TypeStep, PTL DEF Spec

\* With the results in the order of the requests, each answers its request.
Truthful ==
    /\ CacheIsTrue
    /\ \A c \in Call : pc[c] = "storing" =>
          \A j \in 1 .. Len(got[c]) :
             got[c][j] \in {KeyAt(c, Asked(c, j)), Null, Failed}

LEMMA ResultsInOrder ==
  ASSUME ~Reorders, TypeInv, NEW c \in Call, NEW g \in Results(c),
         Len(pending[c]) \in Nat \ {0}, NEW j \in 1 .. Len(g)
  PROVE  g[j] \in {KeyAt(c, Asked(c, j)), Null, Failed}
<1>. DEFINE n == Len(pending[c])
<1>1. CASE g = <<Failed>>
  <2>1. Len(g) = 1 /\ g[1] = Failed
    BY <1>1
  <2>. QED
    BY <2>1
<1>2. CASE g \in [1 .. n -> Key \union {Null, Failed}] /\ g # <<Failed>>
  <2>1. PICK p \in Orders(n) : \A k \in 1 .. n :
           g[k] \in AnswersTo(KeyAt(c, pending[c][p[k]]))
    BY <1>2 DEF Results
  <2>2. j \in 1 .. n
    <3>1. n \in Nat
      OBVIOUS
    <3>2. Len(g) = n
      BY <1>2, <3>1, SeqOf
    <3>. QED
      BY <3>2
  <2>3. p[j] = j
    BY <2>1, <2>2 DEF Orders
  <2>. QED
    BY <2>1, <2>2, <2>3 DEF AnswersTo, Asked
<1>. QED
  BY <1>1, <1>2 DEF Results

LEMMA TruthfulStep ==
  ASSUME ~Reorders
  PROVE  TypeInv /\ Truthful /\ [Next]_vars => Truthful'
<1>. SUFFICES ASSUME TypeInv, Truthful, [Next]_vars PROVE Truthful'
  OBVIOUS
<1>. USE DEF Truthful, CacheIsTrue, cacheVars, callVars, Goto, Asked
<1>0. /\ DOMAIN redis = Cacheable /\ DOMAIN pc = Call
      /\ DOMAIN got = Call /\ DOMAIN pending = Call
  BY DEF TypeInv, TypeOK
<1>1. ASSUME NEW c \in Call, LookUp(c) PROVE Truthful'
  <2>1. UNCHANGED <<redis, got>> /\ pc'[c] # "storing"
        /\ \A b \in Call \ {c} : pc'[b] = pc[b] /\ pending'[b] = pending[b]
    BY <1>0, <1>1 DEF LookUp, Ask
  <2>. QED
    BY <2>1
<1>2. ASSUME NEW c \in Call, ReplyFromCache(c) PROVE Truthful'
  BY <1>0, <1>2 DEF ReplyFromCache
<1>3. ASSUME NEW c \in Call, Send(c) PROVE Truthful'
  <2>1. PICK g \in Results(c) : got' = [got EXCEPT ![c] = g]
    BY <1>3 DEF Send
  <2>2. Len(pending[c]) \in Nat \ {0}
    BY <1>3 DEF Send, TypeInv, TypeOK
  <2>3. \A j \in 1 .. Len(g) : g[j] \in {KeyAt(c, pending[c][j]), Null, Failed}
    BY <2>2, ResultsInOrder
  <2>4. /\ UNCHANGED <<redis, pending>> /\ got'[c] = g
        /\ \A b \in Call \ {c} : pc'[b] = pc[b] /\ got'[b] = got[b]
    BY <1>0, <1>3, <2>1 DEF Send
  <2>5. ASSUME NEW b \in Call, pc'[b] = "storing"
        PROVE  \A j \in 1 .. Len(got'[b]) :
                  got'[b][j] \in {KeyAt(b, pending'[b][j]), Null, Failed}
    <3>1. CASE b = c
      BY <2>3, <2>4, <3>1
    <3>2. CASE b # c
      BY <2>4, <2>5, <3>2
    <3>. QED
      BY <3>1, <3>2
  <2>. QED
    BY <2>4, <2>5
<1>4. ASSUME NEW c \in Call, SendFails(c) PROVE Truthful'
  BY <1>0, <1>4 DEF SendFails
<1>5. ASSUME NEW c \in Call, Store(c) PROVE Truthful'
  <2>. DEFINE j == pos[c]
              k == KeyAt(c, Asked(c, j))
  <2>1. j \in 1 .. Len(got[c]) /\ pc[c] = "storing"
    BY <1>5 DEF Store, TypeInv, TypeOK
  <2>2. \/ UNCHANGED redis
        \/ got[c][j] # Failed /\ redis' = [redis EXCEPT ![k] = got[c][j]]
    BY <1>5 DEF Store, Storable
  <2>3. got[c][j] \in {k, Null, Failed}
    BY <2>1
  <2>4. CacheIsTrue'
    BY <1>0, <2>2, <2>3
  <2>5. UNCHANGED <<pc, got, pending>>
    BY <1>5 DEF Store
  <2>. QED
    BY <2>4, <2>5
<1>6. ASSUME NEW c \in Call, Combine(c) PROVE Truthful'
  BY <1>0, <1>6 DEF Combine
<1>7. ASSUME NEW k \in Cacheable, Age(k) PROVE Truthful'
  BY <1>7 DEF Age
<1>8. ASSUME NEW k \in Cacheable, Drop(k) PROVE Truthful'
  BY <1>0, <1>8 DEF Drop
<1>9. CASE UNCHANGED vars
  BY <1>9 DEF vars
<1>. QED
  BY <1>1, <1>2, <1>3, <1>4, <1>5, <1>6, <1>7, <1>8, <1>9 DEF Next

\* If the upstream answers a batch in the order it was asked, then whatever
\* batches share the cache, an entry written by saveCache never holds the
\* answer to another question, nor an error.
THEOREM CacheCorrect ==
  ASSUME ~Reorders
  PROVE  Spec => []CacheIsTrue
<1>1. Init => Truthful
  BY DEF Init, Truthful, CacheIsTrue
<1>2. Truthful => CacheIsTrue
  BY DEF Truthful
<1>. QED
  BY <1>1, <1>2, TypeInit, TypeStep, TruthfulStep, PTL DEF Spec

-----------------------------------------------------------------------------
(* What a reply holds and what it lacks                                    *)

\* No client gives two requests of a batch the same id.
DistinctIds ==
    \A c \in Call : \A i, j \in Positions(c) : IdAt(c, i) = IdAt(c, j) => i = j

\* What the requests with the id of request i ask.
AskedUnderId(c, i) ==
    {KeyAt(c, k) : k \in {m \in Positions(c) : IdAt(c, m) = IdAt(c, i)}}

\* What AnswersFit says of a call that has its reply, by id.
ReplyFits(c) ==
    pc[c] = "done" =>
        \A i \in 1 .. Len(reply[c]) : reply[c][i] # None =>
            /\ reply[c][i].id = IdAt(c, i)
            /\ reply[c][i].value \in AskedUnderId(c, i) \union {Null, Failed}

\* Every reply has the id of the request at its position and answers a request
\* of that id, also in a batch that repeats one.
AnswersFitIds == \A c \in Call : ReplyFits(c)

\* A hit answers its request, and a call without the cache sends its batch as
\* it is.
Fits(c) ==
    /\ \A i \in Positions(c) : hit[c][i] \in {KeyAt(c, i), Null, None}
    /\ c \in Direct => pc[c] # "looking"
    /\ c \in Direct => \A j \in 1 .. Len(pending[c]) : pending[c][j] = j
    /\ pc[c] = "done" => Len(reply[c]) <= Len(Batch[c])
    /\ ReplyFits(c)

\* The locals of a call that no other call's step changes.
Keeps(c) ==
    /\ pc'[c] = pc[c] /\ pos'[c] = pos[c] /\ hit'[c] = hit[c]
    /\ pending'[c] = pending[c] /\ mapped'[c] = mapped[c]
    /\ got'[c] = got[c] /\ reply'[c] = reply[c]

LEMMA OthersKeep ==
  ASSUME TypeInv, NEW c \in Call, NEW b \in Call \ {c},
         \/ LookUp(c) \/ ReplyFromCache(c) \/ Send(c)
         \/ SendFails(c) \/ Store(c) \/ Combine(c)
  PROVE  Keeps(b)
<1>1. /\ DOMAIN pc = Call /\ DOMAIN pos = Call /\ DOMAIN hit = Call
      /\ DOMAIN pending = Call /\ DOMAIN mapped = Call
      /\ DOMAIN got = Call /\ DOMAIN reply = Call
  BY DEF TypeInv, TypeOK
<1>. USE DEF Keeps, Goto, cacheVars, callVars
<1>2. CASE LookUp(c)
  BY <1>1, <1>2 DEF LookUp, Ask
<1>3. CASE ReplyFromCache(c)
  BY <1>1, <1>3 DEF ReplyFromCache
<1>4. CASE Send(c)
  BY <1>1, <1>4 DEF Send
<1>5. CASE SendFails(c)
  BY <1>1, <1>5 DEF SendFails
<1>6. CASE Store(c)
  BY <1>1, <1>6 DEF Store
<1>7. CASE Combine(c)
  BY <1>1, <1>7 DEF Combine
<1>. QED
  BY <1>2, <1>3, <1>4, <1>5, <1>6, <1>7

\* The result taken for a position was sent for one of the same id.
LEMMA TakenFits ==
  ASSUME TypeInv, NEW c \in Call, NEW i \in Positions(c),
         Len(got[c]) <= Len(pending[c]), NEW j \in Takes(c, i)
  PROVE  j \in 1 .. Len(got[c]) /\ KeyAt(c, Asked(c, j)) \in AskedUnderId(c, i)
<1>1. j \in 1 .. Len(got[c]) /\ IdAt(c, Asked(c, j)) = IdAt(c, i)
  BY DEF Takes, HasId
<1>2. Len(got[c]) \in Nat /\ Len(pending[c]) \in Nat
  BY DEF TypeInv, TypeOK
<1>3. j \in 1 .. Len(pending[c])
  BY <1>1, <1>2
<1>4. Asked(c, j) \in Positions(c)
  BY <1>3, AskedTypes
<1>. QED
  BY <1>1, <1>4 DEF AskedUnderId

LEMMA MergedFits ==
  ASSUME TypeInv, Truthful, NEW c \in Call, Fits(c),
         pc[c] = "storing", NEW i \in Positions(c), Merged(c, i) # None
  PROVE  /\ Merged(c, i).id = IdAt(c, i)
         /\ Merged(c, i).value \in AskedUnderId(c, i) \union {Null, Failed}
<1>1. CASE i \in mapped[c] /\ Takes(c, i) # {}
  <2>. DEFINE j == CHOOSE k \in Takes(c, i) : TRUE
  <2>1. j \in Takes(c, i)
    BY <1>1
  <2>2. Len(got[c]) <= Len(pending[c])
    BY DEF TypeInv, Shape
  <2>. HIDE DEF j
  <2>3. j \in 1 .. Len(got[c]) /\ KeyAt(c, Asked(c, j)) \in AskedUnderId(c, i)
    BY <2>1, <2>2, TakenFits
  <2>4. got[c][j] \in AskedUnderId(c, i) \union {Null, Failed}
    BY <2>3 DEF Truthful
  <2>5. Merged(c, i) = [id |-> IdAt(c, i), value |-> got[c][j]]
    BY <1>1 DEF Merged, j
  <2>. QED
    BY <2>4, <2>5
<1>2. CASE ~(i \in mapped[c] /\ Takes(c, i) # {})
  <2>1. /\ hit[c][i] \notin {Null, None}
        /\ Merged(c, i) = [id |-> IdAt(c, i), value |-> hit[c][i]]
    BY <1>2 DEF Merged
  <2>2. hit[c][i] \in {KeyAt(c, i), Null, None} /\ KeyAt(c, i) \in AskedUnderId(c, i)
    BY DEF Fits, AskedUnderId
  <2>. QED
    BY <2>1, <2>2
<1>. QED
  BY <1>1, <1>2

LEMMA FitsStep ==
  TypeInv /\ Truthful /\ (\A c \in Call : Fits(c)) /\ [Next]_vars
     => (\A c \in Call : Fits(c))'
<1>. SUFFICES ASSUME TypeInv, Truthful, \A c \in Call : Fits(c), [Next]_vars
              PROVE  \A c \in Call : Fits(c)'
  OBVIOUS
<1>0. /\ DOMAIN pc = Call /\ DOMAIN hit = Call /\ DOMAIN redis = Cacheable
      /\ DOMAIN pending = Call /\ DOMAIN got = Call /\ DOMAIN reply = Call
      /\ \A c \in Call : DOMAIN hit[c] = Positions(c)
  BY DEF TypeInv, TypeOK
<1>o. \A c \in Call : \A i \in Positions(c) : KeyAt(c, i) \in AskedUnderId(c, i)
  BY DEF AskedUnderId
<1>a. ASSUME NEW c \in Call, Keeps(c) PROVE Fits(c)'
  BY <1>a DEF Keeps, Fits, ReplyFits
<1>1. ASSUME NEW c \in Call, LookUp(c) PROVE Fits(c)'
  <2>1. pc[c] = "looking" /\ pc'[c] # "done" /\ c \notin Direct
    BY <1>0, <1>1 DEF LookUp, Goto, Fits
  <2>2. \/ UNCHANGED hit
        \/ \E v \in {KeyAt(c, pos[c]), Null} : hit' = [hit EXCEPT ![c][pos[c]] = v]
    <3>1. \A k \in Cacheable : Read(k) \subseteq {k, Null, None}
      BY DEF Read, Truthful, CacheIsTrue
    <3>. QED
      BY <1>1, <3>1 DEF LookUp
  <2>3. \A i \in Positions(c) : hit'[c][i] \in {KeyAt(c, i), Null, None}
    BY <1>0, <2>2 DEF Fits
  <2>. QED
    BY <2>1, <2>3 DEF Fits, ReplyFits
<1>2. ASSUME NEW c \in Call, ReplyFromCache(c) PROVE Fits(c)'
  <2>1. /\ reply'[c] = [i \in Positions(c) |->
                           [id |-> IdAt(c, i), value |-> hit[c][i]]]
        /\ UNCHANGED <<hit, pending>> /\ pc'[c] = "done"
        /\ pc[c] = "sending" /\ pending[c] = <<>>
    BY <1>0, <1>2 DEF ReplyFromCache, Goto
  <2>2. \A i \in Positions(c) : hit[c][i] # None
    BY <2>1 DEF TypeInv, Covered
  <2>3. \A i \in Positions(c) : hit[c][i] \in {KeyAt(c, i), Null}
    BY <2>2 DEF Fits
  <2>4. Len(reply'[c]) = Len(Batch[c])
    BY <2>1, BatchTypes DEF Positions
  <2>5. ReplyFits(c)'
    BY <1>o, <2>1, <2>3, <2>4 DEF ReplyFits, Positions
  <2>6. Len(reply'[c]) <= Len(Batch[c])
    BY <2>4, BatchTypes
  <2>. QED
    BY <2>1, <2>5, <2>6 DEF Fits
<1>3. ASSUME NEW c \in Call, Send(c) PROVE Fits(c)'
  <2>1. UNCHANGED <<hit, pending>> /\ pc'[c] = "storing"
    BY <1>0, <1>3 DEF Send, Goto
  <2>. QED
    BY <2>1 DEF Fits, ReplyFits
<1>4. ASSUME NEW c \in Call, SendFails(c) PROVE Fits(c)'
  <2>1. UNCHANGED <<hit, pending>> /\ pc'[c] = "failed"
    BY <1>0, <1>4 DEF SendFails, Goto
  <2>. QED
    BY <2>1 DEF Fits, ReplyFits
<1>5. ASSUME NEW c \in Call, Store(c) PROVE Fits(c)'
  <2>1. UNCHANGED <<hit, pending, pc>> /\ pc[c] = "storing"
    BY <1>0, <1>5 DEF Store
  <2>. QED
    BY <2>1 DEF Fits, ReplyFits
<1>6. ASSUME NEW c \in Call, Combine(c) PROVE Fits(c)'
  <2>1. UNCHANGED <<hit, pending>> /\ pc'[c] = "done" /\ pc[c] = "storing"
    BY <1>0, <1>6 DEF Combine, Goto
  <2>2. /\ Len(got[c]) \in Nat /\ Len(pending[c]) \in Nat
        /\ Len(got[c]) <= Len(pending[c]) /\ Len(pending[c]) <= Len(Batch[c])
    BY <2>1 DEF TypeInv, TypeOK, Shape
  <2>3. CASE c \in Direct \union Single
    <3>1. reply'[c] = [j \in 1 .. Len(got[c]) |->
                          [id |-> IdAt(c, Asked(c, j)), value |-> got[c][j]]]
      BY <1>0, <1>6, <2>3 DEF Combine
    <3>2. Len(reply'[c]) = Len(got[c])
      BY <2>2, <3>1
    <3>3. ASSUME NEW j \in 1 .. Len(got[c]) PROVE Asked(c, j) = j
      <4>1. j \in 1 .. Len(pending[c])
        BY <2>2
      <4>2. CASE c \in Direct
        BY <4>1, <4>2 DEF Fits, Asked
      <4>3. CASE c \in Single
        <5>1. Len(Batch[c]) = 1
          BY <4>3, CallAssumption
        <5>2. Asked(c, j) \in 1 .. 1
          BY <4>1, <5>1, AskedTypes DEF Positions
        <5>. QED
          BY <2>2, <4>1, <5>1, <5>2
      <4>. QED
        BY <2>3, <4>2, <4>3
    <3>4. \A j \in 1 .. Len(got[c]) :
             got[c][j] \in {KeyAt(c, Asked(c, j)), Null, Failed}
      BY <2>1 DEF Truthful
    <3>5. ASSUME NEW j \in 1 .. Len(got[c])
          PROVE  got[c][j] \in AskedUnderId(c, j) \union {Null, Failed}
      <4>1. j \in Positions(c) /\ Asked(c, j) = j
        BY <2>2, <3>3, BatchTypes DEF Positions
      <4>. QED
        BY <1>o, <3>4, <4>1
    <3>6. ReplyFits(c)'
      BY <3>1, <3>2, <3>3, <3>5 DEF ReplyFits
    <3>7. Len(reply'[c]) <= Len(Batch[c])
      BY <2>2, <3>2, BatchTypes
    <3>. QED
      BY <2>1, <3>6, <3>7 DEF Fits
  <2>4. CASE c \notin Direct \union Single
    <3>1. reply'[c] = [i \in Positions(c) |-> Merged(c, i)]
      BY <1>0, <1>6, <2>4 DEF Combine
    <3>2. Len(reply'[c]) = Len(Batch[c])
      BY <3>1, BatchTypes DEF Positions
    <3>3. \A i \in Positions(c) : Merged(c, i) # None =>
             /\ Merged(c, i).id = IdAt(c, i)
             /\ Merged(c, i).value \in AskedUnderId(c, i) \union {Null, Failed}
      BY <2>1, MergedFits
    <3>4. ReplyFits(c)'
      BY <3>1, <3>2, <3>3 DEF ReplyFits, Positions
    <3>5. Len(reply'[c]) <= Len(Batch[c])
      BY <3>2, BatchTypes
    <3>. QED
      BY <2>1, <3>4, <3>5 DEF Fits
  <2>. QED
    BY <2>3, <2>4
<1>7. ASSUME UNCHANGED callVars PROVE \A c \in Call : Fits(c)'
  BY <1>7, <1>a DEF callVars, Keeps
<1>8. ASSUME NEW k \in Cacheable, Age(k) \/ Drop(k) PROVE UNCHANGED callVars
  BY <1>8 DEF Age, Drop
<1>. QED
  BY <1>a, <1>1, <1>2, <1>3, <1>4, <1>5, <1>6, <1>7, <1>8, OthersKeep
     DEF Next, vars

LEMMA FitsInit == Init => Truthful /\ \A c \in Call : Fits(c)
  BY DEF Init, Truthful, CacheIsTrue, Fits, ReplyFits, Positions

\* If the upstream keeps the order of a batch, then whatever of a batch the
\* cache answers and however it repeats ids, each reply has the id of the
\* request at its position and answers a request of that id.
THEOREM AnswersFitTheirIds ==
  ASSUME ~Reorders
  PROVE  Spec => []AnswersFitIds
<1>1. (\A c \in Call : Fits(c)) => AnswersFitIds
  BY DEF Fits, AnswersFitIds
<1>. QED
  BY <1>1, FitsInit, TypeInit, TypeStep, TruthfulStep, FitsStep, PTL DEF Spec

\* If, moreover, a batch's ids differ, each reply answers the request at its
\* position.
THEOREM AnswersAreFit ==
  ASSUME ~Reorders, DistinctIds
  PROVE  Spec => []AnswersFit
<1>1. ASSUME \A c \in Call : Fits(c) PROVE AnswersFit
  <2>1. SUFFICES ASSUME NEW c \in Call, pc[c] = "done",
                        NEW i \in 1 .. Len(reply[c]), reply[c][i] # None
                 PROVE  /\ reply[c][i].id = IdAt(c, i)
                        /\ reply[c][i].value \in {KeyAt(c, i), Null, Failed}
    BY DEF AnswersFit
  <2>2. Len(reply[c]) <= Len(Batch[c]) /\ ReplyFits(c)
    BY <1>1, <2>1 DEF Fits
  <2>3. i \in Positions(c)
    BY <2>1, <2>2, BatchTypes DEF Positions
  <2>4. AskedUnderId(c, i) \subseteq {KeyAt(c, i)}
    BY <2>3 DEF AskedUnderId, DistinctIds
  <2>. QED
    BY <2>1, <2>2, <2>4 DEF ReplyFits
<1>. QED
  BY <1>1, FitsInit, TypeInit, TypeStep, TruthfulStep, FitsStep, PTL DEF Spec

\* What LossesExplained says of a call that has its reply.
ReplyLoses(c) ==
    pc[c] = "done" =>
        \A i \in 1 .. Len(reply[c]) : reply[c][i] = None =>
            \/ KeyAt(c, i) \notin Cacheable
            \/ hit[c][i] = Null
            \/ Len(got[c]) < Len(pending[c])

\* A position that was looked up in vain is mapped and sent.
Sent(c) ==
    \A i \in Positions(c) :
        /\ c \notin Direct /\ KeyAt(c, i) \in Cacheable /\ hit[c][i] = None
        /\ ~(pc[c] = "looking" /\ pos[c] <= i)
        => i \in mapped[c] /\ \E j \in 1 .. Len(pending[c]) : pending[c][j] = i

Accounted(c) == Sent(c) /\ ReplyLoses(c)

\* A set of natural numbers that is not empty has a least one.
LEMMA Least ==
  ASSUME NEW T \in SUBSET Nat, T # {}
  PROVE  \E n \in T : \A m \in T : n <= m
<1>1. PICK n \in T : \A m \in T : ~(<<m, n>> \in OpToRel(<, Nat))
  BY NatLessThanWellFounded, WFMin
<1>2. \A m \in T : ~(m < n)
  BY <1>1 DEF OpToRel
<1>. QED
  BY <1>2

\* Of the results with a request's id, one is the last.
LEMMA SomeIsTaken ==
  ASSUME NEW c, NEW i, Len(got[c]) \in Nat, NEW k \in 1 .. Len(got[c]), HasId(c, k, i)
  PROVE  Takes(c, i) # {}
<1>. DEFINE n    == Len(got[c])
            with == {l \in 1 .. n : HasId(c, l, i)}
            back == {m \in 0 .. n - 1 : n - m \in with}
<1>1. n \in Nat /\ k \in with /\ with \subseteq 1 .. n
  OBVIOUS
<1>. HIDE DEF n, with
<1>2. n - k \in back /\ back \in SUBSET Nat
  BY <1>1
<1>3. PICK m \in back : \A l \in back : m <= l
  BY <1>2, Least
<1>4. ASSUME NEW l \in (n - m) + 1 .. n PROVE l \notin with
  <2>1. n - l \in 0 .. n - 1 /\ n - l < m /\ n - (n - l) = l
    BY <1>1, <1>3
  <2>2. l \in with => n - l \in back
    BY <2>1
  <2>3. n - l \in back => m <= n - l
    BY <1>3
  <2>. QED
    BY <1>1, <1>3, <2>1, <2>2, <2>3
<1>5. n - m \in with /\ \A l \in (n - m) + 1 .. n : l \in 1 .. n
  BY <1>1, <1>3
<1>6. n - m \in Takes(c, i)
  BY <1>4, <1>5 DEF Takes, n, with
<1>. QED
  BY <1>6

LEMMA MergedLoses ==
  ASSUME TypeInv, NEW c \in Call, Accounted(c), c \notin Direct,
         pc[c] = "storing", NEW i \in Positions(c), Merged(c, i) = None,
         KeyAt(c, i) \in Cacheable, hit[c][i] # Null
  PROVE  Len(got[c]) < Len(pending[c])
<1>0. IdAt(c, i) \in Id
  BY DEF Id
<1>1. ~(i \in mapped[c] /\ Takes(c, i) # {})
  <2>. SUFFICES ASSUME i \in mapped[c], Takes(c, i) # {} PROVE FALSE
    OBVIOUS
  <2>. DEFINE j == CHOOSE k \in Takes(c, i) : TRUE
  <2>1. j \in 1 .. Len(got[c])
    BY DEF Takes
  <2>2. got[c][j] \in Value
    BY <2>1, ReplyTypes
  <2>3. Merged(c, i) = [id |-> IdAt(c, i), value |-> got[c][j]]
    BY DEF Merged
  <2>. HIDE DEF j
  <2>4. [id |-> IdAt(c, i), value |-> got[c][j]] \in [id : Id, value : Value]
    BY <1>0, <2>2
  <2>. QED
    BY <2>3, <2>4, SlotAssumption
<1>2. hit[c][i] = None
  <2>. SUFFICES ASSUME hit[c][i] # None PROVE FALSE
    OBVIOUS
  <2>1. hit[c][i] \in Value
    BY DEF TypeInv, TypeOK, Hit, Value
  <2>2. Merged(c, i) = [id |-> IdAt(c, i), value |-> hit[c][i]]
    BY <1>1 DEF Merged
  <2>3. [id |-> IdAt(c, i), value |-> hit[c][i]] \in [id : Id, value : Value]
    BY <1>0, <2>1
  <2>. QED
    BY <2>2, <2>3, SlotAssumption
<1>3. PICK j \in 1 .. Len(pending[c]) : i \in mapped[c] /\ pending[c][j] = i
  BY <1>2 DEF Accounted, Sent
<1>4. Len(got[c]) \in Nat /\ Len(pending[c]) \in Nat
      /\ Len(got[c]) <= Len(pending[c])
  BY DEF TypeInv, TypeOK, Shape
<1>5. SUFFICES ASSUME ~(Len(got[c]) < Len(pending[c])) PROVE Takes(c, i) # {}
  BY <1>1, <1>3
<1>6. j \in 1 .. Len(got[c]) /\ HasId(c, j, i)
  BY <1>3, <1>4, <1>5 DEF HasId, Asked
<1>. QED
  BY <1>4, <1>6, SomeIsTaken

LEMMA AccountedStep ==
  TypeInv /\ (\A c \in Call : Accounted(c)) /\ [Next]_vars
     => (\A c \in Call : Accounted(c))'
<1>. SUFFICES ASSUME TypeInv, \A c \in Call : Accounted(c), [Next]_vars
              PROVE  \A c \in Call : Accounted(c)'
  OBVIOUS
<1>0. /\ DOMAIN pc = Call /\ DOMAIN hit = Call /\ DOMAIN pos = Call
      /\ DOMAIN pending = Call /\ DOMAIN got = Call /\ DOMAIN reply = Call
      /\ DOMAIN mapped = Call
      /\ \A c \in Call : DOMAIN hit[c] = Positions(c)
      /\ \A c \in Call : pos[c] \in Nat \ {0} /\ pending[c] \in Seq(Nat)
  BY DEF TypeInv, TypeOK
<1>a. ASSUME NEW c \in Call, Keeps(c) PROVE Accounted(c)'
  BY <1>a DEF Keeps, Accounted, Sent, ReplyLoses
<1>b. ASSUME NEW c \in Call, pc[c] # "looking", pc'[c] \notin {"looking", "done"},
             UNCHANGED <<hit, mapped, pending>>
      PROVE  Accounted(c)'
  BY <1>b DEF Accounted, Sent, ReplyLoses
<1>1. ASSUME NEW c \in Call, LookUp(c) PROVE Accounted(c)'
  <2>. DEFINE p == pos[c]
  <2>1. /\ pc[c] = "looking" /\ p \in Positions(c) /\ p \in Nat
        /\ pos'[c] = p + 1 /\ pc'[c] # "done"
        /\ pc'[c] = "looking" \/ p = Len(Batch[c])
    BY <1>0, <1>1, BatchTypes DEF LookUp, Goto, Positions, TypeInv, Shape
  <2>2. \/ /\ pending' = [pending EXCEPT ![c] = Append(@, p)]
           /\ UNCHANGED hit
           /\ KeyAt(c, p) \in Cacheable => mapped' = [mapped EXCEPT ![c] = @ \union {p}]
           /\ KeyAt(c, p) \notin Cacheable => mapped' = [mapped EXCEPT ![c] = @ \union {}]
        \/ /\ UNCHANGED <<pending, mapped>>
           /\ \E v : v # None /\ hit' = [hit EXCEPT ![c][p] = v]
    BY <1>1 DEF LookUp, Ask, IndexOf
  <2>. HIDE DEF p
  <2>3. /\ pending'[c] = pending[c] \/ pending'[c] = Append(pending[c], p)
        /\ mapped[c] \subseteq mapped'[c]
        /\ hit'[c][p] = None =>
             /\ pending'[c] = Append(pending[c], p)
             /\ KeyAt(c, p) \in Cacheable => p \in mapped'[c]
        /\ \A i \in Positions(c) \ {p} : hit'[c][i] = hit[c][i]
    <3>1. CASE pending' = [pending EXCEPT ![c] = Append(@, p)] /\ UNCHANGED hit
               /\ mapped' = [mapped EXCEPT ![c] = @ \union {p}]
      BY <1>0, <3>1
    <3>2. CASE UNCHANGED <<pending, mapped>>
               /\ \E v : v # None /\ hit' = [hit EXCEPT ![c][p] = v]
      <4>1. PICK v : v # None /\ hit' = [hit EXCEPT ![c][p] = v]
        BY <3>2
      <4>. QED
        BY <1>0, <2>1, <3>2, <4>1
    <3>3. CASE pending' = [pending EXCEPT ![c] = Append(@, p)] /\ UNCHANGED hit
               /\ KeyAt(c, p) \notin Cacheable
               /\ mapped' = [mapped EXCEPT ![c] = @ \union {}]
      BY <1>0, <3>3
    <3>. QED
      BY <2>2, <3>1, <3>2, <3>3
  <2>4. /\ Len(pending[c]) \in Nat
        /\ Len(Append(pending[c], p)) = Len(pending[c]) + 1
        /\ \A j \in 1 .. Len(pending[c]) : Append(pending[c], p)[j] = pending[c][j]
        /\ Append(pending[c], p)[Len(pending[c]) + 1] = p
    BY <1>0, <2>1
  <2>5. ASSUME NEW i \in Positions(c), KeyAt(c, i) \in Cacheable, c \notin Direct,
               hit'[c][i] = None, ~(pc'[c] = "looking" /\ pos'[c] <= i)
        PROVE  /\ i \in mapped'[c]
               /\ \E j \in 1 .. Len(pending'[c]) : pending'[c][j] = i
    <3>1. CASE i = p
      <4>1. pending'[c] = Append(pending[c], p) /\ p \in mapped'[c]
        BY <2>3, <2>5, <3>1
      <4>2. Len(pending[c]) + 1 \in 1 .. Len(pending'[c])
        BY <2>4, <4>1
      <4>. QED
        BY <2>4, <3>1, <4>1, <4>2
    <3>2. CASE i # p
      <4>1. i \in Nat /\ i <= Len(Batch[c]) /\ Len(Batch[c]) \in Nat
        BY BatchTypes DEF Positions
      <4>2. ~(p <= i)
        BY <2>1, <2>5, <3>2, <4>1
      <4>3. PICK j \in 1 .. Len(pending[c]) : i \in mapped[c] /\ pending[c][j] = i
        BY <2>3, <2>5, <3>2, <4>2 DEF Accounted, Sent, p
      <4>4. j \in 1 .. Len(pending'[c]) /\ pending'[c][j] = i
        BY <2>3, <2>4, <4>3
      <4>. QED
        BY <2>3, <4>3, <4>4
    <3>. QED
      BY <3>1, <3>2
  <2>. QED
    BY <2>1, <2>5 DEF Accounted, Sent, ReplyLoses
<1>2. ASSUME NEW c \in Call, ReplyFromCache(c) PROVE Accounted(c)'
  <2>1. /\ reply'[c] = [i \in Positions(c) |->
                           [id |-> IdAt(c, i), value |-> hit[c][i]]]
        /\ UNCHANGED <<hit, pending, mapped>> /\ pc'[c] = "done"
        /\ pc[c] = "sending" /\ pending[c] = <<>>
    BY <1>0, <1>2 DEF ReplyFromCache, Goto
  <2>2. ASSUME NEW i \in Positions(c) PROVE reply'[c][i] # None
    <3>1. hit[c][i] \in Value /\ IdAt(c, i) \in Id
      BY <2>1 DEF TypeInv, TypeOK, Covered, Hit, Value, Id
    <3>2. [id |-> IdAt(c, i), value |-> hit[c][i]] \in [id : Id, value : Value]
      BY <3>1
    <3>. QED
      BY <2>1, <3>2, SlotAssumption
  <2>3. Len(reply'[c]) = Len(Batch[c])
    BY <2>1, BatchTypes DEF Positions
  <2>4. ReplyLoses(c)'
    BY <2>2, <2>3 DEF ReplyLoses, Positions
  <2>. QED
    BY <2>1, <2>4 DEF Accounted, Sent
<1>3. ASSUME NEW c \in Call, Send(c) PROVE Accounted(c)'
  BY <1>0, <1>3, <1>b DEF Send, Goto
<1>4. ASSUME NEW c \in Call, SendFails(c) PROVE Accounted(c)'
  BY <1>0, <1>4, <1>b DEF SendFails, Goto
<1>5. ASSUME NEW c \in Call, Store(c) PROVE Accounted(c)'
  BY <1>0, <1>5, <1>b DEF Store
<1>6. ASSUME NEW c \in Call, Combine(c) PROVE Accounted(c)'
  <2>1. /\ UNCHANGED <<hit, pending, mapped, got>> /\ pc'[c] = "done"
        /\ pc[c] = "storing"
    BY <1>0, <1>6 DEF Combine, Goto
  <2>2. /\ Len(got[c]) \in Nat /\ Len(pending[c]) \in Nat
        /\ Len(got[c]) <= Len(pending[c])
    BY <2>1 DEF TypeInv, TypeOK, Shape
  <2>3. CASE c \in Direct \union Single
    <3>1. reply'[c] = [j \in 1 .. Len(got[c]) |->
                          [id |-> IdAt(c, Asked(c, j)), value |-> got[c][j]]]
      BY <1>0, <1>6, <2>3 DEF Combine
    <3>2. Len(reply'[c]) = Len(got[c])
      BY <2>2, <3>1
    <3>3. ASSUME NEW j \in 1 .. Len(got[c]) PROVE reply'[c][j] # None
      <4>1. got[c][j] \in Value /\ IdAt(c, Asked(c, j)) \in Id
        BY <2>2, ReplyTypes, AskedTypes
      <4>2. [id |-> IdAt(c, Asked(c, j)), value |-> got[c][j]]
               \in [id : Id, value : Value]
        BY <4>1
      <4>. QED
        BY <3>1, <4>2, SlotAssumption
    <3>4. ReplyLoses(c)'
      BY <3>2, <3>3 DEF ReplyLoses
    <3>. QED
      BY <2>1, <3>4 DEF Accounted, Sent
  <2>4. CASE c \notin Direct \union Single
    <3>1. reply'[c] = [i \in Positions(c) |-> Merged(c, i)]
      BY <1>0, <1>6, <2>4 DEF Combine
    <3>2. Len(reply'[c]) = Len(Batch[c])
      BY <3>1, BatchTypes DEF Positions
    <3>3. ASSUME NEW i \in Positions(c), reply'[c][i] = None,
                 KeyAt(c, i) \in Cacheable, hit[c][i] # Null
          PROVE  Len(got[c]) < Len(pending[c])
      BY <2>1, <2>4, <3>1, <3>3, MergedLoses
    <3>4. ReplyLoses(c)'
      BY <2>1, <3>2, <3>3 DEF ReplyLoses, Positions
    <3>. QED
      BY <2>1, <3>4 DEF Accounted, Sent
  <2>. QED
    BY <2>3, <2>4
<1>7. ASSUME UNCHANGED callVars PROVE \A c \in Call : Accounted(c)'
  BY <1>7, <1>a DEF callVars, Keeps
<1>8. ASSUME NEW k \in Cacheable, Age(k) \/ Drop(k) PROVE UNCHANGED callVars
  BY <1>8 DEF Age, Drop
<1>. QED
  BY <1>a, <1>1, <1>2, <1>3, <1>4, <1>5, <1>6, <1>7, <1>8, OthersKeep
     DEF Next, vars

LEMMA AccountedInit == Init => \A c \in Call : Accounted(c)
<1>. SUFFICES ASSUME Init, NEW c \in Call PROVE Accounted(c)
  OBVIOUS
<1>1. CASE c \in Direct
  <2>1. pc[c] = "sending" /\ pending[c] = [i \in Positions(c) |-> i]
    BY <1>1 DEF Init
  <2>2. Len(pending[c]) = Len(Batch[c])
    BY <2>1, BatchTypes DEF Positions
  <2>. QED
    BY <1>1, <2>1, <2>2 DEF Accounted, Sent, ReplyLoses, Positions
<1>2. CASE c \notin Direct
  <2>1. pc[c] = "looking" /\ pos[c] = 1 /\ pending[c] = <<>>
    BY <1>2 DEF Init
  <2>. QED
    BY <2>1, BatchTypes DEF Accounted, Sent, ReplyLoses, Positions
<1>. QED
  BY <1>1, <1>2

\* However entries age, calls overlap and batches repeat an id, a request is
\* left without an answer for one of three reasons: its method is not cached,
\* its cached answer was null, or one error came for the whole batch.
THEOREM LossesAreExplained == Spec => []LossesExplained
<1>1. (\A c \in Call : Accounted(c)) => LossesExplained
  BY DEF Accounted, ReplyLoses, LossesExplained
<1>. QED
  BY <1>1, AccountedInit, TypeInit, TypeStep, AccountedStep, PTL DEF Spec
=============================================================================
