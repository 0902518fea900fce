----------------------------- MODULE BatchCache -----------------------------
(***************************************************************************)
(* agentService.Call: a batch of JSON-RPC requests is split into those the *)
(* Redis cache answers and those sent upstream, the upstream's results are *)
(* stored and the two are put together again.  Several calls share the     *)
(* cache.                                                                  *)
(*                                                                         *)
(* A question is a cache key (chain, method, parameters); an answer to it  *)
(* is the key itself, Null or an error, whoever asks and whenever.  The    *)
(* upstream answers what it was asked; whether in the order it was asked   *)
(* is a parameter, for JSON-RPC leaves it open.                            *)
(***************************************************************************)
EXTENDS Integers, Sequences, FiniteSets

CONSTANTS
    Call,
    Batch,      \* call -> sequence of requests [id, key]
    Direct,     \* calls with "cache=false"
    Single,     \* calls of one request, not in an array
    Key,
    Cacheable,  \* keys of methods with an expiry configured
    Nullable,   \* keys the upstream may answer with null
    Reorders,   \* whether the upstream may reorder a batch's results
    Null, Failed, None

ASSUME CallAssumption ==
    /\ Direct \subseteq Call /\ Single \subseteq Call
    /\ \A c \in Call : /\ Len(Batch[c]) \in Nat \ {0}
                       /\ c \in Single => Len(Batch[c]) = 1
ASSUME KeyAssumption ==
    /\ Cacheable \subseteq Key /\ Nullable \subseteq Key
    /\ \A c \in Call : \A i \in 1 .. Len(Batch[c]) : Batch[c][i].key \in Key
    /\ Null \notin Key /\ Failed \notin Key /\ None \notin Key
    /\ Null # Failed /\ Null # None /\ Failed # None
ASSUME OrderAssumption == Reorders \in BOOLEAN

VARIABLES
    redis,    \* cacheable key -> value of its entry, None if there is none
    fresh,    \* cacheable keys whose entry is within its method's TTL
    pc,       \* where each call is
    pos,      \* the request looked up next, or the result stored next
    hit,      \* call -> position -> Result of results[i]
    pending,  \* call -> positions sent upstream, _jsonrpcs
    mapped,   \* call -> positions entered in mapping, under their ids
    got,      \* call -> values of the upstream's results
    reply     \* call -> position -> [id, value], None for a null

cacheVars == <<redis, fresh>>
callVars  == <<pc, pos, hit, pending, mapped, got, reply>>
vars      == <<cacheVars, callVars>>

Positions(c) == 1 .. Len(Batch[c])
KeyAt(c, i)  == Batch[c][i].key
IdAt(c, i)   == Batch[c][i].id
Goto(c, step) == pc' = [pc EXCEPT ![c] = step]

Init ==
    /\ redis   = [k \in Cacheable |-> None]
    /\ fresh   = {}
    /\ pc      = [c \in Call |-> IF c \in Direct THEN "sending" ELSE "looking"]
    /\ pos     = [c \in Call |-> 1]
    /\ hit     = [c \in Call |-> [i \in Positions(c) |-> None]]
    /\ pending = [c \in Call |-> IF c \in Direct
                                 THEN [i \in Positions(c) |-> i] ELSE <<>>]
    /\ mapped  = [c \in Call |-> {}]
    /\ got     = [c \in Call |-> <<>>]
    /\ reply   = [c \in Call |-> <<>>]

-----------------------------------------------------------------------------
(* Lookups, one request after the other.                                   *)

\* getCache: nothing, or Redis fails (None); the value; or the entry is past
\* its TTL, and a nil value comes back without an error.
Read(k) ==
    {None} \union IF redis[k] = None THEN {}
                  ELSE {IF k \in fresh THEN redis[k] ELSE Null}

\* Mutant: the position in _jsonrpcs is mapped, not the one in the batch.
IndexOfMiss(c, i) == Len(pending[c]) + 1

\* The position a missed request is mapped to.
IndexOf(c, i) == i

Ask(c, i, positions) ==
    /\ pending' = [pending EXCEPT ![c] = Append(@, i)]
    /\ mapped'  = [mapped EXCEPT ![c] = @ \union positions]

\* A method without a configured expiry is sent on, and not mapped.
LookUp(c) ==
    LET i == pos[c]
        k == KeyAt(c, i)
    IN
    /\ pc[c] = "looking" /\ i <= Len(Batch[c])
    /\ \/ /\ k \notin Cacheable
          /\ Ask(c, i, {}) /\ UNCHANGED hit
       \/ /\ k \in Cacheable
          /\ \E v \in Read(k) :
                \/ v = None /\ Ask(c, i, {IndexOf(c, i)}) /\ UNCHANGED hit
                \/ /\ v # None /\ hit' = [hit EXCEPT ![c][i] = v]
                   /\ UNCHANGED <<pending, mapped>>
    /\ pos' = [pos EXCEPT ![c] = i + 1]
    /\ Goto(c, IF i < Len(Batch[c]) THEN "looking" ELSE "sending")
    /\ UNCHANGED <<cacheVars, got, reply>>

\* Every request was a hit.
ReplyFromCache(c) ==
    /\ pc[c] = "sending" /\ pending[c] = <<>>
    /\ reply' = [reply EXCEPT ![c] =
                    [i \in Positions(c) |-> [id |-> IdAt(c, i), value |-> hit[c][i]]]]
    /\ Goto(c, "done")
    /\ UNCHANGED <<cacheVars, pos, hit, pending, mapped, got>>

-----------------------------------------------------------------------------
(* client.Request, and the results stored one after the other.             *)

AnswersTo(k) == {k, Failed} \union IF k \in Nullable THEN {Null} ELSE {}

\* The orders in which n results may come back.
Orders(n) ==
    {p \in [1 .. n -> 1 .. n] :
        IF Reorders THEN \A j, k \in 1 .. n : p[j] = p[k] => j = k
        ELSE \A j \in 1 .. n : p[j] = j}

\* One result for each request, or a single error for all of them.
Results(c) ==
    LET n == Len(pending[c]) IN
    {<<Failed>>} \union
    {g \in [1 .. n -> Key \union {Null, Failed}] :
        \E p \in Orders(n) : \A j \in 1 .. n :
            g[j] \in AnswersTo(KeyAt(c, pending[c][p[j]]))}

\* Results are matched with requests by position: an id that differs is
\* overwritten with the request's own.
Send(c) ==
    /\ pc[c] = "sending" /\ pending[c] # <<>>
    /\ \E g \in Results(c) : got' = [got EXCEPT ![c] = g]
    /\ pos' = [pos EXCEPT ![c] = 1]
    /\ Goto(c, "storing")
    /\ UNCHANGED <<cacheVars, hit, pending, mapped, reply>>

\* The endpoints failed: so does the whole batch, hits included.
SendFails(c) ==
    /\ pc[c] = "sending" /\ pending[c] # <<>>
    /\ Goto(c, "failed")
    /\ UNCHANGED <<cacheVars, pos, hit, pending, mapped, got, reply>>

\* Mutant: results are matched with the batch, not with what was sent.
AskedOfBatch(c, j) == j

\* The position in the batch that result j answers.
Asked(c, j) == pending[c][j]

\* Mutant: an error is stored like any result.
WorthStoring(c, j) == KeyAt(c, Asked(c, j)) \in Cacheable

Storable(c, j) ==
    KeyAt(c, Asked(c, j)) \in Cacheable /\ got[c][j] # Failed

\* setCache, also when the client asked for no cache; Redis may fail.
Store(c) ==
    LET j == pos[c]
        k == KeyAt(c, Asked(c, j))
    IN
    /\ pc[c] = "storing" /\ j <= Len(got[c])
    /\ \/ /\ Storable(c, j)
          /\ redis' = [redis EXCEPT ![k] = got[c][j]]
          /\ fresh' = fresh \union {k}
       \/ UNCHANGED cacheVars
    /\ pos' = [pos EXCEPT ![c] = j + 1]
    /\ UNCHANGED <<pc, hit, pending, mapped, got, reply>>

HasId(c, j, i) == IdAt(c, Asked(c, j)) = IdAt(c, i)

\* The result that is entered at the positions with request i's id: the last
\* one with that id.
Takes(c, i) ==
    {j \in 1 .. Len(got[c]) :
        HasId(c, j, i) /\ \A m \in j + 1 .. Len(got[c]) : ~HasId(c, m, i)}

\* Hits with a value first, then the results over them, where the position
\* is mapped.  The rest of the array is left null.
Merged(c, i) ==
    IF i \in mapped[c] /\ Takes(c, i) # {}
    THEN [id |-> IdAt(c, i), value |-> got[c][CHOOSE j \in Takes(c, i) : TRUE]]
    ELSE IF hit[c][i] \notin {Null, None}
    THEN [id |-> IdAt(c, i), value |-> hit[c][i]]
    ELSE None

\* A call without the cache, or of a single request, replies the results.
Combine(c) ==
    /\ pc[c] = "storing" /\ pos[c] > Len(got[c])
    /\ reply' = [reply EXCEPT ![c] =
          IF c \in Direct \union Single
          THEN [j \in 1 .. Len(got[c]) |->
                  [id |-> IdAt(c, Asked(c, j)), value |-> got[c][j]]]
          ELSE [i \in Positions(c) |-> Merged(c, i)]]
    /\ Goto(c, "done")
    /\ UNCHANGED <<cacheVars, pos, hit, pending, mapped, got>>

-----------------------------------------------------------------------------
(* Entries age.  T is cut to the second, so an entry is past its TTL       *)
(* before Redis, which counts from the Set, drops it.                      *)

Age(k) ==
    /\ redis[k] # None /\ k \in fresh
    /\ fresh' = fresh \ {k}
    /\ UNCHANGED <<redis, callVars>>

Drop(k) ==
    /\ redis[k] # None /\ k \notin fresh
    /\ redis' = [redis EXCEPT ![k] = None]
    /\ UNCHANGED <<fresh, callVars>>

Next ==
    \/ \E c \in Call : \/ LookUp(c) \/ ReplyFromCache(c) \/ Send(c)
                       \/ SendFails(c) \/ Store(c) \/ Combine(c)
    \/ \E k \in Cacheable : Age(k) \/ Drop(k)

Spec == Init /\ [][Next]_vars

-----------------------------------------------------------------------------
(* Properties                                                              *)

Value == Key \union {Null, Failed}
Hit   == Key \union {Null, None}
Id    == UNION {{IdAt(c, i) : i \in Positions(c)} : c \in Call}
Slot  == [id : Id, value : Value] \union {None}

ASSUME SlotAssumption == None \notin [id : Id, value : Value]

Steps == {"looking", "sending", "storing", "done", "failed"}

TypeOK ==
    /\ redis   \in [Cacheable -> Hit]
    /\ fresh   \in SUBSET Cacheable
    /\ pc      \in [Call -> Steps]
    /\ pos     \in [Call -> Nat \ {0}]
    /\ DOMAIN hit = Call
    /\ \A c \in Call : hit[c] \in [Positions(c) -> Hit]
    /\ pending \in [Call -> Seq(Nat)]
    /\ mapped  \in [Call -> SUBSET Nat]
    /\ got     \in [Call -> Seq(Value)]
    /\ reply   \in [Call -> Seq(Slot)]

\* Whatever batches share the cache, an entry holds an answer to its own
\* question, and never an error.
CacheIsTrue ==
    \A k \in Cacheable : redis[k] # None => redis[k] \in {k, Null}

\* What a reply holds at a position has the id of the request there and
\* answers its question, whichever of the batch's other requests were hits.
AnswersFit ==
    \A c \in Call : pc[c] = "done" =>
        \A i \in 1 .. Len(reply[c]) : reply[c][i] # None =>
            /\ reply[c][i].id = IdAt(c, i)
            /\ reply[c][i].value \in {KeyAt(c, i), Null, Failed}

\* A request of an answered batch is left without an answer only if its
\* method is not cached, its cached answer was null, or the upstream gave
\* a single error for the batch.
LossesExplained ==
    \A c \in Call : pc[c] = "done" =>
        \A i \in 1 .. Len(reply[c]) : reply[c][i] = None =>
            \/ KeyAt(c, i) \notin Cacheable
            \/ hit[c][i] = Null
            \/ Len(got[c]) < Len(pending[c])

\* "Combine results from cache and request": when the upstream has answered
\* everything it was asked, every request of the batch has an answer.
EveryQuestionAnswered ==
    \A c \in Call : pc[c] = "done" /\ Len(got[c]) = Len(pending[c]) =>
        \A i \in 1 .. Len(reply[c]) : reply[c][i] # None
=============================================================================
