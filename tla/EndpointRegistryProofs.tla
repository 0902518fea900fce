----------------------- MODULE EndpointRegistryProofs -----------------------
(***************************************************************************)
(* Theorems about EndpointRegistry, for all requests, URLs, chains and     *)
(* sequences of configurations.                                            *)
(***************************************************************************)
EXTENDS EndpointRegistry, TLAPS

LEMMA Configurations ==
    /\ 1 \in Version
    /\ \A v \in Version : v \in Nat /\ (v < MaxVersion => v + 1 \in Version)
  BY VersionAssumption DEF Version

\* A chain's entry comes from a configuration that lists the chain; a client
\* is asked for with an endpoint.
ConfInv ==
    /\ \A c \in Chain : c \in DOMAIN Configured[inForce[c]]
    /\ watcher = "setting" => todo \subseteq DOMAIN Configured[version]
    /\ \A r \in Request :
          pc[r] \in {"asking", "making"} => choice[r] \in Endpoint

TypeInv == TypeOK /\ ConfInv

LEMMA TypeInit == Init => TypeInv
<1>. USE Configurations, VersionAssumption, NoneAssumption DEF Endpoint, Steps
<1>. SUFFICES ASSUME Init PROVE TypeInv
  OBVIOUS
<1>1. /\ version \in Version /\ inForce \in [Chain -> Version]
      /\ watcher = "idle" /\ todo = {} /\ ConfInv
  BY ChainAssumption DEF Init, ConfInv
<1>2. /\ cached \in [Url -> Endpoint \union {None}]
      /\ listed \in [Chain -> [Url -> Nat]]
  BY DEF Init
<1>3. /\ pc \in [Request -> Steps] /\ urls \in [Request -> SUBSET Url]
      /\ found \in [Request -> [Url -> Endpoint \union {None}]]
      /\ choice \in [Request -> Endpoint \union {None}]
      /\ using \in [Request -> Request \union {None}]
  BY DEF Init
<1>4. /\ clients \in [Url -> Request \union {None}] /\ shut = {} /\ made = {}
      /\ purged = {}
      /\ basis \in [Request -> Version \union {0}] /\ late = {}
  BY DEF Init
<1>. QED
  BY <1>1, <1>2, <1>3, <1>4 DEF TypeInv, TypeOK

LEMMA Objects ==
    \A r \in Request, u \in Url :
        <<r, u>> \in Endpoint /\ <<r, u>>[1] = r /\ <<r, u>>[2] = u
  BY DEF Endpoint

\* What Put does to the maps of a cache.
LEMMA StoreCases ==
  ASSUME NEW r \in Request, NEW u \in Url, Store(<<r, u>>)
  PROVE  \/ /\ cached[u] = None
            /\ cached' = [cached EXCEPT ![u] = <<r, u>>]
            /\ listed' = [listed EXCEPT ![ChainOf[r]][u] = @ + 1]
         \/ /\ cached[u] # None /\ cached' = cached
            /\ \/ listed' = listed
               \/ /\ OwnerOf(cached[u]) # ChainOf[r]
                  /\ listed' = [listed EXCEPT ![ChainOf[r]][u] = 0]
<1>1. <<r, u>>[1] = r /\ <<r, u>>[2] = u
  BY Objects
<1>. QED
  BY <1>1 DEF Store, OwnerOf

LEMMA ListedType ==
  ASSUME NEW table \in [Chain -> [Url -> Nat]],
         NEW c \in Chain, NEW u \in Url, NEW n \in Nat
  PROVE  [table EXCEPT ![c][u] = n] \in [Chain -> [Url -> Nat]]
  OBVIOUS

LEMMA StoreTypes ==
  ASSUME TypeInv, NEW r \in Request, NEW u \in Url, Store(<<r, u>>)
  PROVE  cached' \in [Url -> Endpoint \union {None}] /\ listed' \in [Chain -> [Url -> Nat]]
<1>1. /\ cached \in [Url -> Endpoint \union {None}] /\ listed \in [Chain -> [Url -> Nat]]
      /\ <<r, u>> \in Endpoint /\ ChainOf[r] \in Chain
  BY Objects, ChainAssumption DEF TypeInv, TypeOK
<1>2. listed[ChainOf[r]][u] + 1 \in Nat
  BY <1>1
<1>3. cached' = cached \/ cached' = [cached EXCEPT ![u] = <<r, u>>]
  BY StoreCases
<1>4. \/ listed' = listed
      \/ listed' = [listed EXCEPT ![ChainOf[r]][u] = listed[ChainOf[r]][u] + 1]
      \/ listed' = [listed EXCEPT ![ChainOf[r]][u] = 0]
  BY StoreCases
<1>5. cached' \in [Url -> Endpoint \union {None}]
  BY <1>1, <1>3
<1>6. listed' \in [Chain -> [Url -> Nat]]
  <2>1. ASSUME NEW n \in Nat, listed' = [listed EXCEPT ![ChainOf[r]][u] = n]
        PROVE  listed' \in [Chain -> [Url -> Nat]]
    BY <1>1, <2>1, ListedType, Zenon
  <2>. QED
    BY <1>1, <1>2, <1>4, <2>1
<1>. QED
  BY <1>5, <1>6

LEMMA TypeStep == TypeInv /\ [Next]_vars => TypeInv'
<1>. SUFFICES ASSUME TypeInv, [Next]_vars PROVE TypeInv'
  OBVIOUS
<1>. USE Configurations, ChainAssumption, VersionAssumption
     DEF TypeInv, TypeOK, ConfInv, Endpoint, Steps, confVars, cacheVars,
         requestVars, clientVars, histVars
<1>1. ASSUME NEW r \in Request, ReadList(r) PROVE TypeInv'
  BY <1>1 DEF ReadList, Goto, ListOf
<1>2. ASSUME NEW r \in Request, ReadNoList(r) PROVE TypeInv'
  BY <1>2 DEF ReadNoList, Goto
<1>3. ASSUME NEW r \in Request, ReadEndpoints(r) PROVE TypeInv'
  BY <1>3 DEF ReadEndpoints, Goto
<1>4. ASSUME NEW r \in Request, ReadHole(r) PROVE TypeInv'
  BY <1>4 DEF ReadHole, End, Goto
<1>5. ASSUME NEW r \in Request, Load(r) PROVE TypeInv'
  BY <1>5 DEF Load, Goto
<1>6. ASSUME NEW r \in Request, LoadNothing(r) PROVE TypeInv'
  BY <1>6 DEF LoadNothing, End, Goto
<1>7. ASSUME NEW r \in Request, NEW u \in Url, Put(r, u) PROVE TypeInv'
  <2>1. Store(<<r, u>>)
    BY <1>7 DEF Put
  <2>2. cached' \in [Url -> Endpoint \union {None}] /\ listed' \in [Chain -> [Url -> Nat]]
    BY <2>1, StoreTypes
  <2>. QED
    BY <1>7, <2>2 DEF Put, Goto
<1>8. ASSUME NEW r \in Request, NEW u \in Url, Choose(r, u) PROVE TypeInv'
  BY <1>8 DEF Choose, Goto
<1>9. ASSUME NEW r \in Request, UseCached(r) PROVE TypeInv'
  <2>1. choice[r][2] \in Url
    BY <1>9 DEF UseCached
  <2>. QED
    BY <1>9, <2>1 DEF UseCached, Goto
<1>10. ASSUME NEW r \in Request, MissClient(r) PROVE TypeInv'
  BY <1>10 DEF MissClient, Goto
<1>11. ASSUME NEW r \in Request, MakeClient(r) PROVE TypeInv'
  <2>1. choice[r][2] \in Url
    BY <1>11 DEF MakeClient
  <2>2. clients' \in [Url -> Request \union {None}] /\ shut' \in SUBSET Request
    <3>1. \/ clients' = [clients EXCEPT ![choice[r][2]] = r] /\ shut' = shut
          \/ \E v \in Url :
                /\ clients[v] # None
                /\ clients' = [clients EXCEPT ![choice[r][2]] = r, ![v] = None]
                /\ shut' = shut \union {clients[v]}
      BY <1>11 DEF MakeClient, Evict
    <3>2. clients \in [Url -> Request \union {None}] /\ shut \in SUBSET Request
      OBVIOUS
    <3>3. ASSUME NEW v \in Url, clients[v] # None,
                 clients' = [clients EXCEPT ![choice[r][2]] = r, ![v] = None],
                 shut' = shut \union {clients[v]}
          PROVE  clients' \in [Url -> Request \union {None}]
                 /\ shut' \in SUBSET Request
      <4>1. clients[v] \in Request
        BY <3>2, <3>3
      <4>2. [clients EXCEPT ![choice[r][2]] = r] \in [Url -> Request \union {None}]
        BY <2>1, <3>2
      <4>. QED
        BY <3>2, <3>3, <4>1, <4>2
    <3>4. [clients EXCEPT ![choice[r][2]] = r] \in [Url -> Request \union {None}]
      BY <2>1, <3>2
    <3>. QED
      BY <3>1, <3>2, <3>3, <3>4
  <2>3. made' \in SUBSET Request
    BY <1>11 DEF MakeClient
  <2>. QED
    BY <1>11, <2>2, <2>3 DEF MakeClient, Goto
<1>12. ASSUME NEW r \in Request, DialFails(r) PROVE TypeInv'
  BY <1>12 DEF DialFails, End, Goto
<1>13. ASSUME NEW r \in Request, Finish(r) PROVE TypeInv'
  BY <1>13 DEF Finish, End, Goto
<1>14. CASE Receive
  BY <1>14 DEF Receive
<1>15. ASSUME NEW c \in Chain, SetChain(c) PROVE TypeInv'
  BY <1>15 DEF SetChain
<1>16. CASE ListChains
  BY <1>16 DEF ListChains, ListOf, Loaded
<1>17. ASSUME NEW c \in Chain, Purge(c) PROVE TypeInv'
  BY <1>17 DEF Purge, Forget, ListOf, Loaded
<1>18. CASE Purged
  BY <1>18 DEF Purged
<1>19. CASE UNCHANGED vars
  BY <1>19 DEF vars
<1>. QED
  BY <1>1, <1>2, <1>3, <1>4, <1>5, <1>6, <1>7, <1>8, <1>9, <1>10,
     <1>11, <1>12, <1>13, <1>14, <1>15, <1>16, <1>17, <1>18, <1>19
  DEF Next, Watch, RequestStep

\* The state is of its type at every step: Cache's maps hold objects and
\* counts, and only URLs that are configured or provided are ever loaded.
THEOREM TypeCorrect == Spec => []TypeOK
<1>1. TypeInv => TypeOK
  BY DEF TypeInv
<1>. QED
  BY <1>1, TypeInit, TypeStep, PTL DEF Spec

-----------------------------------------------------------------------------
(* The two maps of the cache.                                              *)

\* A request puts, and is handed, objects of its own making or cached ones.
LEMMA IndexStep == TypeInv /\ IndexAgrees /\ [Next]_vars => IndexAgrees'
<1>. SUFFICES ASSUME TypeInv, IndexAgrees, [Next]_vars PROVE IndexAgrees'
  OBVIOUS
<1>. USE ChainAssumption, NoneAssumption
     DEF TypeInv, TypeOK, IndexAgrees, OwnerOf, Endpoint, confVars,
         cacheVars, requestVars, clientVars, histVars
<1>1. ASSUME NEW r \in Request, ReadList(r) PROVE IndexAgrees'
  BY <1>1 DEF ReadList, Goto, ListOf
<1>2. ASSUME NEW r \in Request, ReadNoList(r) PROVE IndexAgrees'
  BY <1>2 DEF ReadNoList, Goto
<1>3. ASSUME NEW r \in Request, ReadEndpoints(r) PROVE IndexAgrees'
  BY <1>3 DEF ReadEndpoints, Goto
<1>4. ASSUME NEW r \in Request, ReadHole(r) PROVE IndexAgrees'
  BY <1>4 DEF ReadHole, End, Goto
<1>5. ASSUME NEW r \in Request, Load(r) PROVE IndexAgrees'
  BY <1>5 DEF Load, Goto
<1>6. ASSUME NEW r \in Request, LoadNothing(r) PROVE IndexAgrees'
  BY <1>6 DEF LoadNothing, End, Goto
<1>7. ASSUME NEW r \in Request, NEW u \in Url, Put(r, u) PROVE IndexAgrees'
  <2>1. Store(<<r, u>>) /\ <<r, u>>[1] = r
    BY <1>7, Objects DEF Put
  <2>2. CASE /\ cached[u] = None
             /\ cached' = [cached EXCEPT ![u] = <<r, u>>]
             /\ listed' = [listed EXCEPT ![ChainOf[r]][u] = @ + 1]
    <3>1. ASSUME NEW c \in Chain, NEW v \in Url
          PROVE  listed'[c][v] = IF c = ChainOf[r] /\ v = u
                                 THEN listed[c][v] + 1 ELSE listed[c][v]
      BY <2>2
    <3>2. ASSUME NEW v \in Url
          PROVE  cached'[v] = IF v = u THEN <<r, u>> ELSE cached[v]
      BY <2>2
    <3>3. listed[ChainOf[r]][u] = 0
      BY <2>2
    <3>4. <<r, u>> # None
      OBVIOUS
    <3>. QED
      BY <2>1, <2>2, <3>1, <3>2, <3>3, <3>4
  <2>3. CASE cached' = cached /\ listed' = listed
    BY <2>3
  <2>4. CASE /\ cached[u] # None /\ cached' = cached
             /\ OwnerOf(cached[u]) # ChainOf[r]
             /\ listed' = [listed EXCEPT ![ChainOf[r]][u] = 0]
    <3>1. ASSUME NEW c \in Chain, NEW v \in Url
          PROVE  listed'[c][v] = listed[c][v]
      <4>1. listed[ChainOf[r]][u] = 0
        BY <2>4
      <4>. QED
        BY <2>4, <4>1
    <3>. QED
      BY <2>4, <3>1
  <2>. QED
    BY <2>1, <2>2, <2>3, <2>4, StoreCases
<1>8. ASSUME NEW r \in Request, NEW u \in Url, Choose(r, u) PROVE IndexAgrees'
  BY <1>8 DEF Choose, Goto
<1>9. ASSUME NEW r \in Request, UseCached(r) PROVE IndexAgrees'
  BY <1>9 DEF UseCached, Goto
<1>10. ASSUME NEW r \in Request, MissClient(r) PROVE IndexAgrees'
  BY <1>10 DEF MissClient, Goto
<1>11. ASSUME NEW r \in Request, MakeClient(r) PROVE IndexAgrees'
  BY <1>11 DEF MakeClient, Goto
<1>12. ASSUME NEW r \in Request, DialFails(r) PROVE IndexAgrees'
  BY <1>12 DEF DialFails, End, Goto
<1>13. ASSUME NEW r \in Request, Finish(r) PROVE IndexAgrees'
  BY <1>13 DEF Finish, End, Goto
<1>14. CASE Receive
  BY <1>14 DEF Receive
<1>15. ASSUME NEW c \in Chain, SetChain(c) PROVE IndexAgrees'
  BY <1>15 DEF SetChain
<1>16. CASE ListChains
  BY <1>16 DEF ListChains, ListOf, Loaded
<1>17. ASSUME NEW c \in Chain, Purge(c) PROVE IndexAgrees'
  BY <1>17 DEF Purge, Forget, ListOf, Loaded
<1>18. CASE Purged
  BY <1>18 DEF Purged
<1>19. CASE UNCHANGED vars
  BY <1>19 DEF vars
<1>. QED
  BY <1>1, <1>2, <1>3, <1>4, <1>5, <1>6, <1>7, <1>8, <1>9, <1>10,
     <1>11, <1>12, <1>13, <1>14, <1>15, <1>16, <1>17, <1>18, <1>19
  DEF Next, Watch, RequestStep

\* The list of every chain and the endpoints agree, whatever requests load
\* and put while the watcher purges.
THEOREM IndexCorrect == Spec => []IndexAgrees
<1>1. Init => IndexAgrees
  BY DEF Init, IndexAgrees
<1>2. Spec => []TypeInv
  BY TypeInit, TypeStep, PTL DEF Spec
<1>. QED
  BY <1>1, <1>2, IndexStep, PTL DEF Spec

-----------------------------------------------------------------------------
(* What GetAll can find missing.                                           *)

LEMMA HolesStep ==
    TypeInv /\ IndexAgrees /\ HolesNeedPurge /\ [Next]_vars
      => HolesNeedPurge'
<1>. SUFFICES ASSUME TypeInv, IndexAgrees, HolesNeedPurge, [Next]_vars
              PROVE  HolesNeedPurge'
  OBVIOUS
<1>. USE ChainAssumption, NoneAssumption
     DEF TypeInv, TypeOK, IndexAgrees, HolesNeedPurge, OwnerOf, Endpoint,
         Steps, confVars, cacheVars, requestVars, clientVars, histVars
<1>1. ASSUME NEW r \in Request, ReadList(r) PROVE HolesNeedPurge'
  BY <1>1 DEF ReadList, Goto, ListOf
<1>2. ASSUME NEW r \in Request, ReadNoList(r) PROVE HolesNeedPurge'
  BY <1>2 DEF ReadNoList, Goto
<1>3. ASSUME NEW r \in Request, ReadEndpoints(r) PROVE HolesNeedPurge'
  BY <1>3 DEF ReadEndpoints, Goto
<1>4. ASSUME NEW r \in Request, ReadHole(r) PROVE HolesNeedPurge'
  BY <1>4 DEF ReadHole, End, Goto
<1>5. ASSUME NEW r \in Request, Load(r) PROVE HolesNeedPurge'
  BY <1>5 DEF Load, Goto
<1>6. ASSUME NEW r \in Request, LoadNothing(r) PROVE HolesNeedPurge'
  BY <1>6 DEF LoadNothing, End, Goto
<1>7. ASSUME NEW r \in Request, NEW u \in Url, Put(r, u) PROVE HolesNeedPurge'
  <2>1. Store(<<r, u>>) /\ <<r, u>>[1] = r
    BY <1>7, Objects DEF Put
  <2>2. \A v \in Url : cached[v] # None => cached'[v] = cached[v]
    BY <2>1, StoreCases
  <2>3. \A q \in Request : pc'[q] = "reading" =>
          pc[q] = "reading" /\ urls'[q] = urls[q]
    BY <1>7 DEF Put, Goto
  <2>. QED
    BY <1>7, <2>2, <2>3 DEF Put
<1>8. ASSUME NEW r \in Request, NEW u \in Url, Choose(r, u) PROVE HolesNeedPurge'
  BY <1>8 DEF Choose, Goto
<1>9. ASSUME NEW r \in Request, UseCached(r) PROVE HolesNeedPurge'
  BY <1>9 DEF UseCached, Goto
<1>10. ASSUME NEW r \in Request, MissClient(r) PROVE HolesNeedPurge'
  BY <1>10 DEF MissClient, Goto
<1>11. ASSUME NEW r \in Request, MakeClient(r) PROVE HolesNeedPurge'
  BY <1>11 DEF MakeClient, Goto
<1>12. ASSUME NEW r \in Request, DialFails(r) PROVE HolesNeedPurge'
  BY <1>12 DEF DialFails, End, Goto
<1>13. ASSUME NEW r \in Request, Finish(r) PROVE HolesNeedPurge'
  BY <1>13 DEF Finish, End, Goto
<1>14. CASE Receive
  BY <1>14 DEF Receive
<1>15. ASSUME NEW c \in Chain, SetChain(c) PROVE HolesNeedPurge'
  BY <1>15 DEF SetChain
<1>16. CASE ListChains
  BY <1>16 DEF ListChains, ListOf, Loaded
<1>17. ASSUME NEW c \in Chain, Purge(c) PROVE HolesNeedPurge'
  <2>. SUFFICES ASSUME NEW r \in Request, pc[r] = "reading",
                       r \notin purged', NEW u \in urls[r]
                PROVE  cached'[u] # None /\ OwnerOf(cached'[u]) = ChainOf[r]
    BY <1>17 DEF Purge
  <2>1. ChainOf[r] # c /\ r \notin purged
    BY <1>17 DEF Purge
  <2>2. cached[u] # None /\ OwnerOf(cached[u]) = ChainOf[r]
    BY <2>1
  <2>3. u \notin ListOf(c)
    BY <2>1, <2>2 DEF ListOf
  <2>. QED
    BY <1>17, <2>2, <2>3 DEF Purge, Forget
<1>18. CASE Purged
  BY <1>18 DEF Purged
<1>19. CASE UNCHANGED vars
  BY <1>19 DEF vars
<1>. QED
  BY <1>1, <1>2, <1>3, <1>4, <1>5, <1>6, <1>7, <1>8, <1>9, <1>10,
     <1>11, <1>12, <1>13, <1>14, <1>15, <1>16, <1>17, <1>18, <1>19
  DEF Next, Watch, RequestStep

\* Unless its chain is purged while it reads, GetAll never hands out a nil
\* endpoint, nor one of another chain.
THEOREM HolesComeFromPurges == Spec => []HolesNeedPurge
<1>1. Init => HolesNeedPurge /\ IndexAgrees
  BY DEF Init, HolesNeedPurge, IndexAgrees
<1>2. Spec => []TypeInv
  BY TypeInit, TypeStep, PTL DEF Spec
<1>. QED
  BY <1>1, <1>2, IndexStep, HolesStep, PTL DEF Spec

-----------------------------------------------------------------------------
(* Where clients report.                                                   *)

Holding == {"putting", "choosing", "asking", "making", "calling"}

\* An object is made for a URL that a configuration, or the provider, gives
\* its chain.
Origin(e) ==
    \E v \in Version :
        /\ OwnerOf(e) \in DOMAIN Configured[v]
        /\ e[2] \in Configured[v][OwnerOf(e)] \union Provided[OwnerOf(e)]

\* Object e is in the cache, or r made it and another was put before it.
SettledIn(table, r, e) ==
    e = table[e[2]] \/ (e = <<r, e[2]>> /\ table[e[2]] # None)

Settled(r, e) == SettledIn(cached, r, e)

CachedInv ==
    \A u \in Url : cached[u] # None => cached[u][2] = u /\ Origin(cached[u])

\* The list in a request's hands, put but for the URLs still to put.
FoundOK(r) ==
    /\ pc[r] = "putting" => \A u \in urls[r] : found[r][u] # None
    /\ \A u \in Url : found[r][u] # None =>
          /\ pc[r] \in Holding
          /\ pc[r] = "putting" => found[r][u] = <<r, u>>
          /\ found[r][u][2] = u /\ Origin(found[r][u])
          /\ r \notin purged =>
                /\ OwnerOf(found[r][u]) = ChainOf[r]
                /\ \/ Shared(u) \/ Settled(r, found[r][u])
                   \/ pc[r] = "putting" /\ u \in urls[r]

FoundInv == \A r \in Request : FoundOK(r)

\* A request that calls or has called reports for good to what it chose.
ReportInv ==
    /\ \A r \in Request : pc[r] \in {"asking", "making"} =>
          choice[r] # None /\ choice[r] = found[r][choice[r][2]]
    /\ \A u \in Url : clients[u] # None =>
          LET q == clients[u] IN
          /\ pc[q] \in {"calling", "done"}
          /\ choice[q] \in Endpoint /\ choice[q][2] = u /\ Origin(choice[q])
          /\ q \notin purged =>
                /\ OwnerOf(choice[q]) = ChainOf[q]
                /\ Shared(u) \/ Settled(q, choice[q])

SeenInv == CachedInv /\ FoundInv /\ ReportInv

LEMMA OneOrigin ==
  ASSUME NEW d \in Endpoint, NEW e \in Endpoint, Origin(d), Origin(e),
         d[2] = e[2], ~Shared(d[2])
  PROVE  OwnerOf(d) = OwnerOf(e)
BY DEF Origin, Shared

LEMMA SettledFacts ==
  ASSUME NEW table, NEW r \in Request
  PROVE  /\ \A u \in Url : table[u] # None => SettledIn(table, r, <<r, u>>)
         /\ \A e \in Endpoint : table[e[2]] = e => SettledIn(table, r, e)
         /\ \A e \in Endpoint : SettledIn(table, r, e) =>
               table[e[2]] # None
BY Objects, NoneAssumption DEF SettledIn, Endpoint

\* A table that keeps the object of a URL leaves what is settled there so.
LEMMA SettledStays ==
  ASSUME NEW table, NEW next, NEW r \in Request, NEW e \in Endpoint,
         next[e[2]] = table[e[2]], SettledIn(table, r, e)
  PROVE  SettledIn(next, r, e)
BY DEF SettledIn

LEMMA FoundFacts ==
  ASSUME TypeInv, FoundInv, NEW r \in Request, NEW u \in Url, found[r][u] # None
  PROVE  /\ found[r][u] \in Endpoint /\ found[r][u][2] = u
         /\ Origin(found[r][u]) /\ pc[r] \in Holding
         /\ r \notin purged =>
               /\ OwnerOf(found[r][u]) = ChainOf[r]
               /\ \/ Shared(u) \/ Settled(r, found[r][u])
                  \/ pc[r] = "putting" /\ u \in urls[r]
BY DEF TypeInv, TypeOK, FoundInv, FoundOK

LEMMA ReportFacts ==
  ASSUME TypeInv, ReportInv, NEW u \in Url, clients[u] # None
  PROVE  LET q == clients[u] IN
         /\ q \in Request /\ pc[q] \in {"calling", "done"}
         /\ choice[q] \in Endpoint /\ choice[q][2] = u /\ Origin(choice[q])
         /\ q \notin purged => /\ OwnerOf(choice[q]) = ChainOf[q]
                               /\ Shared(u) \/ Settled(q, choice[q])
BY DEF TypeInv, TypeOK, ReportInv

LEMMA SeenStep ==
    TypeInv /\ IndexAgrees /\ HolesNeedPurge /\ SeenInv /\ [Next]_vars
      => SeenInv'
<1>. SUFFICES ASSUME TypeInv, IndexAgrees, HolesNeedPurge, SeenInv, [Next]_vars
              PROVE  SeenInv'
  OBVIOUS
<1>. USE ChainAssumption, NoneAssumption
     DEF TypeInv, TypeOK, SeenInv, CachedInv, FoundOK, FoundInv, ReportInv,
         Holding, Settled, Steps, confVars, cacheVars, requestVars,
         clientVars, histVars
<1>1. ASSUME NEW r \in Request, ReadList(r) PROVE SeenInv'
  BY <1>1 DEF ReadList, Goto, ListOf
<1>2. ASSUME NEW r \in Request, ReadNoList(r) PROVE SeenInv'
  BY <1>2 DEF ReadNoList, Goto
<1>3. ASSUME NEW r \in Request, ReadEndpoints(r) PROVE SeenInv'
  <2>1. /\ pc[r] = "reading" /\ pc' = [pc EXCEPT ![r] = "choosing"]
        /\ UNCHANGED <<cached, urls, choice, clients, purged>>
        /\ found' = [found EXCEPT ![r] =
               [u \in Url |-> IF u \in urls[r] THEN cached[u] ELSE None]]
    BY <1>3 DEF ReadEndpoints, Goto
  <2>2. CachedInv'
    BY <2>1
  <2>3. ASSUME NEW u \in Url, found'[r][u] # None
        PROVE  /\ u \in urls[r] /\ found'[r][u] = cached[u]
               /\ cached[u] \in Endpoint /\ cached[u][2] = u
               /\ Origin(cached[u]) /\ SettledIn(cached, r, cached[u])
    <3>1. u \in urls[r] /\ found'[r][u] = cached[u] /\ cached[u] # None
      BY <2>1, <2>3
    <3>2. cached[u] \in Endpoint /\ cached[u][2] = u /\ Origin(cached[u])
      BY <3>1
    <3>. QED
      BY <3>1, <3>2, SettledFacts
  <2>4. FoundOK(r)'
    BY <2>1, <2>3 DEF HolesNeedPurge
  <2>5. \A q \in Request : q # r =>
          pc'[q] = pc[q] /\ urls'[q] = urls[q] /\ found'[q] = found[q]
    BY <2>1
  <2>6. FoundInv'
    <3>. SUFFICES ASSUME NEW q \in Request PROVE FoundOK(q)'
      BY Zenon DEF FoundInv
    <3>1. CASE q = r
      BY Zenon, <2>4, <3>1
    <3>2. CASE q # r
      BY <2>1, <2>5, <3>2
    <3>. QED
      BY <3>1, <3>2
  <2>7. ReportInv'
    BY <2>1, <2>5
  <2>. QED
    BY <2>2, <2>6, <2>7
<1>4. ASSUME NEW r \in Request, ReadHole(r) PROVE SeenInv'
  BY <1>4 DEF ReadHole, End, Goto
<1>5. ASSUME NEW r \in Request, Load(r) PROVE SeenInv'
  <2>. DEFINE c == ChainOf[r]
  <2>1. PICK provided \in {{}, Provided[c]} :
          /\ urls'  = [urls EXCEPT ![r] =
                          Configured[inForce[c]][c] \union provided]
          /\ found' = [found EXCEPT ![r] =
                [u \in Url |-> IF u \in Configured[inForce[c]][c] \union provided
                              THEN <<r, u>> ELSE None]]
    BY ONLY <1>5 DEF Load
  <2>. DEFINE us == Configured[inForce[c]][c] \union provided
  <2>2. us \subseteq Url /\ c \in Chain /\ inForce[c] \in Version
    BY <2>1, VersionAssumption DEF ConfInv
  <2>3. \A u \in us : Origin(<<r, u>>) /\ <<r, u>> # None /\ OwnerOf(<<r, u>>) = c
    BY <2>1, <2>2, Objects DEF ConfInv, Origin, OwnerOf
  <2>4. /\ pc[r] = "loading" /\ pc' = [pc EXCEPT ![r] = "putting"]
        /\ UNCHANGED <<cached, clients, choice, purged>>
    BY <1>5 DEF Load, Goto
  <2>5. FoundInv'
    <3>. SUFFICES ASSUME NEW q \in Request PROVE FoundOK(q)'
      BY Zenon DEF FoundInv
    <3>1. CASE q = r
      <4>1. /\ urls'[r] = us /\ pc'[r] = "putting"
            /\ \A u \in Url : found'[r][u] = IF u \in us THEN <<r, u>> ELSE None
        BY <2>1, <2>4
      <4>2. \A u \in Url : found'[r][u] # None =>
              u \in us /\ found'[r][u] = <<r, u>> /\ <<r, u>>[2] = u
        BY <4>1, Objects
      <4>3. \A u \in urls'[r] : found'[r][u] # None
        BY ONLY <4>1, <2>2, <2>3
      <4>4. ASSUME NEW u \in Url, found'[r][u] # None
            PROVE  /\ found'[r][u][2] = u /\ Origin(found'[r][u])
                   /\ OwnerOf(found'[r][u]) = ChainOf[r] /\ u \in urls'[r]
                   /\ found'[r][u] = <<r, u>>
        <5>1. u \in us /\ found'[r][u] = <<r, u>> /\ <<r, u>>[2] = u
          BY ONLY <4>2, <4>4
        <5>2. Origin(<<r, u>>) /\ OwnerOf(<<r, u>>) = c
          BY ONLY <2>3, <5>1
        <5>. QED
          BY ONLY <4>1, <5>1, <5>2
      <4>. QED
        BY ONLY <3>1, <4>1, <4>3, <4>4 DEF FoundOK, Holding
    <3>2. CASE q # r
      <4>1. urls'[q] = urls[q] /\ pc'[q] = pc[q] /\ found'[q] = found[q]
        BY <2>1, <2>4, <3>2
      <4>. QED
        BY <4>1, <2>4
    <3>. QED
      BY <3>1, <3>2
  <2>6. CachedInv'
    BY <2>4
  <2>7. ReportInv'
    <3>1. \A q \in Request : pc[q] \in {"asking", "making", "calling", "done"} =>
            q # r /\ found'[q] = found[q]
      BY <2>1, <2>4
    <3>. QED
      BY <2>4, <3>1
  <2>. QED
    BY <2>5, <2>6, <2>7
<1>6. ASSUME NEW r \in Request, LoadNothing(r) PROVE SeenInv'
  BY <1>6 DEF LoadNothing, End, Goto
<1>7. ASSUME NEW r \in Request, NEW u \in Url, Put(r, u) PROVE SeenInv'
  <2>1. /\ Store(<<r, u>>) /\ pc[r] = "putting" /\ u \in urls[r]
        /\ urls' = [urls EXCEPT ![r] = @ \ {u}]
        /\ UNCHANGED <<found, choice, clients, purged>>
        /\ \A q \in Request : q # r => pc'[q] = pc[q]
        /\ pc'[r] \in {"putting", "choosing"}
        /\ pc'[r] = "choosing" => urls[r] = {u}
    BY <1>7 DEF Put, Goto
  <2>2. found[r][u] = <<r, u>> /\ Origin(<<r, u>>) /\ <<r, u>>[2] = u
    <3>1. found[r][u] # None
      BY <2>1
    <3>2. found[r][u] = <<r, u>> /\ Origin(found[r][u])
      BY <2>1, <3>1
    <3>. QED
      BY <3>2, Objects
  <2>3. /\ cached' \in [Url -> Endpoint \union {None}]
        /\ \A v \in Url : cached[v] # None => cached'[v] = cached[v]
        /\ cached'[u] # None
        /\ \A v \in Url : cached'[v] = cached[v] \/ (v = u /\ cached'[v] = <<r, u>>)
    BY <2>1, StoreCases, StoreTypes
  <2>4. ASSUME NEW q \in Request, NEW e \in Endpoint, SettledIn(cached, q, e)
        PROVE  SettledIn(cached', q, e)
    <3>1. cached[e[2]] # None /\ e[2] \in Url
      BY <2>4, SettledFacts DEF Endpoint
    <3>2. cached'[e[2]] = cached[e[2]]
      BY <2>3, <3>1
    <3>. QED
      BY <2>4, <3>2, SettledStays
  <2>5. SettledIn(cached', r, <<r, u>>)
    BY ONLY <2>2, <2>3 DEF SettledIn
  <2>6. CachedInv'
    <3>. SUFFICES ASSUME NEW v \in Url, cached'[v] # None
                  PROVE  cached'[v][2] = v /\ Origin(cached'[v])
      OBVIOUS
    <3>1. CASE cached'[v] = cached[v]
      BY <3>1
    <3>2. CASE v = u /\ cached'[v] = <<r, u>>
      BY ONLY <2>2, <3>2
    <3>. QED
      BY <2>3, <3>1, <3>2
  <2>7. ASSUME NEW q \in Request, NEW v \in Url, found[q][v] # None
        PROVE  /\ pc'[q] \in Holding
               /\ pc'[q] = "putting" => found[q][v] = <<q, v>>
               /\ q \notin purged =>
                     \/ Shared(v) \/ SettledIn(cached', q, found[q][v])
                     \/ pc'[q] = "putting" /\ v \in urls'[q]
    <3>1. found[q][v] \in Endpoint
      BY <2>7
    <3>2. SettledIn(cached, q, found[q][v]) => SettledIn(cached', q, found[q][v])
      BY <2>4, <3>1
    <3>3. CASE q = r /\ v = u
      <4>1. found[q][v] = <<r, u>> /\ SettledIn(cached', q, found[q][v])
        BY ONLY <2>2, <2>5, <3>3
      <4>. QED
        BY <2>1, <3>3, <4>1
    <3>4. CASE q = r /\ v # u
      <4>1. v \in urls[r] => v \in urls'[r] /\ pc'[r] = "putting"
        BY <2>1, <3>4
      <4>2. \/ r \in purged \/ Shared(v) \/ SettledIn(cached, r, found[r][v])
            \/ v \in urls[r]
        BY <2>7, <3>4
      <4>3. found[r][v] = <<r, v>>
        BY <2>1, <2>7, <3>4
      <4>. QED
        BY <2>1, <3>2, <3>4, <4>1, <4>2, <4>3
    <3>5. CASE q # r
      BY <2>1, <2>7, <3>2, <3>5
    <3>. QED
      BY <3>3, <3>4, <3>5
  <2>8. \A q \in Request : pc'[q] = "putting" =>
          \A v \in urls'[q] : found[q][v] # None
    BY <2>1
  <2>9. FoundInv'
    BY <2>1, <2>7, <2>8
  <2>10. ReportInv'
    <3>1. \A q \in Request : pc'[q] \in {"asking", "making"} => pc[q] = pc'[q]
      BY <2>1
    <3>2. \A q \in Request : pc[q] \in {"calling", "done"} => pc'[q] = pc[q]
      BY <2>1
    <3>. QED
      BY <2>1, <2>4, <3>1, <3>2
  <2>. QED
    BY <2>6, <2>9, <2>10
<1>8. ASSUME NEW r \in Request, NEW u \in Url, Choose(r, u) PROVE SeenInv'
  BY <1>8 DEF Choose, Goto
<1>9. ASSUME NEW r \in Request, UseCached(r) PROVE SeenInv'
  BY <1>9 DEF UseCached, Goto
<1>10. ASSUME NEW r \in Request, MissClient(r) PROVE SeenInv'
  BY <1>10 DEF MissClient, Goto
<1>11. ASSUME NEW r \in Request, MakeClient(r) PROVE SeenInv'
  <2>. DEFINE w == choice[r][2]
  <2>1. /\ pc[r] = "making" /\ pc' = [pc EXCEPT ![r] = "calling"]
        /\ UNCHANGED <<cached, choice, found, urls, purged>>
        /\ \A v \in Url : clients'[v] # None =>
              (v = w /\ clients'[v] = r) \/ clients'[v] = clients[v]
    BY <1>11 DEF MakeClient, Goto
  <2>2. choice[r] \in Endpoint /\ choice[r] = found[r][w] /\ w \in Url
    <3>1. choice[r] # None /\ choice[r] = found[r][w]
      BY ONLY ReportInv, <2>1 DEF ReportInv
    <3>. QED
      BY <3>1 DEF Endpoint
  <2>3. /\ Origin(choice[r])
        /\ r \notin purged => /\ OwnerOf(choice[r]) = ChainOf[r]
                              /\ Shared(w) \/ Settled(r, choice[r])
    <3>1. found[r][w] # None
      BY <2>2 DEF Endpoint
    <3>. QED
      BY ONLY TypeInv, FoundInv, <2>1, <2>2, <3>1, FoundFacts
  <2>4. CachedInv' /\ FoundInv'
    BY <2>1
  <2>5. ReportInv'
    <3>1. ASSUME NEW v \in Url, clients'[v] # None
          PROVE  LET q == clients'[v] IN
                 /\ pc'[q] \in {"calling", "done"}
                 /\ choice[q] \in Endpoint /\ choice[q][2] = v
                 /\ Origin(choice[q])
                 /\ q \notin purged =>
                       /\ OwnerOf(choice[q]) = ChainOf[q]
                       /\ Shared(v) \/ Settled(q, choice[q])
      <4>1. CASE v = w /\ clients'[v] = r
        BY <2>1, <2>2, <2>3, <4>1
      <4>2. CASE clients'[v] = clients[v]
        BY <2>1, <3>1, <4>2
      <4>. QED
        BY <2>1, <3>1, <4>1, <4>2
    <3>2. \A q \in Request : pc'[q] \in {"asking", "making"} => pc[q] = pc'[q]
      BY <2>1
    <3>. QED
      BY <2>1, <3>1, <3>2
  <2>. QED
    BY <2>4, <2>5
<1>12. ASSUME NEW r \in Request, DialFails(r) PROVE SeenInv'
  BY <1>12 DEF DialFails, End, Goto
<1>13. ASSUME NEW r \in Request, Finish(r) PROVE SeenInv'
  BY <1>13 DEF Finish, End, Goto
<1>14. CASE Receive
  BY <1>14 DEF Receive
<1>15. ASSUME NEW c \in Chain, SetChain(c) PROVE SeenInv'
  BY <1>15 DEF SetChain
<1>16. CASE ListChains
  BY <1>16 DEF ListChains
<1>17. ASSUME NEW c \in Chain, Purge(c) PROVE SeenInv'
  <2>1. /\ Forget(c) /\ UNCHANGED <<pc, urls, found, choice, clients>>
        /\ purged' = purged \union
             {r \in Request : ChainOf[r] = c /\ pc[r] \notin {"idle", "loading"}}
    BY <1>17 DEF Purge
  <2>2. /\ \A v \in Url : cached'[v] = cached[v] \/ cached'[v] = None
        /\ \A v \in Url : cached[v] # None /\ cached'[v] = None =>
              OwnerOf(cached[v]) = c
    BY <2>1 DEF Forget, ListOf, IndexAgrees
  <2>3. CachedInv'
    BY <2>2
  <2>4. ASSUME NEW r \in Request, NEW e \in Endpoint, r \notin purged',
               pc[r] \notin {"idle", "loading"}, OwnerOf(e) = ChainOf[r],
               Origin(e), ~Shared(e[2]), SettledIn(cached, r, e)
        PROVE  SettledIn(cached', r, e)
    <3>1. ChainOf[r] # c
      BY <2>1, <2>4
    <3>2. cached[e[2]] # None /\ cached[e[2]] \in Endpoint /\ e[2] \in Url
      BY <2>4, SettledFacts DEF Endpoint
    <3>3. cached[e[2]][2] = e[2] /\ Origin(cached[e[2]])
      BY <3>2
    <3>4. OwnerOf(e) = OwnerOf(cached[e[2]])
      BY <2>4, <3>2, <3>3, OneOrigin
    <3>5. cached'[e[2]] = cached[e[2]]
      BY <2>2, <2>4, <3>1, <3>2, <3>4
    <3>. QED
      BY <2>4, <3>5, SettledStays
  <2>5. FoundInv'
    <3>1. ASSUME NEW r \in Request, NEW u \in Url, found[r][u] # None,
                 r \notin purged'
          PROVE  /\ OwnerOf(found[r][u]) = ChainOf[r]
                 /\ \/ Shared(u) \/ SettledIn(cached', r, found[r][u])
                    \/ pc[r] = "putting" /\ u \in urls[r]
      <4>1. /\ found[r][u] \in Endpoint /\ found[r][u][2] = u
            /\ Origin(found[r][u]) /\ pc[r] \notin {"idle", "loading"}
            /\ OwnerOf(found[r][u]) = ChainOf[r]
            /\ \/ Shared(u) \/ SettledIn(cached, r, found[r][u])
               \/ pc[r] = "putting" /\ u \in urls[r]
        BY ONLY TypeInv, FoundInv, <2>1, <3>1, FoundFacts DEF Holding, Settled
      <4>. QED
        BY ONLY <4>1, <3>1, <2>4
    <3>. QED
      BY <2>1, <3>1
  <2>6. ReportInv'
    <3>1. ASSUME NEW u \in Url, clients[u] # None, clients[u] \notin purged'
          PROVE  LET q == clients[u] IN
                 /\ OwnerOf(choice[q]) = ChainOf[q]
                 /\ Shared(u) \/ SettledIn(cached', q, choice[q])
      <4>. DEFINE q == clients[u]
      <4>1. /\ q \in Request /\ choice[q] \in Endpoint /\ choice[q][2] = u
            /\ Origin(choice[q]) /\ pc[q] \notin {"idle", "loading"}
            /\ OwnerOf(choice[q]) = ChainOf[q]
            /\ Shared(u) \/ SettledIn(cached, q, choice[q])
        BY ONLY TypeInv, ReportInv, <2>1, <3>1, ReportFacts DEF Settled
      <4>. QED
        BY ONLY <4>1, <3>1, <2>4
    <3>. QED
      BY <2>1, <3>1
  <2>. QED
    BY <2>3, <2>5, <2>6
<1>18. CASE Purged
  BY <1>18 DEF Purged
<1>19. CASE UNCHANGED vars
  BY <1>19 DEF vars
<1>. QED
  BY <1>1, <1>2, <1>3, <1>4, <1>5, <1>6, <1>7, <1>8, <1>9, <1>10,
     <1>11, <1>12, <1>13, <1>14, <1>15, <1>16, <1>17, <1>18, <1>19
  DEF Next, Watch, RequestStep

\* For URLs of one chain only: a client reports to the cached object unless
\* its chain was purged meanwhile, or its maker lost a race to put it.
THEOREM ReportsReachCache == Spec => []ReportsAreSeen
<1>1. Init => SeenInv /\ HolesNeedPurge /\ IndexAgrees
  BY DEF Init, SeenInv, CachedInv, FoundOK, FoundInv, ReportInv,
         HolesNeedPurge, IndexAgrees
<1>2. Spec => []TypeInv
  BY TypeInit, TypeStep, PTL DEF Spec
<1>3. SeenInv => ReportsAreSeen
  BY SettledFacts DEF SeenInv, ReportInv, ReportsAreSeen, Settled, SettledIn
<1>. QED
  BY <1>1, <1>2, <1>3, IndexStep, HolesStep, SeenStep, PTL DEF Spec

-----------------------------------------------------------------------------
(* Configurations and the cache.                                           *)

\* The request loaded the configuration in force for its chain, or had
\* loaded and not put when a purge began or its chain was purged.
Fresh(r) == basis[r] = inForce[ChainOf[r]] \/ r \in late

\* While no configuration is being set, what waits to be put is fresh, and
\* what is cached too, save in the chains that a purge has still to cover.
StaleInv ==
    watcher # "setting" =>
        /\ \A r \in Request : pc[r] = "putting" => Fresh(r)
        /\ \A u \in Url : cached[u] # None =>
              \/ Fresh(cached[u][1])
              \/ watcher = "purging" /\ OwnerOf(cached[u]) \in todo

LEMMA StaleStep ==
    TypeInv /\ IndexAgrees /\ StaleInv /\ [Next]_vars => StaleInv'
<1>. SUFFICES ASSUME TypeInv, IndexAgrees, StaleInv, [Next]_vars PROVE StaleInv'
  OBVIOUS
<1>. USE ChainAssumption, NoneAssumption
     DEF TypeInv, TypeOK, StaleInv, Fresh, OwnerOf, Endpoint, Steps, confVars,
         cacheVars, requestVars, clientVars, histVars
<1>1. ASSUME NEW r \in Request, ReadList(r) PROVE StaleInv'
  BY <1>1 DEF ReadList, Goto, ListOf
<1>2. ASSUME NEW r \in Request, ReadNoList(r) PROVE StaleInv'
  BY <1>2 DEF ReadNoList, Goto
<1>3. ASSUME NEW r \in Request, ReadEndpoints(r) PROVE StaleInv'
  BY <1>3 DEF ReadEndpoints, Goto
<1>4. ASSUME NEW r \in Request, ReadHole(r) PROVE StaleInv'
  BY <1>4 DEF ReadHole, End, Goto
<1>5. ASSUME NEW r \in Request, Load(r) PROVE StaleInv'
  <2>1. /\ pc[r] = "loading" /\ pc' = [pc EXCEPT ![r] = "putting"]
        /\ basis' = [basis EXCEPT ![r] = inForce[ChainOf[r]]]
        /\ UNCHANGED <<watcher, todo, inForce, cached, late>>
    BY <1>5 DEF Load, Goto
  <2>2. \A q \in Request : Fresh(q)' <=> Fresh(q) \/ q = r
    BY <2>1
  <2>. QED
    BY <2>1, <2>2
<1>6. ASSUME NEW r \in Request, LoadNothing(r) PROVE StaleInv'
  BY <1>6 DEF LoadNothing, End, Goto
<1>7. ASSUME NEW r \in Request, NEW u \in Url, Put(r, u) PROVE StaleInv'
  <2>1. /\ pc[r] = "putting" /\ Store(<<r, u>>)
        /\ \A q \in Request : pc'[q] = "putting" => pc[q] = "putting"
        /\ UNCHANGED <<watcher, todo, inForce, basis, late>>
    BY <1>7 DEF Put, Goto
  <2>2. \A v \in Url : cached'[v] = cached[v] \/ cached'[v] = <<r, u>>
    BY <2>1, StoreCases
  <2>3. <<r, u>>[1] = r
    BY Objects
  <2>. QED
    BY <2>1, <2>2, <2>3
<1>8. ASSUME NEW r \in Request, NEW u \in Url, Choose(r, u) PROVE StaleInv'
  BY <1>8 DEF Choose, Goto
<1>9. ASSUME NEW r \in Request, UseCached(r) PROVE StaleInv'
  BY <1>9 DEF UseCached, Goto
<1>10. ASSUME NEW r \in Request, MissClient(r) PROVE StaleInv'
  BY <1>10 DEF MissClient, Goto
<1>11. ASSUME NEW r \in Request, MakeClient(r) PROVE StaleInv'
  BY <1>11 DEF MakeClient, Goto
<1>12. ASSUME NEW r \in Request, DialFails(r) PROVE StaleInv'
  BY <1>12 DEF DialFails, End, Goto
<1>13. ASSUME NEW r \in Request, Finish(r) PROVE StaleInv'
  BY <1>13 DEF Finish, End, Goto
<1>14. CASE Receive
  BY <1>14 DEF Receive
<1>15. ASSUME NEW c \in Chain, SetChain(c) PROVE StaleInv'
  BY <1>15 DEF SetChain
<1>16. CASE ListChains
  <2>1. /\ watcher' = "purging" /\ todo' = {c \in Chain : ListOf(c) # {}}
        /\ late' = late \union UNION {Loaded(c) : c \in Chain}
        /\ UNCHANGED <<inForce, cached, pc, basis>>
    BY <1>16 DEF ListChains
  <2>2. ASSUME NEW u \in Url, cached[u] # None
        PROVE  OwnerOf(cached[u]) \in todo'
    <3>1. OwnerOf(cached[u]) \in Chain /\ listed[OwnerOf(cached[u])][u] = 1
      BY <2>2 DEF IndexAgrees
    <3>. QED
      BY <2>1, <3>1 DEF ListOf
  <2>3. \A r \in Request : pc[r] = "putting" => r \in late'
    BY <2>1 DEF Loaded
  <2>. QED
    BY <2>1, <2>2, <2>3
<1>17. ASSUME NEW c \in Chain, Purge(c) PROVE StaleInv'
  <2>1. /\ watcher = "purging" /\ Forget(c) /\ todo' = todo \ {c}
        /\ late \subseteq late'
        /\ UNCHANGED <<inForce, watcher, pc, basis>>
    BY <1>17 DEF Purge
  <2>2. /\ \A v \in Url : cached'[v] = cached[v] \/ cached'[v] = None
        /\ \A v \in Url : cached'[v] # None => OwnerOf(cached[v]) # c
    BY <2>1 DEF Forget, ListOf, IndexAgrees
  <2>. QED
    BY <2>1, <2>2
<1>18. CASE Purged
  BY <1>18 DEF Purged
<1>19. CASE UNCHANGED vars
  BY <1>19 DEF vars
<1>. QED
  BY <1>1, <1>2, <1>3, <1>4, <1>5, <1>6, <1>7, <1>8, <1>9, <1>10,
     <1>11, <1>12, <1>13, <1>14, <1>15, <1>16, <1>17, <1>18, <1>19
  DEF Next, Watch, RequestStep

\* After a reload, a cached endpoint older than the configuration in force
\* was put by a request that had loaded before the purge.
THEOREM StaleComesFromLate == Spec => []StaleNeedsLateLoader
<1>1. Init => StaleInv /\ IndexAgrees
  BY DEF Init, StaleInv, IndexAgrees
<1>2. Spec => []TypeInv
  BY TypeInit, TypeStep, PTL DEF Spec
<1>3. StaleInv => StaleNeedsLateLoader
  BY DEF StaleInv, Fresh, StaleNeedsLateLoader
<1>. QED
  BY <1>1, <1>2, <1>3, IndexStep, StaleStep, PTL DEF Spec

-----------------------------------------------------------------------------
(* Clients and the LRU.                                                    *)

\* A client was made for the URL its maker chose, and is where the LRU has
\* that URL, unless it was closed or a second one was made for the URL.
ClientInv ==
    /\ \A r \in made :
          pc[r] \in {"calling", "done"} /\ choice[r] \in Endpoint
    /\ \A u \in Url : clients[u] # None =>
          clients[u] \in made /\ choice[clients[u]][2] = u
    /\ ClientsAreClosed

\* A step that leaves the LRU and the makers' choices alone.
LEMMA ClientKept ==
  ASSUME TypeInv, ClientInv, UNCHANGED clientVars,
         \A r \in made : choice'[r] = choice[r] /\ pc'[r] \in {"calling", "done"}
  PROVE  ClientInv'
<1>1. clients' = clients /\ shut' = shut /\ made' = made
  BY DEF clientVars
<1>2. \A q \in made : pc'[q] \in {"calling", "done"} /\ choice'[q] \in Endpoint
  BY DEF ClientInv
<1>3. \A u \in Url : clients[u] # None =>
        clients[u] \in made /\ choice'[clients[u]][2] = u
  BY DEF ClientInv
<1>4. ClientsAreClosed'
  BY <1>1 DEF ClientInv, ClientsAreClosed
<1>. QED
  BY <1>1, <1>2, <1>3, <1>4 DEF ClientInv

LEMMA ClientStep == TypeInv /\ ClientInv /\ [Next]_vars => ClientInv'
<1>. SUFFICES ASSUME TypeInv, ClientInv, [Next]_vars PROVE ClientInv'
  OBVIOUS
<1>. USE NoneAssumption
     DEF TypeInv, TypeOK, ClientInv, ClientsAreClosed, Endpoint, Steps,
         confVars, cacheVars, requestVars, clientVars, histVars
<1>1. ASSUME NEW r \in Request, ReadList(r) PROVE ClientInv'
  <2>1. /\ UNCHANGED clientVars
        /\ \A q \in made : choice'[q] = choice[q] /\ pc'[q] \in {"calling", "done"}
    BY <1>1 DEF ReadList, Goto, ListOf
  <2>. QED
    BY <2>1, ClientKept
<1>2. ASSUME NEW r \in Request, ReadNoList(r) PROVE ClientInv'
  <2>1. /\ UNCHANGED clientVars
        /\ \A q \in made : choice'[q] = choice[q] /\ pc'[q] \in {"calling", "done"}
    BY <1>2 DEF ReadNoList, Goto
  <2>. QED
    BY <2>1, ClientKept
<1>3. ASSUME NEW r \in Request, ReadEndpoints(r) PROVE ClientInv'
  <2>1. /\ UNCHANGED clientVars
        /\ \A q \in made : choice'[q] = choice[q] /\ pc'[q] \in {"calling", "done"}
    BY <1>3 DEF ReadEndpoints, Goto
  <2>. QED
    BY <2>1, ClientKept
<1>4. ASSUME NEW r \in Request, ReadHole(r) PROVE ClientInv'
  <2>1. /\ UNCHANGED clientVars
        /\ \A q \in made : choice'[q] = choice[q] /\ pc'[q] \in {"calling", "done"}
    BY <1>4 DEF ReadHole, End, Goto
  <2>. QED
    BY <2>1, ClientKept
<1>5. ASSUME NEW r \in Request, Load(r) PROVE ClientInv'
  <2>1. /\ UNCHANGED clientVars
        /\ \A q \in made : choice'[q] = choice[q] /\ pc'[q] \in {"calling", "done"}
    BY <1>5 DEF Load, Goto
  <2>. QED
    BY <2>1, ClientKept
<1>6. ASSUME NEW r \in Request, LoadNothing(r) PROVE ClientInv'
  <2>1. /\ UNCHANGED clientVars
        /\ \A q \in made : choice'[q] = choice[q] /\ pc'[q] \in {"calling", "done"}
    BY <1>6 DEF LoadNothing, End, Goto
  <2>. QED
    BY <2>1, ClientKept
<1>7. ASSUME NEW r \in Request, NEW u \in Url, Put(r, u) PROVE ClientInv'
  <2>1. /\ UNCHANGED clientVars
        /\ \A q \in made : choice'[q] = choice[q] /\ pc'[q] \in {"calling", "done"}
    BY <1>7 DEF Put, Goto
  <2>. QED
    BY <2>1, ClientKept
<1>8. ASSUME NEW r \in Request, NEW u \in Url, Choose(r, u) PROVE ClientInv'
  <2>1. /\ UNCHANGED clientVars
        /\ \A q \in made : choice'[q] = choice[q] /\ pc'[q] \in {"calling", "done"}
    BY <1>8 DEF Choose, Goto
  <2>. QED
    BY <2>1, ClientKept
<1>9. ASSUME NEW r \in Request, UseCached(r) PROVE ClientInv'
  BY <1>9 DEF UseCached, Goto
<1>10. ASSUME NEW r \in Request, MissClient(r) PROVE ClientInv'
  BY <1>10 DEF MissClient, Goto
<1>11. ASSUME NEW r \in Request, MakeClient(r) PROVE ClientInv'
  <2>. DEFINE w == choice[r][2]
  <2>1. /\ pc[r] = "making" /\ pc' = [pc EXCEPT ![r] = "calling"]
        /\ made' = made \union {r} /\ UNCHANGED choice
        /\ choice[r] \in Endpoint /\ w \in Url /\ r \notin made
    <3>1. pc[r] = "making" /\ choice[r] \in Endpoint
      BY <1>11 DEF MakeClient, ConfInv
    <3>. QED
      BY <1>11, <3>1 DEF MakeClient, Goto
  <2>2. /\ \A q \in made' : pc'[q] \in {"calling", "done"} /\ choice'[q] \in Endpoint
        /\ \A q \in made : q \in made' /\ q # r /\ choice'[q] = choice[q]
    BY <2>1
  <2>3. ASSUME clients' \in [Url -> Request \union {None}],
               \A u \in Url :
                 \/ u = w /\ clients'[u] = r
                 \/ u # w /\ clients'[u] = clients[u]
                 \/ u # w /\ clients'[u] = None /\ clients[u] \in shut',
               shut \subseteq shut'
        PROVE  ClientInv'
    <3>1. \A u \in Url : clients'[u] # None =>
            clients'[u] \in made' /\ choice'[clients'[u]][2] = u
      BY <2>1, <2>2, <2>3
    <3>2. ASSUME NEW q \in made'
          PROVE  \/ q \in shut'
                 \/ \E u \in Url : clients'[u] = q
                 \/ \E p \in made' \ {q} : choice'[p][2] = choice'[q][2]
      <4>1. CASE q = r
        BY <2>1, <2>3, <4>1
      <4>2. CASE q \in made
        <5>1. CASE q \in shut
          BY <2>3, <5>1
        <5>2. CASE \E u \in Url : clients[u] = q
          <6>1. PICK u \in Url : clients[u] = q
            BY <5>2
          <6>2. CASE u = w
            <7>1. choice[q][2] = w /\ r \in made' \ {q} /\ choice'[r][2] = w
              BY <2>1, <2>2, <4>2, <6>1, <6>2
            <7>. QED
              BY ONLY <7>1, <2>2, <4>2
          <6>3. CASE u # w
            BY ONLY <2>3, <6>1, <6>3
          <6>. QED
            BY <6>2, <6>3
        <5>3. CASE \E p \in made \ {q} : choice[p][2] = choice[q][2]
          BY <2>1, <2>2, <4>2, <5>3
        <5>. QED
          BY <4>2, <5>1, <5>2, <5>3
      <4>. QED
        BY <2>1, <4>1, <4>2
    <3>3. ClientsAreClosed'
      BY ONLY <3>2 DEF ClientsAreClosed
    <3>. QED
      BY ONLY <2>2, <3>1, <3>3 DEF ClientInv
  <2>. HIDE DEF w
  <2>4. r \in Request /\ w \in Url /\ clients \in [Url -> Request \union {None}]
    BY <2>1
  <2>5. CASE clients' = [clients EXCEPT ![w] = r] /\ shut' = shut
    <3>1. /\ clients' \in [Url -> Request \union {None}] /\ shut \subseteq shut'
          /\ \A u \in Url : \/ u = w /\ clients'[u] = r
                            \/ u # w /\ clients'[u] = clients[u]
      BY ONLY <2>4, <2>5
    <3>. QED
      BY ONLY <2>3, <3>1
  <2>6. ASSUME NEW v \in Url \ {w},
               clients' = [clients EXCEPT ![w] = r, ![v] = None],
               shut' = shut \union {clients[v]}
        PROVE  ClientInv'
    <3>1. /\ clients' \in [Url -> Request \union {None}] /\ shut \subseteq shut'
          /\ \A u \in Url : \/ u = w /\ clients'[u] = r
                            \/ u # w /\ clients'[u] = clients[u]
                            \/ u # w /\ clients'[u] = None /\ clients[u] \in shut'
      BY ONLY <2>4, <2>6
    <3>. QED
      BY ONLY <2>3, <3>1
  <2>7. \/ clients' = [clients EXCEPT ![w] = r] /\ shut' = shut
        \/ \E v \in Url \ {w} :
              /\ clients' = [clients EXCEPT ![w] = r, ![v] = None]
              /\ shut' = shut \union {clients[v]}
    BY ONLY <1>11 DEF MakeClient, Evict, w
  <2>. QED
    BY <2>5, <2>6, <2>7
<1>12. ASSUME NEW r \in Request, DialFails(r) PROVE ClientInv'
  BY <1>12 DEF DialFails, End, Goto
<1>13. ASSUME NEW r \in Request, Finish(r) PROVE ClientInv'
  BY <1>13 DEF Finish, End, Goto
<1>14. CASE Receive
  BY <1>14 DEF Receive
<1>15. ASSUME NEW c \in Chain, SetChain(c) PROVE ClientInv'
  BY <1>15 DEF SetChain
<1>16. CASE ListChains
  BY <1>16 DEF ListChains
<1>17. ASSUME NEW c \in Chain, Purge(c) PROVE ClientInv'
  BY <1>17 DEF Purge
<1>18. CASE Purged
  BY <1>18 DEF Purged
<1>19. CASE UNCHANGED vars
  BY <1>19 DEF vars
<1>. QED
  BY <1>1, <1>2, <1>3, <1>4, <1>5, <1>6, <1>7, <1>8, <1>9, <1>10,
     <1>11, <1>12, <1>13, <1>14, <1>15, <1>16, <1>17, <1>18, <1>19
  DEF Next, Watch, RequestStep

\* No client leaves the LRU unclosed but one that another was made beside.
THEOREM ClientsClosed == Spec => []ClientsAreClosed
<1>1. Init => ClientInv
  BY DEF Init, ClientInv, ClientsAreClosed
<1>2. Spec => []TypeInv
  BY TypeInit, TypeStep, PTL DEF Spec
<1>3. ClientInv => ClientsAreClosed
  BY DEF ClientInv
<1>. QED
  BY <1>1, <1>2, <1>3, ClientStep, PTL DEF Spec

=============================================================================
