-------------------------- MODULE EndpointRegistry --------------------------
(***************************************************************************)
(* How a request finds its endpoints and the client to call one with:      *)
(* endpointService.GetAll over endpoint.Cache, loading from configuration  *)
(* on a miss; the etcd watcher that replaces the configuration and purges  *)
(* the cache; and the LRU of clients by URL.                               *)
(*                                                                         *)
(* A request loads at most once and creates one Endpoint object per URL it *)
(* loads, so <<r, u>> names the object request r made for URL u.  It also  *)
(* makes at most one client, which keeps the object it was made for: r     *)
(* names that client.  The order of a chain's list is left out: the list   *)
(* is the number of times each URL occurs in it.                           *)
(***************************************************************************)
EXTENDS Integers, FiniteSets

CONSTANTS
    Request, Url, Chain,
    ChainOf,     \* request -> the chain it asks for
    MaxVersion,  \* bound: configurations in a behaviour
    Configured,  \* version -> chain -> URLs, for the chains it lists
    Provided,    \* chain -> URLs the endpoint provider may add
    ClientsSize, \* capacity of the client LRU
    None

Version == 1 .. MaxVersion

ASSUME ChainAssumption == ChainOf \in [Request -> Chain]
ASSUME VersionAssumption ==
    /\ MaxVersion \in Nat \ {0}
    /\ \A v \in Version : \A c \in DOMAIN Configured[v] :
          c \in Chain /\ Configured[v][c] \subseteq Url
    /\ DOMAIN Configured[1] = Chain
    /\ Provided \in [Chain -> SUBSET Url]
ASSUME SizeAssumption == ClientsSize \in Nat \ {0}
ASSUME NoneAssumption == None \notin Request \union (Request \X Url)

VARIABLES
    version,    \* the configuration last received from etcd
    inForce,    \* chain -> the version its "chains." entry was set from
    watcher,    \* where the watch handler is
    todo,       \* chains the handler has still to set, or to purge
    cached,     \* Cache.endpoints: URL -> Endpoint object
    listed,     \* Cache.chains: chain -> occurrences of each URL
    pc,         \* where each request is
    urls,       \* the URLs GetAll read, or has still to put
    found,      \* URL -> object in the list GetAll returns
    choice,     \* the endpoint the request calls
    using,      \* the client it calls it with
    clients,    \* ClientFactory.cache: URL -> client
    shut,       \* clients that have been closed
    made,       \* history: clients that have been made
    purged,     \* history: requests that had read or loaded a list purged since
    basis,      \* history: request -> version it loaded
    late        \* history: requests that had loaded, not put, at a purge

confVars    == <<version, inForce, watcher, todo>>
cacheVars   == <<cached, listed>>
requestVars == <<pc, urls, found, choice, using>>
clientVars  == <<clients, shut, made>>
histVars    == <<purged, basis, late>>
vars        == <<confVars, cacheVars, requestVars, clientVars, histVars>>

Endpoint == Request \X Url
Steps == {"idle", "reading", "loading", "putting", "choosing", "asking",
          "making", "calling", "done", "panicked"}

Init ==
    /\ version = 1 /\ inForce = [c \in Chain |-> 1]
    /\ watcher = "idle" /\ todo = {}
    /\ cached  = [u \in Url |-> None]
    /\ listed  = [c \in Chain |-> [u \in Url |-> 0]]
    /\ pc      = [r \in Request |-> "idle"]
    /\ urls    = [r \in Request |-> {}]
    /\ found   = [r \in Request |-> [u \in Url |-> None]]
    /\ choice  = [r \in Request |-> None]
    /\ using   = [r \in Request |-> None]
    /\ clients = [u \in Url |-> None]
    /\ shut    = {} /\ made = {}
    /\ purged  = {}
    /\ basis   = [r \in Request |-> 0]
    /\ late    = {}

ListOf(c)  == {u \in Url : listed[c][u] > 0}
OwnerOf(e) == ChainOf[e[1]]           \* an object's ChainID()
Goto(r, step) == pc' = [pc EXCEPT ![r] = step]

\* The request is over, and its locals with it.
End(r, step) ==
    /\ Goto(r, step)
    /\ urls'  = [urls EXCEPT ![r] = {}]
    /\ found' = [found EXCEPT ![r] = [u \in Url |-> None]]
    /\ using' = [using EXCEPT ![r] = None]

-----------------------------------------------------------------------------
(* GetAll: two critical sections, or a load and one Put per endpoint.      *)

\* The first section finds a list.
ReadList(r) ==
    /\ pc[r] = "idle" /\ ListOf(ChainOf[r]) # {}
    /\ urls' = [urls EXCEPT ![r] = ListOf(ChainOf[r])]
    /\ Goto(r, "reading")
    /\ UNCHANGED <<confVars, cacheVars, found, choice, using, clientVars,
                   histVars>>

\* It finds no list, or an empty one.
ReadNoList(r) ==
    /\ pc[r] = "idle" /\ ListOf(ChainOf[r]) = {}
    /\ Goto(r, "loading")
    /\ UNCHANGED <<confVars, cacheVars, urls, found, choice, using,
                   clientVars, histVars>>

\* The second section looks the URLs up.
ReadEndpoints(r) ==
    /\ pc[r] = "reading"
    /\ \A u \in urls[r] : cached[u] # None
    /\ found' = [found EXCEPT ![r] =
                    [u \in Url |-> IF u \in urls[r] THEN cached[u] ELSE None]]
    /\ Goto(r, "choosing")
    /\ UNCHANGED <<confVars, cacheVars, urls, choice, using, clientVars,
                   histVars>>

\* A URL that has gone leaves a nil in the list, on which the selector or
\* the client factory panics; the router recovers the request.
ReadHole(r) ==
    /\ pc[r] = "reading"
    /\ \E u \in urls[r] : cached[u] = None
    /\ End(r, "panicked")
    /\ UNCHANGED <<confVars, cacheVars, choice, clientVars, histVars>>

\* load: new objects for the configured URLs and, if the provider answers,
\* for the URLs it provides.
Load(r) ==
    LET c == ChainOf[r] IN
    /\ pc[r] = "loading"
    /\ \E provided \in {{}, Provided[c]} :
          LET us == Configured[inForce[c]][c] \union provided IN
          /\ us # {}
          /\ urls'  = [urls EXCEPT ![r] = us]
          /\ found' = [found EXCEPT ![r] =
                          [u \in Url |-> IF u \in us THEN <<r, u>> ELSE None]]
    /\ Goto(r, "putting")
    /\ basis' = [basis EXCEPT ![r] = inForce[c]]
    /\ UNCHANGED <<confVars, cacheVars, choice, using, clientVars, purged,
                   late>>

\* No endpoint at all: the chain is unsupported.
LoadNothing(r) ==
    /\ pc[r] = "loading"
    /\ Configured[inForce[ChainOf[r]]][ChainOf[r]] = {}
    /\ End(r, "done")
    /\ UNCHANGED <<confVars, cacheVars, choice, clientVars, histVars>>

\* Mutant: the object is stored and the chain's list forgotten.
StoreUnlisted(e) ==
    /\ cached' = [cached EXCEPT ![e[2]] = e]
    /\ UNCHANGED listed

\* Cache.Put of object e: a URL that is there is not replaced; if it is
\* there for another chain it is deleted from the list of e's chain.
Store(e) ==
    LET u == e[2] IN
    \/ /\ cached[u] = None
       /\ cached' = [cached EXCEPT ![u] = e]
       /\ listed' = [listed EXCEPT ![OwnerOf(e)][u] = @ + 1]
    \/ /\ cached[u] # None
       /\ listed' = IF OwnerOf(cached[u]) = OwnerOf(e) THEN listed
                    ELSE [listed EXCEPT ![OwnerOf(e)][u] = 0]
       /\ UNCHANGED cached

Put(r, u) ==
    /\ pc[r] = "putting" /\ u \in urls[r]
    /\ Store(<<r, u>>)
    /\ urls' = [urls EXCEPT ![r] = @ \ {u}]
    /\ Goto(r, IF urls[r] = {u} THEN "choosing" ELSE "putting")
    /\ UNCHANGED <<confVars, found, choice, using, clientVars, histVars>>

-----------------------------------------------------------------------------
(* ClientFactory.GetClient: Get, and on a miss make a client and Add it.   *)

\* The selector may put any endpoint of the list first.
Choose(r, u) ==
    /\ pc[r] = "choosing" /\ found[r][u] # None
    /\ choice' = [choice EXCEPT ![r] = found[r][u]]
    /\ Goto(r, "asking")
    /\ UNCHANGED <<confVars, cacheVars, urls, found, using, clientVars,
                   histVars>>

UseCached(r) ==
    LET u == choice[r][2] IN
    /\ pc[r] = "asking" /\ clients[u] # None
    /\ using' = [using EXCEPT ![r] = clients[u]]
    /\ Goto(r, "calling")
    /\ UNCHANGED <<confVars, cacheVars, urls, found, choice, clientVars,
                   histVars>>

MissClient(r) ==
    /\ pc[r] = "asking" /\ clients[choice[r][2]] = None
    /\ Goto(r, "making")
    /\ UNCHANGED <<confVars, cacheVars, urls, found, choice, using,
                   clientVars, histVars>>

\* Mutant: the LRU has no eviction callback.
EvictUnclosed(v) == UNCHANGED shut

\* The LRU's eviction callback closes the client.
Evict(v) == shut' = shut \union {clients[v]}

\* The new client takes the URL's place; when that makes one too many, the
\* least recently used one is evicted and closed.  How recently each was
\* used is left out: any of the others may be it.
MakeClient(r) ==
    LET u      == choice[r][2]
        others == {v \in Url \ {u} : clients[v] # None}
        added  == [clients EXCEPT ![u] = r]
    IN
    /\ pc[r] = "making"
    /\ \/ /\ clients[u] # None \/ Cardinality(others) < ClientsSize
          /\ clients' = added
          /\ UNCHANGED shut
       \/ /\ clients[u] = None /\ Cardinality(others) >= ClientsSize
          /\ \E v \in others :
                /\ clients' = [added EXCEPT ![v] = None]
                /\ Evict(v)
    /\ made'  = made \union {r}
    /\ using' = [using EXCEPT ![r] = r]
    /\ Goto(r, "calling")
    /\ UNCHANGED <<confVars, cacheVars, urls, found, choice, histVars>>

\* A WebSocket endpoint could not be dialled: there is no client.
DialFails(r) ==
    /\ pc[r] = "making"
    /\ End(r, "done")
    /\ UNCHANGED <<confVars, cacheVars, choice, clientVars, histVars>>

\* The call ends; the client reports it to the endpoint it was made for.
Finish(r) ==
    /\ pc[r] = "calling"
    /\ End(r, "done")
    /\ UNCHANGED <<confVars, cacheVars, choice, clientVars, histVars>>

-----------------------------------------------------------------------------
(* The watch handler: set the new configuration chain by chain, then purge *)
(* every chain the cache has.                                              *)

Receive ==
    /\ watcher = "idle" /\ version < MaxVersion
    /\ version' = version + 1
    /\ todo'    = DOMAIN Configured[version + 1]
    /\ watcher' = "setting"
    /\ UNCHANGED <<inForce, cacheVars, requestVars, clientVars, histVars>>

\* A chain the new configuration does not list keeps its old entry.
SetChain(c) ==
    /\ watcher = "setting" /\ c \in todo
    /\ inForce' = [inForce EXCEPT ![c] = version]
    /\ todo'    = todo \ {c}
    /\ UNCHANGED <<version, watcher, cacheVars, requestVars, clientVars,
                   histVars>>

Loaded(c) == {r \in Request : pc[r] = "putting" /\ ChainOf[r] = c}

\* Chains(): what the purge will cover.
ListChains ==
    /\ watcher = "setting" /\ todo = {}
    /\ todo'    = {c \in Chain : ListOf(c) # {}}
    /\ watcher' = "purging"
    /\ late'    = late \union UNION {Loaded(c) : c \in Chain}
    /\ UNCHANGED <<version, inForce, cacheVars, requestVars, clientVars,
                   purged, basis>>

\* Mutant: the list goes, the endpoints stay.
ForgetList(c) ==
    /\ listed' = [listed EXCEPT ![c] = [u \in Url |-> 0]]
    /\ UNCHANGED cached

\* Mutant: every endpoint goes, and the list of one chain.
ForgetAll(c) ==
    /\ cached' = [u \in Url |-> None]
    /\ listed' = [listed EXCEPT ![c] = [u \in Url |-> 0]]

\* Mutant: a URL is taken off the list whether it is on it or not.
ForgetUnlisted(c) ==
    /\ cached' = [u \in Url |-> IF u \in ListOf(c) THEN None ELSE cached[u]]
    /\ listed' = [listed EXCEPT ![c] = [u \in Url |-> @[u] - 1]]

\* Cache.Purge of chain c: its list, and the endpoints on it.
Forget(c) ==
    /\ cached' = [u \in Url |-> IF u \in ListOf(c) THEN None ELSE cached[u]]
    /\ listed' = [listed EXCEPT ![c] = [u \in Url |-> 0]]

Purge(c) ==
    /\ watcher = "purging" /\ c \in todo
    /\ Forget(c)
    /\ todo'   = todo \ {c}
    /\ late'   = late \union Loaded(c)
    /\ purged' = purged \union
          {r \in Request : ChainOf[r] = c /\ pc[r] \notin {"idle", "loading"}}
    /\ UNCHANGED <<version, inForce, watcher, requestVars, clientVars, basis>>

Purged ==
    /\ watcher = "purging" /\ todo = {}
    /\ watcher' = "idle"
    /\ UNCHANGED <<version, inForce, todo, cacheVars, requestVars,
                   clientVars, histVars>>

-----------------------------------------------------------------------------
RequestStep(r) ==
    \/ ReadList(r) \/ ReadNoList(r) \/ ReadEndpoints(r) \/ ReadHole(r)
    \/ Load(r) \/ LoadNothing(r)
    \/ \E u \in Url : Put(r, u) \/ Choose(r, u)
    \/ UseCached(r) \/ MissClient(r) \/ MakeClient(r) \/ DialFails(r)
    \/ Finish(r)

Watch ==
    \/ Receive \/ ListChains \/ Purged
    \/ \E c \in Chain : SetChain(c) \/ Purge(c)

Next == Watch \/ \E r \in Request : RequestStep(r)

Spec == Init /\ [][Next]_vars

-----------------------------------------------------------------------------
(* Properties                                                              *)

TypeOK ==
    /\ version \in Version /\ inForce \in [Chain -> Version]
    /\ watcher \in {"idle", "setting", "purging"}
    /\ todo    \in SUBSET Chain
    /\ cached  \in [Url -> Endpoint \union {None}]
    /\ listed  \in [Chain -> [Url -> Nat]]
    /\ pc      \in [Request -> Steps]
    /\ urls    \in [Request -> SUBSET Url]
    /\ found   \in [Request -> [Url -> Endpoint \union {None}]]
    /\ choice  \in [Request -> Endpoint \union {None}]
    /\ using   \in [Request -> Request \union {None}]
    /\ clients \in [Url -> Request \union {None}]
    /\ shut    \in SUBSET Request
    /\ made    \in SUBSET Request
    /\ purged  \in SUBSET Request
    /\ basis   \in [Request -> Version \union {0}]
    /\ late    \in SUBSET Request

\* Cache's two maps agree whatever loads and purges interleave: a URL is on
\* the list of the chain of its endpoint, once, and on no other; a URL
\* without an endpoint is on none.
IndexAgrees ==
    \A c \in Chain, u \in Url :
        listed[c][u] =
            IF cached[u] # None /\ OwnerOf(cached[u]) = c THEN 1 ELSE 0

\* GetAll meets a nil endpoint, or one of another chain, between its two
\* critical sections only if its own chain was purged in between.
HolesNeedPurge ==
    \A r \in Request :
        pc[r] = "reading" /\ r \notin purged =>
            \A u \in urls[r] :
                cached[u] # None /\ OwnerOf(cached[u]) = ChainOf[r]

\* Two chains list the URL, in one configuration or in successive ones.
Shared(u) ==
    \E v, w \in Version : \E c \in DOMAIN Configured[v], d \in DOMAIN Configured[w] :
        /\ c # d
        /\ u \in Configured[v][c] \union Provided[c]
        /\ u \in Configured[w][d] \union Provided[d]

\* The client that requests are given reports health and metrics to the
\* endpoint object that they choose from the cache, unless the chain was
\* purged after the client's maker had its list, or the maker loaded the URL
\* at the time another request did, whose object was the first to be put.
ReportsAreSeen ==
    \A u \in Url : LET q == clients[u] IN
        q # None /\ q \notin purged /\ ~Shared(u) =>
            \/ choice[q] = cached[u]
            \/ choice[q] = <<q, u>> /\ cached[u] # None

\* Once a new configuration has been loaded, a cached endpoint that predates
\* it was put by a request that had loaded before and put after the purge.
StaleNeedsLateLoader ==
    watcher = "idle" =>
        \A u \in Url : cached[u] # None =>
            LET q == cached[u][1]
            IN  basis[q] = inForce[ChainOf[q]] \/ q \in late

\* No client, with its connection, is let go of unclosed, unless a second
\* one was made for its URL: a client missed by two requests at a time.
ClientsAreClosed ==
    \A r \in made :
        \/ r \in shut
        \/ \E u \in Url : clients[u] = r
        \/ \E q \in made \ {r} : choice[q][2] = choice[r][2]
=============================================================================
