--------------------------- MODULE HTTPFSCurlUtil ---------------------------
(***************************************************************************)
(* HTTPFSCurlUtil (httpfs_connection_caching.cpp, httpfs_curl_client.cpp): *)
(* threads send requests through curl clients that they take from and give *)
(* back to a cache of idle clients, HTTPClientConnectionCache.  A thread   *)
(* either sends a single request (HTTPUtil::Request), or opens a handle    *)
(* that keeps its client from request to request and gives it back when it *)
(* is closed.  The cache is a number of pools; a thread that finds a pool  *)
(* locked goes on to the next one and never waits.                         *)
(*                                                                         *)
(* The retry loop of HTTPUtil and the network are external.                *)
(***************************************************************************)
EXTENDS Naturals, FiniteSets, HTTPFSCurlClient

CONSTANTS
  Threads,
  Clients,          \* as many as threads and entries of pools together
  BaseUrls, Tokens, \* endpoints and bearer tokens
  PoolCount,        \* number of pools (16)
  Slots,            \* the entries of a pool (16)
  Situations,       \* the situations there may be, by name, see below
  Fair              \* the threads that the processor is fair to

\* A situation: the threads that send requests, and those of them whose requests
\* use HTTPFSParams::Clone; the endpoints, tokens and kinds of requests, verbs
\* with or without a range; whether files are opened in a query: TRUE, FALSE or
\* both; and bounds: requests of a thread, changes of the setting and calls of
\* Clear.
ASSUME SituationAssumption == \A s \in DOMAIN Situations :
  LET sit == Situations[s] IN
  /\ sit.users \subseteq Threads /\ sit.cloned \subseteq sit.users
  /\ sit.bases \subseteq BaseUrls /\ sit.tokens \subseteq Tokens
  /\ sit.contexts \subseteq BOOLEAN
  /\ sit.kinds \subseteq [verb : Verbs, range : BOOLEAN]
  /\ sit.max_sends \in Nat /\ sit.max_commands \in Nat
ASSUME SetAssumption ==
  /\ PoolCount \in Nat \ {0} /\ Fair \subseteq Threads
  /\ None \notin Clients \cup Threads \cup Verbs /\ Freed \notin Clients \cup Threads
\* There is always an object that is not in use: memory for one more client.
ASSUME ClientsAssumption ==
  /\ IsFiniteSet(Threads) /\ IsFiniteSet(Slots) /\ IsFiniteSet(Clients)
  /\ Cardinality(Clients) >= Cardinality(Threads) + PoolCount * Cardinality(Slots)

\* A client object; None is no object.
ClientRecords ==
  [base : BaseUrls, token : Tokens \cup {Freed}, state : Threads \cup {None, Freed},
   info : {"own", Freed}, method : {"GET", "HEAD", "POST"}, custom : Verbs \cup {None},
   fields : Threads \cup {None, Freed}, watch : Threads \cup {None, Freed},
   identity : BOOLEAN]
ASSUME NoneAssumption == None \notin ClientRecords

Pools == 0 .. PoolCount - 1

VARIABLES
  situation,       \* its name
  clients,         \* the client objects
  entries,         \* entries of the pools
  lock,            \* the holder of each pool's lock
  cache_pool_idx,  \* thread local: where a thread starts to look
  connection_caching_enabled,
  pc, params, kind, client, request, visited, creating, caching,
  sends, commands,
  clearing         \* the pool that Clear is at, PoolCount when none runs

cache == <<entries, lock, cache_pool_idx>>
thread == <<params, kind, caching>>
vars == <<clients, cache, connection_caching_enabled, pc, thread, client, request,
          visited, creating, sends, commands, clearing>>

Situation == Situations[situation]
Cloned == Situation.cloned
Kinds == Situation.kinds
MaxSends == Situation.max_sends
MaxCommands == Situation.max_commands
Params == [base : Situation.bases, token : Situation.tokens, context : Situation.contexts]
NoRequest == [verb |-> None, range |-> FALSE, body |-> None, flag |-> None]
\* The main thread, which runs the settings and Clear, holds locks by this name.
Main == "main"

Init ==
  /\ situation \in DOMAIN Situations
  /\ clients = [c \in Clients |-> None]
  /\ entries = [p \in Pools |-> [s \in Slots |-> None]]
  /\ lock = [p \in Pools |-> None]
  /\ cache_pool_idx \in [Threads -> Pools]
  /\ connection_caching_enabled = FALSE
  /\ pc = [t \in Threads |-> "idle"]
  /\ params = [t \in Threads |-> None]
  /\ kind = [t \in Threads |-> None]
  /\ client = [t \in Threads |-> None]
  /\ request = [t \in Threads |-> NoRequest]
  /\ visited = [t \in Threads |-> 0]
  /\ creating = [t \in Threads |-> FALSE]
  /\ caching = [t \in Threads |-> FALSE]
  /\ sends = [t \in Threads |-> 0] /\ commands = 0
  /\ clearing = PoolCount

\* The pool a thread looks at next.
PoolOf(t) == (cache_pool_idx[t] + visited[t]) % PoolCount

-----------------------------------------------------------------------------
(***************************************************************************)
(* Mutants.                                                                *)
(***************************************************************************)
\* Find leaves the client it returns in the pool.
WithoutCopied(pool, s) == pool
\* Any idle client will do.
FitsAny(t, c) == c # None
\* A thread waits for a pool that is locked.
TryLockWaits(t, locked) ==
  /\ visited[t] < PoolCount /\ lock[PoolOf(t)] = None
  /\ lock' = [lock EXCEPT ![PoolOf(t)] = t]
  /\ pc' = [pc EXCEPT ![t] = locked]
  /\ UNCHANGED visited

-----------------------------------------------------------------------------
(***************************************************************************)
(* Requests.                                                               *)
(***************************************************************************)
\* A thread sends a request of its own, or opens a handle.
Begin(t) ==
  /\ t \in Situation.users /\ pc[t] = "idle" /\ sends[t] < MaxSends
  /\ \E p \in Params, k \in {"loose", "handle"} :
       /\ params' = [params EXCEPT ![t] = p]
       /\ kind' = [kind EXCEPT ![t] = k]
       \* SendRequest: EnableCaching is looked at once per request, and only
       \* where the caller has no client.
       /\ caching' = [caching EXCEPT ![t] = connection_caching_enabled /\ k = "loose"]
       /\ pc' = [pc EXCEPT ![t] = IF caching'[t] THEN "find" ELSE "ready"]
  /\ UNCHANGED <<clients, cache, connection_caching_enabled, client, request, visited,
                 creating, sends, commands, clearing>>

\* InitializeClient, for a thread without a client: on a miss one is made.
InitializeClient(t) ==
  /\ pc[t] = "ready" /\ client[t] = None /\ sends[t] < MaxSends
  /\ creating' = [creating EXCEPT ![t] = TRUE]
  /\ visited' = [visited EXCEPT ![t] = IF connection_caching_enabled THEN 0 ELSE PoolCount]
  /\ pc' = [pc EXCEPT ![t] = "find"]
  /\ UNCHANGED <<clients, cache, connection_caching_enabled, thread, client, request,
                 sends, commands, clearing>>

\* The interrupt flag that the request carries: a file opened outside a query
\* has none, and Clone drops it.
FlagOf(t) == IF params[t].context /\ t \notin Cloned THEN t ELSE None

\* A request is set up and handed to libcurl.  A retry sends the same one.
Send(t) ==
  /\ pc[t] \in {"ready", "send"} /\ client[t] # None /\ sends[t] < MaxSends
  /\ \E k \in Kinds :
       LET r == [verb |-> k.verb, range |-> k.range, flag |-> FlagOf(t),
                 body |-> IF k.verb \in {"PUT", "POST"} THEN t ELSE None]
       IN /\ request[t].verb # None => r = request[t]
          /\ request' = [request EXCEPT ![t] = r]
          /\ clients' = [clients EXCEPT ![client[t]] = Prepared(@, r)]
  /\ pc' = [pc EXCEPT ![t] = "executing"]
  /\ sends' = [sends EXCEPT ![t] = @ + 1]
  /\ UNCHANGED <<cache, connection_caching_enabled, thread, client, visited, creating,
                 commands, clearing>>

\* Execute returns, with a response or cancelled, and so does the request.  A
\* single request stores its client if it looked for one in the cache.
Answered(t) ==
  LET c == BodyGone(Restored(clients[client[t]], request[t].verb), t)
  IN
  /\ pc[t] = "executing"
  /\ request' = [request EXCEPT ![t] = NoRequest]
  /\ \/ /\ kind[t] = "handle"
        /\ clients' = [clients EXCEPT ![client[t]] = c]
        /\ pc' = [pc EXCEPT ![t] = "ready"]
        /\ UNCHANGED <<client, visited>>
     \/ /\ kind[t] = "loose" /\ caching[t]
        /\ clients' = [clients EXCEPT ![client[t]] = c]
        /\ pc' = [pc EXCEPT ![t] = "store"]
        /\ visited' = [visited EXCEPT ![t] = 0]
        /\ UNCHANGED client
     \/ /\ kind[t] = "loose" /\ ~caching[t]
        /\ clients' = [clients EXCEPT ![client[t]] = None]
        /\ client' = [client EXCEPT ![t] = None]
        /\ pc' = [pc EXCEPT ![t] = "done"]
        /\ UNCHANGED visited
  /\ UNCHANGED <<cache, connection_caching_enabled, thread, creating, sends, commands,
                 clearing>>

\* The transfer fails and is tried again: HTTPUtil replaces the client.
Retried(t) ==
  /\ pc[t] = "executing" /\ sends[t] < MaxSends
  /\ clients' = [clients EXCEPT ![client[t]] = None]
  /\ client' = [client EXCEPT ![t] = None]
  /\ pc' = [pc EXCEPT ![t] = "ready"]
  /\ UNCHANGED <<cache, connection_caching_enabled, thread, request, visited, creating,
                 sends, commands, clearing>>

\* A handle is closed: CloseClient cleans its client up and stores it, or drops it.
Close(t) ==
  /\ pc[t] = "ready" /\ kind[t] = "handle" /\ request[t] = NoRequest
  /\ \/ /\ client[t] # None /\ connection_caching_enabled
        /\ clients' = [clients EXCEPT ![client[t]] = Cleanup(@)]
        /\ visited' = [visited EXCEPT ![t] = 0]
        /\ pc' = [pc EXCEPT ![t] = "store"]
        /\ UNCHANGED client
     \/ /\ client[t] = None \/ ~connection_caching_enabled
        /\ clients' = [c \in Clients |-> IF c = client[t] THEN None ELSE clients[c]]
        /\ client' = [client EXCEPT ![t] = None]
        /\ pc' = [pc EXCEPT ![t] = "done"]
        /\ UNCHANGED visited
  /\ UNCHANGED <<cache, connection_caching_enabled, thread, request, creating, sends,
                 commands, clearing>>

\* The query is over, and its memory gone.
End(t) ==
  /\ pc[t] = "done"
  /\ clients' = [c \in Clients |->
                   IF clients[c] = None THEN None ELSE QueryGone(clients[c], t)]
  /\ pc' = [pc EXCEPT ![t] = "idle"]
  /\ params' = [params EXCEPT ![t] = None]
  /\ kind' = [kind EXCEPT ![t] = None]
  /\ caching' = [caching EXCEPT ![t] = FALSE]
  /\ creating' = [creating EXCEPT ![t] = FALSE]
  /\ visited' = [visited EXCEPT ![t] = 0]
  /\ UNCHANGED <<cache, connection_caching_enabled, client, request, sends, commands,
                 clearing>>

-----------------------------------------------------------------------------
(***************************************************************************)
(* HTTPClientConnectionCache.                                              *)
(***************************************************************************)
\* try_lock on the next pool: locked, or on to the pool after it.
TryLock(t, locked) ==
  /\ visited[t] < PoolCount
  /\ \/ /\ lock[PoolOf(t)] = None
        /\ lock' = [lock EXCEPT ![PoolOf(t)] = t]
        /\ pc' = [pc EXCEPT ![t] = locked]
        /\ UNCHANGED visited
     \/ /\ lock[PoolOf(t)] # None
        /\ visited' = [visited EXCEPT ![t] = @ + 1]
        /\ UNCHANGED <<lock, pc>>

\* Nothing for the thread in this pool: it is unlocked.
NextPool(t, searching) ==
  /\ lock' = [lock EXCEPT ![PoolOf(t)] = None]
  /\ visited' = [visited EXCEPT ![t] = @ + 1]
  /\ pc' = [pc EXCEPT ![t] = searching]

\* A client fits if it talks to the endpoint of the request.
Fits(t, c) == c # None /\ clients[c].base = params[t].base
\* unique_ptr: the client is moved out of the pool.
Without(pool, s) == [pool EXCEPT ![s] = None]

\* A new object; which one makes no difference, and there is always one.
Unused == CHOOSE c \in Clients : clients[c] = None

Find(t) ==
  \/ /\ pc[t] = "find" /\ TryLock(t, "finding")
     /\ UNCHANGED <<clients, entries, cache_pool_idx, client>>
  \/ /\ pc[t] = "finding"
     /\ \/ \E s \in Slots :
             /\ Fits(t, entries[PoolOf(t)][s])
             /\ client' = [client EXCEPT ![t] = entries[PoolOf(t)][s]]
             /\ clients' = [clients EXCEPT ![client'[t]] = Initialize(@, params[t], t)]
             /\ entries' = [entries EXCEPT ![PoolOf(t)] = Without(@, s)]
             /\ cache_pool_idx' = [cache_pool_idx EXCEPT ![t] = PoolOf(t)]
             /\ lock' = [lock EXCEPT ![PoolOf(t)] = None]
             /\ pc' = [pc EXCEPT ![t] = "send"]
             /\ visited' = [visited EXCEPT ![t] = 0]
        \/ /\ \A s \in Slots : ~Fits(t, entries[PoolOf(t)][s])
           /\ NextPool(t, "find")
           /\ UNCHANGED <<clients, entries, cache_pool_idx, client>>
  \* A miss: a new client, or CachingSendRequest goes on to InitializeClient.
  \/ /\ pc[t] = "find" /\ visited[t] = PoolCount
     /\ \/ /\ creating[t]
           /\ \E c \in {Unused} :
                /\ client' = [client EXCEPT ![t] = c]
                /\ clients' = [clients EXCEPT ![c] =
                                 Initialize(NewClient(params[t].base), params[t], t)]
           /\ pc' = [pc EXCEPT ![t] = "send"]
        \/ /\ ~creating[t] /\ pc' = [pc EXCEPT ![t] = "ready"]
           /\ UNCHANGED <<client, clients>>
     /\ UNCHANGED <<entries, lock, cache_pool_idx, visited>>

\* The client is moved into a slot, in place of the client there, if any.
StoreIn(t, s) ==
  LET old == entries[PoolOf(t)][s] IN
    /\ entries' = [entries EXCEPT ![PoolOf(t)][s] = client[t]]
    /\ clients' = [c \in Clients |-> IF c = old THEN None ELSE clients[c]]
    /\ client' = [client EXCEPT ![t] = None]
    /\ cache_pool_idx' = [cache_pool_idx EXCEPT ![t] = PoolOf(t)]
    /\ lock' = [lock EXCEPT ![PoolOf(t)] = None]
    /\ pc' = [pc EXCEPT ![t] = "done"]
    /\ visited' = [visited EXCEPT ![t] = 0]

Store(t) ==
  \* Pass 1: an empty slot in a pool that can be locked.
  \/ /\ pc[t] = "store" /\ TryLock(t, "storing")
     /\ UNCHANGED <<clients, entries, cache_pool_idx, client>>
  \/ /\ pc[t] = "storing"
     /\ \/ \E s \in Slots : entries[PoolOf(t)][s] = None /\ StoreIn(t, s)
        \/ /\ \A s \in Slots : entries[PoolOf(t)][s] # None
           /\ NextPool(t, "store")
           /\ UNCHANGED <<clients, entries, cache_pool_idx, client>>
  \/ /\ pc[t] = "store" /\ visited[t] = PoolCount
     /\ pc' = [pc EXCEPT ![t] = "evict"]
     /\ visited' = [visited EXCEPT ![t] = 0]
     /\ UNCHANGED <<clients, cache, client>>
  \* Pass 2: any slot of the first pool that can be locked.
  \/ /\ pc[t] = "evict" /\ TryLock(t, "evicting")
     /\ UNCHANGED <<clients, entries, cache_pool_idx, client>>
  \/ /\ pc[t] = "evicting" /\ \E s \in Slots : StoreIn(t, s)
  \* Every pool is busy: the client is dropped.
  \/ /\ pc[t] = "evict" /\ visited[t] = PoolCount
     /\ clients' = [clients EXCEPT ![client[t]] = None]
     /\ client' = [client EXCEPT ![t] = None]
     /\ pc' = [pc EXCEPT ![t] = "done"]
     /\ UNCHANGED <<cache, visited>>

\* SET httpfs_connection_caching.
SetCaching ==
  /\ commands < MaxCommands /\ commands' = commands + 1
  /\ connection_caching_enabled' = ~connection_caching_enabled
  /\ UNCHANGED <<clients, cache, pc, thread, client, request, visited, creating, sends,
                 clearing>>

\* httpfs_clear_connection_cache: Clear waits for each pool in turn.
Clear ==
  \/ /\ clearing = PoolCount /\ commands < MaxCommands
     /\ clearing' = 0 /\ commands' = commands + 1
     /\ UNCHANGED <<lock, entries, clients>>
  \/ /\ clearing < PoolCount /\ lock[clearing] = None
     /\ lock' = [lock EXCEPT ![clearing] = Main]
     /\ UNCHANGED <<clearing, commands, entries, clients>>
  \/ /\ clearing < PoolCount /\ lock[clearing] = Main
     /\ entries' = [entries EXCEPT ![clearing] = [s \in Slots |-> None]]
     /\ clients' = [c \in Clients |->
          IF \E s \in Slots : entries[clearing][s] = c THEN None ELSE clients[c]]
     /\ lock' = [lock EXCEPT ![clearing] = None]
     /\ clearing' = clearing + 1
     /\ UNCHANGED commands

Step(t) ==
  \/ InitializeClient(t) \/ Send(t) \/ Answered(t) \/ Retried(t) \/ Close(t) \/ End(t)
  \/ /\ Find(t) \/ Store(t)
     /\ UNCHANGED <<connection_caching_enabled, thread, request, creating, sends, commands,
                    clearing>>

Next ==
  /\ \/ \E t \in Threads : Begin(t) \/ Step(t)
     \/ SetCaching
     \/ /\ Clear
        /\ UNCHANGED <<cache_pool_idx, connection_caching_enabled, pc, thread, client, request,
                       visited, creating, sends>>
  /\ UNCHANGED situation

Spec == Init /\ [][Next]_<<vars, situation>>

\* The processor is fair to some threads and may leave any other one where it
\* is, in the middle of an operation on a pool too.
FairSpec == Spec /\ \A t \in Fair : WF_vars(Step(t))

-----------------------------------------------------------------------------
(***************************************************************************)
(* Properties.                                                             *)
(***************************************************************************)
Executing(t) == pc[t] = "executing"
ClientOf(t) == clients[client[t]]

\* Type correctness.
TypeOK ==
  /\ clients \in [Clients -> ClientRecords \cup {None}]
  /\ entries \in [Pools -> [Slots -> Clients \cup {None}]]
  /\ lock \in [Pools -> Threads \cup {Main, None}]
  /\ cache_pool_idx \in [Threads -> Pools]
  /\ client \in [Threads -> Clients \cup {None}]
  /\ visited \in [Threads -> 0..PoolCount] /\ clearing \in 0..PoolCount

\* Where a client is.
Places(c) == {t \in Threads : client[t] = c}
             \cup {e \in Pools \X Slots : entries[e[1]][e[2]] = c}

\* Every client object has one owner, a thread or a slot of a pool, and none is
\* lost: through Find, Store, eviction, Clear and retries.
OneOwner ==
  \A c \in Clients : Cardinality(Places(c)) = (IF clients[c] = None THEN 0 ELSE 1)

\* What goes over the wire is the request that was made, whatever the requests
\* that the handle served before left behind: to its endpoint, with the bearer
\* token of its own parameters, its verb, its body and no other, and the
\* encoding it can accept.
WireIsRequested ==
  \A t \in Threads : Executing(t) =>
    /\ ClientOf(t).base = params[t].base /\ ClientOf(t).token = params[t].token
    /\ WireVerb(ClientOf(t)) = request[t].verb
    /\ WireBody(ClientOf(t)) = request[t].body
    /\ ClientOf(t).identity = (request[t].verb = "HEAD" \/ request[t].range)

\* While libcurl runs, everything it points to is alive and belongs to the query
\* that waits for it: the targets of the callbacks, which Cleanup replaces, the
\* counters of the query, the interrupt flag of ResetRequestInfo's comment ("a
\* use-after-free").
PointersAreLive ==
  \A t \in Threads : Executing(t) =>
    /\ ClientOf(t).info = "own" /\ ClientOf(t).state = t
    /\ ClientOf(t).watch \in {t, None}
    /\ ClientOf(t).fields \in {t, None}

\* A request in flight watches the interrupt flag of its query (httpfs_client.hpp:
\* "so in-flight reads (range GETs / HEAD) abort when the query is cancelled").
CancelReaches ==
  \A t \in Threads : Executing(t) /\ params[t].context => ClientOf(t).watch = t

\* Nobody waits for another thread in the cache: a thread gets through its
\* request even if all others stop where they are, holding locks of pools.
RequestNeedsNobody == \A t \in Fair : pc[t] # "idle" ~> pc[t] = "idle"
=============================================================================
