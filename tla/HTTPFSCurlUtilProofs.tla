------------------------ MODULE HTTPFSCurlUtilProofs ------------------------
(***************************************************************************)
(* The connection cache and its curl clients, for any number of threads,   *)
(* pools, slots, endpoints and tokens: no client is lost or used twice,    *)
(* and what a client does for one request is untouched by the requests it  *)
(* served before.                                                          *)
(***************************************************************************)
EXTENDS HTTPFSCurlUtil, FiniteSetTheorems, TLAPS

allVars == <<vars, situation>>

PcSet == {"idle", "ready", "find", "finding", "send", "executing", "store", "storing",
          "evict", "evicting", "done"}
\* Where a thread has a client, and where it may have one.
Holding == {"send", "executing", "store", "storing", "evict", "evicting"}

Requests == [verb : Verbs \cup {None}, range : BOOLEAN, body : Threads \cup {None},
             flag : Threads \cup {None}]

Types ==
  /\ situation \in DOMAIN Situations
  /\ TypeOK
  /\ pc \in [Threads -> PcSet]
  /\ params \in [Threads -> Params \cup {None}]
  /\ request \in [Threads -> Requests]

\* A thread has a client while a request is under way, and may have one between two
\* requests of its handle; a thread in a call has parameters.  It has locked one of
\* the pools, not one after the last.
ThreadsInv ==
  \A t \in Threads :
    /\ pc[t] \in Holding => client[t] # None
    /\ pc[t] \in {"idle", "find", "finding", "done"} => client[t] = None
    /\ pc[t] # "idle" => params[t] \in Params
    /\ pc[t] \in {"finding", "storing", "evicting"} => visited[t] < PoolCount

\* No client has two owners, ...
Distinct ==
  /\ \A t, u \in Threads : client[t] # None /\ client[t] = client[u] => t = u
  /\ \A p, q \in Pools, r, s \in Slots :
       entries[p][r] # None /\ entries[p][r] = entries[q][s] => p = q /\ r = s
  /\ \A t \in Threads, p \in Pools, s \in Slots :
       client[t] # None => entries[p][s] # client[t]

\* ... and those that have one are those that exist.
HasOwner(c) ==
  \/ \E t \in Threads : client[t] = c
  \/ \E p \in Pools, s \in Slots : entries[p][s] = c

OwnedExist == \A c \in Clients : (clients[c] # None) <=> HasOwner(c)

\* A client that no request is using has no verb, no body and no HEAD left in its
\* handle; POST may be left, without a body.
Clean(c) == c.custom = None /\ c.fields = None /\ c.method \in {"GET", "POST"}

InUse(c) == \E t \in Threads : pc[t] = "executing" /\ client[t] = c

IdleIsClean == \A c \in Clients : clients[c] # None /\ ~InUse(c) => Clean(clients[c])

\* A client that a thread is about to use is set up for the thread's parameters.
SetUpFor(c, t) ==
  /\ c.base = params[t].base /\ c.token = params[t].token
  /\ c.state = t /\ c.info = "own"

SetUp(t) ==
  pc[t] \in {"ready", "send", "executing"} /\ client[t] # None => SetUpFor(ClientOf(t), t)

ReadyIsSetUp == \A t \in Threads : SetUp(t)

\* The options of the handle are those of the request, and of no other one.
Carries(c, r, t) ==
  /\ r.verb \in Verbs
  /\ c.custom = IF r.verb \in {"PUT", "DELETE"} THEN r.verb ELSE None
  /\ c.fields = r.body
  /\ r.body = IF r.verb \in {"PUT", "POST"} THEN t ELSE None
  /\ r.verb \in {"PUT", "POST"} => c.method = "POST"
  /\ r.verb \in {"GET", "HEAD"} => c.method = r.verb
  /\ r.verb = "DELETE" => c.method \in {"GET", "POST"}
  /\ c.identity = (r.verb = "HEAD" \/ r.range)
  /\ c.watch = r.flag /\ r.flag = FlagOf(t)

Carried(t) == Executing(t) => Carries(ClientOf(t), request[t], t)

ExecutingCarries == \A t \in Threads : Carried(t)

\* The inductive invariant.
CacheInv ==
  /\ Types
  /\ ThreadsInv
  /\ Distinct
  /\ OwnedExist
  /\ IdleIsClean
  /\ ReadyIsSetUp
  /\ ExecutingCarries

-----------------------------------------------------------------------------
\* The parameters of a request name an endpoint and a token; they and the kinds of
\* requests change with the situation only.
LEMMA SituationFacts ==
  /\ UNCHANGED situation =>
       Params' = Params /\ Kinds' = Kinds /\ Cloned' = Cloned /\ MaxSends' = MaxSends
  /\ situation \in DOMAIN Situations =>
       /\ \A p \in Params : p.base \in BaseUrls /\ p.token \in Tokens /\ p.context \in BOOLEAN
       /\ \A k \in Kinds : k.verb \in Verbs /\ k.range \in BOOLEAN
BY SituationAssumption DEF Params, Kinds, Cloned, MaxSends, Situation

\* A thread looks at one of the pools.
LEMMA PoolFacts ==
  ASSUME NEW t \in Threads, cache_pool_idx \in [Threads -> Pools],
         visited \in [Threads -> 0..PoolCount]
  PROVE  PoolOf(t) \in Pools
BY SetAssumption DEF PoolOf, Pools

\* Initialize sets a client up for the parameters and leaves a clean one clean.
LEMMA InitializeFacts ==
  ASSUME NEW c \in ClientRecords, NEW p, p.token \in Tokens, NEW q \in Threads
  PROVE  /\ Initialize(c, p, q) \in ClientRecords
         /\ Initialize(c, p, q).base = c.base /\ Initialize(c, p, q).token = p.token
         /\ Initialize(c, p, q).state = q /\ Initialize(c, p, q).info = "own"
         /\ Clean(c) => Clean(Initialize(c, p, q))
BY SetAssumption DEF ClientRecords, Initialize, NewHandle, Clean

\* A new client is a clean one.
LEMMA NewClientFacts ==
  ASSUME NEW base \in BaseUrls
  PROVE  NewClient(base) \in ClientRecords /\ NewClient(base).base = base
         /\ Clean(NewClient(base))
BY DEF ClientRecords, NewClient, Clean

\* From a clean handle, a request puts exactly its own options in.
LEMMA PreparedFacts ==
  ASSUME NEW c \in ClientRecords, Clean(c), NEW t \in Threads, NEW r \in Requests,
         r.verb \in Verbs, r.body = (IF r.verb \in {"PUT", "POST"} THEN t ELSE None),
         r.flag = FlagOf(t)
  PROVE  /\ Prepared(c, r) \in ClientRecords /\ Carries(Prepared(c, r), r, t)
         /\ Prepared(c, r).base = c.base /\ Prepared(c, r).token = c.token
         /\ Prepared(c, r).state = c.state /\ Prepared(c, r).info = c.info
<1> DEFINE e == AcceptEncoding(ResetRequestInfo(c), r)
<1>1. /\ e \in ClientRecords /\ Clean(e) /\ e.watch = None
      /\ e.identity = (r.verb = "HEAD" \/ r.range)
      /\ e.base = c.base /\ e.token = c.token /\ e.state = c.state /\ e.info = c.info
  BY DEF AcceptEncoding, ResetRequestInfo, ClientRecords, Clean, Requests
<1> HIDE DEF e
<1> DEFINE v == SetVerb(e, r)
<1>2. /\ v \in ClientRecords /\ v.watch = None /\ v.identity = e.identity
      /\ v.base = e.base /\ v.token = e.token /\ v.state = e.state /\ v.info = e.info
      /\ v.custom = IF r.verb \in {"PUT", "DELETE"} THEN r.verb ELSE None
      /\ v.fields = r.body
      /\ r.verb \in {"PUT", "POST"} => v.method = "POST"
      /\ r.verb \in {"GET", "HEAD"} => v.method = r.verb
      /\ r.verb = "DELETE" => v.method \in {"GET", "POST"}
  <2>1. CASE r.verb \in {"GET", "HEAD"}
    BY ZenonT(60), <1>1, <2>1
       DEF SetVerb, Get, Head, SetHttpGet, SetNoBody, ClientRecords, Clean
  <2>2. CASE r.verb = "DELETE"
    BY <1>1, <2>2 DEF SetVerb, Delete, SetCustom, ClientRecords, Clean, Verbs
  <2>3. CASE r.verb = "PUT"
    BY ZenonT(60), <1>1, <2>3
       DEF SetVerb, Put, SetCustom, SetPostFields, ClientRecords, Clean, Verbs
  <2>4. CASE r.verb = "POST"
    BY <1>1, <2>4 DEF SetVerb, Post, SetPost, SetPostFields, ClientRecords, Clean
  <2> QED
    BY <2>1, <2>2, <2>3, <2>4 DEF Verbs
<1> HIDE DEF v
<1> QED
  BY <1>1, <1>2 DEF Prepared, e, v, ArmCancellation, Carries, ClientRecords, Requests

\* When the request is over, they are all out again.
LEMMA RestoredFacts ==
  ASSUME NEW c \in ClientRecords, NEW t \in Threads, NEW r \in Requests, Carries(c, r, t),
         NEW d, d = BodyGone(Restored(c, r.verb), t)
  PROVE  /\ d \in ClientRecords /\ Clean(d)
         /\ d.base = c.base /\ d.token = c.token /\ d.state = c.state /\ d.info = c.info
<1>1. CASE r.verb \in {"GET", "HEAD"}
  BY ZenonT(60), <1>1, SetAssumption
  DEF Carries, BodyGone, Restored, SetHttpGet, SetNoBody, ClientRecords, Clean
<1>2. CASE r.verb = "DELETE"
  BY ZenonT(60), <1>2, SetAssumption
     DEF Carries, BodyGone, Restored, SetCustom, ClientRecords, Clean
<1>3. CASE r.verb = "PUT"
  BY <1>3, SetAssumption
  DEF BodyGone, Restored, SetCustom, SetPostFields, ClientRecords, Clean
<1>4. CASE r.verb = "POST"
  BY ZenonT(60), <1>4, SetAssumption
  DEF BodyGone, Restored, SetCustom, SetPost, SetPostFields, ClientRecords, Clean
<1> QED
  BY <1>1, <1>2, <1>3, <1>4 DEF Carries, Verbs

\* A client that a thread has exists, and nobody else has it.
LEMMA HeldFacts ==
  ASSUME CacheInv, NEW t \in Threads, client[t] # None
  PROVE  /\ client[t] \in Clients /\ ClientOf(t) \in ClientRecords
         /\ clients[client[t]] # None
         /\ \A u \in Threads : u # t => client[u] # client[t]
         /\ \A p \in Pools, s \in Slots : entries[p][s] # client[t]
         /\ ~Executing(t) => Clean(ClientOf(t))
BY NoneAssumption
DEF CacheInv, Types, TypeOK, Distinct, OwnedExist, HasOwner, IdleIsClean, InUse, Executing,
    ClientOf

\* A step of thread t leaves the other threads alone, and their clients.
OthersStay(t) ==
  \A u \in Threads \ {t} :
    /\ pc'[u] = pc[u] /\ params'[u] = params[u] /\ request'[u] = request[u]
    /\ client'[u] = client[u]
    /\ client[u] # None => clients'[client[u]] = clients[client[u]]

\* Then their clients are still set up for them, and no client that t has not had
\* becomes idle or unclean.
LEMMA OthersKeep ==
  ASSUME CacheInv, UNCHANGED situation, NEW t \in Threads, OthersStay(t)
  PROVE  /\ \A u \in Threads \ {t} : SetUp(u)' /\ Carried(u)'
         /\ \A c \in Clients : clients'[c] = clients[c] /\ clients[c] # None
                               /\ c # client[t] /\ ~InUse(c)' => Clean(clients[c])
<1> USE DEF OthersStay
<1>1. ASSUME NEW u \in Threads \ {t} PROVE SetUp(u)' /\ Carried(u)'
  <2>1. SetUp(u) /\ Carried(u)
    BY DEF CacheInv, ReadyIsSetUp, ExecutingCarries
  <2>2. FlagOf(u)' = FlagOf(u)
    BY SituationFacts DEF FlagOf
  <2>3. SetUp(u)'
    BY <2>1 DEF SetUp, SetUpFor, ClientOf
  <2>4. Carried(u)'
    <3>1. pc[u] = "executing" => client[u] # None
      BY DEF CacheInv, ThreadsInv, Holding
    <3> QED
      BY <2>1, <2>2, <3>1 DEF Carried, Carries, Executing, ClientOf
  <2> QED
    BY <2>3, <2>4
<1>2. ASSUME NEW c \in Clients, clients[c] # None, c # client[t], ~InUse(c)'
      PROVE  Clean(clients[c])
  <2>1. ~InUse(c)
    BY <1>2 DEF InUse
  <2> QED
    BY <1>2, <2>1 DEF CacheInv, IdleIsClean
<1> QED
  BY <1>1, <1>2

\* A step that works on the client that t has, or has none, and changes no owner.
LEMMA OwnStep ==
  ASSUME CacheInv, UNCHANGED <<situation, entries, client>>, Types', ThreadsInv',
         NEW t \in Threads, OthersStay(t),
         \A c \in Clients : c # client[t] => clients'[c] = clients[c],
         client[t] # None => clients'[client[t]] # None,
         client[t] # None /\ pc'[t] # "executing" => Clean(clients'[client[t]]),
         SetUp(t)', Carried(t)'
  PROVE  CacheInv'
<1>1. Distinct'
  BY DEF CacheInv, Distinct
<1>2. OwnedExist'
  <2>1. ASSUME NEW c \in Clients PROVE (clients'[c] # None) <=> (clients[c] # None)
    BY HeldFacts, SetAssumption
  <2>2. \A c \in Clients : HasOwner(c)' <=> HasOwner(c)
    BY DEF HasOwner
  <2> QED
    BY <2>1, <2>2 DEF CacheInv, OwnedExist
<1>3. IdleIsClean'
  <2> SUFFICES ASSUME NEW c \in Clients, clients'[c] # None, ~InUse(c)'
               PROVE  Clean(clients'[c])
    BY DEF IdleIsClean
  <2>1. CASE c = client[t]
    BY <2>1, SetAssumption DEF InUse
  <2>2. CASE c # client[t]
    BY <2>2, OthersKeep
  <2> QED
    BY <2>1, <2>2
<1> QED
  BY <1>1, <1>2, <1>3, OthersKeep DEF CacheInv, ReadyIsSetUp, ExecutingCarries

\* A step that destroys the client that t has, or has none.
LEMMA DropStep ==
  ASSUME CacheInv, UNCHANGED <<situation, entries>>, Types', ThreadsInv',
         NEW t \in Threads, OthersStay(t), pc'[t] # "executing",
         client' = [client EXCEPT ![t] = None],
         clients' = [c \in Clients |-> IF c = client[t] THEN None ELSE clients[c]]
  PROVE  CacheInv'
<1> USE SetAssumption DEF CacheInv, Types, TypeOK
<1>1. Distinct'
  BY DEF Distinct
<1>2. OwnedExist'
  <2>1. ASSUME NEW c \in Clients PROVE (clients'[c] # None) <=> HasOwner(c)'
    <3>1. CASE c = client[t]
      <4>1. clients'[c] = None
        BY <3>1
      <4>2. \A u \in Threads : client'[u] # c
        BY SMTT(30), <3>1, HeldFacts
      <4>3. \A p \in Pools, s \in Slots : entries'[p][s] # c
        BY SMTT(30), <3>1, HeldFacts
      <4> QED
        BY <4>1, <4>2, <4>3 DEF HasOwner
    <3>2. CASE c # client[t]
      <4>1. clients'[c] = clients[c]
        BY <3>2
      <4>2. HasOwner(c)' <=> HasOwner(c)
        BY <3>2 DEF HasOwner
      <4> QED
        BY <4>1, <4>2 DEF OwnedExist
    <3> QED
      BY <3>1, <3>2
  <2> QED
    BY <2>1 DEF OwnedExist
<1>3. IdleIsClean'
  BY OthersKeep DEF IdleIsClean
<1>4. SetUp(t)' /\ Carried(t)'
  BY DEF SetUp, Carried, Executing
<1> QED
  BY <1>1, <1>2, <1>3, <1>4, OthersKeep DEF ReadyIsSetUp, ExecutingCarries

\* A step that gives t a client out of the pools, or a new one.
LEMMA TakeStep ==
  ASSUME CacheInv, UNCHANGED situation, Types', ThreadsInv',
         NEW t \in Threads, OthersStay(t), pc'[t] # "executing", client[t] = None,
         NEW c \in Clients, client' = [client EXCEPT ![t] = c],
         \A d \in Clients : d # c => clients'[d] = clients[d],
         \A u \in Threads : client[u] # c,
         \A p \in Pools, s \in Slots :
           /\ entries'[p][s] # c
           /\ entries[p][s] # c => entries'[p][s] = entries[p][s]
           /\ entries[p][s] = c => entries'[p][s] = None,
         clients'[c] # None, Clean(clients'[c]), SetUp(t)'
  PROVE  CacheInv'
<1> USE SetAssumption DEF CacheInv, Types, TypeOK
<1>1. Distinct'
  <2>1. \A u \in Threads : client'[u] = IF u = t THEN c ELSE client[u]
    OBVIOUS
  <2>2. \A p \in Pools, s \in Slots : entries'[p][s] \in {entries[p][s], None}
    OBVIOUS
  <2> QED
    BY <2>1, <2>2 DEF Distinct
<1>2. OwnedExist'
  <2>1. ASSUME NEW d \in Clients PROVE (clients'[d] # None) <=> HasOwner(d)'
    <3>1. CASE d = c
      BY <3>1 DEF HasOwner
    <3>2. CASE d # c
      <4>1. HasOwner(d)' <=> HasOwner(d)
        BY <3>2 DEF HasOwner
      <4> QED
        BY <3>2, <4>1 DEF OwnedExist
    <3> QED
      BY <3>1, <3>2
  <2> QED
    BY <2>1 DEF OwnedExist
<1>3. IdleIsClean'
  <2> SUFFICES ASSUME NEW d \in Clients, clients'[d] # None, ~InUse(d)'
               PROVE  Clean(clients'[d])
    BY DEF IdleIsClean
  <2>1. CASE d # c
    BY <2>1, OthersKeep
  <2> QED
    BY <2>1
<1>4. Carried(t)'
  BY DEF Carried, Executing
<1> QED
  BY <1>1, <1>2, <1>3, <1>4, OthersKeep DEF ReadyIsSetUp, ExecutingCarries

\* StoreIn moves the client of t into a slot and destroys the one that was there.
LEMMA PutStep ==
  ASSUME CacheInv, UNCHANGED situation, Types', ThreadsInv',
         NEW t \in Threads, OthersStay(t), pc'[t] = "done",
         client[t] # None, ~Executing(t), client' = [client EXCEPT ![t] = None],
         NEW p \in Pools, NEW s \in Slots,
         entries' = [entries EXCEPT ![p][s] = client[t]],
         clients' = [c \in Clients |-> IF c = entries[p][s] THEN None ELSE clients[c]]
  PROVE  CacheInv'
<1> USE SetAssumption DEF CacheInv, Types, TypeOK
<1>a. /\ client[t] \in Clients /\ Clean(clients[client[t]]) /\ clients[client[t]] # None
      /\ \A u \in Threads : u # t => client[u] # client[t]
      /\ \A q \in Pools, r \in Slots : entries[q][r] # client[t]
  BY HeldFacts DEF ClientOf
<1>b. \A q \in Pools, r \in Slots :
        entries'[q][r] = IF q = p /\ r = s THEN client[t] ELSE entries[q][r]
  OBVIOUS
<1>c. \A u \in Threads : client'[u] = IF u = t THEN None ELSE client[u]
  OBVIOUS
<1>1. Distinct'
  BY <1>a, <1>b, <1>c DEF Distinct
<1>2. OwnedExist'
  <2>1. ASSUME NEW d \in Clients PROVE (clients'[d] # None) <=> HasOwner(d)'
    <3>1. CASE d = client[t]
      <4>1. clients'[d] # None
        BY <1>a, <3>1
      <4>2. entries'[p][s] = d
        BY <1>b, <3>1
      <4> QED
        BY <4>1, <4>2 DEF HasOwner
    <3>2. CASE d = entries[p][s]
      <4>1. clients'[d] = None
        BY <3>2
      <4>2. \A u \in Threads : client'[u] # d
        BY <1>c, <3>2 DEF Distinct
      <4>3. \A q \in Pools, r \in Slots : entries'[q][r] # d
        BY <1>a, <1>b, <3>2 DEF Distinct
      <4> QED
        BY <4>1, <4>2, <4>3 DEF HasOwner
    <3>3. CASE d # client[t] /\ d # entries[p][s]
      <4>1. clients'[d] = clients[d]
        BY <3>3
      <4>2. HasOwner(d)' <=> HasOwner(d)
        BY <1>b, <1>c, <3>3 DEF HasOwner
      <4> QED
        BY <4>1, <4>2 DEF OwnedExist
    <3> QED
      BY <3>1, <3>2, <3>3
  <2> QED
    BY <2>1 DEF OwnedExist
<1>3. IdleIsClean'
  <2> SUFFICES ASSUME NEW d \in Clients, clients'[d] # None, ~InUse(d)'
               PROVE  Clean(clients'[d])
    BY DEF IdleIsClean
  <2>1. clients'[d] = clients[d]
    OBVIOUS
  <2>2. CASE d # client[t]
    BY <2>1, <2>2, OthersKeep
  <2> QED
    BY <1>a, <2>1, <2>2
<1>4. SetUp(t)' /\ Carried(t)'
  BY DEF SetUp, Carried, Executing
<1> QED
  BY <1>1, <1>2, <1>3, <1>4, OthersKeep DEF ReadyIsSetUp, ExecutingCarries

-----------------------------------------------------------------------------
\* A step that touches no client: one that begins, searches, locks or unlocks.
LEMMA SearchStep ==
  ASSUME CacheInv, UNCHANGED <<situation, clients, entries, client, request>>,
         Types', ThreadsInv', NEW t \in Threads, pc[t] # "executing", pc'[t] # "executing",
         params'[t] = params[t] \/ client[t] = None,
         pc'[t] \in {"ready", "send"} => pc[t] \in {"ready", "send"} \/ client[t] = None,
         \A u \in Threads \ {t} : pc'[u] = pc[u] /\ params'[u] = params[u]
  PROVE  CacheInv'
<1>1. OthersStay(t)
  BY DEF OthersStay
<1>2. SetUp(t)'
  BY DEF CacheInv, ReadyIsSetUp, SetUp, SetUpFor, ClientOf
<1>3. Carried(t)' /\ (client[t] # None => clients'[client[t]] # None /\ Clean(clients'[client[t]]))
  BY HeldFacts DEF Carried, Executing, ClientOf
<1> QED
  BY <1>1, <1>2, <1>3, OwnStep

\* A thread begins.
LEMMA BeginStep ==
  ASSUME NEW t \in Threads, CacheInv, Begin(t), UNCHANGED situation
  PROVE  CacheInv'
<1> USE SituationFacts DEF CacheInv, Types, TypeOK, Begin, cache
<1>1. Types'
  BY DEF PcSet
<1>2. ThreadsInv'
  BY DEF ThreadsInv, Holding
<1> QED
  BY <1>1, <1>2, SearchStep DEF ThreadsInv

\* A thread without a client looks for one.
LEMMA InitializeClientStep ==
  ASSUME NEW t \in Threads, CacheInv, InitializeClient(t), UNCHANGED situation
  PROVE  CacheInv'
<1> USE SituationFacts, SetAssumption DEF CacheInv, Types, TypeOK, InitializeClient, cache, thread
<1>1. Types'
  BY DEF PcSet
<1>2. ThreadsInv'
  BY DEF ThreadsInv, Holding
<1> QED
  BY <1>1, <1>2, SearchStep

\* A request goes out through a client that is clean and set up for the thread.
LEMMA SendStep ==
  ASSUME NEW t \in Threads, CacheInv, Send(t), UNCHANGED situation
  PROVE  CacheInv'
<1> USE SetAssumption DEF CacheInv, Types, TypeOK, cache, thread
<1> PICK k \in Kinds :
      LET r == [verb |-> k.verb, range |-> k.range, flag |-> FlagOf(t),
                body |-> IF k.verb \in {"PUT", "POST"} THEN t ELSE None]
      IN  /\ request' = [request EXCEPT ![t] = r]
          /\ clients' = [clients EXCEPT ![client[t]] = Prepared(@, r)]
  BY DEF Send
<1> DEFINE r == [verb |-> k.verb, range |-> k.range, flag |-> FlagOf(t),
                 body |-> IF k.verb \in {"PUT", "POST"} THEN t ELSE None]
<1>1. r \in Requests /\ r.verb \in Verbs /\ r.flag = FlagOf(t)
      /\ r.body = (IF r.verb \in {"PUT", "POST"} THEN t ELSE None)
  BY SituationFacts DEF Requests, FlagOf
<1> HIDE DEF r
<1>2. request' = [request EXCEPT ![t] = r]
      /\ clients' = [clients EXCEPT ![client[t]] = Prepared(clients[client[t]], r)]
  BY DEF r
<1>3. client[t] \in Clients /\ clients[client[t]] \in ClientRecords /\ Clean(clients[client[t]])
  BY HeldFacts DEF Send, Executing, ClientOf
<1> DEFINE c == clients[client[t]]  d == Prepared(c, r)
<1>4. /\ d \in ClientRecords /\ Carries(d, r, t)
      /\ d.base = c.base /\ d.token = c.token /\ d.state = c.state /\ d.info = c.info
  BY <1>1, <1>3, PreparedFacts
<1> HIDE DEF c, d
<1>5. clients' = [clients EXCEPT ![client[t]] = d]
  BY <1>2 DEF c, d
<1>6. Types'
  BY <1>1, <1>2, <1>4, <1>5, SituationFacts DEF Send, PcSet
<1>7. ThreadsInv'
  BY SituationFacts DEF ThreadsInv, Send, Holding
<1>8. OthersStay(t)
  BY <1>2, <1>5, HeldFacts DEF OthersStay, Send
<1>9. clients'[client[t]] = d /\ clients'[client[t]] # None /\ request'[t] = r
  BY <1>2, <1>3, <1>4, <1>5, NoneAssumption
<1>10. SetUp(t)'
  <2>1. SetUpFor(c, t)
    BY DEF ReadyIsSetUp, SetUp, Send, ClientOf, c
  <2> QED
    BY <1>4, <1>9, <2>1 DEF SetUp, SetUpFor, Send, ClientOf
<1>11. Carried(t)'
  <2>1. FlagOf(t)' = FlagOf(t)
    BY SituationFacts DEF FlagOf, Send
  <2> QED
    BY <1>4, <1>9, <2>1 DEF Carried, Carries, Send, ClientOf
<1> QED
  BY <1>3, <1>5, <1>6, <1>7, <1>8, <1>9, <1>10, <1>11, OwnStep DEF Send

\* A request is over: its options are out of the handle before anybody else gets it.
LEMMA AnsweredStep ==
  ASSUME NEW t \in Threads, CacheInv, Answered(t), UNCHANGED situation
  PROVE  CacheInv'
<1> USE SetAssumption DEF CacheInv, Types, TypeOK, cache, thread
<1> DEFINE c == clients[client[t]]  d == BodyGone(Restored(c, request[t].verb), t)
<1>1. client[t] # None /\ client[t] \in Clients /\ c \in ClientRecords
  BY HeldFacts DEF Answered, ThreadsInv, Holding, ClientOf
<1>2. Carries(c, request[t], t) /\ SetUpFor(c, t)
  BY <1>1
     DEF ExecutingCarries, Carried, ReadyIsSetUp, SetUp, Executing, Answered, ClientOf
<1>3. /\ d \in ClientRecords /\ Clean(d)
      /\ d.base = c.base /\ d.token = c.token /\ d.state = c.state /\ d.info = c.info
  BY <1>1, <1>2, RestoredFacts
<1>4. /\ request' = [request EXCEPT ![t] = NoRequest]
      /\ \/ /\ clients' = [clients EXCEPT ![client[t]] = d]
            /\ pc' = [pc EXCEPT ![t] = "ready"] \/ pc' = [pc EXCEPT ![t] = "store"]
            /\ UNCHANGED client
         \/ /\ clients' = [clients EXCEPT ![client[t]] = None]
            /\ client' = [client EXCEPT ![t] = None]
            /\ pc' = [pc EXCEPT ![t] = "done"]
      /\ UNCHANGED <<entries, lock, cache_pool_idx, params, clearing>>
      /\ visited' = visited \/ visited' = [visited EXCEPT ![t] = 0]
  BY DEF Answered
<1> HIDE DEF c, d
<1>5. Types'
  <2>1. NoRequest \in Requests
    BY DEF NoRequest, Requests
  <2>2. clients' \in [Clients -> ClientRecords \cup {None}]
    <3>1. clients \in [Clients -> ClientRecords \cup {None}]
      OBVIOUS
    <3> QED
      BY <1>1, <1>3, <1>4, <3>1
  <2>4. client' \in [Threads -> Clients \cup {None}]
    BY <1>4
  <2>3. request' \in [Threads -> Requests] /\ pc' \in [Threads -> PcSet]
    BY <1>4, <2>1 DEF PcSet
  <2>5. visited' \in [Threads -> 0..PoolCount]
    BY <1>4
  <2> QED
    BY <1>4, <2>2, <2>3, <2>4, <2>5, SituationFacts
<1>6. ThreadsInv'
  BY <1>1, <1>4, SituationFacts DEF ThreadsInv, Holding, Answered
<1>7. OthersStay(t)
  BY <1>1, <1>4, HeldFacts DEF OthersStay
<1>8. CASE UNCHANGED client
  <2>1. clients' = [clients EXCEPT ![client[t]] = d] /\ pc'[t] \in {"ready", "store"}
    BY <1>1, <1>4, <1>8
  <2>2. SetUp(t)' /\ Carried(t)'
    BY <1>1, <1>2, <1>3, <1>4, <1>8, <2>1
    DEF SetUp, SetUpFor, Carried, Executing, ClientOf
  <2> QED
    BY <1>1, <1>3, <1>4, <1>5, <1>6, <1>7, <1>8, <2>1, <2>2, OwnStep, NoneAssumption
<1>9. CASE client' = [client EXCEPT ![t] = None]
  <2>1. clients' = [clients EXCEPT ![client[t]] = None] /\ pc'[t] = "done"
    BY <1>1, <1>4, <1>9
  <2> QED
    BY ZenonT(60), <1>4, <1>5, <1>6, <1>7, <1>9, <2>1, DropStep
<1> QED
  BY <1>4, <1>8, <1>9

\* A transfer fails and its client is dropped.
LEMMA RetriedStep ==
  ASSUME NEW t \in Threads, CacheInv, Retried(t), UNCHANGED situation
  PROVE  CacheInv'
<1> USE SetAssumption DEF CacheInv, Types, TypeOK, Retried, cache, thread
<1>1. Types'
  BY SituationFacts DEF PcSet
<1>2. ThreadsInv'
  BY SituationFacts DEF ThreadsInv, Holding
<1>3. OthersStay(t)
  BY HeldFacts DEF OthersStay, ThreadsInv, Holding
<1> QED
  BY <1>1, <1>2, <1>3, DropStep

\* A handle is closed: its client is dropped, or cleaned up to be stored.
LEMMA CloseStep ==
  ASSUME NEW t \in Threads, CacheInv, Close(t), UNCHANGED situation
  PROVE  CacheInv'
<1> USE SetAssumption DEF CacheInv, Types, TypeOK, cache, thread
<1>1. CASE /\ client[t] # None
           /\ clients' = [clients EXCEPT ![client[t]] = Cleanup(@)]
           /\ pc' = [pc EXCEPT ![t] = "store"]
           /\ visited' = [visited EXCEPT ![t] = 0]
           /\ UNCHANGED client
  <2> DEFINE c == clients[client[t]]  d == Cleanup(c)
  <2>1. client[t] \in Clients /\ c \in ClientRecords /\ Clean(c)
    BY <1>1, HeldFacts DEF Close, Executing, ClientOf
  <2>2. d \in ClientRecords /\ Clean(d) /\ clients' = [clients EXCEPT ![client[t]] = d]
    BY <1>1, <2>1 DEF Cleanup, ClientRecords, Clean
  <2> HIDE DEF c, d
  <2>3. Types'
    BY <1>1, <2>1, <2>2, SituationFacts DEF Close, PcSet
  <2>4. ThreadsInv'
    BY <1>1, SituationFacts DEF ThreadsInv, Holding, Close
  <2>5. OthersStay(t)
    BY <1>1, <2>1, <2>2, HeldFacts DEF OthersStay, Close
  <2>6. SetUp(t)' /\ Carried(t)'
    BY <1>1 DEF SetUp, Carried, Executing
  <2> QED
    BY <1>1, <2>1, <2>2, <2>3, <2>4, <2>5, <2>6, OwnStep, NoneAssumption DEF Close
<1>2. CASE /\ clients' = [c \in Clients |-> IF c = client[t] THEN None ELSE clients[c]]
           /\ client' = [client EXCEPT ![t] = None]
           /\ pc' = [pc EXCEPT ![t] = "done"]
           /\ UNCHANGED visited
  <2>1. Types'
    BY <1>2, SituationFacts DEF Close, PcSet
  <2>2. ThreadsInv'
    BY <1>2, SituationFacts DEF ThreadsInv, Holding, Close
  <2>3. OthersStay(t)
    BY <1>2, HeldFacts DEF OthersStay, Close
  <2> QED
    BY <1>2, <2>1, <2>2, <2>3, DropStep DEF Close
<1> QED
  BY <1>1, <1>2 DEF Close

\* The memory of a query goes: no thread but t can have a client that points to it,
\* and t has none.
LEMMA EndStep ==
  ASSUME NEW t \in Threads, CacheInv, End(t), UNCHANGED situation
  PROVE  CacheInv'
<1> USE SetAssumption DEF CacheInv, Types, TypeOK, cache, thread
<1>1. ASSUME NEW c \in Clients, clients[c] # None
      PROVE  LET d == clients[c]  e == clients'[c]
             IN  /\ e \in ClientRecords /\ e.base = d.base /\ e.token = d.token
                 /\ e.info = d.info /\ e.custom = d.custom /\ e.fields = d.fields
                 /\ e.method = d.method /\ e.identity = d.identity
                 /\ d.state # t => e.state = d.state
                 /\ d.watch # t => e.watch = d.watch
  <2>1. clients[c] \in ClientRecords /\ clients'[c] = QueryGone(clients[c], t)
    BY <1>1 DEF End
  <2> QED
    BY <2>1 DEF QueryGone, ClientRecords
<1>2. \A c \in Clients : (clients'[c] = None) <=> (clients[c] = None)
  BY <1>1, NoneAssumption DEF End
<1>3. client[t] = None /\ UNCHANGED <<client, entries, request>>
      /\ \A u \in Threads \ {t} : pc'[u] = pc[u] /\ params'[u] = params[u]
  BY DEF End, ThreadsInv
<1>4. Types'
  <2>1. clients' \in [Clients -> ClientRecords \cup {None}]
    BY <1>1, <1>2 DEF End
  <2> QED
    BY <2>1, SituationFacts DEF End, PcSet
<1>5. ThreadsInv'
  BY SituationFacts DEF ThreadsInv, Holding, End
<1>6. Distinct' /\ OwnedExist'
  <2>1. \A c \in Clients : HasOwner(c)' <=> HasOwner(c)
    BY <1>3 DEF HasOwner
  <2> QED
    BY <1>2, <1>3, <2>1 DEF Distinct, OwnedExist
<1>7. IdleIsClean'
  <2> SUFFICES ASSUME NEW c \in Clients, clients[c] # None, ~InUse(c)'
               PROVE  Clean(clients'[c])
    BY <1>2 DEF IdleIsClean
  <2>1. ~InUse(c)
    BY <1>3 DEF InUse, End
  <2>2. Clean(clients[c])
    BY <2>1 DEF IdleIsClean
  <2> QED
    BY <1>1, <2>2 DEF Clean
<1>8. ASSUME NEW u \in Threads PROVE SetUp(u)' /\ Carried(u)'
  <2>1. CASE u = t
    BY <1>3, <2>1 DEF SetUp, Carried, Executing, End
  <2>2. CASE u # t
    <3>1. SetUp(u) /\ Carried(u) /\ FlagOf(u)' = FlagOf(u) /\ FlagOf(u) \in {u, None}
      BY <1>3, <2>2, SituationFacts DEF ReadyIsSetUp, ExecutingCarries, FlagOf
    <3>2. client[u] # None => client[u] \in Clients /\ clients[client[u]] # None
      BY HeldFacts
    <3>3. SetUp(u)'
      BY <1>1, <1>3, <2>2, <3>1, <3>2 DEF SetUp, SetUpFor, ClientOf
    <3>4. Carried(u)'
      <4>1. SUFFICES ASSUME pc[u] = "executing" PROVE Carries(ClientOf(u), request[u], u)'
        BY <1>3, <2>2 DEF Carried, Executing
      <4>2. Carries(ClientOf(u), request[u], u) /\ client[u] # None
        BY <3>1, <4>1 DEF Carried, Executing, ThreadsInv, Holding
      <4>3. ClientOf(u).watch # t
        BY <2>2, <3>1, <4>2 DEF Carries
      <4> QED
        BY <1>1, <1>3, <3>1, <3>2, <4>2, <4>3 DEF Carries, ClientOf
    <3> QED
      BY <3>3, <3>4
  <2> QED
    BY <2>1, <2>2
<1> QED
  BY <1>4, <1>5, <1>6, <1>7, <1>8 DEF ReadyIsSetUp, ExecutingCarries

-----------------------------------------------------------------------------
\* The image of a finite set is no larger.
LEMMA ImageIsNoLarger ==
  ASSUME NEW S, IsFiniteSet(S), NEW f
  PROVE  LET T == {f[x] : x \in S} IN IsFiniteSet(T) /\ Cardinality(T) <= Cardinality(S)
<1> DEFINE T == {f[x] : x \in S}  g == [x \in S |-> f[x]]
<1>1. g \in Surjection(S, T)
  BY DEF Surjection
<1> QED
  BY <1>1, FS_Surjection

\* While a thread has no client, one object is not in use: Find's allocation.
LEMMA UnusedFacts ==
  ASSUME CacheInv, NEW t \in Threads, client[t] = None
  PROVE  Unused \in Clients /\ clients[Unused] = None
<1> USE SetAssumption, ClientsAssumption
<1>1. SUFFICES ASSUME \A c \in Clients : clients[c] # None PROVE FALSE
  BY DEF Unused
<1> DEFINE A == Threads \ {t}  B == Pools \X Slots
           inB == [e \in B |-> entries[e[1]][e[2]]]
           S == {client[x] : x \in A}  T == {inB[x] : x \in B}
<1>2. Clients \subseteq S \cup T
  <2> SUFFICES ASSUME NEW c \in Clients, c \notin S PROVE c \in T
    OBVIOUS
  <2>1. HasOwner(c) /\ c # None
    BY <1>1 DEF CacheInv, OwnedExist
  <2>2. \A u \in Threads : client[u] # c
    BY <2>1
  <2>3. PICK p \in Pools, s \in Slots : entries[p][s] = c
    BY <2>1, <2>2 DEF HasOwner
  <2>4. <<p, s>> \in B /\ inB[<<p, s>>] = c
    BY <2>3
  <2> QED
    BY <2>4
<1>3. IsFiniteSet(A) /\ Cardinality(A) = Cardinality(Threads) - 1
      /\ Cardinality(Threads) \in Nat
  BY FS_RemoveElement, FS_CardinalityType
<1>4. IsFiniteSet(B) /\ Cardinality(B) = PoolCount * Cardinality(Slots)
      /\ Cardinality(Slots) \in Nat
  <2>1. IsFiniteSet(Pools) /\ Cardinality(Pools) = PoolCount
    BY FS_Interval DEF Pools
  <2> QED
    BY <2>1, FS_Product, FS_CardinalityType
<1>5. IsFiniteSet(S) /\ Cardinality(S) <= Cardinality(A)
  BY <1>3, ImageIsNoLarger
<1>6. IsFiniteSet(T) /\ Cardinality(T) <= Cardinality(B)
  <2> HIDE DEF B, inB
  <2> QED
    BY <1>4, ImageIsNoLarger
<1>7. Cardinality(Clients) <= Cardinality(S \cup T) /\ IsFiniteSet(S \cup T)
  BY <1>2, <1>5, <1>6, FS_Union, FS_Subset
<1>8. Cardinality(S \cup T) <= Cardinality(S) + Cardinality(T)
      /\ Cardinality(S \cup T) \in Nat /\ Cardinality(S) \in Nat /\ Cardinality(T) \in Nat
  <2>1. Cardinality(S \cap T) \in Nat
    BY <1>5, FS_Subset, FS_CardinalityType
  <2>2. Cardinality(S \cup T) = Cardinality(S) + Cardinality(T) - Cardinality(S \cap T)
    BY <1>5, <1>6, FS_Union
  <2>3. Cardinality(S) \in Nat /\ Cardinality(T) \in Nat /\ Cardinality(S \cup T) \in Nat
    BY <1>5, <1>6, <1>7, FS_CardinalityType
  <2> HIDE DEF S, T
  <2> QED
    BY <2>1, <2>2, <2>3
<1>9. Cardinality(Clients) \in Nat /\ PoolCount * Cardinality(Slots) \in Nat
  BY <1>4, FS_CardinalityType
<1> HIDE DEF A, B, S, T
<1> QED
  BY <1>3, <1>4, <1>5, <1>6, <1>7, <1>8, <1>9

\* Nothing fits, or the pool is locked, or every pool has been looked at.
LEMMA LookStep ==
  ASSUME NEW t \in Threads, CacheInv,
         UNCHANGED <<situation, clients, entries, client, request, params, cache_pool_idx, clearing>>,
         lock' \in [Pools -> Threads \cup {Main, None}], visited' \in [Threads -> 0..PoolCount],
         \A u \in Threads \ {t} : visited'[u] = visited[u],
         NEW v \in PcSet \ {"executing"}, pc' = [pc EXCEPT ![t] = v],
         pc[t] \in {"find", "finding", "store", "storing", "evict", "evicting"},
         client[t] = None => v \in {"find", "finding", "ready"},
         client[t] # None => v \in {"store", "storing", "evict", "evicting"},
         v \in {"finding", "storing", "evicting"} => visited'[t] < PoolCount
  PROVE  CacheInv'
<1> USE SetAssumption DEF CacheInv, Types, TypeOK
<1>1. Types'
  BY SituationFacts
<1>2. \A u \in Threads : pc'[u] = IF u = t THEN v ELSE pc[u]
  OBVIOUS
<1>3. ThreadsInv'
  BY <1>2, SituationFacts DEF ThreadsInv, Holding
<1> QED
  BY <1>1, <1>2, <1>3, SearchStep

\* try_lock on a pool, or on to the next one.
LEMMA TryLockStep ==
  ASSUME NEW t \in Threads, CacheInv,
         UNCHANGED <<situation, clients, entries, client, request, params, cache_pool_idx, clearing>>,
         NEW v \in {"finding", "storing", "evicting"}, TryLock(t, v),
         pc[t] \in {"find", "store", "evict"},
         (v = "finding") <=> (client[t] = None)
  PROVE  CacheInv'
<1> USE SetAssumption DEF CacheInv, Types, TypeOK
<1>1. PoolOf(t) \in Pools /\ visited[t] \in Nat /\ PoolCount \in Nat
  BY PoolFacts
<1>2. CASE /\ lock' = [lock EXCEPT ![PoolOf(t)] = t]
           /\ pc' = [pc EXCEPT ![t] = v]
           /\ UNCHANGED visited
  BY <1>1, <1>2, LookStep DEF TryLock, PcSet
<1>3. CASE /\ visited' = [visited EXCEPT ![t] = @ + 1]
           /\ UNCHANGED <<lock, pc>>
  <2>1. visited' \in [Threads -> 0..PoolCount]
    BY <1>1, <1>3 DEF TryLock
  <2>2. pc' = [pc EXCEPT ![t] = pc[t]]
    BY <1>3
  <2>3. client[t] # None => pc[t] # "find"
    BY DEF ThreadsInv
  <2>4. client[t] = None => pc[t] = "find"
    BY DEF ThreadsInv, Holding
  <2> QED
    BY <1>3, <2>1, <2>2, <2>3, <2>4, LookStep DEF PcSet
<1> QED
  BY <1>2, <1>3 DEF TryLock

\* A pool has nothing for the thread: unlocked, and on to the next one.
LEMMA NextPoolStep ==
  ASSUME NEW t \in Threads, CacheInv,
         UNCHANGED <<situation, clients, entries, client, request, params, cache_pool_idx, clearing>>,
         NEW v \in {"find", "store"}, NextPool(t, v), pc[t] \in {"finding", "storing"},
         (v = "find") <=> (client[t] = None)
  PROVE  CacheInv'
<1> USE SetAssumption DEF CacheInv, Types, TypeOK
<1>1. PoolOf(t) \in Pools /\ visited[t] \in Nat /\ PoolCount \in Nat /\ visited[t] < PoolCount
  BY PoolFacts DEF ThreadsInv
<1>2. visited' \in [Threads -> 0..PoolCount] /\ \A u \in Threads \ {t} : visited'[u] = visited[u]
  BY <1>1 DEF NextPool
<1>3. lock' \in [Pools -> Threads \cup {Main, None}] /\ pc' = [pc EXCEPT ![t] = v]
  BY <1>1 DEF NextPool
<1> QED
  BY <1>2, <1>3, LookStep DEF PcSet

\* What a step of Find and of Store leaves alone.
CacheStep ==
  UNCHANGED <<connection_caching_enabled, thread, request, creating, sends, commands, clearing>>

\* Find takes a client that fits out of a pool, and makes it the thread's own.
LEMMA HitStep ==
  ASSUME NEW t \in Threads, CacheInv, UNCHANGED situation, CacheStep, pc[t] = "finding",
         NEW s \in Slots, Fits(t, entries[PoolOf(t)][s]),
         client' = [client EXCEPT ![t] = entries[PoolOf(t)][s]],
         clients' = [clients EXCEPT ![client'[t]] = Initialize(@, params[t], t)],
         entries' = [entries EXCEPT ![PoolOf(t)] = Without(@, s)],
         cache_pool_idx' = [cache_pool_idx EXCEPT ![t] = PoolOf(t)],
         lock' = [lock EXCEPT ![PoolOf(t)] = None],
         pc' = [pc EXCEPT ![t] = "send"], visited' = [visited EXCEPT ![t] = 0]
  PROVE  CacheInv'
<1> USE SetAssumption DEF CacheInv, Types, TypeOK, CacheStep, thread
<1>1. PICK p \in Pools : p = PoolOf(t)
  BY PoolFacts
<1>2. PICK c \in Clients : c = entries[p][s]
  BY <1>1 DEF Fits
<1> DEFINE d == Initialize(clients[c], params[t], t)
<1>3. client[t] = None /\ params[t] \in Params /\ params[t].token \in Tokens
  BY SituationFacts DEF ThreadsInv
<1>4. /\ clients[c] # None /\ clients[c] \in ClientRecords /\ clients[c].base = params[t].base
      /\ \A u \in Threads : client[u] # c
  BY <1>1, <1>2 DEF OwnedExist, HasOwner, Distinct, Fits
<1>5. Clean(clients[c])
  BY <1>4 DEF IdleIsClean, InUse
<1>6. d \in ClientRecords /\ Clean(d) /\ SetUpFor(d, t)
  BY <1>3, <1>4, <1>5, InitializeFacts DEF SetUpFor
<1>7. /\ client' = [client EXCEPT ![t] = c] /\ clients' = [clients EXCEPT ![c] = d]
      /\ clients'[c] = d /\ d # None
      /\ \A q \in Pools, r \in Slots :
           entries'[q][r] = IF q = p /\ r = s THEN None ELSE entries[q][r]
  <2>1. client' = [client EXCEPT ![t] = c] /\ client'[t] = c
    BY <1>1, <1>2
  <2>2. clients' = [clients EXCEPT ![c] = d]
    BY <2>1
  <2>3. entries' = [entries EXCEPT ![p] = [@ EXCEPT ![s] = None]]
    BY <1>1 DEF Without
  <2>4. \A q \in Pools, r \in Slots :
           entries'[q][r] = IF q = p /\ r = s THEN None ELSE entries[q][r]
    BY <2>3
  <2>5. d # None
    BY <1>6, NoneAssumption
  <2> HIDE DEF d
  <2> QED
    BY <2>1, <2>2, <2>4, <2>5
<1> HIDE DEF d
<1>8. Types'
  <2>1. clients' \in [Clients -> ClientRecords \cup {None}]
    BY <1>6, <1>7
  <2>2. entries' \in [Pools -> [Slots -> Clients \cup {None}]]
    BY <1>1 DEF Without
  <2>3. client' \in [Threads -> Clients \cup {None}]
    BY <1>7
  <2>4. cache_pool_idx' \in [Threads -> Pools] /\ lock' \in [Pools -> Threads \cup {Main, None}]
    BY <1>1
  <2> QED
    BY <2>1, <2>2, <2>3, <2>4, SituationFacts DEF PcSet
<1>9. ThreadsInv'
  BY <1>7, SituationFacts DEF ThreadsInv, Holding
<1>10. OthersStay(t)
  BY <1>4, <1>7 DEF OthersStay
<1>11. SetUp(t)'
  BY <1>6, <1>7 DEF SetUp, SetUpFor, ClientOf
<1>12. \A q \in Pools, r \in Slots :
         /\ entries'[q][r] # c
         /\ entries[q][r] # c => entries'[q][r] = entries[q][r]
         /\ entries[q][r] = c => entries'[q][r] = None
  <2>1. \A q \in Pools, r \in Slots : entries[q][r] = c => q = p /\ r = s
    BY <1>2 DEF Distinct
  <2> QED
    BY <1>2, <1>7, <2>1
<1>13. \A b \in Clients : b # c => clients'[b] = clients[b]
  BY <1>7
<1>14. pc'[t] = "send" /\ clients'[c] # None /\ Clean(clients'[c])
  BY <1>6, <1>7
<1> QED
  BY <1>3, <1>4, <1>7, <1>8, <1>9, <1>10, <1>11, <1>12, <1>13, <1>14, TakeStep

\* A miss: a new client is made for the thread.
LEMMA MissStep ==
  ASSUME NEW t \in Threads, CacheInv, UNCHANGED situation, CacheStep, pc[t] = "find",
         client' = [client EXCEPT ![t] = Unused],
         clients' = [clients EXCEPT ![Unused] =
                       Initialize(NewClient(params[t].base), params[t], t)],
         pc' = [pc EXCEPT ![t] = "send"],
         UNCHANGED <<entries, lock, cache_pool_idx, visited>>
  PROVE  CacheInv'
<1> USE SetAssumption DEF CacheInv, Types, TypeOK, CacheStep, thread
<1> DEFINE c == Unused  d == Initialize(NewClient(params[t].base), params[t], t)
<1>1. client[t] = None /\ params[t].token \in Tokens /\ params[t].base \in BaseUrls
  BY SituationFacts DEF ThreadsInv
<1>2. c \in Clients /\ clients[c] = None
  BY <1>1, UnusedFacts
<1>3. d \in ClientRecords /\ Clean(d) /\ SetUpFor(d, t)
  <2>1. PICK n \in ClientRecords : n = NewClient(params[t].base) /\ Clean(n)
                                  /\ n.base = params[t].base
    BY <1>1, NewClientFacts
  <2> QED
    BY <1>1, <2>1, InitializeFacts DEF SetUpFor
<1> HIDE DEF c, d
<1>4. client' = [client EXCEPT ![t] = c] /\ clients' = [clients EXCEPT ![c] = d]
      /\ clients'[c] = d /\ d # None
  BY <1>2, <1>3, NoneAssumption DEF c, d
<1>5. /\ \A u \in Threads : client[u] # c
      /\ \A p \in Pools, s \in Slots : entries[p][s] # c
  BY <1>2 DEF OwnedExist, HasOwner
<1>6. Types'
  BY <1>2, <1>3, <1>4, SituationFacts DEF PcSet
<1>7. ThreadsInv'
  BY <1>2, <1>4, SituationFacts DEF ThreadsInv, Holding
<1>8. OthersStay(t)
  BY <1>4, <1>5 DEF OthersStay
<1>9. SetUp(t)'
  BY <1>2, <1>3, <1>4 DEF SetUp, SetUpFor, ClientOf
<1>10. \A p \in Pools, s \in Slots :
         /\ entries'[p][s] # c
         /\ entries[p][s] # c => entries'[p][s] = entries[p][s]
         /\ entries[p][s] = c => entries'[p][s] = None
  BY <1>5
<1>11. \A b \in Clients : b # c => clients'[b] = clients[b]
  BY <1>4
<1>12. pc'[t] = "send" /\ clients'[c] # None /\ Clean(clients'[c])
  BY <1>3, <1>4
<1> QED
  BY <1>1, <1>2, <1>4, <1>5, <1>6, <1>7, <1>8, <1>9, <1>10, <1>11, <1>12, TakeStep

\* Find: one pool after the other.
LEMMA FindStep ==
  ASSUME NEW t \in Threads, CacheInv, Find(t), CacheStep, UNCHANGED situation
  PROVE  CacheInv'
<1>1. CASE /\ pc[t] = "find" /\ TryLock(t, "finding")
           /\ UNCHANGED <<clients, entries, cache_pool_idx, client>>
  BY <1>1, TryLockStep DEF CacheStep, thread, CacheInv, ThreadsInv
<1>2. CASE pc[t] = "finding"
  <2>1. CASE /\ NextPool(t, "find")
             /\ UNCHANGED <<clients, entries, cache_pool_idx, client>>
    BY <1>2, <2>1, NextPoolStep DEF CacheStep, thread, CacheInv, ThreadsInv
  <2> QED
    BY <1>2, <2>1, HitStep DEF Find
<1>3. CASE /\ pc[t] = "find"
           /\ client' = [client EXCEPT ![t] = Unused]
           /\ clients' = [clients EXCEPT ![Unused] =
                            Initialize(NewClient(params[t].base), params[t], t)]
           /\ pc' = [pc EXCEPT ![t] = "send"]
           /\ UNCHANGED <<entries, lock, cache_pool_idx, visited>>
  BY <1>3, MissStep
<1>4. CASE /\ pc[t] = "find" /\ pc' = [pc EXCEPT ![t] = "ready"]
           /\ UNCHANGED <<client, clients, entries, lock, cache_pool_idx, visited>>
  BY <1>4, LookStep DEF CacheStep, thread, CacheInv, Types, TypeOK, ThreadsInv, PcSet
<1> QED
  BY <1>1, <1>2, <1>3, <1>4 DEF Find

\* StoreIn: the client goes into a slot of the pool that the thread has locked.
LEMMA StoreInStep ==
  ASSUME NEW t \in Threads, CacheInv, CacheStep, UNCHANGED situation, NEW s \in Slots,
         pc[t] \in {"storing", "evicting"}, StoreIn(t, s)
  PROVE  CacheInv'
<1> USE SetAssumption DEF CacheInv, Types, TypeOK, CacheStep, thread
<1>1. PICK p \in Pools : p = PoolOf(t)
  BY PoolFacts
<1>2. client[t] # None /\ client[t] \in Clients
  BY DEF ThreadsInv, Holding
<1>3. /\ entries' = [entries EXCEPT ![p][s] = client[t]]
      /\ clients' = [c \in Clients |-> IF c = entries[p][s] THEN None ELSE clients[c]]
  BY <1>1 DEF StoreIn
<1>4. Types'
  <2>1. entries' \in [Pools -> [Slots -> Clients \cup {None}]]
    BY <1>1, <1>2, <1>3
  <2>2. cache_pool_idx' \in [Threads -> Pools] /\ lock' \in [Pools -> Threads \cup {Main, None}]
    BY <1>1 DEF StoreIn
  <2> QED
    BY <1>3, <2>1, <2>2, SituationFacts DEF StoreIn, PcSet
<1>5. ThreadsInv'
  BY SituationFacts DEF ThreadsInv, Holding, StoreIn
<1>6. OthersStay(t)
  BY <1>3 DEF OthersStay, StoreIn, Distinct
<1>7. /\ pc'[t] = "done" /\ ~Executing(t)
      /\ client' = [client EXCEPT ![t] = None]
  BY DEF StoreIn, Executing
<1> HIDE DEF CacheInv, Types, TypeOK
<1> QED
  BY <1>1, <1>2, <1>3, <1>4, <1>5, <1>6, <1>7, PutStep

\* Store: an empty slot, or an eviction, or the client is dropped.
LEMMA StoreStep ==
  ASSUME NEW t \in Threads, CacheInv, Store(t), CacheStep, UNCHANGED situation
  PROVE  CacheInv'
<1>0. pc[t] \in Holding => client[t] # None
  BY DEF CacheInv, ThreadsInv
<1>1. CASE /\ \/ pc[t] = "store" /\ TryLock(t, "storing")
              \/ pc[t] = "evict" /\ TryLock(t, "evicting")
           /\ UNCHANGED <<clients, entries, cache_pool_idx, client>>
  BY <1>0, <1>1, TryLockStep DEF CacheStep, thread, Holding
<1>2. CASE /\ pc[t] = "storing" /\ NextPool(t, "store")
           /\ UNCHANGED <<clients, entries, cache_pool_idx, client>>
  BY <1>0, <1>2, NextPoolStep DEF CacheStep, thread, Holding
<1>3. CASE \E s \in Slots : pc[t] \in {"storing", "evicting"} /\ StoreIn(t, s)
  BY <1>3, StoreInStep
<1>4. CASE /\ pc[t] = "store" /\ pc' = [pc EXCEPT ![t] = "evict"]
           /\ visited' = [visited EXCEPT ![t] = 0]
           /\ UNCHANGED <<clients, cache, client>>
  <2>1. /\ visited' \in [Threads -> 0..PoolCount] /\ \A u \in Threads \ {t} : visited'[u] = visited[u]
        /\ lock \in [Pools -> Threads \cup {Main, None}]
    BY <1>4, SetAssumption DEF CacheInv, Types, TypeOK
  <2> QED
    BY <1>0, <1>4, <2>1, LookStep DEF CacheStep, thread, cache, PcSet, Holding
<1>5. CASE /\ pc[t] = "evict" /\ pc' = [pc EXCEPT ![t] = "done"]
           /\ clients' = [clients EXCEPT ![client[t]] = None]
           /\ client' = [client EXCEPT ![t] = None]
           /\ UNCHANGED <<cache, visited>>
  <2> USE SetAssumption DEF CacheInv, Types, TypeOK, CacheStep, thread, cache
  <2>1. Types'
    BY <1>5, SituationFacts DEF PcSet
  <2>2. ThreadsInv'
    BY <1>5, SituationFacts DEF ThreadsInv, Holding
  <2>3. OthersStay(t)
    BY <1>0, <1>5, HeldFacts DEF OthersStay, Holding
  <2> QED
    BY <1>5, <2>1, <2>2, <2>3, DropStep
<1> QED
  BY <1>1, <1>2, <1>3, <1>4, <1>5 DEF Store

\* The setting touches no client.
LEMMA SetCachingStep == CacheInv /\ SetCaching /\ UNCHANGED situation => CacheInv'
BY SituationFacts
DEF CacheInv, SetCaching, cache, thread, Types, TypeOK, ThreadsInv, Distinct, OwnedExist,
    HasOwner, IdleIsClean, InUse, ReadyIsSetUp, SetUp, SetUpFor, ClientOf, ExecutingCarries,
    Carried, Executing, Carries, FlagOf

\* Clear destroys the clients of one pool, which nobody else has.
LEMMA ClearStep ==
  ASSUME CacheInv, Clear, UNCHANGED situation,
         UNCHANGED <<cache_pool_idx, connection_caching_enabled, pc, thread, client, request,
                     visited, creating, sends>>
  PROVE  CacheInv'
<1> USE SetAssumption, SituationFacts DEF CacheInv, Types, TypeOK, thread
<1>1. CASE UNCHANGED <<entries, clients>>
  <2>1. clearing' \in 0..PoolCount /\ lock' \in [Pools -> Threads \cup {Main, None}]
    <3>1. clearing \in 0..PoolCount /\ lock \in [Pools -> Threads \cup {Main, None}]
      OBVIOUS
    <3> HIDE DEF CacheInv, Types, TypeOK
    <3>2. clearing' \in 0..PoolCount
      BY <3>1 DEF Clear
    <3>3. lock' \in [Pools -> Threads \cup {Main, None}]
      BY <3>1 DEF Clear
    <3> QED
      BY <3>2, <3>3
  <2>2. Types'
    BY <1>1, <2>1
  <2> QED
    BY <1>1, <2>2
    DEF ThreadsInv, Distinct, OwnedExist, HasOwner, IdleIsClean, InUse, ReadyIsSetUp, SetUp,
        SetUpFor, ClientOf, ExecutingCarries, Carried, Executing, Carries, FlagOf
<1>2. CASE /\ clearing < PoolCount
           /\ entries' = [entries EXCEPT ![clearing] = [s \in Slots |-> None]]
           /\ clients' = [c \in Clients |->
                IF \E s \in Slots : entries[clearing][s] = c THEN None ELSE clients[c]]
           /\ lock' = [lock EXCEPT ![clearing] = None]
           /\ clearing' = clearing + 1
  <2>1. clearing \in Pools
    BY <1>2 DEF Pools
  <2>2. \A p \in Pools, s \in Slots :
          entries'[p][s] = IF p = clearing THEN None ELSE entries[p][s]
    BY <1>2, <2>1
  <2>3. \A u \in Threads : client[u] # None => clients'[client[u]] = clients[client[u]]
    BY <1>2, <2>1 DEF Distinct
  <2>4. Types'
    BY <1>2, <2>1
  <2>5. ThreadsInv' /\ Distinct'
    BY <2>2 DEF ThreadsInv, Distinct
  <2>6. OwnedExist'
    <3>1. ASSUME NEW c \in Clients PROVE (clients'[c] # None) <=> HasOwner(c)'
      <4>1. CASE \E s \in Slots : entries[clearing][s] = c
        <5>1. clients'[c] = None
          BY <1>2, <4>1
        <5>2. \A u \in Threads : client[u] # c
          BY <2>1, <4>1 DEF Distinct
        <5>3. \A p \in Pools, s \in Slots : entries'[p][s] # c
          BY <2>1, <2>2, <4>1 DEF Distinct
        <5> QED
          BY <5>1, <5>2, <5>3 DEF HasOwner
      <4>2. CASE ~ \E s \in Slots : entries[clearing][s] = c
        <5>1. clients'[c] = clients[c]
          BY <1>2, <4>2
        <5>2. \A p \in Pools, s \in Slots : entries'[p][s] = c <=> entries[p][s] = c
          BY <2>2, <4>2
        <5>3. HasOwner(c)' <=> HasOwner(c)
          BY <5>2 DEF HasOwner
        <5> QED
          BY <5>1, <5>3 DEF OwnedExist
      <4> QED
        BY <4>1, <4>2
    <3> QED
      BY <3>1 DEF OwnedExist
  <2>7. IdleIsClean'
    BY <1>2 DEF IdleIsClean, InUse
  <2>8. ASSUME NEW u \in Threads PROVE SetUp(u)' /\ Carried(u)'
    <3>1. SetUp(u) /\ Carried(u) /\ FlagOf(u)' = FlagOf(u)
      BY DEF ReadyIsSetUp, ExecutingCarries, FlagOf
    <3>2. pc[u] = "executing" => client[u] # None
      BY DEF ThreadsInv, Holding
    <3> QED
      BY <2>3, <3>1, <3>2 DEF SetUp, SetUpFor, Carried, Carries, Executing, ClientOf
  <2> QED
    BY <2>4, <2>5, <2>6, <2>7, <2>8 DEF ReadyIsSetUp, ExecutingCarries
<1> QED
  BY <1>1, <1>2 DEF Clear

-----------------------------------------------------------------------------
\* At the start nobody has a client, and there is none.
LEMMA CacheInit == Init => CacheInv
<1> SUFFICES ASSUME Init PROVE CacheInv
  OBVIOUS
<1> USE SetAssumption DEF Init
<1>1. Types
  <2>1. NoRequest \in Requests
    BY DEF NoRequest, Requests
  <2> QED
    BY <2>1 DEF Types, TypeOK, PcSet
<1>2. ThreadsInv /\ Distinct /\ IdleIsClean
  BY DEF ThreadsInv, Holding, Distinct, IdleIsClean
<1>3. OwnedExist
  BY DEF OwnedExist, HasOwner
<1>4. ReadyIsSetUp /\ ExecutingCarries
  BY DEF ReadyIsSetUp, SetUp, ExecutingCarries, Carried, Executing
<1> QED
  BY <1>1, <1>2, <1>3, <1>4 DEF CacheInv

\* Every step of a thread, of the setting and of Clear preserves the invariant.
LEMMA CacheNext == CacheInv /\ [Next]_allVars => CacheInv'
<1> SUFFICES ASSUME CacheInv, [Next]_allVars PROVE CacheInv'
  OBVIOUS
<1>1. CASE Next
  <2>0. UNCHANGED situation
    BY <1>1 DEF Next
  <2>1. ASSUME NEW t \in Threads, Begin(t) \/ Step(t) PROVE CacheInv'
    BY <2>0, <2>1, BeginStep, InitializeClientStep, SendStep, AnsweredStep, RetriedStep,
       CloseStep, EndStep, FindStep, StoreStep
    DEF Step, CacheStep
  <2> QED
    BY <1>1, <2>0, <2>1, SetCachingStep, ClearStep DEF Next
<1>2. CASE UNCHANGED allVars
  BY <1>2, SituationFacts
  DEF allVars, vars, CacheInv, cache, thread, Types, TypeOK, ThreadsInv, Distinct, OwnedExist,
      HasOwner, IdleIsClean, InUse, ReadyIsSetUp, SetUp, SetUpFor, ClientOf,
      ExecutingCarries, Carried, Executing, Carries, FlagOf
<1> QED
  BY <1>1, <1>2

\* The invariant holds in every reachable state.
LEMMA CacheInvariant == Spec => []CacheInv
BY CacheInit, CacheNext, PTL DEF Spec, allVars

-----------------------------------------------------------------------------
\* Every variable of the connection cache keeps its type.
THEOREM CurlTypeCorrect == Spec => []TypeOK
<1>1. CacheInv => TypeOK
  BY DEF CacheInv, Types
<1> QED
  BY <1>1, CacheInvariant, PTL

\* A client object is in one place, or it is gone: Find, Store, the eviction, Clear
\* and the retries neither lose one nor hand one out twice.
THEOREM EveryClientHasOneOwner == Spec => []OneOwner
<1>1. CacheInv => OneOwner
  <2> SUFFICES ASSUME CacheInv, NEW c \in Clients
               PROVE  Cardinality(Places(c)) = (IF clients[c] = None THEN 0 ELSE 1)
    BY DEF OneOwner
  <2> USE SetAssumption DEF CacheInv, Types, TypeOK
  <2>1. CASE clients[c] = None
    <3>1. Places(c) = {}
      BY <2>1 DEF Places, OwnedExist, HasOwner
    <3> QED
      BY <2>1, <3>1, FS_EmptySet
  <2>2. CASE clients[c] # None
    <3>1. HasOwner(c)
      BY <2>2 DEF OwnedExist
    <3>2. CASE \E t \in Threads : client[t] = c
      <4> PICK t \in Threads : client[t] = c
        BY <3>2
      <4>1. \A u \in Threads : client[u] = c => u = t
        BY HeldFacts
      <4>2. \A e \in Pools \X Slots : entries[e[1]][e[2]] # c
        BY HeldFacts
      <4>3. Places(c) = {t}
        BY <4>1, <4>2 DEF Places
      <4> QED
        BY <2>2, <4>3, FS_Singleton
    <3>3. CASE ~ \E t \in Threads : client[t] = c
      <4> PICK p \in Pools, s \in Slots : entries[p][s] = c
        BY <3>1, <3>3 DEF HasOwner
      <4>1. ASSUME NEW e \in Pools \X Slots, entries[e[1]][e[2]] = c PROVE e = <<p, s>>
        <5> PICK q \in Pools, r \in Slots : e = <<q, r>>
          OBVIOUS
        <5>1. q = p /\ r = s
          BY <4>1 DEF Distinct
        <5> QED
          BY <5>1
      <4>2. Places(c) = {<<p, s>>}
        BY <3>3, <4>1 DEF Places
      <4> QED
        BY <2>2, <4>2, FS_Singleton
    <3> QED
      BY <3>2, <3>3
  <2> QED
    BY <2>1, <2>2
<1> QED
  BY <1>1, CacheInvariant, PTL

\* Whatever the requests before it left in the handle, a request goes out as it was
\* made.
THEOREM WireIsTheRequest == Spec => []WireIsRequested
<1>1. CacheInv => WireIsRequested
  <2> SUFFICES ASSUME CacheInv, NEW t \in Threads, Executing(t)
               PROVE  /\ ClientOf(t).base = params[t].base
                      /\ ClientOf(t).token = params[t].token
                      /\ WireVerb(ClientOf(t)) = request[t].verb
                      /\ WireBody(ClientOf(t)) = request[t].body
                      /\ ClientOf(t).identity = (request[t].verb = "HEAD" \/ request[t].range)
    BY DEF WireIsRequested
  <2>1. SetUpFor(ClientOf(t), t)
    BY DEF CacheInv, ReadyIsSetUp, SetUp, Executing, ThreadsInv, Holding
  <2>2. Carries(ClientOf(t), request[t], t)
    BY DEF CacheInv, ExecutingCarries, Carried
  <2>3. WireVerb(ClientOf(t)) = request[t].verb
    BY <2>2, SetAssumption DEF Carries, WireVerb, Verbs
  <2>4. WireBody(ClientOf(t)) = request[t].body
    BY <2>2 DEF Carries, WireBody, Verbs
  <2> QED
    BY <2>1, <2>2, <2>3, <2>4 DEF SetUpFor, Carries
<1> QED
  BY <1>1, CacheInvariant, PTL

\* While libcurl runs, it points into the memory of its own query only.
THEOREM CurlPointersAreLive == Spec => []PointersAreLive
<1>1. CacheInv => PointersAreLive
  <2> SUFFICES ASSUME CacheInv, NEW t \in Threads, Executing(t)
               PROVE  /\ ClientOf(t).info = "own" /\ ClientOf(t).state = t
                      /\ ClientOf(t).watch \in {t, None}
                      /\ ClientOf(t).fields \in {t, None}
    BY DEF PointersAreLive
  <2>1. SetUpFor(ClientOf(t), t)
    BY DEF CacheInv, ReadyIsSetUp, SetUp, Executing, ThreadsInv, Holding
  <2>2. Carries(ClientOf(t), request[t], t)
    BY DEF CacheInv, ExecutingCarries, Carried
  <2> QED
    BY <2>1, <2>2 DEF SetUpFor, Carries, FlagOf
<1> QED
  BY <1>1, CacheInvariant, PTL

\* Where no request is sent with a clone of its parameters, cancelling a query
\* reaches every transfer of it.  (Clone drops the flag: Curl_clone.cfg.)
THEOREM CancelReachesUncloned ==
  ASSUME \A s \in DOMAIN Situations : Situations[s].cloned = {}
  PROVE  Spec => []CancelReaches
<1>1. CacheInv => CancelReaches
  <2> SUFFICES ASSUME CacheInv, NEW t \in Threads, Executing(t), params[t].context
               PROVE  ClientOf(t).watch = t
    BY DEF CancelReaches
  <2>1. Cloned = {}
    BY DEF CacheInv, Types, Cloned, Situation
  <2> QED
    BY <2>1 DEF CacheInv, ExecutingCarries, Carried, Carries, FlagOf
<1> QED
  BY <1>1, CacheInvariant, PTL
=============================================================================
