------------------------- MODULE S3AuthRefreshProofs -------------------------
(***************************************************************************)
(* What S3AuthRefresh promises, for any number of threads, owners,         *)
(* requests and expiries: its types, one renewal of the secret per expiry, *)
(* at most three sends of a request, no stored client of another host      *)
(* unless an overtaken request brought it in, and no failure without an    *)
(* excuse.                                                                 *)
(*                                                                         *)
(* The last one needs that redirects do not cross (RegionsSettled): where  *)
(* they do, the code breaks it, as the unlisted configurations of          *)
(* MCS3AuthRefresh show.                                                   *)
(***************************************************************************)
EXTENDS S3AuthRefresh, SequenceTheorems, TLAPS

\* The secret names the region of the bucket; or no thread but its own finds a
\* handle redirected, an input is not opened by a redirected HEAD, and a listing
\* asks for one page.
RegionsSettled ==
    \/ SecretRegion = Home
    \/ /\ Situation.open_redirected = {}
       /\ \A t, u \in Users : OwnerOf[t] \in Handles /\ OwnerOf[u] = OwnerOf[t] => t = u
       /\ Listings # {} => MaxRequests <= 1

\* A request that has its S3RequestData, one whose thread holds the owner's
\* mutex, and one whose thread holds the refresh lock.
Holding == {"reload", "lock", "again", "fetch", "put", "final"}
HoldsLock == {"again", "fetch", "put", "final"}
Made == {"checkout", "send", "store", "judge"} \cup Holding
Unsent == {"create", "checkout", "send"}

\* The hosts the stored clients talk to.
Hosts == [o \in Owners |-> {clients[o][i] : i \in DOMAIN clients[o]}]
ClientLists == clients \in [Owners -> Seq(Regions)]

Types ==
    /\ situation \in DOMAIN Situations
    /\ valid \in Creds /\ secret \in Creds /\ context \in BOOLEAN
    /\ auth \in [Owners -> Material] /\ region_redirected \in [Owners -> BOOLEAN]
    /\ mu \in [Owners -> Threads \cup {None}] /\ CredentialRefreshLock \in Threads \cup {None}
    /\ ClientLists /\ generation \in [Owners -> Nat]
    /\ pc \in [Threads -> {"idle", "create"} \cup Made]
    /\ data \in [Threads -> Material] /\ requests \in [Threads -> 0 .. MaxRequests]
    /\ entry \in [Threads -> [client : Regions \cup {None}, generation : Nat]]
    /\ response \in [Threads -> {"ok", "auth", "redirect", "error"}]
    /\ retried_auth_refresh \in [Threads -> BOOLEAN] /\ retried_region \in [Threads -> BOOLEAN]
    /\ fetched \in [Threads -> Creds] /\ attempts \in [Threads -> Nat]
    /\ steady \in [Threads -> BOOLEAN] /\ calls \in Nat
    /\ \A t \in Threads : pc[t] = "store" => entry[t].client \in Regions

\* The mutex of an owner and the refresh lock are held where the code holds them;
\* only the threads of the situation run.
LocksOf(t) ==
    /\ pc[t] \in Holding <=> mu[OwnerOf[t]] = t
    /\ pc[t] \in HoldsLock <=> CredentialRefreshLock = t
Locks ==
    /\ \A t \in Users : LocksOf(t)
    /\ \A t \in Threads \ Users : pc[t] = "idle" /\ response[t] = "ok" /\ attempts[t] = 0

\* Nobody has credentials of the future.
Past ==
    /\ secret <= valid
    /\ \A o \in Owners : auth[o].cred <= valid
    /\ \A t \in Threads : data[t].cred <= valid /\ fetched[t] <= valid

\* The service refused the credentials of a request, not its region.
Refused(t) == pc[t] \in Holding \/ (pc[t] \in {"store", "judge"} /\ response[t] = "auth")
Refusals ==
    \A t \in Users : Refused(t) =>
        /\ response[t] = "auth" /\ data[t].region = Home
        /\ t \notin Denied => data[t].cred < valid

\* Every renewal counted made the secret newer.
RenewalOf(t) ==
    /\ pc[t] = "put" => calls <= fetched[t]
    /\ pc[t] = "fetch" /\ t \notin Denied => calls <= data[t].cred
    /\ pc[t] = "put" /\ t \notin Denied => calls < fetched[t]
Renewals == calls <= secret /\ \A t \in Users : RenewalOf(t)

\* Each of the two flags allows one more send.
One(b) == IF b THEN 1 ELSE 0
SendsOf(t) ==
    /\ pc[t] \in Holding => ~retried_auth_refresh[t]
    /\ attempts[t] <= One(retried_auth_refresh[t]) + One(retried_region[t])
                      + One(pc[t] \notin Unsent)
Sends == \A t \in Users : SendsOf(t)

RefreshInv == Types /\ Locks /\ Past /\ Refusals /\ Renewals /\ Sends

\* With regions settled: an owner in the region of the bucket stays there, and
\* whoever asked for it or saw it knows.
InRegion ==
    /\ \A o \in Owners : auth[o].region = Home =>
        \/ SecretRegion = Home
        \/ o \notin Listings /\ region_redirected[o]
        \/ o \in Listings /\ \A t \in Users : OwnerOf[t] = o => retried_region[t]
    /\ \A t \in Users :
        /\ requests[t] = 0 => ~retried_region[t] /\ pc[t] = "idle"
        /\ pc[t] \in Made /\ data[t].region = Home => auth[OwnerOf[t]].region = Home
        /\ pc[t] # "idle" /\ retried_region[t] => auth[OwnerOf[t]].region = Home
        /\ pc[t] \in Made /\ retried_region[t] => data[t].region = Home

\* Clients, stored and checked out, talk to the host of their owner's region.
OwnClients ==
    /\ \A o \in Owners : Hosts[o] \subseteq (IF o \in Handles THEN {auth[o].region} ELSE {})
    /\ \A t \in Users :
        /\ pc[t] \in {"checkout", "store"} => OwnerOf[t] \in Handles
        /\ pc[t] \in Made /\ OwnerOf[t] \in Handles => data[t].region = auth[OwnerOf[t]].region
        /\ pc[t] = "send" => entry[t].client \in {None, data[t].region}
        /\ pc[t] = "store" => entry[t].client = data[t].region
        /\ pc[t] \in {"store", "judge"} /\ response[t] = "redirect" => data[t].region # Home

\* What a steady request finds at its owner and in the secret.
Steadiness ==
    \A t \in Users : steady[t] =>
        /\ pc[t] # "idle" => context /\ RefreshEnabled /\ t \notin Denied
        /\ secret = valid \/ auth[OwnerOf[t]].cred = secret
        /\ pc[t] \in Made => data[t].cred = auth[OwnerOf[t]].cred \/ auth[OwnerOf[t]].cred = valid
        /\ pc[t] # "idle" /\ retried_auth_refresh[t] => auth[OwnerOf[t]].cred = valid
        /\ pc[t] \in Made /\ retried_auth_refresh[t] => data[t].cred = valid
        /\ pc[t] = "final" => secret = valid

SettledInv == InRegion /\ OwnClients /\ Steadiness /\ EveryFailureExcused

AuthInv == RefreshInv /\ (RegionsSettled => SettledInv)

\* With or without: what the generation of a cache says of the requests that are out.
\* Material made under the present generation has the present region; so has a client
\* checked out under it, unless a late one may have been in the cache.
CacheTypes ==
    made_at \in [Threads -> Nat] /\ late \in [Owners -> BOOLEAN] /\ misled \in [Threads -> BOOLEAN]
Timely(t) == OwnerOf[t] \in Handles /\ made_at[t] = generation[OwnerOf[t]]
OutOf(t, o) ==
    /\ made_at[t] <= generation[o] /\ entry[t].generation <= generation[o]
    /\ Timely(t) => data[t].region = auth[o].region
    /\ Timely(t) /\ entry[t].generation = generation[o] /\ ~late[o] =>
         \/ entry[t].client = auth[o].region
         \/ entry[t].client = None /\ pc[t] # "store"
Cached(o) ==
    /\ o \notin Handles => Hosts[o] = {}
    /\ ~late[o] => Hosts[o] \subseteq {auth[o].region}
CacheInv ==
    /\ CacheTypes
    /\ \A t \in Users : pc[t] \in {"checkout", "store"} => OwnerOf[t] \in Handles
    /\ \A t \in Users : OutOf(t, OwnerOf[t])
    /\ \A o \in Owners : Cached(o)

-----------------------------------------------------------------------------
(***************************************************************************)
(* Facts about situations and stored clients.                              *)
(***************************************************************************)
\* What no step changes, and what its parts are.
Still ==
    /\ Users' = Users /\ OwnerOf' = OwnerOf /\ Owners' = Owners /\ Handles' = Handles
    /\ Listings' = Listings /\ SecretRegion' = SecretRegion /\ Denied' = Denied
    /\ CanFail' = CanFail /\ MaxExpiry' = MaxExpiry /\ MaxRequests' = MaxRequests
    /\ Regions' = Regions /\ Creds' = Creds /\ Material' = Material
    /\ RegionsSettled' = RegionsSettled

Sets ==
    /\ Users \subseteq Threads /\ None \notin Threads /\ RefreshEnabled \in BOOLEAN
    /\ MaxExpiry \in Nat /\ MaxRequests \in Nat /\ Creds = 0 .. MaxExpiry
    /\ Regions = {Home, SecretRegion}
    /\ \A t \in Users : OwnerOf[t] \in Owners
    /\ \A o \in Owners : \E t \in Users : OwnerOf[t] = o
    /\ Handles \subseteq Owners /\ Handles \cap Listings = {}
    /\ \A t, u \in Users : OwnerOf[t] \in Listings /\ OwnerOf[u] = OwnerOf[t] => t = u

LEMMA SetsHold ==
  ASSUME situation \in DOMAIN Situations
  PROVE  Sets
BY SituationAssumption, RefreshAssumption, NoneAssumption
DEF Sets, Users, OwnerOf, Owners, Handles, Listings, MaxExpiry, MaxRequests, Situation,
    Creds, Regions

LEMMA StillHolds ==
  ASSUME UNCHANGED situation
  PROVE  Still
BY DEF Still, Users, OwnerOf, Owners, Handles, Listings, SecretRegion, Denied, CanFail,
       MaxExpiry, MaxRequests, Situation, Creds, Regions, Material, RegionsSettled

\* Materials differ in their credentials or in their region.
LEMMA MaterialFacts ==
  ASSUME NEW m \in Material, NEW n \in Material
  PROVE  /\ m.cred \in Creds /\ m.region \in Regions
         /\ m.cred = n.cred /\ m.region = n.region => m = n
         /\ \A r \in Regions : LET k == [m EXCEPT !.region = r] IN
              k \in Material /\ k.cred = m.cred /\ k.region = r
BY DEF Material

\* A client that is stored, and one that is taken, change the hosts by their own.
LEMMA ClientFacts ==
  ASSUME NEW seq \in Seq(Regions)
  PROVE  LET n == Len(seq)
             rest == SubSeq(seq, 1, n - 1)
             hosts(s) == {s[i] : i \in DOMAIN s} IN
         /\ n \in Nat /\ rest \in Seq(Regions)
         /\ hosts(rest) \subseteq hosts(seq)
         /\ n # 0 => seq[n] \in hosts(seq)
         /\ hosts(seq) \subseteq Regions
         /\ \A h \in Regions :
              /\ Append(seq, h) \in Seq(Regions)
              /\ hosts(Append(seq, h)) \subseteq hosts(seq) \cup {h}
<1> DEFINE n == Len(seq)
           rest == SubSeq(seq, 1, n - 1)
           hosts(s) == {s[i] : i \in DOMAIN s}
<1>1. /\ n \in Nat /\ DOMAIN seq = 1 .. n /\ \A i \in 1 .. n : seq[i] \in Regions
  BY LenProperties, ElementOfSeq
<1>2. /\ rest \in Seq(Regions) /\ DOMAIN rest = 1 .. n - 1
      /\ \A i \in 1 .. n - 1 : rest[i] = seq[i]
  <2>1. /\ rest \in Seq(Regions) /\ Len(rest) = IF 1 <= n - 1 THEN (n - 1) - 1 + 1 ELSE 0
        /\ \A i \in 1 .. (n - 1) - 1 + 1 : rest[i] = seq[1 + i - 1]
    <3>1. 1 \in Int /\ n - 1 \in Int /\ \A i \in 1 .. n - 1 : seq[i] \in Regions
      BY <1>1
    <3> QED
      BY <3>1, SubSeqProperties
  <2>2. DOMAIN rest = 1 .. Len(rest)
    BY <2>1, LenProperties
  <2> QED
    BY <1>1, <2>1, <2>2
<1>3. ASSUME NEW h \in Regions
      PROVE  /\ Append(seq, h) \in Seq(Regions)
             /\ hosts(Append(seq, h)) \subseteq hosts(seq) \cup {h}
  <2>1. /\ Append(seq, h) \in Seq(Regions) /\ Len(Append(seq, h)) = n + 1
        /\ \A i \in 1 .. n : Append(seq, h)[i] = seq[i]
        /\ Append(seq, h)[n + 1] = h
    BY AppendProperties
  <2>2. DOMAIN Append(seq, h) = 1 .. n + 1
    BY <2>1, LenProperties
  <2>3. ASSUME NEW i \in 1 .. n + 1
        PROVE  Append(seq, h)[i] \in hosts(seq) \cup {h}
    <3>1. i \in 1 .. n \/ i = n + 1
      BY <1>1
    <3> QED
      BY <1>1, <2>1, <3>1
  <2> QED
    BY <2>1, <2>2, <2>3
<1>4. hosts(rest) \subseteq hosts(seq) /\ (n # 0 => seq[n] \in hosts(seq)) /\ hosts(seq) \subseteq Regions
  <2>1. hosts(rest) \subseteq hosts(seq)
    BY <1>1, <1>2
  <2>2. n # 0 => seq[n] \in hosts(seq)
    BY <1>1
  <2>3. hosts(seq) \subseteq Regions
    BY <1>1
  <2> QED
    BY <2>1, <2>2, <2>3
<1> QED
  BY <1>1, <1>2, <1>3, <1>4

\* The clients of an owner are dropped.
LEMMA ClearFacts ==
  ASSUME NEW o \in Owners, Owners' = Owners, Regions' = Regions, Clear(o), ClientLists,
         generation \in [Owners -> Nat]
  PROVE  /\ ClientLists' /\ Hosts'[o] = IF o \in Handles THEN {} ELSE Hosts[o]
         /\ \A x \in Owners \ {o} : Hosts'[x] = Hosts[x]
         /\ generation' \in [Owners -> Nat]
<1>1. CASE o \in Handles
  <2>1. clients' = [clients EXCEPT ![o] = <<>>] /\ <<>> \in Seq(Regions)
    BY <1>1, EmptySeq DEF Clear
  <2>2. clients \in [Owners -> Seq(Regions)]
    BY DEF ClientLists
  <2>3. ClientLists'
    BY <2>1, <2>2 DEF ClientLists
  <2>4. {<<>>[i] : i \in DOMAIN <<>>} = {}
    OBVIOUS
  <2>5. Hosts'[o] = {} /\ \A x \in Owners \ {o} : Hosts'[x] = Hosts[x]
    BY <2>1, <2>2, <2>4 DEF Hosts
  <2> QED
    BY <1>1, <2>3, <2>5 DEF Clear
<1>2. CASE o \notin Handles
  BY <1>2 DEF Clear, Hosts, ClientLists
<1> QED
  BY <1>1, <1>2

-----------------------------------------------------------------------------
(***************************************************************************)
(* The steps: what each of them changes (1), and every part of the         *)
(* invariant after it.                                                     *)
(***************************************************************************)

\* A request is issued.
LEMMA RequestStep ==
  ASSUME AuthInv, UNCHANGED situation, NEW t \in Users, Request(t)
  PROVE  AuthInv'
<1>a. /\ Types /\ Locks /\ Past /\ Refusals /\ Renewals /\ Sends
      /\ RegionsSettled => InRegion /\ OwnClients /\ Steadiness /\ EveryFailureExcused
  BY DEF AuthInv, RefreshInv, SettledInv
<1>s. Still /\ Sets
  BY <1>a, StillHolds, SetsHold DEF Types
<1> USE DEF Still, Sets
<1>1. /\ pc[t] = "idle" /\ requests[t] < MaxRequests
      /\ t \in Threads /\ OwnerOf[t] \in Owners
      /\ requests'[t] = requests[t] + 1
      /\ \A u \in Threads \ {t} : requests'[u] = requests[u]
      /\ retried_auth_refresh'[t] = FALSE
      /\ \A u \in Threads \ {t} : retried_auth_refresh'[u] = retried_auth_refresh[u]
      /\ retried_region'[t] = FALSE
      /\ \A u \in Threads \ {t} : retried_region'[u] = retried_region[u]
      /\ attempts'[t] = 0 /\ \A u \in Threads \ {t} : attempts'[u] = attempts[u]
      /\ steady' \in [Threads -> BOOLEAN] /\ \A u \in Threads \ {t} : steady'[u] = steady[u]
      /\ steady'[t] => /\ context /\ RefreshEnabled /\ t \notin Denied
                       /\ secret = valid \/ auth[OwnerOf[t]].cred = secret
      /\ response'[t] = "ok" /\ \A u \in Threads \ {t} : response'[u] = response[u]
      /\ pc'[t] = "create" /\ \A u \in Threads \ {t} : pc'[u] = pc[u]
      /\ Hosts' = Hosts /\ ClientLists'
      /\ UNCHANGED <<valid, secret, context, auth, region_redirected, mu,
                    generation, CredentialRefreshLock, data, entry, fetched, calls>>
  <2>1. Hosts' = Hosts /\ ClientLists'
    BY <1>a, <1>s DEF Types, Request, Hosts, ClientLists, ownerVars
  <2> DEFINE now == /\ context /\ RefreshEnabled /\ t \notin Denied
                    /\ auth[OwnerOf[t]].cred = secret \/ secret = valid
  <2>2. steady' = [steady EXCEPT ![t] = now] /\ now \in BOOLEAN
    BY DEF Request
  <2> HIDE DEF now
  <2>3. /\ steady' \in [Threads -> BOOLEAN] /\ \A u \in Threads \ {t} : steady'[u] = steady[u]
        /\ steady'[t] = now
    <3>1. t \in Threads /\ steady \in [Threads -> BOOLEAN]
      BY <1>a, <1>s DEF Types
    <3> QED
      BY <2>2, <3>1
  <2> QED
    BY <1>a, <1>s, <2>1, <2>3
       DEF Types, Request, Goto, now, envVars, ownerVars, lockVars
<1>2. Types'
  <2>1. pc' \in [Threads -> {"idle", "create"} \cup Made]
    BY <1>a, <1>s, <1>1 DEF Types, Made, Holding, Request, envVars, ownerVars,
      lockVars, flagVars, histVars, Goto, RefreshReturns, ReleaseLocks
  <2>2. requests' \in [Threads -> 0 .. MaxRequests]
    <3>1. /\ requests[t] \in 0 .. MaxRequests /\ requests[t] < MaxRequests
          /\ requests \in [Threads -> 0 .. MaxRequests]
      BY <1>a, <1>1 DEF Types
    <3>2. requests[t] + 1 \in 0 .. MaxRequests
      BY <1>s, <3>1
    <3> QED
      BY <1>s, <3>1, <3>2 DEF Request
  <2>3. response' \in [Threads -> {"ok", "auth", "redirect", "error"}]
    BY <1>a, <1>s, <1>1 DEF Types, Request, envVars, ownerVars, lockVars, flagVars,
      histVars, Goto, RefreshReturns, ReleaseLocks
  <2>4. retried_auth_refresh' \in [Threads -> BOOLEAN]
    BY <1>a, <1>s, <1>1 DEF Types, Request, envVars, ownerVars, lockVars, flagVars,
      histVars, Goto, RefreshReturns, ReleaseLocks
  <2>5. retried_region' \in [Threads -> BOOLEAN]
    BY <1>a, <1>s, <1>1 DEF Types, Request, envVars, ownerVars, lockVars, flagVars,
      histVars, Goto, RefreshReturns, ReleaseLocks
  <2>6. attempts' \in [Threads -> Nat]
    BY <1>a, <1>s, <1>1 DEF Types, Request, envVars, ownerVars, lockVars, flagVars,
      histVars, Goto, RefreshReturns, ReleaseLocks
  <2>7. steady' \in [Threads -> BOOLEAN]
    BY <1>a, <1>s, <1>1 DEF Types, Request, envVars, ownerVars, lockVars, flagVars,
      histVars, Goto, RefreshReturns, ReleaseLocks
  <2> QED
    BY <1>a, <1>s, <1>1, <2>1, <2>2, <2>3, <2>4, <2>5, <2>6, <2>7 DEF Types
<1>3. Locks'
  BY <1>a, <1>s, <1>1 DEF Locks, LocksOf, Holding, HoldsLock
<1>4. Past'
  BY <1>a, <1>s, <1>1 DEF Past
<1>5. Refusals'
  BY <1>a, <1>s, <1>1 DEF Refusals, Refused, Holding
<1>6. Renewals'
  BY <1>a, <1>s, <1>1 DEF Renewals, RenewalOf
<1>7. Sends'
  BY <1>a, <1>s, <1>1 DEF Sends, SendsOf, One, Unsent, Holding
<1>8. RegionsSettled => InRegion'
  <2> SUFFICES ASSUME RegionsSettled
               PROVE  InRegion'
    OBVIOUS
  <2>1. requests'[t] = requests[t] + 1 /\ requests[t] \in Nat /\ requests'[t] # 0
    BY <1>a, <1>s, <1>1 DEF Types
  <2>2. ASSUME OwnerOf[t] \in Listings, auth[OwnerOf[t]].region = Home
        PROVE  SecretRegion = Home
    <3>1. SecretRegion = Home \/ requests[t] = 0
      BY <1>s, <1>1, <2>1, <2>2 DEF RegionsSettled
    <3> QED
      BY <1>a, <1>1, <2>2, <3>1 DEF InRegion
  <2> QED
    BY <1>a, <1>s, <1>1, <2>1, <2>2 DEF InRegion, Made, Holding
<1>9. RegionsSettled => OwnClients'
  BY <1>a, <1>s, <1>1 DEF OwnClients, Made, Holding
<1>10. RegionsSettled => Steadiness'
  BY <1>a, <1>s, <1>1 DEF Steadiness, Made, Holding
<1>11. RegionsSettled => EveryFailureExcused'
  BY <1>a, <1>s, <1>1 DEF EveryFailureExcused
<1> QED
  BY <1>s, <1>2, <1>3, <1>4, <1>5, <1>6, <1>7, <1>8, <1>9, <1>10, <1>11
     DEF AuthInv, RefreshInv, SettledInv

\* The request gets its data.
LEMMA CreateStep ==
  ASSUME AuthInv, UNCHANGED situation, NEW t \in Users, CreateRequestData(t)
  PROVE  AuthInv'
<1>a. /\ Types /\ Locks /\ Past /\ Refusals /\ Renewals /\ Sends
      /\ RegionsSettled => InRegion /\ OwnClients /\ Steadiness /\ EveryFailureExcused
  BY DEF AuthInv, RefreshInv, SettledInv
<1>s. Still /\ Sets
  BY <1>a, StillHolds, SetsHold DEF Types
<1> USE DEF Still, Sets
<1>1. /\ pc[t] = "create"
      /\ t \in Threads /\ OwnerOf[t] \in Owners
      /\ data'[t] = auth[OwnerOf[t]] /\ \A u \in Threads \ {t} : data'[u] = data[u]
      /\ auth[OwnerOf[t]] \in Material
      /\ entry' \in [Threads -> [client : Regions \cup {None}, generation : Nat]]
      /\ entry'[t].client = None /\ \A u \in Threads \ {t} : entry'[u] = entry[u]
      /\ pc'[t] = (IF OwnerOf[t] \in Handles THEN "checkout" ELSE "send") /\ \A u \in Threads \ {t} : pc'[u] = pc[u]
      /\ Hosts' = Hosts /\ ClientLists'
      /\ UNCHANGED <<valid, secret, context, auth, region_redirected, mu,
                    generation, CredentialRefreshLock, requests, response,
                    retried_auth_refresh, retried_region, fetched, attempts,
                    steady, calls>>
  <2>1. Hosts' = Hosts /\ ClientLists'
    BY <1>a, <1>s DEF Types, CreateRequestData, Hosts, ClientLists, ownerVars
  <2>2. /\ t \in Threads /\ OwnerOf[t] \in Owners /\ auth[OwnerOf[t]] \in Material
        /\ entry[t] \in [client : Regions \cup {None}, generation : Nat]
    BY <1>a, <1>s DEF Types
  <2>3. entry' = [entry EXCEPT ![t].client = None]
    BY DEF CreateRequestData
  <2>4. [entry[t] EXCEPT !.client = None] \in [client : Regions \cup {None}, generation : Nat]
    BY <2>2
  <2>5. /\ entry' \in [Threads -> [client : Regions \cup {None}, generation : Nat]]
        /\ entry'[t].client = None /\ \A u \in Threads \ {t} : entry'[u] = entry[u]
    BY <1>a, <2>2, <2>3, <2>4 DEF Types
  <2> QED
    BY <1>a, <2>1, <2>2, <2>5
    DEF Types, CreateRequestData, envVars, ownerVars, lockVars, flagVars, histVars, Goto
<1>2. Types'
  <2>1. pc' \in [Threads -> {"idle", "create"} \cup Made]
    BY <1>a, <1>s, <1>1 DEF Types, Made, Holding, CreateRequestData, envVars,
      ownerVars, lockVars, flagVars, histVars, Goto, RefreshReturns, ReleaseLocks
  <2>2. data' \in [Threads -> Material]
    BY <1>a, <1>s, <1>1 DEF Types, CreateRequestData, envVars, ownerVars, lockVars,
      flagVars, histVars, Goto, RefreshReturns, ReleaseLocks
  <2>3. entry' \in [Threads -> [client : Regions \cup {None}, generation : Nat]]
    BY <1>a, <1>s, <1>1 DEF Types, CreateRequestData, envVars, ownerVars, lockVars,
      flagVars, histVars, Goto, RefreshReturns, ReleaseLocks
  <2> QED
    BY <1>a, <1>s, <1>1, <2>1, <2>2, <2>3 DEF Types
<1>3. Locks'
  <2>1. ASSUME NEW u \in Users, u # t
        PROVE  LocksOf(u)'
    BY <1>a, <1>s, <1>1, <2>1 DEF Locks, LocksOf, Holding, HoldsLock
  <2>2. LocksOf(t)'
    BY <1>a, <1>s, <1>1 DEF Locks, LocksOf, Holding, HoldsLock
  <2> QED
    BY <1>a, <1>s, <1>1, <2>1, <2>2 DEF Locks
<1>4. Past'
  BY <1>a, <1>s, <1>1 DEF Past
<1>5. Refusals'
  BY <1>a, <1>s, <1>1 DEF Refusals, Refused, Holding
<1>6. Renewals'
  BY <1>a, <1>s, <1>1 DEF Renewals, RenewalOf
<1>7. Sends'
  BY <1>a, <1>s, <1>1 DEF Sends, SendsOf, One, Unsent, Holding
<1>8. RegionsSettled => InRegion'
  BY <1>a, <1>s, <1>1 DEF InRegion, Made, Holding
<1>9. RegionsSettled => OwnClients'
  BY <1>a, <1>s, <1>1 DEF OwnClients, Made, Holding
<1>10. RegionsSettled => Steadiness'
  BY <1>a, <1>s, <1>1 DEF Steadiness, Made, Holding
<1>11. RegionsSettled => EveryFailureExcused'
  BY <1>a, <1>s, <1>1 DEF EveryFailureExcused
<1> QED
  BY <1>s, <1>2, <1>3, <1>4, <1>5, <1>6, <1>7, <1>8, <1>9, <1>10, <1>11
     DEF AuthInv, RefreshInv, SettledInv

\* It takes a stored client.
LEMMA CheckoutStep ==
  ASSUME AuthInv, UNCHANGED situation, NEW t \in Users, GetClientWithGeneration(t)
  PROVE  AuthInv'
<1>a. /\ Types /\ Locks /\ Past /\ Refusals /\ Renewals /\ Sends
      /\ RegionsSettled => InRegion /\ OwnClients /\ Steadiness /\ EveryFailureExcused
  BY DEF AuthInv, RefreshInv, SettledInv
<1>s. Still /\ Sets
  BY <1>a, StillHolds, SetsHold DEF Types
<1> USE DEF Still, Sets
<1>1. /\ pc[t] = "checkout"
      /\ t \in Threads /\ OwnerOf[t] \in Owners
      /\ entry' \in [Threads -> [client : Regions \cup {None}, generation : Nat]]
      /\ entry'[t].client \in Hosts[OwnerOf[t]] \cup {None}
      /\ \A u \in Threads \ {t} : entry'[u] = entry[u]
      /\ pc'[t] = "send" /\ \A u \in Threads \ {t} : pc'[u] = pc[u]
      /\ ClientLists' /\ \A o \in Owners : Hosts'[o] \subseteq Hosts[o]
      /\ UNCHANGED <<valid, secret, context, auth, region_redirected, mu,
                    generation, CredentialRefreshLock, requests, data, response,
                    retried_auth_refresh, retried_region, fetched, attempts,
                    steady, calls>>
  <2> DEFINE o == OwnerOf[t]
             seq == clients[o]
             rest == SubSeq(seq, 1, Len(seq) - 1)
             hosts(s) == {s[i] : i \in DOMAIN s}
             client == IF Len(seq) = 0 THEN None ELSE seq[Len(seq)]
  <2>1. /\ pc[t] = "checkout" /\ pc' = [pc EXCEPT ![t] = "send"]
        /\ entry' = [entry EXCEPT ![t] = [client |-> client, generation |-> generation[o]]]
        /\ clients' = [clients EXCEPT ![o] = rest]
        /\ UNCHANGED <<envVars, auth, region_redirected, generation, lockVars, flagVars, histVars,
                       requests, data, response, fetched>>
    BY DEF GetClientWithGeneration, Goto
  <2>2. t \in Threads /\ o \in Owners
    BY <1>s
  <2>3. seq \in Seq(Regions) /\ clients \in [Owners -> Seq(Regions)]
    BY <1>a, <2>2 DEF Types, ClientLists
  <2>4. /\ rest \in Seq(Regions) /\ hosts(rest) \subseteq hosts(seq)
        /\ client \in hosts(seq) \cup {None} /\ hosts(seq) \subseteq Regions
    BY <2>3, ClientFacts
  <2> HIDE DEF rest, client
  <2>5. /\ ClientLists' /\ clients'[o] = rest
        /\ \A x \in Owners \ {o} : clients'[x] = clients[x]
    BY <1>s, <2>1, <2>2, <2>3, <2>4 DEF ClientLists
  <2>6. \A x \in Owners : Hosts[x] = hosts(clients[x]) /\ Hosts'[x] = hosts(clients'[x])
    BY <1>s DEF Hosts
  <2>7. \A x \in Owners : Hosts'[x] \subseteq Hosts[x]
    <3>1. Hosts'[o] = hosts(rest) /\ Hosts[o] = hosts(seq)
      BY <2>2, <2>5, <2>6
    <3> HIDE DEF hosts, seq
    <3>2. Hosts'[o] \subseteq Hosts[o]
      BY <2>4, <3>1
    <3>3. \A x \in Owners \ {o} : Hosts'[x] = Hosts[x]
      BY <2>5, <2>6
    <3> QED
      BY <3>2, <3>3
  <2>8. Hosts[o] = hosts(seq)
    BY <2>2, <2>6
  <2> HIDE DEF seq
  <2> HIDE DEF hosts
  <2>9. /\ entry' \in [Threads -> [client : Regions \cup {None}, generation : Nat]]
        /\ entry'[t].client = client /\ \A u \in Threads \ {t} : entry'[u] = entry[u]
    <3>1. generation[o] \in Nat /\ client \in Regions \cup {None}
      BY <1>a, <2>2, <2>4 DEF Types
    <3> QED
      BY <1>a, <2>1, <2>2, <3>1 DEF Types
  <2> QED
    BY <1>a, <2>1, <2>2, <2>4, <2>5, <2>7, <2>8, <2>9
       DEF Types, envVars, lockVars, flagVars, histVars
<1>2. Types'
  <2>1. pc' \in [Threads -> {"idle", "create"} \cup Made]
    BY <1>a, <1>s, <1>1 DEF Types, Made, Holding, GetClientWithGeneration, envVars,
      ownerVars, lockVars, flagVars, histVars, Goto, RefreshReturns, ReleaseLocks
  <2>2. entry' \in [Threads -> [client : Regions \cup {None}, generation : Nat]]
    BY <1>a, <1>s, <1>1 DEF Types, GetClientWithGeneration, envVars, ownerVars,
      lockVars, flagVars, histVars, Goto, RefreshReturns, ReleaseLocks
  <2> QED
    BY <1>a, <1>s, <1>1, <2>1, <2>2 DEF Types
<1>b. /\ pc[t] = "checkout" /\ pc'[t] = "send" /\ \A u \in Threads \ {t} : pc'[u] = pc[u]
      /\ UNCHANGED <<mu, CredentialRefreshLock, response, attempts>>
  BY <1>1
<1>3. Locks'
  BY <1>a, <1>s, <1>b DEF Locks, LocksOf, Holding, HoldsLock
<1>4. Past'
  BY <1>a, <1>s, <1>1 DEF Past
<1>5. Refusals'
  BY <1>a, <1>s, <1>1 DEF Refusals, Refused, Holding
<1>6. Renewals'
  BY <1>a, <1>s, <1>1 DEF Renewals, RenewalOf
<1>7. Sends'
  BY <1>a, <1>s, <1>1 DEF Sends, SendsOf, One, Unsent, Holding
<1>8. RegionsSettled => InRegion'
  BY <1>a, <1>s, <1>1 DEF InRegion, Made, Holding
<1>9. RegionsSettled => OwnClients'
  BY <1>a, <1>s, <1>1 DEF OwnClients, Made, Holding
<1>10. RegionsSettled => Steadiness'
  BY <1>a, <1>s, <1>1 DEF Steadiness, Made, Holding
<1>11. RegionsSettled => EveryFailureExcused'
  BY <1>a, <1>s, <1>1 DEF EveryFailureExcused
<1> QED
  BY <1>s, <1>2, <1>3, <1>4, <1>5, <1>6, <1>7, <1>8, <1>9, <1>10, <1>11
     DEF AuthInv, RefreshInv, SettledInv

\* It is sent and answered.
LEMMA SendStep ==
  ASSUME AuthInv, UNCHANGED situation, NEW t \in Users, Send(t)
  PROVE  AuthInv'
<1>a. /\ Types /\ Locks /\ Past /\ Refusals /\ Renewals /\ Sends
      /\ RegionsSettled => InRegion /\ OwnClients /\ Steadiness /\ EveryFailureExcused
  BY DEF AuthInv, RefreshInv, SettledInv
<1>s. Still /\ Sets
  BY <1>a, StillHolds, SetsHold DEF Types
<1> USE DEF Still, Sets
<1>1. /\ pc[t] = "send"
      /\ t \in Threads /\ OwnerOf[t] \in Owners
      /\ response'[t] = Answer(t) /\ \A u \in Threads \ {t} : response'[u] = response[u]
      /\ Answer(t) \in {"ok", "auth", "redirect"}
      /\ Answer(t) = "auth" => /\ data[t].region = Home
                               /\ t \notin Denied => data[t].cred # valid
      /\ Answer(t) = "redirect" => Host(t) # Home \/ data[t].region # Home
      /\ Host(t) \in Regions
      /\ entry[t].client \in {None, data[t].region} => Host(t) = data[t].region
      /\ entry' \in [Threads -> [client : Regions \cup {None}, generation : Nat]]
      /\ entry'[t].client = Host(t) /\ \A u \in Threads \ {t} : entry'[u] = entry[u]
      /\ attempts'[t] = attempts[t] + 1
      /\ \A u \in Threads \ {t} : attempts'[u] = attempts[u]
      /\ pc'[t] = (IF OwnerOf[t] \in Handles THEN "store" ELSE "judge") /\ \A u \in Threads \ {t} : pc'[u] = pc[u]
      /\ Hosts' = Hosts /\ ClientLists'
      /\ UNCHANGED <<valid, secret, context, auth, region_redirected, mu,
                    generation, CredentialRefreshLock, requests, data,
                    retried_auth_refresh, retried_region, fetched, steady, calls>>
  <2>1. Hosts' = Hosts /\ ClientLists'
    BY <1>a, <1>s DEF Types, Send, Hosts, ClientLists, ownerVars
  <2>2. /\ Answer(t) \in {"ok", "auth", "redirect"}
        /\ Answer(t) = "auth" => /\ data[t].region = Home
                                 /\ t \notin Denied => data[t].cred # valid
        /\ Answer(t) = "redirect" => Host(t) # Home \/ data[t].region # Home
    BY DEF Answer
  <2>3. /\ Host(t) \in Regions
        /\ entry[t].client \in {None, data[t].region} => Host(t) = data[t].region
    BY <1>a, <1>s DEF Types, Host, Material
  <2>4. /\ t \in Threads /\ OwnerOf[t] \in Owners
        /\ entry[t] \in [client : Regions \cup {None}, generation : Nat]
    BY <1>a, <1>s DEF Types
  <2>5. entry' = [entry EXCEPT ![t].client = Host(t)]
    BY DEF Send
  <2>6. [entry[t] EXCEPT !.client = Host(t)]
          \in [client : Regions \cup {None}, generation : Nat]
    BY <2>3, <2>4
  <2> HIDE DEF Host
  <2>7. /\ entry' \in [Threads -> [client : Regions \cup {None}, generation : Nat]]
        /\ entry'[t].client = Host(t) /\ \A u \in Threads \ {t} : entry'[u] = entry[u]
    BY <1>a, <2>4, <2>5, <2>6 DEF Types
  <2> QED
    BY <1>a, <2>1, <2>2, <2>3, <2>4, <2>7
    DEF Types, Send, envVars, ownerVars, lockVars, flagVars, Goto, AfterSend
<1>2. Types'
  <2>1. pc' \in [Threads -> {"idle", "create"} \cup Made]
    BY <1>a, <1>s, <1>1 DEF Types, Made, Holding, Send, envVars, ownerVars, lockVars,
      flagVars, histVars, Goto, RefreshReturns, ReleaseLocks
  <2>2. entry' \in [Threads -> [client : Regions \cup {None}, generation : Nat]]
    BY <1>a, <1>s, <1>1 DEF Types, Send, envVars, ownerVars, lockVars, flagVars,
      histVars, Goto, RefreshReturns, ReleaseLocks
  <2>3. response' \in [Threads -> {"ok", "auth", "redirect", "error"}]
    BY <1>a, <1>s, <1>1 DEF Types, Send, envVars, ownerVars, lockVars, flagVars,
      histVars, Goto, RefreshReturns, ReleaseLocks
  <2>4. attempts' \in [Threads -> Nat]
    <3>1. attempts[t] + 1 \in Nat /\ attempts \in [Threads -> Nat]
      BY <1>a, <1>1 DEF Types
    <3> QED
      BY <3>1 DEF Send
  <2> QED
    BY <1>a, <1>s, <1>1, <2>1, <2>2, <2>3, <2>4 DEF Types
<1>3. Locks'
  <2>1. ASSUME NEW u \in Users, u # t
        PROVE  LocksOf(u)'
    BY <1>a, <1>s, <1>1, <2>1 DEF Locks, LocksOf, Holding, HoldsLock
  <2>2. LocksOf(t)'
    BY <1>a, <1>s, <1>1 DEF Locks, LocksOf, Holding, HoldsLock
  <2> QED
    BY <1>a, <1>s, <1>1, <2>1, <2>2 DEF Locks
<1>4. Past'
  BY <1>a, <1>s, <1>1 DEF Past
<1>5. Refusals'
  <2>1. ASSUME NEW u \in Users, u # t
        PROVE  Refused(u)' <=> Refused(u)
    BY <1>s, <1>1, <2>1 DEF Refused
  <2>2. Refused(t)' => Answer(t) = "auth"
    BY <1>1 DEF Refused, Holding
  <2>3. t \notin Denied /\ Answer(t) = "auth" => data[t].cred < valid
    <3>1. data[t].cred \in Int /\ valid \in Int
      BY <1>a, <1>s, <1>1 DEF Types, Material
    <3> QED
      BY <1>a, <1>1, <3>1 DEF Past
  <2> QED
    BY <1>a, <1>s, <1>1, <2>1, <2>2, <2>3 DEF Refusals
<1>6. Renewals'
  BY <1>a, <1>s, <1>1 DEF Renewals, RenewalOf
<1>7. Sends'
  <2>1. ASSUME NEW u \in Users, u # t
        PROVE  SendsOf(u)'
    BY <1>a, <1>s, <1>1, <2>1 DEF Sends, SendsOf, One, Unsent, Holding
  <2>2. SendsOf(t)'
    <3>1. One(pc[t] \notin Unsent) = 0 /\ One(pc'[t] \notin Unsent) = 1 /\ pc'[t] \notin Holding
      BY <1>1 DEF One, Unsent, Holding
    <3>2. /\ One(retried_auth_refresh[t]) \in Int /\ One(retried_region[t]) \in Int
          /\ attempts[t] \in Int
      BY <1>a, <1>1 DEF One, Types
    <3>3. attempts[t] <= One(retried_auth_refresh[t]) + One(retried_region[t]) + 0
      BY <1>a, <3>1 DEF Sends, SendsOf
    <3>4. attempts'[t] <= One(retried_auth_refresh'[t]) + One(retried_region'[t]) + 1
      BY <1>1, <3>2, <3>3
    <3> QED
      BY <3>1, <3>4 DEF SendsOf
  <2> QED
    BY <1>a, <1>s, <1>1, <2>1, <2>2 DEF Sends
<1>8. RegionsSettled => InRegion'
  BY <1>a, <1>s, <1>1 DEF InRegion, Made, Holding
<1>9. RegionsSettled => OwnClients'
  BY <1>a, <1>s, <1>1 DEF OwnClients, Made, Holding
<1>10. RegionsSettled => Steadiness'
  BY <1>a, <1>s, <1>1 DEF Steadiness, Made, Holding
<1>11. RegionsSettled => EveryFailureExcused'
  BY <1>a, <1>s, <1>1 DEF EveryFailureExcused
<1> QED
  BY <1>s, <1>2, <1>3, <1>4, <1>5, <1>6, <1>7, <1>8, <1>9, <1>10, <1>11
     DEF AuthInv, RefreshInv, SettledInv

\* The request throws.
LEMMA ThrowStep ==
  ASSUME AuthInv, UNCHANGED situation, NEW t \in Users, SendThrows(t)
  PROVE  AuthInv'
<1>a. /\ Types /\ Locks /\ Past /\ Refusals /\ Renewals /\ Sends
      /\ RegionsSettled => InRegion /\ OwnClients /\ Steadiness /\ EveryFailureExcused
  BY DEF AuthInv, RefreshInv, SettledInv
<1>s. Still /\ Sets
  BY <1>a, StillHolds, SetsHold DEF Types
<1> USE DEF Still, Sets
<1>1. /\ pc[t] = "send"
      /\ t \in Threads /\ OwnerOf[t] \in Owners
      /\ response'[t] = "error" /\ \A u \in Threads \ {t} : response'[u] = response[u]
      /\ attempts'[t] = attempts[t] + 1
      /\ \A u \in Threads \ {t} : attempts'[u] = attempts[u]
      /\ steady'[t] = FALSE /\ \A u \in Threads \ {t} : steady'[u] = steady[u]
      /\ pc'[t] = "idle" /\ \A u \in Threads \ {t} : pc'[u] = pc[u]
      /\ Hosts' = Hosts /\ ClientLists'
      /\ UNCHANGED <<valid, secret, context, auth, region_redirected, mu,
                    generation, CredentialRefreshLock, requests, data, entry,
                    retried_auth_refresh, retried_region, fetched, calls>>
  <2>1. Hosts' = Hosts /\ ClientLists'
    BY <1>a, <1>s DEF Types, SendThrows, Hosts, ClientLists, ownerVars
  <2> QED
    BY <1>a, <1>s, <2>1
       DEF Types, SendThrows, envVars, ownerVars, lockVars, flagVars, histVars, Goto
<1>2. Types'
  <2>1. pc' \in [Threads -> {"idle", "create"} \cup Made]
    BY <1>a, <1>s, <1>1 DEF Types, Made, Holding, SendThrows, envVars, ownerVars,
      lockVars, flagVars, histVars, Goto, RefreshReturns, ReleaseLocks
  <2>2. response' \in [Threads -> {"ok", "auth", "redirect", "error"}]
    BY <1>a, <1>s, <1>1 DEF Types, SendThrows, envVars, ownerVars, lockVars, flagVars,
      histVars, Goto, RefreshReturns, ReleaseLocks
  <2>3. attempts' \in [Threads -> Nat]
    BY SMTT(30), <1>a, <1>s, <1>1
       DEF Types, SendThrows, envVars, ownerVars, lockVars, flagVars,
      histVars, Goto, RefreshReturns, ReleaseLocks
  <2>4. steady' \in [Threads -> BOOLEAN]
    BY <1>a, <1>s, <1>1 DEF Types, SendThrows, envVars, ownerVars, lockVars, flagVars,
      histVars, Goto, RefreshReturns, ReleaseLocks
  <2> QED
    BY <1>a, <1>s, <1>1, <2>1, <2>2, <2>3, <2>4 DEF Types
<1>3. Locks'
  BY <1>a, <1>s, <1>1 DEF Locks, LocksOf, Holding, HoldsLock
<1>4. Past'
  BY <1>a, <1>s, <1>1 DEF Past
<1>5. Refusals'
  BY <1>a, <1>s, <1>1 DEF Refusals, Refused, Holding
<1>6. Renewals'
  BY <1>a, <1>s, <1>1 DEF Renewals, RenewalOf
<1>7. Sends'
  <2>1. ASSUME NEW u \in Users, u # t
        PROVE  SendsOf(u)'
    BY <1>a, <1>s, <1>1, <2>1 DEF Sends, SendsOf, One, Unsent, Holding
  <2>2. SendsOf(t)'
    <3>1. One(pc[t] \notin Unsent) = 0 /\ One(pc'[t] \notin Unsent) = 1 /\ pc'[t] \notin Holding
      BY <1>1 DEF One, Unsent, Holding
    <3>2. /\ One(retried_auth_refresh[t]) \in Int /\ One(retried_region[t]) \in Int
          /\ attempts[t] \in Int
      BY <1>a, <1>1 DEF One, Types
    <3>3. attempts[t] <= One(retried_auth_refresh[t]) + One(retried_region[t]) + 0
      BY <1>a, <3>1 DEF Sends, SendsOf
    <3>4. attempts'[t] <= One(retried_auth_refresh'[t]) + One(retried_region'[t]) + 1
      BY <1>1, <3>2, <3>3
    <3> QED
      BY <3>1, <3>4 DEF SendsOf
  <2> QED
    BY <1>a, <1>s, <1>1, <2>1, <2>2 DEF Sends
<1>8. RegionsSettled => InRegion'
  BY <1>a, <1>s, <1>1 DEF InRegion, Made, Holding
<1>9. RegionsSettled => OwnClients'
  BY <1>a, <1>s, <1>1 DEF OwnClients, Made, Holding
<1>10. RegionsSettled => Steadiness'
  BY <1>a, <1>s, <1>1 DEF Steadiness, Made, Holding
<1>11. RegionsSettled => EveryFailureExcused'
  BY <1>a, <1>s, <1>1 DEF EveryFailureExcused
<1> QED
  BY <1>s, <1>2, <1>3, <1>4, <1>5, <1>6, <1>7, <1>8, <1>9, <1>10, <1>11
     DEF AuthInv, RefreshInv, SettledInv

\* Its client is stored.
LEMMA StoreStep ==
  ASSUME AuthInv, UNCHANGED situation, NEW t \in Users, StoreClient(t)
  PROVE  AuthInv'
<1>a. /\ Types /\ Locks /\ Past /\ Refusals /\ Renewals /\ Sends
      /\ RegionsSettled => InRegion /\ OwnClients /\ Steadiness /\ EveryFailureExcused
  BY DEF AuthInv, RefreshInv, SettledInv
<1>s. Still /\ Sets
  BY <1>a, StillHolds, SetsHold DEF Types
<1> USE DEF Still, Sets
<1>1. /\ pc[t] = "store"
      /\ t \in Threads /\ OwnerOf[t] \in Owners
      /\ pc'[t] = "judge" /\ \A u \in Threads \ {t} : pc'[u] = pc[u]
      /\ entry[t].client \in Regions /\ ClientLists'
      /\ \A o \in Owners \ {OwnerOf[t]} : Hosts'[o] = Hosts[o]
      /\ Hosts'[OwnerOf[t]] \subseteq Hosts[OwnerOf[t]] \cup {entry[t].client}
      /\ UNCHANGED <<valid, secret, context, auth, region_redirected, mu,
                    generation, CredentialRefreshLock, requests, data, entry,
                    response, retried_auth_refresh, retried_region, fetched,
                    attempts, steady, calls>>
  <2> DEFINE o == OwnerOf[t]
             seq == clients[o]
             hosts(s) == {s[i] : i \in DOMAIN s}
             client == entry[t].client
  <2>1. /\ pc[t] = "store" /\ pc' = [pc EXCEPT ![t] = "judge"]
        /\ clients' = [clients EXCEPT ![o] = Stored(o, entry[t])]
        /\ UNCHANGED <<envVars, auth, region_redirected, generation, lockVars, flagVars, histVars,
                       requests, data, entry, response, fetched>>
    BY DEF StoreClient, Goto
  <2>2. t \in Threads /\ o \in Owners
    BY <1>s
  <2>3. seq \in Seq(Regions) /\ clients \in [Owners -> Seq(Regions)]
    BY <1>a, <2>2 DEF Types, ClientLists
  <2>4. /\ client \in Regions /\ Append(seq, client) \in Seq(Regions)
        /\ hosts(Append(seq, client)) \subseteq hosts(seq) \cup {client}
    <3>1. client \in Regions
      BY <1>a, <2>1, <2>2 DEF Types
    <3> QED
      BY <2>3, <3>1, ClientFacts
  <2>5. Stored(o, entry[t]) \in {seq, Append(seq, client)}
    BY DEF Stored
  <2>6. /\ clients'[o] \in {seq, Append(seq, client)}
        /\ \A x \in Owners \ {o} : clients'[x] = clients[x]
    BY <2>1, <2>2, <2>3, <2>5
  <2>7. ClientLists'
    BY <1>s, <2>1, <2>2, <2>3, <2>4, <2>5 DEF ClientLists
  <2>8. \A x \in Owners : Hosts[x] = hosts(clients[x]) /\ Hosts'[x] = hosts(clients'[x])
    BY <1>a, <1>s DEF Types, Hosts
  <2>9. hosts(clients'[o]) \subseteq hosts(seq) \cup {client}
    <3>1. clients'[o] = seq \/ clients'[o] = Append(seq, client)
      BY <2>6
    <3> HIDE DEF seq, client
    <3>2. hosts(clients'[o]) = hosts(seq) \/ hosts(clients'[o]) = hosts(Append(seq, client))
      BY <3>1
    <3> HIDE DEF hosts
    <3> QED
      BY <2>4, <3>2
  <2> HIDE DEF hosts, seq
  <2>10. /\ \A x \in Owners \ {o} : Hosts'[x] = Hosts[x]
         /\ Hosts'[o] \subseteq Hosts[o] \cup {client}
    <3>1. Hosts'[o] = hosts(clients'[o]) /\ Hosts[o] = hosts(seq)
      BY <2>2, <2>8 DEF seq
    <3> QED
      BY <2>6, <2>8, <2>9, <3>1
  <2> HIDE DEF client
  <2> QED
    BY <1>a, <2>1, <2>2, <2>4, <2>7, <2>10
       DEF Types, client, envVars, lockVars, flagVars, histVars
<1>2. Types'
  <2>1. pc' \in [Threads -> {"idle", "create"} \cup Made]
    BY <1>a, <1>s, <1>1 DEF Types, Made, Holding, StoreClient, envVars, ownerVars,
      lockVars, flagVars, histVars, Goto, RefreshReturns, ReleaseLocks
  <2> QED
    BY <1>a, <1>s, <1>1, <2>1 DEF Types
<1>3. Locks'
  BY <1>a, <1>s, <1>1 DEF Locks, LocksOf, Holding, HoldsLock
<1>4. Past'
  BY <1>a, <1>s, <1>1 DEF Past
<1>5. Refusals'
  BY <1>a, <1>s, <1>1 DEF Refusals, Refused, Holding
<1>6. Renewals'
  BY <1>a, <1>s, <1>1 DEF Renewals, RenewalOf
<1>7. Sends'
  BY <1>a, <1>s, <1>1 DEF Sends, SendsOf, One, Unsent, Holding
<1>8. RegionsSettled => InRegion'
  BY <1>a, <1>s, <1>1 DEF InRegion, Made, Holding
<1>9. RegionsSettled => OwnClients'
  BY <1>a, <1>s, <1>1 DEF OwnClients, Made, Holding
<1>10. RegionsSettled => Steadiness'
  BY <1>a, <1>s, <1>1 DEF Steadiness, Made, Holding
<1>11. RegionsSettled => EveryFailureExcused'
  BY <1>a, <1>s, <1>1 DEF EveryFailureExcused
<1> QED
  BY <1>s, <1>2, <1>3, <1>4, <1>5, <1>6, <1>7, <1>8, <1>9, <1>10, <1>11
     DEF AuthInv, RefreshInv, SettledInv

\* The request is over: nothing is tried again.
LEMMA ReturnStep ==
  ASSUME AuthInv, UNCHANGED situation, NEW t \in Users,
         pc[t] \in {"judge"} \cup Holding,
         pc' = [pc EXCEPT ![t] = "idle"],
         response' = [response EXCEPT ![t] = IF @ = "ok" THEN "ok" ELSE "error"],
         steady' \in {steady, [steady EXCEPT ![t] = FALSE]},
         RegionsSettled /\ SettledInv /\ steady'[t] => response'[t] # "error",
         IF pc[t] = "judge" THEN UNCHANGED lockVars ELSE ReleaseLocks(t),
         UNCHANGED <<clients>>,
         UNCHANGED <<valid, secret, context, auth, region_redirected, generation,
                    requests, data, entry, retried_auth_refresh, retried_region,
                    fetched, attempts, calls>>
  PROVE  AuthInv'
<1>a. /\ Types /\ Locks /\ Past /\ Refusals /\ Renewals /\ Sends
      /\ RegionsSettled => InRegion /\ OwnClients /\ Steadiness /\ EveryFailureExcused
  BY DEF AuthInv, RefreshInv, SettledInv
<1>s. Still /\ Sets
  BY <1>a, StillHolds, SetsHold DEF Types
<1> USE DEF Still, Sets
<1>1. /\ t \in Threads /\ OwnerOf[t] \in Owners
      /\ mu'[OwnerOf[t]] = IF pc[t] = "judge" THEN mu[OwnerOf[t]] ELSE None
      /\ \A o \in Owners \ {OwnerOf[t]} : mu'[o] = mu[o]
      /\ CredentialRefreshLock' = IF CredentialRefreshLock = t THEN None
                                                               ELSE CredentialRefreshLock
      /\ \A u \in Threads \ {t} : steady'[u] = steady[u]
      /\ pc'[t] = "idle" /\ \A u \in Threads \ {t} : pc'[u] = pc[u]
      /\ steady'[t] => steady[t]
      /\ response'[t] \in {"ok", "error"} /\ \A u \in Threads \ {t} : response'[u] = response[u]
      /\ Hosts' = Hosts /\ ClientLists'
  <2>1. Hosts' = Hosts /\ ClientLists'
    BY <1>a, <1>s DEF Types, Hosts, ClientLists
  <2>2. t \in Threads /\ OwnerOf[t] \in Owners
    BY <1>s
  <2>3. /\ \A u \in Threads \ {t} : steady'[u] = steady[u]
        /\ steady'[t] => steady[t]
    BY <1>a, <2>2 DEF Types
  <2>4. /\ pc'[t] = "idle" /\ \A u \in Threads \ {t} : pc'[u] = pc[u]
        /\ response'[t] \in {"ok", "error"}
        /\ \A u \in Threads \ {t} : response'[u] = response[u]
    BY <1>a, <2>2 DEF Types
  <2>5. /\ mu'[OwnerOf[t]] = IF pc[t] = "judge" THEN mu[OwnerOf[t]] ELSE None
        /\ \A o \in Owners \ {OwnerOf[t]} : mu'[o] = mu[o]
        /\ CredentialRefreshLock' = IF CredentialRefreshLock = t THEN None
                                                                 ELSE CredentialRefreshLock
    <3>1. CASE pc[t] = "judge"
      <4>1. CredentialRefreshLock # t /\ UNCHANGED <<mu, CredentialRefreshLock>>
        BY <1>a, <3>1 DEF Locks, LocksOf, HoldsLock, lockVars
      <4> QED
        BY <3>1, <4>1
    <3>2. CASE pc[t] # "judge"
      <4>1. /\ mu' = [mu EXCEPT ![OwnerOf[t]] = None]
            /\ CredentialRefreshLock' = IF CredentialRefreshLock = t THEN None
                                                                     ELSE CredentialRefreshLock
        BY <3>2 DEF ReleaseLocks
      <4> QED
        BY <1>a, <2>2, <3>2, <4>1 DEF Types
    <3> QED
      BY <3>1, <3>2
  <2> QED
    BY <2>1, <2>2, <2>3, <2>4, <2>5
<1>2. Types'
  <2>1. mu' \in [Owners -> Threads \cup {None}]
    <3>1. mu' = mu \/ mu' = [mu EXCEPT ![OwnerOf[t]] = None]
      BY DEF ReleaseLocks, lockVars
    <3> QED
      BY <1>a, <3>1 DEF Types
  <2>2. CredentialRefreshLock' \in Threads \cup {None}
    BY <1>a, <1>s, <1>1 DEF Types, ReleaseLocks
  <2>3. pc' \in [Threads -> {"idle", "create"} \cup Made]
    BY <1>a, <1>s, <1>1 DEF Types, Made, Holding, ReleaseLocks
  <2>4. response' \in [Threads -> {"ok", "auth", "redirect", "error"}]
    BY <1>a, <1>s, <1>1 DEF Types, ReleaseLocks
  <2>5. steady' \in [Threads -> BOOLEAN]
    BY <1>a, <1>s, <1>1 DEF Types, ReleaseLocks
  <2> QED
    BY <1>a, <1>s, <1>1, <2>1, <2>2, <2>3, <2>4, <2>5 DEF Types
<1>3. Locks'
  BY <1>a, <1>s, <1>1 DEF Locks, LocksOf, Holding, HoldsLock
<1>4. Past'
  BY <1>a, <1>s, <1>1 DEF Past
<1>5. Refusals'
  BY <1>a, <1>s, <1>1 DEF Refusals, Refused, Holding
<1>6. Renewals'
  BY <1>a, <1>s, <1>1 DEF Renewals, RenewalOf
<1>7. Sends'
  BY <1>a, <1>s, <1>1 DEF Sends, SendsOf, One, Unsent, Holding
<1>8. RegionsSettled => InRegion'
  BY <1>a, <1>s, <1>1 DEF InRegion, Made, Holding
<1>9. RegionsSettled => OwnClients'
  BY <1>a, <1>s, <1>1 DEF OwnClients, Made, Holding
<1>10. RegionsSettled => Steadiness'
  BY <1>a, <1>s, <1>1 DEF Steadiness, Made, Holding
<1>11. RegionsSettled => EveryFailureExcused'
  BY <1>a, <1>1 DEF EveryFailureExcused, SettledInv
<1> QED
  BY <1>s, <1>2, <1>3, <1>4, <1>5, <1>6, <1>7, <1>8, <1>9, <1>10, <1>11
     DEF AuthInv, RefreshInv, SettledInv

\* A redirect is followed.
LEMMA SetRegionStep ==
  ASSUME AuthInv, UNCHANGED situation, NEW t \in Users, SetRegion(t)
  PROVE  AuthInv'
<1>a. /\ Types /\ Locks /\ Past /\ Refusals /\ Renewals /\ Sends
      /\ RegionsSettled => InRegion /\ OwnClients /\ Steadiness /\ EveryFailureExcused
  BY DEF AuthInv, RefreshInv, SettledInv
<1>s. Still /\ Sets
  BY <1>a, StillHolds, SetsHold DEF Types
<1> USE DEF Still, Sets
<1>1. /\ pc[t] = "judge" /\ ~retried_region[t] /\ mu[OwnerOf[t]] = None
      /\ t \in Threads /\ OwnerOf[t] \in Owners
      /\ auth' \in [Owners -> Material] /\ auth'[OwnerOf[t]].cred = auth[OwnerOf[t]].cred
      /\ auth'[OwnerOf[t]].region = Home
      /\ \A o \in Owners \ {OwnerOf[t]} : auth'[o] = auth[o]
      /\ region_redirected' \in [Owners -> BOOLEAN]
      /\ OwnerOf[t] \notin Listings => region_redirected'[OwnerOf[t]]
      /\ \A o \in Owners \ {OwnerOf[t]} : region_redirected'[o] = region_redirected[o]
      /\ retried_region'[t] = TRUE
      /\ \A u \in Threads \ {t} : retried_region'[u] = retried_region[u]
      /\ pc'[t] = "create" /\ \A u \in Threads \ {t} : pc'[u] = pc[u]
      /\ ClientLists'
      /\ Hosts'[OwnerOf[t]] = IF OwnerOf[t] \in Handles THEN {} ELSE Hosts[OwnerOf[t]]
      /\ \A o \in Owners \ {OwnerOf[t]} : Hosts'[o] = Hosts[o]
      /\ generation' \in [Owners -> Nat]
      /\ UNCHANGED <<valid, secret, context, mu, CredentialRefreshLock, requests,
                    data, entry, response, retried_auth_refresh, fetched, attempts,
                    steady, calls>>
  <2>1. OwnerOf[t] \in Owners /\ auth[OwnerOf[t]] \in Material /\ Home \in Regions
    BY <1>a, <1>s DEF Types
  <2>2. auth' = [auth EXCEPT ![OwnerOf[t]].region = Home]
    BY DEF SetRegion
  <2>3. /\ auth' \in [Owners -> Material] /\ auth'[OwnerOf[t]].cred = auth[OwnerOf[t]].cred
        /\ auth'[OwnerOf[t]].region = Home
        /\ \A o \in Owners \ {OwnerOf[t]} : auth'[o] = auth[o]
    BY <1>a, <2>1, <2>2, MaterialFacts DEF Types
  <2>4. /\ region_redirected' \in [Owners -> BOOLEAN]
        /\ OwnerOf[t] \notin Listings => region_redirected'[OwnerOf[t]]
        /\ \A o \in Owners \ {OwnerOf[t]} : region_redirected'[o] = region_redirected[o]
    BY <1>a, <2>1 DEF Types, SetRegion
  <2>5. Clear(OwnerOf[t])
    BY DEF SetRegion
  <2> QED
    <3>1. /\ ClientLists' /\ generation' \in [Owners -> Nat]
          /\ Hosts'[OwnerOf[t]] = IF OwnerOf[t] \in Handles THEN {} ELSE Hosts[OwnerOf[t]]
          /\ \A o \in Owners \ {OwnerOf[t]} : Hosts'[o] = Hosts[o]
      BY <1>a, <1>s, <2>1, <2>5, ClearFacts DEF Types
    <3>2. /\ pc[t] = "judge" /\ ~retried_region[t] /\ mu[OwnerOf[t]] = None
          /\ retried_region' = [retried_region EXCEPT ![t] = TRUE]
          /\ pc' = [pc EXCEPT ![t] = "create"]
          /\ UNCHANGED <<envVars, lockVars, retried_auth_refresh, histVars, requests, data, entry,
                         response, fetched>>
      BY DEF SetRegion, WantsRegion, Goto
    <3>3. /\ t \in Threads /\ pc'[t] = "create" /\ \A u \in Threads \ {t} : pc'[u] = pc[u]
          /\ retried_region'[t] = TRUE
          /\ \A u \in Threads \ {t} : retried_region'[u] = retried_region[u]
      BY <1>a, <1>s, <3>2 DEF Types
    <3> QED
      BY <2>1, <2>3, <2>4, <3>1, <3>2, <3>3 DEF envVars, lockVars, histVars
<1>2. Types'
  <2>1. auth' \in [Owners -> Material]
    BY <1>a, <1>s, <1>1 DEF Types, SetRegion, envVars, ownerVars, lockVars, flagVars,
      histVars, Goto, RefreshReturns, ReleaseLocks
  <2>2. region_redirected' \in [Owners -> BOOLEAN]
    BY <1>a, <1>s, <1>1 DEF Types, SetRegion, envVars, ownerVars, lockVars, flagVars,
      histVars, Goto, RefreshReturns, ReleaseLocks
  <2>3. generation' \in [Owners -> Nat]
    BY <1>a, <1>s, <1>1 DEF Types, SetRegion, envVars, ownerVars, lockVars, flagVars,
      histVars, Goto, RefreshReturns, ReleaseLocks
  <2>4. pc' \in [Threads -> {"idle", "create"} \cup Made]
    BY <1>a, <1>s, <1>1 DEF Types, Made, Holding, SetRegion, envVars, ownerVars,
      lockVars, flagVars, histVars, Goto, RefreshReturns, ReleaseLocks
  <2>5. retried_region' \in [Threads -> BOOLEAN]
    BY <1>a, <1>s, <1>1 DEF Types, SetRegion, envVars, ownerVars, lockVars, flagVars,
      histVars, Goto, RefreshReturns, ReleaseLocks
  <2> QED
    BY <1>a, <1>s, <1>1, <2>1, <2>2, <2>3, <2>4, <2>5 DEF Types
<1>3. Locks'
  <2>1. ASSUME NEW u \in Users, u # t
        PROVE  LocksOf(u)'
    BY <1>a, <1>s, <1>1, <2>1 DEF Locks, LocksOf, Holding, HoldsLock
  <2>2. LocksOf(t)'
    BY <1>a, <1>s, <1>1 DEF Locks, LocksOf, Holding, HoldsLock
  <2> QED
    BY <1>a, <1>s, <1>1, <2>1, <2>2 DEF Locks
<1>4. Past'
  BY <1>a, <1>s, <1>1 DEF Past
<1>5. Refusals'
  BY <1>a, <1>s, <1>1 DEF Refusals, Refused, Holding
<1>6. Renewals'
  BY <1>a, <1>s, <1>1 DEF Renewals, RenewalOf
<1>7. Sends'
  <2>1. ASSUME NEW u \in Users, u # t
        PROVE  SendsOf(u)'
    BY <1>a, <1>s, <1>1, <2>1 DEF Sends, SendsOf, One, Unsent, Holding
  <2>2. SendsOf(t)'
    <3>1. /\ One(pc[t] \notin Unsent) = 1 /\ One(pc'[t] \notin Unsent) = 0 /\ pc'[t] \notin Holding
          /\ One(retried_region[t]) = 0 /\ One(retried_region'[t]) = 1
      BY <1>1 DEF One, Unsent, Holding
    <3>2. One(retried_auth_refresh[t]) \in Int /\ attempts[t] \in Int
      BY <1>a, <1>1 DEF One, Types
    <3>3. attempts[t] <= One(retried_auth_refresh[t]) + 0 + 1
      BY <1>a, <3>1 DEF Sends, SendsOf
    <3>4. attempts'[t] <= One(retried_auth_refresh'[t]) + 1 + 0
      BY <1>1, <3>2, <3>3
    <3> QED
      BY <3>1, <3>4 DEF SendsOf
  <2> QED
    BY <1>a, <1>s, <1>1, <2>1, <2>2 DEF Sends
<1>8. RegionsSettled => InRegion'
  BY SMTT(30), <1>a, <1>s, <1>1 DEF InRegion, Made, Holding
<1>9. RegionsSettled => OwnClients'
  <2> SUFFICES ASSUME RegionsSettled
               PROVE  OwnClients'
    OBVIOUS
  <2>1. \A o \in Owners : Hosts'[o] \subseteq (IF o \in Handles THEN {auth'[o].region} ELSE {})
    BY <1>a, <1>1 DEF OwnClients
  <2>2. ASSUME NEW u \in Users, pc'[u] \in Made, OwnerOf[u] \in Handles
        PROVE  data'[u].region = auth'[OwnerOf[u]].region
    <3>1. u # t /\ pc'[u] = pc[u] /\ data'[u] = data[u]
      BY <1>s, <1>1, <2>2 DEF Made, Holding
    <3>2. CASE OwnerOf[u] # OwnerOf[t]
      BY <1>a, <1>s, <1>1, <2>2, <3>1, <3>2 DEF OwnClients
    <3>3. CASE OwnerOf[u] = OwnerOf[t]
      <4>1. SecretRegion = Home
        BY <2>2, <3>1, <3>3 DEF RegionsSettled
      <4>2. data[u] \in Material /\ auth'[OwnerOf[u]] \in Material
        BY <1>a, <1>s, <1>1 DEF Types
      <4> QED
        BY ZenonT(60), <1>s, <3>1, <4>1, <4>2, MaterialFacts
    <3> QED
      BY <3>2, <3>3
  <2> QED
    BY <1>a, <1>s, <1>1, <2>1, <2>2 DEF OwnClients, Made, Holding
<1>10. RegionsSettled => Steadiness'
  BY <1>a, <1>s, <1>1 DEF Steadiness, Made, Holding
<1>11. RegionsSettled => EveryFailureExcused'
  BY <1>a, <1>s, <1>1 DEF EveryFailureExcused
<1> QED
  BY <1>s, <1>2, <1>3, <1>4, <1>5, <1>6, <1>7, <1>8, <1>9, <1>10, <1>11
     DEF AuthInv, RefreshInv, SettledInv

\* A refresh begins.
LEMMA LockOwnerStep ==
  ASSUME AuthInv, UNCHANGED situation, NEW t \in Users, pc[t] = "judge",
         WantsRefresh(t), mu[OwnerOf[t]] = None,
         mu' = [mu EXCEPT ![OwnerOf[t]] = t], pc' = [pc EXCEPT ![t] = "reload"],
         UNCHANGED <<clients>>,
         UNCHANGED <<valid, secret, context, auth, region_redirected, generation,
                    CredentialRefreshLock, requests, data, entry, response,
                    retried_auth_refresh, retried_region, fetched, attempts,
                    steady, calls>>
  PROVE  AuthInv'
<1>a. /\ Types /\ Locks /\ Past /\ Refusals /\ Renewals /\ Sends
      /\ RegionsSettled => InRegion /\ OwnClients /\ Steadiness /\ EveryFailureExcused
  BY DEF AuthInv, RefreshInv, SettledInv
<1>s. Still /\ Sets
  BY <1>a, StillHolds, SetsHold DEF Types
<1> USE DEF Still, Sets
<1>1. /\ t \in Threads /\ OwnerOf[t] \in Owners
      /\ ~retried_auth_refresh[t] /\ response[t] = "auth"
      /\ pc'[t] = "reload" /\ \A u \in Threads \ {t} : pc'[u] = pc[u]
      /\ mu'[OwnerOf[t]] = t /\ \A o \in Owners \ {OwnerOf[t]} : mu'[o] = mu[o]
      /\ Hosts' = Hosts /\ ClientLists'
  <2>1. /\ t \in Threads /\ OwnerOf[t] \in Owners
        /\ ~retried_auth_refresh[t] /\ response[t] = "auth"
        /\ Hosts' = Hosts /\ ClientLists'
    BY <1>a, <1>s DEF Types, Hosts, ClientLists, WantsRefresh
  <2>2. pc'[t] = "reload" /\ \A u \in Threads \ {t} : pc'[u] = pc[u]
    BY <1>a, <2>1 DEF Types
  <2>3. mu'[OwnerOf[t]] = t /\ \A o \in Owners \ {OwnerOf[t]} : mu'[o] = mu[o]
    BY <1>a, <2>1 DEF Types
  <2> QED
    BY <2>1, <2>2, <2>3
<1>2. Types'
  <2>1. mu' \in [Owners -> Threads \cup {None}]
    BY <1>a, <1>s, <1>1 DEF Types, ReleaseLocks
  <2>2. pc' \in [Threads -> {"idle", "create"} \cup Made]
    BY <1>a, <1>s, <1>1 DEF Types, Made, Holding, ReleaseLocks
  <2> QED
    BY <1>a, <1>s, <1>1, <2>1, <2>2 DEF Types
<1>3. Locks'
  BY <1>a, <1>s, <1>1 DEF Locks, LocksOf, Holding, HoldsLock
<1>4. Past'
  BY <1>a, <1>s, <1>1 DEF Past
<1>5. Refusals'
  BY <1>a, <1>s, <1>1 DEF Refusals, Refused, Holding
<1>6. Renewals'
  BY <1>a, <1>s, <1>1 DEF Renewals, RenewalOf
<1>7. Sends'
  BY <1>a, <1>s, <1>1 DEF Sends, SendsOf, One, Unsent, Holding
<1>8. RegionsSettled => InRegion'
  BY <1>a, <1>s, <1>1 DEF InRegion, Made, Holding
<1>9. RegionsSettled => OwnClients'
  BY <1>a, <1>s, <1>1 DEF OwnClients, Made, Holding
<1>10. RegionsSettled => Steadiness'
  BY <1>a, <1>s, <1>1 DEF Steadiness, Made, Holding
<1>11. RegionsSettled => EveryFailureExcused'
  BY <1>a, <1>s, <1>1 DEF EveryFailureExcused
<1> QED
  BY <1>s, <1>2, <1>3, <1>4, <1>5, <1>6, <1>7, <1>8, <1>9, <1>10, <1>11
     DEF AuthInv, RefreshInv, SettledInv

\* Another thread has refreshed the material.
LEMMA RefreshedStep ==
  ASSUME AuthInv, UNCHANGED situation, NEW t \in Users, pc[t] = "judge",
         WantsRefresh(t), mu[OwnerOf[t]] = None,
         ChangedSince(t), pc' = [pc EXCEPT ![t] = "create"],
         retried_auth_refresh' = [retried_auth_refresh EXCEPT ![t] = TRUE],
         UNCHANGED <<clients>>,
         UNCHANGED <<valid, secret, context, auth, region_redirected, mu,
                    generation, CredentialRefreshLock, requests, data, entry,
                    response, retried_region, fetched, attempts, steady, calls>>
  PROVE  AuthInv'
<1>a. /\ Types /\ Locks /\ Past /\ Refusals /\ Renewals /\ Sends
      /\ RegionsSettled => InRegion /\ OwnClients /\ Steadiness /\ EveryFailureExcused
  BY DEF AuthInv, RefreshInv, SettledInv
<1>s. Still /\ Sets
  BY <1>a, StillHolds, SetsHold DEF Types
<1> USE DEF Still, Sets
<1>1. /\ t \in Threads /\ OwnerOf[t] \in Owners
      /\ ~retried_auth_refresh[t] /\ response[t] = "auth"
      /\ Hosts' = Hosts /\ ClientLists'
      /\ pc'[t] = "create" /\ \A u \in Threads \ {t} : pc'[u] = pc[u]
      /\ retried_auth_refresh'[t] = TRUE
      /\ \A u \in Threads \ {t} : retried_auth_refresh'[u] = retried_auth_refresh[u]
      /\ RegionsSettled /\ steady[t] => auth[OwnerOf[t]].cred = valid
  <2>1. /\ t \in Threads /\ OwnerOf[t] \in Owners
        /\ ~retried_auth_refresh[t] /\ response[t] = "auth"
        /\ Hosts' = Hosts /\ ClientLists'
    BY <1>a, <1>s DEF Types, Hosts, ClientLists, WantsRefresh
  <2>2. ASSUME RegionsSettled, steady[t]
        PROVE  auth[OwnerOf[t]].cred = valid
    <3>1. data[t].region = Home
      BY <1>a, <2>1 DEF Refusals, Refused
    <3>2. auth[OwnerOf[t]].region = Home
      BY <1>a, <2>2, <3>1 DEF InRegion, Made
    <3>3. data[t].cred # auth[OwnerOf[t]].cred
      BY <1>a, <2>1, <3>1, <3>2, MaterialFacts DEF Types, ChangedSince
    <3> QED
      BY <1>a, <2>2, <3>3 DEF Steadiness, Made
  <2>3. pc'[t] = "create" /\ \A u \in Threads \ {t} : pc'[u] = pc[u]
    BY <1>a, <2>1 DEF Types
  <2>4. /\ retried_auth_refresh'[t] = TRUE
        /\ \A u \in Threads \ {t} : retried_auth_refresh'[u] = retried_auth_refresh[u]
    BY <1>a, <2>1 DEF Types
  <2> QED
    BY <2>1, <2>2, <2>3, <2>4
<1>2. Types'
  <2>1. pc' \in [Threads -> {"idle", "create"} \cup Made]
    BY <1>a, <1>s, <1>1 DEF Types, Made, Holding, ReleaseLocks
  <2>2. retried_auth_refresh' \in [Threads -> BOOLEAN]
    BY <1>a, <1>s, <1>1 DEF Types, ReleaseLocks
  <2> QED
    BY <1>a, <1>s, <1>1, <2>1, <2>2 DEF Types
<1>3. Locks'
  BY <1>a, <1>s, <1>1 DEF Locks, LocksOf, Holding, HoldsLock
<1>4. Past'
  BY <1>a, <1>s, <1>1 DEF Past
<1>5. Refusals'
  BY <1>a, <1>s, <1>1 DEF Refusals, Refused, Holding
<1>6. Renewals'
  BY <1>a, <1>s, <1>1 DEF Renewals, RenewalOf
<1>7. Sends'
  <2>1. ASSUME NEW u \in Users, u # t
        PROVE  SendsOf(u)'
    BY <1>a, <1>s, <1>1, <2>1 DEF Sends, SendsOf, One, Unsent, Holding
  <2>2. SendsOf(t)'
    BY <1>a, <1>s, <1>1 DEF Sends, SendsOf, One, Unsent, Holding
  <2> QED
    BY <1>a, <1>s, <1>1, <2>1, <2>2 DEF Sends
<1>8. RegionsSettled => InRegion'
  BY <1>a, <1>s, <1>1 DEF InRegion, Made, Holding
<1>9. RegionsSettled => OwnClients'
  BY <1>a, <1>s, <1>1 DEF OwnClients, Made, Holding
<1>10. RegionsSettled => Steadiness'
  BY <1>a, <1>s, <1>1 DEF Steadiness, Made, Holding
<1>11. RegionsSettled => EveryFailureExcused'
  BY <1>a, <1>s, <1>1 DEF EveryFailureExcused
<1> QED
  BY <1>s, <1>2, <1>3, <1>4, <1>5, <1>6, <1>7, <1>8, <1>9, <1>10, <1>11
     DEF AuthInv, RefreshInv, SettledInv

\* New material is adopted.
LEMMA AdoptStep ==
  ASSUME AuthInv, UNCHANGED situation, NEW t \in Users, ReloadAdopts(t)
  PROVE  AuthInv'
<1>a. /\ Types /\ Locks /\ Past /\ Refusals /\ Renewals /\ Sends
      /\ RegionsSettled => InRegion /\ OwnClients /\ Steadiness /\ EveryFailureExcused
  BY DEF AuthInv, RefreshInv, SettledInv
<1>s. Still /\ Sets
  BY <1>a, StillHolds, SetsHold DEF Types
<1> USE DEF Still, Sets
<1>1. /\ pc[t] \in {"reload", "again", "final"}
      /\ t \in Threads /\ OwnerOf[t] \in Owners
      /\ auth' \in [Owners -> Material] /\ auth'[OwnerOf[t]].cred = secret
      /\ auth'[OwnerOf[t]].region = Home => SecretRegion = Home \/ auth[OwnerOf[t]].region = Home
      /\ RegionsSettled /\ auth[OwnerOf[t]].region = Home => auth'[OwnerOf[t]].region = Home
      /\ \A o \in Owners \ {OwnerOf[t]} : auth'[o] = auth[o]
      /\ RegionsSettled /\ steady[t] => secret = valid
      /\ retried_auth_refresh'[t] = TRUE
      /\ \A u \in Threads \ {t} : retried_auth_refresh'[u] = retried_auth_refresh[u]
      /\ mu'[OwnerOf[t]] = None /\ \A o \in Owners \ {OwnerOf[t]} : mu'[o] = mu[o]
      /\ CredentialRefreshLock' = IF CredentialRefreshLock = t THEN None
                                                               ELSE CredentialRefreshLock
      /\ pc'[t] = "create" /\ \A u \in Threads \ {t} : pc'[u] = pc[u]
      /\ ClientLists'
      /\ Hosts'[OwnerOf[t]] = IF OwnerOf[t] \in Handles THEN {} ELSE Hosts[OwnerOf[t]]
      /\ \A o \in Owners \ {OwnerOf[t]} : Hosts'[o] = Hosts[o]
      /\ generation' \in [Owners -> Nat]
      /\ UNCHANGED <<valid, secret, context, region_redirected, requests, data,
                    entry, response, retried_region, fetched, attempts, steady,
                    calls>>
  <2> DEFINE o == OwnerOf[t]
             new == Reloaded(t)
  <2>1. /\ pc[t] \in {"reload", "again", "final"} /\ t \in Threads /\ o \in Owners
        /\ auth[o] \in Material /\ data[t] \in Material /\ new # data[t]
        /\ auth' = [auth EXCEPT ![o] = new] /\ Clear(o)
    BY <1>a, <1>s DEF Types, ReloadAdopts
  <2>2. /\ new \in Material /\ new.cred = secret
        /\ new.region = IF PreservesRegion(t) THEN auth[o].region ELSE SecretRegion
    BY <1>a, <1>s, <2>1 DEF Types, Reloaded, ReadS3AuthParams, Material
  <2>3. new.region = Home => SecretRegion = Home \/ auth[o].region = Home
    BY <2>2
  <2>4. ASSUME RegionsSettled, auth[o].region = Home
        PROVE  new.region = Home
    <3>1. CASE SecretRegion = Home
      BY <2>4, <2>2, <3>1
    <3>2. CASE SecretRegion # Home
      <4>1. PreservesRegion(t)
        BY <1>a, <1>s, <2>1, <2>4, <3>2 DEF InRegion, PreservesRegion
      <4> QED
        BY <2>2, <2>4, <4>1
    <3> QED
      BY <3>1, <3>2
  <2>5. ASSUME RegionsSettled, steady[t]
        PROVE  secret = valid
    <3>1. data[t].region = Home /\ (t \notin Denied => data[t].cred < valid)
      BY <1>a, <2>1 DEF Refusals, Refused, Holding
    <3>2. auth[o].region = Home
      BY <1>a, <2>1, <2>5, <3>1 DEF InRegion, Made, Holding
    <3>3. secret # data[t].cred
      BY <2>1, <2>2, <2>4, <2>5, <3>1, <3>2, MaterialFacts
    <3>4. /\ secret = valid \/ auth[o].cred = secret
          /\ data[t].cred = auth[o].cred \/ auth[o].cred = valid
      BY <1>a, <2>1, <2>5 DEF Steadiness, Made, Holding
    <3> QED
      BY <3>3, <3>4
  <2>6. /\ auth' \in [Owners -> Material] /\ auth'[o] = new
        /\ \A x \in Owners \ {o} : auth'[x] = auth[x]
    BY <1>a, <2>1, <2>2 DEF Types
  <2> HIDE DEF new
  <2> QED
    <3>1. /\ ClientLists' /\ generation' \in [Owners -> Nat]
          /\ Hosts'[o] = IF o \in Handles THEN {} ELSE Hosts[o]
          /\ \A x \in Owners \ {o} : Hosts'[x] = Hosts[x]
      BY <1>a, <1>s, <2>1, ClearFacts DEF Types
    <3>2. /\ retried_auth_refresh' = [retried_auth_refresh EXCEPT ![t] = TRUE]
          /\ mu' = [mu EXCEPT ![o] = None] /\ pc' = [pc EXCEPT ![t] = "create"]
      BY DEF ReloadAdopts, ReleaseLocks, RefreshReturns, Goto
    <3>3. /\ retried_auth_refresh'[t] = TRUE
          /\ \A u \in Threads \ {t} : retried_auth_refresh'[u] = retried_auth_refresh[u]
          /\ mu'[o] = None /\ \A x \in Owners \ {o} : mu'[x] = mu[x]
      BY <1>a, <2>1, <3>2 DEF Types
    <3>4. pc'[t] = "create" /\ \A u \in Threads \ {t} : pc'[u] = pc[u]
      BY <1>a, <2>1, <3>2 DEF Types
    <3>5. /\ CredentialRefreshLock' = IF CredentialRefreshLock = t THEN None
                                                                   ELSE CredentialRefreshLock
          /\ UNCHANGED <<valid, secret, context, region_redirected, requests, data, entry, response,
                         retried_region, fetched, attempts, steady, calls>>
      BY DEF ReloadAdopts, ReleaseLocks, RefreshReturns, envVars, histVars
    <3> QED
      BY <2>1, <2>2, <2>3, <2>4, <2>5, <2>6, <3>1, <3>3, <3>4, <3>5
<1>2. Types'
  <2>1. auth' \in [Owners -> Material]
    BY <1>a, <1>s, <1>1 DEF Types, ReloadAdopts, envVars, ownerVars, lockVars,
      flagVars, histVars, Goto, RefreshReturns, ReleaseLocks
  <2>2. mu' \in [Owners -> Threads \cup {None}]
    BY <1>a, <1>s, <1>1 DEF Types, ReloadAdopts, envVars, ownerVars, lockVars,
      flagVars, histVars, Goto, RefreshReturns, ReleaseLocks
  <2>3. generation' \in [Owners -> Nat]
    BY <1>a, <1>s, <1>1 DEF Types, ReloadAdopts, envVars, ownerVars, lockVars,
      flagVars, histVars, Goto, RefreshReturns, ReleaseLocks
  <2>4. CredentialRefreshLock' \in Threads \cup {None}
    BY <1>a, <1>s, <1>1 DEF Types, ReloadAdopts, envVars, ownerVars, lockVars,
      flagVars, histVars, Goto, RefreshReturns, ReleaseLocks
  <2>5. pc' \in [Threads -> {"idle", "create"} \cup Made]
    <3>1. pc' = [pc EXCEPT ![t] = "create"]
      BY DEF ReloadAdopts, RefreshReturns, Goto
    <3> QED
      BY <1>a, <3>1 DEF Types
  <2>6. retried_auth_refresh' \in [Threads -> BOOLEAN]
    <3>1. retried_auth_refresh' = [retried_auth_refresh EXCEPT ![t] = TRUE]
      BY DEF ReloadAdopts, RefreshReturns
    <3> QED
      BY <1>a, <3>1 DEF Types
  <2> QED
    BY <1>a, <1>s, <1>1, <2>1, <2>2, <2>3, <2>4, <2>5, <2>6 DEF Types
<1>3. Locks'
  BY SMTT(30), <1>a, <1>s, <1>1 DEF Locks, LocksOf, Holding, HoldsLock
<1>4. Past'
  BY <1>a, <1>s, <1>1 DEF Past
<1>5. Refusals'
  BY <1>a, <1>s, <1>1 DEF Refusals, Refused, Holding
<1>6. Renewals'
  BY <1>a, <1>s, <1>1 DEF Renewals, RenewalOf
<1>7. Sends'
  BY <1>a, <1>s, <1>1 DEF Sends, SendsOf, One, Unsent, Holding
<1>8. RegionsSettled => InRegion'
  BY <1>a, <1>s, <1>1 DEF InRegion, Made, Holding
<1>9. RegionsSettled => OwnClients'
  <2> SUFFICES ASSUME RegionsSettled
               PROVE  OwnClients'
    OBVIOUS
  <2>1. \A o \in Owners : Hosts'[o] \subseteq (IF o \in Handles THEN {auth'[o].region} ELSE {})
    BY <1>a, <1>1 DEF OwnClients
  <2>2. ASSUME NEW u \in Users, pc'[u] \in Made, OwnerOf[u] \in Handles
        PROVE  data'[u].region = auth'[OwnerOf[u]].region
    <3>1. u # t /\ pc'[u] = pc[u] /\ data'[u] = data[u]
      BY <1>s, <1>1, <2>2 DEF Made, Holding
    <3>2. CASE OwnerOf[u] # OwnerOf[t]
      BY <1>a, <1>s, <1>1, <2>2, <3>1, <3>2 DEF OwnClients
    <3>3. CASE OwnerOf[u] = OwnerOf[t]
      <4>1. SecretRegion = Home
        BY <2>2, <3>1, <3>3 DEF RegionsSettled
      <4>2. data[u] \in Material /\ auth'[OwnerOf[u]] \in Material
        BY <1>a, <1>s, <1>1 DEF Types
      <4> QED
        BY ZenonT(60), <1>s, <3>1, <4>1, <4>2, MaterialFacts
    <3> QED
      BY <3>2, <3>3
  <2> QED
    BY <1>a, <1>s, <1>1, <2>1, <2>2 DEF OwnClients, Made, Holding
<1>10. RegionsSettled => Steadiness'
  BY <1>a, <1>s, <1>1 DEF Steadiness, Made, Holding
<1>11. RegionsSettled => EveryFailureExcused'
  BY <1>a, <1>s, <1>1 DEF EveryFailureExcused
<1> QED
  BY <1>s, <1>2, <1>3, <1>4, <1>5, <1>6, <1>7, <1>8, <1>9, <1>10, <1>11
     DEF AuthInv, RefreshInv, SettledInv

\* The secret holds nothing new, and the provider is asked next.
LEMMA UnchangedStep ==
  ASSUME AuthInv, UNCHANGED situation, NEW t \in Users, pc[t] \in {"reload", "again"},
         Reloaded(t) = data[t],
         pc' = [pc EXCEPT ![t] = IF pc[t] = "reload" THEN "lock" ELSE "fetch"],
         UNCHANGED <<clients>>,
         UNCHANGED <<valid, secret, context, auth, region_redirected, mu,
                    generation, CredentialRefreshLock, requests, data, entry,
                    response, retried_auth_refresh, retried_region, fetched,
                    attempts, steady, calls>>
  PROVE  AuthInv'
<1>a. /\ Types /\ Locks /\ Past /\ Refusals /\ Renewals /\ Sends
      /\ RegionsSettled => InRegion /\ OwnClients /\ Steadiness /\ EveryFailureExcused
  BY DEF AuthInv, RefreshInv, SettledInv
<1>s. Still /\ Sets
  BY <1>a, StillHolds, SetsHold DEF Types
<1> USE DEF Still, Sets
<1>1. /\ t \in Threads /\ OwnerOf[t] \in Owners
      /\ pc'[t] = (IF pc[t] = "reload" THEN "lock" ELSE "fetch")
      /\ \A u \in Threads \ {t} : pc'[u] = pc[u]
      /\ data[t].cred = secret /\ Hosts' = Hosts /\ ClientLists'
  <2>1. Reloaded(t).cred = secret
    BY DEF Reloaded, ReadS3AuthParams
  <2> QED
    BY <1>a, <1>s, <2>1 DEF Types, Hosts, ClientLists
<1>2. Types'
  <2>1. pc' \in [Threads -> {"idle", "create"} \cup Made]
    BY <1>a, <1>s, <1>1 DEF Types, Made, Holding, ReleaseLocks
  <2> QED
    BY <1>a, <1>s, <1>1, <2>1 DEF Types
<1>3. Locks'
  BY <1>a, <1>s, <1>1 DEF Locks, LocksOf, Holding, HoldsLock
<1>4. Past'
  BY <1>a, <1>s, <1>1 DEF Past
<1>5. Refusals'
  BY <1>a, <1>s, <1>1 DEF Refusals, Refused, Holding
<1>6. Renewals'
  BY <1>a, <1>s, <1>1 DEF Renewals, RenewalOf
<1>7. Sends'
  BY <1>a, <1>s, <1>1 DEF Sends, SendsOf, One, Unsent, Holding
<1>8. RegionsSettled => InRegion'
  BY <1>a, <1>s, <1>1 DEF InRegion, Made, Holding
<1>9. RegionsSettled => OwnClients'
  BY <1>a, <1>s, <1>1 DEF OwnClients, Made, Holding
<1>10. RegionsSettled => Steadiness'
  BY <1>a, <1>s, <1>1 DEF Steadiness, Made, Holding
<1>11. RegionsSettled => EveryFailureExcused'
  BY <1>a, <1>s, <1>1 DEF EveryFailureExcused
<1> QED
  BY <1>s, <1>2, <1>3, <1>4, <1>5, <1>6, <1>7, <1>8, <1>9, <1>10, <1>11
     DEF AuthInv, RefreshInv, SettledInv

\* The refresh lock is taken.
LEMMA TakeLockStep ==
  ASSUME AuthInv, UNCHANGED situation, NEW t \in Users, TakeRefreshLock(t)
  PROVE  AuthInv'
<1>a. /\ Types /\ Locks /\ Past /\ Refusals /\ Renewals /\ Sends
      /\ RegionsSettled => InRegion /\ OwnClients /\ Steadiness /\ EveryFailureExcused
  BY DEF AuthInv, RefreshInv, SettledInv
<1>s. Still /\ Sets
  BY <1>a, StillHolds, SetsHold DEF Types
<1> USE DEF Still, Sets
<1>1. /\ pc[t] = "lock" /\ CredentialRefreshLock = None
      /\ t \in Threads /\ OwnerOf[t] \in Owners
      /\ CredentialRefreshLock' = t /\ pc'[t] = "again" /\ \A u \in Threads \ {t} : pc'[u] = pc[u]
      /\ Hosts' = Hosts /\ ClientLists'
      /\ UNCHANGED <<valid, secret, context, auth, region_redirected, mu,
                    generation, requests, data, entry, response,
                    retried_auth_refresh, retried_region, fetched, attempts,
                    steady, calls>>
  <2>1. Hosts' = Hosts /\ ClientLists'
    BY <1>a, <1>s DEF Types, TakeRefreshLock, Hosts, ClientLists, ownerVars
  <2> QED
    BY <1>a, <1>s, <2>1
       DEF Types, TakeRefreshLock, envVars, ownerVars, lockVars, flagVars, histVars, Goto
<1>2. Types'
  <2>1. CredentialRefreshLock' \in Threads \cup {None}
    BY <1>a, <1>s, <1>1 DEF Types, TakeRefreshLock, envVars, ownerVars, lockVars,
      flagVars, histVars, Goto, RefreshReturns, ReleaseLocks
  <2>2. pc' \in [Threads -> {"idle", "create"} \cup Made]
    BY <1>a, <1>s, <1>1 DEF Types, Made, Holding, TakeRefreshLock, envVars, ownerVars,
      lockVars, flagVars, histVars, Goto, RefreshReturns, ReleaseLocks
  <2> QED
    BY <1>a, <1>s, <1>1, <2>1, <2>2 DEF Types
<1>3. Locks'
  BY <1>a, <1>s, <1>1 DEF Locks, LocksOf, Holding, HoldsLock
<1>4. Past'
  BY <1>a, <1>s, <1>1 DEF Past
<1>5. Refusals'
  BY <1>a, <1>s, <1>1 DEF Refusals, Refused, Holding
<1>6. Renewals'
  BY <1>a, <1>s, <1>1 DEF Renewals, RenewalOf
<1>7. Sends'
  BY <1>a, <1>s, <1>1 DEF Sends, SendsOf, One, Unsent, Holding
<1>8. RegionsSettled => InRegion'
  BY <1>a, <1>s, <1>1 DEF InRegion, Made, Holding
<1>9. RegionsSettled => OwnClients'
  BY <1>a, <1>s, <1>1 DEF OwnClients, Made, Holding
<1>10. RegionsSettled => Steadiness'
  BY <1>a, <1>s, <1>1 DEF Steadiness, Made, Holding
<1>11. RegionsSettled => EveryFailureExcused'
  BY <1>a, <1>s, <1>1 DEF EveryFailureExcused
<1> QED
  BY <1>s, <1>2, <1>3, <1>4, <1>5, <1>6, <1>7, <1>8, <1>9, <1>10, <1>11
     DEF AuthInv, RefreshInv, SettledInv

\* The provider answers.
LEMMA FetchStep ==
  ASSUME AuthInv, UNCHANGED situation, NEW t \in Users, ProviderFetch(t)
  PROVE  AuthInv'
<1>a. /\ Types /\ Locks /\ Past /\ Refusals /\ Renewals /\ Sends
      /\ RegionsSettled => InRegion /\ OwnClients /\ Steadiness /\ EveryFailureExcused
  BY DEF AuthInv, RefreshInv, SettledInv
<1>s. Still /\ Sets
  BY <1>a, StillHolds, SetsHold DEF Types
<1> USE DEF Still, Sets
<1>1. /\ pc[t] = "fetch"
      /\ t \in Threads /\ OwnerOf[t] \in Owners
      /\ fetched'[t] = valid /\ \A u \in Threads \ {t} : fetched'[u] = fetched[u]
      /\ pc'[t] = "put" /\ \A u \in Threads \ {t} : pc'[u] = pc[u]
      /\ Hosts' = Hosts /\ ClientLists'
      /\ UNCHANGED <<valid, secret, context, auth, region_redirected, mu,
                    generation, CredentialRefreshLock, requests, data, entry,
                    response, retried_auth_refresh, retried_region, attempts,
                    steady, calls>>
  <2>1. Hosts' = Hosts /\ ClientLists'
    BY <1>a, <1>s DEF Types, ProviderFetch, Hosts, ClientLists, ownerVars
  <2> QED
    BY <1>a, <1>s, <2>1
       DEF Types, ProviderFetch, envVars, ownerVars, lockVars, flagVars, histVars, Goto
<1>2. Types'
  <2>1. pc' \in [Threads -> {"idle", "create"} \cup Made]
    BY <1>a, <1>s, <1>1 DEF Types, Made, Holding, ProviderFetch, envVars, ownerVars,
      lockVars, flagVars, histVars, Goto, RefreshReturns, ReleaseLocks
  <2>2. fetched' \in [Threads -> Creds]
    BY <1>a, <1>s, <1>1 DEF Types, ProviderFetch, envVars, ownerVars, lockVars,
      flagVars, histVars, Goto, RefreshReturns, ReleaseLocks
  <2> QED
    BY <1>a, <1>s, <1>1, <2>1, <2>2 DEF Types
<1>3. Locks'
  BY <1>a, <1>s, <1>1 DEF Locks, LocksOf, Holding, HoldsLock
<1>4. Past'
  <2>1. valid \in Int
    BY <1>a, <1>s DEF Types
  <2> QED
    BY <1>a, <1>s, <1>1, <2>1 DEF Past
<1>5. Refusals'
  BY <1>a, <1>s, <1>1 DEF Refusals, Refused, Holding
<1>6. Renewals'
  <2>1. ASSUME NEW u \in Users, u # t
        PROVE  RenewalOf(u)'
    BY <1>a, <1>s, <1>1, <2>1 DEF Renewals, RenewalOf
  <2>2. RenewalOf(t)'
    <3>1. calls \in Int /\ secret \in Int /\ valid \in Int /\ data[t].cred \in Int
          /\ fetched[t] \in Int
      BY <1>a, <1>s, <1>1 DEF Types, Material
    <3>2. calls <= secret /\ secret <= valid
      BY <1>a DEF Renewals, Past
    <3>3. t \notin Denied => calls <= data[t].cred /\ data[t].cred < valid
      BY <1>a, <1>1 DEF Renewals, RenewalOf, Refusals, Refused, Holding
    <3>4. calls <= valid /\ (t \notin Denied => calls < valid)
      BY <3>1, <3>2, <3>3
    <3> QED
      BY <1>s, <1>1, <3>4 DEF RenewalOf
  <2> QED
    BY <1>a, <1>s, <1>1, <2>1, <2>2 DEF Renewals
<1>7. Sends'
  BY <1>a, <1>s, <1>1 DEF Sends, SendsOf, One, Unsent, Holding
<1>8. RegionsSettled => InRegion'
  BY <1>a, <1>s, <1>1 DEF InRegion, Made, Holding
<1>9. RegionsSettled => OwnClients'
  BY <1>a, <1>s, <1>1 DEF OwnClients, Made, Holding
<1>10. RegionsSettled => Steadiness'
  BY <1>a, <1>s, <1>1 DEF Steadiness, Made, Holding
<1>11. RegionsSettled => EveryFailureExcused'
  BY <1>a, <1>s, <1>1 DEF EveryFailureExcused
<1> QED
  BY <1>s, <1>2, <1>3, <1>4, <1>5, <1>6, <1>7, <1>8, <1>9, <1>10, <1>11
     DEF AuthInv, RefreshInv, SettledInv

\* The answer becomes the secret.
LEMMA PutStep ==
  ASSUME AuthInv, UNCHANGED situation, NEW t \in Users, ProviderStore(t)
  PROVE  AuthInv'
<1>a. /\ Types /\ Locks /\ Past /\ Refusals /\ Renewals /\ Sends
      /\ RegionsSettled => InRegion /\ OwnClients /\ Steadiness /\ EveryFailureExcused
  BY DEF AuthInv, RefreshInv, SettledInv
<1>s. Still /\ Sets
  BY <1>a, StillHolds, SetsHold DEF Types
<1> USE DEF Still, Sets
<1>1. /\ pc[t] = "put"
      /\ t \in Threads /\ OwnerOf[t] \in Owners
      /\ secret' = fetched[t] /\ pc'[t] = "final" /\ \A u \in Threads \ {t} : pc'[u] = pc[u]
      /\ \/ fetched[t] = valid /\ steady' = steady
         \/ fetched[t] # valid /\ steady' = [u \in Threads |-> FALSE]
      /\ calls' = IF t \in Denied THEN calls ELSE calls + 1
      /\ Hosts' = Hosts /\ ClientLists'
      /\ UNCHANGED <<valid, context, auth, region_redirected, mu, generation,
                    CredentialRefreshLock, requests, data, entry, response,
                    retried_auth_refresh, retried_region, fetched, attempts>>
  <2>1. Hosts' = Hosts /\ ClientLists'
    BY <1>a, <1>s DEF Types, ProviderStore, Hosts, ClientLists, ownerVars
  <2> QED
    BY <1>a, <1>s, <2>1
       DEF Types, ProviderStore, envVars, ownerVars, lockVars, flagVars, histVars, Goto
<1>2. Types'
  <2>1. secret' \in Creds
    BY <1>a, <1>s, <1>1 DEF Types, ProviderStore, envVars, ownerVars, lockVars,
      flagVars, histVars, Goto, RefreshReturns, ReleaseLocks
  <2>2. pc' \in [Threads -> {"idle", "create"} \cup Made]
    BY <1>a, <1>s, <1>1 DEF Types, Made, Holding, ProviderStore, envVars, ownerVars,
      lockVars, flagVars, histVars, Goto, RefreshReturns, ReleaseLocks
  <2>3. steady' \in [Threads -> BOOLEAN]
    BY <1>a, <1>s, <1>1 DEF Types, ProviderStore, envVars, ownerVars, lockVars,
      flagVars, histVars, Goto, RefreshReturns, ReleaseLocks
  <2>4. calls' \in Nat
    BY <1>a, <1>s, <1>1 DEF Types, ProviderStore, envVars, ownerVars, lockVars,
      flagVars, histVars, Goto, RefreshReturns, ReleaseLocks
  <2> QED
    BY <1>a, <1>s, <1>1, <2>1, <2>2, <2>3, <2>4 DEF Types
<1>3. Locks'
  BY <1>a, <1>s, <1>1 DEF Locks, LocksOf, Holding, HoldsLock
<1>4. Past'
  BY <1>a, <1>s, <1>1 DEF Past
<1>5. Refusals'
  BY <1>a, <1>s, <1>1 DEF Refusals, Refused, Holding
<1>6. Renewals'
  <2>1. ASSUME NEW u \in Users, u # t
        PROVE  RenewalOf(u)'
    <3>1. pc'[u] \notin {"fetch", "put"}
      BY <1>a, <1>s, <1>1, <2>1 DEF Locks, LocksOf, HoldsLock
    <3> QED
      BY <3>1 DEF RenewalOf
  <2>2. RenewalOf(t)'
    BY <1>a, <1>s, <1>1 DEF Renewals, RenewalOf
  <2>3. calls' <= secret'
    <3>1. calls <= fetched[t] /\ (t \notin Denied => calls < fetched[t])
      BY <1>a, <1>1 DEF Renewals, RenewalOf
    <3>2. calls \in Int /\ fetched[t] \in Int
      BY <1>a, <1>s, <1>1 DEF Types
    <3> QED
      BY <1>1, <3>1, <3>2
  <2> QED
    BY <1>s, <2>1, <2>2, <2>3 DEF Renewals
<1>7. Sends'
  BY <1>a, <1>s, <1>1 DEF Sends, SendsOf, One, Unsent, Holding
<1>8. RegionsSettled => InRegion'
  BY <1>a, <1>s, <1>1 DEF InRegion, Made, Holding
<1>9. RegionsSettled => OwnClients'
  BY <1>a, <1>s, <1>1 DEF OwnClients, Made, Holding
<1>10. RegionsSettled => Steadiness'
  BY <1>a, <1>s, <1>1 DEF Steadiness, Made, Holding
<1>11. RegionsSettled => EveryFailureExcused'
  BY <1>a, <1>s, <1>1 DEF EveryFailureExcused
<1> QED
  BY <1>s, <1>2, <1>3, <1>4, <1>5, <1>6, <1>7, <1>8, <1>9, <1>10, <1>11
     DEF AuthInv, RefreshInv, SettledInv

\* Credentials expire.
LEMMA ExpireStep ==
  ASSUME AuthInv, UNCHANGED situation, Expire
  PROVE  AuthInv'
<1>a. /\ Types /\ Locks /\ Past /\ Refusals /\ Renewals /\ Sends
      /\ RegionsSettled => InRegion /\ OwnClients /\ Steadiness /\ EveryFailureExcused
  BY DEF AuthInv, RefreshInv, SettledInv
<1>s. Still /\ Sets
  BY <1>a, StillHolds, SetsHold DEF Types
<1> USE DEF Still, Sets
<1>1. /\ valid < MaxExpiry /\ valid' = valid + 1 /\ steady' = [u \in Threads |-> FALSE]
      /\ Hosts' = Hosts /\ ClientLists'
      /\ UNCHANGED <<secret, context, auth, region_redirected, mu, generation,
                    CredentialRefreshLock, pc, requests, data, entry, response,
                    retried_auth_refresh, retried_region, fetched, attempts, calls>>
  <2>1. Hosts' = Hosts /\ ClientLists'
    BY <1>a, <1>s DEF Types, Expire, Hosts, ClientLists, ownerVars
  <2> QED
    BY <1>a, <1>s, <2>1
       DEF Types, Expire, envVars, ownerVars, lockVars, flagVars, histVars, Goto
<1>2. Types'
  <2>1. valid' \in Creds
    BY <1>a, <1>s, <1>1 DEF Types, Expire, envVars, ownerVars, lockVars, flagVars,
      histVars, Goto, RefreshReturns, ReleaseLocks
  <2>2. steady' \in [Threads -> BOOLEAN]
    BY <1>a, <1>s, <1>1 DEF Types, Expire, envVars, ownerVars, lockVars, flagVars,
      histVars, Goto, RefreshReturns, ReleaseLocks
  <2> QED
    BY <1>a, <1>s, <1>1, <2>1, <2>2 DEF Types
<1>3. Locks'
  BY <1>a, <1>s, <1>1 DEF Locks, LocksOf, Holding, HoldsLock
<1>4. Past'
  BY <1>a, <1>s, <1>1 DEF Past, Types, Material
<1>5. Refusals'
  BY <1>a, <1>s, <1>1 DEF Refusals, Refused, Holding, Past, Types, Material
<1>6. Renewals'
  BY <1>a, <1>s, <1>1 DEF Renewals, RenewalOf
<1>7. Sends'
  BY <1>a, <1>s, <1>1 DEF Sends, SendsOf, One, Unsent, Holding
<1>8. RegionsSettled => InRegion'
  BY <1>a, <1>s, <1>1 DEF InRegion, Made, Holding
<1>9. RegionsSettled => OwnClients'
  BY <1>a, <1>s, <1>1 DEF OwnClients, Made, Holding
<1>10. RegionsSettled => Steadiness'
  BY <1>a, <1>s, <1>1 DEF Steadiness, Made, Holding
<1>11. RegionsSettled => EveryFailureExcused'
  BY <1>a, <1>s, <1>1 DEF EveryFailureExcused
<1> QED
  BY <1>s, <1>2, <1>3, <1>4, <1>5, <1>6, <1>7, <1>8, <1>9, <1>10, <1>11
     DEF AuthInv, RefreshInv, SettledInv

\* The user replaces the secret.
LEMMA ReplaceStep ==
  ASSUME AuthInv, UNCHANGED situation, ReplaceSecret
  PROVE  AuthInv'
<1>a. /\ Types /\ Locks /\ Past /\ Refusals /\ Renewals /\ Sends
      /\ RegionsSettled => InRegion /\ OwnClients /\ Steadiness /\ EveryFailureExcused
  BY DEF AuthInv, RefreshInv, SettledInv
<1>s. Still /\ Sets
  BY <1>a, StillHolds, SetsHold DEF Types
<1> USE DEF Still, Sets
<1>1. /\ secret' = valid
      /\ Hosts' = Hosts /\ ClientLists'
      /\ UNCHANGED <<valid, context, auth, region_redirected, mu, generation,
                    CredentialRefreshLock, pc, requests, data, entry, response,
                    retried_auth_refresh, retried_region, fetched, attempts,
                    steady, calls>>
  <2>1. Hosts' = Hosts /\ ClientLists'
    BY <1>a, <1>s DEF Types, ReplaceSecret, Hosts, ClientLists, ownerVars
  <2> QED
    BY <1>a, <1>s, <2>1
       DEF Types, ReplaceSecret, envVars, ownerVars, lockVars, flagVars, histVars, Goto
<1>2. Types'
  <2>1. secret' \in Creds
    BY <1>a, <1>s, <1>1 DEF Types, ReplaceSecret, envVars, ownerVars, lockVars,
      flagVars, histVars, Goto, RefreshReturns, ReleaseLocks
  <2> QED
    BY <1>a, <1>s, <1>1, <2>1 DEF Types
<1>3. Locks'
  BY <1>a, <1>s, <1>1 DEF Locks, LocksOf, Holding, HoldsLock
<1>4. Past'
  BY <1>a, <1>s, <1>1 DEF Past, Types, Material
<1>5. Refusals'
  BY <1>a, <1>s, <1>1 DEF Refusals, Refused, Holding
<1>6. Renewals'
  BY <1>a, <1>s, <1>1 DEF Renewals, RenewalOf, Refusals, Refused, Holding,
      HoldsLock, Past, Locks, Types, Material
<1>7. Sends'
  BY <1>a, <1>s, <1>1 DEF Sends, SendsOf, One, Unsent, Holding
<1>8. RegionsSettled => InRegion'
  BY <1>a, <1>s, <1>1 DEF InRegion, Made, Holding
<1>9. RegionsSettled => OwnClients'
  BY <1>a, <1>s, <1>1 DEF OwnClients, Made, Holding
<1>10. RegionsSettled => Steadiness'
  BY <1>a, <1>s, <1>1 DEF Steadiness, Made, Holding
<1>11. RegionsSettled => EveryFailureExcused'
  BY <1>a, <1>s, <1>1 DEF EveryFailureExcused
<1> QED
  BY <1>s, <1>2, <1>3, <1>4, <1>5, <1>6, <1>7, <1>8, <1>9, <1>10, <1>11
     DEF AuthInv, RefreshInv, SettledInv

\* The connection is closed.
LEMMA ContextGoneStep ==
  ASSUME AuthInv, UNCHANGED situation, ContextGone
  PROVE  AuthInv'
<1>a. /\ Types /\ Locks /\ Past /\ Refusals /\ Renewals /\ Sends
      /\ RegionsSettled => InRegion /\ OwnClients /\ Steadiness /\ EveryFailureExcused
  BY DEF AuthInv, RefreshInv, SettledInv
<1>s. Still /\ Sets
  BY <1>a, StillHolds, SetsHold DEF Types
<1> USE DEF Still, Sets
<1>1. /\ context' = FALSE /\ steady' = [u \in Threads |-> FALSE]
      /\ Hosts' = Hosts /\ ClientLists'
      /\ UNCHANGED <<valid, secret, auth, region_redirected, mu, generation,
                    CredentialRefreshLock, pc, requests, data, entry, response,
                    retried_auth_refresh, retried_region, fetched, attempts, calls>>
  <2>1. Hosts' = Hosts /\ ClientLists'
    BY <1>a, <1>s DEF Types, ContextGone, Hosts, ClientLists, ownerVars
  <2> QED
    BY <1>a, <1>s, <2>1
       DEF Types, ContextGone, envVars, ownerVars, lockVars, flagVars, histVars, Goto
<1>2. Types'
  <2>1. context' \in BOOLEAN
    BY <1>a, <1>s, <1>1 DEF Types, ContextGone, envVars, ownerVars, lockVars,
      flagVars, histVars, Goto, RefreshReturns, ReleaseLocks
  <2>2. steady' \in [Threads -> BOOLEAN]
    BY <1>a, <1>s, <1>1 DEF Types, ContextGone, envVars, ownerVars, lockVars,
      flagVars, histVars, Goto, RefreshReturns, ReleaseLocks
  <2> QED
    BY <1>a, <1>s, <1>1, <2>1, <2>2 DEF Types
<1>3. Locks'
  BY <1>a, <1>s, <1>1 DEF Locks, LocksOf, Holding, HoldsLock
<1>4. Past'
  BY <1>a, <1>s, <1>1 DEF Past
<1>5. Refusals'
  BY <1>a, <1>s, <1>1 DEF Refusals, Refused, Holding
<1>6. Renewals'
  BY <1>a, <1>s, <1>1 DEF Renewals, RenewalOf
<1>7. Sends'
  BY <1>a, <1>s, <1>1 DEF Sends, SendsOf, One, Unsent, Holding
<1>8. RegionsSettled => InRegion'
  BY <1>a, <1>s, <1>1 DEF InRegion, Made, Holding
<1>9. RegionsSettled => OwnClients'
  BY <1>a, <1>s, <1>1 DEF OwnClients, Made, Holding
<1>10. RegionsSettled => Steadiness'
  BY <1>a, <1>s, <1>1 DEF Steadiness, Made, Holding
<1>11. RegionsSettled => EveryFailureExcused'
  BY <1>a, <1>s, <1>1 DEF EveryFailureExcused
<1> QED
  BY <1>s, <1>2, <1>3, <1>4, <1>5, <1>6, <1>7, <1>8, <1>9, <1>10, <1>11
     DEF AuthInv, RefreshInv, SettledInv

-----------------------------------------------------------------------------
\* Nothing happens.
LEMMA RefreshIdle ==
  ASSUME AuthInv, UNCHANGED <<vars, situation>>
  PROVE  AuthInv'
<1>1. Still /\ Hosts' = Hosts
  BY StillHolds DEF vars, ownerVars, Hosts, Still
<1>2. ClientLists' = ClientLists
  BY <1>1 DEF vars, ownerVars, ClientLists, Still
<1>3. UNCHANGED <<valid, secret, context, auth, region_redirected, mu, generation,
                  CredentialRefreshLock, pc, requests, data, entry, response,
                  retried_auth_refresh, retried_region, fetched, attempts, steady, calls>>
  BY DEF vars, envVars, ownerVars, lockVars, flagVars, histVars
<1> USE DEF Still
<1>4. RefreshInv'
  <2>1. Types'
    BY <1>1, <1>2, <1>3 DEF AuthInv, RefreshInv, Types
  <2>2. Locks'
    BY <1>1, <1>3 DEF AuthInv, RefreshInv, Locks, LocksOf
  <2>3. Past' /\ Refusals'
    BY <1>1, <1>3 DEF AuthInv, RefreshInv, Past, Refusals, Refused
  <2>4. Renewals'
    BY <1>1, <1>3 DEF AuthInv, RefreshInv, Renewals, RenewalOf
  <2>5. Sends'
    BY <1>1, <1>3 DEF AuthInv, RefreshInv, Sends, SendsOf
  <2> QED
    BY <2>1, <2>2, <2>3, <2>4, <2>5 DEF RefreshInv
<1>5. ASSUME RegionsSettled
      PROVE  SettledInv'
  BY <1>1, <1>2, <1>3, <1>5
  DEF AuthInv, SettledInv, InRegion, OwnClients, Steadiness, EveryFailureExcused
<1> QED
  BY <1>1, <1>4, <1>5 DEF AuthInv

LEMMA RefreshStart ==
  ASSUME Init
  PROVE  AuthInv
<1>s. Sets
  BY SetsHold DEF Init
<1>1. \A o \in Owners : InitialAuth(o) \in Material /\ InitialAuth(o).cred = 0
                        /\ (InitialAuth(o).region = Home =>
                              SecretRegion = Home \/ Situation.open_redirected # {})
  BY <1>s DEF InitialAuth, Material, Sets
<1>2. Hosts = [o \in Owners |-> {}] /\ ClientLists
  <2>1. clients = [o \in Owners |-> <<>>] /\ <<>> \in Seq(Regions)
    BY EmptySeq DEF Init
  <2>2. {<<>>[i] : i \in DOMAIN <<>>} = {}
    OBVIOUS
  <2> QED
    BY <2>1, <2>2 DEF Hosts, ClientLists
<1>3. Types
  BY <1>s, <1>1, <1>2 DEF Init, Types, Sets, Made, Holding, Material
<1>4. Locks /\ Past /\ Refusals /\ Renewals /\ Sends
  <2>1. Locks
    BY <1>s DEF Init, Locks, LocksOf, Holding, HoldsLock, Sets
  <2>2. Past
    BY <1>s, <1>1 DEF Init, Past
  <2>3. Refusals /\ Renewals
    BY <1>s DEF Init, Refusals, Refused, Renewals, RenewalOf, Holding, Sets
  <2>4. Sends
    <3>1. One(FALSE) = 0 /\ One("idle" \notin Unsent) = 1
      BY DEF One, Unsent
    <3>2. ASSUME NEW t \in Users
          PROVE  SendsOf(t)
      <4>1. /\ pc[t] = "idle" /\ attempts[t] = 0 /\ retried_auth_refresh[t] = FALSE
            /\ retried_region[t] = FALSE
        BY <1>s DEF Init, Sets
      <4>2. /\ pc[t] \notin Holding /\ One(pc[t] \notin Unsent) = 1
            /\ One(retried_auth_refresh[t]) = 0 /\ One(retried_region[t]) = 0
        BY <3>1, <4>1 DEF Holding
      <4> QED
        BY <4>1, <4>2 DEF SendsOf
    <3> QED
      BY <3>2 DEF Sends
  <2> QED
    BY <2>1, <2>2, <2>3, <2>4
<1>5. ASSUME RegionsSettled
      PROVE  SettledInv
  <2>1. InRegion
    BY <1>s, <1>1, <1>5 DEF Init, InRegion, RegionsSettled, Sets, Made, Holding
  <2>2. OwnClients
    BY <1>s, <1>2 DEF Init, OwnClients, Sets, Made, Holding
  <2>3. Steadiness /\ EveryFailureExcused
    BY <1>s, <1>1 DEF Init, Steadiness, EveryFailureExcused, Sets, Made, Holding
  <2> QED
    BY <2>1, <2>2, <2>3 DEF SettledInv
<1> QED
  BY <1>3, <1>4, <1>5 DEF AuthInv, RefreshInv

\* A refresh is tried: it begins, another thread was first, or it is given up.
LEMMA TryRefreshStep ==
  ASSUME AuthInv, UNCHANGED situation, NEW t \in Users, TryRefresh(t)
  PROVE  AuthInv'
<1> DEFINE o == OwnerOf[t]
           reloads == RefreshEnabled /\ auth[o] = data[t] /\ context
<1>s. Sets
  BY SetsHold DEF AuthInv, RefreshInv, Types
<1>1. /\ pc[t] = "judge" /\ WantsRefresh(t) /\ mu[o] = None
      /\ UNCHANGED <<envVars, ownerVars, CredentialRefreshLock, histVars, requests, data, entry,
                     fetched>>
  BY DEF TryRefresh
<1>2. CASE reloads
  BY <1>1, <1>2, LockOwnerStep
  DEF TryRefresh, Goto, envVars, ownerVars, flagVars, histVars
<1>3. CASE ~reloads /\ RefreshEnabled /\ ChangedSince(t)
  BY <1>1, <1>3, RefreshedStep
  DEF TryRefresh, RefreshReturns, Goto, envVars, ownerVars, flagVars, histVars
<1>4. CASE ~reloads /\ ~(RefreshEnabled /\ ChangedSince(t))
  <2>1. /\ response' = [response EXCEPT ![t] = "error"] /\ pc' = [pc EXCEPT ![t] = "idle"]
        /\ UNCHANGED <<flagVars, mu>>
    BY <1>4 DEF TryRefresh, RefreshReturns, Goto, flagVars
  <2>2. t \in Threads /\ o \in Owners /\ Users' = Users
    BY <1>s, StillHolds DEF Sets, Still
  <2>3. SettledInv => ~steady[t]
    BY <1>1, <1>4 DEF SettledInv, Steadiness, ChangedSince
  <2>4. UNCHANGED lockVars
    BY <1>1, <2>1 DEF lockVars
  <2>5. response' = [response EXCEPT ![t] = IF @ = "ok" THEN "ok" ELSE "error"]
    BY <1>1, <2>1 DEF WantsRefresh
  <2>6. /\ pc[t] \in {"judge"} \cup Holding /\ steady' \in {steady, [steady EXCEPT ![t] = FALSE]}
        /\ UNCHANGED <<clients>>
        /\ UNCHANGED <<valid, secret, context, auth, region_redirected, generation, requests, data,
                       entry, retried_auth_refresh, retried_region, fetched, attempts, calls>>
    BY <1>1, <2>1 DEF envVars, ownerVars, histVars, flagVars
  <2>7. SettledInv /\ steady'[t] => response'[t] # "error"
    BY <1>1, <2>3 DEF histVars
  <2>8. IF pc[t] = "judge" THEN UNCHANGED lockVars ELSE ReleaseLocks(t)
    BY <1>1, <2>4
  <2> QED
    BY <2>1, <2>5, <2>6, <2>7, <2>8, ReturnStep
<1> QED
  BY <1>2, <1>3, <1>4

\* The secret holds nothing new: the provider is asked, or was asked in vain.
LEMMA ReloadUnchangedStep ==
  ASSUME AuthInv, UNCHANGED situation, NEW t \in Users, ReloadUnchanged(t)
  PROVE  AuthInv'
<1>s. Sets
  BY SetsHold DEF AuthInv, RefreshInv, Types
<1>1. /\ Reloaded(t) = data[t]
      /\ UNCHANGED <<envVars, ownerVars, histVars, requests, data, entry, fetched>>
  BY DEF ReloadUnchanged
<1>2. CASE pc[t] \in {"reload", "again"}
  BY <1>1, <1>2, UnchangedStep
  DEF ReloadUnchanged, Goto, envVars, ownerVars, lockVars, flagVars, histVars
<1>3. CASE pc[t] = "final"
  <2>1. /\ response' = [response EXCEPT ![t] = "error"] /\ pc' = [pc EXCEPT ![t] = "idle"]
        /\ ReleaseLocks(t) /\ UNCHANGED flagVars
    BY <1>3 DEF ReloadUnchanged, RefreshReturns, Goto, flagVars
  <2>2. response[t] = "auth" /\ (t \notin Denied => data[t].cred < valid)
    BY <1>3 DEF AuthInv, RefreshInv, Refusals, Refused, Holding
  <2>3. SettledInv => ~steady[t]
    <3>1. Reloaded(t).cred = secret
      BY DEF Reloaded, ReadS3AuthParams
    <3>2. ASSUME SettledInv, steady[t]
          PROVE  secret = valid /\ t \notin Denied
      BY <1>3, <3>2 DEF SettledInv, Steadiness
    <3>3. valid \in Int
      BY <1>s DEF AuthInv, RefreshInv, Types, Sets
    <3> QED
      BY <1>1, <2>2, <3>1, <3>2, <3>3
  <2>4. response' = [response EXCEPT ![t] = IF @ = "ok" THEN "ok" ELSE "error"]
    BY <2>1, <2>2
  <2> QED
    BY <1>1, <1>3, <2>1, <2>3, <2>4, ReturnStep
    DEF envVars, ownerVars, histVars, flagVars, Holding
<1> QED
  BY <1>2, <1>3 DEF ReloadUnchanged

\* The provider fails.
LEMMA ProviderFailsStep ==
  ASSUME AuthInv, UNCHANGED situation, NEW t \in Users, ProviderFails(t)
  PROVE  AuthInv'
<1>s. Sets
  BY SetsHold DEF AuthInv, RefreshInv, Types
<1>1. /\ pc[t] \in {"fetch", "put"} /\ steady' = [steady EXCEPT ![t] = FALSE]
      /\ response' = [response EXCEPT ![t] = "error"] /\ pc' = [pc EXCEPT ![t] = "idle"]
      /\ ReleaseLocks(t)
      /\ UNCHANGED <<flagVars, envVars, ownerVars, attempts, calls, requests, data, entry, fetched>>
  BY DEF ProviderFails, RefreshReturns, Goto, flagVars
<1>2. response[t] = "auth"
  BY <1>1 DEF AuthInv, RefreshInv, Refusals, Refused, Holding
<1>3. ~steady'[t]
  BY <1>s, <1>1 DEF Sets, AuthInv, RefreshInv, Types
<1>4. response' = [response EXCEPT ![t] = IF @ = "ok" THEN "ok" ELSE "error"]
  BY <1>1, <1>2
<1> QED
  BY <1>1, <1>3, <1>4, ReturnStep DEF envVars, ownerVars, flagVars, Holding

\* What an attempt brought is returned.
LEMMA ReturnsStep ==
  ASSUME AuthInv, UNCHANGED situation, NEW t \in Users, Return(t)
  PROVE  AuthInv'
<1>s. Sets
  BY SetsHold DEF AuthInv, RefreshInv, Types
<1>1. /\ pc[t] = "judge" /\ ~WantsRefresh(t) /\ ~WantsRegion(t)
      /\ response' = [response EXCEPT ![t] = IF @ = "ok" THEN "ok" ELSE "error"]
      /\ pc' = [pc EXCEPT ![t] = "idle"]
      /\ UNCHANGED <<envVars, ownerVars, lockVars, flagVars, histVars, requests, data, entry,
                     fetched>>
  BY DEF Return, Goto
<1>2. t \in Threads /\ OwnerOf[t] \in Owners
  BY <1>s DEF Sets
<1>3. UNCHANGED lockVars
  BY <1>1
<1>4. ASSUME SettledInv, steady[t]
      PROVE  response[t] = "ok"
  <2>1. response[t] \in {"ok", "auth", "redirect"}
    BY <1>2, <1>4 DEF SettledInv, EveryFailureExcused, AuthInv, RefreshInv, Types
  <2>2. response[t] # "auth"
    <3>1. ASSUME response[t] = "auth"
          PROVE  data[t].cred < valid /\ data[t].cred = valid
      BY <1>1, <1>4, <3>1
      DEF WantsRefresh, AuthInv, RefreshInv, Refusals, Refused, SettledInv, Steadiness, Made
    <3>2. valid \in Int
      BY <1>s DEF AuthInv, RefreshInv, Types, Sets
    <3> QED
      BY <3>1, <3>2
  <2>3. response[t] # "redirect"
    BY <1>1, <1>4
    DEF WantsRegion, RedirectIsValid, SettledInv, OwnClients, InRegion, Made
  <2> QED
    BY <2>1, <2>2, <2>3
<1> QED
  <2>1. steady' = steady /\ response'[t] = IF response[t] = "ok" THEN "ok" ELSE "error"
    BY <1>1, <1>2 DEF histVars, AuthInv, RefreshInv, Types
  <2> QED
    <3>1. /\ pc[t] \in {"judge"} \cup Holding /\ steady' \in {steady, [steady EXCEPT ![t] = FALSE]}
          /\ UNCHANGED <<clients>>
          /\ UNCHANGED <<valid, secret, context, auth, region_redirected, generation, requests, data,
                         entry, retried_auth_refresh, retried_region, fetched, attempts, calls>>
      BY <1>1 DEF envVars, ownerVars, histVars, flagVars
    <3>2. SettledInv /\ steady'[t] => response'[t] # "error"
      BY <1>4, <2>1
    <3>3. IF pc[t] = "judge" THEN UNCHANGED lockVars ELSE ReleaseLocks(t)
      BY <1>1, <1>3
    <3> QED
      BY <1>1, <3>1, <3>2, <3>3, ReturnStep

LEMMA RefreshStep ==
  ASSUME AuthInv, Next
  PROVE  AuthInv'
<1>1. UNCHANGED situation
  BY DEF Next
<1>2. ASSUME NEW t \in Users, Request(t) \/ Step(t)
      PROVE  AuthInv'
  BY <1>1, <1>2, RequestStep, CreateStep, CheckoutStep, SendStep, ThrowStep, StoreStep,
     ReturnsStep, SetRegionStep, TryRefreshStep, AdoptStep, ReloadUnchangedStep, TakeLockStep,
     FetchStep, PutStep, ProviderFailsStep
  DEF Step
<1> QED
  BY <1>1, <1>2, ExpireStep, ReplaceStep, ContextGoneStep DEF Next

LEMMA AuthInvHolds == Spec => []AuthInv
<1>1. AuthInv /\ [Next]_<<vars, situation>> => AuthInv'
  BY RefreshIdle, RefreshStep
<1> QED
  BY <1>1, RefreshStart, PTL DEF Spec

-----------------------------------------------------------------------------
(***************************************************************************)
(* The generations of the client caches.                                   *)
(***************************************************************************)
\* A step that touches no cache, no material and no request that is out.
LEMMA CacheQuiet ==
  ASSUME Types, CacheInv, Still, Sets, misled' \in [Threads -> BOOLEAN],
         UNCHANGED <<auth, clients, generation, data, entry, made_at, late>>,
         \A t \in Users : pc'[t] \in {"checkout", "store"} => pc'[t] = pc[t]
  PROVE  CacheInv'
<1>1. CacheTypes' /\ Hosts' = Hosts
  BY DEF CacheInv, CacheTypes, Hosts, Still
<1>2. \A t \in Users' : pc'[t] \in {"checkout", "store"} => OwnerOf'[t] \in Handles'
  BY DEF CacheInv, Still
<1>3. ASSUME NEW t \in Users
      PROVE  OutOf(t, OwnerOf[t])'
  BY <1>3 DEF CacheInv, OutOf, Timely, Still
<1>4. ASSUME NEW o \in Owners
      PROVE  Cached(o)'
  BY <1>1, <1>4 DEF CacheInv, Cached, Still
<1> QED
  BY <1>1, <1>2, <1>3, <1>4 DEF CacheInv, Still

LEMMA CreateCache ==
  ASSUME Types, CacheInv, Still, Sets, NEW t \in Users, CreateRequestData(t)
  PROVE  CacheInv'
<1>1. /\ t \in Threads /\ OwnerOf[t] \in Owners
      /\ data'[t] = auth[OwnerOf[t]] /\ \A u \in Threads \ {t} : data'[u] = data[u]
      /\ made_at' \in [Threads -> Nat] /\ made_at'[t] = generation[OwnerOf[t]]
      /\ \A u \in Threads \ {t} : made_at'[u] = made_at[u]
      /\ entry'[t].client = None /\ entry'[t].generation = entry[t].generation
      /\ \A u \in Threads \ {t} : entry'[u] = entry[u]
      /\ pc'[t] = (IF OwnerOf[t] \in Handles THEN "checkout" ELSE "send")
      /\ \A u \in Threads \ {t} : pc'[u] = pc[u]
      /\ UNCHANGED <<auth, clients, generation, late, misled>>
  <2>1. t \in Threads /\ OwnerOf[t] \in Owners
    BY DEF Sets
  <2> QED
    BY <2>1 DEF Types, CacheInv, CacheTypes, CreateRequestData, Goto, ownerVars
<1>2. CacheTypes' /\ Hosts' = Hosts
  BY <1>1 DEF CacheInv, CacheTypes, Hosts, Still
<1>3. \A u \in Users : pc'[u] \in {"checkout", "store"} => OwnerOf[u] \in Handles
  BY <1>1 DEF CacheInv, Sets
<1>4. ASSUME NEW u \in Users
      PROVE  OutOf(u, OwnerOf[u])'
  <2>1. CASE u = t
    <3>1. generation[OwnerOf[t]] \in Int /\ OutOf(t, OwnerOf[t])
      BY <1>1 DEF Types, CacheInv
    <3> QED
      BY <1>1, <2>1, <3>1 DEF OutOf, Timely, Still
  <2>2. CASE u # t
    BY <1>1, <2>2 DEF CacheInv, OutOf, Timely, Still, Sets
  <2> QED
    BY <2>1, <2>2
<1>5. ASSUME NEW o \in Owners
      PROVE  Cached(o)'
  BY <1>1, <1>2, <1>5 DEF CacheInv, Cached, Still
<1> QED
  BY <1>2, <1>3, <1>4, <1>5 DEF CacheInv, Still

LEMMA CheckoutCache ==
  ASSUME Types, CacheInv, Still, Sets, NEW t \in Users, GetClientWithGeneration(t)
  PROVE  CacheInv'
<1> DEFINE o == OwnerOf[t]
           n == Len(clients[o])
           hosts(s) == {s[i] : i \in DOMAIN s}
<1>h. \A x \in Owners : Hosts[x] = hosts(clients[x]) /\ Hosts'[x] = hosts(clients'[x])
  BY DEF Hosts, Still
<1>1. /\ t \in Threads /\ o \in Owners /\ o \in Handles /\ clients[o] \in Seq(Regions)
      /\ ClientLists /\ generation[o] \in Nat
  BY DEF Types, ClientLists, CacheInv, GetClientWithGeneration, Sets
<1>2. /\ n \in Nat /\ SubSeq(clients[o], 1, n - 1) \in Seq(Regions)
      /\ hosts(SubSeq(clients[o], 1, n - 1)) \subseteq Hosts[o]
      /\ n # 0 => clients[o][n] \in Hosts[o]
  <2>1. Hosts[o] = hosts(clients[o])
    BY <1>h, <1>1
  <2> QED
    BY <1>1, <2>1, ClientFacts
<1> HIDE DEF hosts
<1>3. /\ Hosts'[o] \subseteq Hosts[o] /\ \A x \in Owners \ {o} : Hosts'[x] = Hosts[x]
      /\ entry'[t].client = (IF n = 0 THEN None ELSE clients[o][n])
      /\ entry'[t].generation = generation[o]
      /\ \A u \in Threads \ {t} : entry'[u] = entry[u]
      /\ pc'[t] = "send" /\ \A u \in Threads \ {t} : pc'[u] = pc[u]
      /\ misled' \in [Threads -> BOOLEAN]
      /\ UNCHANGED <<auth, generation, data, made_at, late>>
  <2>1. /\ clients' = [clients EXCEPT ![o] = SubSeq(clients[o], 1, n - 1)]
        /\ clients \in [Owners -> Seq(Regions)]
    BY <1>1 DEF GetClientWithGeneration, ClientLists
  <2>2. Hosts'[o] \subseteq Hosts[o] /\ \A x \in Owners \ {o} : Hosts'[x] = Hosts[x]
    <3>1. /\ clients'[o] = SubSeq(clients[o], 1, n - 1)
          /\ \A x \in Owners \ {o} : clients'[x] = clients[x]
      BY <1>1, <2>1
    <3>2. Hosts'[o] \subseteq Hosts[o]
      <4>1. Hosts'[o] = hosts(clients'[o])
        BY <1>h, <1>1
      <4> QED
        BY <1>2, <3>1, <4>1
    <3>3. \A x \in Owners \ {o} : Hosts'[x] = Hosts[x]
      BY <1>h, <3>1
    <3> QED
      BY <3>2, <3>3
  <2>3. /\ entry' = [entry EXCEPT ![t] = [client |-> IF n = 0 THEN None ELSE clients[o][n],
                                          generation |-> generation[o]]]
        /\ DOMAIN entry = Threads
    BY DEF GetClientWithGeneration, Types
  <2>4. pc'[t] = "send" /\ \A u \in Threads \ {t} : pc'[u] = pc[u]
    BY <1>1 DEF GetClientWithGeneration, Goto, Types
  <2>5. misled' \in [Threads -> BOOLEAN]
    <3>1. late[o] \in BOOLEAN /\ misled[t] \in BOOLEAN /\ misled \in [Threads -> BOOLEAN]
      BY <1>1 DEF CacheInv, CacheTypes
    <3> QED
      BY <3>1 DEF GetClientWithGeneration
  <2> QED
    BY <1>1, <2>2, <2>3, <2>4, <2>5 DEF GetClientWithGeneration
<1>4. CacheTypes'
  BY <1>3 DEF CacheInv, CacheTypes, Still
<1>5. \A u \in Users : pc'[u] \in {"checkout", "store"} => OwnerOf[u] \in Handles
  BY <1>3 DEF CacheInv, Sets
<1>6. ASSUME NEW u \in Users
      PROVE  OutOf(u, OwnerOf[u])'
  <2>1. CASE u = t
    <3>1. OutOf(t, o) /\ Cached(o)
      BY <1>1 DEF CacheInv
    <3>2. ~late[o] => entry'[t].client = None \/ entry'[t].client = auth[o].region
      BY <1>2, <1>3, <3>1 DEF Cached
    <3> QED
      BY <1>1, <1>3, <2>1, <3>1, <3>2 DEF OutOf, Timely, Still
  <2>2. CASE u # t
    BY <1>3, <2>2 DEF CacheInv, OutOf, Timely, Still, Sets
  <2> QED
    BY <2>1, <2>2
<1>7. ASSUME NEW x \in Owners
      PROVE  Cached(x)'
  BY <1>1, <1>3, <1>7 DEF CacheInv, Cached, Still
<1> QED
  BY <1>4, <1>5, <1>6, <1>7 DEF CacheInv, Still

LEMMA SendCache ==
  ASSUME Types, CacheInv, Still, Sets, NEW t \in Users, Send(t)
  PROVE  CacheInv'
<1>1. /\ t \in Threads /\ OwnerOf[t] \in Owners
      /\ entry'[t].client = Host(t) /\ entry'[t].generation = entry[t].generation
      /\ \A u \in Threads \ {t} : entry'[u] = entry[u]
      /\ pc'[t] = (IF OwnerOf[t] \in Handles THEN "store" ELSE "judge")
      /\ \A u \in Threads \ {t} : pc'[u] = pc[u]
      /\ UNCHANGED <<auth, clients, generation, data, made_at, late, misled>>
  <2>1. t \in Threads /\ OwnerOf[t] \in Owners
    BY DEF Sets
  <2> QED
    BY <2>1 DEF Types, Send, Goto, AfterSend, ownerVars, cacheHist
<1>2. CacheTypes' /\ Hosts' = Hosts
  BY <1>1 DEF CacheInv, CacheTypes, Hosts, Still
<1>3. \A u \in Users : pc'[u] \in {"checkout", "store"} => OwnerOf[u] \in Handles
  BY <1>1 DEF CacheInv, Sets
<1>4. ASSUME NEW u \in Users
      PROVE  OutOf(u, OwnerOf[u])'
  <2>1. CASE u = t
    <3>1. OutOf(t, OwnerOf[t])
      BY DEF CacheInv
    <3>2. /\ Host(t) \in {data[t].region, entry[t].client}
          /\ entry[t].client = None => Host(t) = data[t].region
      BY DEF Host
    <3> QED
      BY <1>1, <2>1, <3>1, <3>2 DEF OutOf, Timely, Still
  <2>2. CASE u # t
    BY <1>1, <2>2 DEF CacheInv, OutOf, Timely, Still, Sets
  <2> QED
    BY <2>1, <2>2
<1>5. ASSUME NEW o \in Owners
      PROVE  Cached(o)'
  BY <1>1, <1>2, <1>5 DEF CacheInv, Cached, Still
<1> QED
  BY <1>2, <1>3, <1>4, <1>5 DEF CacheInv, Still

\* The generation check: a client that comes back to a cache cleared since is refused, and
\* one that is not talks to the present host or is marked as late.
LEMMA StoreCache ==
  ASSUME Types, CacheInv, Still, Sets, NEW t \in Users, StoreClient(t)
  PROVE  CacheInv'
<1> DEFINE o == OwnerOf[t]
           h == entry[t].client
           hosts(s) == {s[i] : i \in DOMAIN s}
<1>h. \A x \in Owners : Hosts[x] = hosts(clients[x]) /\ Hosts'[x] = hosts(clients'[x])
  BY DEF Hosts, Still
<1> HIDE DEF hosts
<1>1. /\ t \in Threads /\ o \in Owners /\ o \in Handles /\ clients[o] \in Seq(Regions)
      /\ h \in Regions
      /\ clients \in [Owners -> Seq(Regions)]
  BY DEF Types, ClientLists, CacheInv, StoreClient, Sets
<1>2. /\ pc'[t] = "judge" /\ \A u \in Threads \ {t} : pc'[u] = pc[u]
      /\ clients' = [clients EXCEPT ![o] = Stored(o, entry[t])]
      /\ late' = [late EXCEPT ![o] = late[o] \/ StoresOldHost(t)]
      /\ UNCHANGED <<auth, generation, data, entry, made_at, misled>>
  BY <1>1 DEF Types, StoreClient, Goto
<1>3. late' \in [Owners -> BOOLEAN] /\ \A x \in Owners \ {o} : late'[x] = late[x]
  <2>1. late \in [Owners -> BOOLEAN] /\ StoresOldHost(t) \in BOOLEAN
    BY DEF CacheInv, CacheTypes, StoresOldHost, Overtaken
  <2> QED
    BY <1>1, <1>2, <2>1
<1>4. ~late'[o] => ~late[o] /\ ~StoresOldHost(t)
  BY <1>1, <1>2 DEF CacheInv, CacheTypes
<1>5. CacheTypes'
  BY <1>2, <1>3 DEF CacheInv, CacheTypes, Still
<1>6. \A u \in Users : pc'[u] \in {"checkout", "store"} => OwnerOf[u] \in Handles
  BY <1>2 DEF CacheInv, Sets
<1>7. ASSUME NEW u \in Users
      PROVE  OutOf(u, OwnerOf[u])'
  <2>1. ~late'[OwnerOf[u]] => ~late[OwnerOf[u]]
    BY <1>3, <1>4 DEF Sets
  <2>2. pc'[u] = "store" => pc[u] = "store"
    BY <1>2 DEF Sets
  <2> QED
    BY <1>2, <2>1, <2>2 DEF CacheInv, OutOf, Timely, Still
<1>8. ASSUME NEW x \in Owners
      PROVE  Cached(x)'
  <2>1. CASE x # o
    <3>1. clients'[x] = clients[x] /\ late'[x] = late[x]
      BY <1>1, <1>2, <1>3, <2>1
    <3>2. Hosts'[x] = Hosts[x]
      BY <1>h, <3>1
    <3> QED
      BY <1>2, <3>1, <3>2 DEF CacheInv, Cached, Still
  <2>2. CASE x = o
    <3>1. CASE entry[t].generation = generation[o]
      <4>1. Hosts'[o] \subseteq Hosts[o] \cup {h}
        <5>1. clients'[o] = Append(clients[o], h)
          BY <1>1, <1>2, <3>1 DEF Stored
        <5>2. hosts(Append(clients[o], h)) \subseteq hosts(clients[o]) \cup {h}
          BY <1>1, ClientFacts DEF hosts
        <5>3. Hosts[o] = hosts(clients[o]) /\ Hosts'[o] = hosts(clients'[o])
          BY <1>h, <1>1
        <5> QED
          BY <5>1, <5>2, <5>3
      <4>2. ~late'[o] => h = auth[o].region
        <5>1. OutOf(t, o) /\ pc[t] = "store"
          BY DEF CacheInv, StoreClient
        <5>2. CASE Overtaken(t)
          BY <1>4, <3>1, <5>2 DEF StoresOldHost
        <5>3. CASE ~Overtaken(t)
          BY <1>1, <1>4, <3>1, <5>1, <5>3 DEF OutOf, Timely, Overtaken
        <5> QED
          BY <5>2, <5>3
      <4> QED
        BY <1>1, <1>2, <1>4, <2>2, <4>1, <4>2 DEF CacheInv, Cached, Still
    <3>2. CASE entry[t].generation # generation[o]
      <4>1. clients'[o] = clients[o]
        BY <1>1, <1>2, <3>2 DEF Stored
      <4>2. Hosts'[o] = Hosts[o]
        BY <1>h, <1>1, <4>1
      <4> QED
        BY <1>1, <1>2, <1>4, <2>2, <4>2 DEF CacheInv, Cached, Still
    <3> QED
      BY <3>1, <3>2
  <2> QED
    BY <2>1, <2>2
<1> QED
  BY <1>5, <1>6, <1>7, <1>8 DEF CacheInv, Still

\* SetRegion and ReloadAdopts: the owner has new material, and its cache a new generation.
LEMMA ClearCache ==
  ASSUME Types, CacheInv, Still, Sets, NEW o \in Owners, Clear(o),
         \A x \in Owners \ {o} : auth'[x] = auth[x],
         UNCHANGED <<data, entry, made_at, misled>>,
         \A t \in Users : pc'[t] \notin {"checkout", "store"} \/ pc'[t] = pc[t]
  PROVE  CacheInv'
<1>1. /\ Hosts'[o] = IF o \in Handles THEN {} ELSE Hosts[o]
      /\ \A x \in Owners \ {o} : Hosts'[x] = Hosts[x]
  BY ClearFacts DEF Types, Still
<1>2. CacheTypes' /\ \A x \in Owners \ {o} : late'[x] = late[x] /\ generation'[x] = generation[x]
  BY DEF Clear, CacheInv, CacheTypes, Still, Types
<1>3. \A t \in Users : pc'[t] \in {"checkout", "store"} => OwnerOf[t] \in Handles
  BY DEF CacheInv
<1>4. ASSUME NEW t \in Users
      PROVE  OutOf(t, OwnerOf[t])'
  <2>1. OutOf(t, OwnerOf[t])
    BY DEF CacheInv
  <2>2. CASE OwnerOf[t] # o
    BY <1>2, <2>1, <2>2 DEF OutOf, Timely, Still, Sets
  <2>3. CASE OwnerOf[t] = o /\ o \in Handles
    <3>1. /\ made_at'[t] \in Int /\ entry'[t].generation \in Int /\ generation[o] \in Int
          /\ generation'[o] = generation[o] + 1
          /\ made_at'[t] <= generation[o] /\ entry'[t].generation <= generation[o]
      BY <2>1, <2>3 DEF Clear, Types, CacheInv, CacheTypes, OutOf, Sets
    <3> QED
      BY <2>3, <3>1 DEF OutOf, Timely, Still
  <2>4. CASE OwnerOf[t] = o /\ o \notin Handles
    BY <2>1, <2>4 DEF Clear, OutOf, Timely, Still
  <2> QED
    BY <2>2, <2>3, <2>4
<1>5. ASSUME NEW x \in Owners
      PROVE  Cached(x)'
  <2>1. Cached(x)
    BY <1>5 DEF CacheInv
  <2> QED
    BY <1>1, <1>2, <2>1 DEF Cached, Still
<1> QED
  BY <1>2, <1>3, <1>4, <1>5 DEF CacheInv, Still

LEMMA CacheStep ==
  ASSUME Types, CacheInv, Next
  PROVE  CacheInv'
<1>s. Still /\ Sets
  BY StillHolds, SetsHold DEF Next, Types
<1>1. ASSUME NEW t \in Users, Request(t)
      PROVE  CacheInv'
  <2>1. /\ misled' \in [Threads -> BOOLEAN] /\ pc' = [pc EXCEPT ![t] = "create"]
        /\ UNCHANGED <<auth, clients, generation, data, entry, made_at, late>>
    BY <1>1 DEF Request, Goto, ownerVars, CacheInv, CacheTypes
  <2> QED
    BY <1>s, <2>1, CacheQuiet DEF Types, Sets
<1>2. ASSUME NEW t \in Users,
             \/ SendThrows(t) \/ Return(t) \/ TryRefresh(t) \/ ReloadUnchanged(t)
             \/ TakeRefreshLock(t) \/ ProviderFetch(t) \/ ProviderStore(t) \/ ProviderFails(t)
      PROVE  CacheInv'
  <2>1. UNCHANGED <<auth, clients, generation, data, entry, made_at, late, misled>>
    BY <1>2 DEF SendThrows, Return, TryRefresh, ReloadUnchanged, TakeRefreshLock, ProviderFetch,
                ProviderStore, ProviderFails, ownerVars, cacheHist
  <2>2. \E l \in {"idle", "create", "reload", "lock", "again", "fetch", "put", "final"} :
          pc' = [pc EXCEPT ![t] = l]
    BY <1>2 DEF SendThrows, Return, TryRefresh, ReloadUnchanged, TakeRefreshLock, ProviderFetch,
                ProviderStore, ProviderFails, Goto, RefreshReturns
  <2>3. misled' \in [Threads -> BOOLEAN]
    BY <2>1 DEF CacheInv, CacheTypes
  <2> QED
    BY <1>s, <2>1, <2>2, <2>3, CacheQuiet DEF Types, Sets
<1>3. ASSUME Expire \/ ReplaceSecret \/ ContextGone
      PROVE  CacheInv'
  <2>1. UNCHANGED <<auth, clients, generation, data, entry, made_at, late, misled, pc>>
    BY <1>3 DEF Expire, ReplaceSecret, ContextGone, ownerVars, cacheHist
  <2>2. misled' \in [Threads -> BOOLEAN]
    BY <2>1 DEF CacheInv, CacheTypes
  <2> QED
    BY <1>s, <2>1, <2>2, CacheQuiet
<1>4. ASSUME NEW t \in Users, SetRegion(t)
      PROVE  CacheInv'
  <2>1. /\ OwnerOf[t] \in Owners /\ Clear(OwnerOf[t]) /\ pc' = [pc EXCEPT ![t] = "create"]
        /\ \A x \in Owners \ {OwnerOf[t]} : auth'[x] = auth[x]
        /\ UNCHANGED <<data, entry, made_at, misled>>
    BY <1>s, <1>4 DEF SetRegion, Goto, Types, Sets
  <2> QED
    BY <1>s, <2>1, ClearCache DEF Types, Sets
<1>5. ASSUME NEW t \in Users, ReloadAdopts(t)
      PROVE  CacheInv'
  <2>1. /\ OwnerOf[t] \in Owners /\ Clear(OwnerOf[t]) /\ pc' = [pc EXCEPT ![t] = "create"]
        /\ \A x \in Owners \ {OwnerOf[t]} : auth'[x] = auth[x]
        /\ UNCHANGED <<data, entry, made_at, misled>>
    BY <1>s, <1>5 DEF ReloadAdopts, RefreshReturns, Goto, Types, Sets
  <2> QED
    BY <1>s, <2>1, ClearCache DEF Types, Sets
<1> QED
  BY <1>s, <1>1, <1>2, <1>3, <1>4, <1>5, CreateCache, CheckoutCache, SendCache, StoreCache
  DEF Next, Step

LEMMA CacheIdle ==
  ASSUME CacheInv, UNCHANGED <<vars, situation>>
  PROVE  CacheInv'
<1>1. Still
  BY StillHolds
<1>2. /\ UNCHANGED <<auth, clients, generation, data, entry, made_at, late, misled, pc>>
      /\ Hosts' = Hosts
  BY <1>1 DEF vars, ownerVars, cacheHist, Hosts, Still
<1> QED
  BY <1>1, <1>2 DEF CacheInv, CacheTypes, OutOf, Timely, Cached, Still

LEMMA CacheStart == Init => CacheInv
<1> SUFFICES ASSUME Init
             PROVE  CacheInv
  OBVIOUS
<1>1. Sets
  BY SetsHold DEF Init
<1>2. CacheTypes
  BY DEF Init, CacheTypes
<1>3. \A o \in Owners : Cached(o)
  BY DEF Init, Cached, Hosts
<1>4. ASSUME NEW t \in Users
      PROVE  OutOf(t, OwnerOf[t])
  <2>1. t \in Threads /\ OwnerOf[t] \in Owners
    BY <1>1 DEF Sets
  <2>2. OwnerOf[t] \in Handles => auth[OwnerOf[t]].region = SecretRegion
    BY <2>1, SituationAssumption
    DEF Init, InitialAuth, Situation, Handles, SecretRegion, Owners, OwnerOf, Users
  <2> QED
    BY <2>1, <2>2 DEF Init, OutOf, Timely
<1> QED
  BY <1>1, <1>2, <1>3, <1>4 DEF CacheInv, Init, Sets

LEMMA CacheInvHolds == Spec => []CacheInv
<1>1. AuthInv => Types
  BY DEF AuthInv, RefreshInv
<1>2. Types /\ CacheInv /\ [Next]_<<vars, situation>> => CacheInv'
  BY CacheStep, CacheIdle
<1> QED
  BY <1>1, <1>2, AuthInvHolds, CacheStart, PTL DEF Spec

-----------------------------------------------------------------------------
(***************************************************************************)
(* The theorems.                                                           *)
(***************************************************************************)
\* Every variable has its type.
THEOREM RefreshTypeCorrect == Spec => []TypeOK
<1>1. AuthInv /\ CacheInv => TypeOK
  BY DEF AuthInv, RefreshInv, Types, ClientLists, TypeOK, Made, Holding, CacheInv, CacheTypes
<1> QED
  BY <1>1, AuthInvHolds, CacheInvHolds, PTL

\* The double check under CredentialRefreshLock: every renewal that a request
\* caused gave the secret credentials newer than those the service refused, so
\* there are no more of them than expiries, whatever fails in between.
THEOREM OneRenewalPerExpiry == Spec => []SingleFlight
<1>1. AuthInv => SingleFlight
  <2> SUFFICES ASSUME AuthInv
               PROVE  SingleFlight
    OBVIOUS
  <2>1. calls <= secret /\ secret <= valid /\ calls \in Int /\ secret \in Int /\ valid \in Int
    BY SetsHold DEF AuthInv, RefreshInv, Types, Renewals, Past, Sets
  <2> QED
    BY <2>1 DEF SingleFlight
<1> QED
  BY <1>1, AuthInvHolds, PTL

\* The retry loop of RunS3RequestWithAuthRefreshInternal sends a request at most
\* three times, whatever the other threads of its owner do.
THEOREM RequestsAreBounded == Spec => []AtMostThreeSends
<1>1. AuthInv => AtMostThreeSends
  <2> SUFFICES ASSUME AuthInv, NEW t \in Threads
               PROVE  attempts[t] <= 3
    BY DEF AtMostThreeSends
  <2>1. CASE t \in Users
    <3>1. \A b : One(b) \in {0, 1}
      BY DEF One
    <3>2. attempts[t] \in Int /\ SendsOf(t)
      BY <2>1 DEF AuthInv, RefreshInv, Types, Sends
    <3> HIDE DEF One
    <3> QED
      BY <3>1, <3>2 DEF SendsOf
  <2>2. CASE t \notin Users
    BY <2>2 DEF AuthInv, RefreshInv, Locks
  <2> QED
    BY <2>1, <2>2
<1> QED
  BY <1>1, AuthInvHolds, PTL

\* Where redirects do not cross, a request fails only if something outside excuses
\* it: a refresh by another thread of the owner never uses up its only retry.
THEOREM FailuresAreExcused ==
  Spec => [](RegionsSettled => NoSpuriousFailure /\ EveryFailureExcused)
<1>1. AuthInv => (RegionsSettled => NoSpuriousFailure /\ EveryFailureExcused)
  BY DEF AuthInv, SettledInv, NoSpuriousFailure, EveryFailureExcused
<1> QED
  BY <1>1, AuthInvHolds, PTL

\* Wherever regions are and whoever shares a handle: the generation check keeps a
\* client of a former host out of the cache, unless its request was overtaken between
\* its S3RequestData and its checkout.
THEOREM StoredClientsAreCurrent == Spec => []ClientsOfCurrentHost
<1>1. ASSUME CacheInv
      PROVE  ClientsOfCurrentHost
  <2> SUFFICES ASSUME NEW o \in Owners, ~late[o], NEW i \in DOMAIN clients[o]
               PROVE  clients[o][i] = auth[o].region
    BY DEF ClientsOfCurrentHost
  <2>1. clients[o][i] \in Hosts[o]
    BY DEF Hosts
  <2> QED
    BY <1>1, <2>1 DEF CacheInv, Cached
<1> QED
  BY <1>1, CacheInvHolds, PTL
==============================================================================
