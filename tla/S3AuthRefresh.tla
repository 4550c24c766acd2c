--------------------------- MODULE S3AuthRefresh ---------------------------
(***************************************************************************)
(* Requests to S3 whose credentials expire and whose region may be wrong.  *)
(* An owner is an S3FileHandle (HEAD, GET, DELETE: it keeps the clients    *)
(* of finished requests in its HTTPClientCache), an S3HTTPInput (PUT,      *)
(* POST: a new client for every request) or a listing (the S3AuthParams of *)
(* a glob, used by the pages it asks for).  Threads share owners: several  *)
(* range reads run on one handle, several part uploads on one input.       *)
(*                                                                         *)
(* The material a request is made of, its S3AuthParams and refreshable     *)
(* HTTP parameters, is what its secret's credentials (a version number)    *)
(* and its region are; a region stands for the endpoint derived from it.   *)
(*                                                                         *)
(* External: the service (valid, Answer), the secret manager and the       *)
(* secret's provider (secret, ProviderFetch, ProviderStore), HTTPUtil.     *)
(***************************************************************************)
EXTENDS Integers, Sequences

CONSTANTS
    Threads,
    Situations,       \* the situations there may be, by name, see below
    Home,             \* the region of the bucket
    RefreshEnabled    \* httpfs_enable_credential_refresh

\* A situation: owner_of, the owner each thread works on; handles, the owners
\* that are S3FileHandles; listings, those that are globs, each with one thread;
\* open_redirected, inputs whose handle was redirected when it was opened;
\* secret_region, the region the secret names; denied, threads that ask for what
\* no credential may read; can_fail, the provider, the network and the context
\* may fail; and bounds: how often credentials expire, and requests per thread.
ASSUME SituationAssumption == \A s \in DOMAIN Situations :
    LET sit == Situations[s]
        owners == {sit.owner_of[t] : t \in DOMAIN sit.owner_of}
    IN  /\ DOMAIN sit.owner_of \subseteq Threads
        /\ sit.handles \subseteq owners /\ sit.listings \subseteq owners \ sit.handles
        /\ \A t, u \in DOMAIN sit.owner_of :
             sit.owner_of[t] \in sit.listings /\ sit.owner_of[u] = sit.owner_of[t] => t = u
        /\ sit.open_redirected \subseteq owners \ (sit.handles \cup sit.listings)
        /\ sit.denied \subseteq DOMAIN sit.owner_of /\ sit.can_fail \in BOOLEAN
        /\ sit.max_expiry \in Nat /\ sit.max_requests \in Nat
ASSUME RefreshAssumption == RefreshEnabled \in BOOLEAN

VARIABLES
    situation,        \* its name
    \* outside the program
    valid,            \* the credentials the service accepts
    secret,           \* the credentials the secret manager holds
    context,          \* the ClientContext of the owners lives
    \* the owners
    auth,             \* auth_params and the refreshable http_params
    region_redirected,
    mu,               \* the thread that holds the owner's mutex across steps
    clients,          \* HTTPClientCache: the host each stored client talks to
    generation,
    \* HTTPState of the context
    CredentialRefreshLock,
    \* the threads
    pc, requests,
    data,             \* S3RequestData of the current attempt
    entry,            \* the client checked out, and its generation
    response,
    retried_auth_refresh, retried_region,
    fetched,          \* what the provider answered
    \* history
    attempts,         \* sends of the current request
    steady,           \* nothing outside excuses a failure of the request
    calls,            \* answers of the provider stored for requests that are not denied
    made_at,          \* the owner's generation when data was made
    late,             \* a request overtaken by a Clear has brought in a client of another host
    misled            \* the request took its client while that was so

envVars == <<valid, secret, context>>
ownerVars == <<auth, region_redirected, clients, generation>>
lockVars == <<mu, CredentialRefreshLock>>
flagVars == <<retried_auth_refresh, retried_region>>
cacheHist == <<made_at, late, misled>>
histVars == <<attempts, steady, calls>>
vars == <<envVars, ownerVars, lockVars, flagVars, histVars, cacheHist, pc, requests, data, entry,
          response, fetched>>

Situation == Situations[situation]
OwnerOf == Situation.owner_of
Users == DOMAIN OwnerOf
Owners == {OwnerOf[t] : t \in Users}
Handles == Situation.handles
Listings == Situation.listings
SecretRegion == Situation.secret_region
Denied == Situation.denied
CanFail == Situation.can_fail
MaxExpiry == Situation.max_expiry
MaxRequests == Situation.max_requests

None == "none"
ASSUME NoneAssumption == None \notin Threads
Regions == {Home, SecretRegion}
Creds == 0 .. MaxExpiry
Material == [cred : Creds, region : Regions]
Busy(t) == pc[t] # "idle"

TypeOK ==
    /\ valid \in Creds /\ secret \in Creds /\ context \in BOOLEAN
    /\ auth \in [Owners -> Material] /\ region_redirected \in [Owners -> BOOLEAN]
    /\ mu \in [Owners -> Threads \cup {None}] /\ CredentialRefreshLock \in Threads \cup {None}
    /\ clients \in [Owners -> Seq(Regions)] /\ generation \in [Owners -> Nat]
    /\ pc \in [Threads -> {"idle", "create", "checkout", "send", "store", "judge",
                           "reload", "lock", "again", "fetch", "put", "final"}]
    /\ data \in [Threads -> Material] /\ requests \in [Threads -> 0 .. MaxRequests]
    /\ entry \in [Threads -> [client : Regions \cup {None}, generation : Nat]]
    /\ response \in [Threads -> {"ok", "auth", "redirect", "error"}]
    /\ retried_auth_refresh \in [Threads -> BOOLEAN] /\ retried_region \in [Threads -> BOOLEAN]
    /\ fetched \in [Threads -> Creds] /\ attempts \in [Threads -> Nat]
    /\ steady \in [Threads -> BOOLEAN] /\ calls \in Nat
    /\ made_at \in [Threads -> Nat] /\ late \in [Owners -> BOOLEAN] /\ misled \in [Threads -> BOOLEAN]

\* A handle and its input share one S3AuthParams, but each has its own mutex and
\* region_redirected: the HEAD that opens a file for writing runs on the handle.
InitialAuth(o) == [cred |-> 0, region |-> IF o \in Situation.open_redirected THEN Home ELSE SecretRegion]

Init ==
    /\ situation \in DOMAIN Situations
    /\ valid = 0 /\ secret = 0 /\ context = TRUE
    /\ auth = [o \in Owners |-> InitialAuth(o)]
    /\ region_redirected = [o \in Owners |-> FALSE]
    /\ mu = [o \in Owners |-> None] /\ CredentialRefreshLock = None
    /\ clients = [o \in Owners |-> <<>>] /\ generation = [o \in Owners |-> 0]
    /\ pc = [t \in Threads |-> "idle"] /\ requests = [t \in Threads |-> 0]
    /\ data = [t \in Threads |-> [cred |-> 0, region |-> SecretRegion]]
    /\ entry = [t \in Threads |-> [client |-> None, generation |-> 0]]
    /\ response = [t \in Threads |-> "ok"]
    /\ retried_auth_refresh = [t \in Threads |-> FALSE]
    /\ retried_region = [t \in Threads |-> FALSE]
    /\ fetched = [t \in Threads |-> 0]
    /\ attempts = [t \in Threads |-> 0] /\ steady = [t \in Threads |-> TRUE] /\ calls = 0
    /\ made_at = [t \in Threads |-> 0] /\ late = [o \in Owners |-> FALSE]
    /\ misled = [t \in Threads |-> FALSE]

Goto(t, l) == pc' = [pc EXCEPT ![t] = l]
----------------------------------------------------------------------------
(* One attempt of a request.                                               *)

\* The caller (a read, an upload) issues a request.
Request(t) ==
    /\ pc[t] = "idle" /\ requests[t] < MaxRequests
    /\ requests' = [requests EXCEPT ![t] = @ + 1]
    /\ retried_auth_refresh' = [retried_auth_refresh EXCEPT ![t] = FALSE]
    /\ retried_region' = [retried_region EXCEPT ![t] = FALSE]
    /\ attempts' = [attempts EXCEPT ![t] = 0]
    /\ steady' = [steady EXCEPT ![t] = /\ context /\ RefreshEnabled /\ t \notin Denied
                                       /\ auth[OwnerOf[t]].cred = secret \/ secret = valid]
    /\ response' = [response EXCEPT ![t] = "ok"]
    /\ misled' = [misled EXCEPT ![t] = FALSE]
    /\ Goto(t, "create")
    /\ UNCHANGED <<envVars, ownerVars, lockVars, data, entry, fetched, calls, made_at, late>>

CreateRequestData(t) ==
    LET o == OwnerOf[t] IN
    /\ pc[t] = "create" /\ mu[o] = None
    /\ data' = [data EXCEPT ![t] = auth[o]]
    /\ entry' = [entry EXCEPT ![t].client = None]
    /\ made_at' = [made_at EXCEPT ![t] = generation[o]]
    /\ Goto(t, IF o \in Handles THEN "checkout" ELSE "send")
    /\ UNCHANGED <<envVars, ownerVars, lockVars, flagVars, histVars, late, misled, requests, response,
                   fetched>>

GetClientWithGeneration(t) ==
    LET o == OwnerOf[t]
        n == Len(clients[o]) IN
    /\ pc[t] = "checkout"
    /\ entry' = [entry EXCEPT ![t] = [client |-> IF n = 0 THEN None ELSE clients[o][n],
                                      generation |-> generation[o]]]
    /\ clients' = [clients EXCEPT ![o] = SubSeq(@, 1, n - 1)]
    /\ misled' = [misled EXCEPT ![t] = @ \/ late[o]]
    /\ Goto(t, "send")
    /\ UNCHANGED <<envVars, auth, region_redirected, generation, lockVars, flagVars, histVars,
                   made_at, late, requests, data, response, fetched>>

\* The host the request goes to: the one its client was created for.
Host(t) == IF entry[t].client = None THEN data[t].region ELSE entry[t].client

\* A host of another region, or a signature for another region, is answered
\* with a redirect that names the region of the bucket.
Answer(t) ==
    IF Host(t) # Home \/ data[t].region # Home THEN "redirect"
    ELSE IF data[t].cred # valid \/ t \in Denied THEN "auth" ELSE "ok"

AfterSend(t) == IF OwnerOf[t] \in Handles THEN "store" ELSE "judge"

Send(t) ==
    /\ pc[t] = "send"
    /\ response' = [response EXCEPT ![t] = Answer(t)]
    /\ entry' = [entry EXCEPT ![t].client = Host(t)]
    /\ attempts' = [attempts EXCEPT ![t] = @ + 1]
    /\ Goto(t, AfterSend(t))
    /\ UNCHANGED <<envVars, ownerVars, lockVars, flagVars, requests, data, fetched, steady, calls,
                   cacheHist>>

\* HTTPUtil throws: the client is lost and the error carries no status.
SendThrows(t) ==
    /\ pc[t] = "send" /\ CanFail
    /\ response' = [response EXCEPT ![t] = "error"]
    /\ attempts' = [attempts EXCEPT ![t] = @ + 1]
    /\ steady' = [steady EXCEPT ![t] = FALSE]
    /\ Goto(t, "idle")
    /\ UNCHANGED <<envVars, ownerVars, lockVars, flagVars, requests, data, entry, fetched, calls,
                   cacheHist>>

\* A mutant: a client comes back after the Clear that was to drop it.
StoredAlways(o, e) == Append(clients[o], e.client)
Stored(o, e) == IF e.generation = generation[o] THEN Append(clients[o], e.client) ELSE clients[o]

\* The material of the request is older than its checkout: the owner was redirected
\* or refreshed between CreateS3HandleRequestData and GetClientWithGeneration, which
\* no lock holds together.
Overtaken(t) == made_at[t] # entry[t].generation
StoresOldHost(t) ==
    LET o == OwnerOf[t] IN
    Overtaken(t) /\ entry[t].generation = generation[o] /\ entry[t].client # auth[o].region

StoreClient(t) ==
    LET o == OwnerOf[t] IN
    /\ pc[t] = "store"
    /\ clients' = [clients EXCEPT ![o] = Stored(o, entry[t])]
    /\ late' = [late EXCEPT ![o] = @ \/ StoresOldHost(t)]
    /\ Goto(t, "judge")
    /\ UNCHANGED <<envVars, auth, region_redirected, generation, lockVars, flagVars, histVars,
                   made_at, misled, requests, data, entry, response, fetched>>
----------------------------------------------------------------------------
(* RunS3RequestWithAuthRefreshInternal: what follows an attempt.  A        *)
(* response and the exception made of one take the same turns.             *)

\* Mutant: the flag is forgotten.
RefreshEveryTime(t) == response[t] = "auth"
WantsRefresh(t) == response[t] = "auth" /\ ~retried_auth_refresh[t]

RedirectIsValid(t) == response[t] = "redirect" /\ data[t].region # Home
WantsRegion(t) == RedirectIsValid(t) /\ ~retried_region[t]

Return(t) ==
    /\ pc[t] = "judge" /\ ~WantsRefresh(t) /\ ~WantsRegion(t)
    /\ response' = [response EXCEPT ![t] = IF @ = "ok" THEN "ok" ELSE "error"]
    /\ Goto(t, "idle")
    /\ UNCHANGED <<envVars, ownerVars, lockVars, flagVars, histVars, cacheHist, requests, data, entry,
                   fetched>>

\* HTTPClientCache::Clear, for the owners that have one.
KeepClients(o) ==
    UNCHANGED <<clients, generation, late>>
Clear(o) ==
    IF o \in Handles
    THEN /\ clients' = [clients EXCEPT ![o] = <<>>]
         /\ generation' = [generation EXCEPT ![o] = @ + 1]
         /\ late' = [late EXCEPT ![o] = FALSE]
    ELSE UNCHANGED <<clients, generation, late>>

SetRegion(t) ==
    LET o == OwnerOf[t] IN
    /\ pc[t] = "judge" /\ WantsRegion(t) /\ mu[o] = None
    /\ auth' = [auth EXCEPT ![o].region = Home]
    /\ region_redirected' = [region_redirected EXCEPT ![o] = o \notin Listings]
    /\ Clear(o)
    /\ retried_region' = [retried_region EXCEPT ![t] = TRUE]
    /\ Goto(t, "create")
    /\ UNCHANGED <<envVars, lockVars, retried_auth_refresh, histVars, made_at, misled, requests, data,
                   entry, response, fetched>>
----------------------------------------------------------------------------
(* TryRefreshAuthParams, under the owner's mutex from TryRefresh to the    *)
(* step that reports its result.                                           *)

\* A mutant: the refresh lock is not given back.
ReleaseMu(t) ==
    /\ mu' = [mu EXCEPT ![OwnerOf[t]] = None]
    /\ UNCHANGED CredentialRefreshLock
ReleaseLocks(t) ==
    /\ mu' = [mu EXCEPT ![OwnerOf[t]] = None]
    /\ CredentialRefreshLock' = IF CredentialRefreshLock = t THEN None ELSE CredentialRefreshLock

\* true: the request is made again; false: its failure is returned.
RefreshReturns(t, refreshed) ==
    /\ IF refreshed
       THEN /\ retried_auth_refresh' = [retried_auth_refresh EXCEPT ![t] = TRUE]
            /\ Goto(t, "create")
            /\ UNCHANGED response
       ELSE /\ response' = [response EXCEPT ![t] = "error"]
            /\ Goto(t, "idle")
            /\ UNCHANGED retried_auth_refresh
    /\ UNCHANGED retried_region

\* Another thread has changed the owner's material since the request was made.
NotNoticed(t) == FALSE
ChangedSince(t) == auth[OwnerOf[t]] # data[t]

\* The checks that need only what the owner's mutex guards.
TryRefresh(t) ==
    LET o == OwnerOf[t]
        reloads == RefreshEnabled /\ auth[o] = data[t] /\ context IN
    /\ pc[t] = "judge" /\ WantsRefresh(t) /\ mu[o] = None
    /\ \/ /\ reloads
          /\ mu' = [mu EXCEPT ![o] = t]
          /\ Goto(t, "reload")
          /\ UNCHANGED <<flagVars, response>>
       \/ /\ ~reloads
          /\ RefreshReturns(t, RefreshEnabled /\ ChangedSince(t))
          /\ UNCHANGED mu
    /\ UNCHANGED <<envVars, ownerVars, CredentialRefreshLock, histVars, cacheHist, requests, data, entry,
                   fetched>>

\* A handle and an input remember a redirect, a listing only within one request.
PreservesRegion(t) ==
    IF OwnerOf[t] \in Listings THEN retried_region[t] ELSE region_redirected[OwnerOf[t]]

\* S3AuthParams::ReadFrom: the material the secret manager has for the path.
ReadS3AuthParams == [cred |-> secret, region |-> SecretRegion]

\* A mutant: the region of the secret is taken over, redirected or not.
ReloadedFromSecret(t) == ReadS3AuthParams
Reloaded(t) ==
    IF PreservesRegion(t) THEN [ReadS3AuthParams EXCEPT !.region = auth[OwnerOf[t]].region]
    ELSE ReadS3AuthParams

\* ReloadS3AuthMaterial, which returns true.
ReloadAdopts(t) ==
    LET o == OwnerOf[t] IN
    /\ pc[t] \in {"reload", "again", "final"}
    /\ Reloaded(t) # data[t]
    /\ auth' = [auth EXCEPT ![o] = Reloaded(t)]
    /\ Clear(o)
    /\ ReleaseLocks(t) /\ RefreshReturns(t, TRUE)
    /\ UNCHANGED <<envVars, region_redirected, histVars, made_at, misled, requests, data, entry,
                   fetched>>

\* ReloadS3AuthMaterial, which returns false: the secret holds nothing new.
ReloadUnchanged(t) ==
    /\ Reloaded(t) = data[t]
    /\ \/ /\ pc[t] = "reload" /\ Goto(t, "lock") /\ UNCHANGED <<lockVars, flagVars, response>>
       \/ /\ pc[t] = "again" /\ Goto(t, "fetch") /\ UNCHANGED <<lockVars, flagVars, response>>
       \/ pc[t] = "final" /\ ReleaseLocks(t) /\ RefreshReturns(t, FALSE)
    /\ UNCHANGED <<envVars, ownerVars, histVars, cacheHist, requests, data, entry, fetched>>

\* A mutant: the secret is not read again under the lock.
TakeRefreshLockAndFetch(t) ==
    /\ pc[t] = "lock" /\ CredentialRefreshLock = None
    /\ CredentialRefreshLock' = t
    /\ Goto(t, "fetch")
    /\ UNCHANGED <<envVars, ownerVars, mu, flagVars, histVars, cacheHist, requests, data, entry,
                   response, fetched>>

TakeRefreshLock(t) ==
    /\ pc[t] = "lock" /\ CredentialRefreshLock = None
    /\ CredentialRefreshLock' = t
    /\ Goto(t, "again")
    /\ UNCHANGED <<envVars, ownerVars, mu, flagVars, histVars, cacheHist, requests, data, entry,
                   response, fetched>>

\* TryRefreshS3Secret: the provider is asked for credentials ...
ProviderFetch(t) ==
    /\ pc[t] = "fetch"
    /\ fetched' = [fetched EXCEPT ![t] = valid]
    /\ Goto(t, "put")
    /\ UNCHANGED <<envVars, ownerVars, lockVars, flagVars, histVars, cacheHist, requests, data, entry,
                   response>>

\* ... and the secret is replaced by one made of its answer.
ProviderStore(t) ==
    /\ pc[t] = "put"
    /\ secret' = fetched[t]
    /\ steady' = IF fetched[t] = valid THEN steady ELSE [u \in Threads |-> FALSE]
    /\ calls' = IF t \in Denied THEN calls ELSE calls + 1
    /\ Goto(t, "final")
    /\ UNCHANGED <<valid, context, ownerVars, lockVars, flagVars, attempts, cacheHist, requests, data, entry,
                   response, fetched>>

\* The secret cannot be refreshed, or its provider throws: both end the request.
ProviderFails(t) ==
    /\ pc[t] \in {"fetch", "put"} /\ CanFail
    /\ steady' = [steady EXCEPT ![t] = FALSE]
    /\ ReleaseLocks(t) /\ RefreshReturns(t, FALSE)
    /\ UNCHANGED <<envVars, ownerVars, attempts, calls, cacheHist, requests, data, entry, fetched>>
----------------------------------------------------------------------------
(* What happens outside.                                                   *)

Expire ==
    /\ valid < MaxExpiry
    /\ valid' = valid + 1
    /\ steady' = [t \in Threads |-> FALSE]
    /\ UNCHANGED <<secret, context, ownerVars, lockVars, flagVars, attempts, calls, cacheHist, pc,
                   requests, data, entry, response, fetched>>

\* The user replaces the secret by one that is valid.
ReplaceSecret ==
    /\ secret # valid
    /\ secret' = valid
    /\ UNCHANGED <<valid, context, ownerVars, lockVars, flagVars, histVars, cacheHist, pc, requests,
                   data, entry, response, fetched>>

\* The connection that opened the owners is closed; a refresh that runs keeps it alive.
ContextGone ==
    /\ CanFail /\ context
    /\ context' = FALSE
    /\ steady' = [t \in Threads |-> FALSE]
    /\ UNCHANGED <<valid, secret, ownerVars, lockVars, flagVars, attempts, calls, cacheHist, pc,
                   requests, data, entry, response, fetched>>

Step(t) ==
    \/ CreateRequestData(t) \/ GetClientWithGeneration(t)
    \/ Send(t) \/ SendThrows(t) \/ StoreClient(t)
    \/ Return(t) \/ SetRegion(t)
    \/ TryRefresh(t) \/ ReloadAdopts(t) \/ ReloadUnchanged(t) \/ TakeRefreshLock(t)
    \/ ProviderFetch(t) \/ ProviderStore(t) \/ ProviderFails(t)

Next ==
    /\ \/ \E t \in Users : Request(t) \/ Step(t)
       \/ Expire \/ ReplaceSecret \/ ContextGone
    /\ UNCHANGED situation

Spec == Init /\ [][Next]_<<vars, situation>>

----------------------------------------------------------------------------
(* Properties.                                                             *)

\* Concurrent failures of one expiry have the secret's provider renew it once: the
\* check repeated under CredentialRefreshLock finds what another thread renewed.
\* (A call that fails renews nothing and is made again; a request that no
\* credential may make renews it in vain.)
SingleFlight == calls <= valid

\* A request fails only if something outside excuses it: credentials that expired
\* during it, a provider or network that failed, a context that is gone.  What
\* other threads of the owner do at the same time is no excuse, with one exception:
\* a client of the old host that a request overtaken by a redirect has left behind.
NoSpuriousFailure == \A t \in Threads : steady[t] /\ ~misled[t] => response[t] # "error"
\* The same without the exception (Refresh_staleclient.cfg).
EveryFailureExcused == \A t \in Threads : steady[t] => response[t] # "error"

\* The generation check of StoreClient: whatever requests are out while a redirect or
\* a refresh clears the cache, the clients in it talk to the host of the owner's present
\* material.  Only a request overtaken by the Clear between its S3RequestData and its
\* checkout can bring in another one, until the next Clear.
ClientsOfCurrentHost ==
    \A o \in Owners : ~late[o] => \A i \in DOMAIN clients[o] : clients[o][i] = auth[o].region

\* Every request comes to an end.  It is sent at most three times, once more after
\* a refresh and once more after a redirect, whatever the other threads of its
\* owner do: the "Exceeded retry count" of a listing is never thrown.  And while a
\* thread is inside a request, some thread can go on: no two wait for each other's
\* mutex or refresh lock, also when providers fail and exceptions leave in the
\* middle.
AtMostThreeSends == \A t \in Threads : attempts[t] <= 3
RequestsEnd ==
    /\ AtMostThreeSends
    /\ (\E t \in Threads : Busy(t)) => ENABLED (\E t \in Users : Step(t))
=============================================================================
