------------------------------ MODULE S3Delete ------------------------------
(***************************************************************************)
(* S3FileSystem::RemoveFiles (s3fs.cpp) groups the paths into batches that *)
(* may share a request, and sends each batch in chunks of at most          *)
(* MAX_KEYS_PER_REQUEST keys.  A chunk is signed with the credentials of   *)
(* the batch; when they are refused, those of the secret of the chunk's    *)
(* first path are read again, refreshed if need be, and the chunk is sent  *)
(* once more.                                                              *)
(*                                                                         *)
(* Meanwhile credentials expire and other queries refresh secrets.  The    *)
(* bucket, which may refuse single keys or whole requests, is external; so *)
(* is the provider of a secret.                                            *)
(***************************************************************************)
EXTENDS Naturals, Sequences, FiniteSetsExt

CONSTANTS
  AllPaths,
  Secrets,
  SecretOf, HostOf,   \* the secret and the bucket of a path
  DirOf,              \* its directory
  MaxKeysPerRequest,  \* 1000
  RefreshEnabled,     \* httpfs_enable_credential_refresh
  Situations          \* the situations there may be, by name, see below

\* A situation: the paths to remove; denied, the buckets whose policy refuses
\* every delete; can_fail, whether requests, single keys and providers may fail;
\* far_apart, whether credentials expire only when nobody holds older ones; and
\* bounds: the expirations of credentials, and the numbers that tell the
\* credentials of a secret apart.
ASSUME SituationAssumption == \A s \in DOMAIN Situations :
  LET sit == Situations[s] IN
  /\ sit.paths \subseteq AllPaths /\ {sit.far_apart, sit.can_fail} \subseteq BOOLEAN
  /\ sit.max_expiry \in Nat /\ sit.sessions \in Nat \ {0}
ASSUME PathAssumption ==
  /\ SecretOf \in [AllPaths -> Secrets]
  /\ DOMAIN HostOf = AllPaths /\ DOMAIN DirOf = AllPaths
ASSUME SwitchAssumption == MaxKeysPerRequest \in Nat \ {0} /\ RefreshEnabled \in BOOLEAN

VARIABLES
  situation, \* its name
  pc,        \* "build", "send" or "returned"
  todo,      \* the paths that are in no batch yet
  batches,   \* delete_batches that are not done
  batch,     \* the batch being sent, None when there is none
  start,     \* batch_start
  retried_auth_refresh,
  outcome,   \* "ok", or why RemoveFiles throws
  deleted,   \* the bucket: objects that are gone
  live,      \* the bucket: credentials it accepts
  expired,   \* how often credentials have expired
  stored     \* the credentials in each secret

local == <<todo, batches, batch, start, retried_auth_refresh>>
credentials == <<live, expired, stored>>
vars == <<pc, local, outcome, deleted, credentials>>

Situation == Situations[situation]
Paths == Situation.paths
Denied == Situation.denied
CanFail == Situation.can_fail
FarApart == Situation.far_apart
MaxExpiry == Situation.max_expiry
Sessions == Situation.sessions

None == [key |-> <<>>, auth |-> <<>>, paths |-> <<>>]
\* All secrets start with the same credentials: they do not tell secrets apart.
FirstKey == [of |-> Secrets, n |-> 0]

Init ==
  /\ situation \in DOMAIN Situations
  /\ pc = "build" /\ todo = Paths /\ batches = {} /\ batch = None /\ start = 0
  /\ retried_auth_refresh = FALSE /\ outcome = "none" /\ deleted = {}
  /\ live = {FirstKey} /\ expired = 0 /\ stored = [s \in Secrets |-> FirstKey]

-----------------------------------------------------------------------------
(***************************************************************************)
(* Mutants.                                                                *)
(***************************************************************************)
\* Batches are told apart by their credentials only.
BatchKeyWithoutSecret(p) == [host |-> HostOf[p], auth |-> stored[SecretOf[p]]]
\* The last chunk of a batch is left out when it is not full.
HasChunkIfFull(b, at) == at + MaxKeysPerRequest <= Len(b.paths)
\* A batch is begun where the last one ended.
StartGoesOn == start
\* The flag is forgotten.
RetryAlways(flag) == FALSE

-----------------------------------------------------------------------------
(***************************************************************************)
(* Building the batches.                                                   *)
(***************************************************************************)
\* CreateDeleteBatchKey: what the paths of a batch have in common.  Every path has a
\* secret that can be refreshed, so that its directory is part of the key.
BatchKey(p) ==
  [host   |-> HostOf[p],
   auth   |-> stored[SecretOf[p]],
   secret |-> SecretOf[p],
   dir    |-> IF RefreshEnabled THEN DirOf[p] ELSE ""]

\* One path is added to its batch, or to a new one.
AddPath(p) ==
  LET key   == BatchKey(p)
      known == {b \in batches : b.key = key}
  IN
  /\ pc = "build" /\ p \in todo
  /\ todo' = todo \ {p}
  /\ \/ /\ known = {}
        /\ batches' = batches \cup {[key |-> key, auth |-> key.auth, paths |-> <<p>>]}
     \/ \E b \in known :
          batches' = (batches \ {b}) \cup {[b EXCEPT !.paths = Append(@, p)]}
  /\ pc' = IF todo' = {} THEN "send" ELSE "build"
  /\ UNCHANGED <<batch, start, retried_auth_refresh, outcome, deleted, credentials>>

-----------------------------------------------------------------------------
(***************************************************************************)
(* Sending them.                                                           *)
(***************************************************************************)
Return(how) == pc' = "returned" /\ outcome' = how

HasChunk(b, at) == at < Len(b.paths)
Chunk == SubSeq(batch.paths, start + 1, Min({start + MaxKeysPerRequest, Len(batch.paths)}))
ChunkPaths == {Chunk[i] : i \in DOMAIN Chunk}

\* retried_auth_refresh, which each chunk has of its own.
Retried(flag) == flag

\* Where a batch begins.
FirstStart == 0

\* The next batch, or the end.
NextBatch ==
  /\ pc = "send" /\ ~HasChunk(batch, start)
  /\ \/ /\ batches = {} /\ Return("ok")
        /\ UNCHANGED <<batch, batches, start>>
     \/ \E b \in batches :
          /\ batch' = b /\ batches' = batches \ {b} /\ start' = FirstStart
          /\ UNCHANGED <<pc, outcome>>
  /\ retried_auth_refresh' = FALSE
  /\ UNCHANGED <<todo, deleted, credentials>>

\* The bucket accepts the request, and the removal of the path.
Authentic == batch.auth \in live /\ batch.key.host \notin Denied
Allowed(p) == SecretOf[p] \in batch.auth.of

\* A chunk is answered with 200: the keys that are not refused are gone, and
\* the others are <Error> elements of the response.
Answered ==
  /\ pc = "send" /\ HasChunk(batch, start) /\ Authentic
  /\ \E broken \in SUBSET ChunkPaths :
       LET refused == broken \cup {p \in ChunkPaths : ~Allowed(p)} IN
         /\ broken # {} => CanFail
         /\ deleted' = deleted \cup (ChunkPaths \ refused)
         /\ \/ refused = {} /\ UNCHANGED <<pc, outcome>>
            \/ refused # {} /\ Return("error")
  /\ start' = start + MaxKeysPerRequest
  /\ retried_auth_refresh' = Retried(FALSE)
  /\ UNCHANGED <<todo, batches, batch, credentials>>

\* The request fails; some keys may be gone all the same.
Failed ==
  /\ pc = "send" /\ HasChunk(batch, start) /\ CanFail
  /\ \E some \in SUBSET ChunkPaths : deleted' = deleted \cup some
  /\ Return("error")
  /\ UNCHANGED <<local, credentials>>

\* External: the provider replaces the credentials of a secret.
Mint(s) ==
  LET fresh == [of |-> {s}, n |-> (stored[s].n % Sessions) + 1] IN
  stored' = [stored EXCEPT ![s] = fresh] /\ live' = live \cup {fresh}

\* TryRefreshS3AuthParams: the secret of the chunk's first path, read again,
\* has other credentials than the request had; or it is refreshed first.
TryRefresh(s) ==
  \/ stored[s] # batch.auth /\ UNCHANGED <<live, stored>>
  \/ stored[s] = batch.auth /\ Mint(s)

\* The credentials are refused: get others and send the chunk again; once.
RefusedOnce ==
  LET s == SecretOf[Head(Chunk)] IN
  /\ pc = "send" /\ HasChunk(batch, start) /\ ~Authentic
  /\ RefreshEnabled /\ ~retried_auth_refresh
  /\ TryRefresh(s)
  /\ batch' = [batch EXCEPT !.auth = stored'[s]]
  /\ retried_auth_refresh' = Retried(TRUE)
  /\ UNCHANGED <<pc, todo, batches, start, outcome, deleted, expired>>

\* Refused again, or there are no others.
RefusedAgain ==
  /\ pc = "send" /\ HasChunk(batch, start) /\ ~Authentic
  /\ retried_auth_refresh \/ ~RefreshEnabled \/ CanFail
  /\ Return("auth")
  /\ UNCHANGED <<local, deleted, credentials>>

-----------------------------------------------------------------------------
(***************************************************************************)
(* The rest of the world.                                                  *)
(***************************************************************************)
Held == {stored[s] : s \in Secrets} \cup {b.auth : b \in batches \cup ({batch} \ {None})}

\* Credentials expire.
Expire(c) ==
  /\ expired < MaxExpiry
  /\ FarApart => Held \subseteq live /\ ~retried_auth_refresh
  /\ live' = live \ {c} /\ expired' = expired + 1
  /\ UNCHANGED <<pc, local, outcome, deleted, stored>>

\* Another query refreshes a secret.
RefreshElsewhere(s) ==
  /\ stored[s] \notin live
  /\ Mint(s)
  /\ UNCHANGED <<pc, local, outcome, deleted, expired>>

RemoveFiles ==
  \/ \E p \in Paths : AddPath(p)
  \/ NextBatch \/ Answered \/ Failed \/ RefusedOnce \/ RefusedAgain

Next ==
  /\ \/ RemoveFiles
     \/ \E c \in live : Expire(c)
     \/ \E s \in Secrets : RefreshElsewhere(s)
  /\ UNCHANGED situation

Spec == Init /\ [][Next]_<<vars, situation>>
FairSpec == Spec /\ WF_vars(RemoveFiles)

-----------------------------------------------------------------------------
(***************************************************************************)
(* Properties.                                                             *)
(***************************************************************************)
\* Type correctness; no chunk starts behind the end of its batch.
TypeOK ==
  /\ pc \in {"build", "send", "returned"}
  /\ outcome \in {"none", "ok", "error", "auth"}
  /\ retried_auth_refresh \in BOOLEAN /\ expired \in 0 .. MaxExpiry
  /\ todo \subseteq Paths /\ deleted \subseteq Paths
  /\ \A b \in batches \cup {batch} : b.paths \in Seq(Paths)
  /\ start < Len(batch.paths) + MaxKeysPerRequest

\* RemoveFiles returns normally only when every path is gone, whatever the
\* batches and chunks, the refreshes in between and the errors of single keys.
AllGone == outcome = "ok" => deleted = Paths

\* Credentials that expire, between any two requests of any batches, do not
\* make RemoveFiles fail where they can be refreshed: not for the chunks that
\* are left, and not for the paths of another secret that had the same ones.
ExpirySurvived ==
  ~CanFail /\ FarApart /\ Denied = {} => outcome \in {"none", "ok"}

\* RemoveFiles returns, also when a bucket refuses whatever credentials the
\* provider comes up with.
RemoveReturns == <>(pc = "returned")
=============================================================================
