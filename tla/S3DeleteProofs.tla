--------------------------- MODULE S3DeleteProofs ---------------------------
(***************************************************************************)
(* Deleting in batches and chunks (S3Delete), for any paths, secrets,      *)
(* buckets, directories, sizes of requests and situations: RemoveFiles     *)
(* returns normally only when every path is gone, and credentials that     *)
(* expire do not make it fail where they can be refreshed.                 *)
(*                                                                         *)
(* For the first, the invariant follows each path on its way: to do, in a  *)
(* batch, in the part of the batch that is not sent yet, gone.  For the    *)
(* second it says what the paths of a batch have in common and that at     *)
(* most one of the credentials that anybody holds has expired, so that     *)
(* those that a second attempt is made with have not.                      *)
(***************************************************************************)
EXTENDS S3Delete, SequenceTheorems, TLAPS

Credentials == [of : SUBSET Secrets, n : Nat]
BatchKeys ==
  [host : {HostOf[p] : p \in AllPaths}, auth : Credentials, secret : Secrets,
   dir : {DirOf[p] : p \in AllPaths} \cup {""}]
BatchRecords == [key : BatchKeys, auth : Credentials, paths : Seq(Paths)]

\* The paths of a batch, and those of the batch being sent that no chunk had yet.
PathsOf(b) == {b.paths[i] : i \in 1 .. Len(b.paths)}
Left == {batch.paths[i] : i \in start + 1 .. Len(batch.paths)}

Types ==
  /\ situation \in DOMAIN Situations
  /\ pc \in {"build", "send", "returned"}
  /\ outcome \in {"none", "ok", "error", "auth"}
  /\ retried_auth_refresh \in BOOLEAN /\ expired \in 0 .. MaxExpiry
  /\ todo \subseteq Paths /\ deleted \subseteq Paths
  /\ batches \subseteq BatchRecords /\ batch \in BatchRecords \cup {None}
  /\ start \in Nat /\ start < Len(batch.paths) + MaxKeysPerRequest
  /\ live \subseteq Credentials /\ stored \in [Secrets -> Credentials]

\* The program sends when nothing is to do, and is over when it has an outcome.
Phases ==
  /\ pc = "build" => batch = None /\ ~retried_auth_refresh
  /\ pc # "build" => todo = {}
  /\ (pc = "returned") = (outcome # "none")

\* Every path is on its way.
NothingForgotten == outcome \in {"none", "ok"} =>
  \A p \in Paths :
    \/ p \in todo \cup Left \cup deleted
    \/ \E b \in batches : p \in PathsOf(b)
\* The way ends in the bucket.
NothingLeft == outcome = "ok" => batches = {} /\ Left = {}

\* The credentials of a batch are those of the secret that its paths have.
SecretsFit ==
  /\ \A s \in Secrets : s \in stored[s].of
  /\ \A b \in batches : PathsOf(b) # {}
  /\ \A b \in batches \cup ({batch} \ {None}) :
       b.key.secret \in b.auth.of /\ \A p \in PathsOf(b) : SecretOf[p] = b.key.secret

\* Where credentials expire far apart, no two that are held have expired, ...
OneExpired == FarApart => \A c, d \in Held \ live : c = d
\* ... and those of a second attempt have not.
SecondIsLive == FarApart /\ Denied = {} /\ retried_auth_refresh /\ pc = "send" =>
  batch.auth \in live

DeleteInv == /\ Types /\ Phases /\ NothingForgotten /\ NothingLeft
             /\ SecretsFit /\ OneExpired /\ SecondIsLive /\ (RefreshEnabled => ExpirySurvived)

-----------------------------------------------------------------------------
\* The situation's parts have the sets they should, and change with it only.
LEMMA SituationFacts ==
  /\ UNCHANGED situation =>
       /\ Paths' = Paths /\ Denied' = Denied /\ CanFail' = CanFail /\ FarApart' = FarApart
       /\ MaxExpiry' = MaxExpiry /\ Sessions' = Sessions
  /\ situation \in DOMAIN Situations =>
       /\ Paths \subseteq AllPaths /\ CanFail \in BOOLEAN /\ FarApart \in BOOLEAN
       /\ MaxExpiry \in Nat /\ Sessions \in Nat \ {0}
BY SituationAssumption
   DEF Paths, Denied, CanFail, FarApart, MaxExpiry, Sessions, Situation

\* A batch has paths, and may get other credentials.
LEMMA RecordFacts ==
  ASSUME NEW b \in BatchRecords
  PROVE  /\ b.paths \in Seq(Paths) /\ Len(b.paths) \in Nat /\ PathsOf(b) \subseteq Paths
         /\ b.key \in BatchKeys /\ b.auth \in Credentials
         /\ \A c \in Credentials : LET d == [b EXCEPT !.auth = c] IN
              /\ d \in BatchRecords /\ d.paths = b.paths /\ d.key = b.key /\ d.auth = c
              /\ PathsOf(d) = PathsOf(b)
<1>1. b.paths \in Seq(Paths) /\ b.key \in BatchKeys /\ b.auth \in Credentials
  BY DEF BatchRecords
<1>2. Len(b.paths) \in Nat /\ \A i \in 1 .. Len(b.paths) : b.paths[i] \in Paths
  BY <1>1, LenProperties, ElementOfSeq
<1>3. ASSUME NEW c \in Credentials
      PROVE  /\ [b EXCEPT !.auth = c] \in BatchRecords
             /\ [b EXCEPT !.auth = c].paths = b.paths
             /\ [b EXCEPT !.auth = c].key = b.key /\ [b EXCEPT !.auth = c].auth = c
  BY DEF BatchRecords
<1> QED
  BY <1>1, <1>2, <1>3 DEF PathsOf

LEMMA NoneFacts == Len(None.paths) = 0 /\ PathsOf(None) = {}
BY DEF None, PathsOf

\* What the paths of a batch have in common includes the secret.
LEMMA KeyFacts ==
  ASSUME NEW p \in Paths, situation \in DOMAIN Situations,
         stored \in [Secrets -> Credentials]
  PROVE  /\ BatchKey(p) \in BatchKeys /\ SecretOf[p] \in Secrets
         /\ BatchKey(p).secret = SecretOf[p] /\ BatchKey(p).auth = stored[SecretOf[p]]
<1>1. p \in AllPaths /\ SecretOf[p] \in Secrets
  BY SituationFacts, PathAssumption
<1> QED
  BY <1>1 DEF BatchKey, BatchKeys

\* A new batch has its path, ...
LEMMA NewBatchFacts ==
  ASSUME NEW key \in BatchKeys, NEW p \in Paths
  PROVE  LET b == [key |-> key, auth |-> key.auth, paths |-> <<p>>] IN
         /\ b \in BatchRecords /\ b.key = key /\ b.auth = key.auth /\ PathsOf(b) = {p}
<1> DEFINE b == [key |-> key, auth |-> key.auth, paths |-> <<p>>]
<1>1. <<p>> \in Seq(Paths) /\ key.auth \in Credentials
  <2>1. <<p>> \in Seq(Paths)
    OBVIOUS
  <2>2. key.auth \in Credentials
    BY DEF BatchKeys
  <2> QED
    BY <2>1, <2>2
<1>2. b \in BatchRecords /\ b.key = key /\ b.auth = key.auth
  BY <1>1 DEF BatchRecords
<1>3. PathsOf(b) = {p}
  BY DEF PathsOf
<1> QED
  BY <1>2, <1>3

\* ... and one that gets a path has it, too.
LEMMA AppendFacts ==
  ASSUME NEW b \in BatchRecords, NEW p \in Paths
  PROVE  LET d == [b EXCEPT !.paths = Append(@, p)] IN
         /\ d \in BatchRecords /\ d.key = b.key /\ d.auth = b.auth
         /\ PathsOf(d) = PathsOf(b) \cup {p}
<1> DEFINE d == [b EXCEPT !.paths = Append(@, p)]
<1>1. b.paths \in Seq(Paths)
  BY RecordFacts
<1>2. /\ Append(b.paths, p) \in Seq(Paths) /\ Len(Append(b.paths, p)) = Len(b.paths) + 1
      /\ \A i \in 1 .. Len(b.paths) : Append(b.paths, p)[i] = b.paths[i]
      /\ Append(b.paths, p)[Len(b.paths) + 1] = p /\ Len(b.paths) \in Nat
  BY <1>1, AppendProperties, LenProperties
<1>3. /\ d \in BatchRecords /\ d.key = b.key /\ d.auth = b.auth
      /\ d.paths = Append(b.paths, p)
  BY <1>2 DEF BatchRecords
<1> HIDE DEF d
<1>4. PathsOf(b) \cup {p} \subseteq PathsOf(d)
  <2>1. ASSUME NEW i \in 1 .. Len(b.paths)
        PROVE  b.paths[i] \in PathsOf(d)
    BY <1>2, <1>3 DEF PathsOf
  <2>2. p \in PathsOf(d)
    BY <1>2, <1>3 DEF PathsOf
  <2> QED
    BY <2>1, <2>2 DEF PathsOf
<1>5. PathsOf(d) \subseteq PathsOf(b) \cup {p}
  <2>1. ASSUME NEW i \in 1 .. Len(b.paths) + 1
        PROVE  Append(b.paths, p)[i] \in PathsOf(b) \cup {p}
    <3>1. i \in 1 .. Len(b.paths) \/ i = Len(b.paths) + 1
      BY <1>2
    <3> QED
      BY <1>2, <3>1 DEF PathsOf
  <2> QED
    BY <1>2, <1>3, <2>1 DEF PathsOf
<1> QED
  BY <1>3, <1>4, <1>5 DEF d

\* A chunk takes the next paths of its batch, and leaves those behind it.
LEMMA ChunkFacts ==
  ASSUME batch \in BatchRecords, start \in Nat, HasChunk(batch, start)
  PROVE  /\ ChunkPaths \subseteq PathsOf(batch) /\ Head(Chunk) \in ChunkPaths
         /\ \A i \in start + 1 .. Len(batch.paths) :
              batch.paths[i] \in ChunkPaths \/ i > start + MaxKeysPerRequest
<1> DEFINE size == Len(batch.paths)
           last == Min({start + MaxKeysPerRequest, size})
<1>1. /\ size \in Nat /\ start < size /\ MaxKeysPerRequest \in Nat \ {0}
      /\ \A i \in 1 .. size : batch.paths[i] \in Paths
  BY RecordFacts, ElementOfSeq, SwitchAssumption DEF HasChunk
<1>2. last = IF start + MaxKeysPerRequest <= size THEN start + MaxKeysPerRequest ELSE size
  BY <1>1 DEF Min
<1>3. last \in Nat /\ start + 1 <= last /\ last <= size
  BY <1>1, <1>2
<1>4. Chunk = SubSeq(batch.paths, start + 1, last)
  BY DEF Chunk
<1> HIDE DEF last
<1>5. \A i \in start + 1 .. last : batch.paths[i] \in Paths
  BY <1>1, <1>3
<1>6. /\ Chunk \in Seq(Paths) /\ Len(Chunk) = last - start
      /\ \A i \in 1 .. last - start : Chunk[i] = batch.paths[start + i]
  <2>1. start + 1 \in Int /\ last \in Int
    BY <1>3
  <2>2. /\ Chunk \in Seq(Paths)
        /\ Len(Chunk) = IF start + 1 <= last THEN last - (start + 1) + 1 ELSE 0
        /\ \A i \in 1 .. last - (start + 1) + 1 : Chunk[i] = batch.paths[start + 1 + i - 1]
    BY <1>4, <1>5, <2>1, SubSeqProperties
  <2> QED
    BY <1>3, <2>2
<1>7. DOMAIN Chunk = 1 .. last - start
  BY <1>6, LenProperties
<1>8. ChunkPaths = {batch.paths[start + i] : i \in 1 .. last - start}
  BY <1>6, <1>7 DEF ChunkPaths
<1>9. ChunkPaths \subseteq PathsOf(batch)
  <2>1. ASSUME NEW i \in 1 .. last - start
        PROVE  batch.paths[start + i] \in PathsOf(batch)
    <3>1. start + i \in 1 .. size
      BY <1>1, <1>3
    <3> QED
      BY <3>1 DEF PathsOf
  <2> QED
    BY <1>8, <2>1
<1>10. Head(Chunk) \in ChunkPaths
  <2>1. Head(Chunk) = Chunk[1] /\ 1 \in 1 .. last - start
    BY <1>3, <1>6
  <2> QED
    BY <1>7, <2>1 DEF ChunkPaths
<1>11. ASSUME NEW i \in start + 1 .. size, ~(i > start + MaxKeysPerRequest)
       PROVE  batch.paths[i] \in ChunkPaths
  <2>1. i - start \in 1 .. last - start /\ start + (i - start) = i
    BY <1>1, <1>2, <1>3, <1>11
  <2> QED
    BY <1>8, <2>1
<1> QED
  BY <1>9, <1>10, <1>11

\* A provider makes credentials of a secret that are accepted.
LEMMA MintFacts ==
  ASSUME NEW s \in Secrets, stored \in [Secrets -> Credentials],
         live \subseteq Credentials,
         situation \in DOMAIN Situations, Mint(s)
  PROVE  /\ stored' \in [Secrets -> Credentials] /\ live' \subseteq Credentials
         /\ live \subseteq live' /\ stored'[s] \in live' /\ s \in stored'[s].of
         /\ \A r \in Secrets : r # s => stored'[r] = stored[r]
<1> DEFINE fresh == [of |-> {s}, n |-> (stored[s].n % Sessions) + 1]
<1>1. (stored[s].n % Sessions) + 1 \in Nat
  BY SituationFacts DEF Credentials
<1>2. fresh \in Credentials /\ s \in fresh.of
  BY <1>1 DEF Credentials
<1>3. stored' = [stored EXCEPT ![s] = fresh] /\ live' = live \cup {fresh}
  BY DEF Mint
<1> HIDE DEF fresh
<1> QED
  BY <1>2, <1>3

-----------------------------------------------------------------------------
(***************************************************************************)
(* The steps: what each of them changes (1), and every part of the         *)
(* invariant after it.                                                     *)
(***************************************************************************)
\* What no step changes.
Still ==
  /\ Paths' = Paths /\ Denied' = Denied /\ CanFail' = CanFail /\ FarApart' = FarApart
  /\ MaxExpiry' = MaxExpiry /\ BatchRecords' = BatchRecords
  /\ MaxExpiry \in Nat /\ Paths \subseteq AllPaths

LEMMA StillFacts ==
  ASSUME situation \in DOMAIN Situations, UNCHANGED situation
  PROVE  Still
BY SituationFacts DEF Still, BatchRecords

\* A path is put in a batch, a new one or one of those with its key.
LEMMA AddPathStep ==
  ASSUME DeleteInv, UNCHANGED situation, NEW p \in Paths, AddPath(p)
  PROVE  DeleteInv'
<1>s. Still /\ MaxKeysPerRequest \in Nat \ {0}
  BY StillFacts, SwitchAssumption DEF DeleteInv, Types
<1> USE DEF DeleteInv, Types, Still
<1>1. /\ pc = "build" /\ p \in todo /\ todo' = todo \ {p} /\ SecretOf[p] \in Secrets
      /\ batch = None /\ batch' = None /\ Left' = Left
      /\ \E b \in BatchRecords :
           /\ batches' \subseteq batches \cup {b} /\ b \in batches' /\ p \in PathsOf(b)
           /\ b.auth \in {stored[s] : s \in Secrets} \cup {c.auth : c \in batches}
           /\ b.key.secret = SecretOf[p] /\ b.key.secret \in b.auth.of
           /\ \A q \in PathsOf(b) : SecretOf[q] = b.key.secret
           /\ \A c \in batches \ batches' : PathsOf(c) \subseteq PathsOf(b)
      /\ pc' = IF todo' = {} THEN "send" ELSE "build"
      /\ UNCHANGED <<start, retried_auth_refresh, outcome, deleted, live, expired, stored>>
  <2>1. /\ pc = "build" /\ p \in todo /\ todo' = todo \ {p} /\ SecretOf[p] \in Secrets
        /\ batch = None /\ pc' = IF todo' = {} THEN "send" ELSE "build"
        /\ UNCHANGED <<batch, start, retried_auth_refresh, outcome, deleted, live, expired,
                       stored>>
    BY KeyFacts DEF AddPath, Phases, credentials
  <2>2. Left' = Left
    BY <2>1 DEF Left
  <2> DEFINE new == [key |-> BatchKey(p), auth |-> BatchKey(p).auth, paths |-> <<p>>]
             longer(b) == [b EXCEPT !.paths = Append(@, p)]
  <2>3. CASE batches' = batches \cup {new}
    <3>1. /\ BatchKey(p) \in BatchKeys /\ BatchKey(p).secret = SecretOf[p]
          /\ BatchKey(p).auth = stored[SecretOf[p]]
      BY KeyFacts
    <3>2. /\ new \in BatchRecords /\ new.key = BatchKey(p) /\ PathsOf(new) = {p}
          /\ new.auth = BatchKey(p).auth
      BY <3>1, NewBatchFacts
    <3> HIDE DEF new
    <3>3. new.key.secret \in new.auth.of /\ new.auth \in {stored[s] : s \in Secrets}
      BY <2>1, <3>1, <3>2 DEF SecretsFit
    <3> QED
      BY <2>1, <2>2, <2>3, <3>1, <3>2, <3>3
  <2>4. ASSUME NEW b \in batches, b.key = BatchKey(p),
               batches' = (batches \ {b}) \cup {longer(b)}
        PROVE  \E d \in BatchRecords :
                 /\ batches' \subseteq batches \cup {d} /\ d \in batches' /\ p \in PathsOf(d)
                 /\ d.auth \in {stored[s] : s \in Secrets} \cup {c.auth : c \in batches}
                 /\ d.key.secret = SecretOf[p] /\ d.key.secret \in d.auth.of
                 /\ \A q \in PathsOf(d) : SecretOf[q] = d.key.secret
                 /\ \A c \in batches \ batches' : PathsOf(c) \subseteq PathsOf(d)
    <3>1. b \in BatchRecords /\ b.key.secret = SecretOf[p]
      BY <2>4, KeyFacts
    <3>2. /\ longer(b) \in BatchRecords /\ longer(b).key = b.key /\ longer(b).auth = b.auth
          /\ PathsOf(longer(b)) = PathsOf(b) \cup {p}
      BY <3>1, AppendFacts
    <3>3. b.key.secret \in b.auth.of /\ \A q \in PathsOf(b) : SecretOf[q] = b.key.secret
      BY <2>4 DEF SecretsFit
    <3> HIDE DEF longer
    <3> QED
      BY <2>4, <3>1, <3>2, <3>3
  <2> QED
    BY <2>1, <2>2, <2>3, <2>4 DEF AddPath
<1>2. Types'
  BY <1>1, <1>s
<1>3. Phases'
  BY <1>1, <1>s DEF Phases
<1>4. NothingForgotten'
  BY <1>1, <1>s DEF NothingForgotten
<1>5. NothingLeft'
  BY <1>1, <1>s DEF NothingLeft, Phases, NothingForgotten
<1>6. SecretsFit'
  BY <1>1, <1>s DEF SecretsFit
<1>7. OneExpired'
  BY <1>1, <1>s DEF OneExpired, Held
<1>8. SecondIsLive'
  BY <1>1, <1>s, RecordFacts, NoneFacts DEF SecondIsLive, OneExpired, Held,
      Authentic, Phases, NothingForgotten, NothingLeft, SecretsFit
<1>9. (RefreshEnabled => ExpirySurvived)'
  BY <1>1, <1>s DEF ExpirySurvived
<1> QED
  BY <1>2, <1>3, <1>4, <1>5, <1>6, <1>7, <1>8, <1>9

\* The next batch is begun: the one before has no path left.
LEMMA NextBatchStep ==
  ASSUME DeleteInv, UNCHANGED situation, pc = "send", ~HasChunk(batch, start),
         NEW b \in batches, batch' = b,
         batches' = batches \ {b}, start' = FirstStart, retried_auth_refresh' = FALSE,
         UNCHANGED <<pc, outcome, todo, deleted, credentials>>
  PROVE  DeleteInv'
<1>s. Still /\ MaxKeysPerRequest \in Nat \ {0}
  BY StillFacts, SwitchAssumption DEF DeleteInv, Types
<1> USE DEF DeleteInv, Types, Still
<1>1. /\ b \in BatchRecords /\ b # None /\ Left = {} /\ Left' = PathsOf(b)
      /\ start' = 0 /\ Len(b.paths) \in Nat /\ outcome = "none"
      /\ UNCHANGED <<live, expired, stored>>
  <2>1. b \in BatchRecords /\ Len(b.paths) \in Nat /\ start' = 0
    BY RecordFacts DEF FirstStart
  <2>2. b # None
    BY NoneFacts DEF SecretsFit
  <2>3. Len(batch.paths) \in Nat /\ ~(start < Len(batch.paths))
    BY RecordFacts, NoneFacts DEF HasChunk
  <2>4. Left = {}
    BY <2>3 DEF Left
  <2>5. Left' = PathsOf(b)
    BY <2>1 DEF Left, PathsOf
  <2> QED
    BY <2>1, <2>2, <2>4, <2>5 DEF Phases, credentials
<1>2. Types'
  <2>1. start' < Len(batch'.paths) + MaxKeysPerRequest /\ start' \in Nat
    BY <1>1, <1>s
  <2> QED
    BY <1>1, <1>s, <2>1
<1>3. Phases'
  BY <1>1, <1>s DEF Phases
<1>4. NothingForgotten'
  BY <1>1, <1>s DEF NothingForgotten
<1>5. NothingLeft'
  BY <1>1, <1>s DEF NothingLeft
<1>6. SecretsFit'
  BY <1>1, <1>s DEF SecretsFit
<1>7. OneExpired'
  BY <1>1, <1>s DEF OneExpired, Held
<1>8. SecondIsLive'
  BY <1>1, <1>s DEF SecondIsLive, OneExpired, Held, Authentic
<1>9. (RefreshEnabled => ExpirySurvived)'
  BY <1>1, <1>s DEF ExpirySurvived
<1> QED
  BY <1>2, <1>3, <1>4, <1>5, <1>6, <1>7, <1>8, <1>9

\* The last batch has no path left, and there is no other.
LEMMA ReturnStep ==
  ASSUME DeleteInv, UNCHANGED situation, pc = "send", ~HasChunk(batch, start),
         batches = {}, Return("ok"),
         retried_auth_refresh' = FALSE,
         UNCHANGED <<batch, batches, start, todo, deleted, credentials>>
  PROVE  DeleteInv'
<1>s. Still /\ MaxKeysPerRequest \in Nat \ {0}
  BY StillFacts, SwitchAssumption DEF DeleteInv, Types
<1> USE DEF DeleteInv, Types, Still
<1>1. /\ Left = {} /\ Left' = Left /\ pc' = "returned" /\ outcome' = "ok"
      /\ UNCHANGED <<live, expired, stored>>
  <2>1. Len(batch.paths) \in Nat /\ ~(start < Len(batch.paths))
    BY RecordFacts, NoneFacts DEF HasChunk
  <2> QED
    BY <2>1 DEF Left, Return, credentials
<1>2. Types'
  BY <1>1, <1>s
<1>3. Phases'
  BY <1>1, <1>s DEF Phases
<1>4. NothingForgotten'
  BY <1>1, <1>s DEF NothingForgotten, Phases, NothingLeft
<1>5. NothingLeft'
  BY <1>1, <1>s DEF NothingLeft
<1>6. SecretsFit'
  BY <1>1, <1>s DEF SecretsFit
<1>7. OneExpired'
  BY <1>1, <1>s DEF OneExpired, Held
<1>8. SecondIsLive'
  BY <1>1, <1>s DEF SecondIsLive, OneExpired, Held, Authentic
<1>9. (RefreshEnabled => ExpirySurvived)'
  BY <1>1, <1>s DEF ExpirySurvived
<1> QED
  BY <1>2, <1>3, <1>4, <1>5, <1>6, <1>7, <1>8, <1>9

\* A chunk is answered: its paths are gone, or RemoveFiles throws.
LEMMA AnsweredStep ==
  ASSUME DeleteInv, UNCHANGED situation, Answered
  PROVE  DeleteInv'
<1>s. Still /\ MaxKeysPerRequest \in Nat \ {0}
  BY StillFacts, SwitchAssumption DEF DeleteInv, Types
<1> USE DEF DeleteInv, Types, Still
<1>1. /\ pc = "send" /\ batch \in BatchRecords /\ Len(batch.paths) \in Nat
      /\ start < Len(batch.paths) /\ start' = start + MaxKeysPerRequest
      /\ deleted \subseteq deleted' /\ deleted' \subseteq Paths
      /\ \/ /\ Left \subseteq Left' \cup deleted' /\ UNCHANGED <<pc, outcome>>
         \/ /\ pc' = "returned" /\ outcome' = "error"
            /\ CanFail \/ \E p \in PathsOf(batch) : ~Allowed(p)
      /\ retried_auth_refresh' = FALSE
      /\ UNCHANGED <<todo, batches, batch, live, expired, stored>>
  <2>1. /\ pc = "send" /\ start < Len(batch.paths) /\ start' = start + MaxKeysPerRequest
        /\ retried_auth_refresh' = FALSE
        /\ UNCHANGED <<todo, batches, batch, live, expired, stored>>
    BY DEF Answered, HasChunk, Retried, credentials
  <2>2. batch \in BatchRecords /\ Len(batch.paths) \in Nat
    BY <2>1, RecordFacts, NoneFacts
  <2>3. /\ ChunkPaths \subseteq PathsOf(batch) /\ PathsOf(batch) \subseteq Paths
        /\ \A i \in start + 1 .. Len(batch.paths) :
             batch.paths[i] \in ChunkPaths \/ i > start + MaxKeysPerRequest
    BY <2>1, <2>2, ChunkFacts, RecordFacts DEF HasChunk
  <2>4. Left \subseteq Left' \cup ChunkPaths
    <3>1. ASSUME NEW i \in start + 1 .. Len(batch.paths), i > start + MaxKeysPerRequest
          PROVE  i \in start' + 1 .. Len(batch'.paths) /\ batch'.paths[i] = batch.paths[i]
      BY <2>1, <2>2, <3>1
    <3> QED
      BY <2>3, <3>1 DEF Left
  <2>5. PICK broken \in SUBSET ChunkPaths :
           LET refused == broken \cup {p \in ChunkPaths : ~Allowed(p)} IN
             /\ broken # {} => CanFail
             /\ deleted' = deleted \cup (ChunkPaths \ refused)
             /\ \/ refused = {} /\ UNCHANGED <<pc, outcome>>
                \/ refused # {} /\ Return("error")
    BY DEF Answered
  <2>6. CASE broken \cup {p \in ChunkPaths : ~Allowed(p)} = {}
    BY <2>1, <2>2, <2>3, <2>4, <2>5, <2>6
  <2>7. CASE broken \cup {p \in ChunkPaths : ~Allowed(p)} # {}
    BY <2>1, <2>2, <2>3, <2>5, <2>7 DEF Return
  <2> QED
    BY <2>6, <2>7
<1>2. Types'
  <2>1. start' < Len(batch'.paths) + MaxKeysPerRequest /\ start' \in Nat
    BY <1>1, <1>s
  <2> QED
    BY <1>1, <1>s, <2>1
<1>3. Phases'
  BY <1>1, <1>s DEF Phases
<1>4. NothingForgotten'
  BY <1>1, <1>s DEF NothingForgotten
<1>5. NothingLeft'
  BY <1>1, <1>s DEF NothingLeft, Phases, NothingForgotten
<1>6. SecretsFit'
  BY <1>1, <1>s DEF SecretsFit
<1>7. OneExpired'
  BY <1>1, <1>s DEF OneExpired, Held
<1>8. SecondIsLive'
  BY <1>1, <1>s DEF SecondIsLive, OneExpired, Held, Authentic
<1>9. (RefreshEnabled => ExpirySurvived)'
  <2>1. \A p \in PathsOf(batch) : Allowed(p)
    <3>1. batch # None
      BY <1>1, NoneFacts
    <3> QED
      BY <3>1 DEF SecretsFit, Allowed
  <2> QED
    BY <1>1, <1>s, <2>1 DEF ExpirySurvived
<1> QED
  BY <1>2, <1>3, <1>4, <1>5, <1>6, <1>7, <1>8, <1>9

\* A request fails.
LEMMA FailedStep ==
  ASSUME DeleteInv, UNCHANGED situation, Failed
  PROVE  DeleteInv'
<1>s. Still /\ MaxKeysPerRequest \in Nat \ {0}
  BY StillFacts, SwitchAssumption DEF DeleteInv, Types
<1> USE DEF DeleteInv, Types, Still
<1>1. /\ pc = "send" /\ CanFail /\ deleted' \subseteq Paths
      /\ pc' = "returned" /\ outcome' = "error"
      /\ UNCHANGED <<todo, batches, batch, start, retried_auth_refresh, live, expired, stored>>
  <2>1. /\ pc = "send" /\ CanFail /\ HasChunk(batch, start)
        /\ pc' = "returned" /\ outcome' = "error"
        /\ UNCHANGED <<todo, batches, batch, start, retried_auth_refresh, live, expired, stored>>
    BY DEF Failed, Return, local, credentials
  <2>2. batch \in BatchRecords
    BY <2>1, NoneFacts DEF HasChunk
  <2>3. ChunkPaths \subseteq Paths
    BY <2>1, <2>2, ChunkFacts, RecordFacts
  <2> QED
    BY <2>1, <2>3 DEF Failed
<1>2. Types'
  BY <1>1, <1>s
<1>3. Phases'
  BY <1>1, <1>s DEF Phases
<1>4. NothingForgotten'
  BY <1>1, <1>s DEF NothingForgotten
<1>5. NothingLeft'
  BY <1>1, <1>s DEF NothingLeft
<1>6. SecretsFit'
  BY <1>1, <1>s DEF SecretsFit
<1>7. OneExpired'
  BY <1>1, <1>s DEF OneExpired, Held
<1>8. SecondIsLive'
  BY <1>1, <1>s DEF SecondIsLive, OneExpired, Held, Authentic
<1>9. (RefreshEnabled => ExpirySurvived)'
  BY <1>1, <1>s DEF ExpirySurvived
<1> QED
  BY <1>2, <1>3, <1>4, <1>5, <1>6, <1>7, <1>8, <1>9

\* A chunk is refused, and the batch gets other credentials of its secret.
LEMMA RefusedOnceStep ==
  ASSUME DeleteInv, UNCHANGED situation, RefusedOnce
  PROVE  DeleteInv'
<1>s. Still /\ MaxKeysPerRequest \in Nat \ {0}
  BY StillFacts, SwitchAssumption DEF DeleteInv, Types
<1> USE DEF DeleteInv, Types, Still
<1>1. /\ pc = "send" /\ batch \in BatchRecords /\ batch # None /\ outcome = "none"
      /\ ~Authentic
      /\ batch.key.secret \in Secrets
      /\ batch' \in BatchRecords /\ batch' # None /\ batch'.key = batch.key
      /\ batch'.paths = batch.paths /\ PathsOf(batch') = PathsOf(batch)
      /\ batch'.auth = stored'[batch.key.secret] /\ Left' = Left
      /\ stored' \in [Secrets -> Credentials] /\ live' \subseteq Credentials
      /\ live \subseteq live'
      /\ \A s \in Secrets : s \in stored'[s].of
      /\ \A s \in Secrets : stored'[s] = stored[s] \/ stored'[s] \in live'
      /\ stored'[batch.key.secret] # batch.auth \/ stored'[batch.key.secret] \in live'
      /\ retried_auth_refresh' = TRUE
      /\ UNCHANGED <<pc, todo, batches, start, outcome, deleted, expired>>
  <2>1. /\ pc = "send" /\ HasChunk(batch, start) /\ ~Authentic /\ retried_auth_refresh' = TRUE
        /\ UNCHANGED <<pc, todo, batches, start, outcome, deleted, expired>>
    BY DEF RefusedOnce, Retried
  <2>2. batch \in BatchRecords /\ batch # None /\ outcome = "none"
    BY <2>1, NoneFacts DEF HasChunk, Phases
  <2>3. SecretOf[Head(Chunk)] = batch.key.secret
    BY <2>1, <2>2, ChunkFacts DEF SecretsFit
  <2>4. batch.key.secret \in Secrets
    BY <2>2, RecordFacts DEF BatchKeys
  <2> DEFINE s == batch.key.secret
  <2>5. TryRefresh(s) /\ batch' = [batch EXCEPT !.auth = stored'[s]]
    BY <2>3 DEF RefusedOnce
  <2>6. /\ stored' \in [Secrets -> Credentials] /\ live' \subseteq Credentials
        /\ live \subseteq live' /\ \A r \in Secrets : r \in stored'[r].of
        /\ \A r \in Secrets : stored'[r] = stored[r] \/ stored'[r] \in live'
        /\ stored'[s] # batch.auth \/ stored'[s] \in live'
    <3>1. CASE stored[s] # batch.auth /\ UNCHANGED <<live, stored>>
      BY <3>1 DEF SecretsFit
    <3>2. CASE Mint(s)
      BY <2>4, <3>2, MintFacts DEF SecretsFit
    <3> QED
      BY <2>5, <3>1, <3>2 DEF TryRefresh
  <2>7. stored'[s] \in Credentials
    BY <2>4, <2>6
  <2>8. /\ batch' \in BatchRecords /\ batch'.key = batch.key /\ batch'.paths = batch.paths
        /\ PathsOf(batch') = PathsOf(batch) /\ batch'.auth = stored'[s]
    BY <2>2, <2>5, <2>7, RecordFacts
  <2>9. batch' # None
    BY <2>1, <2>2, <2>8, ChunkFacts, NoneFacts
  <2>10. Left' = Left
    BY <2>1, <2>8 DEF Left
  <2> QED
    BY <2>1, <2>2, <2>4, <2>6, <2>8, <2>9, <2>10
<1>2. Types'
  BY <1>1, <1>s
<1>3. Phases'
  BY <1>1, <1>s DEF Phases
<1>4. NothingForgotten'
  BY <1>1, <1>s DEF NothingForgotten
<1>5. NothingLeft'
  BY <1>1, <1>s DEF NothingLeft
<1>6. SecretsFit'
  BY <1>1, <1>s DEF SecretsFit
<1>7. OneExpired'
  BY <1>1, <1>s DEF OneExpired, Held
<1>8. SecondIsLive'
  BY <1>1, <1>s DEF SecondIsLive, OneExpired, Held, Authentic
<1>9. (RefreshEnabled => ExpirySurvived)'
  BY <1>1, <1>s DEF ExpirySurvived
<1> QED
  BY <1>2, <1>3, <1>4, <1>5, <1>6, <1>7, <1>8, <1>9

\* It is refused again.
LEMMA RefusedAgainStep ==
  ASSUME DeleteInv, UNCHANGED situation, RefusedAgain
  PROVE  DeleteInv'
<1>s. Still /\ MaxKeysPerRequest \in Nat \ {0}
  BY StillFacts, SwitchAssumption DEF DeleteInv, Types
<1> USE DEF DeleteInv, Types, Still
<1>1. /\ pc = "send" /\ ~Authentic /\ pc' = "returned" /\ outcome' = "auth"
      /\ retried_auth_refresh \/ ~RefreshEnabled \/ CanFail
      /\ UNCHANGED <<todo, batches, batch, start, retried_auth_refresh, deleted, live, expired,
                     stored>>
  BY DEF RefusedAgain, Return, local, credentials
<1>2. Types'
  BY <1>1, <1>s
<1>3. Phases'
  BY <1>1, <1>s DEF Phases
<1>4. NothingForgotten'
  BY <1>1, <1>s DEF NothingForgotten
<1>5. NothingLeft'
  BY <1>1, <1>s DEF NothingLeft
<1>6. SecretsFit'
  BY <1>1, <1>s DEF SecretsFit
<1>7. OneExpired'
  BY <1>1, <1>s DEF OneExpired, Held
<1>8. SecondIsLive'
  BY <1>1, <1>s DEF SecondIsLive, OneExpired, Held, Authentic
<1>9. (RefreshEnabled => ExpirySurvived)'
  <2>1. RefreshEnabled /\ ~CanFail => retried_auth_refresh
    BY <1>1, <1>s, SituationFacts, SwitchAssumption
  <2>2. Denied = {} => batch.auth \notin live
    BY <1>1 DEF Authentic
  <2> QED
    BY <1>1, <1>s, <2>1, <2>2 DEF ExpirySurvived, SecondIsLive
<1> QED
  BY <1>2, <1>3, <1>4, <1>5, <1>6, <1>7, <1>8, <1>9

\* Credentials expire, where they may.
LEMMA ExpireStep ==
  ASSUME DeleteInv, UNCHANGED situation, NEW c \in live, Expire(c)
  PROVE  DeleteInv'
<1>s. Still /\ MaxKeysPerRequest \in Nat \ {0}
  BY StillFacts, SwitchAssumption DEF DeleteInv, Types
<1> USE DEF DeleteInv, Types, Still
<1>1. /\ expired < MaxExpiry
      /\ FarApart => Held \subseteq live /\ ~retried_auth_refresh
      /\ live' = live \ {c} /\ expired' = expired + 1 /\ Left' = Left /\ Held' = Held
      /\ UNCHANGED <<pc, todo, batches, batch, start, retried_auth_refresh, outcome, deleted,
                     stored>>
  BY DEF Expire, local, Left, Held
<1>2. Types'
  <2>1. expired' \in 0 .. MaxExpiry
    BY <1>1, <1>s
  <2>2. start' \in Nat /\ start' < Len(batch'.paths) + MaxKeysPerRequest
    BY <1>1
  <2> QED
    BY <1>1, <1>s, <2>1, <2>2
<1>3. Phases'
  BY <1>1, <1>s DEF Phases
<1>4. NothingForgotten'
  BY <1>1, <1>s DEF NothingForgotten
<1>5. NothingLeft'
  BY <1>1, <1>s DEF NothingLeft
<1>6. SecretsFit'
  BY <1>1, <1>s DEF SecretsFit
<1>7. OneExpired'
  <2>1. FarApart => Held' \ live' \subseteq {c}
    BY <1>1
  <2> QED
    BY <1>s, <2>1 DEF OneExpired
<1>8. SecondIsLive'
  BY <1>1, <1>s DEF SecondIsLive
<1>9. (RefreshEnabled => ExpirySurvived)'
  BY <1>1, <1>s DEF ExpirySurvived
<1> QED
  BY <1>2, <1>3, <1>4, <1>5, <1>6, <1>7, <1>8, <1>9

\* Another query refreshes a secret.
LEMMA RefreshElsewhereStep ==
  ASSUME DeleteInv, UNCHANGED situation, NEW s \in Secrets, RefreshElsewhere(s)
  PROVE  DeleteInv'
<1>s. Still /\ MaxKeysPerRequest \in Nat \ {0}
  BY StillFacts, SwitchAssumption DEF DeleteInv, Types
<1> USE DEF DeleteInv, Types, Still
<1>1. /\ live \subseteq live' /\ live' \subseteq Credentials /\ Left' = Left
      /\ stored' \in [Secrets -> Credentials]
      /\ \A r \in Secrets : r \in stored'[r].of
      /\ \A r \in Secrets : stored'[r] = stored[r] \/ stored'[r] \in live'
      /\ UNCHANGED <<pc, todo, batches, batch, start, retried_auth_refresh, outcome, deleted,
                     expired>>
  <2>1. /\ Mint(s)
        /\ UNCHANGED <<pc, todo, batches, batch, start, retried_auth_refresh, outcome, deleted,
                       expired>>
    BY DEF RefreshElsewhere, local
  <2>2. Left' = Left
    BY <2>1 DEF Left
  <2> QED
    BY <2>1, <2>2, MintFacts DEF SecretsFit
<1>2. Types'
  BY <1>1, <1>s
<1>3. Phases'
  BY <1>1, <1>s DEF Phases
<1>4. NothingForgotten'
  BY <1>1, <1>s DEF NothingForgotten
<1>5. NothingLeft'
  BY <1>1, <1>s DEF NothingLeft
<1>6. SecretsFit'
  BY <1>1, <1>s DEF SecretsFit
<1>7. OneExpired'
  BY <1>1, <1>s DEF OneExpired, Held
<1>8. SecondIsLive'
  BY <1>1, <1>s DEF SecondIsLive, OneExpired, Held, Authentic
<1>9. (RefreshEnabled => ExpirySurvived)'
  BY <1>1, <1>s DEF ExpirySurvived
<1> QED
  BY <1>2, <1>3, <1>4, <1>5, <1>6, <1>7, <1>8, <1>9

-----------------------------------------------------------------------------
LEMMA DeleteStart == Init => DeleteInv
<1> SUFFICES ASSUME Init
             PROVE  DeleteInv
  OBVIOUS
<1>1. /\ situation \in DOMAIN Situations /\ pc = "build" /\ todo = Paths /\ batches = {}
      /\ batch = None /\ start = 0 /\ retried_auth_refresh = FALSE /\ outcome = "none"
      /\ deleted = {} /\ live = {FirstKey} /\ expired = 0
      /\ stored = [s \in Secrets |-> FirstKey]
  BY DEF Init
<1>2. FirstKey \in Credentials /\ FirstKey.of = Secrets
  BY DEF FirstKey, Credentials
<1>3. MaxExpiry \in Nat /\ MaxKeysPerRequest \in Nat \ {0}
  BY <1>1, SituationFacts, SwitchAssumption
<1>4. Types
  <2>1. start < Len(batch.paths) + MaxKeysPerRequest /\ start \in Nat
    BY <1>1, <1>3, NoneFacts
  <2>2. expired \in 0 .. MaxExpiry
    BY <1>1, <1>3
  <2> QED
    BY <1>1, <1>2, <2>1, <2>2 DEF Types
<1>5. Held \subseteq {FirstKey}
  BY <1>1 DEF Held
<1>6. OneExpired
  BY <1>5, <1>1 DEF OneExpired
<1>7. Phases /\ NothingForgotten /\ NothingLeft /\ SecondIsLive /\ ExpirySurvived
  BY <1>1 DEF Phases, NothingForgotten, NothingLeft, SecondIsLive, ExpirySurvived
<1>8. SecretsFit
  BY <1>1, <1>2 DEF SecretsFit
<1> QED
  BY <1>4, <1>6, <1>7, <1>8 DEF DeleteInv

LEMMA DeleteIdle ==
  ASSUME DeleteInv, UNCHANGED <<vars, situation>>
  PROVE  DeleteInv'
<1>1. /\ Still /\ Left' = Left /\ Held' = Held
      /\ UNCHANGED <<pc, todo, batches, batch, start, retried_auth_refresh, outcome, deleted,
                     live, expired, stored, situation>>
  BY StillFacts DEF DeleteInv, Types, vars, local, credentials, Left, Held
<1>2. Types' /\ Phases' /\ NothingForgotten' /\ NothingLeft'
  BY <1>1 DEF DeleteInv, Types, Phases, NothingForgotten, NothingLeft, Still
<1>3. SecretsFit' /\ OneExpired' /\ SecondIsLive' /\ (RefreshEnabled => ExpirySurvived)'
  BY <1>1 DEF DeleteInv, SecretsFit, OneExpired, SecondIsLive, ExpirySurvived, Still
<1> QED
  BY <1>2, <1>3 DEF DeleteInv

LEMMA DeleteStep ==
  ASSUME DeleteInv, Next
  PROVE  DeleteInv'
<1>1. UNCHANGED situation
  BY DEF Next
<1>2. CASE \E p \in Paths : AddPath(p)
  BY <1>1, <1>2, AddPathStep
<1>3. CASE NextBatch
  BY <1>1, <1>3, NextBatchStep, ReturnStep DEF NextBatch
<1>4. CASE Answered
  BY <1>1, <1>4, AnsweredStep
<1>5. CASE Failed
  BY <1>1, <1>5, FailedStep
<1>6. CASE RefusedOnce
  BY <1>1, <1>6, RefusedOnceStep
<1>7. CASE RefusedAgain
  BY <1>1, <1>7, RefusedAgainStep
<1>8. CASE \E c \in live : Expire(c)
  BY <1>1, <1>8, ExpireStep
<1>9. CASE \E s \in Secrets : RefreshElsewhere(s)
  BY <1>1, <1>9, RefreshElsewhereStep
<1> QED
  BY <1>2, <1>3, <1>4, <1>5, <1>6, <1>7, <1>8, <1>9 DEF Next, RemoveFiles

LEMMA DeleteInvHolds == Spec => []DeleteInv
<1>1. DeleteInv /\ [Next]_<<vars, situation>> => DeleteInv'
  BY DeleteIdle, DeleteStep
<1> QED
  BY <1>1, DeleteStart, PTL DEF Spec

-----------------------------------------------------------------------------
(***************************************************************************)
(* The theorems.                                                           *)
(***************************************************************************)
\* The types, and that no chunk starts behind the end of its batch.
THEOREM DeleteTypeCorrect == Spec => []TypeOK
<1>1. ASSUME DeleteInv
      PROVE  TypeOK
  <2>1. \A b \in batches \cup {batch} : b.paths \in Seq(Paths)
    <3>1. \A b \in BatchRecords : b.paths \in Seq(Paths)
      BY RecordFacts
    <3>2. None.paths \in Seq(Paths)
      BY EmptySeq DEF None
    <3> QED
      BY <1>1, <3>1, <3>2 DEF DeleteInv, Types
  <2> QED
    BY <1>1, <2>1 DEF DeleteInv, Types, TypeOK
<1> QED
  BY <1>1, DeleteInvHolds, PTL

\* RemoveFiles returns normally only when every path is gone.
THEOREM EveryPathIsGone == Spec => []AllGone
<1>1. DeleteInv => AllGone
  <2> SUFFICES ASSUME DeleteInv, outcome = "ok"
               PROVE  deleted = Paths
    BY DEF AllGone
  <2>1. todo = {} /\ batches = {} /\ Left = {} /\ deleted \subseteq Paths
    BY DEF DeleteInv, Types, Phases, NothingLeft
  <2> QED
    BY <2>1 DEF DeleteInv, NothingForgotten
<1> QED
  BY <1>1, DeleteInvHolds, PTL

\* Credentials that expire, but not before those they replaced are out of use, do
\* not make RemoveFiles fail: the second attempt at a chunk has others that are
\* accepted, and that are of the secret of all paths of the chunk.
THEOREM ExpiredIsRefreshed == Spec => [](RefreshEnabled => ExpirySurvived)
<1>1. DeleteInv => (RefreshEnabled => ExpirySurvived)
  BY DEF DeleteInv
<1> QED
  BY <1>1, DeleteInvHolds, PTL

=============================================================================
