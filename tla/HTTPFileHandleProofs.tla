------------------------ MODULE HTTPFileHandleProofs ------------------------
(***************************************************************************)
(* Reading a file over HTTP (HTTPFileHandle), for every server, client,    *)
(* size of the file and of the read buffer, number of rewrites, handles    *)
(* and reads: types, whole downloads and the metadata cache for every      *)
(* client, and what Read delivers for the curl client and a caller that    *)
(* closes a handle when a call on it failed.                               *)
(*                                                                         *)
(* The invariant tells two kinds of handle apart.  One reads by ranges, in *)
(* one mode with the file that it opened if what it knows of it (length,   *)
(* ETag, date) is of one version, and each answer let through is of that   *)
(* version then.  The other reads from a full download, of one version in  *)
(* any case, which agrees with what was read by ranges before.             *)
(***************************************************************************)
EXTENDS HTTPFileHandle, SequenceTheorems, TLAPS

Pcs == {"closed", "head", "probe", "download", "idle", "read", "range"}
Numbers == 0 .. MaxVersion                  \* of versions, and 0
Bytes == Seq(Numbers \X Nat)
Entries == [length : Nat \cup {-1}, etag : Numbers, last_modified : Numbers]
Calls == [location : Nat, nr_bytes : Nat, out : Bytes, at : Nat, len : Nat,
          refill : BOOLEAN, head_reported_length : Nat]

ServerTypes ==
  /\ situation \in DOMAIN Situations
  /\ server \in Servers /\ server \in ServerTraits
  /\ client \in Clients /\ client \in ClientTraits
  /\ version \in Versions /\ size \in [Versions -> Nat]
HandleTypes ==
  /\ length \in Nat /\ etag \in Numbers /\ last_modified \in Numbers
  /\ cached_file_handle \in BOOLEAN
  /\ pc \in Pcs /\ tries \in 0 .. Retries
  /\ file_offset \in Nat /\ last_read \in Nat \cup {-1}
CacheTypes ==
  /\ metadata \in Entries /\ (metadata.length = -1 => metadata = NoEntry)
  /\ cached_file \in [data : Bytes, initialized : BOOLEAN]
  /\ told \subseteq Numbers \X Numbers
BufferTypes ==
  /\ read_buffer \in Bytes /\ Len(read_buffer) <= 2 * MAXIMUM_READ_BUFFER_LEN
  /\ buffer_start \in Nat /\ buffer_end \in Nat
  /\ buffer_end - buffer_start \in 0 .. Len(read_buffer)
ResultTypes ==
  /\ failed \in BOOLEAN /\ misplaced \in BOOLEAN
  /\ seen \subseteq Numbers /\ eof \in Nat \cup {-1}
\* A range asked for goes on where the bytes end that are there already.
CallTypes ==
  /\ call \in Calls
  /\ call.refill => call.len <= Len(read_buffer)
  /\ pc = "range" => /\ call.at = call.location + Len(call.out)
                     /\ call.nr_bytes - Len(call.out) \in 1 .. call.len
Types == ServerTypes /\ HandleTypes /\ CacheTypes /\ BufferTypes /\ ResultTypes /\ CallTypes

\* The ETag and the date of a version.
TagAt(v) == IF server.etag = "none" THEN 0 ELSE v
DateAt(v) == IF server.dates THEN v ELSE 0
Whole(v) == [i \in 1 .. size[v] |-> <<v, i - 1>>]
Tags == {0} \cup {TagAt(v) : v \in 1 .. version}
Dates == {0} \cup {DateAt(v) : v \in 1 .. version}

\* ETags and dates are those of versions there were, and those rejected are old.
Validators == /\ etag \in Tags /\ last_modified \in Dates
              /\ metadata.etag \in Tags /\ metadata.last_modified \in Dates
ToldAreOld ==
  \A p \in told : (p[1] # 0 /\ p[1] < version) \/ (p[2] # 0 /\ p[2] < version)
Told == Validators /\ ToldAreOld /\ StaleEntryIsDropped

\* A cached file is one version of the file, or empty.
CurlWhole ==
  /\ cached_file.initialized => \E v \in 1 .. version : cached_file.data = Whole(v)
  /\ ~cached_file.initialized => cached_file.data = <<>>
Downloads == ~client.streaming => CurlWhole

\* A handle is being opened, or reads.
DownloadInRead == pc = "download" /\ InRead
Opening == pc \in {"closed", "head", "probe"} \/ (pc = "download" /\ ~InRead)
Ranged == (pc \in {"idle", "read", "range"} /\ ~cached_file_handle) \/ DownloadInRead
Cached == pc \in {"idle", "read"} /\ cached_file_handle

Lines ==
  /\ Opening => /\ seen = {} /\ ~misplaced /\ eof = -1 /\ ~failed /\ last_read = -1
                /\ buffer_start = 0 /\ buffer_end = 0 /\ file_offset = 0 /\ call = NoCall
  /\ pc = "closed" => etag = 0 /\ last_modified = 0 /\ ~cached_file_handle
  /\ pc = "idle" => call = NoCall
  /\ client.force_download => metadata = NoEntry /\ pc \notin {"head", "probe"}

-----------------------------------------------------------------------------
\* The curl client, whose caller closes a handle when a call on it failed.
Careful == ~client.streaming /\ ~client.goes_on

\* A handle of a file that is in the cache uses it, and not the metadata.
Modes ==
  /\ pc \in {"head", "probe"} => ~cached_file.initialized /\ metadata = NoEntry
  /\ pc = "download" => /\ cached_file_handle
                        /\ InRead => ~cached_file.initialized
                        /\ ~InRead => metadata = NoEntry
  /\ pc \in {"idle", "read", "range"} /\ cached_file.initialized => cached_file_handle
  /\ Cached /\ ~failed => cached_file.initialized
  /\ pc = "range" => ~cached_file_handle
  /\ pc # "idle" => ~failed

\* Every call is within the file as the handle knows it.
Position ==
  ~failed /\ ~Opening =>
    /\ file_offset <= length /\ call.location + call.nr_bytes <= length
    /\ eof # -1 => eof = length
    /\ DownloadInRead => call.head_reported_length = length
    /\ pc = "range" => call.at + call.len <= length

\* The lengths known of the file agree.
Lengths ==
  /\ ~failed /\ ~Opening /\ metadata # NoEntry => metadata.length = length
  /\ metadata # NoEntry /\ cached_file.initialized => metadata.length = Len(cached_file.data)
  /\ ~failed /\ Cached => length = Len(cached_file.data)

\* What is known of the file is of one version, or without validators: then it
\* is that of the first as long as the file has not changed.
Info(len, tag, date) ==
  \/ tag = 0 /\ date = 0 /\ (version = 1 => len = size[1])
  \/ \E v \in 1 .. version : tag = TagAt(v) /\ date = DateAt(v) /\ len = size[v]
Infos ==
  /\ metadata # NoEntry => Info(metadata.length, metadata.etag, metadata.last_modified)
  /\ Ranged /\ ~failed => Info(length, etag, last_modified)

\* Who could tell versions apart by ranged answers alone has no use for a download.
NoFallback == DownloadInRead /\ ServerValidates /\ ~Blind => ~server.ranges

\* The bytes of the read buffer and of the call are where they should be, and
\* of the version the handle knows.
Fits(v) == v \in 1 .. version /\ etag \in {0, v} /\ last_modified \in {0, v}
FitsAt(byte, offset) == Fits(byte[1]) /\ byte[2] = offset
AllFit(bytes, offset) == \A i \in 1 .. Len(bytes) : FitsAt(bytes[i], offset + i - 1)
WindowStands == pc \in {"idle", "read"} \/ (pc = "range" /\ ~call.refill)
RangedBytes ==
  Ranged /\ ~failed /\ Validated =>
    /\ \A v \in seen : Fits(v)
    /\ WindowStands => \A i \in 1 .. buffer_end - buffer_start :
                         FitsAt(read_buffer[i], buffer_start + i - 1)
    /\ AllFit(call.out, call.location)
RangedNothing ==
  Ranged /\ ~failed /\ last_read = -1 =>
    seen = {} /\ buffer_start = 0 /\ buffer_end = 0 /\ call.out = <<>>

\* A full download holds what the handle has delivered.
CachedBytes ==
  Cached /\ ~failed /\ Validated =>
    \A v \in seen : v \in 1 .. version /\ size[v] > 0 /\ cached_file.data = Whole(v)

Reads == /\ Modes /\ Position /\ Lengths /\ Infos /\ NoFallback
         /\ RangedBytes /\ RangedNothing /\ CachedBytes
Results == RightBytes /\ OneVersion /\ EofIsTrue

Base == Types /\ Told /\ Downloads /\ Lines
HandleInv == Base /\ (Careful => Reads /\ Results)

-----------------------------------------------------------------------------
\* The situation's parts have the sets they should, and change with it only.
LEMMA SituationFacts ==
  /\ UNCHANGED situation =>
       /\ Servers' = Servers /\ Clients' = Clients /\ Sizes' = Sizes
       /\ Threshold' = Threshold /\ ReadLengths' = ReadLengths
  /\ situation \in DOMAIN Situations =>
       /\ Servers \subseteq ServerTraits /\ Clients \subseteq ClientTraits
       /\ Sizes \subseteq Nat /\ Threshold \in Nat
BY SituationAssumption DEF Servers, Clients, Sizes, Threshold, ReadLengths

\* The bounds are numbers.
LEMMA BoundFacts ==
  /\ MaxVersion \in Nat \ {0} /\ Retries \in Nat
  /\ INITIAL_READ_BUFFER_LEN \in Nat \ {0} /\ MAXIMUM_READ_BUFFER_LEN \in Nat
  /\ INITIAL_READ_BUFFER_LEN <= MAXIMUM_READ_BUFFER_LEN
BY ReadBoundsAssumption

\* A function on 1 .. n is a sequence of length n.
LEMMA FunctionIsSeq ==
  ASSUME NEW S, NEW n \in Nat, NEW f \in [1 .. n -> S]
  PROVE  f \in Seq(S) /\ Len(f) = n
<1>1. f \in Seq(S)
  BY SeqDef
<1>2. DOMAIN f = 1 .. n /\ DOMAIN f = 1 .. Len(f) /\ Len(f) \in Nat
  BY <1>1, LenProperties
<1> QED
  BY <1>1, <1>2

\* Uninitialized memory has its size.
LEMMA UninitializedFacts ==
  ASSUME NEW n \in Nat
  PROVE  Uninitialized(n) \in Bytes /\ Len(Uninitialized(n)) = n
<1>1. Uninitialized(n) \in [1 .. n -> Numbers \X Nat]
  BY BoundFacts DEF Uninitialized, Garbage, Numbers
<1> QED
  BY <1>1, FunctionIsSeq DEF Bytes

\* The part of a sequence from m to n.
LEMMA PartFacts ==
  ASSUME NEW S, NEW s \in Seq(S), NEW m \in Nat \ {0}, NEW n \in Int, n <= Len(s)
  PROVE  /\ SubSeq(s, m, n) \in Seq(S)
         /\ Len(SubSeq(s, m, n)) = IF m <= n THEN n - m + 1 ELSE 0
         /\ \A i \in 1 .. Len(SubSeq(s, m, n)) : SubSeq(s, m, n)[i] = s[m + i - 1]
<1>1. Len(s) \in Nat
  BY LenProperties
<1>2. \A i \in m .. n : s[i] \in S
  BY <1>1, ElementOfSeq
<1>3. /\ SubSeq(s, m, n) \in Seq(S)
      /\ Len(SubSeq(s, m, n)) = IF m <= n THEN n - m + 1 ELSE 0
      /\ \A i \in 1 .. n - m + 1 : SubSeq(s, m, n)[i] = s[m + i - 1]
  BY <1>2, SubSeqProperties
<1> QED
  BY <1>3

\* The bytes of the file.
LEMMA FileBytesFacts ==
  ASSUME ServerTypes, NEW from \in Nat, NEW to \in Nat, from <= to
  PROVE  /\ FileBytes(from, to) \in Bytes /\ Len(FileBytes(from, to)) = to - from
         /\ \A i \in 1 .. to - from : FileBytes(from, to)[i] = <<version, from + i - 1>>
<1>1. version \in Numbers
  BY BoundFacts DEF ServerTypes, Versions, Numbers
<1>2. FileBytes(from, to) \in [1 .. to - from -> Numbers \X Nat]
  BY <1>1 DEF FileBytes
<1>3. to - from \in Nat
  OBVIOUS
<1>4. /\ FileBytes(from, to) \in Bytes /\ Len(FileBytes(from, to)) = to - from
  BY <1>2, <1>3, FunctionIsSeq DEF Bytes
<1> QED
  BY <1>4 DEF FileBytes

\* A version of the file as a whole.
LEMMA WholeFacts ==
  ASSUME ServerTypes, NEW v \in Versions
  PROVE  /\ Whole(v) \in Bytes /\ Len(Whole(v)) = size[v]
         /\ \A i \in 1 .. size[v] : Whole(v)[i] = <<v, i - 1>>
<1>1. v \in Numbers /\ size[v] \in Nat
  BY BoundFacts DEF ServerTypes, Versions, Numbers
<1>2. Whole(v) \in [1 .. size[v] -> Numbers \X Nat]
  BY <1>1 DEF Whole
<1>3. Whole(v) \in Bytes /\ Len(Whole(v)) = size[v]
  BY <1>1, <1>2, FunctionIsSeq DEF Bytes
<1> QED
  BY <1>3 DEF Whole

\* The whole file, as it is now.
LEMMA WholeFileFacts ==
  ASSUME ServerTypes
  PROVE  /\ version \in Versions /\ version \in 1 .. version /\ size[version] \in Nat
         /\ WholeFile = Whole(version) /\ WholeFile \in Bytes
         /\ Len(WholeFile) = size[version]
<1>1. version \in Versions /\ version \in 1 .. version /\ size[version] \in Nat
  BY BoundFacts DEF ServerTypes, Versions
<1>2. WholeFile = [i \in 1 .. size[version] |-> <<version, 0 + i - 1>>]
  BY <1>1 DEF WholeFile, FileBytes
<1>3. WholeFile = Whole(version)
  BY <1>1, <1>2 DEF Whole
<1> QED
  BY <1>1, <1>3, WholeFacts

\* What a server that has a byte of the range answers.
LEMMA RangeBodyFacts ==
  ASSUME ServerTypes, NEW at \in Nat, NEW len \in Nat, ~Unsatisfiable(at)
  PROVE  /\ RangeBody(at, len) \in Bytes
         /\ server.ranges =>
              /\ Len(RangeBody(at, len)) <= len
              /\ at + Len(RangeBody(at, len)) <= size[version]
              /\ \A i \in 1 .. Len(RangeBody(at, len)) :
                   RangeBody(at, len)[i] = <<version, at + i - 1>>
         /\ ~server.ranges =>
              /\ Len(RangeBody(at, len)) = size[version]
              /\ \A i \in 1 .. Len(RangeBody(at, len)) :
                   RangeBody(at, len)[i] = <<version, i - 1>>
<1>1. size[version] \in Nat
  BY WholeFileFacts
<1>2. CASE server.ranges
  <2> DEFINE to == MinOf(at + len, size[version])
  <2>1. to \in Nat /\ at <= to /\ to <= at + len /\ to <= size[version]
    BY <1>1, <1>2 DEF MinOf, Unsatisfiable
  <2>2. RangeBody(at, len) = FileBytes(at, to)
    BY <1>2 DEF RangeBody
  <2> HIDE DEF to
  <2>3. /\ FileBytes(at, to) \in Bytes /\ Len(FileBytes(at, to)) = to - at
        /\ \A i \in 1 .. to - at : FileBytes(at, to)[i] = <<version, at + i - 1>>
    BY <2>1, FileBytesFacts
  <2> QED
    BY <1>1, <1>2, <2>1, <2>2, <2>3
<1>3. CASE ~server.ranges
  <2>1. RangeBody(at, len) = FileBytes(0, size[version])
    BY <1>3 DEF RangeBody
  <2>2. /\ FileBytes(0, size[version]) \in Bytes
        /\ Len(FileBytes(0, size[version])) = size[version]
        /\ \A i \in 1 .. size[version] : FileBytes(0, size[version])[i] = <<version, 0 + i - 1>>
    <3>1. 0 \in Nat /\ 0 <= size[version] /\ size[version] - 0 = size[version]
      BY <1>1
    <3> QED
      BY <1>1, <3>1, FileBytesFacts
  <2> QED
    BY <1>1, <1>3, <2>1, <2>2
<1> QED
  BY <1>2, <1>3

\* The part of a read that the window of the read buffer holds.
LEMMA FromWindowFacts ==
  ASSUME BufferTypes, CallTypes
  PROVE  /\ FromWindow \in Bytes /\ Len(FromWindow) \in 0 .. call.nr_bytes
         /\ \A i \in 1 .. Len(FromWindow) :
              /\ call.location - buffer_start + i \in 1 .. buffer_end - buffer_start
              /\ FromWindow[i] = read_buffer[call.location - buffer_start + i]
<1>1. call.location \in Nat /\ call.nr_bytes \in Nat /\ Len(read_buffer) \in Nat
  BY LenProperties DEF CallTypes, Calls, BufferTypes, Bytes
<1>2. CASE InWindow
  <2> DEFINE loc == call.location
             nr == call.nr_bytes
             m == loc - buffer_start + 1
             n == MinOf(buffer_end, loc + nr) - buffer_start
  <2>1. FromWindow = SubSeq(read_buffer, m, n)
    BY <1>2 DEF FromWindow
  <2>2. /\ loc \in Nat /\ nr \in Nat /\ loc >= buffer_start /\ loc < buffer_end
        /\ buffer_start \in Nat /\ buffer_end \in Nat
        /\ buffer_end - buffer_start \in 0 .. Len(read_buffer)
    BY <1>1, <1>2 DEF BufferTypes, InWindow
  <2> SUFFICES /\ FromWindow \in Bytes /\ Len(FromWindow) \in 0 .. nr
               /\ \A i \in 1 .. Len(FromWindow) :
                    /\ loc - buffer_start + i \in 1 .. buffer_end - buffer_start
                    /\ FromWindow[i] = read_buffer[loc - buffer_start + i]
    OBVIOUS
  <2> HIDE DEF loc, nr
  <2>3. m \in Int /\ m = loc - buffer_start + 1
    BY <2>2
  <2>4. n \in Int /\ n = MinOf(buffer_end, loc + nr) - buffer_start
    BY <2>2 DEF MinOf
  <2> HIDE DEF m, n
  <2>5. /\ m \in Nat \ {0} /\ n <= Len(read_buffer) /\ n - m + 1 \in 0 .. nr /\ m <= n + 1
        /\ \A i \in 1 .. n - m + 1 : /\ m + i - 1 = loc - buffer_start + i
                                     /\ loc - buffer_start + i \in 1 .. buffer_end - buffer_start
    <3>1. n <= buffer_end - buffer_start /\ n <= loc + nr - buffer_start /\ n >= loc - buffer_start
      BY <2>2, <2>4 DEF MinOf
    <3> HIDE DEF MinOf
    <3>2. m \in Nat /\ m >= 1
      BY <2>2, <2>3
    <3>3. n <= Len(read_buffer)
      BY <1>1, <2>2, <2>4, <3>1
    <3>4. m <= n + 1
      BY <2>2, <2>3, <2>4, <3>1
    <3>5. n + 1 <= m + nr
      BY <2>2, <2>3, <2>4, <3>1
    <3>6. m \in Nat \ {0} /\ n <= Len(read_buffer) /\ n - m + 1 \in 0 .. nr /\ m <= n + 1
      BY <2>2, <2>4, <3>2, <3>3, <3>4, <3>5
    <3>7. ASSUME NEW i \in 1 .. n - m + 1
          PROVE  /\ m + i - 1 = loc - buffer_start + i
                 /\ loc - buffer_start + i \in 1 .. buffer_end - buffer_start
      <4>1. i \in Int /\ 1 <= i /\ i <= n - m + 1
        BY <2>3, <2>4
      <4>2. m + i - 1 = loc - buffer_start + i
        BY <2>2, <2>3, <4>1
      <4>3. 1 <= loc - buffer_start + i
        BY <2>2, <4>1
      <4>4. loc - buffer_start + i <= buffer_end - buffer_start
        BY <2>2, <2>3, <2>4, <3>1, <4>1
      <4> QED
        BY <2>2, <4>1, <4>2, <4>3, <4>4
    <3> QED
      BY <3>6, <3>7
  <2>6. read_buffer \in Seq(Numbers \X Nat)
    BY DEF BufferTypes, Bytes
  <2>7. /\ SubSeq(read_buffer, m, n) \in Bytes
        /\ Len(SubSeq(read_buffer, m, n)) = IF m <= n THEN n - m + 1 ELSE 0
        /\ \A i \in 1 .. Len(SubSeq(read_buffer, m, n)) :
             SubSeq(read_buffer, m, n)[i] = read_buffer[m + i - 1]
    BY SMTT(30), <2>4, <2>5, <2>6, PartFacts DEF Bytes
  <2>8. Len(FromWindow) = n - m + 1
    BY <2>1, <2>3, <2>4, <2>5, <2>7
  <2> QED
    BY <2>1, <2>5, <2>7, <2>8
<1>3. CASE ~InWindow
  <2>1. FromWindow = <<>>
    BY <1>3 DEF FromWindow
  <2> QED
    BY <1>1, <2>1, EmptySeq DEF Bytes
<1> QED
  BY <1>2, <1>3

\* What memcpy leaves of the read buffer.
LEMMA OverwriteFacts ==
  ASSUME BufferTypes, NEW bytes \in Bytes, Overwrite(bytes),
         call.refill => Len(bytes) <= Len(read_buffer)
  PROVE  /\ read_buffer' \in Bytes /\ Len(read_buffer') = Len(read_buffer)
         /\ ~call.refill => read_buffer' = read_buffer
         /\ call.refill => \A i \in 1 .. Len(bytes) : read_buffer'[i] = bytes[i]
<1>1. CASE ~call.refill
  BY <1>1 DEF Overwrite, BufferTypes
<1>2. CASE call.refill
  <2> DEFINE m == Len(bytes) + 1
             n == Len(read_buffer)
             rest == SubSeq(read_buffer, m, n)
  <2>1. Len(bytes) \in Nat /\ n \in Nat /\ Len(bytes) <= n
    BY <1>2, LenProperties DEF BufferTypes, Bytes
  <2>2. rest \in Bytes /\ Len(rest) = n - Len(bytes)
    <3>1. m \in Nat \ {0} /\ n \in Int
      BY <2>1
    <3> HIDE DEF m
    <3>2. rest \in Bytes /\ Len(rest) = IF m <= n THEN n - m + 1 ELSE 0
      BY <3>1, PartFacts DEF BufferTypes, Bytes
    <3> QED
      BY <2>1, <3>2 DEF m
  <2>3. read_buffer' = bytes \o rest
    BY <1>2 DEF Overwrite
  <2> HIDE DEF rest
  <2>4. /\ bytes \o rest \in Bytes /\ Len(bytes \o rest) = Len(bytes) + Len(rest)
        /\ \A i \in 1 .. Len(bytes) + Len(rest) :
             (bytes \o rest)[i] = IF i <= Len(bytes) THEN bytes[i] ELSE rest[i - Len(bytes)]
    BY <2>2, ConcatProperties DEF Bytes
  <2> QED
    BY <1>2, <2>1, <2>2, <2>3, <2>4
<1> QED
  BY <1>1, <1>2

\* NoCall is a call, and an empty cached file a cached file.
LEMMA NothingFacts ==
  /\ <<>> \in Bytes /\ Len(<<>>) = 0 /\ 0 \in Numbers /\ 0 \in 0 .. Retries
  /\ NoCall \in Calls /\ ~NoCall.refill /\ NoCall.nr_bytes = 0 /\ NoCall.location = 0
  /\ NoCall.out = <<>>
  /\ NoEntry \in Entries /\ NoEntry.length = -1 /\ NoEntry.etag = 0 /\ NoEntry.last_modified = 0
  /\ NewCachedFile \in [data : Bytes, initialized : BOOLEAN]
  /\ ~NewCachedFile.initialized /\ NewCachedFile.data = <<>>
<1>1. <<>> \in Bytes /\ Len(<<>>) = 0
  BY EmptySeq DEF Bytes
<1>2. 0 \in Numbers /\ 0 \in 0 .. Retries
  BY BoundFacts DEF Numbers
<1> QED
  BY <1>1, <1>2 DEF NoCall, Calls, NoEntry, Entries, NewCachedFile

\* The handle is destroyed: everything of it has its initial value.
LEMMA DestroyedTypes ==
  ASSUME Types, DestroyHandle, ServerTypes', CacheTypes'
  PROVE  Types'
<1>1. HandleTypes'
  BY NothingFacts DEF DestroyHandle, HandleTypes, Pcs
<1>2. BufferTypes'
  <2>1. read_buffer' = <<>> /\ buffer_start' = 0 /\ buffer_end' = 0
    BY DEF DestroyHandle
  <2>2. Len(read_buffer') = 0 /\ read_buffer' \in Bytes /\ 0 <= 2 * MAXIMUM_READ_BUFFER_LEN
    BY <2>1, NothingFacts, BoundFacts
  <2> QED
    BY <2>1, <2>2 DEF BufferTypes
<1>3. ResultTypes'
  BY DEF DestroyHandle, ResultTypes
<1>4. CallTypes'
  BY NothingFacts DEF DestroyHandle, CallTypes
<1> QED
  BY <1>1, <1>2, <1>3, <1>4 DEF Types

\* The initial values have the types.
LEMMA TypesInit == Init => Types
<1> SUFFICES ASSUME Init PROVE Types
  OBVIOUS
<1>1. ServerTypes
  <2>1. situation \in DOMAIN Situations /\ server \in Servers /\ client \in Clients
    BY DEF Init
  <2>2. size \in [Versions -> Nat]
    BY <2>1, SituationFacts DEF Init
  <2> QED
    BY <2>1, <2>2, SituationFacts, BoundFacts DEF Init, ServerTypes, Versions
<1>2. CacheTypes
  BY NothingFacts DEF Init, CacheTypes
<1>3. HandleTypes /\ ResultTypes /\ CallTypes
  <2>1. HandleTypes
    BY NothingFacts DEF Init, FreshHandle, HandleTypes, Pcs
  <2>2. ResultTypes
    BY DEF Init, FreshHandle, ResultTypes
  <2>3. CallTypes
    BY NothingFacts DEF Init, FreshHandle, CallTypes
  <2> QED
    BY <2>1, <2>2, <2>3
<1>4. BufferTypes
  <2>1. read_buffer = <<>> /\ buffer_start = 0 /\ buffer_end = 0
    BY DEF Init, FreshHandle
  <2>2. Len(read_buffer) = 0 /\ read_buffer \in Bytes /\ 0 <= 2 * MAXIMUM_READ_BUFFER_LEN
    BY <2>1, NothingFacts, BoundFacts
  <2> QED
    BY <2>1, <2>2 DEF BufferTypes
<1> QED
  BY <1>1, <1>2, <1>3, <1>4 DEF Types

\* The server, the client and the situation stay, but for the version.
LEMMA ServerTypesStep ==
  ASSUME ServerTypes, UNCHANGED <<situation, serverVars, client>>
  PROVE  ServerTypes'
<1>1. Servers' = Servers /\ Clients' = Clients
  BY SituationFacts DEF serverVars
<1> QED
  BY <1>1 DEF ServerTypes, serverVars, Versions

\* What the handle knows of the file after LoadFileInfo, and a download or a
\* read buffer of the initial size.
LEMMA LoadedTypes ==
  ASSUME Types, Lines, Opening, NEW len \in Nat, NEW tag \in Numbers,
         NEW date \in Numbers,
         NEW force, NEW cached \in BOOLEAN, Loaded(len, tag, date, force, cached),
         UNCHANGED <<situation, serverVars, client, cached_file, restVars, tries, told>>
  PROVE  Types'
<1>1. ServerTypes'
  BY ServerTypesStep DEF Types
<1>2. HandleTypes'
  BY DEF Types, HandleTypes, Loaded, StartFullDownload, ReadyToRead, Pcs, restVars
<1>3. CacheTypes'
  BY DEF Types, CacheTypes, Loaded, StartFullDownload, ReadyToRead, Entries
<1>4. BufferTypes'
  <2>1. buffer_start' = 0 /\ buffer_end' = 0
    BY DEF Lines, restVars
  <2>2. \/ read_buffer' = read_buffer \/ read_buffer' = <<>>
        \/ read_buffer' = Uninitialized(INITIAL_READ_BUFFER_LEN)
    BY DEF Loaded, StartFullDownload, ReadyToRead
  <2>3. /\ read_buffer' \in Bytes /\ Len(read_buffer') \in Nat
        /\ Len(read_buffer') <= 2 * MAXIMUM_READ_BUFFER_LEN
    <3>1. CASE read_buffer' = read_buffer
      BY <3>1, LenProperties DEF Types, BufferTypes, Bytes
    <3>2. CASE read_buffer' = <<>>
      BY <3>2, NothingFacts, BoundFacts
    <3>3. CASE read_buffer' = Uninitialized(INITIAL_READ_BUFFER_LEN)
      BY <3>3, UninitializedFacts, BoundFacts
    <3> QED
      BY <2>2, <3>1, <3>2, <3>3
  <2> QED
    BY <2>1, <2>3 DEF BufferTypes
<1>5. ResultTypes'
  BY DEF Types, ResultTypes, restVars, resultVars
<1>6. CallTypes'
  <2>1. call' = NoCall /\ pc' # "range"
    BY DEF Lines, Loaded, StartFullDownload, ReadyToRead, restVars
  <2> QED
    BY <2>1, NothingFacts DEF CallTypes
<1> QED
  BY <1>1, <1>2, <1>3, <1>4, <1>5, <1>6 DEF Types

\* A Read that throws.
LEMMA ThrowTypes ==
  ASSUME Types, Throw, ServerTypes', CacheTypes', BufferTypes',
         UNCHANGED <<etag, last_modified>>, length' \in Nat, cached_file_handle' \in BOOLEAN,
         last_read' \in Nat \cup {-1}
  PROVE  Types'
<1>1. HandleTypes'
  BY NothingFacts DEF Types, HandleTypes, Throw, Pcs
<1>2. ResultTypes'
  BY DEF Types, ResultTypes, Throw
<1>3. CallTypes'
  BY NothingFacts DEF CallTypes, Throw
<1> QED
  BY <1>1, <1>2, <1>3 DEF Types

\* A Read that returns.
LEMMA DeliverTypes ==
  ASSUME Types, NEW bytes \in Bytes, Deliver(bytes), ServerTypes', CacheTypes',
         BufferTypes',
         UNCHANGED <<infoVars, cached_file_handle>>, last_read' \in Nat \cup {-1}
  PROVE  Types'
<1>1. HandleTypes'
  <2>1. call.location + call.nr_bytes \in Nat
    BY DEF Types, CallTypes, Calls
  <2> QED
    BY <2>1, NothingFacts DEF Types, HandleTypes, Deliver, Pcs, infoVars
<1>2. ResultTypes'
  <2>1. \A i \in 1 .. Len(bytes) : bytes[i][1] \in Numbers
    BY ElementOfSeq DEF Bytes
  <2>2. seen' \subseteq Numbers
    BY <2>1 DEF Types, ResultTypes, Deliver
  <2>3. misplaced' \in BOOLEAN
    BY DEF Types, ResultTypes, Deliver
  <2> QED
    BY <2>2, <2>3 DEF Types, ResultTypes, Deliver
<1>3. CallTypes'
  BY NothingFacts DEF CallTypes, Deliver
<1> QED
  BY <1>1, <1>2, <1>3 DEF Types

\* A request is repeated: nothing but the number of attempts changes, and bytes
\* that a buffer has.
LEMMA RetryTypes ==
  ASSUME Types, tries < Retries, tries' = tries + 1, ServerTypes', CacheTypes',
         BufferTypes',
         Len(read_buffer') = Len(read_buffer), length' \in Nat,
         UNCHANGED <<etag, last_modified, cached_file_handle, pc, file_offset, last_read,
                     call, resultVars>>
  PROVE  Types'
<1>1. HandleTypes'
  <2>1. tries' \in 0 .. Retries
    BY BoundFacts DEF Types, HandleTypes
  <2> QED
    BY <2>1 DEF Types, HandleTypes
<1>2. ResultTypes'
  BY DEF Types, ResultTypes, resultVars
<1>3. CallTypes'
  BY DEF Types, CallTypes
<1> QED
  BY <1>1, <1>2, <1>3 DEF Types

\* What the content handler makes of a chunk.
LEMMA ChunkFacts ==
  ASSUME length \in Nat, NEW data \in Bytes, NEW bytes \in Bytes
  PROVE  /\ Chunk(data, bytes) \in Bytes /\ LengthAfter(data, bytes) \in Nat
         /\ Len(Chunk(data, bytes)) = LengthAfter(data, bytes)
         /\ SubSeq(Chunk(data, bytes), 1, LengthAfter(data, bytes)) = Chunk(data, bytes)
<1>0. Len(bytes) \in Nat /\ Len(data) \in Nat
  BY LenProperties DEF Bytes
<1>1. /\ Chunk(data, bytes) \in Bytes /\ LengthAfter(data, bytes) \in Nat
      /\ Len(Chunk(data, bytes)) = LengthAfter(data, bytes)
  <2>1. CASE data = <<>>
    BY <1>0, <2>1 DEF Chunk, LengthAfter
  <2>2. CASE data # <<>>
    <3> DEFINE n == length + Len(bytes)
    <3>1. n \in Nat
      BY <1>0
    <3>2. ASSUME NEW i \in 1 .. n
          PROVE  (IF i > length THEN bytes[i - length]
                  ELSE IF i <= Len(data) THEN data[i] ELSE Garbage) \in Numbers \X Nat
      <4>1. CASE i > length
        <5>1. i - length \in 1 .. Len(bytes)
          BY <1>0, <4>1
        <5> QED
          BY <4>1, <5>1, ElementOfSeq DEF Bytes
      <4>2. CASE i <= length /\ i <= Len(data)
        <5>1. i \in 1 .. Len(data)
          BY <1>0, <4>2
        <5> QED
          BY <4>2, <5>1, ElementOfSeq DEF Bytes
      <4>3. CASE i <= length /\ ~(i <= Len(data))
        BY <4>3, NothingFacts DEF Garbage
      <4> QED
        BY <1>0, <4>1, <4>2, <4>3
    <3>3. Chunk(data, bytes) \in [1 .. n -> Numbers \X Nat]
      BY <2>2, <3>2 DEF Chunk
    <3> HIDE DEF n
    <3>4. Chunk(data, bytes) \in Bytes /\ Len(Chunk(data, bytes)) = n
      BY <3>1, <3>3, FunctionIsSeq DEF Bytes
    <3> QED
      BY <2>2, <3>1, <3>4 DEF LengthAfter, n
  <2> QED
    BY <2>1, <2>2
<1> QED
  BY <1>1, SubSeqFull DEF Bytes

\* Part of what the server sends of the whole file, or all of it.
LEMMA ReceivedFacts ==
  ASSUME NEW body \in Bytes, NEW bytes \in Received(body)
  PROVE  /\ bytes \in Bytes /\ Len(bytes) <= Len(body)
         /\ ~client.streaming => bytes = <<>>
<1>1. Len(body) \in Nat
  BY LenProperties DEF Bytes
<1>2. CASE client.streaming
  <2>1. PICK k \in 0 .. Len(body) : bytes = SubSeq(body, 1, k)
    BY <1>2 DEF Received
  <2>2. 1 \in Nat \ {0} /\ k \in Int /\ k <= Len(body)
    BY <1>1, <2>1
  <2>3. SubSeq(body, 1, k) \in Bytes /\ Len(SubSeq(body, 1, k)) = IF 1 <= k THEN k - 1 + 1 ELSE 0
    BY <2>2, PartFacts DEF Bytes
  <2> QED
    BY <1>1, <1>2, <2>1, <2>2, <2>3
<1>3. CASE ~client.streaming
  BY <1>1, <1>3, NothingFacts DEF Received
<1> QED
  BY <1>2, <1>3

\* Opening a handle.
LEMMA OpenTypes ==
  ASSUME Types, Lines, UNCHANGED situation, Open
  PROVE  Types'
<1>1. ServerTypes'
  BY ServerTypesStep DEF Open, Types
<1>2. CASE cached_file.initialized /\ metadata = NoEntry /\ ~client.force_download
  <2>1. Len(cached_file.data) \in Nat
    BY LenProperties DEF Types, CacheTypes, Bytes
  <2>2. Opening
    BY DEF Open, Opening
  <2>3. Loaded(Len(cached_file.data), 0, 0, FALSE, TRUE)
    BY <1>2 DEF Open
  <2>4. UNCHANGED <<situation, serverVars, client, cached_file, restVars, tries, told>>
    BY DEF Open
  <2> QED
    BY <2>1, <2>2, <2>3, <2>4, LoadedTypes, NothingFacts
<1>3. CASE ~(cached_file.initialized /\ metadata = NoEntry /\ ~client.force_download)
  <2>1. HandleTypes'
    <3>1. metadata # NoEntry => metadata.length \in Nat
      BY DEF Types, CacheTypes, Entries
    <3> QED
      BY <1>3, <3>1, NothingFacts
      DEF Types, HandleTypes, CacheTypes, Entries, Open, StartFullDownload, ReadyToRead, Pcs,
          infoVars, restVars
  <2>2. CacheTypes'
    BY <1>3 DEF Types, CacheTypes, Open, StartFullDownload, ReadyToRead
  <2>3. BufferTypes'
    <3>1. buffer_start' = 0 /\ buffer_end' = 0
      BY DEF Lines, Open, Opening, restVars
    <3>2. \/ read_buffer' = read_buffer \/ read_buffer' = <<>>
          \/ read_buffer' = Uninitialized(INITIAL_READ_BUFFER_LEN)
      BY <1>3 DEF Open, StartFullDownload, ReadyToRead
    <3>3. /\ read_buffer' \in Bytes /\ Len(read_buffer') \in Nat
          /\ Len(read_buffer') <= 2 * MAXIMUM_READ_BUFFER_LEN
      <4>1. CASE read_buffer' = read_buffer
        BY <4>1, LenProperties DEF Types, BufferTypes, Bytes
      <4>2. CASE read_buffer' = <<>>
        BY <4>2, NothingFacts, BoundFacts
      <4>3. CASE read_buffer' = Uninitialized(INITIAL_READ_BUFFER_LEN)
        BY <4>3, UninitializedFacts, BoundFacts
      <4> QED
        BY <3>2, <4>1, <4>2, <4>3
    <3> QED
      BY <3>1, <3>3 DEF BufferTypes
  <2>4. ResultTypes'
    BY DEF Types, ResultTypes, Open, restVars, resultVars
  <2>5. CallTypes'
    <3>1. call' = NoCall
      BY DEF Lines, Open, Opening, restVars
    <3>2. pc' # "range"
      BY <1>3 DEF Open, StartFullDownload, ReadyToRead
    <3> QED
      BY <3>1, <3>2, NothingFacts DEF CallTypes
  <2> QED
    BY <1>1, <2>1, <2>2, <2>3, <2>4, <2>5 DEF Types
<1> QED
  BY <1>2, <1>3

\* HEAD and the probe.
LEMMA HeadTypes ==
  ASSUME Types, Lines, UNCHANGED situation, HeadRequest \/ Probe
  PROVE  Types'
<1>1. ServerTypes' /\ Opening
  BY ServerTypesStep DEF HeadRequest, Probe, Types, Opening
<1>2. EtagOf \in Numbers /\ Date \in Numbers /\ size[version] \in Nat /\ ProbeLength \in Nat
  BY BoundFacts DEF Types, ServerTypes, Versions, Numbers, EtagOf, Date, ProbeLength
<1>3. CASE DestroyHandle /\ UNCHANGED <<metadata, serverVars, client, cached_file, opens, told>>
  <2>1. CacheTypes'
    BY <1>3 DEF Types, CacheTypes
  <2> QED
    BY <1>1, <1>3, <2>1, DestroyedTypes
<1>4. CASE /\ pc' = "probe"
           /\ UNCHANGED <<infoVars, metadata, cached_file_handle, read_buffer, restVars, tries,
                          serverVars, client, cached_file, opens, told>>
  <2>1. HandleTypes' /\ CacheTypes' /\ BufferTypes' /\ ResultTypes'
    BY <1>4
       DEF Types, HandleTypes, CacheTypes, BufferTypes, ResultTypes, infoVars, restVars,
                resultVars, Pcs
  <2>2. CallTypes'
    BY <1>4 DEF Types, CallTypes, restVars
  <2> QED
    BY <1>1, <2>1, <2>2 DEF Types
<1>5. CASE /\ \/ Loaded(IF server.lengths THEN size[version] ELSE 0, EtagOf, Date, FALSE, FALSE)
              \/ Loaded(ProbeLength, EtagOf, Date, FALSE, FALSE)
              \/ Loaded(0, 0, 0, TRUE, FALSE)
           /\ UNCHANGED <<restVars, tries, serverVars, client, cached_file, opens, told>>
  <2>1. (IF server.lengths THEN size[version] ELSE 0) \in Nat /\ 0 \in Nat
    BY <1>2
  <2>2. UNCHANGED <<situation, serverVars, client, cached_file, restVars, tries, told>>
    BY <1>5
  <2> QED
    BY <1>1, <1>2, <1>5, <2>1, <2>2, LoadedTypes, NothingFacts
<1> QED
  BY <1>3, <1>4, <1>5 DEF HeadRequest, Probe

\* The end of a handle, of a query, and of a version.
LEMMA EndTypes ==
  ASSUME Types, UNCHANGED situation, Rewrite \/ Close \/ QueryEnd
  PROVE  Types'
<1>1. CASE Rewrite
  <2>1. ServerTypes'
    <3>1. version' \in Versions' /\ Versions' = Versions
      BY <1>1, BoundFacts DEF Rewrite, Types, ServerTypes, Versions
    <3> QED
      BY <1>1, <3>1, SituationFacts DEF Rewrite, Types, ServerTypes
  <2>2. HandleTypes' /\ CacheTypes' /\ BufferTypes' /\ ResultTypes'
    BY <1>1
       DEF Rewrite, Types, HandleTypes, CacheTypes, BufferTypes, ResultTypes, infoVars,
                cacheVars, windowVars, resultVars
  <2>3. CallTypes'
    BY <1>1 DEF Rewrite, Types, CallTypes, windowVars
  <2> QED
    BY <2>1, <2>2, <2>3 DEF Types
<1>2. CASE Close
  <2>1. ServerTypes' /\ CacheTypes'
    BY <1>2, ServerTypesStep DEF Close, Types, CacheTypes
  <2> QED
    BY <1>2, <2>1, DestroyedTypes DEF Close
<1>3. CASE QueryEnd
  <2>1. ServerTypes'
    BY <1>3, ServerTypesStep DEF QueryEnd, Types
  <2>2. CacheTypes'
    BY <1>3, NothingFacts DEF QueryEnd, Types, CacheTypes
  <2>3. HandleTypes' /\ BufferTypes' /\ ResultTypes'
    BY <1>3 DEF QueryEnd, Types, HandleTypes, BufferTypes, ResultTypes, infoVars,
                restVars, resultVars
  <2>4. CallTypes'
    BY <1>3 DEF QueryEnd, Types, CallTypes, restVars
  <2> QED
    BY <2>1, <2>2, <2>3, <2>4 DEF Types
<1> QED
  BY <1>1, <1>2, <1>3

\* A full download, or a file that is there already.
LEMMA DownloadedTypes ==
  ASSUME Types, pc = "download", NEW data \in Bytes, Downloaded(data),
         UNCHANGED <<situation, serverVars, client, opens>>
  PROVE  Types'
<1>1. ServerTypes' /\ Len(data) \in Nat
  BY ServerTypesStep, LenProperties DEF Types, Bytes
<1>2. CacheTypes'
  <2>1. [data |-> data, initialized |-> TRUE] \in [data : Bytes, initialized : BOOLEAN]
    OBVIOUS
  <2> QED
    BY <2>1, NothingFacts DEF Types, CacheTypes, Downloaded
<1>3. BufferTypes'
  BY DEF Types, BufferTypes, Downloaded, windowVars
<1>4. CASE InRead /\ call.head_reported_length # Len(data)
  BY <1>1, <1>2, <1>3, <1>4, ThrowTypes DEF Downloaded, windowVars, Types, HandleTypes
<1>5. CASE ~(InRead /\ call.head_reported_length # Len(data))
  <2>1. HandleTypes'
    BY <1>1, <1>5, NothingFacts DEF Types, HandleTypes, Downloaded, windowVars, Pcs
  <2>2. ResultTypes'
    BY <1>5 DEF Types, ResultTypes, Downloaded, resultVars
  <2>3. CallTypes'
    BY <1>5 DEF Types, CallTypes, Downloaded, windowVars
  <2> QED
    BY <1>1, <1>2, <1>3, <2>1, <2>2, <2>3 DEF Types
<1> QED
  BY <1>4, <1>5

\* A full download that fails.
LEMMA DownloadThrowsTypes ==
  ASSUME Types, NEW len \in Nat, DownloadThrows(len), ServerTypes', CacheTypes'
  PROVE  Types'
<1>1. CASE InRead
  <2>1. BufferTypes'
    BY <1>1 DEF Types, BufferTypes, DownloadThrows, windowVars
  <2> QED
    BY <1>1, <2>1, ThrowTypes DEF DownloadThrows, windowVars, Types, HandleTypes
<1>2. CASE ~InRead
  BY <1>2, DestroyedTypes DEF DownloadThrows
<1> QED
  BY <1>1, <1>2

\* FullDownload.
LEMMA FullDownloadTypes ==
  ASSUME Types, UNCHANGED situation, FullDownload
  PROVE  Types'
<1>1. ServerTypes' /\ cached_file.data \in Bytes /\ length \in Nat
  BY ServerTypesStep DEF FullDownload, Types, CacheTypes, HandleTypes
<1>2. WholeFile \in Bytes
  BY WholeFileFacts DEF Types
<1>3. CASE cached_file.initialized
  BY <1>1, <1>3, DownloadedTypes DEF FullDownload
<1>4. CASE DownloadSucceeds
  BY <1>1, <1>2, <1>4, ChunkFacts, DownloadedTypes DEF FullDownload, DownloadSucceeds
<1>5. CASE DownloadBreaks
  <2>1. PICK bytes \in Received(WholeFile) :
          LET none == bytes = <<>>
              len  == IF none THEN length ELSE LengthAfter(cached_file.data, bytes)
          IN  /\ cached_file' = [cached_file EXCEPT !.data = IF none THEN @ ELSE Chunk(@, bytes)]
              /\ IF tries < Retries
                 THEN /\ tries' = tries + 1 /\ length' = len
                      /\ UNCHANGED <<pc, etag, last_modified, cached_file_handle,
                                     read_buffer, restVars>>
                 ELSE DownloadThrows(len)
    BY <1>5 DEF DownloadBreaks
  <2> DEFINE len == IF bytes = <<>> THEN length ELSE LengthAfter(cached_file.data, bytes)
  <2>2. bytes \in Bytes
    BY <1>2, ReceivedFacts
  <2>3. len \in Nat /\ Chunk(cached_file.data, bytes) \in Bytes
    BY <1>1, <2>2, ChunkFacts
  <2>4. CacheTypes'
    BY <1>1, <1>5, <2>1, <2>3 DEF Types, CacheTypes, DownloadBreaks
  <2> HIDE DEF len
  <2>5. CASE tries < Retries
    <3>1. /\ tries' = tries + 1 /\ length' = len
          /\ UNCHANGED <<pc, etag, last_modified, cached_file_handle, read_buffer, restVars>>
      BY <2>1, <2>5 DEF len
    <3>2. BufferTypes' /\ Len(read_buffer') = Len(read_buffer)
      BY <3>1 DEF Types, BufferTypes, restVars
    <3> QED
      BY <1>1, <2>3, <2>4, <2>5, <3>1, <3>2, RetryTypes DEF restVars
  <2>6. CASE ~(tries < Retries)
    <3>1. DownloadThrows(len)
      BY <2>1, <2>6 DEF len
    <3> QED
      BY <1>1, <2>3, <2>4, <3>1, DownloadThrowsTypes
  <2> QED
    BY <2>5, <2>6
<1>6. CASE DownloadRefused
  <2>1. CacheTypes'
    BY <1>6, NothingFacts
       DEF DownloadRefused, FileChanged, EraseEntry, Types, CacheTypes,
                              HandleTypes
  <2> QED
    BY <1>1, <1>6, <2>1, DownloadThrowsTypes DEF DownloadRefused
<1> QED
  BY <1>3, <1>4, <1>5, <1>6 DEF FullDownload

\* What may be asked for.
LEMMA ReadLengthFacts ==
  ASSUME situation \in DOMAIN Situations, NEW n \in ReadLengths
  PROVE  n \in Nat \ {0}
<1>1. PICK m \in Sizes : n \in 1 .. m
  BY DEF ReadLengths
<1>2. m \in Nat
  BY SituationFacts
<1> QED
  BY <1>1, <1>2

\* A call of Read.
LEMMA StartTypes ==
  ASSUME Types, UNCHANGED situation, NEW loc \in Nat, NEW n \in Nat, StartRead(loc, n),
         eof' \in Nat \cup {-1}
  PROVE  Types'
<1>1. ServerTypes'
  BY ServerTypesStep DEF StartRead, Types
<1>2. HandleTypes' /\ CacheTypes'
  BY DEF Types, HandleTypes, CacheTypes, StartRead, Pcs, infoVars, cacheVars, windowVars
<1>3. BufferTypes' /\ ResultTypes'
  BY DEF Types, BufferTypes, ResultTypes, StartRead, windowVars
<1>4. CallTypes'
  <2>1. call' \in Calls /\ ~call'.refill /\ pc' # "range"
    BY NothingFacts DEF StartRead, NoCall, Calls
  <2> QED
    BY <2>1 DEF CallTypes
<1> QED
  BY <1>1, <1>2, <1>3, <1>4 DEF Types

\* Read and Seek.
LEMMA ReadCallTypes ==
  ASSUME Types, UNCHANGED situation, CallRead \/ CallReadNext \/ Seek
  PROVE  Types'
<1>0. length \in Nat /\ file_offset \in Nat /\ eof \in Nat \cup {-1}
  BY DEF Types, HandleTypes, ResultTypes
<1>1. CASE CallRead
  <2>1. PICK loc \in 0 .. length : \E n \in 1 .. length - loc : StartRead(loc, n) /\ UNCHANGED eof
    BY <1>1 DEF CallRead
  <2>2. PICK n \in 1 .. length - loc : StartRead(loc, n) /\ UNCHANGED eof
    BY <2>1
  <2>3. loc \in Nat /\ n \in Nat
    BY <1>0
  <2> QED
    BY <1>0, <2>2, <2>3, StartTypes
<1>2. CASE CallReadNext
  <2>1. PICK n \in ReadLengths :
          LET max_read == IF file_offset <= length THEN length - file_offset ELSE n
              nr == MinOf(max_read, n)
          IN  /\ StartRead(file_offset, nr)
              /\ eof' = IF nr < n THEN file_offset + nr ELSE eof
    BY <1>2 DEF CallReadNext
  <2> DEFINE nr == MinOf(IF file_offset <= length THEN length - file_offset ELSE n, n)
  <2>2. nr \in Nat
    BY <1>0, ReadLengthFacts DEF MinOf, Types, ServerTypes
  <2>3. StartRead(file_offset, nr) /\ (eof' = file_offset + nr \/ eof' = eof)
    BY <2>1
  <2> HIDE DEF nr
  <2> QED
    BY <1>0, <2>2, <2>3, StartTypes
<1>3. CASE Seek
  <2>1. file_offset' \in Nat
    BY <1>0, <1>3 DEF Seek
  <2>2. ServerTypes' /\ HandleTypes' /\ CacheTypes'
    BY <1>3, <2>1, ServerTypesStep
       DEF Seek, Types, HandleTypes, CacheTypes, infoVars, cacheVars,
       windowVars
  <2>3. BufferTypes' /\ ResultTypes' /\ CallTypes'
    BY <1>3 DEF Seek, Types, BufferTypes, ResultTypes, CallTypes, windowVars, resultVars
  <2> QED
    BY <2>2, <2>3 DEF Types
<1> QED
  BY <1>1, <1>2, <1>3

\* The part of a read that is in a cached file.
LEMMA CachedPartFacts ==
  ASSUME Types, call.location + call.nr_bytes <= Len(cached_file.data)
  PROVE  LET part == SubSeq(cached_file.data, call.location + 1, call.location + call.nr_bytes)
         IN  /\ part \in Bytes /\ Len(part) = call.nr_bytes
             /\ \A i \in 1 .. call.nr_bytes : /\ part[i] = cached_file.data[call.location + i]
                                              /\ call.location + i \in 1 .. Len(cached_file.data)
<1> DEFINE data == cached_file.data
           loc == call.location
           nr == call.nr_bytes
           m == loc + 1
           n == loc + nr
           part == SubSeq(data, m, n)
<1>1. data \in Bytes /\ loc \in Nat /\ nr \in Nat
  BY DEF Types, CacheTypes, CallTypes, Calls
<1>2. Len(data) \in Nat /\ n <= Len(data)
  BY <1>1, LenProperties DEF Bytes
<1> SUFFICES /\ part \in Bytes /\ Len(part) = nr
             /\ \A i \in 1 .. nr : part[i] = data[loc + i] /\ loc + i \in 1 .. Len(data)
  OBVIOUS
<1> HIDE DEF data, loc, nr
<1>3. m \in Nat \ {0} /\ n \in Int /\ n - m + 1 = nr /\ (m <= n <=> nr > 0)
  BY <1>1
<1>4. \A i \in 1 .. nr : m + i - 1 = loc + i /\ loc + i \in 1 .. Len(data)
  BY <1>1, <1>2
<1> HIDE DEF m, n
<1>5. /\ part \in Bytes /\ Len(part) = IF m <= n THEN n - m + 1 ELSE 0
      /\ \A i \in 1 .. Len(part) : part[i] = data[m + i - 1]
  BY <1>1, <1>2, <1>3, PartFacts DEF Bytes
<1> HIDE DEF part
<1>6. Len(part) = nr
  BY <1>1, <1>3, <1>5
<1> QED
  BY <1>4, <1>5, <1>6

\* A Read from a full download.
LEMMA ReadCachedTypes ==
  ASSUME Types, UNCHANGED situation, ReadCached
  PROVE  Types'
<1>1. ServerTypes' /\ CacheTypes' /\ BufferTypes'
  BY ServerTypesStep
     DEF ReadCached, Types, CacheTypes, BufferTypes, cacheVars, windowVars
<1>2. /\ UNCHANGED <<infoVars, cached_file_handle, last_read, etag, last_modified, length>>
      /\ length \in Nat /\ cached_file_handle \in BOOLEAN /\ last_read \in Nat \cup {-1}
  BY DEF ReadCached, cacheVars, windowVars, infoVars, Types, HandleTypes
<1>3. CASE Throw
  BY <1>1, <1>2, <1>3, ThrowTypes
<1>4. CASE ~Throw
  <2>1. /\ call.location + call.nr_bytes <= Len(cached_file.data)
        /\ Deliver(SubSeq(cached_file.data, call.location + 1, call.location + call.nr_bytes))
    BY <1>4 DEF ReadCached
  <2> QED
    BY <1>1, <1>2, <2>1, CachedPartFacts, DeliverTypes
<1> QED
  BY <1>3, <1>4

\* A range is asked for.
LEMMA StartRangeTypes ==
  ASSUME Types, NEW copied \in Bytes, NEW at \in Nat, NEW len \in Nat,
         NEW refill \in BOOLEAN,
         StartRange(copied, at, len, refill),
         at = call.location + Len(copied), call.nr_bytes - Len(copied) \in 1 .. len,
         ServerTypes', BufferTypes', refill => len <= Len(read_buffer'),
         UNCHANGED <<infoVars, cacheVars, last_read, metadata, told>>
  PROVE  Types'
<1>1. HandleTypes' /\ CacheTypes' /\ ResultTypes'
  BY DEF Types, HandleTypes, CacheTypes, ResultTypes, StartRange, Pcs, infoVars,
     cacheVars,
         resultVars
<1>2. call' = [call EXCEPT !.out = copied, !.at = at, !.len = len, !.refill = refill]
  BY DEF StartRange
<1>3. /\ call' \in Calls /\ call'.out = copied /\ call'.at = at /\ call'.len = len
      /\ call'.refill = refill /\ call'.location = call.location /\ call'.nr_bytes = call.nr_bytes
  BY <1>2 DEF Types, CallTypes, Calls
<1>4. CallTypes'
  BY <1>3 DEF CallTypes
<1> QED
  BY <1>1, <1>4 DEF Types

\* A buffer is never smaller after AdaptReadBufferSize, nor too large.
LEMMA AdaptFacts ==
  ASSUME BufferTypes, NEW start
  PROVE  /\ AdaptReadBufferSize(start) \in Bytes
         /\ Len(read_buffer) <= Len(AdaptReadBufferSize(start))
         /\ Len(AdaptReadBufferSize(start)) \in Nat
         /\ Len(AdaptReadBufferSize(start)) <= 2 * MAXIMUM_READ_BUFFER_LEN
<1>1. Len(read_buffer) \in Nat /\ 2 * Len(read_buffer) \in Nat
  BY LenProperties DEF BufferTypes, Bytes
<1>2. CASE last_read = start /\ Len(read_buffer) < MAXIMUM_READ_BUFFER_LEN
  <2>1. AdaptReadBufferSize(start) = Uninitialized(2 * Len(read_buffer))
    BY <1>2 DEF AdaptReadBufferSize
  <2>2. /\ Uninitialized(2 * Len(read_buffer)) \in Bytes
        /\ Len(Uninitialized(2 * Len(read_buffer))) = 2 * Len(read_buffer)
    BY <1>1, UninitializedFacts
  <2> QED
    BY <1>1, <1>2, <2>1, <2>2, BoundFacts
<1>3. CASE ~(last_read = start /\ Len(read_buffer) < MAXIMUM_READ_BUFFER_LEN)
  BY <1>1, <1>3 DEF AdaptReadBufferSize, BufferTypes
<1> QED
  BY <1>2, <1>3

\* Where the rest of a read begins, and how long it is.
LEMMA RestFacts ==
  ASSUME Types
  PROVE  LET start   == call.location + Len(FromWindow)
             to_read == call.nr_bytes - Len(FromWindow)
         IN  /\ start \in Nat /\ to_read \in Nat /\ start + to_read = call.location + call.nr_bytes
             /\ to_read = 0 => Len(FromWindow) = call.nr_bytes
<1>1. Len(FromWindow) \in 0 .. call.nr_bytes /\ call.location \in Nat /\ call.nr_bytes \in Nat
  BY FromWindowFacts DEF Types, CallTypes, Calls
<1> QED
  BY <1>1

\* How far the buffer is refilled.
LEMMA AvailableFacts ==
  ASSUME Types, NEW start \in Nat, NEW to_read \in Nat, to_read # 0,
         NEW room \in Nat, Len(read_buffer) <= room,
         to_read <= Available(Len(read_buffer), start)
  PROVE  /\ Available(room, start) \in Nat /\ to_read \in 1 .. Available(room, start)
         /\ Available(room, start) <= room
         /\ start <= length => start + Available(room, start) <= length
<1>1. Len(read_buffer) \in Nat /\ length \in Nat
  BY LenProperties DEF Types, BufferTypes, HandleTypes, Bytes
<1>2. CASE start <= length
  BY <1>1, <1>2 DEF Available, MinOf
<1>3. CASE ~(start <= length)
  BY <1>1, <1>3 DEF Available
<1> QED
  BY <1>2, <1>3

\* A Read that asks for what it needs.
LEMMA ReadDirectTypes ==
  ASSUME Types, UNCHANGED situation, ReadDirect
  PROVE  Types'
<1>1. ServerTypes' /\ BufferTypes'
  BY ServerTypesStep DEF ReadDirect, Types, BufferTypes, windowVars
<1>2. /\ call.location \in Nat /\ call.nr_bytes \in Nat
      /\ call.location = call.location + Len(<<>>)
      /\ call.nr_bytes - Len(<<>>) \in 1 .. call.nr_bytes
  BY NothingFacts DEF Types, CallTypes, Calls, ReadDirect
<1>3. UNCHANGED <<infoVars, cacheVars, last_read, metadata, told>>
  BY DEF ReadDirect, windowVars
<1>4. StartRange(<<>>, call.location, call.nr_bytes, FALSE)
  BY DEF ReadDirect
<1> QED
  BY <1>1, <1>2, <1>3, <1>4, StartRangeTypes, NothingFacts

\* A Read through the buffer.
LEMMA ReadBufferedTypes ==
  ASSUME Types, UNCHANGED situation, ReadBuffered
  PROVE  Types'
<1> DEFINE start == call.location + Len(FromWindow)
           to_read == call.nr_bytes - Len(FromWindow)
<1>1. /\ ServerTypes' /\ CacheTypes' /\ FromWindow \in Bytes
      /\ UNCHANGED <<infoVars, cacheVars, cached_file_handle, metadata, told, buffer_start,
                     buffer_end, last_read>>
      /\ last_read' \in Nat \cup {-1}
  BY ServerTypesStep, FromWindowFacts
  DEF ReadBuffered, Types, CacheTypes, HandleTypes, cacheVars
<1>2. /\ start \in Nat /\ to_read \in Nat /\ Len(FromWindow) \in Nat
  BY RestFacts, FromWindowFacts DEF Types, CallTypes, Calls
<1>3. CASE to_read = 0
  <2>1. Deliver(FromWindow) /\ UNCHANGED read_buffer
    BY <1>3 DEF ReadBuffered
  <2>2. BufferTypes'
    BY <1>1, <2>1 DEF Types, BufferTypes
  <2> QED
    BY <1>1, <2>1, <2>2, DeliverTypes
<1>4. CASE to_read # 0 /\ to_read > Available(Len(read_buffer), start)
  <2>1. StartRange(FromWindow, start, to_read, FALSE) /\ UNCHANGED read_buffer
    BY <1>4 DEF ReadBuffered
  <2>2. BufferTypes'
    BY <1>1, <2>1 DEF Types, BufferTypes
  <2>3. to_read \in 1 .. to_read
    BY <1>2, <1>4
  <2> QED
    BY <1>1, <1>2, <2>1, <2>2, <2>3, StartRangeTypes
<1>5. CASE to_read # 0 /\ ~(to_read > Available(Len(read_buffer), start))
  <2> DEFINE len == Available(Len(read_buffer'), start)
  <2>1. read_buffer' = AdaptReadBufferSize(start) /\ StartRange(FromWindow, start, len, TRUE)
    BY <1>5 DEF ReadBuffered
  <2>2. /\ read_buffer' \in Bytes /\ Len(read_buffer') \in Nat
        /\ Len(read_buffer) <= Len(read_buffer')
        /\ Len(read_buffer') <= 2 * MAXIMUM_READ_BUFFER_LEN
    BY <2>1, AdaptFacts DEF Types
  <2>3. BufferTypes'
    <3>1. Len(read_buffer) \in Nat
      BY LenProperties DEF Types, BufferTypes, Bytes
    <3> QED
      BY <1>1, <2>2, <3>1 DEF Types, BufferTypes
  <2>4. to_read <= Available(Len(read_buffer), start)
    <3>1. Available(Len(read_buffer), start) \in Int
      BY <1>2, LenProperties
      DEF Types, BufferTypes, HandleTypes, Bytes, Available, MinOf
    <3> QED
      BY <1>2, <1>5, <3>1
  <2> HIDE DEF start, to_read
  <2>5. len \in Nat /\ to_read \in 1 .. len /\ len <= Len(read_buffer')
    BY <1>2, <1>5, <2>2, <2>4, AvailableFacts
  <2>6. start = call.location + Len(FromWindow) /\ to_read = call.nr_bytes - Len(FromWindow)
    BY DEF start, to_read
  <2> HIDE DEF len
  <2> QED
    BY <1>1, <1>2, <2>1, <2>3, <2>5, <2>6, StartRangeTypes
<1> QED
  BY <1>3, <1>4, <1>5

\* A range that is answered as asked for: the bytes are those of the read.
LEMMA AnswerFacts ==
  ASSUME Types, pc = "range", Accepted(call.at, call.len)
  PROVE  /\ Body \in Bytes /\ Len(Body) \in Nat /\ ~Unsatisfiable(call.at)
         /\ call.at \in Nat /\ call.len \in Nat
<1>1. call.at \in Nat /\ call.len \in Nat /\ ~Unsatisfiable(call.at)
  BY DEF Types, CallTypes, Calls, Accepted
<1>2. Body \in Bytes
  BY <1>1, RangeBodyFacts DEF Body, Types
<1> QED
  BY <1>1, <1>2, LenProperties DEF Bytes

LEMMA AnsweredRead ==
  ASSUME Types, pc = "range", Accepted(call.at, call.len), Len(Body) = call.len
  PROVE  LET rest  == SubSeq(Body, 1, call.nr_bytes - Len(call.out))
             bytes == call.out \o rest
         IN  /\ bytes \in Bytes /\ Len(bytes) = call.nr_bytes
             /\ \A i \in 1 .. Len(bytes) :
                  \/ i \in 1 .. Len(call.out) /\ bytes[i] = call.out[i]
                  \/ /\ i - Len(call.out) \in 1 .. Len(Body)
                     /\ bytes[i] = Body[i - Len(call.out)]
<1> DEFINE out == call.out
           k == Len(call.out)
           n == call.nr_bytes - k
           rest == SubSeq(Body, 1, n)
<1>1. /\ out \in Bytes /\ k = Len(out) /\ k \in Nat /\ call.nr_bytes \in Nat /\ call.len \in Nat
      /\ n \in 1 .. call.len /\ Body \in Bytes
  BY AnswerFacts, LenProperties DEF Types, CallTypes, Calls, Bytes
<1>2. 1 \in Nat \ {0} /\ n \in Int /\ n <= Len(Body) /\ 1 <= n /\ n - 1 + 1 = n
  BY <1>1
<1>3. k + n = call.nr_bytes
  BY <1>1
<1> HIDE DEF n, k
<1>4. /\ rest \in Bytes /\ Len(rest) = n
      /\ \A i \in 1 .. Len(rest) : rest[i] = Body[1 + i - 1]
  BY <1>1, <1>2, PartFacts DEF Bytes
<1> HIDE DEF rest
<1>out. /\ out \in Seq(Numbers \X Nat) /\ rest \in Seq(Numbers \X Nat)
        /\ Len(out) = k /\ Len(rest) = n
  BY <1>1, <1>4 DEF Bytes
<1> HIDE DEF out
<1>cat. /\ out \o rest \in Seq(Numbers \X Nat) /\ Len(out \o rest) = Len(out) + Len(rest)
        /\ \A i \in 1 .. Len(out) + Len(rest) :
             (out \o rest)[i] = IF i <= Len(out) THEN out[i] ELSE rest[i - Len(out)]
  BY <1>out, ConcatProperties
<1>5. /\ out \o rest \in Bytes /\ Len(out \o rest) = k + n
      /\ \A i \in 1 .. k + n : (out \o rest)[i] = IF i <= k THEN out[i] ELSE rest[i - k]
  BY <1>out, <1>cat DEF Bytes
<1>6. ASSUME NEW i \in 1 .. k + n
      PROVE  \/ i \in 1 .. k /\ (out \o rest)[i] = out[i]
             \/ i - k \in 1 .. Len(Body) /\ (out \o rest)[i] = Body[i - k]
  <2>1. CASE i <= k
    BY <1>1, <1>5, <2>1
  <2>2. CASE ~(i <= k)
    <3>1. i - k \in 1 .. n /\ i - k \in 1 .. Len(Body) /\ 1 + (i - k) - 1 = i - k
      BY <1>1, <1>2, <2>2
    <3>2. rest[i - k] = Body[i - k]
      BY <1>4, <3>1
    <3> QED
      BY <1>5, <2>2, <3>1, <3>2
  <2> QED
    BY <2>1, <2>2
<1> QED
  BY <1>3, <1>5, <1>6 DEF n, k, rest, out

\* The entry is dropped, and the caller told or not.
LEMMA ErasedTypes ==
  ASSUME Types, UNCHANGED cached_file,
         \/ EraseEntry /\ UNCHANGED told
         \/ FileChanged
         \/ UNCHANGED <<metadata, told>>
  PROVE  CacheTypes'
<1>1. metadata' \in Entries /\ (metadata'.length = -1 => metadata' = NoEntry)
  BY NothingFacts DEF Types, CacheTypes, EraseEntry, FileChanged
<1>2. told' \subseteq Numbers \X Numbers
  BY DEF Types, CacheTypes, HandleTypes, FileChanged
<1> QED
  BY <1>1, <1>2 DEF Types, CacheTypes

\* What a range that does not succeed leaves in the buffer.
LEMMA SpoilingBytes ==
  ASSUME Types, pc = "range", RangeBreaks \/ RangeShort
  PROVE  \E bytes \in Bytes : Overwrite(bytes) /\ (call.refill => Len(bytes) <= Len(read_buffer))
<1>0. call.len \in Nat /\ (call.refill => call.len <= Len(read_buffer))
  BY DEF Types, CallTypes, Calls
<1>1. CASE RangeShort
  <2>1. Overwrite(Body) /\ Len(Body) < call.len /\ Body \in Bytes /\ Len(Body) \in Nat
    BY <1>1, AnswerFacts DEF RangeShort
  <2>2. Len(read_buffer) \in Nat
    BY LenProperties DEF Types, BufferTypes, Bytes
  <2> QED
    BY <1>0, <2>1, <2>2
<1>2. CASE RangeBreaks /\ Accepted(call.at, call.len)
  <2> DEFINE n == MinOf(Len(Body), call.len)
  <2>1. PICK bytes \in Received(SubSeq(Body, 1, n)) : Overwrite(bytes)
    BY <1>2 DEF RangeBreaks
  <2>2. Body \in Bytes /\ Len(Body) \in Nat
    BY <1>2, AnswerFacts
  <2>3. n \in Nat /\ n <= Len(Body) /\ n <= call.len /\ 1 \in Nat \ {0} /\ n \in Int
    BY <1>0, <2>2 DEF MinOf
  <2> HIDE DEF n
  <2> DEFINE part == SubSeq(Body, 1, n)
  <2>4. part \in Bytes /\ Len(part) = IF 1 <= n THEN n - 1 + 1 ELSE 0
    BY <2>2, <2>3, PartFacts DEF Bytes
  <2> HIDE DEF part
  <2>5. Len(part) <= call.len
    BY <1>0, <2>3, <2>4
  <2>6. bytes \in Bytes /\ Len(bytes) <= Len(part)
    BY <2>1, <2>4, ReceivedFacts DEF part
  <2>7. Len(bytes) \in Nat /\ Len(part) \in Nat /\ Len(read_buffer) \in Nat
    BY <2>4, <2>6, LenProperties DEF Types, BufferTypes, Bytes
  <2>8. call.refill => Len(bytes) <= Len(read_buffer)
    BY <1>0, <2>5, <2>6, <2>7
  <2> QED
    BY <2>1, <2>6, <2>8
<1>3. CASE RangeBreaks /\ ~Accepted(call.at, call.len)
  <2>1. Overwrite(<<>>)
    BY <1>3 DEF RangeBreaks
  <2>2. Len(read_buffer) \in Nat
    BY LenProperties DEF Types, BufferTypes, Bytes
  <2>3. <<>> \in Bytes /\ Len(<<>>) <= Len(read_buffer)
    BY <2>2, NothingFacts
  <2> QED
    BY <2>1, <2>3
<1> QED
  BY <1>1, <1>2, <1>3

\* The answer to a range request.
LEMMA RangeTypes ==
  ASSUME Types, UNCHANGED situation, TryRangeRequest
  PROVE  Types'
<1>1. /\ ServerTypes' /\ pc = "range"
      /\ UNCHANGED <<infoVars, cached_file, length, etag, last_modified>>
  BY ServerTypesStep DEF TryRangeRequest, Types, infoVars
<1>2. /\ length' \in Nat /\ last_read \in Nat \cup {-1} /\ cached_file_handle \in BOOLEAN
      /\ call.at \in Nat /\ call.len \in Nat
      /\ call.refill => call.len <= Len(read_buffer)
  BY <1>1 DEF Types, HandleTypes, CallTypes, Calls
<1>3. CASE RangeSucceeds
  <2>1. /\ Accepted(call.at, call.len) /\ Len(Body) = call.len /\ Overwrite(Body)
        /\ UNCHANGED <<metadata, told, cached_file_handle>>
        /\ last_read' = call.at + call.len
        /\ Deliver(call.out \o SubSeq(Body, 1, call.nr_bytes - Len(call.out)))
        /\ IF call.refill
           THEN buffer_start' = call.at /\ buffer_end' = call.at + call.len
           ELSE UNCHANGED <<buffer_start, buffer_end>>
    BY <1>3 DEF RangeSucceeds
  <2>2. CacheTypes'
    BY <1>1, <2>1 DEF Types, CacheTypes
  <2>3. read_buffer' \in Bytes /\ Len(read_buffer') = Len(read_buffer)
    BY <1>1, <1>2, <2>1, AnswerFacts, OverwriteFacts DEF Types
  <2>4. BufferTypes'
    <3>1. CASE call.refill
      BY <1>2, <2>1, <2>3, <3>1 DEF Types, BufferTypes
    <3>2. CASE ~call.refill
      BY <2>1, <2>3, <3>2 DEF Types, BufferTypes
    <3> QED
      BY <3>1, <3>2
  <2>5. last_read' \in Nat \cup {-1} /\ UNCHANGED <<infoVars, cached_file_handle>>
    BY <1>1, <1>2, <2>1
  <2>6. call.out \o SubSeq(Body, 1, call.nr_bytes - Len(call.out)) \in Bytes
    BY <1>1, <2>1, AnsweredRead
  <2> QED
    BY <1>1, <2>1, <2>2, <2>4, <2>5, <2>6, DeliverTypes
<1>4. CASE RangeBreaks \/ RangeShort
  <2>1. PICK bytes \in Bytes : Overwrite(bytes) /\ (call.refill => Len(bytes) <= Len(read_buffer))
    BY <1>1, <1>4, SpoilingBytes
  <2>2. read_buffer' \in Bytes /\ Len(read_buffer') = Len(read_buffer)
    BY <2>1, OverwriteFacts DEF Types
  <2>3. UNCHANGED <<buffer_start, buffer_end, last_read, metadata, told, cached_file_handle>>
    BY <1>4 DEF RangeBreaks, RangeShort
  <2>4. CacheTypes' /\ BufferTypes'
    BY <1>1, <2>2, <2>3 DEF Types, CacheTypes, BufferTypes
  <2>5. CASE Throw
    BY <1>1, <1>2, <2>3, <2>4, <2>5, ThrowTypes
  <2>6. CASE ~Throw
    <3>1. tries < Retries /\ tries' = tries + 1 /\ UNCHANGED <<pc, call, file_offset, resultVars>>
      BY <1>4, <2>6 DEF RangeBreaks, RangeShort
    <3> QED
      BY <1>1, <1>2, <2>2, <2>3, <2>4, <3>1, RetryTypes
  <2> QED
    BY <2>5, <2>6
<1>5. CASE RangeChanged \/ RangeRefused
  <2>1. CacheTypes'
    BY <1>1, <1>5, ErasedTypes DEF RangeChanged, RangeRefused
  <2>2. UNCHANGED <<windowVars, read_buffer, last_read, cached_file_handle>>
    BY <1>5 DEF RangeChanged, RangeRefused, windowVars
  <2>3. BufferTypes'
    BY <2>2 DEF Types, BufferTypes, windowVars
  <2>4. CASE Throw
    BY <1>1, <1>2, <2>1, <2>2, <2>3, <2>4, ThrowTypes
  <2>5. CASE ~Throw
    <3>1. tries < Retries /\ tries' = tries + 1 /\ UNCHANGED <<pc, call, file_offset, resultVars>>
      BY <1>5, <2>5 DEF RangeChanged, RangeRefused
    <3> QED
      BY <1>1, <1>2, <2>1, <2>2, <2>3, <3>1, RetryTypes
  <2> QED
    BY <2>4, <2>5
<1>6. CASE RangeFallsBack
  <2>1. HandleTypes' /\ CacheTypes' /\ BufferTypes' /\ ResultTypes'
    BY <1>1, <1>6, NothingFacts
       DEF RangeFallsBack, Types, HandleTypes, CacheTypes, BufferTypes,
       ResultTypes, windowVars, resultVars, Pcs
  <2>2. call' \in Calls /\ call'.refill = call.refill /\ call'.len = call.len
    BY <1>6 DEF RangeFallsBack, Types, HandleTypes, CallTypes, Calls
  <2>3. CallTypes'
    BY <1>2, <1>6, <2>2 DEF RangeFallsBack, CallTypes, windowVars
  <2> QED
    BY <1>1, <2>1, <2>3 DEF Types
<1> QED
  BY <1>3, <1>4, <1>5, <1>6 DEF TryRangeRequest

\* Every step keeps the types.
LEMMA TypesStep ==
  ASSUME Types, Lines, [Next]_<<vars, situation>>
  PROVE  Types'
<1>1. CASE UNCHANGED <<vars, situation>>
  <2>1. ServerTypes' /\ HandleTypes' /\ CacheTypes' /\ BufferTypes' /\ ResultTypes' /\ CallTypes'
    BY <1>1, ServerTypesStep
    DEF Types, HandleTypes, CacheTypes, BufferTypes, ResultTypes, CallTypes, vars, infoVars,
        cacheVars, windowVars, resultVars
  <2> QED
    BY <2>1 DEF Types
<1>2. CASE Next
  BY <1>2, OpenTypes, HeadTypes, EndTypes, FullDownloadTypes, ReadCallTypes,
     ReadCachedTypes,
     ReadDirectTypes, ReadBufferedTypes, RangeTypes DEF Next
<1> QED
  BY <1>1, <1>2

\* Every step keeps what holds of a handle that is opened, closed or idle.
LEMMA LinesStep ==
  ASSUME Types, Lines, [Next]_<<vars, situation>>
  PROVE  Lines'
<1> USE DEF Lines, Opening, InRead
<1>1. CASE UNCHANGED <<vars, situation>>
  BY <1>1 DEF vars, infoVars, cacheVars, windowVars, resultVars
<1>2. CASE DestroyHandle /\ UNCHANGED client /\ (metadata' = metadata \/ metadata' = NoEntry)
  BY <1>2, NothingFacts DEF DestroyHandle
<1>3. CASE Rewrite \/ QueryEnd
  BY <1>3 DEF Rewrite, QueryEnd, infoVars, cacheVars, windowVars, resultVars, restVars
<1>4. CASE Open
  BY <1>4, NothingFacts
  DEF Open, Loaded, StartFullDownload, ReadyToRead, infoVars, resultVars, restVars
<1>5. CASE HeadRequest \/ Probe
  <2>1. CASE DestroyHandle /\ UNCHANGED metadata
    BY <1>2, <1>5, <2>1 DEF HeadRequest, Probe
  <2>2. CASE ~(DestroyHandle /\ UNCHANGED metadata)
    <3>1. /\ UNCHANGED <<restVars, client>> /\ pc' \in {"probe", "idle", "download"}
          /\ pc \in {"head", "probe"}
      BY <1>5, <2>2 DEF HeadRequest, Probe, Loaded, StartFullDownload, ReadyToRead
    <3> QED
      BY <3>1, NothingFacts DEF resultVars, restVars
  <2> QED
    BY <2>1, <2>2
<1>6. CASE Close
  BY <1>2, <1>6 DEF Close
<1>7. CASE FullDownload
  <2>1. pc = "download" /\ UNCHANGED client /\ (metadata' = metadata \/ metadata' = NoEntry)
    BY <1>7
       DEF FullDownload, Downloaded, DownloadSucceeds, DownloadBreaks, DownloadRefused,
                FileChanged, EraseEntry
  <2>2. CASE DestroyHandle
    BY <1>2, <2>1, <2>2
  <2>3. CASE ~DestroyHandle
    <3>1. \/ pc' = "idle" /\ InRead /\ call' = NoCall
          \/ pc' = "read" /\ InRead
          \/ pc' = "idle" /\ ~InRead /\ call' = call
          \/ pc' = pc /\ UNCHANGED restVars
      BY <1>7, <2>3
      DEF FullDownload, Downloaded, DownloadSucceeds, DownloadBreaks, DownloadRefused,
          DownloadThrows, Throw, restVars
    <3> QED
      BY <2>1, <3>1, NothingFacts DEF restVars, resultVars
  <2> QED
    BY <2>2, <2>3
<1>8. CASE CallRead \/ CallReadNext \/ Seek
  BY <1>8 DEF CallRead, CallReadNext, Seek, StartRead
<1>9. CASE ReadCached \/ ReadDirect \/ ReadBuffered
  BY <1>9, NothingFacts
  DEF ReadCached, ReadDirect, ReadBuffered, Deliver, Throw, StartRange
<1>10. CASE TryRangeRequest
  <2>1. /\ pc = "range" /\ UNCHANGED client /\ (metadata' = metadata \/ metadata' = NoEntry)
        /\ call.nr_bytes > 0
    <3>1. call.nr_bytes > 0
      <4>1. call.nr_bytes - Len(call.out) >= 1 /\ Len(call.out) \in Nat /\ call.nr_bytes \in Nat
        BY <1>10, LenProperties DEF TryRangeRequest, Types, CallTypes, Calls, Bytes
      <4> QED
        BY <4>1
    <3> QED
      BY <1>10, <3>1
         DEF TryRangeRequest, RangeSucceeds, RangeBreaks, RangeShort, RangeChanged,
         RangeRefused, RangeFallsBack, FileChanged, EraseEntry
  <2>2. \/ pc' = "idle" /\ call' = NoCall
        \/ pc' = "range" /\ call' = call
        \/ pc' = "download" /\ call'.nr_bytes = call.nr_bytes
    BY <1>10
    DEF TryRangeRequest, RangeSucceeds, RangeBreaks, RangeShort, RangeChanged,
        RangeRefused, RangeFallsBack, Deliver, Throw, Types, CallTypes, Calls
  <2> QED
    BY <2>1, <2>2, NothingFacts
<1> QED
  BY <1>1, <1>3, <1>4, <1>5, <1>6, <1>7, <1>8, <1>9, <1>10 DEF Next

\* A version that is no longer that of the file.
Old(tag, date) == (tag # 0 /\ tag < version) \/ (date # 0 /\ date < version)

\* Who is told that a file has changed knew a version that is old.
LEMMA ChangedIsOld ==
  ASSUME Types, Told, PreconditionFails \/ EtagDiffers
  PROVE  Old(etag, last_modified)
<1>1. etag = 0 \/ (etag \in 1 .. version /\ server.etag # "none")
  <2>1. etag = 0 \/ \E v \in 1 .. version : etag = TagAt(v)
    BY DEF Told, Validators, Tags
  <2> QED
    BY <2>1 DEF TagAt
<1>2. last_modified = 0 \/ (last_modified \in 1 .. version /\ server.dates)
  <2>1. last_modified = 0 \/ \E v \in 1 .. version : last_modified = DateAt(v)
    BY DEF Told, Validators, Dates
  <2> QED
    BY <2>1 DEF DateAt
<1> QED
  BY <1>1, <1>2
     DEF PreconditionFails, EtagDiffers, EtagOf, Date, Types, ServerTypes, Versions, Old

\* What a handle learns from the server is not told as changed, neither is nothing.
LEMMA CurrentIsNotTold ==
  ASSUME Types, Told
  PROVE  /\ <<EtagOf, Date>> \notin told /\ <<0, 0>> \notin told
         /\ EtagOf \in Tags /\ Date \in Dates /\ 0 \in Tags /\ 0 \in Dates
<1>1. version \in 1 .. version
  BY DEF Types, ServerTypes, Versions
<1>2. EtagOf \in Tags /\ Date \in Dates /\ 0 \in Tags /\ 0 \in Dates
  BY <1>1 DEF Tags, Dates, TagAt, DateAt, EtagOf, Date
<1>3. EtagOf \in {0, version} /\ Date \in {0, version}
  BY DEF EtagOf, Date
<1> QED
  BY <1>1, <1>2, <1>3 DEF Told, ToldAreOld

\* The handle is destroyed, or something is learnt, or a file is told as changed.
LEMMA ToldKept ==
  ASSUME Types, Told, UNCHANGED <<version, server, client>>,
         \/ UNCHANGED <<etag, last_modified>>
         \/ etag' = 0 /\ last_modified' = 0
         \/ etag' = EtagOf /\ last_modified' = Date
         \/ etag' = metadata.etag /\ last_modified' = metadata.last_modified,
         \/ UNCHANGED <<metadata, told>>
         \/ metadata' = NoEntry /\ UNCHANGED told
         \/ /\ UNCHANGED told
            /\ metadata'.etag = EtagOf /\ metadata'.last_modified = Date
         \/ UNCHANGED told /\ metadata'.etag = 0 /\ metadata'.last_modified = 0
         \/ EraseEntry /\ UNCHANGED told
         \/ FileChanged /\ (PreconditionFails \/ EtagDiffers)
  PROVE  Told'
<1>1. Tags' = Tags /\ Dates' = Dates
  BY DEF Tags, Dates, TagAt, DateAt
<1>2. \/ metadata' = metadata \/ metadata' = NoEntry
      \/ metadata'.etag = EtagOf /\ metadata'.last_modified = Date
      \/ metadata'.etag = 0 /\ metadata'.last_modified = 0
  BY DEF EraseEntry, FileChanged
<1>3. Validators'
  BY <1>1, <1>2, CurrentIsNotTold, NothingFacts DEF Told, Validators
<1>4. ToldAreOld'
  <2>1. CASE UNCHANGED told
    BY <2>1 DEF Told, ToldAreOld
  <2>2. CASE ~UNCHANGED told
    <3>1. told' = told \cup {<<etag, last_modified>>} /\ Old(etag, last_modified)
      BY <2>2, ChangedIsOld DEF FileChanged
    <3> QED
      BY <3>1 DEF Told, ToldAreOld, Old
  <2> QED
    BY <2>1, <2>2
<1>5. StaleEntryIsDropped'
  <2>1. SUFFICES ASSUME client.global_cache'
                 PROVE  (<<metadata.etag, metadata.last_modified>> \notin told)'
    BY DEF StaleEntryIsDropped
  <2>2. <<0, 0>> \notin told'
    BY <1>4 DEF ToldAreOld
  <2>3. CASE metadata' = NoEntry \/ (metadata'.etag = 0 /\ metadata'.last_modified = 0)
    BY <2>2, <2>3, NothingFacts
  <2>4. CASE metadata'.etag = EtagOf /\ metadata'.last_modified = Date /\ UNCHANGED told
    BY <2>4, CurrentIsNotTold
  <2>5. CASE UNCHANGED <<metadata, told>>
    BY <2>1, <2>5 DEF Told, StaleEntryIsDropped
  <2>6. CASE EraseEntry \/ FileChanged
    BY <2>1, <2>3, <2>6 DEF EraseEntry, FileChanged
  <2> QED
    BY <2>3, <2>4, <2>5, <2>6
<1> QED
  BY <1>3, <1>4, <1>5 DEF Told

\* Every step keeps what holds of the validators and of what was told.
LEMMA ToldStep ==
  ASSUME Types, Lines, Told, [Next]_<<vars, situation>>
  PROVE  Told'
<1>1. CASE UNCHANGED <<vars, situation>>
  <2>1. UNCHANGED <<version, server, client, etag, last_modified, metadata, told>>
    BY <1>1 DEF vars, serverVars, infoVars
  <2> QED
    BY <2>1, ToldKept
<1>2. CASE Rewrite
  <2>1. /\ version' = version + 1 /\ version \in Nat
        /\ UNCHANGED <<server, client, etag, last_modified, metadata, told>>
    BY <1>2 DEF Rewrite, Types, ServerTypes, Versions, infoVars
  <2>2. Tags \subseteq Tags' /\ Dates \subseteq Dates'
    <3>1. 1 .. version \subseteq 1 .. version'
      BY <2>1
    <3>2. \A v \in 1 .. version : TagAt(v)' = TagAt(v) /\ DateAt(v)' = DateAt(v)
      BY <2>1 DEF TagAt, DateAt
    <3> QED
      BY <3>1, <3>2 DEF Tags, Dates
  <2>3. Validators'
    BY <2>1, <2>2 DEF Told, Validators
  <2>4. ToldAreOld'
    <3>1. \A n \in Numbers : n < version => n < version'
      BY <2>1, BoundFacts DEF Numbers
    <3>2. \A p \in told : p[1] \in Numbers /\ p[2] \in Numbers
      BY DEF Types, CacheTypes
    <3> QED
      BY <2>1, <3>1, <3>2 DEF Told, ToldAreOld
  <2>5. StaleEntryIsDropped'
    BY <2>1 DEF Told, StaleEntryIsDropped
  <2> QED
    BY <2>3, <2>4, <2>5 DEF Told
<1>3. CASE Open
  <2>1. UNCHANGED <<version, server, client, told>>
    BY <1>3 DEF Open, serverVars
  <2>2. \/ UNCHANGED <<etag, last_modified, metadata>>
        \/ etag' = metadata.etag /\ last_modified' = metadata.last_modified /\ UNCHANGED metadata
        \/ etag' = 0 /\ last_modified' = 0 /\ UNCHANGED metadata
        \/ etag' = 0 /\ last_modified' = 0 /\ metadata'.etag = 0 /\ metadata'.last_modified = 0
    BY <1>3 DEF Open, Loaded, StartFullDownload, ReadyToRead, infoVars
  <2> QED
    BY <2>1, <2>2, ToldKept
<1>4. CASE HeadRequest \/ Probe
  <2>1. UNCHANGED <<version, server, client, told>>
    BY <1>4 DEF HeadRequest, Probe, serverVars
  <2>2. \/ UNCHANGED <<etag, last_modified, metadata>>
        \/ etag' = 0 /\ last_modified' = 0 /\ UNCHANGED metadata
        \/ etag' = EtagOf /\ last_modified' = Date /\ UNCHANGED metadata
        \/ /\ etag' = EtagOf /\ last_modified' = Date
           /\ metadata'.etag = EtagOf /\ metadata'.last_modified = Date
        \/ etag' = 0 /\ last_modified' = 0 /\ metadata'.etag = 0 /\ metadata'.last_modified = 0
    BY <1>4
    DEF HeadRequest, Probe, Loaded, StartFullDownload, ReadyToRead, infoVars, DestroyHandle
  <2> QED
    BY <2>1, <2>2, ToldKept
<1>5. CASE Close \/ QueryEnd
  <2>1. /\ UNCHANGED <<version, server, client, told>>
        /\ UNCHANGED <<etag, last_modified>> \/ (etag' = 0 /\ last_modified' = 0)
        /\ metadata' = metadata \/ metadata' = NoEntry
    BY <1>5 DEF Close, QueryEnd, DestroyHandle, serverVars, infoVars
  <2> QED
    BY <2>1, ToldKept
<1>6. CASE FullDownload
  <2>1. /\ UNCHANGED <<version, server, client>>
        /\ UNCHANGED <<etag, last_modified>> \/ (etag' = 0 /\ last_modified' = 0)
        /\ UNCHANGED <<metadata, told>> \/ (FileChanged /\ PreconditionFails)
    BY <1>6
    DEF FullDownload, Downloaded, DownloadSucceeds, DownloadBreaks, DownloadRefused, DownloadThrows,
        DestroyHandle, serverVars
  <2> QED
    BY <2>1, ToldKept
<1>7. CASE CallRead \/ CallReadNext \/ Seek
  <2>1. UNCHANGED <<version, server, client, etag, last_modified, metadata, told>>
    BY <1>7 DEF CallRead, CallReadNext, Seek, StartRead, serverVars, infoVars
  <2> QED
    BY <2>1, ToldKept
<1>8. CASE ReadCached \/ ReadDirect \/ ReadBuffered
  <2>1. UNCHANGED <<version, server, client, etag, last_modified, metadata, told>>
    BY <1>8 DEF ReadCached, ReadDirect, ReadBuffered, serverVars, infoVars
  <2> QED
    BY <2>1, ToldKept
<1>9. CASE TryRangeRequest
  <2>1. /\ UNCHANGED <<version, server, client, etag, last_modified>>
        /\ \/ UNCHANGED <<metadata, told>>
           \/ EraseEntry /\ UNCHANGED told
           \/ FileChanged /\ (PreconditionFails \/ EtagDiffers)
    BY <1>9
    DEF TryRangeRequest, RangeSucceeds, RangeBreaks, RangeShort, RangeChanged, RangeRefused,
        RangeFallsBack, serverVars, infoVars
  <2> QED
    BY <2>1, ToldKept
<1> QED
  BY <1>1, <1>2, <1>3, <1>4, <1>5, <1>6, <1>7, <1>8, <1>9 DEF Next

\* A download that is complete.
LEMMA SucceedsFacts ==
  ASSUME Types, Downloads, ~client.streaming, ~cached_file.initialized
  PROVE  LET data == SubSeq(Chunk(cached_file.data, WholeFile), 1,
                            LengthAfter(cached_file.data, WholeFile))
         IN  data = Whole(version) /\ Len(data) = size[version]
<1>1. cached_file.data = <<>> /\ length \in Nat
  BY DEF Downloads, CurlWhole, Types, HandleTypes
<1>2. Chunk(<<>>, WholeFile) = WholeFile
  BY DEF Chunk
<1> QED
  BY <1>1, <1>2, ChunkFacts, WholeFileFacts, NothingFacts DEF Types

\* Every step keeps it that the curl client caches files as a whole.
LEMMA DownloadsStep ==
  ASSUME Types, Downloads, [Next]_<<vars, situation>>
  PROVE  Downloads'
<1> SUFFICES ASSUME ~client.streaming PROVE Downloads'
  <2>1. client' = client
    BY DEF vars, Next, Rewrite, Open, HeadRequest, Probe, Close, QueryEnd,
       FullDownload, CallRead,
       CallReadNext, Seek, StartRead, ReadCached, ReadDirect, ReadBuffered, TryRangeRequest
  <2> QED
    BY <2>1 DEF Downloads
<1>1. CurlWhole
  BY DEF Downloads
<1>2. CASE Rewrite
  <2>1. /\ version' = version + 1 /\ version \in Nat /\ UNCHANGED <<size, cached_file>>
    BY <1>2 DEF Rewrite, Types, ServerTypes, Versions, cacheVars
  <2>2. \A v \in 1 .. version : v \in 1 .. version' /\ Whole(v)' = Whole(v)
    BY <2>1 DEF Whole
  <2> QED
    BY <1>1, <2>1, <2>2 DEF Downloads, CurlWhole
<1>3. CASE UNCHANGED <<version, size, cached_file>>
  <2>1. \A v \in 1 .. version : Whole(v)' = Whole(v)
    BY <1>3 DEF Whole
  <2> QED
    BY <1>1, <1>3, <2>1 DEF Downloads, CurlWhole
<1>4. CASE cached_file' = NewCachedFile
  BY <1>4, NothingFacts DEF Downloads, CurlWhole
<1>5. CASE FullDownload
  <2>1. UNCHANGED <<version, size>> /\ cached_file \in [data : Bytes, initialized : BOOLEAN]
    BY <1>5 DEF FullDownload, serverVars, Types, CacheTypes
  <2>2. CASE DownloadBreaks /\ ~cached_file.initialized
    <3>1. PICK bytes \in Received(WholeFile) :
            cached_file' = [cached_file EXCEPT !.data =
                              IF bytes = <<>> THEN @ ELSE Chunk(@, bytes)]
      BY <2>2 DEF DownloadBreaks
    <3>2. bytes = <<>>
      BY WholeFileFacts, ReceivedFacts DEF Types
    <3>3. cached_file' = cached_file
      BY <2>1, <3>1, <3>2
    <3> QED
      BY <1>3, <2>1, <3>3
  <2>3. CASE DownloadRefused
    BY <1>3, <2>1, <2>3 DEF DownloadRefused
  <2>4. CASE DownloadSucceeds /\ ~cached_file.initialized
    <3> DEFINE data == SubSeq(Chunk(cached_file.data, WholeFile), 1,
                              LengthAfter(cached_file.data, WholeFile))
    <3>1. data = Whole(version) /\ version \in 1 .. version
      BY <2>4, SucceedsFacts, WholeFileFacts DEF Types
    <3>2. cached_file' = NewCachedFile \/ cached_file' = [data |-> data, initialized |-> TRUE]
      BY <2>4 DEF DownloadSucceeds, Downloaded
    <3> HIDE DEF data
    <3>3. CASE cached_file' = [data |-> data, initialized |-> TRUE]
      <4>1. cached_file'.initialized /\ cached_file'.data = Whole(version)'
        BY <2>1, <3>1, <3>3 DEF Whole
      <4> QED
        BY <2>1, <3>1, <4>1 DEF Downloads, CurlWhole
    <3> QED
      BY <1>4, <3>2, <3>3
  <2>5. CASE cached_file.initialized
    <3>1. \/ cached_file' = NewCachedFile
          \/ cached_file' = [data |-> cached_file.data, initialized |-> TRUE]
      BY <1>5, <2>5 DEF FullDownload, Downloaded
    <3>2. cached_file = [data |-> cached_file.data, initialized |-> TRUE]
      BY <2>1, <2>5
    <3> QED
      BY <1>3, <1>4, <2>1, <3>1, <3>2
  <2> QED
    BY <1>5, <2>2, <2>3, <2>4, <2>5 DEF FullDownload
<1>6. CASE QueryEnd
  BY <1>4, <1>6 DEF QueryEnd
<1>7. CASE \/ UNCHANGED <<vars, situation>> \/ Open \/ HeadRequest \/ Probe \/ Close
           \/ CallRead \/ CallReadNext \/ Seek \/ ReadCached \/ ReadDirect \/ ReadBuffered
           \/ TryRangeRequest
  <2>1. UNCHANGED <<version, size, cached_file>>
    BY <1>7
    DEF vars, Open, HeadRequest, Probe, Close, CallRead, CallReadNext, Seek, StartRead, ReadCached,
        ReadDirect, ReadBuffered, TryRangeRequest, serverVars, cacheVars
  <2> QED
    BY <1>3, <2>1
<1> QED
  BY <1>2, <1>5, <1>6, <1>7 DEF Next

-----------------------------------------------------------------------------
\* Bytes that fit are of one version, unless the handle knows none.
LEMMA OneFits ==
  ASSUME Types, version = 1 \/ ~Blind, NEW v, NEW w, Fits(v), Fits(w)
  PROVE  v = w
BY DEF Blind, Fits

\* The length that the handle knows is that of the version it knows.
LEMMA LengthFits ==
  ASSUME Types, version = 1 \/ ~Blind, Info(length, etag, last_modified), NEW v, Fits(v)
  PROVE  length = size[v]
<1>1. CASE version = 1
  <2>1. v = 1 /\ \A u \in 1 .. version : u = 1
    BY <1>1 DEF Fits
  <2> QED
    BY <1>1, <2>1 DEF Info
<1>2. CASE ~Blind
  <2>1. PICK u \in 1 .. version : etag = TagAt(u) /\ last_modified = DateAt(u) /\ length = size[u]
    BY <1>2 DEF Info, Blind
  <2>2. u = v
    BY <1>2, <2>1 DEF Blind, Fits, TagAt, DateAt
  <2> QED
    BY <2>1, <2>2
<1> QED
  BY <1>1, <1>2

\* An answer that the preconditions and the comparison of ETags let through is of
\* the version that the handle knows.
LEMMA CurrentFits ==
  ASSUME Types, Told, Info(length, etag, last_modified), ~PreconditionFails,
         \/ version = 1
         \/ ServerValidates /\ ~Blind /\ (server.ranges => ~EtagDiffers)
  PROVE  Fits(version) /\ length = size[version]
<1>1. version \in 1 .. version /\ version \in Nat
  BY DEF Types, ServerTypes, Versions
<1>2. CASE version = 1
  <2>1. etag \in {0, 1} /\ last_modified \in {0, 1}
    <3>1. \A u \in 1 .. version : TagAt(u) \in {0, 1} /\ DateAt(u) \in {0, 1}
      BY <1>2 DEF TagAt, DateAt
    <3> QED
      BY <3>1 DEF Told, Validators, Tags, Dates
  <2>2. Fits(version)
    BY <1>1, <1>2, <2>1 DEF Fits
  <2> QED
    BY <1>2, <2>2, LengthFits
<1>3. CASE ServerValidates /\ ~Blind /\ (server.ranges => ~EtagDiffers)
  <2>1. PICK u \in 1 .. version : etag = TagAt(u) /\ last_modified = DateAt(u) /\ length = size[u]
    BY <1>3 DEF Info, Blind
  <2>2. u # 0 /\ version # 0
    BY <1>1, <2>1
  <2>3. u = version
    <3>1. CASE server.conditional /\ server.etag = "strong"
      BY <1>3, <2>1, <2>2, <3>1 DEF ServerValidates, PreconditionFails, TagAt
    <3>2. CASE server.conditional /\ server.etag # "strong" /\ server.dates
      BY <1>3, <2>1, <2>2, <3>2 DEF ServerValidates, PreconditionFails, DateAt, Date
    <3>3. CASE server.ranges /\ server.etag # "none"
      BY <1>3, <2>1, <2>2, <3>3 DEF ServerValidates, EtagDiffers, EtagOf, TagAt
    <3> QED
      BY <1>3, <3>1, <3>2, <3>3 DEF ServerValidates
  <2> QED
    BY <1>1, <2>1, <2>3 DEF Fits, TagAt, DateAt
<1> QED
  BY <1>2, <1>3

\* What is said of the server, the client and the validators stays with them.
LEMMA Frame ==
  ASSUME UNCHANGED <<server, client, version, size, etag, last_modified>>
  PROVE  /\ \A v : Fits(v)' = Fits(v) /\ Whole(v)' = Whole(v)
         /\ ServerValidates' = ServerValidates /\ Blind' = Blind /\ Careful' = Careful
         /\ last_read' = last_read => Validated' = Validated
         /\ Validated' => Validated \/ last_read' # last_read
         /\ \A len, tag, date : Info(len, tag, date)' = Info(len, tag, date)
<1>1. \A v : TagAt(v)' = TagAt(v) /\ DateAt(v)' = DateAt(v)
  BY DEF TagAt, DateAt
<1>2. \A v : Fits(v)' = Fits(v) /\ Whole(v)' = Whole(v)
  BY DEF Fits, Whole
<1>3. ServerValidates' = ServerValidates /\ Blind' = Blind /\ Careful' = Careful
  BY DEF ServerValidates, Blind, Careful
<1>4. last_read' = last_read => Validated' = Validated
  BY <1>3 DEF Validated
<1>5. \A len, tag, date : Info(len, tag, date)' = Info(len, tag, date)
  BY <1>1 DEF Info
<1> QED
  BY <1>2, <1>3, <1>4, <1>5

\* What Read returned: it follows from where the bytes of a handle come from, when
\* no call failed.
LEMMA ResultsFollow ==
  ASSUME Types', Lines', Modes', Position', Lengths', Infos', RangedBytes',
         RangedNothing',
         CachedBytes', RightBytes', ~failed'
  PROVE  Results'
<1>1. CASE Opening'
  BY <1>1 DEF Lines, Results, RightBytes, OneVersion, EofIsTrue
<1>2. CASE Ranged'
  <2> SUFFICES ASSUME Validated'
               PROVE  /\ \A v, w \in seen' : v = w
                      /\ eof' # -1 => \A v \in seen' : eof' = size'[v]
    BY DEF Results, OneVersion, EofIsTrue
  <2>1. CASE (version = 1 \/ ~Blind)'
    <3>1. ASSUME NEW v \in seen', NEW w \in seen' PROVE v = w
      BY <1>2, <2>1 DEF RangedBytes, Fits, Blind
    <3>2. ASSUME NEW v \in seen', eof' # -1 PROVE eof' = size'[v]
      <4>1. eof' = length'
        BY <1>2, <3>2 DEF Position, Ranged, Opening, DownloadInRead
      <4>2. Info(length, etag, last_modified)' /\ Fits(v)'
        BY <1>2 DEF Infos, RangedBytes
      <4>3. CASE version' = 1
        <5>1. v = 1 /\ \A u \in 1 .. version' : u = 1
          BY <4>2, <4>3 DEF Fits
        <5> QED
          BY <4>1, <4>2, <4>3, <5>1 DEF Info
      <4>4. CASE ~Blind'
        <5>1. PICK u \in 1 .. version' :
                etag' = TagAt(u)' /\ last_modified' = DateAt(u)' /\ length' = size'[u]
          BY <4>2, <4>4 DEF Info, Blind
        <5>2. u = v
          BY <4>2, <4>4, <5>1 DEF Blind, Fits, TagAt, DateAt
        <5> QED
          BY <4>1, <5>1, <5>2
      <4> QED
        BY <2>1, <4>3, <4>4
    <3> QED
      BY <3>1, <3>2
  <2>2. CASE ~(version = 1 \/ ~Blind)'
    <3>1. last_read' = -1
      BY <2>2 DEF Validated
    <3> QED
      BY <1>2, <3>1 DEF RangedNothing
  <2> QED
    BY <2>1, <2>2
<1>3. CASE Cached'
  <2> SUFFICES ASSUME Validated'
               PROVE  /\ \A v, w \in seen' : v = w
                      /\ eof' # -1 => \A v \in seen' : eof' = size'[v]
    BY DEF Results, OneVersion, EofIsTrue
  <2>1. \A v \in seen' : /\ v \in Versions' /\ size'[v] > 0 /\ cached_file'.data = Whole(v)'
                         /\ Len(cached_file'.data) = size'[v]
    <3>1. \A v \in seen' : v \in 1 .. version' /\ size'[v] > 0 /\ cached_file'.data = Whole(v)'
      BY <1>3 DEF CachedBytes
    <3>2. \A v \in 1 .. version' : v \in Versions'
      BY BoundFacts DEF Types, ServerTypes, Versions
    <3>3. ASSUME NEW v \in Versions' PROVE Len(Whole(v)') = size'[v]
      <4>1. v \in Numbers /\ size'[v] \in Nat
        BY BoundFacts DEF Types, ServerTypes, Versions, Numbers
      <4>2. Whole(v)' \in [1 .. size'[v] -> Numbers \X Nat]
        BY <4>1 DEF Whole
      <4> QED
        BY <4>1, <4>2, FunctionIsSeq
    <3> QED
      BY <3>1, <3>2, <3>3
  <2>2. ASSUME NEW v \in seen', NEW w \in seen' PROVE v = w
    <3>1. 1 \in 1 .. size'[v] /\ 1 \in 1 .. size'[w]
      BY <2>1 DEF Types, ServerTypes
    <3>2. Whole(v)'[1] = <<v, 1 - 1>> /\ Whole(w)'[1] = <<w, 1 - 1>>
      BY <3>1 DEF Whole
    <3> QED
      BY <2>1, <3>2
  <2>3. ASSUME NEW v \in seen', eof' # -1 PROVE eof' = size'[v]
    BY <1>3, <2>1, <2>3 DEF Position, Lengths, Cached, Opening
  <2> QED
    BY <2>2, <2>3
<1> QED
  BY <1>1, <1>2, <1>3
     DEF Types, HandleTypes, Pcs, Modes, Opening, Ranged, Cached, DownloadInRead

-----------------------------------------------------------------------------
\* What a closed handle leaves behind.
LEMMA DestroyedReads ==
  ASSUME Base, Base', Careful, Reads, DestroyHandle, UNCHANGED <<serverVars, client>>,
         cached_file' = cached_file, metadata' = metadata \/ metadata' = NoEntry
  PROVE  Reads' /\ Results'
<1>1. pc' = "closed" /\ Opening' /\ ~Ranged' /\ ~Cached' /\ ~DownloadInRead' /\ ~failed'
  BY DEF DestroyHandle, Opening, Ranged, Cached, DownloadInRead
<1>2. Modes' /\ Position' /\ NoFallback' /\ RangedBytes' /\ RangedNothing' /\ CachedBytes'
  BY <1>1 DEF Modes, Position, NoFallback, RangedBytes, RangedNothing, CachedBytes
<1>3. Lengths'
  BY <1>1 DEF Reads, Lengths
<1>4. Infos'
  <2>1. \A v : TagAt(v)' = TagAt(v) /\ DateAt(v)' = DateAt(v)
    BY DEF TagAt, DateAt, serverVars
  <2>2. metadata' # NoEntry => metadata' = metadata
    OBVIOUS
  <2> QED
    BY <1>1, <2>1, <2>2 DEF Reads, Infos, Info, serverVars
<1>5. Results'
  BY <1>1 DEF Base, Lines, Results, RightBytes, OneVersion, EofIsTrue
<1> QED
  BY <1>2, <1>3, <1>4, <1>5 DEF Reads

\* The end of a query.
LEMMA QueryEndReads ==
  ASSUME Base, Base', Careful, Reads, QueryEnd
  PROVE  Reads' /\ Results'
<1>1. pc' = "closed" /\ Opening' /\ ~Ranged' /\ ~Cached' /\ ~DownloadInRead' /\ ~failed'
  BY DEF QueryEnd, Opening, Ranged, Cached, DownloadInRead, Base, Lines
<1>2. Modes' /\ Position' /\ NoFallback' /\ RangedBytes' /\ RangedNothing' /\ CachedBytes'
  BY <1>1 DEF Modes, Position, NoFallback, RangedBytes, RangedNothing, CachedBytes
<1>3. Lengths'
  BY <1>1, NothingFacts DEF Lengths, QueryEnd
<1>4. Infos'
  <2>1. \A v : TagAt(v)' = TagAt(v) /\ DateAt(v)' = DateAt(v)
    BY DEF TagAt, DateAt, QueryEnd, serverVars
  <2>2. metadata' # NoEntry => metadata' = metadata
    BY DEF QueryEnd
  <2> QED
    BY <1>1, <2>1, <2>2 DEF Reads, Infos, Info, QueryEnd, serverVars
<1>5. Results'
  BY <1>1 DEF Base, Lines, Results, RightBytes, OneVersion, EofIsTrue
<1> QED
  BY <1>2, <1>3, <1>4, <1>5 DEF Reads

\* The file is rewritten: what fits still fits, and no longer counts unless the
\* code validates.
LEMMA RewriteReads ==
  ASSUME Base, Base', Careful, Reads, Results, Rewrite
  PROVE  Reads' /\ Results'
<1>1. /\ version' = version + 1 /\ version \in Nat /\ version >= 1
      /\ UNCHANGED <<server, size, client, metadata, length, etag, last_modified,
                     cached_file_handle, cached_file, read_buffer, buffer_start, buffer_end,
                     last_read, file_offset, pc, call, tries, failed, seen, misplaced, eof>>
  BY DEF Rewrite, Base, Types, ServerTypes, Versions, infoVars, cacheVars, windowVars,
     resultVars
<1>2. /\ Opening' = Opening /\ Ranged' = Ranged /\ Cached' = Cached
      /\ DownloadInRead' = DownloadInRead /\ WindowStands' = WindowStands
      /\ ServerValidates' = ServerValidates /\ Blind' = Blind
  BY <1>1
     DEF Opening, Ranged, Cached, DownloadInRead, InRead, WindowStands, ServerValidates, Blind
<1>3. Validated' => Validated
  BY <1>1, <1>2 DEF Validated
<1>4. \A v : /\ TagAt(v)' = TagAt(v) /\ DateAt(v)' = DateAt(v) /\ Whole(v)' = Whole(v)
             /\ v \in 1 .. version => v \in 1 .. version'
             /\ Fits(v) => Fits(v)'
  <2>1. \A v : v \in 1 .. version => v \in 1 .. version'
    BY <1>1
  <2> QED
    BY <1>1, <2>1 DEF TagAt, DateAt, Whole, Fits
<1>5. \A byte, n : FitsAt(byte, n) => FitsAt(byte, n)'
  BY <1>4 DEF FitsAt
<1>6. Modes' /\ Position' /\ Lengths' /\ NoFallback' /\ RangedNothing'
  BY <1>1, <1>2 DEF Reads, Modes, Position, Lengths, NoFallback, RangedNothing, InRead
<1>7. Infos'
  <2>1. \A len, tag, date : Info(len, tag, date) => Info(len, tag, date)'
    BY <1>1, <1>4 DEF Info
  <2> QED
    BY <1>1, <1>2, <2>1 DEF Reads, Infos
<1>8. RangedBytes'
  BY <1>1, <1>2, <1>3, <1>4, <1>5 DEF Reads, RangedBytes, AllFit
<1>9. CachedBytes'
  BY <1>1, <1>2, <1>3, <1>4 DEF Reads, CachedBytes
<1>10. Results'
  BY <1>1, <1>3 DEF Results, RightBytes, OneVersion, EofIsTrue
<1> QED
  BY <1>6, <1>7, <1>8, <1>9, <1>10 DEF Reads

\* A Read throws: the handle will only be closed.
LEMMA ThrowReads ==
  ASSUME Base, Base', Careful, Reads, Results, Throw, UNCHANGED <<serverVars, client>>,
         UNCHANGED <<etag, last_modified, last_read>>,
         metadata' = metadata \/ metadata' = NoEntry,
         cached_file' = cached_file \/ cached_file' = NewCachedFile,
         cached_file'.initialized => cached_file_handle'
  PROVE  Reads' /\ Results'
<1>1. pc' = "idle" /\ failed' /\ ~Opening' /\ ~DownloadInRead' /\ call' = NoCall
      /\ UNCHANGED <<seen, misplaced, eof>>
  BY DEF Throw, Opening, DownloadInRead
<1>2. /\ Modes' /\ Position' /\ NoFallback' /\ RangedBytes' /\ RangedNothing' /\ CachedBytes'
  BY <1>1
     DEF Modes, Position, NoFallback, RangedBytes, RangedNothing, CachedBytes, InRead
<1>3. Lengths'
  BY <1>1, NothingFacts DEF Reads, Lengths
<1>4. UNCHANGED <<server, client, version, size, etag, last_modified>>
  BY DEF serverVars
<1>5. Infos'
  <2>1. metadata' # NoEntry => metadata' = metadata
    OBVIOUS
  <2> QED
    BY <1>1, <1>4, <2>1, Frame DEF Reads, Infos
<1>6. Results'
  BY <1>1, <1>4, Frame DEF Results, RightBytes, OneVersion, EofIsTrue
<1> QED
  BY <1>2, <1>3, <1>5, <1>6 DEF Reads

\* The handle is open: it reads by ranges, or a download is to come, or is there.
LEMMA LoadedReads ==
  ASSUME Base, Base', Careful, Reads, Opening,
         NEW len \in Nat, NEW tag, NEW date, NEW force, NEW cached \in BOOLEAN,
         Loaded(len, tag, date, force, cached), Info(len, tag, date) \/ len = 0,
         metadata = NoEntry, cached_file.initialized = cached,
         cached => len = Len(cached_file.data),
         UNCHANGED <<serverVars, client, cached_file, restVars, tries, told>>
  PROVE  Reads' /\ Results'
<1>1. /\ UNCHANGED <<server, client, version, size, buffer_start, buffer_end, last_read,
                     file_offset, call, failed, seen, misplaced, eof>>
      /\ call' = NoCall /\ ~failed' /\ seen' = {} /\ ~misplaced' /\ eof' = -1 /\ last_read' = -1
      /\ buffer_start' = 0 /\ buffer_end' = 0 /\ file_offset' = 0 /\ call'.nr_bytes = 0
      /\ call'.location = 0 /\ call'.out = <<>>
  BY NothingFacts DEF Base, Lines, serverVars, restVars, resultVars
<1>2. CASE StartFullDownload
  <2>1. /\ pc' = "download" /\ cached_file_handle' /\ metadata' = NoEntry /\ ~InRead'
        /\ Opening' /\ ~Ranged' /\ ~Cached' /\ ~DownloadInRead'
    BY <1>1, <1>2 DEF StartFullDownload, InRead, Opening, Ranged, Cached, DownloadInRead
  <2>2. /\ Modes' /\ Position' /\ NoFallback' /\ RangedBytes' /\ RangedNothing' /\ CachedBytes'
        /\ Lengths' /\ Infos'
    BY <1>1, <2>1
       DEF Modes, Position, NoFallback, RangedBytes, RangedNothing, CachedBytes,
                      Lengths, Infos
  <2>3. Results'
    BY <1>1 DEF Results, RightBytes, OneVersion, EofIsTrue
  <2> QED
    BY <2>2, <2>3 DEF Reads
<1>3. CASE ~StartFullDownload
  <2>1. /\ pc' = "idle" /\ cached_file_handle' = cached /\ len # 0
        /\ length' = len /\ etag' = tag /\ last_modified' = date
        /\ metadata' = [length |-> len, etag |-> tag, last_modified |-> date]
    BY <1>3 DEF Loaded, ReadyToRead
  <2>2. ~Opening' /\ ~DownloadInRead' /\ (Ranged' => ~cached) /\ (Cached' => cached)
    BY <2>1 DEF Opening, DownloadInRead, Ranged, Cached
  <2>3. Modes' /\ Position' /\ NoFallback' /\ Lengths'
    BY <1>1, <2>1, <2>2 DEF Modes, Position, NoFallback, Lengths, InRead
  <2>4. Infos'
    <3>1. Info(len, tag, date)'
      <4>1. \A v : TagAt(v)' = TagAt(v) /\ DateAt(v)' = DateAt(v)
        BY <1>1 DEF TagAt, DateAt
      <4> QED
        BY <1>1, <2>1, <4>1 DEF Info
    <3> QED
      BY <2>1, <3>1 DEF Infos, Info
  <2>5. RangedBytes' /\ RangedNothing' /\ CachedBytes'
    BY <1>1, NothingFacts DEF RangedBytes, RangedNothing, CachedBytes, AllFit
  <2>6. Results'
    BY <1>1 DEF Results, RightBytes, OneVersion, EofIsTrue
  <2> QED
    BY <2>3, <2>4, <2>5, <2>6 DEF Reads
<1> QED
  BY <1>2, <1>3

\* Opening a handle.
LEMMA OpenReads ==
  ASSUME Base, Base', Careful, Reads, Open
  PROVE  Reads' /\ Results'
<1>1. /\ Opening /\ pc = "closed" /\ version \in Nat
      /\ UNCHANGED <<serverVars, server, client, version, size, cached_file, restVars, tries, told>>
      /\ UNCHANGED <<buffer_start, buffer_end, last_read, file_offset, call, failed, seen,
                     misplaced, eof>>
  BY DEF Open, Opening, serverVars, restVars, resultVars, Base, Types, ServerTypes,
     Versions
<1>2. /\ call' = NoCall /\ ~failed' /\ seen' = {} /\ ~misplaced' /\ eof' = -1 /\ last_read' = -1
      /\ buffer_start' = 0 /\ buffer_end' = 0 /\ file_offset' = 0 /\ call'.nr_bytes = 0
      /\ call'.location = 0 /\ call'.out = <<>>
  BY <1>1, NothingFacts DEF Base, Lines
<1>3. CASE client.force_download \/ (metadata = NoEntry /\ ~cached_file.initialized)
  <2>1. \/ pc' = "download" /\ cached_file_handle'
        \/ pc' = "head" /\ ~cached_file.initialized
    BY <1>3 DEF Open, StartFullDownload
  <2>2. metadata' = NoEntry
    BY <1>3 DEF Open, StartFullDownload, Base, Lines
  <2>3. ~InRead' /\ Opening' /\ ~Ranged' /\ ~Cached' /\ ~DownloadInRead'
    BY <1>2, <2>1 DEF InRead, Opening, Ranged, Cached, DownloadInRead
  <2>4. /\ Modes' /\ Position' /\ NoFallback' /\ RangedBytes' /\ RangedNothing' /\ CachedBytes'
        /\ Lengths' /\ Infos'
    BY <1>1, <1>2, <2>1, <2>2, <2>3
    DEF Modes, Position, NoFallback, RangedBytes, RangedNothing, CachedBytes, Lengths, Infos
  <2>5. Results'
    BY <1>2 DEF Results, RightBytes, OneVersion, EofIsTrue
  <2> QED
    BY <2>4, <2>5 DEF Reads
<1>4. CASE ~client.force_download /\ metadata # NoEntry
  <2>1. /\ length' = metadata.length /\ etag' = metadata.etag
        /\ last_modified' = metadata.last_modified
        /\ cached_file_handle' = cached_file.initialized
        /\ pc' = "idle" /\ UNCHANGED metadata
    BY <1>4 DEF Open, ReadyToRead
  <2>2. ~Opening' /\ ~DownloadInRead'
    BY <2>1 DEF Opening, DownloadInRead
  <2>3. metadata.length \in Nat /\ length' \in Nat
    BY <1>4, <2>1 DEF Base, Types, CacheTypes, Entries
  <2>4. Modes' /\ Position' /\ NoFallback'
    BY <1>1, <1>2, <2>1, <2>2, <2>3 DEF Modes, Position, NoFallback, InRead, Cached
  <2>5. Lengths'
    BY <1>1, <1>4, <2>1 DEF Reads, Lengths, Cached
  <2>6. Infos'
    <3>1. Info(metadata.length, metadata.etag, metadata.last_modified)
      BY <1>4 DEF Reads, Infos
    <3>2. \A v : TagAt(v)' = TagAt(v) /\ DateAt(v)' = DateAt(v)
      BY <1>1 DEF TagAt, DateAt
    <3> QED
      BY <1>1, <2>1, <3>1, <3>2 DEF Infos, Info
  <2>7. RangedBytes' /\ RangedNothing' /\ CachedBytes'
    BY <1>2, NothingFacts DEF RangedBytes, RangedNothing, CachedBytes, AllFit
  <2>8. Results'
    BY <1>2 DEF Results, RightBytes, OneVersion, EofIsTrue
  <2> QED
    BY <2>4, <2>5, <2>6, <2>7, <2>8 DEF Reads
<1>5. CASE ~client.force_download /\ metadata = NoEntry /\ cached_file.initialized
  <2> DEFINE len == Len(cached_file.data)
  <2>1. Loaded(len, 0, 0, FALSE, TRUE)
    BY <1>5 DEF Open
  <2>2. len \in Nat
    BY LenProperties DEF Base, Types, CacheTypes, Bytes
  <2>3. Info(len, 0, 0)
    <3>1. PICK v \in 1 .. version : cached_file.data = Whole(v)
      BY <1>5 DEF Careful, Base, Downloads, CurlWhole
    <3>2. version = 1 => v = 1 /\ 1 \in Versions
      BY <3>1, BoundFacts DEF Versions
    <3>3. version = 1 => len = size[1]
      BY <3>1, <3>2, WholeFacts DEF Base, Types
    <3> QED
      BY <3>3 DEF Info
  <2> HIDE DEF len
  <2>4. cached_file.initialized = TRUE
    BY <1>5 DEF Base, Types, CacheTypes
  <2>5. TRUE => len = Len(cached_file.data)
    BY DEF len
  <2> QED
    BY <1>1, <1>5, <2>1, <2>2, <2>3, <2>4, <2>5, LoadedReads
<1> QED
  BY <1>3, <1>4, <1>5

\* HEAD and the probe.
LEMMA HeadReads ==
  ASSUME Base, Base', Careful, Reads, HeadRequest \/ Probe
  PROVE  Reads' /\ Results'
<1>1. /\ Opening /\ pc \in {"head", "probe"} /\ metadata = NoEntry
      /\ cached_file.initialized = FALSE
      /\ UNCHANGED <<serverVars, server, client, version, size, cached_file, told>>
  BY DEF HeadRequest, Probe, Opening, serverVars, Reads, Modes, Base, Types, CacheTypes
<1>2. size[version] \in Nat /\ ProbeLength \in Nat /\ version \in 1 .. version
  BY WholeFileFacts DEF Base, Types, ProbeLength
<1>3. /\ Info(size[version], EtagOf, Date)
      /\ ProbeLength = size[version] \/ ProbeLength = 0
  BY <1>2 DEF Info, EtagOf, Date, TagAt, DateAt, ProbeLength
<1>4. CASE DestroyHandle /\ UNCHANGED metadata
  BY <1>1, <1>4, DestroyedReads
<1>5. CASE /\ \/ Loaded(IF server.lengths THEN size[version] ELSE 0, EtagOf, Date, FALSE, FALSE)
              \/ Loaded(ProbeLength, EtagOf, Date, FALSE, FALSE)
              \/ Loaded(0, 0, 0, TRUE, FALSE)
           /\ UNCHANGED <<restVars, tries>>
  <2>1. PICK len \in Nat, tag \in {0, EtagOf}, date \in {0, Date}, force \in BOOLEAN :
          Loaded(len, tag, date, force, FALSE) /\ (Info(len, tag, date) \/ len = 0)
    <3>1. CASE Loaded(0, 0, 0, TRUE, FALSE)
      BY <3>1
    <3>2. CASE Loaded(ProbeLength, EtagOf, Date, FALSE, FALSE)
      BY <1>2, <1>3, <3>2
    <3>3. CASE Loaded(IF server.lengths THEN size[version] ELSE 0, EtagOf, Date, FALSE, FALSE)
      <4> DEFINE len == IF server.lengths THEN size[version] ELSE 0
      <4>1. len \in Nat /\ (len = size[version] \/ len = 0)
        BY <1>2
      <4>2. Loaded(len, EtagOf, Date, FALSE, FALSE)
        BY <3>3
      <4> HIDE DEF len
      <4>3. Info(len, EtagOf, Date) \/ len = 0
        BY <1>3, <4>1
      <4> QED
        BY <4>1, <4>2, <4>3
    <3> QED
      BY <1>5, <3>1, <3>2, <3>3
  <2>2. UNCHANGED <<serverVars, client, cached_file, restVars, tries, told>>
    BY <1>1, <1>5
  <2> QED
    BY <1>1, <2>1, <2>2, LoadedReads
<1>6. CASE /\ pc' = "probe"
           /\ UNCHANGED <<infoVars, metadata, cached_file_handle, read_buffer, restVars, tries>>
  <2>1. /\ UNCHANGED <<buffer_start, buffer_end, last_read, file_offset, call, failed, seen,
                       misplaced, eof>>
        /\ call' = NoCall /\ ~failed' /\ seen' = {} /\ ~misplaced' /\ eof' = -1 /\ last_read' = -1
    BY <1>1, <1>6 DEF Base, Lines, restVars, resultVars
  <2>2. /\ Opening' /\ ~Ranged' /\ ~Cached' /\ ~DownloadInRead' /\ metadata' = NoEntry
        /\ ~cached_file'.initialized
    BY <1>1, <1>6 DEF Opening, Ranged, Cached, DownloadInRead
  <2>3. /\ Modes' /\ Position' /\ NoFallback' /\ RangedBytes' /\ RangedNothing' /\ CachedBytes'
        /\ Lengths' /\ Infos'
    BY <1>6, <2>1, <2>2
    DEF Modes, Position, NoFallback, RangedBytes, RangedNothing, CachedBytes, Lengths, Infos
  <2>4. Results'
    BY <2>1 DEF Results, RightBytes, OneVersion, EofIsTrue
  <2> QED
    BY <2>3, <2>4 DEF Reads
<1> QED
  BY <1>4, <1>5, <1>6 DEF HeadRequest, Probe

\* A call of Read.
LEMMA StartReads ==
  ASSUME Base, Base', Careful, Reads, Results, NEW loc \in Nat, NEW n \in Nat,
         StartRead(loc, n),
         loc + n <= length,
         eof' = eof \/ eof' = length
  PROVE  Reads' /\ Results'
<1>1. /\ pc = "idle" /\ pc' = "read" /\ ~failed /\ failed' = failed /\ call = NoCall
      /\ call' = [NoCall EXCEPT !.location = loc, !.nr_bytes = n]
      /\ UNCHANGED <<server, client, version, size, metadata, length, etag, last_modified,
                     cached_file_handle, cached_file, read_buffer, buffer_start, buffer_end,
                     last_read, file_offset, seen, misplaced>>
  BY DEF StartRead, Careful, Base, Lines, serverVars, infoVars, cacheVars, windowVars
<1>2. call'.location = loc /\ call'.nr_bytes = n /\ call'.out = <<>>
  BY <1>1 DEF NoCall
<1>3. /\ ~Opening /\ ~DownloadInRead /\ ~Opening' /\ ~DownloadInRead' /\ Ranged' = Ranged
      /\ Cached' = Cached /\ WindowStands /\ WindowStands'
  BY <1>1 DEF Opening, DownloadInRead, Ranged, Cached, WindowStands
<1>4. Modes' /\ Lengths' /\ NoFallback' /\ RangedNothing'
  BY <1>1, <1>2, <1>3 DEF Reads, Modes, Lengths, NoFallback, RangedNothing, Cached
<1>5. Position'
  BY <1>1, <1>2, <1>3 DEF Reads, Position
<1>6. /\ \A v : Fits(v)' = Fits(v) /\ Whole(v)' = Whole(v)
      /\ Validated' = Validated
      /\ \A len, tag, date : Info(len, tag, date)' = Info(len, tag, date)
  BY <1>1, Frame
<1>7. Infos'
  BY <1>1, <1>3, <1>6 DEF Reads, Infos
<1>8. RangedBytes'
  BY <1>1, <1>2, <1>3, <1>6, NothingFacts DEF Reads, RangedBytes, FitsAt, AllFit
<1>9. CachedBytes'
  BY <1>1, <1>3, <1>6 DEF Reads, CachedBytes
<1>10. RightBytes'
  BY <1>1, <1>6 DEF Results, RightBytes
<1>11. Results'
  BY <1>1, <1>4, <1>5, <1>7, <1>8, <1>9, <1>10, ResultsFollow DEF Base
<1> QED
  BY <1>4, <1>5, <1>7, <1>8, <1>9, <1>11 DEF Reads

\* Read and Seek.
LEMMA ReadCallReads ==
  ASSUME Base, Base', Careful, Reads, Results, UNCHANGED situation,
         CallRead \/ CallReadNext \/ Seek
  PROVE  Reads' /\ Results'
<1>0. length \in Nat /\ file_offset \in Nat
  BY DEF Base, Types, HandleTypes
<1>1. CASE CallRead
  <2>1. PICK loc \in 0 .. length : \E n \in 1 .. length - loc : StartRead(loc, n) /\ UNCHANGED eof
    BY <1>1 DEF CallRead
  <2>2. PICK n \in 1 .. length - loc : StartRead(loc, n) /\ UNCHANGED eof
    BY <2>1
  <2>3. loc \in Nat /\ n \in Nat /\ loc + n <= length
    BY <1>0
  <2> QED
    BY <2>2, <2>3, StartReads
<1>2. CASE CallReadNext
  <2>1. PICK n \in ReadLengths :
          LET max_read == IF file_offset <= length THEN length - file_offset ELSE n
              nr == MinOf(max_read, n)
          IN  /\ StartRead(file_offset, nr)
              /\ eof' = IF nr < n THEN file_offset + nr ELSE eof
    BY <1>2 DEF CallReadNext
  <2> DEFINE nr == MinOf(IF file_offset <= length THEN length - file_offset ELSE n, n)
  <2>2. StartRead(file_offset, nr) /\ eof' = IF nr < n THEN file_offset + nr ELSE eof
    BY <2>1
  <2>3. file_offset <= length
    BY <2>2 DEF StartRead, Careful, Reads, Position, Opening
  <2>4. n \in Nat
    BY ReadLengthFacts DEF Base, Types, ServerTypes
  <2>5. nr \in Nat /\ file_offset + nr <= length /\ (nr < n => file_offset + nr = length)
    BY <1>0, <2>3, <2>4 DEF MinOf
  <2> HIDE DEF nr
  <2> QED
    BY <1>0, <2>2, <2>5, StartReads
<1>3. CASE Seek
  <2>1. /\ pc = "idle" /\ ~failed /\ file_offset' \in 0 .. length
        /\ UNCHANGED <<server, client, version, size, metadata, length, etag, last_modified,
                       cached_file_handle, cached_file, read_buffer, buffer_start, buffer_end,
                       last_read, pc, call, failed, seen, misplaced, eof>>
    BY <1>3 DEF Seek, Careful, serverVars, infoVars, cacheVars, windowVars, resultVars
  <2>2. /\ Opening' = Opening /\ DownloadInRead' = DownloadInRead /\ Ranged' = Ranged
        /\ Cached' = Cached /\ WindowStands' = WindowStands /\ InRead' = InRead
    BY <2>1 DEF Opening, DownloadInRead, Ranged, Cached, WindowStands, InRead
  <2>3. Modes' /\ Lengths' /\ RangedNothing'
    BY <2>1, <2>2 DEF Reads, Modes, Lengths, RangedNothing
  <2>4. Position'
    BY <1>0, <2>1, <2>2 DEF Reads, Position
  <2>5. /\ \A v : Fits(v)' = Fits(v) /\ Whole(v)' = Whole(v)
        /\ Validated' = Validated /\ ServerValidates' = ServerValidates /\ Blind' = Blind
        /\ \A len, tag, date : Info(len, tag, date)' = Info(len, tag, date)
    BY <2>1, Frame
  <2>6. Infos' /\ NoFallback'
    BY <2>1, <2>2, <2>5 DEF Reads, Infos, NoFallback
  <2>7. RangedBytes'
    BY <2>1, <2>2, <2>5 DEF Reads, RangedBytes, FitsAt, AllFit
  <2>8. CachedBytes'
    BY <2>1, <2>2, <2>5 DEF Reads, CachedBytes
  <2>9. Results'
    BY <2>1, <2>5 DEF Results, RightBytes, OneVersion, EofIsTrue
  <2> QED
    BY <2>3, <2>4, <2>6, <2>7, <2>8, <2>9 DEF Reads
<1> QED
  BY <1>1, <1>2, <1>3

\* A full download is there: a handle that was reading by ranges goes on with it if
\* it has the length known.
LEMMA DownloadedReads ==
  ASSUME Base, Base', Careful, Reads, Results, pc = "download", NEW data \in Bytes,
         Downloaded(data), UNCHANGED <<serverVars, client>>,
         \E v \in 1 .. version : data = Whole(v),
         DownloadInRead /\ ServerValidates /\ ~Blind => ~PreconditionFails,
         DownloadInRead => data = Whole(version)
  PROVE  Reads' /\ Results'
<1>1. /\ UNCHANGED <<server, client, version, size, etag, last_modified, read_buffer, buffer_start,
                     buffer_end, last_read, metadata>>
      /\ length' = Len(data) /\ Len(data) \in Nat /\ cached_file_handle
  BY LenProperties DEF Downloaded, windowVars, serverVars, Bytes, Reads, Modes
<1>2. CASE InRead /\ call.head_reported_length # Len(data)
  <2>1. /\ Throw /\ cached_file' = NewCachedFile /\ ~NewCachedFile.initialized
    BY <1>2, NothingFacts DEF Downloaded
  <2> QED
    BY <1>1, <2>1, ThrowReads
<1>3. CASE ~(InRead /\ call.head_reported_length # Len(data))
  <2>1. /\ cached_file' = [data |-> data, initialized |-> TRUE]
        /\ cached_file'.data = data /\ cached_file'.initialized
        /\ pc' = IF InRead THEN "read" ELSE "idle"
        /\ UNCHANGED <<cached_file_handle, file_offset, call, failed, seen, misplaced, eof>>
        /\ InRead' = InRead
    BY <1>3 DEF Downloaded, resultVars, InRead
  <2>2. ~Opening' /\ ~Ranged' /\ Cached' /\ ~DownloadInRead' /\ ~failed'
    BY <1>1, <2>1 DEF Opening, Ranged, Cached, DownloadInRead, Reads, Modes
  <2>3. Modes' /\ NoFallback' /\ RangedBytes' /\ RangedNothing'
    BY <1>1, <2>1, <2>2 DEF Modes, NoFallback, RangedBytes, RangedNothing
  <2>4. \A v : Fits(v)' = Fits(v) /\ Whole(v)' = Whole(v)
    BY <1>1, Frame
  <2>5. Validated' = Validated /\ \A len, tag, date : Info(len, tag, date)' = Info(len, tag, date)
    BY <1>1, Frame
  <2>6. CASE ~InRead
    <3>1. /\ Opening /\ metadata = NoEntry
          /\ seen' = {} /\ ~misplaced' /\ eof' = -1 /\ file_offset' = 0
          /\ call'.location = 0 /\ call'.nr_bytes = 0
      BY <2>1, <2>6, NothingFacts DEF Opening, Reads, Modes, Base, Lines
    <3>2. Position' /\ Lengths' /\ Infos' /\ CachedBytes'
      BY <1>1, <2>1, <2>2, <3>1 DEF Position, Lengths, Infos, CachedBytes
    <3>3. Results'
      BY <3>1 DEF Results, RightBytes, OneVersion, EofIsTrue
    <3> QED
      BY <2>3, <3>2, <3>3 DEF Reads
  <2>7. CASE InRead
    <3>1. /\ DownloadInRead /\ Ranged /\ ~Opening /\ ~failed /\ data = Whole(version)
          /\ length = Len(data) /\ length' = length
      BY <1>1, <1>3, <2>7 DEF DownloadInRead, Ranged, Opening, Reads, Modes, Position
    <3>2. Position'
      BY <1>1, <2>1, <2>2, <3>1 DEF Reads, Position
    <3>3. Lengths' /\ Infos'
      BY <1>1, <2>1, <2>2, <2>5, <3>1 DEF Reads, Lengths, Infos
    <3>4. CachedBytes'
      <4> SUFFICES ASSUME Validated', NEW v \in seen'
                   PROVE  v \in 1 .. version /\ size[v] > 0 /\ cached_file'.data = Whole(v)
        BY <1>1, <2>4 DEF CachedBytes
      <4>1. Fits(v)
        BY <2>1, <2>5, <3>1 DEF Reads, RangedBytes
      <4>2. last_read # -1
        BY <2>1, <3>1 DEF Reads, RangedNothing
      <4>3. version = 1 \/ (ServerValidates /\ ~Blind)
        BY <2>5, <4>2 DEF Validated
      <4>4. Fits(version)
        <5>1. /\ version = 1 \/ (ServerValidates /\ ~Blind /\ ~server.ranges /\ ~PreconditionFails)
              /\ Info(length, etag, last_modified)
          BY <3>1, <4>3 DEF Reads, NoFallback, Infos
        <5>2. CASE version = 1
          <6>1. v = 1
            BY <4>1, <5>2 DEF Fits
          <6> QED
            BY <4>1, <5>2, <6>1
        <5>3. CASE version # 1
          BY <5>1, <5>3, CurrentFits DEF Base
        <5> QED
          BY <5>2, <5>3
      <4>5. v = version
        BY <4>1, <4>3, <4>4, OneFits DEF Base
      <4>6. size[version] > 0
        <5>1. length = size[version] /\ length \in Nat
          BY <3>1, WholeFileFacts DEF Base, Types, HandleTypes
        <5>2. /\ call.location \in Nat /\ call.nr_bytes \in Nat
              /\ call.location + call.nr_bytes <= length
          BY <3>1 DEF Base, Types, CallTypes, Calls, Reads, Position
        <5> QED
          BY <2>7, <5>1, <5>2 DEF InRead
      <4> QED
        BY <2>1, <3>1, <4>1, <4>5, <4>6 DEF Fits
    <3>5. RightBytes'
      BY <2>1, <2>5 DEF Results, RightBytes
    <3>6. Results'
      BY <2>2, <2>3, <3>2, <3>3, <3>4, <3>5, ResultsFollow DEF Base
    <3> QED
      BY <2>3, <3>2, <3>3, <3>4, <3>6 DEF Reads
  <2> QED
    BY <2>6, <2>7
<1> QED
  BY <1>2, <1>3

\* A full download fails.
LEMMA DownloadThrowsReads ==
  ASSUME Base, Base', Careful, Reads, Results, pc = "download", NEW len,
         DownloadThrows(len),
         UNCHANGED <<serverVars, client, cached_file>>, ~cached_file.initialized,
         metadata' = metadata \/ metadata' = NoEntry
  PROVE  Reads' /\ Results'
<1>1. CASE InRead
  BY <1>1, ThrowReads DEF DownloadThrows, windowVars
<1>2. CASE ~InRead
  BY <1>2, DestroyedReads DEF DownloadThrows
<1> QED
  BY <1>1, <1>2

\* A request is repeated.
LEMMA RetryReads ==
  ASSUME Base, Base', Careful, Reads, Results,
         pc = "download" \/ (pc = "range" /\ (call.refill \/ UNCHANGED read_buffer)),
         UNCHANGED <<serverVars, client, length, etag, last_modified, cached_file,
                     cached_file_handle, buffer_start, buffer_end, last_read, pc, call,
                     file_offset, resultVars>>,
         pc = "download" => UNCHANGED read_buffer,
         Len(read_buffer') = Len(read_buffer),
         metadata' = metadata \/ metadata' = NoEntry
  PROVE  Reads' /\ Results'
<1>1. UNCHANGED <<server, client, version, size, failed, seen, misplaced, eof>>
  BY DEF serverVars, resultVars
<1>2. /\ Opening' = Opening /\ DownloadInRead' = DownloadInRead /\ Ranged' = Ranged
      /\ Cached' = Cached /\ WindowStands' = WindowStands /\ InRead' = InRead
  BY DEF Opening, DownloadInRead, Ranged, Cached, WindowStands, InRead
<1>3. /\ \A v : Fits(v)' = Fits(v) /\ Whole(v)' = Whole(v)
      /\ Validated' = Validated /\ ServerValidates' = ServerValidates /\ Blind' = Blind
      /\ \A len, tag, date : Info(len, tag, date)' = Info(len, tag, date)
  BY <1>1, Frame
<1>4. Modes' /\ Position' /\ Lengths' /\ RangedNothing'
  BY <1>1, <1>2 DEF Reads, Modes, Position, Lengths, RangedNothing
<1>5. Infos' /\ NoFallback'
  BY <1>1, <1>2, <1>3 DEF Reads, Infos, NoFallback
<1>6. RangedBytes'
  <2>1. WindowStands' => read_buffer' = read_buffer
    BY DEF WindowStands
  <2> QED
    BY <1>1, <1>2, <1>3, <2>1 DEF Reads, RangedBytes, FitsAt, AllFit
<1>7. CachedBytes'
  BY <1>1, <1>2, <1>3 DEF Reads, CachedBytes
<1>8. Results'
  BY <1>1, <1>3 DEF Results, RightBytes, OneVersion, EofIsTrue
<1> QED
  BY <1>4, <1>5, <1>6, <1>7, <1>8 DEF Reads

\* FullDownload.
LEMMA FullDownloadReads ==
  ASSUME Base, Base', Careful, Reads, Results, FullDownload
  PROVE  Reads' /\ Results'
<1>1. /\ pc = "download" /\ UNCHANGED <<serverVars, client>> /\ CurlWhole /\ ~client.streaming
      /\ cached_file.data \in Bytes
  BY DEF FullDownload, Careful, Base, Downloads, Types, CacheTypes
<1>2. CASE cached_file.initialized
  <2>1. Downloaded(cached_file.data) /\ ~DownloadInRead
    BY <1>2 DEF FullDownload, Reads, Modes, DownloadInRead
  <2>2. \E v \in 1 .. version : cached_file.data = Whole(v)
    BY <1>1, <1>2 DEF CurlWhole
  <2> QED
    BY <1>1, <2>1, <2>2, DownloadedReads
<1>3. CASE ~cached_file.initialized /\ DownloadSucceeds
  <2> DEFINE data == SubSeq(Chunk(cached_file.data, WholeFile), 1,
                            LengthAfter(cached_file.data, WholeFile))
  <2>1. data = Whole(version) /\ version \in 1 .. version /\ Whole(version) \in Bytes
    BY <1>1, <1>3, SucceedsFacts, WholeFileFacts DEF Base, Types
  <2>2. Downloaded(data) /\ ~PreconditionFails
    BY <1>3 DEF DownloadSucceeds
  <2> HIDE DEF data
  <2> QED
    BY <1>1, <2>1, <2>2, DownloadedReads
<1>4. CASE ~cached_file.initialized /\ DownloadBreaks
  <2>1. PICK bytes \in Received(WholeFile) :
          LET none == bytes = <<>>
              len  == IF none THEN length ELSE LengthAfter(cached_file.data, bytes)
          IN  /\ cached_file' = [cached_file EXCEPT !.data = IF none THEN @ ELSE Chunk(@, bytes)]
              /\ IF tries < Retries
                 THEN /\ tries' = tries + 1 /\ length' = len
                      /\ UNCHANGED <<pc, etag, last_modified, cached_file_handle,
                                     read_buffer, restVars>>
                 ELSE DownloadThrows(len)
    BY <1>4 DEF DownloadBreaks
  <2>2. bytes = <<>>
    BY <1>1, WholeFileFacts, ReceivedFacts DEF Base, Types
  <2>3. cached_file' = cached_file /\ UNCHANGED metadata
    BY <1>4, <2>1, <2>2 DEF DownloadBreaks, Base, Types, CacheTypes
  <2>4. CASE tries < Retries
    <3>1. /\ length' = length
          /\ UNCHANGED <<pc, etag, last_modified, cached_file_handle, read_buffer, restVars>>
      BY <2>1, <2>2, <2>4
    <3> QED
      BY <1>1, <2>3, <3>1, RetryReads DEF restVars
  <2>5. CASE ~(tries < Retries)
    <3>1. DownloadThrows(length)
      BY <2>1, <2>2, <2>5
    <3> QED
      BY <1>1, <1>4, <2>3, <3>1, DownloadThrowsReads
  <2> QED
    BY <2>4, <2>5
<1>5. CASE ~cached_file.initialized /\ DownloadRefused
  <2>1. /\ DownloadThrows(length) /\ UNCHANGED cached_file
        /\ metadata' = metadata \/ metadata' = NoEntry
    BY <1>5 DEF DownloadRefused, FileChanged, EraseEntry
  <2> QED
    BY <1>1, <1>5, <2>1, DownloadThrowsReads
<1> QED
  BY <1>2, <1>3, <1>4, <1>5 DEF FullDownload

\* A Read from a full download.
LEMMA ReadCachedReads ==
  ASSUME Base, Base', Careful, Reads, Results, ReadCached
  PROVE  Reads' /\ Results'
<1>1. /\ pc = "read" /\ cached_file_handle /\ ~failed /\ Cached /\ cached_file.initialized
      /\ UNCHANGED <<serverVars, server, client, version, size, metadata, length, etag,
                     last_modified, cached_file_handle, cached_file, read_buffer, buffer_start,
                     buffer_end, last_read>>
  BY DEF ReadCached, serverVars, infoVars, cacheVars, windowVars, Reads, Modes, Cached
<1>2. CASE Throw
  BY <1>1, <1>2, ThrowReads
<1>3. CASE ~Throw
  <2> DEFINE part == SubSeq(cached_file.data, call.location + 1, call.location + call.nr_bytes)
  <2>1. call.location + call.nr_bytes <= Len(cached_file.data) /\ Deliver(part)
    BY <1>3 DEF ReadCached
  <2>2. /\ part \in Bytes /\ Len(part) = call.nr_bytes
        /\ \A i \in 1 .. call.nr_bytes : /\ part[i] = cached_file.data[call.location + i]
                                         /\ call.location + i \in 1 .. Len(cached_file.data)
    BY <2>1, CachedPartFacts DEF Base
  <2> HIDE DEF part
  <2>3. PICK v \in 1 .. version : cached_file.data = Whole(v)
    BY <1>1 DEF Careful, Base, Downloads, CurlWhole
  <2>4. /\ v \in Versions /\ size[v] \in Nat /\ Len(cached_file.data) = size[v] /\ v # 0
        /\ \A i \in 1 .. size[v] : cached_file.data[i] = <<v, i - 1>>
    <3>1. v \in Versions /\ size[v] \in Nat
      BY BoundFacts DEF Base, Types, ServerTypes, Versions
    <3> QED
      BY <2>3, <3>1, WholeFacts DEF Base, Types
  <2>5. call.nr_bytes \in Nat /\ call.location \in Nat /\ length \in Nat
    BY DEF Base, Types, HandleTypes, CallTypes, Calls
  <2>6. ASSUME NEW i \in 1 .. call.nr_bytes
        PROVE  part[i] = <<v, call.location + i - 1>>
    <3> DEFINE j == call.location + i
    <3>1. part[i] = cached_file.data[j] /\ j \in 1 .. size[v]
      BY <2>2, <2>4
    <3>2. j - 1 = call.location + i - 1
      BY <2>5
    <3> HIDE DEF j
    <3>3. cached_file.data[j] = <<v, j - 1>>
      BY <2>4, <3>1
    <3> QED
      BY <3>1, <3>2, <3>3
  <2>7. /\ pc' = "idle" /\ call' = NoCall /\ failed' = failed /\ eof' = eof
        /\ file_offset' = call.location + call.nr_bytes
        /\ \A u \in seen' : u \in seen \/ (u = v /\ call.nr_bytes > 0)
        /\ misplaced' = misplaced
    <3>1. \A i \in 1 .. Len(part) : part[i][1] = v /\ IsByteAt(part[i], call.location + i - 1)
      BY <2>2, <2>4, <2>6 DEF IsByteAt
    <3>2. misplaced' = misplaced
      BY <2>1, <3>1 DEF Deliver, Base, Types, ResultTypes
    <3>3. \A u \in seen' : u \in seen \/ (u = v /\ call.nr_bytes > 0)
      BY <2>1, <2>2, <2>5, <3>1 DEF Deliver
    <3> QED
      BY <2>1, <3>2, <3>3 DEF Deliver
  <2>8. ~Opening' /\ ~Opening /\ ~Ranged' /\ Cached' /\ ~DownloadInRead'
    BY <1>1, <2>7 DEF Opening, Ranged, Cached, DownloadInRead
  <2>9. Modes' /\ Lengths' /\ NoFallback' /\ RangedBytes' /\ RangedNothing'
    BY <1>1, <2>7, <2>8
       DEF Reads, Modes, Lengths, NoFallback, RangedBytes, RangedNothing
  <2>10. Position'
    BY <1>1, <2>5, <2>7, <2>8, NothingFacts DEF Reads, Position
  <2>11. /\ \A u : Whole(u)' = Whole(u)
         /\ Validated' = Validated
         /\ \A len, tag, date : Info(len, tag, date)' = Info(len, tag, date)
    BY <1>1, Frame
  <2>12. Infos'
    BY <1>1, <2>8, <2>11 DEF Reads, Infos
  <2>13. CachedBytes'
    <3>1. call.nr_bytes > 0 => size[v] > 0
      BY <2>1, <2>4, <2>5
    <3> QED
      BY <1>1, <2>3, <2>7, <2>11, <3>1 DEF Reads, CachedBytes
  <2>14. RightBytes'
    BY <2>7, <2>11 DEF Results, RightBytes
  <2>15. Results'
    BY <1>1, <2>7, <2>9, <2>10, <2>12, <2>13, <2>14, ResultsFollow DEF Base
  <2> QED
    BY <2>9, <2>10, <2>12, <2>13, <2>15 DEF Reads
<1> QED
  BY <1>2, <1>3

\* A Read that returns bytes it read by ranges.
LEMMA DeliverReads ==
  ASSUME Base, Base', Careful, Reads, Results, pc \in {"read", "range"},
         ~cached_file_handle,
         NEW bytes \in Bytes, Deliver(bytes),
         UNCHANGED <<serverVars, client, metadata, infoVars, cached_file, cached_file_handle>>,
         Validated' => Validated,
         Validated' => AllFit(bytes, call.location),
         Validated' => \A i \in 1 .. buffer_end' - buffer_start' :
                         FitsAt(read_buffer'[i], buffer_start' + i - 1),
         last_read' = -1 => /\ last_read = -1 /\ bytes = <<>>
                            /\ buffer_start' = 0 /\ buffer_end' = 0
  PROVE  Reads' /\ Results'
<1>1. /\ UNCHANGED <<server, client, version, size, length, etag, last_modified>>
      /\ pc' = "idle" /\ call' = NoCall /\ failed' = failed /\ eof' = eof /\ ~failed
      /\ file_offset' = call.location + call.nr_bytes
  BY DEF Deliver, serverVars, infoVars, Reads, Modes
<1>2. /\ ~Opening /\ Ranged /\ ~DownloadInRead
      /\ ~Opening' /\ Ranged' /\ ~Cached' /\ ~DownloadInRead'
  BY <1>1 DEF Opening, Ranged, Cached, DownloadInRead
<1>3. /\ \A v : Fits(v)' = Fits(v) /\ Whole(v)' = Whole(v)
      /\ \A len, tag, date : Info(len, tag, date)' = Info(len, tag, date)
  BY <1>1, Frame
<1>4. Modes' /\ Lengths' /\ NoFallback' /\ CachedBytes'
  BY <1>1, <1>2 DEF Reads, Modes, Lengths, NoFallback, CachedBytes
<1>5. Position'
  <2>1. call.location \in Nat /\ call.nr_bytes \in Nat /\ file_offset \in Nat /\ length \in Nat
    BY DEF Base, Types, HandleTypes, CallTypes, Calls
  <2> QED
    BY <1>1, <1>2, <2>1, NothingFacts DEF Reads, Position
<1>6. Infos'
  BY <1>1, <1>2, <1>3 DEF Reads, Infos
<1>7. seen' = seen \cup {bytes[i][1] : i \in 1 .. Len(bytes)}
  BY DEF Deliver
<1>8. RangedBytes'
  <2>1. Validated' => \A v \in seen' : Fits(v)
    BY <1>1, <1>2, <1>7 DEF Reads, RangedBytes, AllFit, FitsAt
  <2> QED
    BY <1>1, <1>3, <2>1, NothingFacts DEF RangedBytes, AllFit, FitsAt
<1>9. RangedNothing'
  <2>1. last_read' = -1 => seen' = {}
    <3>1. bytes = <<>> => {bytes[i][1] : i \in 1 .. Len(bytes)} = {}
      BY NothingFacts
    <3> QED
      BY <1>1, <1>2, <1>7, <3>1 DEF Reads, RangedNothing
  <2> QED
    BY <1>1, <2>1, NothingFacts DEF RangedNothing
<1>10. RightBytes'
  <2>1. ASSUME Validated' PROVE misplaced' = misplaced
    <3>1. \A i \in 1 .. Len(bytes) : IsByteAt(bytes[i], call.location + i - 1)
      BY <2>1 DEF AllFit, FitsAt, Fits, IsByteAt
    <3> QED
      BY <3>1 DEF Deliver, Base, Types, ResultTypes
  <2> QED
    BY <2>1 DEF Results, RightBytes
<1>11. Results'
  BY <1>1, <1>4, <1>5, <1>6, <1>8, <1>9, <1>10, ResultsFollow DEF Base
<1> QED
  BY <1>4, <1>5, <1>6, <1>8, <1>9, <1>11 DEF Reads

\* A range is asked for.
LEMMA StartRangeReads ==
  ASSUME Base, Base', Careful, Reads, Results, pc = "read", ~cached_file_handle,
         NEW copied \in Bytes, NEW at \in Nat, NEW len \in Nat, NEW refill \in BOOLEAN,
         StartRange(copied, at, len, refill),
         UNCHANGED <<serverVars, client, metadata, infoVars, cacheVars, buffer_start, buffer_end,
                     last_read>>,
         refill \/ UNCHANGED read_buffer,
         at + len <= length,
         Validated => AllFit(copied, call.location),
         last_read = -1 => copied = <<>>
  PROVE  Reads' /\ Results'
<1>1. /\ UNCHANGED <<server, client, version, size, length, etag, last_modified, cached_file,
                     cached_file_handle, file_offset, failed, seen, misplaced, eof>>
      /\ pc' = "range" /\ ~failed
  BY DEF StartRange, serverVars, infoVars, cacheVars, resultVars, Reads, Modes
<1>2. /\ call'.location = call.location /\ call'.nr_bytes = call.nr_bytes /\ call'.out = copied
      /\ call'.at = at /\ call'.len = len /\ call'.refill = refill
  BY DEF StartRange, Base, Types, CallTypes, Calls
<1>3. /\ ~Opening /\ Ranged /\ ~DownloadInRead
      /\ ~Opening' /\ Ranged' /\ ~Cached' /\ ~DownloadInRead'
  BY <1>1 DEF Opening, Ranged, Cached, DownloadInRead
<1>4. /\ \A v : Fits(v)' = Fits(v) /\ Whole(v)' = Whole(v)
      /\ Validated' = Validated
      /\ \A l, tag, date : Info(l, tag, date)' = Info(l, tag, date)
  BY <1>1, Frame
<1>5. Modes' /\ Lengths' /\ NoFallback' /\ CachedBytes'
  BY <1>1, <1>3 DEF Reads, Modes, Lengths, NoFallback, CachedBytes
<1>6. Position'
  BY <1>1, <1>2, <1>3 DEF Reads, Position
<1>7. Infos'
  BY <1>1, <1>3, <1>4 DEF Reads, Infos
<1>8. RangedBytes'
  <2>1. WindowStands' => WindowStands /\ read_buffer' = read_buffer
    BY <1>1, <1>2 DEF WindowStands
  <2> QED
    BY <1>1, <1>2, <1>3, <1>4, <2>1 DEF Reads, RangedBytes, AllFit, FitsAt
<1>9. RangedNothing'
  BY <1>1, <1>2, <1>3 DEF Reads, RangedNothing
<1>10. Results'
  BY <1>1, <1>4 DEF Results, RightBytes, OneVersion, EofIsTrue
<1> QED
  BY <1>5, <1>6, <1>7, <1>8, <1>9, <1>10 DEF Reads

\* A Read that asks for what it needs.
LEMMA ReadDirectReads ==
  ASSUME Base, Base', Careful, Reads, Results, ReadDirect
  PROVE  Reads' /\ Results'
<1>1. /\ pc = "read" /\ ~cached_file_handle /\ StartRange(<<>>, call.location, call.nr_bytes, FALSE)
      /\ UNCHANGED <<serverVars, client, metadata, infoVars, cacheVars, buffer_start, buffer_end,
                     last_read, read_buffer>>
  BY DEF ReadDirect, windowVars
<1>2. call.location \in Nat /\ call.nr_bytes \in Nat /\ call.location + call.nr_bytes <= length
  BY <1>1 DEF Base, Types, CallTypes, Calls, Reads, Modes, Position, Opening
<1>3. AllFit(<<>>, call.location)
  BY NothingFacts DEF AllFit
<1> QED
  BY <1>1, <1>2, <1>3, NothingFacts, StartRangeReads

\* A Read through the buffer.
LEMMA ReadBufferedReads ==
  ASSUME Base, Base', Careful, Reads, Results, ReadBuffered
  PROVE  Reads' /\ Results'
<1> DEFINE start == call.location + Len(FromWindow)
           to_read == call.nr_bytes - Len(FromWindow)
<1>1. /\ pc = "read" /\ ~cached_file_handle /\ ~failed /\ Ranged /\ ~Opening /\ WindowStands
      /\ FromWindow \in Bytes /\ length \in Nat /\ Len(FromWindow) \in Nat
      /\ call.location \in Nat /\ call.nr_bytes \in Nat /\ call.location + call.nr_bytes <= length
      /\ UNCHANGED <<serverVars, client, metadata, infoVars, cacheVars, cached_file,
                     cached_file_handle, buffer_start, buffer_end, last_read>>
      /\ UNCHANGED <<server, version, size, etag, last_modified>>
  BY FromWindowFacts
  DEF ReadBuffered, Base, Types, HandleTypes, CallTypes, Calls, Reads, Modes, Position,
      Opening, Ranged, WindowStands, cacheVars, serverVars, infoVars
<1>2. /\ start \in Nat /\ to_read \in Nat /\ start + to_read = call.location + call.nr_bytes
      /\ start <= length
  BY <1>1, RestFacts DEF Base
<1>3. Validated => AllFit(FromWindow, call.location)
  <2> SUFFICES ASSUME Validated, NEW i \in 1 .. Len(FromWindow)
               PROVE  FitsAt(FromWindow[i], call.location + i - 1)
    BY DEF AllFit
  <2> DEFINE j == call.location - buffer_start + i
  <2>1. j \in 1 .. buffer_end - buffer_start /\ FromWindow[i] = read_buffer[j]
    BY FromWindowFacts DEF Base, Types
  <2>2. buffer_start + j - 1 = call.location + i - 1
    BY SMTT(30), <1>1 DEF Base, Types, BufferTypes
  <2> HIDE DEF j
  <2>3. FitsAt(read_buffer[j], buffer_start + j - 1)
    BY <1>1, <2>1 DEF Reads, RangedBytes
  <2> QED
    BY <2>1, <2>2, <2>3
<1>4. last_read = -1 => FromWindow = <<>> /\ buffer_start = 0 /\ buffer_end = 0
  BY <1>1 DEF Reads, RangedNothing, FromWindow, InWindow
<1>5. CASE to_read = 0
  <2>1. Deliver(FromWindow) /\ UNCHANGED read_buffer
    BY <1>5 DEF ReadBuffered
  <2>2. Validated' = Validated
    BY <1>1, Frame
  <2>3. Validated => \A i \in 1 .. buffer_end' - buffer_start' :
                       FitsAt(read_buffer'[i], buffer_start' + i - 1)
    BY <1>1, <2>1 DEF Reads, RangedBytes
  <2> QED
    BY <1>1, <1>3, <1>4, <2>1, <2>2, <2>3, DeliverReads
<1>6. CASE to_read # 0 /\ to_read > Available(Len(read_buffer), start)
  <2>1. StartRange(FromWindow, start, to_read, FALSE) /\ UNCHANGED read_buffer
    BY <1>6 DEF ReadBuffered
  <2>2. start + to_read <= length
    BY <1>1, <1>2
  <2> HIDE DEF start, to_read
  <2> QED
    BY <1>1, <1>2, <1>3, <1>4, <2>1, <2>2, StartRangeReads
<1>7. CASE to_read # 0 /\ ~(to_read > Available(Len(read_buffer), start))
  <2> DEFINE len == Available(Len(read_buffer'), start)
  <2>1. read_buffer' = AdaptReadBufferSize(start) /\ StartRange(FromWindow, start, len, TRUE)
    BY <1>7 DEF ReadBuffered
  <2>2. Len(read_buffer') \in Nat /\ Len(read_buffer) <= Len(read_buffer')
    BY <2>1, AdaptFacts DEF Base, Types
  <2>3. to_read <= Available(Len(read_buffer), start)
    <3>1. Len(read_buffer) \in Nat
      BY LenProperties DEF Base, Types, BufferTypes, Bytes
    <3>2. Available(Len(read_buffer), start) \in Int
      BY <1>1, <1>2, <3>1 DEF Available, MinOf
    <3> QED
      BY <1>2, <1>7, <3>2
  <2> HIDE DEF start, to_read
  <2>4. len \in Nat /\ start + len <= length
    BY <1>2, <1>7, <2>2, <2>3, AvailableFacts DEF Base
  <2> HIDE DEF len
  <2> QED
    BY <1>1, <1>2, <1>3, <1>4, <2>1, <2>4, StartRangeReads
<1> QED
  BY <1>5, <1>6, <1>7


\* A request for a range that ends as one of the server's mistakes.
LEMMA RangeFallsBackReads ==
  ASSUME Base, Base', Careful, Reads, Results, pc = "range", RangeFallsBack,
         UNCHANGED <<serverVars, client, infoVars, cached_file>>
  PROVE  Reads' /\ Results'
<1>1. /\ pc' = "download" /\ cached_file_handle' = TRUE /\ ~cached_file_handle /\ ~failed
      /\ UNCHANGED <<server, client, version, size, length, etag, last_modified, metadata,
                     cached_file, read_buffer, buffer_start, buffer_end, last_read, file_offset,
                     failed, seen, misplaced, eof>>
  BY DEF RangeFallsBack, serverVars, infoVars, windowVars, resultVars, Reads, Modes
<1>2. /\ call' = [call EXCEPT !.head_reported_length = length]
      /\ call'.location = call.location /\ call'.nr_bytes = call.nr_bytes
      /\ call'.out = call.out /\ call'.head_reported_length = length
  BY DEF RangeFallsBack, Base, Types, CallTypes, Calls
<1>3. InRead'
  <2>1. call.nr_bytes \in Nat /\ Len(call.out) \in Nat /\ call.len \in Nat
        /\ call.nr_bytes - Len(call.out) \in 1 .. call.len
    BY LenProperties DEF Base, Types, CallTypes, Calls, Bytes
  <2>2. call.nr_bytes > 0
    BY <2>1
  <2> QED
    BY <1>2, <2>2 DEF InRead
<1>4. /\ ~Opening /\ Ranged /\ ~DownloadInRead
      /\ ~Opening' /\ Ranged' /\ ~Cached' /\ DownloadInRead'
  BY <1>1, <1>3 DEF Opening, Ranged, Cached, DownloadInRead
<1>5. /\ \A v : Fits(v)' = Fits(v) /\ Whole(v)' = Whole(v)
      /\ Validated' = Validated /\ ServerValidates' = ServerValidates /\ Blind' = Blind
      /\ \A len, tag, date : Info(len, tag, date)' = Info(len, tag, date)
  BY <1>1, Frame
<1>6. Modes' /\ Lengths' /\ CachedBytes'
  BY <1>1, <1>3, <1>4 DEF Reads, Modes, Lengths, CachedBytes
<1>7. Position'
  BY <1>1, <1>2, <1>4 DEF Reads, Position
<1>8. Infos'
  BY <1>1, <1>4, <1>5 DEF Reads, Infos
<1>9. NoFallback'
  <2> SUFFICES ASSUME ServerValidates, ~Blind, server.ranges PROVE FALSE
    BY <1>1, <1>5 DEF NoFallback
  <2> DEFINE at == call.at
             len == call.len
  <2>1. /\ ~PreconditionFails /\ ~EtagDiffers /\ ~Unsatisfiable(at)
        /\ Len(RangeBody(at, len)) # len
    BY DEF RangeFallsBack, RangeNotSupported
  <2>2. length = size[version] /\ size[version] \in Nat
    BY <1>1, <1>4, <2>1, CurrentFits, WholeFileFacts DEF Base, Reads, Infos, Types
  <2>3. at \in Nat /\ len \in Nat /\ at + len <= length
    BY <1>1, <1>4 DEF Base, Types, CallTypes, Calls, Reads, Position
  <2> HIDE DEF at, len
  <2>4. RangeBody(at, len) = FileBytes(at, at + len)
    <3>1. MinOf(at + len, size[version]) = at + len
      BY <2>2, <2>3 DEF MinOf
    <3> QED
      BY <3>1 DEF RangeBody
  <2> DEFINE to == at + len
  <2>5. to \in Nat /\ at <= to /\ to - at = len /\ RangeBody(at, len) = FileBytes(at, to)
    BY <2>3, <2>4
  <2> HIDE DEF to
  <2>6. Len(FileBytes(at, to)) = to - at
    BY <2>3, <2>5, FileBytesFacts DEF Base, Types
  <2> QED
    BY <2>1, <2>5, <2>6
<1>10. RangedBytes' /\ RangedNothing'
  <2>1. ~WindowStands'
    BY <1>1 DEF WindowStands
  <2> QED
    BY <1>1, <1>2, <1>4, <1>5, <2>1
       DEF Reads, RangedBytes, RangedNothing, AllFit, FitsAt
<1>11. Results'
  BY <1>1, <1>5 DEF Results, RightBytes, OneVersion, EofIsTrue
<1> QED
  BY <1>6, <1>7, <1>8, <1>9, <1>10, <1>11 DEF Reads

\* The bytes of an answer that counts are those asked for.
LEMMA AnswerFits ==
  ASSUME Base, Careful, Reads, pc = "range", Accepted(call.at, call.len),
         Len(Body) = call.len,
         \/ version = 1
         \/ ServerValidates /\ ~Blind
  PROVE  AllFit(Body, call.at)
<1> DEFINE at == call.at
           len == call.len
<1>1. /\ ~PreconditionFails /\ ~EtagDiffers /\ Ranged /\ ~Opening /\ ~failed
  BY DEF Accepted, Reads, Modes, Ranged, Opening
<1>2. Fits(version) /\ length = size[version]
  BY <1>1, CurrentFits DEF Base, Reads, Infos
<1>3. /\ at \in Nat /\ len \in Nat /\ at + len <= length /\ len > 0 /\ ~Unsatisfiable(at)
  <2>1. /\ call.at \in Nat /\ call.len \in Nat /\ call.at + call.len <= length
        /\ ~Unsatisfiable(call.at)
    BY <1>1, AnswerFacts DEF Base, Reads, Position
  <2>2. call.nr_bytes - Len(call.out) \in 1 .. call.len
    BY DEF Base, Types, CallTypes
  <2>3. call.len > 0
    BY <2>1, <2>2
  <2> QED
    BY <2>1, <2>3
<1>4. Body = RangeBody(at, len)
  BY DEF Body
<1>5. length \in Nat
  BY DEF Base, Types, HandleTypes
<1> HIDE DEF at, len
<1>6. \A i \in 1 .. Len(Body) : Body[i] = <<version, at + i - 1>>
  <2>1. CASE server.ranges
    BY <1>3, <1>4, <2>1, RangeBodyFacts DEF Base, Types
  <2>2. CASE ~server.ranges
    <3>1. /\ Len(Body) = size[version]
          /\ \A i \in 1 .. Len(Body) : Body[i] = <<version, i - 1>>
      BY <1>3, <1>4, <2>2, RangeBodyFacts DEF Base, Types
    <3>2. len = length
      BY <1>2, <3>1 DEF len
    <3>3. at = 0
      BY <1>3, <1>5, <3>2
    <3>4. \A i \in 1 .. Len(Body) : i - 1 = at + i - 1
      BY <3>3
    <3> QED
      BY <3>1, <3>4
  <2> QED
    BY <2>1, <2>2
<1> QED
  BY <1>2, <1>6 DEF AllFit, FitsAt, at

\* A range that is answered.
LEMMA RangeSucceedsReads ==
  ASSUME Base, Base', Careful, Reads, Results, pc = "range", RangeSucceeds,
         UNCHANGED <<serverVars, client, infoVars, cached_file>>
  PROVE  Reads' /\ Results'
<1> DEFINE rest == SubSeq(Body, 1, call.nr_bytes - Len(call.out))
           bytes == call.out \o rest
<1>1. /\ Accepted(call.at, call.len) /\ Len(Body) = call.len /\ Overwrite(Body)
      /\ last_read' = call.at + call.len /\ Deliver(bytes)
      /\ IF call.refill
         THEN buffer_start' = call.at /\ buffer_end' = call.at + call.len
         ELSE UNCHANGED <<buffer_start, buffer_end>>
      /\ UNCHANGED <<metadata, cached_file_handle>>
  BY DEF RangeSucceeds
<1>2. /\ bytes \in Bytes
      /\ \A i \in 1 .. Len(bytes) :
           \/ i \in 1 .. Len(call.out) /\ bytes[i] = call.out[i]
           \/ /\ i - Len(call.out) \in 1 .. Len(Body)
              /\ bytes[i] = Body[i - Len(call.out)]
  BY <1>1, AnsweredRead DEF Base
<1> HIDE DEF bytes
<1>3. /\ UNCHANGED <<server, client, version, size, etag, last_modified>>
      /\ ~cached_file_handle /\ ~failed /\ Ranged /\ Body \in Bytes
      /\ call.at \in Nat /\ call.len \in Nat /\ call.location \in Nat /\ Len(call.out) \in Nat
      /\ call.at = call.location + Len(call.out)
      /\ call.refill => call.len <= Len(read_buffer)
  BY <1>1, AnswerFacts, LenProperties
  DEF serverVars, infoVars, Reads, Modes, Ranged, Base, Types, CallTypes, Calls, Bytes
<1>4. last_read' # -1
  BY <1>1, <1>3
<1>5. Validated' => Validated /\ (version = 1 \/ (ServerValidates /\ ~Blind))
  BY <1>3, <1>4, Frame DEF Validated
<1>6. Validated' => AllFit(Body, call.at)
  BY <1>1, <1>5, AnswerFits
<1>7. Validated' => AllFit(call.out, call.location)
  BY <1>3, <1>5 DEF Reads, RangedBytes
<1>8. Validated' => AllFit(bytes, call.location)
  <2> SUFFICES ASSUME Validated', NEW i \in 1 .. Len(bytes)
               PROVE  FitsAt(bytes[i], call.location + i - 1)
    BY DEF AllFit
  <2>1. CASE i \in 1 .. Len(call.out) /\ bytes[i] = call.out[i]
    BY <1>7, <2>1 DEF AllFit
  <2>2. CASE /\ i - Len(call.out) \in 1 .. Len(Body)
             /\ bytes[i] = Body[i - Len(call.out)]
    <3> DEFINE j == i - Len(call.out)
    <3>1. j \in 1 .. Len(Body) /\ bytes[i] = Body[j]
      BY <2>2
    <3>2. call.at + j - 1 = call.location + i - 1
      <4>1. Len(bytes) \in Nat
        BY <1>2, LenProperties DEF Bytes
      <4>2. i \in Int
        BY <4>1
      <4> QED
        BY <1>3, <4>2
    <3> HIDE DEF j
    <3>3. FitsAt(Body[j], call.at + j - 1)
      BY <1>6, <3>1 DEF AllFit
    <3> QED
      BY <3>1, <3>2, <3>3
  <2> QED
    BY <1>2, <2>1, <2>2
<1>9. ASSUME Validated', NEW i \in 1 .. buffer_end' - buffer_start'
      PROVE  FitsAt(read_buffer'[i], buffer_start' + i - 1)
  <2>1. /\ ~call.refill => read_buffer' = read_buffer
        /\ call.refill => \A j \in 1 .. Len(Body) : read_buffer'[j] = Body[j]
    BY <1>1, <1>3, OverwriteFacts DEF Base, Types
  <2>2. CASE call.refill
    <3>1. buffer_start' = call.at /\ buffer_end' - buffer_start' = Len(Body)
      BY <1>1, <1>3, <2>2
    <3> QED
      BY <1>6, <1>9, <2>1, <2>2, <3>1 DEF AllFit
  <2>3. CASE ~call.refill
    <3>1. WindowStands /\ UNCHANGED <<read_buffer, buffer_start, buffer_end>>
      BY <1>1, <2>1, <2>3 DEF WindowStands
    <3> QED
      BY <1>3, <1>5, <1>9, <3>1 DEF Reads, RangedBytes
  <2> QED
    BY <2>2, <2>3
<1> QED
  BY <1>1, <1>2, <1>3, <1>4, <1>5, <1>8, <1>9, DeliverReads

\* What a range that does not succeed writes into the read buffer.
LEMMA SpoiledBuffer ==
  ASSUME Types, pc = "range", RangeBreaks \/ RangeShort
  PROVE  Len(read_buffer') = Len(read_buffer) /\ (call.refill \/ read_buffer' = read_buffer)
<1>1. PICK bytes \in Bytes : Overwrite(bytes) /\ (call.refill => Len(bytes) <= Len(read_buffer))
  BY SpoilingBytes
<1> QED
  BY <1>1, OverwriteFacts DEF Types

\* The answer to a range request.
LEMMA RangeReads ==
  ASSUME Base, Base', Careful, Reads, Results, TryRangeRequest
  PROVE  Reads' /\ Results'
<1>1. /\ pc = "range" /\ ~cached_file_handle /\ ~cached_file.initialized
      /\ UNCHANGED <<serverVars, client, infoVars, length, etag, last_modified, cached_file>>
  BY DEF TryRangeRequest, infoVars, Reads, Modes
<1>2. CASE RangeSucceeds
  BY <1>1, <1>2, RangeSucceedsReads
<1>3. CASE RangeFallsBack
  BY <1>1, <1>3, RangeFallsBackReads
<1>4. CASE RangeBreaks \/ RangeShort \/ RangeChanged \/ RangeRefused
  <2>1. /\ UNCHANGED <<cached_file_handle, last_read, buffer_start, buffer_end>>
        /\ metadata' = metadata \/ metadata' = NoEntry
    BY <1>4
    DEF RangeBreaks, RangeShort, RangeChanged, RangeRefused, FileChanged, EraseEntry, windowVars
  <2>2. CASE Throw
    BY <1>1, <2>1, <2>2, ThrowReads
  <2>3. CASE ~Throw
    <3>1. UNCHANGED <<pc, call, file_offset, resultVars>>
      BY <1>4, <2>3 DEF RangeBreaks, RangeShort, RangeChanged, RangeRefused
    <3>2. Len(read_buffer') = Len(read_buffer) /\ (call.refill \/ UNCHANGED read_buffer)
      BY <1>1, <1>4, SpoiledBuffer DEF RangeChanged, RangeRefused, windowVars, Base
    <3> QED
      BY <1>1, <2>1, <3>1, <3>2, RetryReads
  <2> QED
    BY <2>2, <2>3
<1> QED
  BY <1>2, <1>3, <1>4 DEF TryRangeRequest

-----------------------------------------------------------------------------
\* Every step keeps what holds of reading by a careful client.
LEMMA ReadsStep ==
  ASSUME Base, Base', Careful, Reads, Results, [Next]_<<vars, situation>>
  PROVE  Reads' /\ Results'
<1>1. CASE UNCHANGED <<vars, situation>>
  <2>1. UNCHANGED <<server, client, version, size, metadata, length, etag, last_modified,
                    cached_file_handle, cached_file, read_buffer, buffer_start, buffer_end,
                    last_read, file_offset, pc, call, failed, seen, misplaced, eof>>
    BY <1>1 DEF vars, serverVars, infoVars, cacheVars, windowVars, resultVars
  <2>2. /\ Opening' = Opening /\ DownloadInRead' = DownloadInRead /\ Ranged' = Ranged
        /\ Cached' = Cached /\ WindowStands' = WindowStands /\ InRead' = InRead
    BY <2>1 DEF Opening, DownloadInRead, Ranged, Cached, WindowStands, InRead
  <2>3. /\ \A v : Fits(v)' = Fits(v) /\ Whole(v)' = Whole(v)
        /\ Validated' = Validated /\ ServerValidates' = ServerValidates /\ Blind' = Blind
        /\ \A len, tag, date : Info(len, tag, date)' = Info(len, tag, date)
    BY <2>1, Frame
  <2>4. Modes' /\ Position' /\ Lengths' /\ RangedNothing'
    BY <2>1, <2>2 DEF Reads, Modes, Position, Lengths, RangedNothing
  <2>5. Infos' /\ NoFallback' /\ RangedBytes' /\ CachedBytes'
    BY <2>1, <2>2, <2>3
    DEF Reads, Infos, NoFallback, RangedBytes, CachedBytes, FitsAt, AllFit
  <2>6. Results'
    BY <2>1, <2>3 DEF Results, RightBytes, OneVersion, EofIsTrue
  <2> QED
    BY <2>4, <2>5, <2>6 DEF Reads
<1>2. CASE Close
  BY <1>2, DestroyedReads DEF Close
<1>3. CASE Next
  <2>1. UNCHANGED situation
    BY <1>3 DEF Next
  <2> QED
    BY <1>2, <1>3, <2>1, RewriteReads, OpenReads, HeadReads, QueryEndReads,
       FullDownloadReads,
       ReadCallReads, ReadCachedReads, ReadDirectReads, ReadBufferedReads, RangeReads DEF Next
<1> QED
  BY <1>1, <1>3

\* The invariant holds at first, and every step keeps it.
LEMMA HandleInvInit == Init => HandleInv
<1> SUFFICES ASSUME Init PROVE HandleInv
  OBVIOUS
<1>1. /\ pc = "closed" /\ ~cached_file_handle /\ call = NoCall /\ ~failed /\ seen = {}
      /\ misplaced = FALSE /\ eof = -1 /\ last_read = -1 /\ file_offset = 0
      /\ buffer_start = 0 /\ buffer_end = 0 /\ length = 0 /\ etag = 0 /\ last_modified = 0
      /\ metadata = NoEntry /\ cached_file = NewCachedFile /\ told = {} /\ read_buffer = <<>>
  BY DEF Init, FreshHandle
<1>2. Types
  BY TypesInit
<1>3. Lines
  BY <1>1 DEF Lines
<1>4. Told
  <2>1. <<metadata.etag, metadata.last_modified>> \notin told
    BY <1>1
  <2> QED
    BY <1>1, <2>1, NothingFacts
       DEF Told, Validators, ToldAreOld, StaleEntryIsDropped, Tags, Dates
<1>5. Downloads
  BY <1>1, NothingFacts DEF Downloads, CurlWhole
<1>6. Opening /\ ~Ranged /\ ~Cached /\ ~DownloadInRead
  BY <1>1 DEF Opening, Ranged, Cached, DownloadInRead
<1>7. Reads
  BY <1>1, <1>6, NothingFacts
  DEF Reads, Modes, Position, Lengths, Infos, NoFallback, RangedBytes, RangedNothing, CachedBytes
<1>8. Results
  BY <1>1 DEF Results, RightBytes, OneVersion, EofIsTrue
<1> QED
  BY <1>2, <1>3, <1>4, <1>5, <1>7, <1>8 DEF HandleInv, Base

LEMMA HandleInvStep == HandleInv /\ [Next]_<<vars, situation>> => HandleInv'
<1> SUFFICES ASSUME HandleInv, [Next]_<<vars, situation>> PROVE HandleInv'
  OBVIOUS
<1>1. Base'
  BY TypesStep, LinesStep, ToldStep, DownloadsStep DEF HandleInv, Base
<1>2. client' = client
  BY DEF vars, Next, Rewrite, Open, HeadRequest, Probe, Close, QueryEnd, FullDownload,
     CallRead,
     CallReadNext, Seek, StartRead, ReadCached, ReadDirect, ReadBuffered, TryRangeRequest
<1>3. Careful' = Careful
  BY <1>2 DEF Careful
<1> QED
  BY <1>1, <1>3, ReadsStep DEF HandleInv

LEMMA HandleInvHolds == Spec => []HandleInv
<1> QED
  BY HandleInvInit, HandleInvStep, PTL DEF Spec

-----------------------------------------------------------------------------
\* The variables of a handle have their types and bounds: the read buffer grows to
\* at most twice its maximum, a window lies within it, and requests are repeated
\* at most http_retries times.
THEOREM ReadTypeCorrect == Spec => []TypeOK
<1>1. HandleInv => TypeOK
  BY DEF HandleInv, Base, Types, ServerTypes, HandleTypes, BufferTypes, ResultTypes,
     CallTypes,
     Pcs, Numbers, TypeOK
<1> QED
  BY <1>1, HandleInvHolds, PTL

\* With the curl client a cached file is one version of the file, whole, whatever
\* broke before, and whatever else the client is like.
THEOREM DownloadsAreWhole == Spec => []CurlCachesWhole
<1>1. HandleInv => CurlCachesWhole
  <2> SUFFICES ASSUME HandleInv, ~client.streaming, cached_file.initialized PROVE CachedIsWhole
    BY DEF CurlCachesWhole, CachedIsWhole
  <2>1. PICK v \in 1 .. version : cached_file.data = Whole(v)
    BY DEF HandleInv, Base, Downloads, CurlWhole
  <2>2. v \in Versions
    BY BoundFacts DEF HandleInv, Base, Types, ServerTypes, Versions
  <2> QED
    BY <2>1, <2>2 DEF CachedIsWhole, Whole
<1> QED
  BY <1>1, HandleInvHolds, PTL

\* What a handle was told is stale, for any server and client, is not in the global
\* metadata cache, and does not come back.
THEOREM StaleEntriesStayAway == Spec => []StaleEntryIsDropped
<1>1. HandleInv => StaleEntryIsDropped
  BY DEF HandleInv, Base, Told
<1> QED
  BY <1>1, HandleInvHolds, PTL

\* What Read delivers to a careful caller, from its buffer, by ranges, from a
\* download, or first this way and then that, stands in the file at the offset
\* asked for.
THEOREM ReadsAreRight == Spec => [](Careful => RightBytes)
<1>1. HandleInv => (Careful => RightBytes)
  BY DEF HandleInv, Results
<1> QED
  BY <1>1, HandleInvHolds, PTL

\* All of it is of one version, also when ranged reads end in a download.
THEOREM ReadsAreOfOneVersion == Spec => [](Careful => OneVersion)
<1>1. HandleInv => (Careful => OneVersion)
  BY DEF HandleInv, Results
<1> QED
  BY <1>1, HandleInvHolds, PTL

\* A sequential reader stops where that version ends.
THEOREM EndOfFileIsTrue == Spec => [](Careful => EofIsTrue)
<1>1. HandleInv => (Careful => EofIsTrue)
  BY DEF HandleInv, Results
<1> QED
  BY <1>1, HandleInvHolds, PTL
=============================================================================
