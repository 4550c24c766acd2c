--------------------------- MODULE HTTPFileHandle ---------------------------
(***************************************************************************)
(* The read path of an http(s):// file: HTTPFileHandle::Initialize opens   *)
(* the file (metadata cache, HEAD, a ranged probe, or a full download),    *)
(* HTTPFileSystem::Read answers from the read buffer, from ranged GETs, or *)
(* from a full download when the server does not support ranges.           *)
(*                                                                         *)
(* The remote file may be rewritten between any two attempts of a request. *)
(* A byte is the pair of the version of the file it was taken from and its *)
(* offset there, so that a read can be compared with the file.  An ETag is *)
(* the version it names.                                                   *)
(*                                                                         *)
(* Handles for reading, one after the other, by one thread.  External: the *)
(* server, and the request loop of HTTPUtil, which repeats an attempt that *)
(* failed, one whose handlers threw included, up to http_retries times.    *)
(***************************************************************************)
EXTENDS Integers, Sequences

CONSTANTS
    Situations, \* the situations there may be, by name, see below
    MaxVersion, \* bound: versions of the remote file
    Retries,    \* http_retries
    INITIAL_READ_BUFFER_LEN,
    MAXIMUM_READ_BUFFER_LEN

ServerTraits == [
    ranges : BOOLEAN,       \* supports Range
    conditional : BOOLEAN,  \* honors If-Match and If-Unmodified-Since
    etag : {"none", "weak", "strong"},
    dates : BOOLEAN,        \* Last-Modified is sent, and tells versions apart
    lengths : BOOLEAN,      \* the answer to HEAD has a Content-Length
    chunked : BOOLEAN,      \* the answers to GET have none
    head : BOOLEAN]         \* answers HEAD

ClientTraits == [
    force_download : BOOLEAN,
    auto_fallback : BOOLEAN,    \* auto_fallback_to_full_download
    etag_checks : BOOLEAN,      \* ~unsafe_disable_etag_checks
    streaming : BOOLEAN,    \* httplib hands over the body as it arrives, curl
                            \* only when the transfer is complete
    skip_buffer : BOOLEAN,  \* SkipBuffer(): direct I/O
    global_cache : BOOLEAN, \* enable_http_metadata_cache
    goes_on : BOOLEAN]      \* the caller uses a handle after a Read failed

\* servers: what the server may be like; clients: settings and kind of client;
\* sizes: lengths the remote file may have; threshold: force_download_threshold;
\* bounds: handles opened, and calls of Read per handle.
ASSUME SituationAssumption == \A s \in DOMAIN Situations :
    /\ Situations[s].servers \subseteq ServerTraits
    /\ Situations[s].clients \subseteq ClientTraits
    /\ Situations[s].sizes \subseteq Nat /\ Situations[s].threshold \in Nat
    /\ Situations[s].max_opens \in Nat /\ Situations[s].max_reads \in Nat
ASSUME ReadBoundsAssumption ==
    /\ MaxVersion \in Nat \ {0} /\ Retries \in Nat
    /\ INITIAL_READ_BUFFER_LEN \in Nat \ {0}
    /\ MAXIMUM_READ_BUFFER_LEN \in Nat /\ INITIAL_READ_BUFFER_LEN <= MAXIMUM_READ_BUFFER_LEN

VARIABLES
    situation,              \* its name
    \* the server
    server, version, size,
    \* what handles share
    client,                 \* the settings
    metadata,               \* the entry of the HTTPMetadataCache
    cached_file,            \* the CachedFile of the HTTPState
    \* the HTTPFileHandle
    length, etag, last_modified,
    cached_file_handle,     \* FALSE: null
    read_buffer, buffer_start, buffer_end, file_offset,
    last_read,              \* the end of range_request_statistics.back(), or -1
    \* the call under way
    pc,
    call,                   \* the variables of Read and ReadInternal
    tries,                  \* attempts of the request that failed
    opens, reads,
    \* what the caller of the present handle has seen
    failed,                 \* some Read threw
    seen,                   \* versions of the bytes delivered
    misplaced,              \* a byte delivered was not the one asked for
    eof,                    \* the offset where Read came to the end, or -1
    told                    \* validators rejected as those of a changed file

serverVars == <<server, version, size>>
infoVars   == <<length, etag, last_modified>>
cacheVars  == <<cached_file_handle, cached_file>>
windowVars == <<read_buffer, buffer_start, buffer_end, last_read>>
boundVars  == <<opens, reads>>
resultVars == <<failed, seen, misplaced, eof>>
\* what LoadFileInfo and FullDownload do not touch
restVars   == <<buffer_start, buffer_end, last_read, file_offset, call, reads,
                resultVars>>
vars == <<serverVars, client, metadata, infoVars, cacheVars, windowVars,
          file_offset, pc, call, tries, boundVars, resultVars, told>>

Servers   == Situations[situation].servers
Clients   == Situations[situation].clients
Sizes     == Situations[situation].sizes
Threshold == Situations[situation].threshold
MaxOpens  == Situations[situation].max_opens
MaxReads  == Situations[situation].max_reads

Versions == 1 .. MaxVersion
Garbage == <<0, 0>>                 \* uninitialized memory
Uninitialized(n) == [i \in 1 .. n |-> Garbage]
NoEntry == [length |-> -1, etag |-> 0, last_modified |-> 0]
NoCall == [location |-> 0, nr_bytes |-> 0,
           out |-> <<>>,                        \* bytes copied so far
           at |-> 0, len |-> 0, refill |-> FALSE,   \* the range asked for
           head_reported_length |-> 0]
NewCachedFile == [data |-> <<>>, initialized |-> FALSE]

\* What a caller may ask for.
ReadLengths == UNION {1 .. n : n \in Sizes}

MinOf(a, b) == IF a < b THEN a ELSE b

\* The bytes from .. to - 1 of the file as it is now.
FileBytes(from, to) == [i \in 1 .. to - from |-> <<version, from + i - 1>>]

EtagOf == IF server.etag = "none" THEN 0 ELSE version

\* Last-Modified, to the second.
Date == IF server.dates THEN version ELSE 0

FreshHandle ==
    /\ length = 0 /\ etag = 0 /\ last_modified = 0
    /\ cached_file_handle = FALSE
    /\ read_buffer = <<>> /\ buffer_start = 0 /\ buffer_end = 0
    /\ file_offset = 0 /\ last_read = -1
    /\ pc = "closed"
    /\ call = NoCall /\ tries = 0 /\ reads = 0
    /\ failed = FALSE /\ seen = {} /\ misplaced = FALSE /\ eof = -1

Init ==
    /\ situation \in DOMAIN Situations
    /\ server \in Servers /\ client \in Clients
    /\ version = 1 /\ size \in [Versions -> Sizes]
    /\ metadata = NoEntry /\ cached_file = NewCachedFile
    /\ FreshHandle
    /\ opens = 0 /\ told = {}

\* The remote file is rewritten.
Rewrite ==
    /\ version < MaxVersion
    /\ version' = version + 1
    /\ UNCHANGED <<server, size, client, metadata, infoVars, cacheVars,
                   windowVars, file_offset, pc, call, tries, boundVars, resultVars, told>>

-----------------------------------------------------------------------------
(* Conditional reads.                                                      *)

\* Mutant: the precondition is not sent.
PreconditionNeverFails == FALSE

\* AddConsistencyPreconditions: If-Match with a strong ETag, otherwise
\* If-Unmodified-Since with the date, if there is one; the server answers
\* 412.
PreconditionFails ==
    /\ client.etag_checks /\ server.conditional
    /\ IF etag # 0 /\ server.etag = "strong"
       THEN etag # version
       ELSE last_modified # 0 /\ last_modified # Date

\* Mutant: the comparison is lost.
EtagNeverDiffers == FALSE

\* The response handler of RunGetRangeRequest compares the ETags.
EtagDiffers ==
    client.etag_checks /\ etag # 0 /\ EtagOf # 0 /\ etag # EtagOf

\* Mutant: the stale entry stays.
KeepEntry == UNCHANGED metadata

\* Both checks drop the entry from the global cache only.
EraseEntry == metadata' = IF client.global_cache THEN NoEntry ELSE metadata

\* The error that says so.
FileChanged == EraseEntry /\ told' = told \cup {<<etag, last_modified>>}

-----------------------------------------------------------------------------
(* Opening and closing: Initialize, LoadFileInfo, the destructor.          *)

\* An exception of Initialize, or the destructor.
DestroyHandle ==
    /\ length' = 0 /\ etag' = 0 /\ last_modified' = 0
    /\ cached_file_handle' = FALSE
    /\ read_buffer' = <<>> /\ buffer_start' = 0 /\ buffer_end' = 0
    /\ file_offset' = 0 /\ last_read' = -1
    /\ pc' = "closed"
    /\ call' = NoCall /\ tries' = 0 /\ reads' = 0
    /\ failed' = FALSE /\ seen' = {} /\ misplaced' = FALSE /\ eof' = -1

\* FullDownload, called by Initialize.
StartFullDownload ==
    /\ pc' = "download" /\ cached_file_handle' = TRUE
    /\ UNCHANGED <<read_buffer, metadata>>

ReadyToRead ==
    /\ pc' = "idle"
    /\ read_buffer' = IF client.skip_buffer THEN <<>>
                      ELSE Uninitialized(INITIAL_READ_BUFFER_LEN)

\* The rest of Initialize, with what LoadFileInfo found out.  FullDownload
\* keeps the metadata out of the cache.
Loaded(len, tag, date, force, cached) ==
    /\ length' = len /\ etag' = tag /\ last_modified' = date
    /\ IF len = 0 \/ len < Threshold \/ force
       THEN StartFullDownload
       ELSE /\ ReadyToRead
            /\ cached_file_handle' = cached
            /\ metadata' = [length |-> len, etag |-> tag, last_modified |-> date]

\* Initialize: a forced download, the entry of the metadata cache, or, in
\* LoadFileInfo, an earlier full download of the file, or a HEAD request.
Open ==
    /\ pc = "closed" /\ opens < MaxOpens
    /\ opens' = opens + 1
    /\ IF client.force_download
       THEN StartFullDownload /\ UNCHANGED infoVars
       ELSE IF metadata # NoEntry
       THEN /\ length' = metadata.length /\ etag' = metadata.etag
            /\ last_modified' = metadata.last_modified
            /\ cached_file_handle' = cached_file.initialized
            /\ ReadyToRead
            /\ UNCHANGED metadata
       ELSE IF cached_file.initialized
       THEN Loaded(Len(cached_file.data), 0, 0, FALSE, TRUE)
       ELSE /\ pc' = "head"
            /\ UNCHANGED <<infoVars, metadata, cached_file_handle, read_buffer>>
    /\ UNCHANGED <<serverVars, client, cached_file, restVars, tries, told>>

\* HEAD.  An answer other than 200, 301 and 404 leads to the probe.
HeadRequest ==
    /\ pc = "head"
    /\ \/ /\ server.head
          /\ Loaded(IF server.lengths THEN size[version] ELSE 0, EtagOf, Date, FALSE, FALSE)
          /\ UNCHANGED <<restVars, tries>>
       \/ /\ pc' = "probe"
          /\ UNCHANGED <<infoVars, metadata, cached_file_handle, read_buffer,
                         restVars, tries>>
       \/ DestroyHandle /\ UNCHANGED metadata
    /\ UNCHANGED <<serverVars, client, cached_file, opens, told>>

\* The handle is closed by its owner.
Close ==
    /\ pc = "idle"
    /\ DestroyHandle
    /\ UNCHANGED <<serverVars, client, metadata, cached_file, opens, told>>

\* HTTPState::Reset, and HTTPMetadataCache::QueryEnd of the local cache.
QueryEnd ==
    /\ pc = "closed"
    /\ cached_file' = NewCachedFile
    /\ metadata' = IF client.global_cache THEN metadata ELSE NoEntry
    /\ UNCHANGED <<serverVars, client, infoVars, cached_file_handle, read_buffer,
                   restVars, pc, tries, opens, told>>

-----------------------------------------------------------------------------
(* RunGetRangeRequest: what the server answers, and the checks on it.      *)

RangeBody(at, len) ==
    IF server.ranges
    THEN FileBytes(at, MinOf(at + len, size[version]))
    ELSE FileBytes(0, size[version])

\* The server has no byte of the range: 416.
Unsatisfiable(at) == server.ranges /\ at >= size[version]

\* The response handler throws RangeRequestNotSupportedException.
RangeNotSupported(at, len) ==
    /\ ~PreconditionFails /\ ~Unsatisfiable(at) /\ ~EtagDiffers
    /\ ~server.chunked /\ Len(RangeBody(at, len)) # len

\* The response handler lets the body through.
Accepted(at, len) ==
    /\ ~PreconditionFails /\ ~Unsatisfiable(at) /\ ~EtagDiffers
    /\ server.chunked \/ Len(RangeBody(at, len)) = len

\* Mutant: Content-Length comes before Content-Range.
ProbeLengthOfBody == IF server.chunked THEN 0 ELSE Len(RangeBody(0, 2))

\* TryParseContentRange, TryParseContentLength on the answer to the probe.
ProbeLength ==
    IF server.ranges \/ ~server.chunked THEN size[version] ELSE 0

\* LoadFileInfo asks for two bytes at 0 and drops them.
Probe ==
    /\ pc = "probe"
    /\ \/ /\ Accepted(0, 2)
          /\ Loaded(ProbeLength, EtagOf, Date, FALSE, FALSE)
          /\ UNCHANGED <<restVars, tries>>
       \/ /\ RangeNotSupported(0, 2) /\ client.auto_fallback
          /\ Loaded(0, 0, 0, TRUE, FALSE)
          /\ UNCHANGED <<restVars, tries>>
       \/ DestroyHandle /\ UNCHANGED metadata
    /\ UNCHANGED <<serverVars, client, cached_file, opens, told>>

-----------------------------------------------------------------------------
(* Ends of Read.                                                           *)

Throw ==
    /\ pc' = "idle" /\ call' = NoCall /\ tries' = 0
    /\ failed' = TRUE
    /\ UNCHANGED <<file_offset, seen, misplaced, eof>>

IsByteAt(b, offset) == b[1] # 0 /\ b[2] = offset

Deliver(bytes) ==
    /\ pc' = "idle" /\ call' = NoCall /\ tries' = 0
    /\ file_offset' = call.location + call.nr_bytes
    /\ seen' = seen \cup {bytes[i][1] : i \in 1 .. Len(bytes)}
    /\ misplaced' = (misplaced \/ \E i \in 1 .. Len(bytes) :
                                     ~IsByteAt(bytes[i], call.location + i - 1))
    /\ UNCHANGED <<failed, eof>>

-----------------------------------------------------------------------------
(* FullDownload: RunGetRequest writes into the CachedFile.                 *)

\* The content handler: the first chunk allocates the buffer, the others go
\* behind hfh.length.
Chunk(data, bytes) ==
    IF data = <<>> THEN bytes
    ELSE [i \in 1 .. length + Len(bytes) |->
            IF i > length THEN bytes[i - length]
            ELSE IF i <= Len(data) THEN data[i] ELSE Garbage]

LengthAfter(data, bytes) == IF data = <<>> THEN Len(bytes) ELSE length + Len(bytes)

InRead == call.nr_bytes > 0

\* FullDownload returns: to Initialize, or to Read, which compares the length
\* with the one known before.
Downloaded(data) ==
    /\ length' = Len(data)
    /\ IF InRead /\ call.head_reported_length # Len(data)
       THEN /\ cached_file' = NewCachedFile     \* EraseCachedFile
            /\ cached_file_handle' = FALSE
            /\ Throw
       ELSE /\ cached_file' = [data |-> data, initialized |-> TRUE]
            /\ pc' = IF InRead THEN "read" ELSE "idle"
            /\ tries' = 0
            /\ UNCHANGED <<cached_file_handle, file_offset, call, resultVars>>
    /\ UNCHANGED <<etag, last_modified, windowVars, reads, metadata, told>>

\* FullDownload throws.
DownloadThrows(len) ==
    IF InRead
    THEN /\ Throw
         /\ length' = len
         /\ UNCHANGED <<etag, last_modified, cached_file_handle, windowVars, reads>>
    ELSE DestroyHandle

\* Mutant: curl hands over what it has although the transfer failed.
ReceivedAny(body) == {SubSeq(body, 1, k) : k \in 0 .. Len(body)}

\* What the content handler gets of a body when the transfer fails.
Received(body) ==
    IF client.streaming THEN {SubSeq(body, 1, k) : k \in 0 .. Len(body)} ELSE {<<>>}

WholeFile == FileBytes(0, size[version])

\* SetInitialized(length)
DownloadSucceeds ==
    /\ ~PreconditionFails
    /\ Downloaded(SubSeq(Chunk(cached_file.data, WholeFile), 1,
                         LengthAfter(cached_file.data, WholeFile)))

\* The transfer fails, and is repeated or given up.
DownloadBreaks ==
    /\ ~PreconditionFails
    /\ \E bytes \in Received(WholeFile) :
        LET none == bytes = <<>>
            len  == IF none THEN length ELSE LengthAfter(cached_file.data, bytes)
        IN  /\ cached_file' = [cached_file EXCEPT !.data = IF none THEN @ ELSE Chunk(@, bytes)]
            /\ IF tries < Retries
               THEN /\ tries' = tries + 1 /\ length' = len
                    /\ UNCHANGED <<pc, etag, last_modified, cached_file_handle,
                                   read_buffer, restVars>>
               ELSE DownloadThrows(len)
    /\ UNCHANGED <<metadata, told>>

\* An error status, 412 if the precondition fails.
DownloadRefused ==
    /\ DownloadThrows(length)
    /\ \/ PreconditionFails /\ FileChanged
       \/ UNCHANGED <<metadata, told>>
    /\ UNCHANGED cached_file

FullDownload ==
    /\ pc = "download"
    /\ IF cached_file.initialized
       THEN Downloaded(cached_file.data)
       ELSE DownloadSucceeds \/ DownloadBreaks \/ DownloadRefused
    /\ UNCHANGED <<serverVars, client, opens>>

-----------------------------------------------------------------------------
(* Read and ReadInternal.                                                  *)

StartRead(loc, n) ==
    /\ pc = "idle" /\ reads < MaxReads
    /\ failed => client.goes_on
    /\ pc' = "read"
    /\ call' = [NoCall EXCEPT !.location = loc, !.nr_bytes = n]
    /\ reads' = reads + 1
    /\ UNCHANGED <<serverVars, client, metadata, infoVars, cacheVars, windowVars,
                   file_offset, tries, opens, failed, seen, misplaced, told>>

\* Read(handle, buffer, n, location), within the file as GetFileSize tells.
CallRead ==
    \E loc \in 0 .. length : \E n \in 1 .. length - loc :
        StartRead(loc, n) /\ UNCHANGED eof

\* Read(handle, buffer, n), at file_offset; length - file_offset is unsigned.
CallReadNext ==
    \E n \in ReadLengths :
        LET max_read == IF file_offset <= length THEN length - file_offset ELSE n
            nr == MinOf(max_read, n)
        IN  /\ StartRead(file_offset, nr)
            /\ eof' = IF nr < n THEN file_offset + nr ELSE eof

\* Seek, within the file.
Seek ==
    /\ pc = "idle" /\ reads < MaxReads
    /\ failed => client.goes_on
    /\ \E loc \in 0 .. length : file_offset' = loc
    /\ UNCHANGED <<serverVars, client, metadata, infoVars, cacheVars, windowVars,
                   pc, call, tries, boundVars, resultVars, told>>

\* From the full download.
ReadCached ==
    /\ pc = "read" /\ cached_file_handle
    /\ LET end == call.location + call.nr_bytes IN
       IF cached_file.initialized /\ end <= Len(cached_file.data)
       THEN Deliver(SubSeq(cached_file.data, call.location + 1, end))
       ELSE Throw
    /\ UNCHANGED <<serverVars, client, metadata, infoVars, cacheVars, windowVars,
                   boundVars, told>>

StartRange(copied, at, len, refill) ==
    /\ pc' = "range"
    /\ call' = [call EXCEPT !.out = copied, !.at = at, !.len = len, !.refill = refill]
    /\ UNCHANGED <<file_offset, tries, resultVars>>

ReadDirect ==
    /\ pc = "read" /\ ~cached_file_handle
    /\ client.skip_buffer /\ call.nr_bytes > 0
    /\ StartRange(<<>>, call.location, call.nr_bytes, FALSE)
    /\ UNCHANGED <<serverVars, client, metadata, infoVars, cacheVars, windowVars,
                   boundVars, told>>

InWindow == call.location >= buffer_start /\ call.location < buffer_end

\* Mutant: buffer_idx stays where the window begins.
FromWindowStart ==
    IF InWindow
    THEN SubSeq(read_buffer, 1,
                MinOf(buffer_end - call.location, call.nr_bytes))
    ELSE <<>>

\* The part of the read that the window holds.
FromWindow ==
    IF InWindow
    THEN SubSeq(read_buffer, call.location - buffer_start + 1,
                MinOf(buffer_end, call.location + call.nr_bytes) - buffer_start)
    ELSE <<>>

\* new_buffer_available; length - start_offset is unsigned.
Available(capacity, start) ==
    IF start <= length THEN MinOf(capacity, length - start) ELSE capacity

\* The buffer is replaced by one of twice its size when the last request
\* ended where this one begins.
AdaptReadBufferSize(next_read_offset) ==
    IF last_read = next_read_offset /\ Len(read_buffer) < MAXIMUM_READ_BUFFER_LEN
    THEN Uninitialized(2 * Len(read_buffer))
    ELSE read_buffer

ReadBuffered ==
    /\ pc = "read" /\ ~cached_file_handle
    /\ ~client.skip_buffer \/ call.nr_bytes = 0
    /\ LET start == call.location + Len(FromWindow)
           to_read == call.nr_bytes - Len(FromWindow)
       IN  IF to_read = 0
           THEN Deliver(FromWindow) /\ UNCHANGED read_buffer
           ELSE IF to_read > Available(Len(read_buffer), start)
           THEN StartRange(FromWindow, start, to_read, FALSE) /\ UNCHANGED read_buffer
           ELSE /\ read_buffer' = AdaptReadBufferSize(start)
                /\ StartRange(FromWindow, start, Available(Len(read_buffer'), start), TRUE)
    /\ UNCHANGED <<serverVars, client, metadata, infoVars, cacheVars, buffer_start,
                   buffer_end, last_read, boundVars, told>>

-----------------------------------------------------------------------------
(* TryRangeRequest, and the rest of ReadInternal.                          *)

Body == RangeBody(call.at, call.len)

\* memcpy into the read buffer, or into the buffer of the caller.
Overwrite(bytes) ==
    read_buffer' =
        IF call.refill
        THEN bytes \o SubSeq(read_buffer, Len(bytes) + 1, Len(read_buffer))
        ELSE read_buffer

RangeSucceeds ==
    /\ Accepted(call.at, call.len) /\ Len(Body) = call.len
    /\ Overwrite(Body)
    /\ last_read' = call.at + call.len          \* AddStatistics
    /\ IF call.refill
       THEN buffer_start' = call.at /\ buffer_end' = call.at + call.len
       ELSE UNCHANGED <<buffer_start, buffer_end>>
    /\ Deliver(call.out \o SubSeq(Body, 1, call.nr_bytes - Len(call.out)))
    /\ UNCHANGED <<metadata, told, cached_file_handle>>

\* The transfer fails, or the body is longer than the buffer: the attempt is
\* repeated or given up.
RangeBreaks ==
    /\ \E bytes \in IF Accepted(call.at, call.len)
                    THEN Received(SubSeq(Body, 1, MinOf(Len(Body), call.len)))
                    ELSE {<<>>} :
        Overwrite(bytes)
    /\ IF tries < Retries
       THEN tries' = tries + 1 /\ UNCHANGED <<pc, call, file_offset, resultVars>>
       ELSE Throw
    /\ UNCHANGED <<buffer_start, buffer_end, last_read, metadata, told, cached_file_handle>>

\* "Short read": the response was fine otherwise.
RangeShort ==
    /\ Accepted(call.at, call.len) /\ Len(Body) < call.len
    /\ Overwrite(Body)
    /\ Throw
    /\ UNCHANGED <<buffer_start, buffer_end, last_read, metadata, told, cached_file_handle>>

\* Another ETag: the response handler drops the metadata at every attempt, and
\* the caller is told after the last one.
RangeChanged ==
    /\ ~PreconditionFails /\ ~Unsatisfiable(call.at) /\ EtagDiffers
    /\ IF tries < Retries
       THEN /\ EraseEntry /\ UNCHANGED told
            /\ tries' = tries + 1 /\ UNCHANGED <<pc, call, file_offset, resultVars>>
       ELSE FileChanged /\ Throw
    /\ UNCHANGED <<windowVars, cached_file_handle>>

\* An error status, 412 if the precondition fails.
RangeRefused ==
    /\ Throw
    /\ \/ PreconditionFails /\ FileChanged
       \/ UNCHANGED <<metadata, told>>
    /\ UNCHANGED <<windowVars, cached_file_handle>>

\* The last attempt ended with RangeRequestNotSupported: Read downloads the
\* whole file.
RangeFallsBack ==
    /\ RangeNotSupported(call.at, call.len) /\ tries = Retries
    /\ client.auto_fallback
    /\ pc' = "download"
    /\ call' = [call EXCEPT !.head_reported_length = length]
    /\ cached_file_handle' = TRUE
    /\ tries' = 0
    /\ UNCHANGED <<windowVars, file_offset, resultVars, metadata, told>>

TryRangeRequest ==
    /\ pc = "range"
    /\ \/ RangeSucceeds \/ RangeBreaks \/ RangeShort \/ RangeChanged
       \/ RangeRefused \/ RangeFallsBack
    /\ UNCHANGED <<serverVars, client, infoVars, cached_file, boundVars>>

-----------------------------------------------------------------------------
Next ==
    /\ \/ Rewrite \/ Open \/ HeadRequest \/ Probe \/ Close \/ QueryEnd \/ FullDownload
       \/ CallRead \/ CallReadNext \/ Seek \/ ReadCached \/ ReadDirect \/ ReadBuffered
       \/ TryRangeRequest
    /\ UNCHANGED situation

Spec == Init /\ [][Next]_<<vars, situation>>

-----------------------------------------------------------------------------
TypeOK ==
    /\ server \in Servers /\ client \in Clients /\ version \in Versions
    /\ length \in Nat /\ etag \in 0 .. MaxVersion /\ last_modified \in 0 .. MaxVersion
    /\ pc \in {"closed", "head", "probe", "download", "idle", "read", "range"}
    /\ Len(read_buffer) <= 2 * MAXIMUM_READ_BUFFER_LEN
    /\ buffer_end - buffer_start \in 0 .. Len(read_buffer)
    /\ call.refill => call.len <= Len(read_buffer)
    /\ tries \in 0 .. Retries
    /\ seen \subseteq 0 .. MaxVersion

\* The code can notice that the file has changed: the server honors a precondition
\* that tells versions apart, or ranged answers carry an ETag to compare.
ServerValidates ==
    /\ client.etag_checks
    /\ \/ server.conditional /\ (server.etag = "strong" \/ server.dates)
       \/ server.ranges /\ server.etag # "none"

\* The handle does not know which version it reads.  So it is with a file that was
\* opened from a full download and entered the metadata cache then.
Blind == etag = 0 /\ last_modified = 0

\* The file did not change under the handle, or a changed file is noticed.  A blind
\* handle notices nothing once it reads by ranges (Read_blind.cfg).
Validated == version = 1 \/ (ServerValidates /\ (Blind => last_read = -1))

\* A Read that returns has put the bytes of the file at the offset asked for
\* into the buffer, whichever of them came from the read buffer, a request or
\* a download, as long as no call on the handle has failed.
RightBytes == Validated => ~misplaced

\* All bytes a handle delivers are of one version of the file.
OneVersion == Validated => \A v, w \in seen : v = w

\* Where a sequential reader comes to the end, the file ends.
EofIsTrue ==
    Validated /\ eof # -1 => \A v \in seen : eof = size[v]

\* A cached file that is marked as initialized is one version of the file,
\* from its first byte to its last.
CachedIsWhole ==
    cached_file.initialized =>
        \E v \in Versions :
            cached_file.data = [i \in 1 .. size[v] |-> <<v, i - 1>>]

\* That is so with the curl client, which hands over a body when the transfer
\* is complete: what a broken attempt brought is gone when it is repeated.
CurlCachesWhole == ~client.streaming => CachedIsWhole

\* Once a handle was told that the file has changed, the global metadata
\* cache no longer holds what that handle knew: opening the file again works.
StaleEntryIsDropped ==
    client.global_cache => <<metadata.etag, metadata.last_modified>> \notin told
=============================================================================
