------------------------- MODULE S3MultiPartUpload -------------------------
(***************************************************************************)
(* The write path of an s3:// file: S3FileSystem::Write fills S3WriteBuffer*)
(* parts, S3MultiPartUpload::FlushBuffer hands every full part to a        *)
(* detached upload thread, and Finalize (from FileSync, Close or the       *)
(* destructor of the handle) flushes the rest, waits for the threads and   *)
(* completes the multipart upload, or PUTs the only buffer directly.       *)
(*                                                                         *)
(* Processes: the thread that owns the file handle (the writer; Write only *)
(* accepts sequential locations and takes no lock, so there is one), the   *)
(* detached upload threads, one per part, and the S3 service, external,    *)
(* whose answer to a request may be an error whether or not the request    *)
(* took effect.                                                            *)
(*                                                                         *)
(* The data of a part is its number and its length: AppendsInPlace is what *)
(* makes that abstraction right.  An ETag is the length of the part that   *)
(* S3 stored (0: none).                                                    *)
(***************************************************************************)
EXTENDS Integers, FiniteSets, Sequences

CONSTANTS
    PartSize,           \* part_size, in bytes
    MaxUploadThreads,   \* s3_uploader_thread_limit
    S3MaxParts,         \* S3 refuses a PUT of a part beyond this one (10000)
    Uint16,             \* 2^16: the key of write_buffers and part_etags, and
                        \* the parts_uploaded counter, are uint16_t
    Retries,            \* http_retries
    CanSpawnFail,       \* the std::thread constructor may throw
    MaxLen,             \* bound: bytes the caller writes
    MaxFinalizeCalls    \* bound: FileSync and Close calls of the caller

ASSUME PartSizeAssumption == PartSize \in Nat \ {0}
ASSUME ThreadsAssumption == MaxUploadThreads \in Nat \ {0}
ASSUME Uint16Assumption ==
    /\ S3MaxParts \in Nat
    /\ Uint16 \in Nat
    /\ S3MaxParts + MaxUploadThreads + 1 < Uint16
ASSUME BoundsAssumption ==
    /\ Retries \in Nat
    /\ CanSpawnFail \in BOOLEAN
    /\ MaxLen \in Nat
    /\ MaxFinalizeCalls \in Nat

VARIABLES
    \* the handle's thread
    pc,             \* where it stands
    call,           \* the API call it executes
    remaining,      \* Write: nr_bytes - bytes_written
    chunk,          \* Write: bytes_to_write
    cur,            \* FlushBuffer, UploadSingleBuffer: part_no of write_buffer
    to_flush,       \* FlushAllBuffers: the buffers still to look at
    transient_retries,
    file_offset,    \* S3FileHandle::file_offset (and length)
    \* S3MultiPartUpload
    kms_key,        \* auth_params.kms_key_id is not empty
    write_buffers,  \* the keys of the map
    buffers,        \* the S3WriteBuffer objects, by part_no
    initialized_multipart_upload,
    multipart_upload_id,
    uploads_in_progress,
    part_etags,
    parts_uploaded,
    upload_finalized,
    has_error,      \* error_manager.HasError()
    thread_pc,      \* the upload thread of each part
    \* the S3 service
    s3_uploads,     \* multipart uploads ever created; ids are 1, 2, ...
    s3_parts,       \* stored parts: <<upload id, part_no, length>>
    object,         \* the object under the key, a sequence of <<part_no, length>>
    \* what the caller knows
    finalize_calls, failed, acked

localVars  == <<remaining, chunk, cur, to_flush, transient_retries>>
writerVars == <<pc, call, localVars, file_offset>>
bufferVars == <<kms_key, write_buffers, buffers>>
sessionVars == <<initialized_multipart_upload, multipart_upload_id>>
partVars   == <<part_etags, parts_uploaded>>
statusVars == <<upload_finalized, has_error>>
uploadVars == <<bufferVars, sessionVars, uploads_in_progress, partVars,
                statusVars, thread_pc>>
s3Vars     == <<s3_uploads, s3_parts, object>>
callerVars == <<finalize_calls, failed, acked>>
vars == <<writerVars, uploadVars, s3Vars, callerVars>>

NoObject == <<>>
Parts == 0 .. Uint16 - 1

ThreadPc == {"none", "put", "etag", "count", "dec", "notify_slot",
             "notify_final", "done"}
WriterPc == {"idle", "write", "flush", "slot", "slot_wait", "init", "spawn",
             "finalize", "single", "flush_init", "flush_loop", "final",
             "final_wait", "complete", "complete_post", "destroyed",
             "terminated"}

Init ==
    /\ pc = "idle" /\ call = "none"
    /\ remaining = 0 /\ chunk = 0 /\ cur = 0 /\ to_flush = {}
    /\ transient_retries = 0
    /\ file_offset = 0
    /\ kms_key \in BOOLEAN
    /\ write_buffers = {}
    /\ buffers = [p \in Parts |-> [idx |-> 0, uploading |-> FALSE]]
    /\ initialized_multipart_upload = FALSE /\ multipart_upload_id = 0
    /\ uploads_in_progress = 0
    /\ part_etags = [p \in Parts |-> 0]
    /\ parts_uploaded = 0
    /\ upload_finalized = FALSE
    /\ has_error = FALSE
    /\ thread_pc = [p \in Parts |-> "none"]
    /\ s3_uploads = 0 /\ s3_parts = {} /\ object = NoObject
    /\ finalize_calls = 0 /\ failed = FALSE /\ acked = FALSE

-----------------------------------------------------------------------------
(* Ends of an API call.                                                    *)

Leave == pc' = IF call = "destroy" THEN "destroyed" ELSE "idle"

\* An exception reaches the caller, except from the destructor, which
\* swallows it.
Throw ==
    /\ Leave
    /\ IF call = "destroy" THEN UNCHANGED failed ELSE failed' = TRUE
    /\ UNCHANGED <<finalize_calls, acked>>

\* FileSync or Close returns; the destructor has nobody to tell.
Return ==
    /\ Leave
    /\ IF call = "destroy" \/ failed THEN UNCHANGED acked ELSE acked' = TRUE
    /\ UNCHANGED <<finalize_calls, failed>>

-----------------------------------------------------------------------------
(* The caller.  It writes sequentially, stops writing after an exception   *)
(* and after the first FileSync or Close (the restriction stated above     *)
(* FlushAllBuffers), and destroys the handle last.                         *)

CallWrite ==
    /\ pc = "idle"
    /\ ~failed
    /\ finalize_calls = 0
    /\ \E n \in 1 .. MaxLen - file_offset : remaining' = n
    /\ pc' = "write" /\ call' = "write"
    /\ UNCHANGED <<chunk, cur, to_flush, transient_retries, file_offset,
                   uploadVars, s3Vars, callerVars>>

CallFinalize ==
    /\ pc = "idle"
    /\ finalize_calls < MaxFinalizeCalls
    /\ finalize_calls' = finalize_calls + 1
    /\ pc' = "finalize" /\ call' = "close"
    /\ UNCHANGED <<localVars, file_offset, uploadVars, s3Vars, failed, acked>>

\* The destructor calls Close, unless an exception is propagating.
Destroy ==
    /\ pc = "idle"
    /\ pc' \in {"finalize", "destroyed"} /\ call' = "destroy"
    /\ UNCHANGED <<localVars, file_offset, uploadVars, s3Vars, callerVars>>

-----------------------------------------------------------------------------
(* S3FileSystem::Write, one iteration of its loop.                         *)

\* The end of an iteration: the offsets move only once FlushBuffer returned.
Advance(n) ==
    /\ file_offset' = file_offset + n
    /\ remaining' = remaining - n
    /\ pc' = IF remaining = n THEN "idle" ELSE "write"

BufferIdx == (file_offset \div PartSize) % Uint16
IdxToWrite == file_offset - BufferIdx * PartSize
\* Mutant: the room left in the buffer is ignored.
BytesToWriteOverflow == remaining

BytesToWrite ==
    IF IdxToWrite <= PartSize /\ PartSize - IdxToWrite < remaining
    THEN PartSize - IdxToWrite
    ELSE remaining      \* part_size - idx_to_write is unsigned

\* Mutant: the lookup of an existing buffer is lost.
GetBufferNoLookup(i) == [idx |-> 0, uploading |-> FALSE]

GetBuffer(i) ==
    IF i \in write_buffers THEN buffers[i] ELSE [idx |-> 0, uploading |-> FALSE]

WriteChunk ==
    /\ pc = "write"
    /\ LET idx == GetBuffer(BufferIdx).idx + BytesToWrite IN
       /\ write_buffers' = write_buffers \cup {BufferIdx}
       /\ buffers' = [buffers EXCEPT ![BufferIdx] =
                        [idx |-> idx, uploading |-> GetBuffer(BufferIdx).uploading]]
       /\ IF idx >= PartSize
          THEN pc' = "flush" /\ UNCHANGED <<remaining, file_offset>>
          ELSE Advance(BytesToWrite)
    /\ cur' = BufferIdx
    /\ chunk' = BytesToWrite
    /\ UNCHANGED <<call, to_flush, transient_retries, kms_key, sessionVars,
                   uploads_in_progress, partVars, statusVars, thread_pc,
                   s3Vars, callerVars>>

\* Allocating the buffer of the next part fails.
GetBufferThrows ==
    /\ pc = "write"
    /\ BufferIdx \notin write_buffers
    /\ Throw
    /\ UNCHANGED <<call, localVars, file_offset, uploadVars, s3Vars>>

-----------------------------------------------------------------------------
(* S3MultiPartUpload::FlushBuffer                                          *)

\* Back in Write, or in the loop of FlushAllBuffers.
FlushReturns ==
    IF call = "write"
    THEN Advance(chunk)
    ELSE pc' = "flush_loop" /\ UNCHANGED <<remaining, file_offset>>

\* Mutant: the errors of earlier parts are not looked at.
RethrowNothing == FALSE

\* RethrowIOError throws: some upload thread has reported an error.
RethrowIOError == has_error

\* Up to the erase from write_buffers.  RethrowIOError leaves the buffer in
\* the map, marked as uploading.
FlushBuffer ==
    /\ pc = "flush"
    /\ IF buffers[cur].idx = 0 \/ buffers[cur].uploading
       THEN FlushReturns /\ UNCHANGED <<buffers, write_buffers, callerVars>>
       ELSE /\ buffers' = [buffers EXCEPT ![cur].uploading = TRUE]
            /\ UNCHANGED <<remaining, file_offset>>
            /\ IF RethrowIOError
               THEN Throw /\ UNCHANGED write_buffers
               ELSE /\ write_buffers' = write_buffers \ {cur}
                    /\ pc' = "slot"
                    /\ UNCHANGED callerVars
    /\ UNCHANGED <<call, chunk, cur, to_flush, transient_retries, kms_key,
                   sessionVars, uploads_in_progress, partVars, statusVars,
                   thread_pc, s3Vars>>

\* Under uploads_in_progress_lock: test the predicate and either take the
\* slot or go to sleep on uploads_in_progress_cv.
AcquireSlot ==
    /\ pc = "slot"
    /\ IF uploads_in_progress >= MaxUploadThreads
       THEN pc' = "slot_wait" /\ UNCHANGED uploads_in_progress
       ELSE /\ uploads_in_progress' = uploads_in_progress + 1
            /\ pc' = IF initialized_multipart_upload THEN "spawn" ELSE "init"
    /\ UNCHANGED <<call, localVars, file_offset, bufferVars, sessionVars,
                   partVars, statusVars, thread_pc, s3Vars, callerVars>>

\* InitializeMultipartUpload: the POST creates an upload and the response
\* carries its id ...
InitializeMultipartUpload ==
    /\ s3_uploads' = s3_uploads + 1
    /\ multipart_upload_id' = s3_uploads'
    /\ initialized_multipart_upload' = TRUE
    /\ UNCHANGED <<s3_parts, object>>

\* ... or the call throws, whether or not S3 has created one.
InitializationThrows ==
    /\ s3_uploads' \in {s3_uploads, s3_uploads + 1}
    /\ UNCHANGED <<s3_parts, object, sessionVars>>

\* Mutant: no catch block around InitializeMultipartUpload.
KeepSlot == UNCHANGED uploads_in_progress

GiveSlotBack == uploads_in_progress' = uploads_in_progress - 1

\* The catch block gives the slot back (NotifyUploadsInProgress; nobody but
\* this thread ever waits on the condition variables) and rethrows.
FlushInit ==
    /\ pc = "init"
    /\ \/ /\ InitializeMultipartUpload
          /\ pc' = "spawn"
          /\ UNCHANGED <<uploads_in_progress, callerVars>>
       \/ /\ InitializationThrows
          /\ GiveSlotBack
          /\ Throw
    /\ UNCHANGED <<call, localVars, file_offset, bufferVars, partVars,
                   statusVars, thread_pc>>

\* The upload thread is created and detached.  If its constructor throws, no
\* handler gives the slot back.
Spawn ==
    /\ pc = "spawn"
    /\ \/ /\ thread_pc' = [thread_pc EXCEPT ![cur] = "put"]
          /\ FlushReturns
          /\ UNCHANGED callerVars
       \/ /\ CanSpawnFail
          /\ Throw
          /\ UNCHANGED <<thread_pc, remaining, file_offset>>
    /\ UNCHANGED <<call, chunk, cur, to_flush, transient_retries, bufferVars,
                   sessionVars, uploads_in_progress, partVars, statusVars,
                   s3Vars>>

-----------------------------------------------------------------------------
(* S3MultiPartUpload::Finalize and FlushAllBuffers                         *)

\* Finalize, up to the decision FlushAllBuffers takes on its entry.
Finalize ==
    /\ pc = "finalize"
    /\ IF upload_finalized
       THEN Return /\ UNCHANGED <<to_flush, cur>>
       ELSE /\ to_flush' = write_buffers
            /\ IF initialized_multipart_upload
               THEN pc' = "flush_loop" /\ UNCHANGED cur
               ELSE IF Cardinality(write_buffers) = 1 /\ ~kms_key
                    THEN pc' = "single" /\ cur' \in write_buffers
                    ELSE pc' = "flush_init" /\ UNCHANGED cur
            /\ UNCHANGED callerVars
    /\ UNCHANGED <<call, remaining, chunk, transient_retries, file_offset,
                   uploadVars, s3Vars>>

\* UploadSingleBuffer: a plain PUT of the object.
SingleObject == << <<cur, buffers[cur].idx>> >>

SinglePut ==
    /\ pc = "single"
    /\ \/ /\ object' = SingleObject
          /\ upload_finalized' = TRUE
          /\ Return
       \/ /\ object' \in {object, SingleObject}
          /\ Throw
          /\ UNCHANGED upload_finalized
    /\ UNCHANGED <<call, localVars, file_offset, bufferVars, sessionVars,
                   uploads_in_progress, partVars, has_error, thread_pc,
                   s3_uploads, s3_parts>>

FlushAllInit ==
    /\ pc = "flush_init"
    /\ \/ /\ InitializeMultipartUpload
          /\ pc' = "flush_loop"
          /\ UNCHANGED callerVars
       \/ InitializationThrows /\ Throw
    /\ UNCHANGED <<call, localVars, file_offset, bufferVars,
                   uploads_in_progress, partVars, statusVars, thread_pc>>

\* The loop visits the buffers in the order of an unordered_map.
FlushAllLoop ==
    /\ pc = "flush_loop"
    /\ \/ to_flush = {} /\ pc' = "final" /\ UNCHANGED <<to_flush, cur>>
       \/ \E p \in to_flush :
            /\ to_flush' = to_flush \ {p}
            /\ IF buffers[p].uploading
               THEN UNCHANGED <<pc, cur>>
               ELSE pc' = "flush" /\ cur' = p
    /\ UNCHANGED <<call, remaining, chunk, transient_retries, file_offset,
                   uploadVars, s3Vars, callerVars>>

\* Mutant: FlushAllBuffers waits with the predicate of FlushBuffer.
UploadsBelowLimit == uploads_in_progress < MaxUploadThreads

UploadsOver == uploads_in_progress = 0

\* Mutant: an upload with no part counts as an empty file before the errors
\* are looked at.
AfterUploadsSwapped ==
    IF parts_uploaded = 0
    THEN Return
    ELSE IF RethrowIOError THEN Throw ELSE pc' = "complete" /\ UNCHANGED callerVars

\* RethrowIOError, then the test of parts_uploaded in Finalize.
AfterUploads ==
    IF RethrowIOError
    THEN Throw
    ELSE IF parts_uploaded = 0 THEN Return ELSE pc' = "complete" /\ UNCHANGED callerVars

\* The wait on final_flush_cv, and what follows it.
FinalFlush ==
    /\ pc = "final"
    /\ IF UploadsOver
       THEN AfterUploads
       ELSE pc' = "final_wait" /\ UNCHANGED callerVars
    /\ UNCHANGED <<call, localVars, file_offset, uploadVars, s3Vars>>

\* std::condition_variable::wait may return without a notification.
SpuriousWakeup ==
    /\ \/ pc = "slot_wait" /\ pc' = "slot"
       \/ pc = "final_wait" /\ pc' = "final"
    /\ UNCHANGED <<call, localVars, file_offset, uploadVars, s3Vars,
                   callerVars>>

-----------------------------------------------------------------------------
(* FinalizeMultipartUpload                                                 *)

\* upload_finalized is set first, whatever happens next; a missing ETag is
\* the "Unknown part number" exception.
CompleteList ==
    /\ pc = "complete"
    /\ upload_finalized' = TRUE
    /\ transient_retries' = 0
    /\ IF \E p \in 0 .. parts_uploaded - 1 : part_etags[p] = 0
       THEN Throw
       ELSE pc' = "complete_post" /\ UNCHANGED callerVars
    /\ UNCHANGED <<call, remaining, chunk, cur, to_flush, file_offset,
                   bufferVars, sessionVars, uploads_in_progress, partVars,
                   has_error, thread_pc, s3Vars>>

\* S3 assembles the listed parts, if it holds every one of them under the
\* upload id with the ETag listed.
S3Accepts ==
    \A p \in 0 .. parts_uploaded - 1 :
        <<multipart_upload_id, p, part_etags[p]>> \in s3_parts

ListedObject == [i \in 1 .. parts_uploaded |-> <<i - 1, part_etags[i - 1]>>]

S3Answers == IF S3Accepts THEN {object, ListedObject} ELSE {object}

\* One turn of the POST loop: success; a 200 with an embedded InternalError,
\* retried up to http_retries times; any other answer.
CompletePost ==
    /\ pc = "complete_post"
    /\ \/ /\ S3Accepts
          /\ object' = ListedObject
          /\ Return
          /\ UNCHANGED transient_retries
       \/ /\ transient_retries < Retries
          /\ object' \in S3Answers
          /\ transient_retries' = transient_retries + 1
          /\ UNCHANGED <<pc, callerVars>>
       \/ /\ object' \in S3Answers
          /\ Throw
          /\ UNCHANGED transient_retries
    /\ UNCHANGED <<call, remaining, chunk, cur, to_flush, file_offset,
                   uploadVars, s3_uploads, s3_parts>>

-----------------------------------------------------------------------------
(* UploadBuffer, in the detached thread of part p.                         *)

SetThread(p, state) == thread_pc' = [thread_pc EXCEPT ![p] = state]

StoredPart(p) == <<multipart_upload_id, p, buffers[p].idx>>

PutSucceeds(p) ==
    /\ p < S3MaxParts
    /\ s3_parts' = s3_parts \cup {StoredPart(p)}
    /\ SetThread(p, "etag")
    /\ UNCHANGED has_error

\* Mutants: the error is not reported to the error manager; the thread ends
\* without NotifyUploadsInProgress.
PutFailsSilently(p) ==
    SetThread(p, "dec") /\ UNCHANGED <<s3_parts, has_error>>

PutFailsWithoutNotify(p) ==
    SetThread(p, "done") /\ has_error' = TRUE /\ UNCHANGED s3_parts

\* Whether or not S3 has stored the part.
PutFails(p) ==
    /\ \/ UNCHANGED s3_parts
       \/ p < S3MaxParts /\ s3_parts' = s3_parts \cup {StoredPart(p)}
    /\ has_error' = TRUE
    /\ SetThread(p, "dec")

PutPart(p) ==
    /\ thread_pc[p] = "put"
    /\ PutSucceeds(p) \/ PutFails(p)
    /\ UNCHANGED <<writerVars, bufferVars, sessionVars, uploads_in_progress,
                   partVars, upload_finalized, s3_uploads, object,
                   callerVars>>

\* unordered_map::insert keeps an entry that is already there.
InsertEtag(p) ==
    /\ thread_pc[p] = "etag"
    /\ part_etags' = [part_etags EXCEPT ![p] = IF @ = 0 THEN buffers[p].idx ELSE @]
    /\ SetThread(p, "count")
    /\ UNCHANGED <<writerVars, bufferVars, sessionVars, uploads_in_progress,
                   parts_uploaded, statusVars, s3Vars, callerVars>>

CountPart(p) ==
    /\ thread_pc[p] = "count"
    /\ parts_uploaded' = (parts_uploaded + 1) % Uint16
    /\ SetThread(p, "dec")
    /\ UNCHANGED <<writerVars, bufferVars, sessionVars, uploads_in_progress,
                   part_etags, statusVars, s3Vars, callerVars>>

\* NotifyUploadsInProgress: the decrement under the lock, then, outside it,
\* one notification for each of the two condition variables.
ReleaseSlot(p) ==
    /\ thread_pc[p] = "dec"
    /\ uploads_in_progress > 0
    /\ uploads_in_progress' = uploads_in_progress - 1
    /\ SetThread(p, "notify_slot")
    /\ UNCHANGED <<writerVars, bufferVars, sessionVars, partVars, statusVars,
                   s3Vars, callerVars>>

NotifySlot(p) ==
    /\ thread_pc[p] = "notify_slot"
    /\ pc' = IF pc = "slot_wait" THEN "slot" ELSE pc
    /\ SetThread(p, "notify_final")
    /\ UNCHANGED <<call, localVars, file_offset, bufferVars, sessionVars,
                   uploads_in_progress, partVars, statusVars, s3Vars,
                   callerVars>>

\* Mutant: final_flush_cv is not notified.
WakeNobody == UNCHANGED pc

WakeFinal == pc' = IF pc = "final_wait" THEN "final" ELSE pc

NotifyFinal(p) ==
    /\ thread_pc[p] = "notify_final"
    /\ WakeFinal
    /\ SetThread(p, "done")
    /\ UNCHANGED <<call, localVars, file_offset, bufferVars, sessionVars,
                   uploads_in_progress, partVars, statusVars, s3Vars,
                   callerVars>>

\* An exception that is neither IO nor HTTP, or the InternalException of
\* NotifyUploadsInProgress, leaves the detached thread: std::terminate.
Terminate(p) ==
    /\ \/ thread_pc[p] = "put"
       \/ thread_pc[p] = "dec" /\ uploads_in_progress = 0
    /\ pc' = "terminated"
    /\ thread_pc' = [q \in Parts |-> "none"]
    /\ UNCHANGED <<call, localVars, file_offset, bufferVars, sessionVars,
                   uploads_in_progress, partVars, statusVars, s3Vars,
                   callerVars>>

-----------------------------------------------------------------------------
Caller == CallWrite \/ CallFinalize \/ Destroy

Writer ==
    \/ WriteChunk \/ GetBufferThrows \/ FlushBuffer \/ AcquireSlot
    \/ FlushInit \/ Spawn \/ Finalize \/ SinglePut \/ FlushAllInit \/ FlushAllLoop \/ FinalFlush
    \/ CompleteList \/ CompletePost

UploadThread(p) ==
    \/ PutPart(p) \/ InsertEtag(p) \/ CountPart(p)
    \/ ReleaseSlot(p) \/ NotifySlot(p) \/ NotifyFinal(p)

\* The handle is gone and no thread is left.
AllDone ==
    /\ pc \in {"destroyed", "terminated"}
    /\ \A p \in Parts : thread_pc[p] \in {"none", "done"}
    /\ UNCHANGED vars

Next ==
    \/ Caller \/ Writer \/ SpuriousWakeup \/ AllDone
    \/ \E p \in Parts : UploadThread(p) \/ Terminate(p)

Spec == Init /\ [][Next]_vars

\* The operating system schedules every thread, and every request ends: the
\* HTTP clients run with a timeout.  Nothing obliges the caller to call, the
\* implementation to wake up spuriously, or a thread to terminate the process.
Fairness == WF_vars(Writer) /\ \A p \in Parts : WF_vars(UploadThread(p))

FairSpec == Spec /\ Fairness

-----------------------------------------------------------------------------
TypeOK ==
    /\ pc \in WriterPc /\ call \in {"none", "write", "close", "destroy"}
    /\ remaining \in 0 .. MaxLen /\ chunk \in 0 .. MaxLen
    /\ cur \in Parts /\ to_flush \in SUBSET Parts
    /\ transient_retries \in 0 .. Retries
    /\ file_offset \in 0 .. MaxLen
    /\ kms_key \in BOOLEAN
    /\ write_buffers \in SUBSET Parts
    /\ buffers \in [Parts -> [idx : 0 .. PartSize, uploading : BOOLEAN]]
    /\ initialized_multipart_upload \in BOOLEAN
    /\ multipart_upload_id \in 0 .. s3_uploads
    /\ uploads_in_progress \in 0 .. MaxUploadThreads
    /\ part_etags \in [Parts -> 0 .. PartSize]
    /\ parts_uploaded \in Parts
    /\ upload_finalized \in BOOLEAN /\ has_error \in BOOLEAN
    /\ thread_pc \in [Parts -> ThreadPc]
    /\ s3_uploads \in Nat
    /\ s3_parts \in SUBSET (Nat \X Parts \X (0 .. PartSize))
    /\ object \in Seq(Parts \X (0 .. PartSize))
    /\ finalize_calls \in 0 .. MaxFinalizeCalls
    /\ failed \in BOOLEAN /\ acked \in BOOLEAN

\* The object a caller that wrote n bytes expects: every part in its place,
\* full but for the last one.
Layout(n) ==
    LET full == n \div PartSize
        last == n % PartSize
    IN  [i \in 1 .. IF last = 0 THEN full ELSE full + 1 |->
            <<i - 1, IF i <= full THEN PartSize ELSE last>>]

\* Whatever fails or is interleaved, the object is either untouched or made
\* of exactly the bytes written: no truncated, reordered or mixed object.
PublishedIsComplete == object # NoObject => object = Layout(file_offset)

\* When FileSync or Close has returned normally and no call had failed, every
\* byte the caller wrote is in the object: no error of an upload thread is
\* lost on its way to the caller.
NoSilentLoss == acked /\ file_offset > 0 => object = Layout(file_offset)

\* memcpy of Write lands right behind the bytes the buffer already holds and
\* stays inside it; in particular the uint16_t part number never wraps onto
\* an earlier part, although nothing in Write bounds the number of parts.
AppendsInPlace ==
    pc = "write" =>
        /\ file_offset \div PartSize < Uint16
        /\ GetBuffer(BufferIdx).idx = file_offset % PartSize
        /\ ~GetBuffer(BufferIdx).uploading

\* When the complete request is built, the ETags are those of the parts
\* 0, 1, ... without a gap, S3 holds each of them under the one upload id,
\* and no upload thread is still to add one.
ListIsComplete ==
    pc \in {"complete", "complete_post"} =>
        /\ S3Accepts
        /\ ListedObject = Layout(file_offset)
        /\ \A p \in Parts : thread_pc[p] \notin {"put", "etag", "count"}

SlotHolders ==
    {p \in Parts : thread_pc[p] \in {"put", "etag", "count", "dec"}}

\* uploads_in_progress counts the threads that still have to give a slot
\* back, and the writer between taking a slot and starting its thread.
SlotsMatchThreads ==
    pc # "terminated" =>
        uploads_in_progress =
            Cardinality(SlotHolders) + IF pc \in {"init", "spawn"} THEN 1 ELSE 0

\* A sleeping writer has an upload thread that is going to notify it: neither
\* wakeup is lost, and the writer never waits for a slot that nobody holds.
WaitsForSomeone ==
    /\ pc = "slot_wait" =>
        \E p \in Parts : thread_pc[p] \in {"put", "etag", "count", "dec", "notify_slot"}
    /\ pc = "final_wait" =>
        \E p \in Parts : thread_pc[p] \in ThreadPc \ {"none", "done"}

\* Every Write, FileSync, Close and destructor comes back.
CallsReturn == pc # "idle" ~> pc \in {"idle", "destroyed", "terminated"}

Abstract == INSTANCE S3ObjectWriter WITH
    Content <- Layout,
    offset <- file_offset,
    sealed <- finalize_calls > 0 \/ call = "destroy"

\* The write path implements the all-or-nothing object writer.
ImplementsObjectWriter == Abstract!Spec
=============================================================================
