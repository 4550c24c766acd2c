---------------------- MODULE S3MultiPartUploadProofs ----------------------
(***************************************************************************)
(* The inductive invariant of S3MultiPartUpload and the proofs that rest   *)
(* on it.                                                                  *)
(***************************************************************************)
EXTENDS S3MultiPartUpload, FiniteSetTheorems, TLAPS

Full == file_offset \div PartSize   \* the number of the part being filled
Rest == file_offset % PartSize      \* the bytes of it written so far

Sealed == finalize_calls > 0 \/ call = "destroy"
Flushing == pc \in {"flush", "slot", "slot_wait", "init", "spawn"}
Unused == "none"
Over == failed \/ pc = "destroyed"

\* Where the writer stands, and what its local variables then are.
WriterInv ==
    /\ pc \in {"write", "flush", "slot", "slot_wait", "init", "spawn"} /\ call = "write" =>
        /\ finalize_calls = 0 /\ ~failed
        /\ remaining > 0 /\ file_offset + remaining <= MaxLen
    /\ pc = "write" => call = "write"
    /\ pc = "idle" => call # "destroy"
    /\ pc \in {"finalize", "single", "flush_init", "flush_loop", "final",
               "final_wait", "complete", "complete_post"} => Sealed /\ call # "write"
    /\ Flushing /\ call # "write" => Sealed
    /\ Flushing =>
        /\ cur = Full
        /\ to_flush = {} \/ call = "write"
        /\ call = "write" => chunk > 0 /\ chunk <= remaining /\ Rest + chunk = PartSize
        /\ buffers[cur].idx = IF call = "write" THEN PartSize ELSE Rest
        /\ buffers[cur].idx > 0
        /\ thread_pc[cur] = Unused
        /\ buffers[cur].uploading <=> pc # "flush"
        /\ cur \in write_buffers <=> pc = "flush"
    /\ pc \in {"flush_init", "flush_loop"} =>
        /\ to_flush \subseteq write_buffers
        /\ \A p \in write_buffers : p \in to_flush \/ buffers[p].uploading
    /\ pc \in {"final", "final_wait"} => \A p \in write_buffers : buffers[p].uploading
    /\ pc \in {"init", "flush_init", "single"} => ~initialized_multipart_upload
    /\ pc \in {"spawn", "flush_loop", "final", "final_wait", "complete", "complete_post"} =>
            initialized_multipart_upload
    /\ pc \in {"slot", "slot_wait", "init", "spawn"} =>
            Full <= S3MaxParts + MaxUploadThreads

\* A FlushBuffer that failed after the erase dropped its part: nothing more
\* is written, and either its slot stays taken or no upload was ever started.
Lost ==
    /\ Over
    /\ write_buffers = {}
    /\ pc \in {"idle", "finalize", "flush_init", "flush_loop", "final",
               "final_wait", "destroyed"}
    /\ \/ uploads_in_progress > Cardinality(SlotHolders)
       \/ parts_uploaded = 0 /\ \A p \in Parts : thread_pc[p] = Unused

\* The part being filled, when FlushBuffer is not at work on it.
TailPart ==
    \/ /\ thread_pc[Full] = Unused      \* as Write left it
       /\ Full \in write_buffers <=> Rest > 0
       /\ Rest > 0 => buffers[Full] = [idx |-> Rest, uploading |-> FALSE]
    \/ /\ thread_pc[Full] = Unused      \* FlushBuffer met an earlier error
       /\ has_error /\ Over
       /\ Full \in write_buffers /\ buffers[Full].uploading
    \/ /\ thread_pc[Full] # Unused      \* FlushAllBuffers handed it over
       /\ Sealed
       /\ Full \notin write_buffers
       /\ Rest > 0 /\ buffers[Full].idx = Rest

\* Every byte below file_offset is in exactly one place.
PartsInv ==
    /\ Full <= S3MaxParts + MaxUploadThreads + 1
    /\ \A p \in Parts : p < Full =>
        thread_pc[p] # Unused /\ buffers[p].idx = PartSize /\ p \notin write_buffers
    /\ \A p \in Parts : p > Full => thread_pc[p] = Unused /\ p \notin write_buffers
    /\ Flushing \/ Lost \/ TailPart

Uploaded(p) ==
    /\ part_etags[p] = buffers[p].idx
    /\ p < S3MaxParts
    /\ StoredPart(p) \in s3_parts

\* What the upload thread of each part has achieved.
ThreadInv ==
    /\ \A p \in Parts :
        /\ thread_pc[p] \in {Unused, "put", "etag"} => part_etags[p] = 0
        /\ thread_pc[p] = "etag" => p < S3MaxParts /\ StoredPart(p) \in s3_parts
        /\ thread_pc[p] = "count" => Uploaded(p)
        /\ thread_pc[p] \in {"dec", "notify_slot", "notify_final", "done"} =>
               Uploaded(p) \/ (part_etags[p] = 0 /\ has_error)
        /\ thread_pc[p] # Unused => initialized_multipart_upload /\ buffers[p].idx > 0
    /\ has_error => initialized_multipart_upload

CountedParts == {p \in Parts : part_etags[p] # 0 /\ thread_pc[p] # "count"}

CountInv == parts_uploaded = Cardinality(CountedParts)

SlotInv ==
    /\ uploads_in_progress >= Cardinality(SlotHolders)
    /\ pc \in {"init", "spawn"} => uploads_in_progress > Cardinality(SlotHolders)

PublishInv ==
    /\ object # NoObject => Sealed
    /\ acked \/ upload_finalized => Sealed
    /\ upload_finalized =>
        \/ failed
        \/ pc \in {"complete_post", "destroyed"}
        \/ object = Layout(file_offset)
    /\ pc = "complete_post" => upload_finalized
    /\ pc \in {"complete", "complete_post"} => SlotHolders = {} /\ ~has_error
    /\ pc = "single" =>
        /\ cur = 0 /\ Full = 0 /\ Rest > 0
        /\ write_buffers = {0}
        /\ buffers[0] = [idx |-> Rest, uploading |-> FALSE]

Alive == WriterInv /\ PartsInv /\ ThreadInv /\ CountInv /\ SlotInv
         /\ PublishInv /\ ListIsComplete

\* The inductive invariant.
Inv ==
    /\ TypeOK
    /\ PublishedIsComplete
    /\ NoSilentLoss
    /\ pc # "terminated" => Alive
    /\ pc = "terminated" => \A p \in Parts : thread_pc[p] = Unused

-----------------------------------------------------------------------------
\* Distinct multiples of P lie at least P apart.
LEMMA MultipleGap ==
    ASSUME NEW P \in Nat \ {0}, NEW x \in Nat, NEW y \in Nat, x < y
    PROVE  P * x + P <= P * y
<1>1. PICK d \in Nat : y = x + 1 + d
  OBVIOUS
<1>2. P * y = P * x + P + P * d
  BY <1>1
<1>3. P * d \in Nat
  OBVIOUS
<1> QED
  BY <1>2, <1>3

\* Quotient and remainder of a division are unique.
LEMMA DivModUnique ==
    ASSUME NEW P \in Nat \ {0}, NEW a \in Nat, NEW q \in Nat,
           NEW r \in 0 .. P - 1, a = P * q + r
    PROVE  a \div P = q /\ a % P = r
<1> DEFINE s == a \div P
           t == a % P
<1>1. s \in Nat /\ t \in 0 .. P - 1 /\ a = P * s + t
  OBVIOUS
<1> HIDE DEF s, t
<1>2. P * q \in Nat /\ P * s \in Nat
  BY <1>1
<1>3. ~(q < s)
  BY <1>1, <1>2, MultipleGap
<1>4. ~(s < q)
  BY <1>1, <1>2, MultipleGap
<1>5. q = s
  BY <1>1, <1>3, <1>4
<1>6. r = t
  BY <1>1, <1>2, <1>5
<1> QED
  BY <1>5, <1>6 DEF s, t

\* How quotient and remainder move when n bytes are appended without
\* passing the end of the part.
LEMMA DivModAdvance ==
    ASSUME NEW P \in Nat \ {0}, NEW a \in Nat, NEW n \in Nat, (a % P) + n <= P
    PROVE  /\ (a % P) + n < P => (a + n) \div P = a \div P /\ (a + n) % P = (a % P) + n
           /\ (a % P) + n = P => (a + n) \div P = a \div P + 1 /\ (a + n) % P = 0
<1> DEFINE q == a \div P
           r == a % P
<1>1. q \in Nat /\ r \in 0 .. P - 1 /\ a = P * q + r
  OBVIOUS
<1>2. (a % P) + n = r + n /\ a + n \in Nat
  OBVIOUS
<1> HIDE DEF q, r
<1>3. P * (q + 1) = P * q + P /\ P * q \in Nat
  BY <1>1
<1>4. CASE r + n < P
  <2>1. a + n = P * q + (r + n) /\ r + n \in 0 .. P - 1
    BY <1>1, <1>3, <1>4
  <2>2. (a + n) \div P = q /\ (a + n) % P = r + n
    BY <1>1, <1>2, <2>1, DivModUnique
  <2> QED
    BY <2>2, <1>4, <1>1 DEF q, r
<1>5. CASE r + n = P
  <2>1. a + n = P * (q + 1) + 0 /\ 0 \in 0 .. P - 1 /\ q + 1 \in Nat
    BY <1>1, <1>3, <1>5
  <2>2. (a + n) \div P = q + 1 /\ (a + n) % P = 0
    BY <1>2, <2>1, DivModUnique
  <2> QED
    BY <2>2, <1>5 DEF q, r
<1> QED
  BY <1>1, <1>4, <1>5 DEF r

\* The file offset splits into full parts and the bytes of the part being
\* filled.
LEMMA FullRestType ==
    ASSUME TypeOK
    PROVE  Full \in Nat /\ Rest \in 0 .. PartSize - 1
           /\ file_offset = PartSize * Full + Rest
<1>1. file_offset \in Nat
  BY BoundsAssumption DEF TypeOK
<1> QED
  BY <1>1, PartSizeAssumption DEF Full, Rest

\* The same split after Write has accepted n more bytes.
LEMMA AdvanceFullRest ==
    ASSUME TypeOK, NEW n \in Nat, Rest + n <= PartSize,
           file_offset' = file_offset + n
    PROVE  /\ Rest + n < PartSize => Full' = Full /\ Rest' = Rest + n
           /\ Rest + n = PartSize => Full' = Full + 1 /\ Rest' = 0
<1>1. file_offset \in Nat
  BY BoundsAssumption DEF TypeOK
<1>2. /\ Full' = (file_offset + n) \div PartSize
      /\ Rest' = (file_offset + n) % PartSize
  BY DEF Full, Rest
<1> QED
  BY <1>1, <1>2, PartSizeAssumption, DivModAdvance DEF Full, Rest

\* The part being filled has a key of its own.
LEMMA FullIsPart ==
    ASSUME Inv, pc # "terminated"
    PROVE  Full \in Parts /\ Full + 1 \in Nat
BY FullRestType, Uint16Assumption, ThreadsAssumption
DEF Inv, Alive, PartsInv, Parts

\* The uint16_t part number that Write computes has not wrapped.
LEMMA BufferIdxIsFull ==
    ASSUME Inv, pc # "terminated"
    PROVE  BufferIdx = Full /\ IdxToWrite = Rest
<1>1. Full \in Parts
  BY FullIsPart
<1>2. BufferIdx = Full
  BY <1>1, Uint16Assumption DEF BufferIdx, Full, Parts
<1>3. TypeOK
  BY DEF Inv
<1>4. file_offset = PartSize * Full + Rest /\ Rest \in Nat /\ Full \in Nat
  BY <1>3, FullRestType, PartSizeAssumption
<1>5. PartSize * Full = Full * PartSize /\ PartSize * Full \in Nat
  BY <1>4, PartSizeAssumption
<1> HIDE DEF Full
<1>6. IdxToWrite = file_offset - Full * PartSize
  BY <1>2 DEF IdxToWrite
<1> QED
  BY <1>2, <1>4, <1>5, <1>6

\* The sets that uploads_in_progress and parts_uploaded count are finite.
LEMMA SetsFinite ==
    /\ IsFiniteSet(SlotHolders) /\ Cardinality(SlotHolders) \in Nat
    /\ IsFiniteSet(CountedParts) /\ Cardinality(CountedParts) \in Nat
<1>1. IsFiniteSet(Parts)
  BY FS_Interval, Uint16Assumption DEF Parts
<1>2. SlotHolders \subseteq Parts /\ CountedParts \subseteq Parts
  BY DEF SlotHolders, CountedParts
<1> QED
  BY <1>1, <1>2, FS_Subset, FS_CardinalityType

\* A call of Write starts.
LEMMA CallWriteInv == Inv /\ CallWrite => Inv'
<1> SUFFICES ASSUME Inv, CallWrite PROVE Inv'
  OBVIOUS
<1> USE PartSizeAssumption, ThreadsAssumption, Uint16Assumption, BoundsAssumption
    DEF localVars, writerVars, bufferVars, sessionVars, partVars, statusVars,
        uploadVars, s3Vars, callerVars
<1>1. /\ Full' = Full /\ Rest' = Rest /\ Layout(file_offset)' = Layout(file_offset)
      /\ SlotHolders' = SlotHolders /\ CountedParts' = CountedParts
  BY DEF CallWrite, Full, Rest, Layout, SlotHolders, CountedParts
<1>2. TypeOK'
  BY DEF Inv, CallWrite, TypeOK, WriterPc
<1>3. PublishedIsComplete' /\ NoSilentLoss'
  BY <1>1 DEF Inv, CallWrite, PublishedIsComplete, NoSilentLoss, NoObject
<1>4. WriterInv'
  BY <1>1 DEF Inv, Alive, CallWrite, WriterInv, Sealed, Flushing, TypeOK
<1>5. PartsInv'
  BY <1>1
  DEF Inv, Alive, CallWrite, PartsInv, WriterInv, TailPart, Lost, Over, Sealed, Flushing
<1>6. ThreadInv'
  BY <1>1 DEF Inv, Alive, CallWrite, ThreadInv, Uploaded, StoredPart
<1>7. CountInv' /\ SlotInv'
  BY <1>1 DEF Inv, Alive, CallWrite, CountInv, SlotInv
<1>8. PublishInv'
  BY <1>1 DEF Inv, Alive, CallWrite, PublishInv, WriterInv, NoObject, Sealed
<1>9. ListIsComplete'
  BY DEF Inv, Alive, CallWrite, ListIsComplete
<1>10. pc' # "terminated"
  BY <1>4 DEF CallWrite
<1> QED
  BY <1>10, <1>2, <1>3, <1>4, <1>5, <1>6, <1>7, <1>8, <1>9 DEF Inv, Alive

\* A call of FileSync or Close starts.
LEMMA CallFinalizeInv == Inv /\ CallFinalize => Inv'
<1> SUFFICES ASSUME Inv, CallFinalize PROVE Inv'
  OBVIOUS
<1> USE PartSizeAssumption, ThreadsAssumption, Uint16Assumption, BoundsAssumption
    DEF localVars, writerVars, bufferVars, sessionVars, partVars, statusVars,
        uploadVars, s3Vars, callerVars
<1>1. /\ Full' = Full /\ Rest' = Rest /\ Layout(file_offset)' = Layout(file_offset)
      /\ SlotHolders' = SlotHolders /\ CountedParts' = CountedParts
  BY DEF CallFinalize, Full, Rest, Layout, SlotHolders, CountedParts
<1>2. TypeOK'
  BY DEF Inv, CallFinalize, TypeOK, WriterPc
<1>3. PublishedIsComplete' /\ NoSilentLoss'
  BY <1>1 DEF Inv, CallFinalize, PublishedIsComplete, NoSilentLoss, NoObject
<1>4. WriterInv'
  BY <1>1 DEF Inv, Alive, CallFinalize, WriterInv, Sealed, Flushing, TypeOK
<1>5. PartsInv'
  BY <1>1
  DEF Inv, Alive, CallFinalize, PartsInv, WriterInv, TailPart, Lost, Over, Sealed,
      Flushing, TypeOK
<1>6. ThreadInv'
  BY <1>1 DEF Inv, Alive, CallFinalize, ThreadInv, Uploaded, StoredPart
<1>7. CountInv' /\ SlotInv'
  BY <1>1 DEF Inv, Alive, CallFinalize, CountInv, SlotInv
<1>8. PublishInv'
  BY <1>1 DEF Inv, Alive, CallFinalize, PublishInv, WriterInv, NoObject, Sealed, TypeOK
<1>9. ListIsComplete'
  BY DEF Inv, Alive, CallFinalize, ListIsComplete
<1>10. pc' # "terminated"
  BY <1>4 DEF CallFinalize
<1> QED
  BY <1>10, <1>2, <1>3, <1>4, <1>5, <1>6, <1>7, <1>8, <1>9 DEF Inv, Alive

\* The destructor of the handle starts.
LEMMA DestroyInv == Inv /\ Destroy => Inv'
<1> SUFFICES ASSUME Inv, Destroy PROVE Inv'
  OBVIOUS
<1> USE PartSizeAssumption, ThreadsAssumption, Uint16Assumption, BoundsAssumption
    DEF localVars, writerVars, bufferVars, sessionVars, partVars, statusVars,
        uploadVars, s3Vars, callerVars
<1>1. /\ Full' = Full /\ Rest' = Rest /\ Layout(file_offset)' = Layout(file_offset)
      /\ SlotHolders' = SlotHolders /\ CountedParts' = CountedParts
  BY DEF Destroy, Full, Rest, Layout, SlotHolders, CountedParts
<1>2. TypeOK'
  BY DEF Inv, Destroy, TypeOK, WriterPc
<1>3. PublishedIsComplete' /\ NoSilentLoss'
  BY <1>1 DEF Inv, Destroy, PublishedIsComplete, NoSilentLoss, NoObject
<1>4. WriterInv'
  BY <1>1 DEF Inv, Alive, Destroy, WriterInv, Sealed, Flushing
<1>5. PartsInv'
  BY <1>1
  DEF Inv, Alive, Destroy, PartsInv, WriterInv, TailPart, Lost, Over, Sealed, Flushing
<1>6. ThreadInv'
  BY <1>1 DEF Inv, Alive, Destroy, ThreadInv, Uploaded, StoredPart
<1>7. CountInv' /\ SlotInv'
  BY <1>1 DEF Inv, Alive, Destroy, CountInv, SlotInv
<1>8. PublishInv'
  BY <1>1 DEF Inv, Alive, Destroy, PublishInv, WriterInv, NoObject, Sealed
<1>9. ListIsComplete'
  BY DEF Inv, Alive, Destroy, ListIsComplete
<1>10. pc' # "terminated"
  BY <1>4 DEF Destroy
<1> QED
  BY <1>10, <1>2, <1>3, <1>4, <1>5, <1>6, <1>7, <1>8, <1>9 DEF Inv, Alive

\* A condition variable wakes up spuriously.
LEMMA SpuriousWakeupInv == Inv /\ SpuriousWakeup => Inv'
<1> SUFFICES ASSUME Inv, SpuriousWakeup PROVE Inv'
  OBVIOUS
<1> USE PartSizeAssumption, ThreadsAssumption, Uint16Assumption, BoundsAssumption
    DEF localVars, writerVars, bufferVars, sessionVars, partVars, statusVars,
        uploadVars, s3Vars, callerVars
<1>1. /\ Full' = Full /\ Rest' = Rest /\ Layout(file_offset)' = Layout(file_offset)
      /\ SlotHolders' = SlotHolders /\ CountedParts' = CountedParts
  BY DEF SpuriousWakeup, Full, Rest, Layout, SlotHolders, CountedParts
<1>2. TypeOK'
  BY DEF Inv, SpuriousWakeup, TypeOK, WriterPc
<1>3. PublishedIsComplete' /\ NoSilentLoss'
  BY <1>1 DEF Inv, SpuriousWakeup, PublishedIsComplete, NoSilentLoss, NoObject
<1>4. WriterInv'
  BY <1>1 DEF Inv, Alive, SpuriousWakeup, WriterInv, Sealed, Flushing
<1>5. PartsInv'
  BY <1>1
  DEF Inv, Alive, SpuriousWakeup, PartsInv, WriterInv, TailPart, Lost, Over, Sealed,
      Flushing
<1>6. ThreadInv'
  BY <1>1 DEF Inv, Alive, SpuriousWakeup, ThreadInv, Uploaded, StoredPart
<1>7. CountInv' /\ SlotInv'
  BY <1>1 DEF Inv, Alive, SpuriousWakeup, CountInv, SlotInv
<1>8. PublishInv'
  BY <1>1 DEF Inv, Alive, SpuriousWakeup, PublishInv, WriterInv, NoObject, Sealed
<1>9. ListIsComplete'
  BY DEF Inv, Alive, SpuriousWakeup, ListIsComplete
<1>10. pc' # "terminated"
  BY <1>4 DEF SpuriousWakeup
<1> QED
  BY <1>10, <1>2, <1>3, <1>4, <1>5, <1>6, <1>7, <1>8, <1>9 DEF Inv, Alive

\* FlushBuffer takes a slot or goes to sleep.
LEMMA AcquireSlotInv == Inv /\ AcquireSlot => Inv'
<1> SUFFICES ASSUME Inv, AcquireSlot PROVE Inv'
  OBVIOUS
<1> USE PartSizeAssumption, ThreadsAssumption, Uint16Assumption, BoundsAssumption
    DEF localVars, writerVars, bufferVars, sessionVars, partVars, statusVars,
        uploadVars, s3Vars, callerVars
<1>1. /\ Full' = Full /\ Rest' = Rest /\ Layout(file_offset)' = Layout(file_offset)
      /\ SlotHolders' = SlotHolders /\ CountedParts' = CountedParts
  BY DEF AcquireSlot, Full, Rest, Layout, SlotHolders, CountedParts
<1>2. TypeOK'
  BY SMTT(30) DEF Inv, AcquireSlot, TypeOK, WriterPc
<1>3. PublishedIsComplete' /\ NoSilentLoss'
  BY <1>1 DEF Inv, AcquireSlot, PublishedIsComplete, NoSilentLoss, NoObject
<1>4. WriterInv'
  BY <1>1 DEF Inv, Alive, AcquireSlot, WriterInv, Sealed, Flushing
<1>5. PartsInv'
  BY <1>1
  DEF Inv, Alive, AcquireSlot, PartsInv, WriterInv, TailPart, Lost, Over, Sealed, Flushing
<1>6. ThreadInv'
  BY <1>1 DEF Inv, Alive, AcquireSlot, ThreadInv, Uploaded, StoredPart
<1>7. CountInv' /\ SlotInv'
  BY <1>1, SetsFinite DEF Inv, Alive, AcquireSlot, CountInv, SlotInv, TypeOK
<1>8. PublishInv'
  BY <1>1 DEF Inv, Alive, AcquireSlot, PublishInv, WriterInv, NoObject, Sealed
<1>9. ListIsComplete'
  BY DEF Inv, Alive, AcquireSlot, ListIsComplete
<1>10. pc' # "terminated"
  BY <1>4 DEF AcquireSlot
<1> QED
  BY <1>10, <1>2, <1>3, <1>4, <1>5, <1>6, <1>7, <1>8, <1>9 DEF Inv, Alive

\* FlushAllBuffers initializes the upload.
LEMMA FlushAllInitInv == Inv /\ FlushAllInit => Inv'
<1> SUFFICES ASSUME Inv, FlushAllInit PROVE Inv'
  OBVIOUS
<1> USE PartSizeAssumption, ThreadsAssumption, Uint16Assumption, BoundsAssumption
   
    DEF localVars, writerVars, bufferVars, sessionVars, partVars, statusVars,
        uploadVars, s3Vars, callerVars, InitializeMultipartUpload,
        InitializationThrows, Throw, Leave
<1>1. /\ Full' = Full /\ Rest' = Rest /\ Layout(file_offset)' = Layout(file_offset)
      /\ SlotHolders' = SlotHolders /\ CountedParts' = CountedParts
  BY DEF FlushAllInit, Full, Rest, Layout, SlotHolders, CountedParts
<1>2. TypeOK'
  <2>1. CASE InitializeMultipartUpload
    <3>1. multipart_upload_id' \in 0 .. s3_uploads' /\ s3_uploads' \in Nat
      BY <2>1 DEF Inv, TypeOK
    <3> QED
      BY <2>1, <3>1 DEF Inv, FlushAllInit, TypeOK, WriterPc
  <2>2. CASE InitializationThrows
    <3>1. multipart_upload_id' \in 0 .. s3_uploads' /\ s3_uploads' \in Nat
      BY <2>2 DEF Inv, TypeOK
    <3> QED
      BY <2>2, <3>1, ZenonT(40) DEF Inv, FlushAllInit, TypeOK, WriterPc
  <2> QED
    BY <2>1, <2>2 DEF FlushAllInit
<1>3. PublishedIsComplete' /\ NoSilentLoss'
  BY <1>1 DEF Inv, FlushAllInit, PublishedIsComplete, NoSilentLoss, NoObject
<1>4. WriterInv'
  BY <1>1 DEF Inv, Alive, FlushAllInit, WriterInv, Sealed, Flushing
<1>5. PartsInv'
  BY <1>1
  DEF Inv, Alive, FlushAllInit, PartsInv, WriterInv, TailPart, Lost, Over, Sealed,
      Flushing
<1>6. ThreadInv'
  <2>1. \A p \in Parts : thread_pc[p] = Unused
    BY DEF Inv, Alive, FlushAllInit, WriterInv, ThreadInv
  <2>2. ~has_error
    BY DEF Inv, Alive, FlushAllInit, WriterInv, ThreadInv
  <2> QED
    BY <2>1, <2>2 DEF Inv, Alive, FlushAllInit, ThreadInv, Unused
<1>7. CountInv' /\ SlotInv'
  BY <1>1 DEF Inv, Alive, FlushAllInit, CountInv, SlotInv
<1>8. PublishInv'
  BY <1>1 DEF Inv, Alive, FlushAllInit, PublishInv, WriterInv, NoObject, Sealed
<1>9. ListIsComplete'
  BY DEF Inv, Alive, FlushAllInit, ListIsComplete
<1>10. pc' # "terminated"
  BY <1>4 DEF FlushAllInit
<1> QED
  BY <1>10, <1>2, <1>3, <1>4, <1>5, <1>6, <1>7, <1>8, <1>9 DEF Inv, Alive

\* FlushAllBuffers looks at its next buffer.
LEMMA FlushAllLoopInv == Inv /\ FlushAllLoop => Inv'
<1> SUFFICES ASSUME Inv, FlushAllLoop PROVE Inv'
  OBVIOUS
<1> USE PartSizeAssumption, ThreadsAssumption, Uint16Assumption, BoundsAssumption
    DEF localVars, writerVars, bufferVars, sessionVars, partVars, statusVars,
        uploadVars, s3Vars, callerVars
<1>1. /\ Full' = Full /\ Rest' = Rest /\ Layout(file_offset)' = Layout(file_offset)
      /\ SlotHolders' = SlotHolders /\ CountedParts' = CountedParts
  BY DEF FlushAllLoop, Full, Rest, Layout, SlotHolders, CountedParts
<1>2. TypeOK'
  BY DEF Inv, FlushAllLoop, TypeOK, WriterPc
<1>3. PublishedIsComplete' /\ NoSilentLoss'
  BY <1>1 DEF Inv, FlushAllLoop, PublishedIsComplete, NoSilentLoss, NoObject
<1>4. WriterInv'
  <2>1. CASE to_flush = {} /\ pc' = "final" /\ UNCHANGED <<to_flush, cur>>
    BY <1>1, <2>1 DEF Inv, Alive, FlushAllLoop, WriterInv, Sealed, Flushing
  <2>2. ASSUME NEW p \in to_flush, to_flush' = to_flush \ {p}, buffers[p].uploading,
               UNCHANGED <<pc, cur>>
        PROVE  WriterInv'
    BY <1>1, <2>2 DEF Inv, Alive, FlushAllLoop, WriterInv, Sealed, Flushing
  <2>3. ASSUME NEW p \in to_flush, to_flush' = to_flush \ {p}, ~buffers[p].uploading,
               pc' = "flush", cur' = p
        PROVE  WriterInv'
    <3>1. p \in write_buffers /\ p \in Parts /\ Full \in Nat
      BY FullRestType DEF Inv, Alive, FlushAllLoop, WriterInv, TypeOK
    <3>2. write_buffers \subseteq {Full} /\ p = Full
      BY <3>1, SMTT(40) DEF Inv, Alive, FlushAllLoop, PartsInv, TypeOK, Parts
    <3>3. ~Flushing /\ ~Lost
      BY <3>1 DEF Flushing, Lost, FlushAllLoop
    <3>4. TailPart
      BY <3>3 DEF Inv, Alive, FlushAllLoop, PartsInv
    <3>5. thread_pc[p] = Unused /\ Rest > 0 /\ buffers[p].idx = Rest
      BY <2>3, <3>1, <3>2, <3>4 DEF TailPart
    <3>6. to_flush' = {}
      BY <2>3, <3>1, <3>2 DEF Inv, Alive, FlushAllLoop, WriterInv
    <3> QED
      BY <1>1, <2>3, <3>1, <3>2, <3>5, <3>6
      DEF Inv, Alive, FlushAllLoop, WriterInv, Sealed, Flushing
  <2> QED
    BY <2>1, <2>2, <2>3 DEF FlushAllLoop
<1>5. PartsInv'
  BY <1>1
  DEF Inv, Alive, FlushAllLoop, PartsInv, WriterInv, TailPart, Lost, Over, Sealed,
      Flushing
<1>6. ThreadInv'
  BY <1>1 DEF Inv, Alive, FlushAllLoop, ThreadInv, Uploaded, StoredPart
<1>7. CountInv' /\ SlotInv'
  BY <1>1 DEF Inv, Alive, FlushAllLoop, CountInv, SlotInv
<1>8. PublishInv'
  BY <1>1 DEF Inv, Alive, FlushAllLoop, PublishInv, WriterInv, NoObject, Sealed
<1>9. ListIsComplete'
  BY DEF Inv, Alive, FlushAllLoop, ListIsComplete
<1>10. pc' # "terminated"
  BY <1>4 DEF FlushAllLoop
<1> QED
  BY <1>10, <1>2, <1>3, <1>4, <1>5, <1>6, <1>7, <1>8, <1>9 DEF Inv, Alive

\* One turn of Write: the chunk ends inside the part being filled, or fills
\* it exactly.
LEMMA ChunkFits ==
    ASSUME Inv, WriteChunk
    PROVE  /\ BufferIdx = Full /\ Full \in Parts
           /\ GetBuffer(Full) = [idx |-> Rest, uploading |-> FALSE]
           /\ BytesToWrite \in 1 .. remaining
           /\ Rest + BytesToWrite <= PartSize
           /\ thread_pc[Full] = Unused
           /\ ~Sealed /\ ~failed /\ call = "write"
<1> USE PartSizeAssumption, BoundsAssumption
<1>1. BufferIdx = Full /\ IdxToWrite = Rest /\ Full \in Parts
  BY BufferIdxIsFull, FullIsPart DEF WriteChunk
<1>2. ~Sealed /\ ~failed /\ call = "write" /\ remaining > 0
  BY DEF Inv, Alive, WriteChunk, WriterInv, Sealed, TypeOK
<1>3. TailPart
  BY <1>2 DEF Inv, Alive, WriteChunk, PartsInv, Flushing, Lost, Over
<1>4. thread_pc[Full] = Unused /\ GetBuffer(Full) = [idx |-> Rest, uploading |-> FALSE]
  <2>1. ~Over
    BY <1>2 DEF Over, WriteChunk
  <2>2. /\ thread_pc[Full] = Unused
        /\ Full \in write_buffers <=> Rest > 0
        /\ Rest > 0 => buffers[Full] = [idx |-> Rest, uploading |-> FALSE]
    BY <1>2, <1>3, <2>1 DEF TailPart
  <2>3. Rest > 0 \/ Rest = 0
    BY FullRestType DEF Inv
  <2> QED
    BY <2>2, <2>3 DEF GetBuffer
<1>5. Rest \in 0 .. PartSize - 1 /\ remaining \in Nat
  BY FullRestType, SMTT(40) DEF Inv, TypeOK
<1>6. BytesToWrite \in 1 .. remaining /\ Rest + BytesToWrite <= PartSize
  BY <1>1, <1>2, <1>5 DEF BytesToWrite
<1> QED
  BY <1>1, <1>2, <1>4, <1>6

\* The allocation of a buffer fails.
LEMMA GetBufferThrowsInv == Inv /\ GetBufferThrows => Inv'
<1> SUFFICES ASSUME Inv, GetBufferThrows PROVE Inv'
  OBVIOUS
<1> USE PartSizeAssumption, ThreadsAssumption, Uint16Assumption, BoundsAssumption
    DEF localVars, writerVars, bufferVars, sessionVars, partVars, statusVars,
        uploadVars, s3Vars, callerVars, Throw, Leave
<1>0. call = "write" /\ pc = "write" /\ pc' = "idle" /\ failed' = TRUE
  BY DEF Inv, Alive, GetBufferThrows, WriterInv
<1>1. /\ Full' = Full /\ Rest' = Rest /\ Layout(file_offset)' = Layout(file_offset)
      /\ SlotHolders' = SlotHolders /\ CountedParts' = CountedParts
  BY DEF GetBufferThrows, Full, Rest, Layout, SlotHolders, CountedParts
<1>2. TypeOK'
  BY <1>0 DEF Inv, GetBufferThrows, TypeOK, WriterPc
<1>3. PublishedIsComplete' /\ NoSilentLoss'
  BY <1>1 DEF Inv, GetBufferThrows, PublishedIsComplete, NoSilentLoss, NoObject
<1>4. WriterInv'
  BY <1>0, <1>1 DEF Inv, Alive, GetBufferThrows, WriterInv, Sealed, Flushing
<1>5. PartsInv'
  BY <1>0, <1>1
  DEF Inv, Alive, GetBufferThrows, PartsInv, TailPart, Lost, Over, Sealed, Flushing
<1>6. ThreadInv'
  BY <1>1 DEF Inv, Alive, GetBufferThrows, ThreadInv, Uploaded, StoredPart
<1>7. CountInv' /\ SlotInv'
  BY <1>0, <1>1 DEF Inv, Alive, GetBufferThrows, CountInv, SlotInv
<1>8. PublishInv'
  BY <1>0, <1>1 DEF Inv, Alive, GetBufferThrows, PublishInv, WriterInv, NoObject, Sealed
<1>9. ListIsComplete'
  BY <1>0 DEF Inv, Alive, ListIsComplete
<1> QED
  BY <1>0, <1>2, <1>3, <1>4, <1>5, <1>6, <1>7, <1>8, <1>9 DEF Inv, Alive

\* Write copies one chunk into its buffer.
LEMMA WriteChunkInv == Inv /\ WriteChunk => Inv'
<1> SUFFICES ASSUME Inv, WriteChunk PROVE Inv'
  OBVIOUS
<1> USE PartSizeAssumption, ThreadsAssumption, Uint16Assumption, BoundsAssumption
    DEF localVars, writerVars, bufferVars, sessionVars, partVars, statusVars,
        uploadVars, s3Vars, callerVars, Advance
<1> DEFINE n == BytesToWrite
<1>a. /\ BufferIdx = Full /\ Full \in Parts
      /\ GetBuffer(Full) = [idx |-> Rest, uploading |-> FALSE]
      /\ n \in 1 .. remaining /\ Rest + n <= PartSize
      /\ thread_pc[Full] = Unused
      /\ ~Sealed /\ ~failed /\ call = "write"
  BY ChunkFits
<1>b. Rest \in 0 .. PartSize - 1 /\ Full \in Nat /\ remaining \in 0 .. MaxLen
      /\ file_offset \in 0 .. MaxLen /\ file_offset + remaining <= MaxLen
  BY FullRestType DEF Inv, Alive, WriterInv, WriteChunk, TypeOK
<1> HIDE DEF n
<1>c. /\ write_buffers' = write_buffers \cup {Full}
      /\ buffers' = [buffers EXCEPT ![Full] = [idx |-> Rest + n, uploading |-> FALSE]]
      /\ cur' = Full /\ chunk' = n
  BY <1>a DEF WriteChunk, n
<1>d. \/ /\ Rest + n = PartSize /\ pc' = "flush" /\ UNCHANGED <<remaining, file_offset>>
         /\ Full' = Full /\ Rest' = Rest
      \/ /\ Rest + n < PartSize /\ Full' = Full /\ Rest' = Rest + n
         /\ file_offset' = file_offset + n /\ remaining' = remaining - n
         /\ pc' \in {"idle", "write"} /\ (pc' = "write" => remaining' > 0)
  <2>1. CASE Rest + n = PartSize
    BY <1>a, <1>b, <2>1 DEF WriteChunk, n, Full, Rest
  <2>2. CASE Rest + n < PartSize
    <3>1. file_offset' = file_offset + n /\ remaining' = remaining - n
          /\ pc' = IF remaining = n THEN "idle" ELSE "write"
      BY <1>a, <1>b, <2>2 DEF WriteChunk, n
    <3>2. Full' = Full /\ Rest' = Rest + n
      BY <1>a, <1>b, <2>2, <3>1, AdvanceFullRest DEF Inv
    <3> QED
      BY <1>a, <1>b, <2>2, <3>1, <3>2
  <2> QED
    BY <1>a, <1>b, <2>1, <2>2
<1>e. /\ pc = "write" /\ UNCHANGED <<call, to_flush, transient_retries, kms_key,
          initialized_multipart_upload, multipart_upload_id,
          uploads_in_progress, part_etags, parts_uploaded,
          upload_finalized, has_error, thread_pc, s3_uploads, s3_parts, object,
          finalize_calls, failed, acked>>
  BY DEF WriteChunk
<1>1. /\ SlotHolders' = SlotHolders /\ CountedParts' = CountedParts
  BY <1>e DEF SlotHolders, CountedParts
<1>2. TypeOK'
  <2>1. buffers' \in [Parts -> [idx : 0 .. PartSize, uploading : BOOLEAN]]
    BY <1>a, <1>b, <1>c DEF Inv, TypeOK
  <2>2. write_buffers' \in SUBSET Parts /\ cur' \in Parts /\ chunk' \in 0 .. MaxLen
    BY <1>a, <1>b, <1>c DEF Inv, TypeOK
  <2>3. remaining' \in 0 .. MaxLen /\ file_offset' \in 0 .. MaxLen /\ pc' \in WriterPc
    BY <1>a, <1>b, <1>d, <1>e DEF WriterPc
  <2> QED
    BY <1>e, <2>1, <2>2, <2>3 DEF Inv, TypeOK
<1>3. PublishedIsComplete' /\ NoSilentLoss'
  <2>1. object' = NoObject /\ ~acked'
    BY <1>a, <1>e DEF Inv, Alive, PublishInv
  <2> QED
    BY <2>1 DEF PublishedIsComplete, NoSilentLoss, NoObject
<1>4. WriterInv'
  <2>1. buffers'[Full] = [idx |-> Rest + n, uploading |-> FALSE]
    BY <1>a, <1>c DEF Inv, TypeOK
  <2>2. CASE pc' = "flush"
    BY <1>a, <1>b, <1>c, <1>d, <1>e, <2>1, <2>2
    DEF Inv, Alive, WriterInv, Flushing, Sealed
  <2>3. CASE pc' \in {"idle", "write"}
    BY <1>a, <1>b, <1>d, <1>e, <2>3 DEF Inv, Alive, WriterInv, Flushing, Sealed
  <2> QED
    BY <1>d, <2>2, <2>3
<1>5. PartsInv'
  <2>1. Full' = Full /\ (Rest' > 0 \/ pc' = "flush")
    BY <1>a, <1>b, <1>d
  <2>2. pc' = "flush" \/ TailPart'
    <3>1. buffers'[Full] = [idx |-> Rest + n, uploading |-> FALSE]
      BY <1>a, <1>c DEF Inv, TypeOK
    <3>2. Rest + n > 0
      BY <1>a, <1>b
    <3> QED
      BY <1>a, <1>c, <1>d, <1>e, <3>1, <3>2 DEF TailPart
  <2>3. \A p \in Parts : p # Full => buffers'[p] = buffers[p]
    BY <1>c DEF Inv, TypeOK
  <2> QED
    BY <1>a, <1>b, <1>c, <1>e, <2>1, <2>2, <2>3 DEF Inv, Alive, PartsInv, Flushing
<1>7. CountInv' /\ SlotInv' /\ ThreadInv'
  <2>1. \A p \in Parts : p # Full => buffers'[p] = buffers[p]
    BY <1>c DEF Inv, TypeOK
  <2>2. ThreadInv'
    <3>1. pc # "terminated"
      BY <1>e
    <3>2. \A p \in Parts \ {Full} : StoredPart(p)' = StoredPart(p) /\ (Uploaded(p)' <=> Uploaded(p))
      BY <1>e, <2>1 DEF StoredPart, Uploaded
    <3> QED
      BY <1>a, <1>e, <2>1, <3>1, <3>2 DEF Inv, Alive, ThreadInv, Unused
  <2> QED
    BY <1>1, <1>d, <1>e, <2>2 DEF Inv, Alive, CountInv, SlotInv
<1>8. PublishInv'
  BY <1>a, <1>d, <1>e DEF Inv, Alive, PublishInv, Sealed, NoObject
<1>9. ListIsComplete'
  BY <1>d DEF ListIsComplete
<1>10. pc' # "terminated"
  BY <1>d
<1> QED
  BY <1>10, <1>2, <1>3, <1>4, <1>5, <1>7, <1>8, <1>9 DEF Inv, Alive

\* As long as no error was reported, every part that S3 would refuse is still
\* being sent, so there are at most MaxUploadThreads of them.
LEMMA PartLimit ==
    ASSUME Inv, pc # "terminated", ~has_error
    PROVE  Full <= S3MaxParts + MaxUploadThreads
<1> USE Uint16Assumption, ThreadsAssumption
<1> DEFINE Refused == S3MaxParts .. Full - 1
<1>1. Full \in Parts /\ Full \in Nat /\ uploads_in_progress \in 0 .. MaxUploadThreads
  BY FullIsPart, FullRestType DEF Inv, TypeOK
<1>2. ASSUME NEW p \in Refused PROVE p \in SlotHolders
  <2>1. p \in Parts /\ p < Full /\ ~(p < S3MaxParts)
    BY <1>1 DEF Parts
  <2>2. thread_pc[p] # Unused /\ thread_pc[p] \in ThreadPc
    BY <2>1 DEF Inv, Alive, PartsInv, TypeOK
  <2>3. thread_pc[p] = "put"
    BY <2>1, <2>2 DEF Inv, Alive, ThreadInv, Uploaded, ThreadPc, Unused
  <2> QED
    BY <2>1, <2>3 DEF SlotHolders
<1>3. Cardinality(Refused) <= Cardinality(SlotHolders) /\ Cardinality(Refused) \in Nat
  BY <1>2, SetsFinite, FS_Subset, FS_CardinalityType
<1>4. CASE S3MaxParts < Full
  <2>1. Cardinality(Refused) = Full - 1 - S3MaxParts + 1
    BY <1>1, <1>4, FS_Interval
  <2> QED
    BY <1>1, <1>3, <2>1, SetsFinite DEF Inv, Alive, SlotInv
<1> QED
  BY <1>1, <1>4

\* FlushBuffer marks the buffer and takes it out of the map.
LEMMA FlushBufferInv == Inv /\ FlushBuffer => Inv'
<1> SUFFICES ASSUME Inv, FlushBuffer PROVE Inv'
  OBVIOUS
<1> USE PartSizeAssumption, ThreadsAssumption, Uint16Assumption, BoundsAssumption
    DEF localVars, writerVars, bufferVars, sessionVars, partVars, statusVars,
        uploadVars, s3Vars, callerVars
<1>a. /\ cur = Full /\ Full \in Parts /\ thread_pc[Full] = Unused
      /\ buffers[Full].idx > 0 /\ ~buffers[Full].uploading /\ Full \in write_buffers
  BY FullIsPart DEF Inv, Alive, FlushBuffer, RethrowIOError, WriterInv, Flushing
<1>b. /\ pc = "flush"
      /\ buffers' = [buffers EXCEPT ![Full].uploading = TRUE]
      /\ \/ has_error /\ Throw /\ UNCHANGED write_buffers
         \/ ~has_error /\ write_buffers' = write_buffers \ {Full} /\ pc' = "slot"
              /\ UNCHANGED callerVars
      /\ UNCHANGED <<call, remaining, chunk, cur, to_flush, transient_retries,
           file_offset, kms_key, initialized_multipart_upload, multipart_upload_id,
           uploads_in_progress, part_etags, parts_uploaded, upload_finalized,
           has_error, thread_pc, s3Vars>>
  <2>1. ~(buffers[cur].idx = 0 \/ buffers[cur].uploading)
    BY <1>a
  <2> QED
    BY <1>a, <2>1 DEF FlushBuffer, RethrowIOError
<1>c. /\ \A p \in Parts : buffers'[p].idx = buffers[p].idx
      /\ \A p \in Parts \ {Full} : buffers'[p] = buffers[p]
      /\ buffers'[Full].uploading
  BY <1>a, <1>b DEF Inv, TypeOK
<1>1. /\ Full' = Full /\ Rest' = Rest /\ Layout(file_offset)' = Layout(file_offset)
      /\ SlotHolders' = SlotHolders /\ CountedParts' = CountedParts
  BY <1>b DEF Full, Rest, Layout, SlotHolders, CountedParts
<1>2. TypeOK'
  BY <1>a, <1>b, ZenonT(40) DEF Inv, TypeOK, WriterPc, Throw, Leave
<1>3. PublishedIsComplete' /\ NoSilentLoss'
  BY <1>1, <1>b DEF Inv, PublishedIsComplete, NoSilentLoss, NoObject, Throw, Leave
<1>4. WriterInv'
  <2>1. CASE has_error
    BY <1>1, <1>b, <2>1 DEF Inv, Alive, WriterInv, Sealed, Flushing, Throw, Leave
  <2>2. CASE ~has_error
    <3>1. Full <= S3MaxParts + MaxUploadThreads
      BY <1>b, <2>2, PartLimit
    <3> QED
      BY <1>1, <1>a, <1>b, <1>c, <2>2, <3>1 DEF Inv, Alive, WriterInv, Sealed, Flushing
  <2> QED
    BY <2>1, <2>2
<1>5. PartsInv'
  <2>1. Flushing' \/ TailPart'
    BY <1>1, <1>a, <1>b, <1>c DEF TailPart, Flushing, Over, Throw, Leave
  <2> QED
    BY <1>1, <1>a, <1>b, <1>c, <2>1 DEF Inv, Alive, PartsInv
<1>6. ThreadInv'
  BY <1>b, <1>c DEF Inv, Alive, ThreadInv, Uploaded, StoredPart
<1>7. CountInv' /\ SlotInv'
  BY <1>1, <1>b DEF Inv, Alive, CountInv, SlotInv, Throw, Leave
<1>8. PublishInv'
  <2>1. failed' \/ pc' = "destroyed" \/ (pc' = "slot" /\ failed' = failed)
    BY <1>b DEF Throw, Leave
  <2>2. pc' \in {"idle", "destroyed", "slot"} /\ acked' = acked /\ Sealed' = Sealed
    BY <1>b DEF Throw, Leave, Sealed
  <2> QED
    BY <1>1, <1>b, <2>1, <2>2 DEF Inv, Alive, PublishInv, NoObject
<1>9. ListIsComplete'
  BY <1>b DEF ListIsComplete, Throw, Leave
<1>10. pc' # "terminated"
  BY <1>b DEF Throw, Leave
<1> QED
  BY <1>10, <1>2, <1>3, <1>4, <1>5, <1>6, <1>7, <1>8, <1>9 DEF Inv, Alive

\* FlushBuffer initializes the upload.
LEMMA FlushInitInv == Inv /\ FlushInit => Inv'
<1> SUFFICES ASSUME Inv, FlushInit PROVE Inv'
  OBVIOUS
<1> USE PartSizeAssumption, ThreadsAssumption, Uint16Assumption, BoundsAssumption
   
    DEF localVars, writerVars, bufferVars, sessionVars, partVars, statusVars,
        uploadVars, s3Vars, callerVars, InitializeMultipartUpload,
        InitializationThrows, Throw, Leave
<1>a. /\ \A p \in Parts : thread_pc[p] = Unused
      /\ ~has_error
  BY DEF Inv, Alive, FlushInit, GiveSlotBack, WriterInv, ThreadInv
<1>b. uploads_in_progress \in 1 .. MaxUploadThreads
  BY SetsFinite DEF Inv, Alive, FlushInit, GiveSlotBack, SlotInv, TypeOK
<1>c. multipart_upload_id' \in 0 .. s3_uploads' /\ s3_uploads' \in Nat
  BY DEF FlushInit, GiveSlotBack, Inv, TypeOK
<1>d. parts_uploaded = 0
  <2>1. CountedParts = {}
    BY <1>a DEF Inv, Alive, FlushInit, GiveSlotBack, ThreadInv, CountedParts
  <2> QED
    BY <2>1, FS_EmptySet DEF Inv, Alive, FlushInit, GiveSlotBack, CountInv
<1>e. write_buffers = {}
  <2>1. Full \in Nat
    BY FullRestType DEF Inv
  <2> QED
    BY <2>1
    DEF Inv, Alive, FlushInit, GiveSlotBack, PartsInv, WriterInv, Flushing, TypeOK,
        Parts
<1>1. /\ Full' = Full /\ Rest' = Rest /\ Layout(file_offset)' = Layout(file_offset)
      /\ SlotHolders' = SlotHolders /\ CountedParts' = CountedParts
  BY DEF FlushInit, GiveSlotBack, Full, Rest, Layout, SlotHolders, CountedParts
<1>2. TypeOK'
  <2>1. uploads_in_progress' \in 0 .. MaxUploadThreads
    BY <1>b DEF FlushInit, GiveSlotBack
  <2>2. pc' \in WriterPc /\ failed' \in BOOLEAN /\ acked' \in BOOLEAN
        /\ finalize_calls' \in 0 .. MaxFinalizeCalls
        /\ initialized_multipart_upload' \in BOOLEAN
    BY DEF Inv, FlushInit, GiveSlotBack, TypeOK, WriterPc
  <2> QED
    BY <1>c, <2>1, <2>2 DEF Inv, FlushInit, GiveSlotBack, TypeOK
<1>3. PublishedIsComplete' /\ NoSilentLoss'
  BY <1>1 DEF Inv, FlushInit, GiveSlotBack, PublishedIsComplete, NoSilentLoss, NoObject
<1>4. WriterInv'
  BY <1>1 DEF Inv, Alive, FlushInit, GiveSlotBack, WriterInv, Sealed, Flushing
<1>5. PartsInv'
  <2>1. Flushing' \/ Lost'
    BY <1>1, <1>a, <1>d, <1>e DEF FlushInit, GiveSlotBack, Flushing, Lost, Over
  <2> QED
    BY <1>1, <2>1 DEF Inv, Alive, FlushInit, GiveSlotBack, PartsInv
<1>6. ThreadInv'
  BY <1>a DEF Inv, Alive, FlushInit, GiveSlotBack, ThreadInv, Unused
<1>7. CountInv' /\ SlotInv'
  BY <1>1, <1>a, <1>b, SetsFinite
  DEF Inv, Alive, FlushInit, GiveSlotBack, CountInv, SlotInv
<1>8. PublishInv'
  <2>1. failed' \/ pc' = "destroyed" \/ (pc' = "spawn" /\ failed' = failed)
    BY DEF FlushInit, GiveSlotBack
  <2>2. pc' \in {"idle", "destroyed", "spawn"} /\ acked' = acked /\ Sealed' = Sealed
        /\ pc = "init"
    BY DEF FlushInit, GiveSlotBack, Sealed
  <2> QED
    BY <1>1, <2>1, <2>2 DEF Inv, Alive, FlushInit, GiveSlotBack, PublishInv, NoObject
<1>9. ListIsComplete'
  BY DEF Inv, Alive, FlushInit, GiveSlotBack, ListIsComplete
<1>10. pc' # "terminated"
  BY <1>4 DEF FlushInit, GiveSlotBack
<1> QED
  BY <1>10, <1>2, <1>3, <1>4, <1>5, <1>6, <1>7, <1>8, <1>9 DEF Inv, Alive

\* FlushBuffer starts the upload thread.
LEMMA SpawnInv == Inv /\ Spawn => Inv'
<1> SUFFICES ASSUME Inv, Spawn PROVE Inv'
  OBVIOUS
<1> USE PartSizeAssumption, ThreadsAssumption, Uint16Assumption, BoundsAssumption
    DEF localVars, writerVars, bufferVars, sessionVars, partVars, statusVars,
        uploadVars, s3Vars, callerVars
<1>a. /\ pc = "spawn" /\ cur = Full /\ Full \in Parts /\ thread_pc[Full] = Unused
      /\ buffers[Full].idx > 0 /\ Full \notin write_buffers
      /\ initialized_multipart_upload
      /\ Full <= S3MaxParts + MaxUploadThreads
      /\ uploads_in_progress > Cardinality(SlotHolders)
  BY FullIsPart DEF Inv, Alive, Spawn, WriterInv, Flushing, SlotInv
<1>b. Full \in Nat /\ Rest \in 0 .. PartSize - 1 /\ Cardinality(SlotHolders) \in Nat
      /\ uploads_in_progress \in 0 .. MaxUploadThreads
  BY FullRestType, SetsFinite DEF Inv, TypeOK
<1>c. UNCHANGED <<call, chunk, cur, to_flush, transient_retries, kms_key,
                   write_buffers, buffers, initialized_multipart_upload,
                   multipart_upload_id, uploads_in_progress, part_etags,
                   parts_uploaded, upload_finalized, has_error, s3_uploads,
                   s3_parts, object>>
  BY DEF Spawn
<1>d. write_buffers = {}
  BY <1>a, <1>b DEF Inv, Alive, PartsInv, WriterInv, TypeOK, Parts
<1>e. part_etags[Full] = 0
  BY <1>a DEF Inv, Alive, ThreadInv
<1>f. \/ /\ thread_pc' = [thread_pc EXCEPT ![Full] = "put"]
         /\ UNCHANGED callerVars
         /\ call = "write"
         /\ Full' = Full + 1 /\ Rest' = 0
         /\ file_offset' = file_offset + chunk /\ remaining' = remaining - chunk
         /\ chunk \in 1 .. remaining
         /\ remaining' \in 0 .. MaxLen /\ file_offset' + remaining' <= MaxLen
         /\ file_offset' \in 0 .. MaxLen
         /\ pc' \in {"idle", "write"} /\ (pc' = "write" => remaining' > 0)
         /\ buffers[Full].idx = PartSize
         /\ finalize_calls = 0 /\ ~failed
      \/ /\ thread_pc' = [thread_pc EXCEPT ![Full] = "put"]
         /\ UNCHANGED callerVars
         /\ call # "write" /\ pc' = "flush_loop" /\ to_flush = {}
         /\ UNCHANGED <<remaining, file_offset>>
         /\ Full' = Full /\ Rest' = Rest /\ Layout(file_offset)' = Layout(file_offset)
         /\ Sealed /\ buffers[Full].idx = Rest
      \/ /\ Throw
         /\ UNCHANGED <<thread_pc, remaining, file_offset>>
         /\ Full' = Full /\ Rest' = Rest /\ Layout(file_offset)' = Layout(file_offset)
  <2>1. CASE thread_pc' = [thread_pc EXCEPT ![cur] = "put"] /\ FlushReturns
             /\ UNCHANGED callerVars /\ call = "write"
    <3>1. /\ chunk > 0 /\ chunk <= remaining /\ Rest + chunk = PartSize
          /\ remaining > 0 /\ file_offset + remaining <= MaxLen
          /\ finalize_calls = 0 /\ ~failed /\ buffers[Full].idx = PartSize
      BY <1>a, <2>1 DEF Inv, Alive, WriterInv, Flushing
    <3>2. remaining \in 0 .. MaxLen /\ file_offset \in 0 .. MaxLen /\ chunk \in Nat
      BY DEF Inv, TypeOK
    <3>3. file_offset' = file_offset + chunk /\ remaining' = remaining - chunk
          /\ pc' = IF remaining = chunk THEN "idle" ELSE "write"
      BY <2>1 DEF FlushReturns, Advance
    <3>4. Full' = Full + 1 /\ Rest' = 0
      BY <3>1, <3>2, <3>3, AdvanceFullRest DEF Inv
    <3> QED
      BY <1>a, <2>1, <3>1, <3>2, <3>3, <3>4
  <2>2. CASE thread_pc' = [thread_pc EXCEPT ![cur] = "put"] /\ FlushReturns
             /\ UNCHANGED callerVars /\ call # "write"
    <3>1. to_flush = {} /\ Sealed /\ buffers[Full].idx = Rest
      BY <1>a, <2>2 DEF Inv, Alive, WriterInv, Flushing
    <3> QED
      BY <1>a, <2>2, <3>1 DEF FlushReturns, Full, Rest, Layout
  <2>3. CASE Throw /\ UNCHANGED <<thread_pc, remaining, file_offset>>
    BY <2>3 DEF Full, Rest, Layout
  <2> QED
    BY <2>1, <2>2, <2>3 DEF Spawn
<1>g. \/ /\ thread_pc' = [thread_pc EXCEPT ![Full] = "put"]
         /\ SlotHolders' = SlotHolders \cup {Full}
         /\ Cardinality(SlotHolders') = Cardinality(SlotHolders) + 1
      \/ UNCHANGED thread_pc /\ SlotHolders' = SlotHolders
  <2>1. CASE thread_pc' = [thread_pc EXCEPT ![Full] = "put"]
    <3>1. SlotHolders' = SlotHolders \cup {Full} /\ Full \notin SlotHolders
      BY <1>a, <2>1 DEF SlotHolders, Inv, TypeOK, Unused
    <3> QED
      BY <2>1, <3>1, SetsFinite, FS_AddElement
  <2>2. CASE UNCHANGED thread_pc
    BY <2>2 DEF SlotHolders
  <2> QED
    BY <1>f, <2>1, <2>2
<1>h. \/ thread_pc' = thread_pc
      \/ /\ thread_pc'[Full] = "put"
         /\ \A p \in Parts \ {Full} : thread_pc'[p] = thread_pc[p]
  BY <1>a, <1>f DEF Inv, TypeOK
<1>1. CountedParts' = CountedParts
  BY <1>a, <1>c, <1>e, <1>h DEF CountedParts
<1>2. TypeOK'
  <2>1. thread_pc' \in [Parts -> ThreadPc]
    BY <1>f DEF Inv, TypeOK, ThreadPc
  <2>2. remaining' \in 0 .. MaxLen /\ file_offset' \in 0 .. MaxLen
    BY <1>f DEF Inv, TypeOK
  <2>3. pc' \in WriterPc
    BY <1>f DEF WriterPc, Throw, Leave
  <2>4. finalize_calls' \in 0 .. MaxFinalizeCalls /\ failed' \in BOOLEAN /\ acked' \in BOOLEAN
    BY <1>f DEF Inv, TypeOK, Throw, Leave
  <2> QED
    BY <1>c, <2>1, <2>2, <2>3, <2>4 DEF Inv, TypeOK
<1>3. PublishedIsComplete' /\ NoSilentLoss'
  <2>1. acked' = acked
    BY <1>f DEF Throw
  <2>2. CASE call = "write" /\ finalize_calls = 0
    BY <1>c, <2>1, <2>2, <1>a
    DEF Inv, Alive, PublishInv, Sealed, PublishedIsComplete, NoSilentLoss, NoObject
  <2>3. CASE file_offset' = file_offset /\ Layout(file_offset)' = Layout(file_offset)
    BY <1>c, <2>1, <2>3 DEF Inv, PublishedIsComplete, NoSilentLoss, NoObject
  <2> QED
    BY <1>f, <2>2, <2>3
<1>4. WriterInv'
  <2>1. CASE pc' \in {"idle", "write"} /\ call = "write" /\ ~failed'
    BY <1>a, <1>c, <1>f, <2>1 DEF Inv, Alive, WriterInv, Sealed, Flushing, Throw, Leave
  <2>2. CASE pc' = "flush_loop"
    BY <1>a, <1>c, <1>d, <1>f, <2>2
    DEF Inv, Alive, WriterInv, Sealed, Flushing, Throw, Leave
  <2>3. CASE Throw
    BY <1>c, <1>f, <2>3 DEF Inv, Alive, WriterInv, Sealed, Flushing, Throw, Leave
  <2> QED
    BY <1>f, <2>1, <2>2, <2>3
<1>5. PartsInv'
  <2>1. CASE Full' = Full + 1 /\ Rest' = 0
    <3>1. thread_pc'[Full] = "put" /\ \A p \in Parts \ {Full} : thread_pc'[p] = thread_pc[p]
      BY <1>a, <1>f, <2>1, <1>b DEF Inv, TypeOK
    <3>2. Full' \in Parts /\ thread_pc'[Full'] = Unused
      BY <1>a, <1>b, <2>1, <3>1 DEF Inv, Alive, PartsInv, Parts
    <3>3. TailPart'
      BY <1>c, <1>d, <2>1, <3>2 DEF TailPart
    <3>4. buffers[Full].idx = PartSize
      BY <1>b, <1>f, <2>1
    <3>5. PartsInv
      BY <1>a DEF Inv, Alive
    <3>6. \A p \in Parts : p < Full' =>
            thread_pc'[p] # Unused /\ buffers'[p].idx = PartSize /\ p \notin write_buffers'
      BY <1>a, <1>b, <1>c, <1>d, <2>1, <3>1, <3>4, <3>5 DEF PartsInv, Unused, Parts
    <3>7. \A p \in Parts : p > Full' => thread_pc'[p] = Unused /\ p \notin write_buffers'
      BY <1>b, <1>c, <1>d, <2>1, <3>1, <3>5 DEF PartsInv, Parts
    <3> QED
      BY <1>a, <1>b, <2>1, <3>3, <3>6, <3>7 DEF PartsInv
  <2>2. CASE pc' = "flush_loop" /\ Full' = Full /\ Rest' = Rest
             /\ thread_pc' = [thread_pc EXCEPT ![Full] = "put"]
             /\ Sealed /\ buffers[Full].idx = Rest
    <3>1. thread_pc'[Full] = "put" /\ \A p \in Parts \ {Full} : thread_pc'[p] = thread_pc[p]
      BY <1>a, <2>2 DEF Inv, TypeOK
    <3>2. Sealed'
      BY <1>c, <1>f, <2>2 DEF Sealed, Throw
    <3>3. TailPart'
      BY <1>a, <1>c, <1>d, <2>2, <3>1, <3>2 DEF TailPart, Unused
    <3> QED
      BY <1>a, <1>b, <1>c, <1>d, <2>2, <3>1, <3>3 DEF Inv, Alive, PartsInv, Unused
  <2>3. CASE Throw /\ UNCHANGED thread_pc /\ Full' = Full
    <3>1. Lost'
      BY <1>a, <1>c, <1>d, <1>g, <2>3 DEF Lost, Over, Throw, Leave, SlotHolders
    <3> QED
      BY <1>a, <1>c, <1>d, <2>3, <3>1 DEF Inv, Alive, PartsInv
  <2> QED
    BY <1>f, <2>1, <2>2, <2>3
<1>6. ThreadInv'
  BY <1>a, <1>c, <1>e, <1>h DEF Inv, Alive, ThreadInv, Uploaded, StoredPart, Unused
<1>7. CountInv' /\ SlotInv'
  <2>1. pc' \notin {"init", "spawn"}
    BY <1>f DEF Throw, Leave
  <2> QED
    BY <1>1, <1>a, <1>b, <1>c, <1>g, <2>1 DEF Inv, Alive, CountInv, SlotInv
<1>8. PublishInv'
  <2>1. pc' \in {"idle", "write", "flush_loop", "destroyed"} /\ acked' = acked
        /\ finalize_calls' = finalize_calls
    BY <1>f DEF Throw, Leave
  <2>2. Sealed' = Sealed
    BY <1>c, <2>1 DEF Sealed
  <2>3. CASE call = "write" /\ finalize_calls = 0
    BY <1>a, <1>c, <2>1, <2>2, <2>3 DEF Inv, Alive, PublishInv, Sealed, NoObject
  <2>4. CASE Layout(file_offset)' = Layout(file_offset) /\ (failed' = failed \/ failed')
    BY <1>a, <1>c, <2>1, <2>2, <2>4 DEF Inv, Alive, PublishInv, NoObject
  <2> QED
    BY <1>f, <2>3, <2>4 DEF Throw, Leave
<1>9. ListIsComplete'
  BY <1>f DEF ListIsComplete, Throw, Leave
<1>10. pc' # "terminated"
  BY <1>f DEF Throw, Leave
<1> QED
  BY <1>10, <1>2, <1>3, <1>4, <1>5, <1>6, <1>7, <1>8, <1>9 DEF Inv, Alive

\* Finalize decides what is left to do.
LEMMA FinalizeInv == Inv /\ Finalize => Inv'
<1> SUFFICES ASSUME Inv, Finalize PROVE Inv'
  OBVIOUS
<1> USE PartSizeAssumption, ThreadsAssumption, Uint16Assumption, BoundsAssumption
    DEF localVars, writerVars, bufferVars, sessionVars, partVars, statusVars,
        uploadVars, s3Vars, callerVars, Return, Leave
<1>1. /\ Full' = Full /\ Rest' = Rest /\ Layout(file_offset)' = Layout(file_offset)
      /\ SlotHolders' = SlotHolders /\ CountedParts' = CountedParts
  BY DEF Finalize, Full, Rest, Layout, SlotHolders, CountedParts
<1>2. TypeOK'
  <2>1. cur' \in Parts /\ to_flush' \in SUBSET Parts
    BY DEF Inv, Finalize, TypeOK
  <2>2. pc' \in WriterPc /\ acked' \in BOOLEAN /\ failed' \in BOOLEAN
        /\ finalize_calls' \in 0 .. MaxFinalizeCalls
    BY DEF Inv, Finalize, TypeOK, WriterPc
  <2> QED
    BY <2>1, <2>2 DEF Inv, Finalize, TypeOK
<1>3. PublishedIsComplete' /\ NoSilentLoss'
  <2>1. object' = object /\ file_offset' = file_offset
    BY DEF Finalize
  <2>2. acked' = acked \/ object = Layout(file_offset)
    BY DEF Inv, Alive, Finalize, PublishInv
  <2> QED
    BY <1>1, <2>1, <2>2 DEF Inv, PublishedIsComplete, NoSilentLoss, NoObject
<1>4. WriterInv'
  BY <1>1 DEF Inv, Alive, Finalize, WriterInv, Sealed, Flushing
<1>5. PartsInv'
  <2>1. pc' \in {"idle", "destroyed", "flush_loop", "single", "flush_init"}
    BY DEF Finalize
  <2>2. ASSUME TailPart PROVE TailPart'
    BY <1>1, <2>2 DEF Finalize, TailPart, Over, Sealed
  <2>3. ASSUME Lost, pc' # "single" PROVE Lost'
    BY <1>1, <2>1, <2>3 DEF Finalize, Lost, Over
  <2>4. pc' = "single" => write_buffers # {}
    BY FS_EmptySet DEF Finalize
  <2>5. TailPart' \/ Lost'
    BY <2>2, <2>3, <2>4 DEF Inv, Alive, PartsInv, Finalize, Flushing, Lost
  <2> QED
    BY <1>1, <2>5 DEF Inv, Alive, PartsInv, Finalize
<1>6. ThreadInv'
  BY <1>1 DEF Inv, Alive, Finalize, ThreadInv, Uploaded, StoredPart
<1>7. CountInv' /\ SlotInv'
  BY <1>1 DEF Inv, Alive, Finalize, CountInv, SlotInv
<1>8. PublishInv'
  <2>1. CASE pc' = "single"
    <3>1. Cardinality(write_buffers) = 1 /\ cur' \in write_buffers /\ ~initialized_multipart_upload
          /\ ~upload_finalized /\ pc = "finalize" /\ UNCHANGED callerVars
      BY <2>1 DEF Finalize
    <3>2. \A p \in Parts : thread_pc[p] = Unused
      BY <3>1 DEF Inv, Alive, ThreadInv
    <3>3. Full \in Nat /\ Full \in Parts /\ Rest \in 0 .. PartSize - 1 /\ 0 \in Parts
      BY <3>1, FullRestType, FullIsPart DEF Inv, Parts
    <3>4. Full = 0
      BY <3>1, <3>2, <3>3 DEF Inv, Alive, PartsInv
    <3>5. write_buffers = {0}
      <4>1. \A p \in write_buffers : p \in Parts /\ ~(p > 0)
        BY <3>1, <3>4 DEF Inv, Alive, PartsInv, TypeOK
      <4>2. write_buffers \subseteq {0}
        BY <4>1, <3>3 DEF Parts
      <4> QED
        BY <3>1, <4>2
    <3>6. TailPart
      BY <3>1, <3>5 DEF Inv, Alive, PartsInv, Flushing, Lost
    <3>7. ~has_error
      BY <3>1 DEF Inv, Alive, ThreadInv
    <3>8. Rest > 0 /\ buffers[0] = [idx |-> Rest, uploading |-> FALSE]
      BY <3>2, <3>3, <3>4, <3>5, <3>6, <3>7 DEF TailPart
    <3>9. Sealed
      BY <3>1 DEF Inv, Alive, WriterInv
    <3> QED
      BY <1>1, <2>1, <3>1, <3>4, <3>5, <3>8, <3>9
      DEF Inv, Alive, PublishInv, Finalize, Sealed, NoObject
  <2>2. CASE pc' # "single"
    BY <1>1, <2>2 DEF Inv, Alive, Finalize, PublishInv, WriterInv, NoObject, Sealed
  <2> QED
    BY <2>1, <2>2
<1>9. ListIsComplete'
  BY DEF Inv, Alive, Finalize, ListIsComplete
<1>10. pc' # "terminated"
  BY <1>4 DEF Finalize
<1> QED
  BY <1>10, <1>2, <1>3, <1>4, <1>5, <1>6, <1>7, <1>8, <1>9 DEF Inv, Alive

\* The direct PUT sends the whole file.
LEMMA SingleIsLayout ==
    ASSUME Inv, pc = "single"
    PROVE  SingleObject = Layout(file_offset) /\ SingleObject \in Seq(Parts \X (0 .. PartSize))
<1>1. cur = 0 /\ Full = 0 /\ Rest > 0 /\ buffers[0].idx = Rest
  BY DEF Inv, Alive, PublishInv
<1>2. Rest \in 0 .. PartSize - 1
  BY FullRestType DEF Inv
<1>3. SingleObject = << <<0, Rest>> >>
  BY <1>1 DEF SingleObject
<1>4. Layout(file_offset) = [i \in 1 .. 1 |-> <<i - 1, IF i <= 0 THEN PartSize ELSE Rest>>]
  BY <1>1, <1>2 DEF Layout, Full, Rest
<1>5. Layout(file_offset) = << <<0, Rest>> >>
  BY <1>4
<1>6. <<0, Rest>> \in Parts \X (0 .. PartSize)
  BY <1>2, PartSizeAssumption, Uint16Assumption, ThreadsAssumption DEF Parts
<1> QED
  BY <1>3, <1>5, <1>6

\* The only buffer is PUT as the object.
LEMMA SinglePutInv == Inv /\ SinglePut => Inv'
<1> SUFFICES ASSUME Inv, SinglePut PROVE Inv'
  OBVIOUS
<1> USE PartSizeAssumption, ThreadsAssumption, Uint16Assumption, BoundsAssumption
    DEF localVars, writerVars, bufferVars, sessionVars, partVars, statusVars,
        uploadVars, s3Vars, callerVars, Throw, Return, Leave
<1>a. SingleObject = Layout(file_offset) /\ SingleObject \in Seq(Parts \X (0 .. PartSize))
  BY SingleIsLayout DEF SinglePut
<1>b. object' \in {object, Layout(file_offset)} /\ pc' \in {"idle", "destroyed"}
      /\ (acked' # acked => object' = Layout(file_offset))
      /\ (upload_finalized' # upload_finalized => object' = Layout(file_offset))
  BY <1>a DEF SinglePut
<1>1. /\ Full' = Full /\ Rest' = Rest /\ Layout(file_offset)' = Layout(file_offset)
      /\ SlotHolders' = SlotHolders /\ CountedParts' = CountedParts
  BY DEF SinglePut, Full, Rest, Layout, SlotHolders, CountedParts
<1>2. TypeOK'
  <2>1. object' \in Seq(Parts \X (0 .. PartSize))
    BY <1>a, <1>b DEF Inv, TypeOK
  <2> QED
    BY <2>1, ZenonT(40) DEF Inv, SinglePut, TypeOK, WriterPc
<1>3. PublishedIsComplete' /\ NoSilentLoss'
  BY <1>1, <1>b DEF Inv, PublishedIsComplete, NoSilentLoss, NoObject, SinglePut
<1>4. WriterInv'
  BY <1>1 DEF Inv, Alive, SinglePut, WriterInv, Sealed, Flushing
<1>5. PartsInv'
  <2>1. TailPart
    BY DEF Inv, Alive, PartsInv, SinglePut, Flushing, Lost
  <2>2. TailPart'
    BY <1>1, <2>1 DEF TailPart, SinglePut, Over, Sealed
  <2> QED
    BY <1>1, <2>2 DEF Inv, Alive, PartsInv, SinglePut
<1>6. ThreadInv'
  BY <1>1 DEF Inv, Alive, SinglePut, ThreadInv, Uploaded, StoredPart
<1>7. CountInv' /\ SlotInv'
  BY <1>1 DEF Inv, Alive, SinglePut, CountInv, SlotInv
<1>8. PublishInv'
  <2>1. Sealed /\ Sealed' = Sealed
    BY DEF Inv, Alive, WriterInv, SinglePut, Sealed
  <2>2. upload_finalized' => failed' \/ pc' = "destroyed" \/ object' = Layout(file_offset)
    BY <1>b DEF SinglePut, Inv, Alive, PublishInv
  <2> QED
    BY <1>1, <1>b, <2>1, <2>2 DEF PublishInv
<1>9. ListIsComplete'
  BY DEF Inv, Alive, SinglePut, ListIsComplete
<1>10. pc' # "terminated"
  BY <1>4 DEF SinglePut
<1> QED
  BY <1>10, <1>2, <1>3, <1>4, <1>5, <1>6, <1>7, <1>8, <1>9 DEF Inv, Alive

\* When the wait of FlushAllBuffers is over and no error was reported, the
\* ETags are those of exactly the parts of the file.
LEMMA FinalState ==
    ASSUME Inv, pc = "final", uploads_in_progress = 0, ~has_error
    PROVE  /\ SlotHolders = {}
           /\ parts_uploaded # 0 => S3Accepts /\ ListedObject = Layout(file_offset)
           /\ parts_uploaded = 0 => failed \/ file_offset = 0
<1> USE PartSizeAssumption, Uint16Assumption, ThreadsAssumption
<1>1. SlotHolders = {}
  BY SetsFinite, FS_EmptySet DEF Inv, Alive, SlotInv
<1>2. CASE Lost
  <2>1. parts_uploaded = 0
    BY <1>1, <1>2, FS_EmptySet DEF Lost
  <2> QED
    BY <1>1, <1>2, <2>1 DEF Lost, Over
<1>3. CASE ~Lost
  <2> DEFINE k == IF Rest = 0 THEN Full ELSE Full + 1
  <2>1. Full \in Nat /\ Full \in Parts /\ Rest \in 0 .. PartSize - 1
        /\ file_offset = PartSize * Full + Rest
    BY FullRestType, FullIsPart DEF Inv
  <2>2. TailPart
    BY <1>3 DEF Inv, Alive, PartsInv, Flushing
  <2>3. \A p \in write_buffers : buffers[p].uploading
    BY DEF Inv, Alive, WriterInv
  <2>4. \/ Rest = 0 /\ thread_pc[Full] = Unused
        \/ Rest > 0 /\ thread_pc[Full] # Unused /\ buffers[Full].idx = Rest
    BY <2>1, <2>2, <2>3 DEF TailPart
  <2>5. \A p \in Parts : /\ p < Full => thread_pc[p] # Unused /\ buffers[p].idx = PartSize
                         /\ p > Full => thread_pc[p] = Unused
    BY DEF Inv, Alive, PartsInv
  <2>6. k \in Nat /\ \A p \in 0 .. k - 1 : p \in Parts
    BY <2>1 DEF Parts
  <2>7. \A p \in Parts : thread_pc[p] # Unused <=> p < k
    BY <2>1, <2>4, <2>5 DEF Parts
  <2>8. ASSUME NEW p \in 0 .. k - 1
        PROVE  /\ Uploaded(p)
               /\ part_etags[p] = IF p < Full THEN PartSize ELSE Rest
               /\ part_etags[p] # 0 /\ thread_pc[p] # "count"
    <3>1. p \in Parts /\ thread_pc[p] # Unused /\ thread_pc[p] \in ThreadPc
      BY <2>6, <2>7, SMTT(40) DEF Inv, TypeOK
    <3>2. thread_pc[p] \in {"notify_slot", "notify_final", "done"}
      BY <1>1, <3>1 DEF SlotHolders, ThreadPc, Unused
    <3>3. Uploaded(p)
      BY <3>1, <3>2 DEF Inv, Alive, ThreadInv
    <3>4. buffers[p].idx = IF p < Full THEN PartSize ELSE Rest
      BY <2>1, <2>4, <2>5, <3>1
    <3>5. p < Full \/ Rest > 0
      BY <2>1, <2>6
    <3> QED
      BY <2>1, <3>2, <3>3, <3>4, <3>5 DEF Uploaded
  <2> HIDE DEF k
  <2>9. CountedParts = 0 .. k - 1
    <3>1. ASSUME NEW p \in CountedParts PROVE p \in 0 .. k - 1
      <4>1. p \in Parts /\ part_etags[p] # 0
        BY DEF CountedParts
      <4>2. thread_pc[p] # Unused
        BY <4>1 DEF Inv, Alive, ThreadInv
      <4> QED
        BY <2>6, <2>7, <4>1, <4>2 DEF Parts
    <3> QED
      BY <2>6, <2>8, <3>1 DEF CountedParts
  <2>10. parts_uploaded = k
    BY <2>6, <2>9, FS_Interval DEF Inv, Alive, CountInv
  <2>11. S3Accepts
    BY <2>8, <2>10 DEF S3Accepts, Uploaded, StoredPart
  <2>12. ListedObject = [i \in 1 .. k |-> <<i - 1, IF i <= Full THEN PartSize ELSE Rest>>]
    <3>1. ListedObject = [i \in 1 .. k |-> <<i - 1, part_etags[i - 1]>>]
      BY <2>10 DEF ListedObject
    <3>2. \A i \in 1 .. k : part_etags[i - 1] = IF i <= Full THEN PartSize ELSE Rest
      BY <2>1, <2>6, <2>8
    <3> QED
      BY <3>1, <3>2
  <2>13. ListedObject = Layout(file_offset)
    BY <2>12 DEF Layout, k, Full, Rest
  <2>14. k = 0 => file_offset = 0
    BY <2>1 DEF k
  <2> QED
    BY <1>1, <2>10, <2>11, <2>13, <2>14
<1> QED
  BY <1>2, <1>3

\* FlushAllBuffers waits for the threads and rethrows.
LEMMA FinalFlushInv == Inv /\ FinalFlush => Inv'
<1> SUFFICES ASSUME Inv, FinalFlush PROVE Inv'
  OBVIOUS
<1> USE PartSizeAssumption, ThreadsAssumption, Uint16Assumption, BoundsAssumption
    DEF localVars, writerVars, bufferVars, sessionVars, partVars, statusVars,
        uploadVars, s3Vars, callerVars, Return, Throw, Leave
<1>1. /\ Full' = Full /\ Rest' = Rest /\ Layout(file_offset)' = Layout(file_offset)
      /\ SlotHolders' = SlotHolders /\ CountedParts' = CountedParts
  BY
  DEF FinalFlush, UploadsOver, AfterUploads, RethrowIOError, Full, Rest, Layout,
      SlotHolders, CountedParts
<1>2. TypeOK'
  BY DEF Inv, FinalFlush, UploadsOver, AfterUploads, RethrowIOError, TypeOK, WriterPc
<1>3. PublishedIsComplete' /\ NoSilentLoss'
  <2>1. object' = object /\ file_offset' = file_offset
    BY DEF FinalFlush, UploadsOver, AfterUploads, RethrowIOError
  <2>2. acked' = acked \/ file_offset = 0
    BY FinalState DEF FinalFlush, UploadsOver, AfterUploads, RethrowIOError
  <2> QED
    BY <1>1, <2>1, <2>2 DEF Inv, PublishedIsComplete, NoSilentLoss, NoObject
<1>4. WriterInv'
  BY <1>1
  DEF Inv, Alive, FinalFlush, UploadsOver, AfterUploads, RethrowIOError, WriterInv,
      Sealed, Flushing
<1>5. PartsInv'
  <2>1. pc' \in {"final_wait", "idle", "destroyed", "complete"} /\ pc = "final"
    BY DEF FinalFlush, UploadsOver, AfterUploads, RethrowIOError
  <2>2. ASSUME TailPart PROVE TailPart'
    BY <1>1, <2>1, <2>2
    DEF FinalFlush, UploadsOver, AfterUploads, RethrowIOError, TailPart, Over, Sealed
  <2>3. ASSUME Lost, pc' # "complete" PROVE Lost'
    BY <1>1, <2>1, <2>3
    DEF FinalFlush, UploadsOver, AfterUploads, RethrowIOError, Lost, Over
  <2>4. ASSUME pc' = "complete" PROVE ~Lost
    BY <2>4, FinalState, FS_EmptySet
    DEF FinalFlush, UploadsOver, AfterUploads, RethrowIOError, Lost
  <2>5. TailPart' \/ Lost'
    BY <2>1, <2>2, <2>3, <2>4 DEF Inv, Alive, PartsInv, Flushing
  <2> QED
    BY <1>1, <2>1, <2>5
    DEF Inv, Alive, PartsInv, FinalFlush, UploadsOver, AfterUploads, RethrowIOError
<1>6. ThreadInv'
  BY <1>1
  DEF Inv, Alive, FinalFlush, UploadsOver, AfterUploads, RethrowIOError, ThreadInv,
      Uploaded, StoredPart
<1>7. CountInv' /\ SlotInv'
  BY <1>1
  DEF Inv, Alive, FinalFlush, UploadsOver, AfterUploads, RethrowIOError, CountInv,
      SlotInv
<1>8. PublishInv'
  <2>1. pc' = "complete" => SlotHolders = {} /\ ~has_error
    BY FinalState DEF FinalFlush, UploadsOver, AfterUploads, RethrowIOError
  <2>2. Sealed /\ Sealed' = Sealed
    BY
    DEF Inv, Alive, WriterInv, FinalFlush, UploadsOver, AfterUploads, RethrowIOError,
        Sealed
  <2>3. pc' \in {"final_wait", "idle", "destroyed", "complete"} /\ pc = "final"
        /\ UNCHANGED <<upload_finalized, has_error, object>> /\ (failed => failed')
    BY DEF FinalFlush, UploadsOver, AfterUploads, RethrowIOError
  <2> QED
    BY <1>1, <2>1, <2>2, <2>3 DEF Inv, Alive, PublishInv, NoObject
<1>9. ListIsComplete'
  <2>1. SUFFICES ASSUME pc' = "complete" PROVE ListIsComplete'
    BY DEF ListIsComplete, FinalFlush, UploadsOver, AfterUploads, RethrowIOError
  <2>2. S3Accepts /\ ListedObject = Layout(file_offset) /\ SlotHolders = {}
    BY <2>1, FinalState DEF FinalFlush, UploadsOver, AfterUploads, RethrowIOError
  <2>3. S3Accepts' = S3Accepts /\ ListedObject' = ListedObject /\ thread_pc' = thread_pc
    BY DEF FinalFlush, UploadsOver, AfterUploads, RethrowIOError, S3Accepts, ListedObject
  <2> QED
    BY <1>1, <2>2, <2>3 DEF ListIsComplete, SlotHolders
<1>10. pc' # "terminated"
  BY <1>4 DEF FinalFlush, UploadsOver, AfterUploads, RethrowIOError
<1> QED
  BY <1>10, <1>2, <1>3, <1>4, <1>5, <1>6, <1>7, <1>8, <1>9 DEF Inv, Alive

\* The list of ETags is built.
LEMMA CompleteListInv == Inv /\ CompleteList => Inv'
<1> SUFFICES ASSUME Inv, CompleteList PROVE Inv'
  OBVIOUS
<1> USE PartSizeAssumption, ThreadsAssumption, Uint16Assumption, BoundsAssumption
    DEF localVars, writerVars, bufferVars, sessionVars, partVars, statusVars,
        uploadVars, s3Vars, callerVars, Throw, Leave
<1>1. /\ Full' = Full /\ Rest' = Rest /\ Layout(file_offset)' = Layout(file_offset)
      /\ SlotHolders' = SlotHolders /\ CountedParts' = CountedParts
  BY DEF CompleteList, Full, Rest, Layout, SlotHolders, CountedParts
<1>2. TypeOK'
  <2>1. transient_retries' \in 0 .. Retries
    BY DEF CompleteList
  <2>2. pc' \in WriterPc /\ failed' \in BOOLEAN /\ acked' \in BOOLEAN
        /\ finalize_calls' \in 0 .. MaxFinalizeCalls /\ upload_finalized' \in BOOLEAN
    BY DEF Inv, CompleteList, TypeOK, WriterPc
  <2> QED
    BY <2>1, <2>2 DEF Inv, CompleteList, TypeOK
<1>3. PublishedIsComplete' /\ NoSilentLoss'
  BY <1>1 DEF Inv, CompleteList, PublishedIsComplete, NoSilentLoss, NoObject
<1>4. WriterInv'
  BY <1>1 DEF Inv, Alive, CompleteList, WriterInv, Sealed, Flushing
<1>5. PartsInv'
  BY <1>1
  DEF Inv, Alive, CompleteList, PartsInv, WriterInv, TailPart, Lost, Over, Sealed,
      Flushing
<1>6. ThreadInv'
  BY <1>1 DEF Inv, Alive, CompleteList, ThreadInv, Uploaded, StoredPart
<1>7. CountInv' /\ SlotInv'
  BY <1>1 DEF Inv, Alive, CompleteList, CountInv, SlotInv
<1>8. PublishInv'
  BY <1>1 DEF Inv, Alive, CompleteList, PublishInv, WriterInv, NoObject, Sealed
<1>9. ListIsComplete'
  <2>1. S3Accepts' = S3Accepts /\ ListedObject' = ListedObject /\ thread_pc' = thread_pc
    BY DEF CompleteList, S3Accepts, ListedObject
  <2> QED
    BY <1>1, <2>1 DEF Inv, Alive, ListIsComplete, CompleteList
<1>10. pc' # "terminated"
  BY <1>4 DEF CompleteList
<1> QED
  BY <1>10, <1>2, <1>3, <1>4, <1>5, <1>6, <1>7, <1>8, <1>9 DEF Inv, Alive

\* One turn of the POST that completes the upload.
LEMMA CompletePostInv == Inv /\ CompletePost => Inv'
<1> SUFFICES ASSUME Inv, CompletePost PROVE Inv'
  OBVIOUS
<1> USE PartSizeAssumption, ThreadsAssumption, Uint16Assumption, BoundsAssumption
    DEF localVars, writerVars, bufferVars, sessionVars, partVars, statusVars,
        uploadVars, s3Vars, callerVars, Return, Throw, Leave
<1>a. S3Accepts /\ ListedObject = Layout(file_offset)
  BY DEF Inv, Alive, ListIsComplete, CompletePost
<1>b. /\ object' \in {object, Layout(file_offset)}
      /\ pc' \in {"idle", "destroyed", "complete_post"}
      /\ (acked' # acked => object' = Layout(file_offset))
      /\ pc' # "complete_post" => failed' \/ pc' = "destroyed" \/ object' = Layout(file_offset)
  BY <1>a DEF CompletePost, S3Answers
<1>c. ListedObject \in Seq(Parts \X (0 .. PartSize))
  <2>1. \A i \in 1 .. parts_uploaded : i - 1 \in Parts /\ part_etags[i - 1] \in 0 .. PartSize
    BY DEF Inv, TypeOK, Parts
  <2>2. parts_uploaded \in Nat
    BY DEF Inv, TypeOK, Parts
  <2> QED
    BY <2>1, <2>2 DEF ListedObject
<1>1. /\ Full' = Full /\ Rest' = Rest /\ Layout(file_offset)' = Layout(file_offset)
      /\ SlotHolders' = SlotHolders /\ CountedParts' = CountedParts
  BY DEF CompletePost, Full, Rest, Layout, SlotHolders, CountedParts
<1>2. TypeOK'
  <2>1. object' \in Seq(Parts \X (0 .. PartSize))
    BY <1>a, <1>b, <1>c DEF Inv, TypeOK
  <2>2. transient_retries' \in 0 .. Retries
    BY DEF Inv, TypeOK, CompletePost
  <2> QED
    BY <2>1, <2>2, ZenonT(40) DEF Inv, CompletePost, TypeOK, WriterPc
<1>3. PublishedIsComplete' /\ NoSilentLoss'
  BY <1>1, <1>b DEF Inv, PublishedIsComplete, NoSilentLoss, NoObject, CompletePost
<1>4. WriterInv'
  BY <1>1 DEF Inv, Alive, CompletePost, WriterInv, Sealed, Flushing
<1>5. PartsInv'
  <2>1. TailPart
    BY DEF Inv, Alive, PartsInv, CompletePost, Flushing, Lost
  <2>2. TailPart'
    BY <1>1, <2>1 DEF TailPart, CompletePost, Over, Sealed
  <2> QED
    BY <1>1, <2>2 DEF Inv, Alive, PartsInv, CompletePost
<1>6. ThreadInv'
  BY <1>1 DEF Inv, Alive, CompletePost, ThreadInv, Uploaded, StoredPart
<1>7. CountInv' /\ SlotInv'
  BY <1>1 DEF Inv, Alive, CompletePost, CountInv, SlotInv
<1>8. PublishInv'
  <2>1. Sealed /\ Sealed' = Sealed
    BY DEF Inv, Alive, WriterInv, CompletePost, Sealed
  <2> QED
    BY <1>1, <1>b, <2>1 DEF Inv, Alive, PublishInv, CompletePost
<1>9. ListIsComplete'
  <2>1. S3Accepts' = S3Accepts /\ ListedObject' = ListedObject /\ thread_pc' = thread_pc
    BY DEF CompletePost, S3Accepts, ListedObject
  <2> QED
    BY <1>1, <2>1 DEF Inv, Alive, ListIsComplete, CompletePost
<1>10. pc' # "terminated"
  BY <1>4 DEF CompletePost
<1> QED
  BY <1>10, <1>2, <1>3, <1>4, <1>5, <1>6, <1>7, <1>8, <1>9 DEF Inv, Alive

\* An upload thread PUTs its part.
LEMMA PutPartInv == ASSUME NEW p \in Parts PROVE Inv /\ PutPart(p) => Inv'
<1> SUFFICES ASSUME Inv, PutPart(p) PROVE Inv'
  OBVIOUS
<1> USE PartSizeAssumption, ThreadsAssumption, Uint16Assumption, BoundsAssumption
    DEF localVars, writerVars, bufferVars, sessionVars, partVars, statusVars,
        uploadVars, s3Vars, callerVars
<1>a. thread_pc \in [Parts -> ThreadPc] /\ thread_pc[p] # Unused /\ pc # "terminated"
  BY DEF Inv, TypeOK, PutPart, PutSucceeds, PutFails, Unused
<1>b. /\ \A q \in Parts : thread_pc'[q] = Unused <=> thread_pc[q] = Unused
      /\ \A q \in Parts \ {p} : thread_pc'[q] = thread_pc[q]
      /\ thread_pc' \in [Parts -> ThreadPc]
  BY <1>a DEF PutPart, PutSucceeds, PutFails, SetThread, Unused, ThreadPc
<1>c. pc \notin {"complete", "complete_post"}
  BY <1>a DEF PutPart, PutSucceeds, PutFails, Inv, Alive, PublishInv, SlotHolders
<1>d. part_etags[p] = 0
  BY <1>a DEF PutPart, PutSucceeds, PutFails, Inv, Alive, ThreadInv
<1>1. /\ Full' = Full /\ Rest' = Rest /\ Layout(file_offset)' = Layout(file_offset)
      /\ SlotHolders' = SlotHolders /\ CountedParts' = CountedParts
  BY <1>b, <1>d, <1>a
  DEF PutPart, PutSucceeds, PutFails, SetThread, Full, Rest, Layout, SlotHolders,
      CountedParts
<1>2. TypeOK'
  <2>1. StoredPart(p) \in Nat \X Parts \X (0 .. PartSize)
    BY DEF Inv, TypeOK, StoredPart
  <2>2. s3_parts' \in SUBSET (Nat \X Parts \X (0 .. PartSize))
    BY <2>1 DEF Inv, TypeOK, PutPart, PutSucceeds, PutFails
  <2>3. has_error' \in BOOLEAN
    BY DEF Inv, TypeOK, PutPart, PutSucceeds, PutFails
  <2> QED
    BY <1>b, <2>2, <2>3 DEF Inv, TypeOK, PutPart, PutSucceeds, PutFails
<1>3. PublishedIsComplete' /\ NoSilentLoss'
  BY <1>1
  DEF Inv, PutPart, PutSucceeds, PutFails, PublishedIsComplete, NoSilentLoss, NoObject
<1>4. WriterInv'
  BY <1>1, <1>a, <1>b
  DEF Inv, Alive, PutPart, PutSucceeds, PutFails, WriterInv, Sealed, Flushing, TypeOK
<1>5. PartsInv'
  <2>1. ASSUME Lost PROVE Lost'
    BY <1>1, <1>b, <2>1 DEF PutPart, PutSucceeds, PutFails, Lost, Over
  <2>2. ASSUME TailPart PROVE TailPart'
    <3>1. Full \in Parts
      BY <1>a, FullIsPart
    <3> QED
      BY <1>1, <1>b, <2>2, <3>1 DEF PutPart, PutSucceeds, PutFails, TailPart, Over, Sealed
  <2>3. ASSUME Flushing PROVE Flushing'
    BY <2>3 DEF PutPart, PutSucceeds, PutFails, Flushing
  <2> QED
    BY <1>1, <1>a, <1>b, <2>1, <2>2, <2>3
    DEF Inv, Alive, PartsInv, PutPart, PutSucceeds, PutFails
<1>6. ThreadInv'
  <2>1. ThreadInv
    BY <1>a DEF Inv, Alive
  <2>2. \A q \in Parts : StoredPart(q)' = StoredPart(q) /\ (StoredPart(q) \in s3_parts => StoredPart(q) \in s3_parts')
    BY DEF PutPart, PutSucceeds, PutFails, StoredPart
  <2>3. \A q \in Parts : Uploaded(q) => Uploaded(q)'
    BY <2>2 DEF Uploaded, PutPart, PutSucceeds, PutFails
  <2>4. \/ thread_pc'[p] = "etag" /\ p < S3MaxParts /\ StoredPart(p) \in s3_parts' /\ has_error' = has_error
        \/ thread_pc'[p] = "dec" /\ has_error'
    BY <1>a DEF PutPart, PutSucceeds, PutFails, SetThread
  <2>5. has_error => has_error'
    BY DEF PutPart, PutSucceeds, PutFails
  <2>6. UNCHANGED <<part_etags, buffers, initialized_multipart_upload>> /\ initialized_multipart_upload
    BY <1>a, <2>1 DEF PutPart, PutSucceeds, PutFails, ThreadInv
  <2> QED
    BY <1>a, <1>b, <1>d, <2>1, <2>2, <2>3, <2>4, <2>5, <2>6 DEF ThreadInv, Unused
<1>7. CountInv' /\ SlotInv'
  BY <1>1, <1>a DEF Inv, Alive, PutPart, PutSucceeds, PutFails, CountInv, SlotInv
<1>8. PublishInv'
  BY <1>1, <1>a, <1>c
  DEF Inv, Alive, PutPart, PutSucceeds, PutFails, PublishInv, NoObject, Sealed
<1>9. ListIsComplete'
  BY <1>c DEF PutPart, PutSucceeds, PutFails, ListIsComplete
<1>10. pc' # "terminated"
  BY <1>a DEF PutPart, PutSucceeds, PutFails
<1> QED
  BY <1>10, <1>2, <1>3, <1>4, <1>5, <1>6, <1>7, <1>8, <1>9 DEF Inv, Alive

\* An upload thread records its ETag.
LEMMA InsertEtagInv == ASSUME NEW p \in Parts PROVE Inv /\ InsertEtag(p) => Inv'
<1> SUFFICES ASSUME Inv, InsertEtag(p) PROVE Inv'
  OBVIOUS
<1> USE PartSizeAssumption, ThreadsAssumption, Uint16Assumption, BoundsAssumption
    DEF localVars, writerVars, bufferVars, sessionVars, partVars, statusVars,
        uploadVars, s3Vars, callerVars
<1>a. thread_pc \in [Parts -> ThreadPc] /\ thread_pc[p] # Unused /\ pc # "terminated"
  BY DEF Inv, TypeOK, InsertEtag, Unused
<1>b. /\ \A q \in Parts : thread_pc'[q] = Unused <=> thread_pc[q] = Unused
      /\ \A q \in Parts \ {p} : thread_pc'[q] = thread_pc[q]
      /\ thread_pc' \in [Parts -> ThreadPc]
  BY <1>a DEF InsertEtag, SetThread, Unused, ThreadPc
<1>c. pc \notin {"complete", "complete_post"}
  BY <1>a DEF InsertEtag, Inv, Alive, PublishInv, SlotHolders
<1>d. part_etags[p] = 0 /\ buffers[p].idx \in 0 .. PartSize
  BY <1>a DEF InsertEtag, Inv, Alive, ThreadInv, TypeOK
<1>e. /\ part_etags' = [part_etags EXCEPT ![p] = buffers[p].idx]
      /\ thread_pc[p] = "etag" /\ thread_pc'[p] = "count"
  BY <1>a, <1>d DEF InsertEtag, SetThread
<1>f. part_etags'[p] = buffers[p].idx /\ \A q \in Parts \ {p} : part_etags'[q] = part_etags[q]
  BY <1>e DEF Inv, TypeOK
<1>1. /\ Full' = Full /\ Rest' = Rest /\ Layout(file_offset)' = Layout(file_offset)
      /\ SlotHolders' = SlotHolders /\ CountedParts' = CountedParts
  BY <1>b, <1>d, <1>e, <1>f, <1>a
  DEF InsertEtag, SetThread, Full, Rest, Layout, SlotHolders, CountedParts
<1>2. TypeOK'
  <2>1. part_etags' \in [Parts -> 0 .. PartSize]
    BY <1>d, <1>e DEF Inv, TypeOK
  <2> QED
    BY <1>b, <2>1 DEF Inv, TypeOK, InsertEtag
<1>3. PublishedIsComplete' /\ NoSilentLoss'
  BY <1>1 DEF Inv, InsertEtag, PublishedIsComplete, NoSilentLoss, NoObject
<1>4. WriterInv'
  BY <1>1, <1>a, <1>b DEF Inv, Alive, InsertEtag, WriterInv, Sealed, Flushing, TypeOK
<1>5. PartsInv'
  <2>1. ASSUME Lost PROVE Lost'
    BY <1>1, <1>b, <2>1 DEF InsertEtag, Lost, Over
  <2>2. ASSUME TailPart PROVE TailPart'
    <3>1. Full \in Parts
      BY <1>a, FullIsPart
    <3> QED
      BY <1>1, <1>b, <2>2, <3>1 DEF InsertEtag, TailPart, Over, Sealed
  <2>3. ASSUME Flushing PROVE Flushing'
    BY <2>3 DEF InsertEtag, Flushing
  <2> QED
    BY <1>1, <1>a, <1>b, <2>1, <2>2, <2>3 DEF Inv, Alive, PartsInv, InsertEtag
<1>6. ThreadInv'
  <2>1. ThreadInv
    BY <1>a DEF Inv, Alive
  <2>2. \A q \in Parts : StoredPart(q)' = StoredPart(q)
    BY DEF InsertEtag, StoredPart
  <2>3. \A q \in Parts \ {p} : Uploaded(q) <=> Uploaded(q)'
    BY <1>f, <2>2 DEF Uploaded, InsertEtag
  <2>4. Uploaded(p)'
    BY <1>e, <1>f, <2>1, <2>2 DEF Uploaded, InsertEtag, ThreadInv
  <2> QED
    BY <1>b, <1>e, <1>f, <2>1, <2>2, <2>3, <2>4 DEF ThreadInv, InsertEtag
<1>7. CountInv' /\ SlotInv'
  BY <1>1, <1>a DEF Inv, Alive, InsertEtag, CountInv, SlotInv
<1>8. PublishInv'
  BY <1>1, <1>a, <1>c DEF Inv, Alive, InsertEtag, PublishInv, NoObject, Sealed
<1>9. ListIsComplete'
  BY <1>c DEF InsertEtag, ListIsComplete
<1>10. pc' # "terminated"
  BY <1>a DEF InsertEtag
<1> QED
  BY <1>10, <1>2, <1>3, <1>4, <1>5, <1>6, <1>7, <1>8, <1>9 DEF Inv, Alive

\* An upload thread counts its part.
LEMMA CountPartInv == ASSUME NEW p \in Parts PROVE Inv /\ CountPart(p) => Inv'
<1> SUFFICES ASSUME Inv, CountPart(p) PROVE Inv'
  OBVIOUS
<1> USE PartSizeAssumption, ThreadsAssumption, Uint16Assumption, BoundsAssumption
    DEF localVars, writerVars, bufferVars, sessionVars, partVars, statusVars,
        uploadVars, s3Vars, callerVars
<1>a. thread_pc \in [Parts -> ThreadPc] /\ thread_pc[p] # Unused /\ pc # "terminated"
  BY DEF Inv, TypeOK, CountPart, Unused
<1>b. /\ \A q \in Parts : thread_pc'[q] = Unused <=> thread_pc[q] = Unused
      /\ \A q \in Parts \ {p} : thread_pc'[q] = thread_pc[q]
      /\ thread_pc' \in [Parts -> ThreadPc]
  BY <1>a DEF CountPart, SetThread, Unused, ThreadPc
<1>c. pc \notin {"complete", "complete_post"}
  BY <1>a DEF CountPart, Inv, Alive, PublishInv, SlotHolders
<1>d. thread_pc[p] = "count" /\ thread_pc'[p] = "dec"
  BY <1>a DEF CountPart, SetThread
<1>e. Uploaded(p) /\ part_etags[p] # 0
  BY <1>a, <1>d DEF Inv, Alive, ThreadInv, Uploaded
<1>f. CountedParts' = CountedParts \cup {p} /\ p \notin CountedParts
  BY <1>b, <1>d, <1>e DEF CountedParts, CountPart
<1>g. Cardinality(CountedParts') = Cardinality(CountedParts) + 1
  BY <1>f, SetsFinite, FS_AddElement
<1>h. Cardinality(CountedParts) + 1 < Uint16
  <2>1. ASSUME NEW q \in CountedParts' PROVE q \in 0 .. S3MaxParts - 1
    <3>1. CASE q = p
      BY <1>e, <3>1 DEF Uploaded, Parts
    <3>2. CASE q \in CountedParts
      <4>1. q \in Parts /\ part_etags[q] # 0 /\ thread_pc[q] # "count" /\ thread_pc[q] \in ThreadPc
        BY <1>a, <3>2 DEF CountedParts
      <4>2. Uploaded(q)
        BY <1>a, <4>1 DEF Inv, Alive, ThreadInv, ThreadPc, Unused
      <4> QED
        BY <4>1, <4>2 DEF Uploaded, Parts
    <3> QED
      BY <1>f, <2>1, <3>1, <3>2
  <2>2. IsFiniteSet(0 .. S3MaxParts - 1) /\ Cardinality(0 .. S3MaxParts - 1) = S3MaxParts
    BY FS_Interval
  <2>3. Cardinality(CountedParts') <= S3MaxParts
    BY <2>1, <2>2, FS_Subset
  <2> QED
    BY <1>g, <2>3, SetsFinite
<1>i. parts_uploaded' = parts_uploaded + 1 /\ parts_uploaded + 1 \in Parts
  <2>1. parts_uploaded + 1 \in 0 .. Uint16 - 1
    BY <1>a, <1>h, SetsFinite DEF Inv, Alive, CountInv
  <2> QED
    BY <2>1 DEF CountPart, Parts
<1>1. /\ Full' = Full /\ Rest' = Rest /\ Layout(file_offset)' = Layout(file_offset)
      /\ SlotHolders' = SlotHolders
  BY <1>a, <1>b, <1>d DEF CountPart, Full, Rest, Layout, SlotHolders
<1>2. TypeOK'
  BY <1>b, <1>i DEF Inv, TypeOK, CountPart
<1>3. PublishedIsComplete' /\ NoSilentLoss'
  BY <1>1 DEF Inv, CountPart, PublishedIsComplete, NoSilentLoss, NoObject
<1>4. WriterInv'
  BY <1>1, <1>a, <1>b DEF Inv, Alive, CountPart, WriterInv, Sealed, Flushing, TypeOK
<1>5. PartsInv'
  <2>1. ASSUME Lost PROVE Lost'
    BY <1>1, <1>a, <1>b, <1>d, <2>1, SetsFinite DEF CountPart, Lost, Over
  <2>2. ASSUME TailPart PROVE TailPart'
    <3>1. Full \in Parts
      BY <1>a, FullIsPart
    <3> QED
      BY <1>1, <1>b, <2>2, <3>1 DEF CountPart, TailPart, Over, Sealed
  <2>3. ASSUME Flushing PROVE Flushing'
    BY <2>3 DEF CountPart, Flushing
  <2> QED
    BY <1>1, <1>a, <1>b, <2>1, <2>2, <2>3 DEF Inv, Alive, PartsInv, CountPart
<1>6. ThreadInv'
  <2>1. ThreadInv
    BY <1>a DEF Inv, Alive
  <2>2. \A q \in Parts : StoredPart(q)' = StoredPart(q) /\ (Uploaded(q) <=> Uploaded(q)')
    BY DEF CountPart, StoredPart, Uploaded
  <2> QED
    BY <1>b, <1>d, <1>e, <2>1, <2>2 DEF ThreadInv, CountPart
<1>7. CountInv' /\ SlotInv'
  BY <1>1, <1>a, <1>g, <1>i DEF Inv, Alive, CountPart, CountInv, SlotInv
<1>8. PublishInv'
  BY <1>1, <1>a, <1>c DEF Inv, Alive, CountPart, PublishInv, NoObject, Sealed
<1>9. ListIsComplete'
  BY <1>c DEF CountPart, ListIsComplete
<1>10. pc' # "terminated"
  BY <1>a DEF CountPart
<1> QED
  BY <1>10, <1>2, <1>3, <1>4, <1>5, <1>6, <1>7, <1>8, <1>9 DEF Inv, Alive

\* An upload thread gives its slot back.
LEMMA ReleaseSlotInv == ASSUME NEW p \in Parts PROVE Inv /\ ReleaseSlot(p) => Inv'
<1> SUFFICES ASSUME Inv, ReleaseSlot(p) PROVE Inv'
  OBVIOUS
<1> USE PartSizeAssumption, ThreadsAssumption, Uint16Assumption, BoundsAssumption
    DEF localVars, writerVars, bufferVars, sessionVars, partVars, statusVars,
        uploadVars, s3Vars, callerVars
<1>a. thread_pc \in [Parts -> ThreadPc] /\ thread_pc[p] # Unused /\ pc # "terminated"
  BY DEF Inv, TypeOK, ReleaseSlot, Unused
<1>b. /\ \A q \in Parts : thread_pc'[q] = Unused <=> thread_pc[q] = Unused
      /\ \A q \in Parts \ {p} : thread_pc'[q] = thread_pc[q]
      /\ thread_pc' \in [Parts -> ThreadPc]
  BY <1>a DEF ReleaseSlot, SetThread, Unused, ThreadPc
<1>c. pc \notin {"complete", "complete_post"}
  BY <1>a DEF ReleaseSlot, Inv, Alive, PublishInv, SlotHolders
<1>d. thread_pc[p] = "dec" /\ thread_pc'[p] = "notify_slot"
  BY <1>a DEF ReleaseSlot, SetThread
<1>e. SlotHolders' = SlotHolders \ {p} /\ p \in SlotHolders
  BY <1>a, <1>b, <1>d DEF SlotHolders
<1>f. Cardinality(SlotHolders') = Cardinality(SlotHolders) - 1 /\ Cardinality(SlotHolders) \in Nat
  BY <1>e, SetsFinite, FS_RemoveElement
<1>g. uploads_in_progress' = uploads_in_progress - 1
      /\ uploads_in_progress' \in 0 .. MaxUploadThreads /\ uploads_in_progress \in Nat
  BY DEF ReleaseSlot, Inv, TypeOK
<1>1. /\ Full' = Full /\ Rest' = Rest /\ Layout(file_offset)' = Layout(file_offset)
      /\ CountedParts' = CountedParts
  BY <1>a, <1>b, <1>d DEF ReleaseSlot, Full, Rest, Layout, CountedParts
<1>2. TypeOK'
  BY <1>b, <1>g DEF Inv, TypeOK, ReleaseSlot
<1>3. PublishedIsComplete' /\ NoSilentLoss'
  BY <1>1 DEF Inv, ReleaseSlot, PublishedIsComplete, NoSilentLoss, NoObject
<1>4. WriterInv'
  BY <1>1, <1>a, <1>b DEF Inv, Alive, ReleaseSlot, WriterInv, Sealed, Flushing, TypeOK
<1>5. PartsInv'
  <2>1. ASSUME Lost PROVE Lost'
    BY <1>1, <1>b, <1>f, <1>g, <2>1 DEF ReleaseSlot, Lost, Over
  <2>2. ASSUME TailPart PROVE TailPart'
    <3>1. Full \in Parts
      BY <1>a, FullIsPart
    <3> QED
      BY <1>1, <1>b, <2>2, <3>1 DEF ReleaseSlot, TailPart, Over, Sealed
  <2>3. ASSUME Flushing PROVE Flushing'
    BY <2>3 DEF ReleaseSlot, Flushing
  <2> QED
    BY <1>1, <1>a, <1>b, <2>1, <2>2, <2>3 DEF Inv, Alive, PartsInv, ReleaseSlot
<1>6. ThreadInv'
  <2>1. ThreadInv
    BY <1>a DEF Inv, Alive
  <2>2. \A q \in Parts : StoredPart(q)' = StoredPart(q) /\ (Uploaded(q) <=> Uploaded(q)')
    BY DEF ReleaseSlot, StoredPart, Uploaded
  <2> QED
    BY <1>b, <1>d, <2>1, <2>2 DEF ThreadInv, ReleaseSlot
<1>7. CountInv' /\ SlotInv'
  BY <1>1, <1>a, <1>f, <1>g DEF Inv, Alive, ReleaseSlot, CountInv, SlotInv
<1>8. PublishInv'
  BY <1>1, <1>a, <1>c DEF Inv, Alive, ReleaseSlot, PublishInv, NoObject, Sealed
<1>9. ListIsComplete'
  BY <1>c DEF ReleaseSlot, ListIsComplete
<1>10. pc' # "terminated"
  BY <1>a DEF ReleaseSlot
<1> QED
  BY <1>10, <1>2, <1>3, <1>4, <1>5, <1>6, <1>7, <1>8, <1>9 DEF Inv, Alive

\* An upload thread notifies uploads_in_progress_cv.
LEMMA NotifySlotInv == ASSUME NEW p \in Parts PROVE Inv /\ NotifySlot(p) => Inv'
<1> SUFFICES ASSUME Inv, NotifySlot(p) PROVE Inv'
  OBVIOUS
<1> USE PartSizeAssumption, ThreadsAssumption, Uint16Assumption, BoundsAssumption
    DEF localVars, writerVars, bufferVars, sessionVars, partVars, statusVars,
        uploadVars, s3Vars, callerVars
<1>a. thread_pc \in [Parts -> ThreadPc] /\ thread_pc[p] # Unused /\ pc # "terminated"
  BY DEF Inv, TypeOK, NotifySlot, Unused
<1>b. /\ \A q \in Parts : thread_pc'[q] = Unused <=> thread_pc[q] = Unused
      /\ \A q \in Parts \ {p} : thread_pc'[q] = thread_pc[q]
      /\ thread_pc' \in [Parts -> ThreadPc]
  BY <1>a DEF NotifySlot, SetThread, Unused, ThreadPc
<1>d. thread_pc[p] = "notify_slot" /\ thread_pc'[p] = "notify_final"
  BY <1>a DEF NotifySlot, SetThread
<1>1. /\ Full' = Full /\ Rest' = Rest /\ Layout(file_offset)' = Layout(file_offset)
      /\ SlotHolders' = SlotHolders /\ CountedParts' = CountedParts
  BY <1>a, <1>b, <1>d DEF NotifySlot, Full, Rest, Layout, SlotHolders, CountedParts
<1>2. TypeOK'
  <2>1. pc \in WriterPc
    BY DEF Inv, TypeOK
  <2>2. pc' \in WriterPc
    BY <2>1 DEF NotifySlot, WriterPc
  <2> QED
    BY <1>b, <2>2 DEF Inv, TypeOK, NotifySlot
<1>3. PublishedIsComplete' /\ NoSilentLoss'
  BY <1>1 DEF Inv, NotifySlot, PublishedIsComplete, NoSilentLoss, NoObject
<1>4. WriterInv'
  BY <1>1, <1>a, <1>b DEF Inv, Alive, NotifySlot, WriterInv, Sealed, Flushing, TypeOK
<1>5. PartsInv'
  <2>1. ASSUME Lost PROVE Lost'
    BY <1>1, <1>b, <2>1 DEF NotifySlot, Lost, Over
  <2>2. ASSUME TailPart PROVE TailPart'
    <3>1. Full \in Parts
      BY <1>a, FullIsPart
    <3> QED
      BY <1>1, <1>b, <2>2, <3>1 DEF NotifySlot, TailPart, Over, Sealed
  <2>3. ASSUME Flushing PROVE Flushing'
    BY <2>3 DEF NotifySlot, Flushing
  <2> QED
    BY <1>1, <1>a, <1>b, <2>1, <2>2, <2>3 DEF Inv, Alive, PartsInv, NotifySlot
<1>6. ThreadInv'
  <2>1. ThreadInv
    BY <1>a DEF Inv, Alive
  <2>2. \A q \in Parts : StoredPart(q)' = StoredPart(q) /\ (Uploaded(q) <=> Uploaded(q)')
    BY DEF NotifySlot, StoredPart, Uploaded
  <2> QED
    BY <1>b, <1>d, <2>1, <2>2 DEF ThreadInv, NotifySlot
<1>7. CountInv' /\ SlotInv'
  BY <1>1, <1>a DEF Inv, Alive, NotifySlot, CountInv, SlotInv
<1>8. PublishInv'
  BY <1>1, <1>a DEF Inv, Alive, NotifySlot, PublishInv, NoObject, Sealed
<1>9. ListIsComplete'
  <2>1. S3Accepts' = S3Accepts /\ ListedObject' = ListedObject
    BY DEF NotifySlot, S3Accepts, ListedObject
  <2>2. pc' \in {"complete", "complete_post"} => pc' = pc
    BY DEF NotifySlot
  <2> QED
    BY <1>1, <1>a, <1>b, <1>d, <2>1, <2>2 DEF Inv, Alive, ListIsComplete
<1>10. pc' # "terminated"
  BY <1>a DEF NotifySlot
<1> QED
  BY <1>10, <1>2, <1>3, <1>4, <1>5, <1>6, <1>7, <1>8, <1>9 DEF Inv, Alive

\* An upload thread notifies final_flush_cv.
LEMMA NotifyFinalInv == ASSUME NEW p \in Parts PROVE Inv /\ NotifyFinal(p) => Inv'
<1> SUFFICES ASSUME Inv, NotifyFinal(p) PROVE Inv'
  OBVIOUS
<1> USE PartSizeAssumption, ThreadsAssumption, Uint16Assumption, BoundsAssumption
    DEF localVars, writerVars, bufferVars, sessionVars, partVars, statusVars,
        uploadVars, s3Vars, callerVars
<1>a. thread_pc \in [Parts -> ThreadPc] /\ thread_pc[p] # Unused /\ pc # "terminated"
  BY DEF Inv, TypeOK, NotifyFinal, WakeFinal, Unused
<1>b. /\ \A q \in Parts : thread_pc'[q] = Unused <=> thread_pc[q] = Unused
      /\ \A q \in Parts \ {p} : thread_pc'[q] = thread_pc[q]
      /\ thread_pc' \in [Parts -> ThreadPc]
  BY <1>a DEF NotifyFinal, WakeFinal, SetThread, Unused, ThreadPc
<1>d. thread_pc[p] = "notify_final" /\ thread_pc'[p] = "done"
  BY <1>a DEF NotifyFinal, WakeFinal, SetThread
<1>1. /\ Full' = Full /\ Rest' = Rest /\ Layout(file_offset)' = Layout(file_offset)
      /\ SlotHolders' = SlotHolders /\ CountedParts' = CountedParts
  BY <1>a, <1>b, <1>d
  DEF NotifyFinal, WakeFinal, Full, Rest, Layout, SlotHolders, CountedParts
<1>2. TypeOK'
  <2>1. pc \in WriterPc
    BY DEF Inv, TypeOK
  <2>2. pc' \in WriterPc
    BY <2>1 DEF NotifyFinal, WakeFinal, WriterPc
  <2> QED
    BY <1>b, <2>2 DEF Inv, TypeOK, NotifyFinal
<1>3. PublishedIsComplete' /\ NoSilentLoss'
  BY <1>1 DEF Inv, NotifyFinal, WakeFinal, PublishedIsComplete, NoSilentLoss, NoObject
<1>4. WriterInv'
  BY <1>1, <1>a, <1>b
  DEF Inv, Alive, NotifyFinal, WakeFinal, WriterInv, Sealed, Flushing, TypeOK
<1>5. PartsInv'
  <2>1. ASSUME Lost PROVE Lost'
    BY <1>1, <1>b, <2>1 DEF NotifyFinal, WakeFinal, Lost, Over
  <2>2. ASSUME TailPart PROVE TailPart'
    <3>1. Full \in Parts
      BY <1>a, FullIsPart
    <3> QED
      BY <1>1, <1>b, <2>2, <3>1 DEF NotifyFinal, WakeFinal, TailPart, Over, Sealed
  <2>3. ASSUME Flushing PROVE Flushing'
    BY <2>3 DEF NotifyFinal, WakeFinal, Flushing
  <2> QED
    BY <1>1, <1>a, <1>b, <2>1, <2>2, <2>3 DEF Inv, Alive, PartsInv, NotifyFinal, WakeFinal
<1>6. ThreadInv'
  <2>1. ThreadInv
    BY <1>a DEF Inv, Alive
  <2>2. \A q \in Parts : StoredPart(q)' = StoredPart(q) /\ (Uploaded(q) <=> Uploaded(q)')
    BY DEF NotifyFinal, WakeFinal, StoredPart, Uploaded
  <2> QED
    BY <1>b, <1>d, <2>1, <2>2 DEF ThreadInv, NotifyFinal, WakeFinal
<1>7. CountInv' /\ SlotInv'
  BY <1>1, <1>a DEF Inv, Alive, NotifyFinal, WakeFinal, CountInv, SlotInv
<1>8. PublishInv'
  BY <1>1, <1>a DEF Inv, Alive, NotifyFinal, WakeFinal, PublishInv, NoObject, Sealed
<1>9. ListIsComplete'
  <2>1. S3Accepts' = S3Accepts /\ ListedObject' = ListedObject
    BY DEF NotifyFinal, WakeFinal, S3Accepts, ListedObject
  <2>2. pc' \in {"complete", "complete_post"} => pc' = pc
    BY DEF NotifyFinal, WakeFinal
  <2> QED
    BY <1>1, <1>a, <1>b, <1>d, <2>1, <2>2 DEF Inv, Alive, ListIsComplete
<1>10. pc' # "terminated"
  BY <1>a DEF NotifyFinal, WakeFinal
<1> QED
  BY <1>10, <1>2, <1>3, <1>4, <1>5, <1>6, <1>7, <1>8, <1>9 DEF Inv, Alive

\* An exception leaves an upload thread.
LEMMA TerminateInv == ASSUME NEW p \in Parts PROVE Inv /\ Terminate(p) => Inv'
<1> SUFFICES ASSUME Inv, Terminate(p) PROVE Inv'
  OBVIOUS
<1> USE DEF localVars, writerVars, bufferVars, sessionVars, partVars, statusVars,
        uploadVars, s3Vars, callerVars
<1>1. Layout(file_offset)' = Layout(file_offset)
  BY DEF Terminate, Layout
<1>2. TypeOK'
  BY DEF Inv, Terminate, TypeOK, WriterPc, ThreadPc
<1>3. PublishedIsComplete' /\ NoSilentLoss'
  BY <1>1 DEF Inv, Terminate, PublishedIsComplete, NoSilentLoss, NoObject
<1> QED
  BY <1>2, <1>3 DEF Inv, Terminate, Unused

\* Steps that change nothing.
LEMMA StutterInv == Inv /\ UNCHANGED vars => Inv'
<1> SUFFICES ASSUME Inv, UNCHANGED vars PROVE Inv'
  OBVIOUS
<1> USE DEF vars, localVars, writerVars, bufferVars, sessionVars, partVars, statusVars,
        uploadVars, s3Vars, callerVars
<1>1. /\ Full' = Full /\ Rest' = Rest /\ Layout(file_offset)' = Layout(file_offset)
      /\ SlotHolders' = SlotHolders /\ CountedParts' = CountedParts
      /\ S3Accepts' = S3Accepts /\ ListedObject' = ListedObject
  BY DEF Full, Rest, Layout, SlotHolders, CountedParts, S3Accepts, ListedObject
<1>2. TypeOK'
  BY DEF Inv, TypeOK
<1>3. PublishedIsComplete' /\ NoSilentLoss'
  BY <1>1 DEF Inv, PublishedIsComplete, NoSilentLoss, NoObject
<1>4. Alive => WriterInv'
  BY <1>1 DEF Alive, WriterInv, Sealed, Flushing
<1>5. Alive => PartsInv'
  BY <1>1 DEF Alive, PartsInv, TailPart, Lost, Over, Sealed, Flushing
<1>6. Alive => ThreadInv' /\ CountInv' /\ SlotInv'
  BY <1>1 DEF Alive, ThreadInv, Uploaded, StoredPart, CountInv, SlotInv
<1>7. Alive => PublishInv' /\ ListIsComplete'
  BY <1>1 DEF Alive, PublishInv, ListIsComplete, Sealed, NoObject
<1> QED
  BY <1>2, <1>3, <1>4, <1>5, <1>6, <1>7 DEF Inv, Alive

\* A new handle satisfies the invariant.
LEMMA InitInv == Init => Inv
<1> SUFFICES ASSUME Init PROVE Inv
  OBVIOUS
<1> USE PartSizeAssumption, ThreadsAssumption, Uint16Assumption, BoundsAssumption DEF Init
<1>1. Full = 0 /\ Rest = 0 /\ 0 \in Parts
  BY DEF Full, Rest, Parts
<1>2. SlotHolders = {} /\ CountedParts = {} /\ Cardinality({}) = 0
  BY FS_EmptySet DEF SlotHolders, CountedParts
<1>3. TypeOK
  <2>1. object \in Seq(Parts \X (0 .. PartSize))
    BY DEF NoObject
  <2>2. buffers \in [Parts -> [idx : 0 .. PartSize, uploading : BOOLEAN]]
    OBVIOUS
  <2>3. part_etags \in [Parts -> 0 .. PartSize] /\ thread_pc \in [Parts -> ThreadPc]
    BY DEF ThreadPc
  <2>4. parts_uploaded \in Parts /\ cur \in Parts
    BY <1>1
  <2> QED
    BY <2>1, <2>2, <2>3, <2>4 DEF TypeOK, WriterPc
<1>4. PublishedIsComplete /\ NoSilentLoss
  BY DEF PublishedIsComplete, NoSilentLoss, NoObject
<1>5. WriterInv
  BY DEF WriterInv, Flushing, Sealed
<1>6. PartsInv
  BY <1>1 DEF PartsInv, TailPart, Unused, Parts
<1>7. ThreadInv /\ CountInv /\ SlotInv
  BY <1>2 DEF ThreadInv, CountInv, SlotInv, Unused
<1>8. PublishInv /\ ListIsComplete
  BY DEF PublishInv, ListIsComplete, NoObject
<1> QED
  BY <1>3, <1>4, <1>5, <1>6, <1>7, <1>8 DEF Inv, Alive

\* Every step preserves the invariant.
LEMMA NextInv == Inv /\ [Next]_vars => Inv'
<1> SUFFICES ASSUME Inv, [Next]_vars PROVE Inv'
  OBVIOUS
<1>1. CASE Caller
  BY <1>1, CallWriteInv, CallFinalizeInv, DestroyInv DEF Caller
<1>2. CASE Writer
  BY <1>2, WriteChunkInv, GetBufferThrowsInv, FlushBufferInv, AcquireSlotInv,
     FlushInitInv, SpawnInv, FinalizeInv, SinglePutInv, FlushAllInitInv,
     FlushAllLoopInv, FinalFlushInv, CompleteListInv, CompletePostInv
  DEF Writer
<1>3. CASE SpuriousWakeup
  BY <1>3, SpuriousWakeupInv
<1>4. ASSUME NEW p \in Parts, UploadThread(p) \/ Terminate(p) PROVE Inv'
  BY <1>4, PutPartInv, InsertEtagInv, CountPartInv, ReleaseSlotInv, NotifySlotInv,
     NotifyFinalInv, TerminateInv DEF UploadThread
<1>5. CASE AllDone \/ UNCHANGED vars
  BY <1>5, StutterInv DEF AllDone
<1> QED
  BY <1>1, <1>2, <1>3, <1>4, <1>5 DEF Next

\* The invariant holds in every reachable state, for every part size, thread
\* limit, part limit and sequence of calls.
THEOREM Invariance == Spec => []Inv
<1>1. Init => Inv
  BY InitInv
<1>2. Inv /\ [Next]_vars => Inv'
  BY NextInv
<1> QED
  BY <1>1, <1>2, PTL DEF Spec

\* The state is well typed; the part that is hard is that no buffer is
\* filled beyond part_size and that the uint16_t values never wrap.
THEOREM TypeCorrect == Spec => []TypeOK
<1>1. Inv => TypeOK
  BY DEF Inv
<1> QED
  BY <1>1, Invariance, PTL

\* No upload ever publishes anything but the bytes written: neither a failed
\* or late part, nor a retried Close, nor std::terminate, can leave a
\* truncated object behind.
THEOREM NeverTruncated == Spec => []PublishedIsComplete
<1>1. Inv => PublishedIsComplete
  BY DEF Inv
<1> QED
  BY <1>1, Invariance, PTL

\* A FileSync or Close that returns normally has published every byte.
THEOREM NoErrorIsLost == Spec => []NoSilentLoss
<1>1. Inv => NoSilentLoss
  BY DEF Inv
<1> QED
  BY <1>1, Invariance, PTL

\* The list sent to CompleteMultipartUpload is the whole file, in order, and
\* is accepted: "Unknown part number" is never thrown.
THEOREM CompleteListIsRight == Spec => []ListIsComplete
<1>1. Inv => ListIsComplete
  BY DEF Inv, Alive, ListIsComplete
<1> QED
  BY <1>1, Invariance, PTL

\* The invariant puts the next chunk right behind the previous one.
LEMMA InvAppendsInPlace == Inv => AppendsInPlace
<1> SUFFICES ASSUME Inv, pc = "write" PROVE AppendsInPlace
  BY DEF AppendsInPlace
<1>1. BufferIdx = Full /\ Full \in Parts
  BY BufferIdxIsFull, FullIsPart
<1>2. ~Sealed /\ ~failed
  BY DEF Inv, Alive, WriterInv, Sealed, TypeOK
<1>3. TailPart /\ ~Over
  BY <1>2 DEF Inv, Alive, PartsInv, Flushing, Lost, Over
<1>4. /\ Full \in write_buffers <=> Rest > 0
      /\ Rest > 0 => buffers[Full] = [idx |-> Rest, uploading |-> FALSE]
  BY <1>2, <1>3 DEF TailPart
<1>5. Rest > 0 \/ Rest = 0
  BY FullRestType DEF Inv
<1>6. GetBuffer(BufferIdx).idx = Rest /\ ~GetBuffer(BufferIdx).uploading
  BY <1>1, <1>4, <1>5 DEF GetBuffer
<1>7. Full < Uint16
  BY <1>1, Uint16Assumption DEF Parts
<1> QED
  BY <1>6, <1>7 DEF AppendsInPlace, Full, Rest

\* Write never leaves its buffer, and the uint16_t part number never wraps:
\* S3 refuses the parts beyond its limit, at most MaxUploadThreads of them
\* are under way before an error is reported, and FlushBuffer then stops.
THEOREM WritesInPlace == Spec => []AppendsInPlace
BY InvAppendsInPlace, Invariance, PTL

-----------------------------------------------------------------------------
(* Upload slots and the two condition variables: when threads can always   *)
(* be created, every slot is given back and no sleeping writer is          *)
(* forgotten.                                                              *)

\* A sleeping writer's predicate is still false, or its wakeup is on the way.
WakeupPending ==
    /\ pc = "slot_wait" =>
        \/ uploads_in_progress >= MaxUploadThreads
        \/ \E p \in Parts : thread_pc[p] = "notify_slot"
    /\ pc = "final_wait" =>
        \/ uploads_in_progress > 0
        \/ \E p \in Parts : thread_pc[p] \in {"notify_slot", "notify_final"}

\* Every step preserves WakeupPending.
LEMMA WakeupPendingStep == Inv /\ WakeupPending /\ [Next]_vars => WakeupPending'
<1> SUFFICES ASSUME Inv, WakeupPending, [Next]_vars PROVE WakeupPending'
  OBVIOUS
<1> USE ThreadsAssumption DEF WakeupPending, localVars, writerVars, bufferVars,
    sessionVars, partVars, statusVars, uploadVars, s3Vars, callerVars
<1>a. uploads_in_progress \in Nat /\ MaxUploadThreads \in Nat
      /\ thread_pc \in [Parts -> ThreadPc]
  BY DEF Inv, TypeOK
<1>1. CASE Caller
  BY <1>1 DEF Caller, CallWrite, CallFinalize, Destroy
<1>2. CASE Writer
  <2>1. CASE \/ WriteChunk \/ GetBufferThrows \/ FlushBuffer \/ FlushInit
            \/ Spawn \/ Finalize \/ SinglePut
    BY <2>1
    DEF WriteChunk, GetBufferThrows, Advance, FlushBuffer, RethrowIOError,
        FlushReturns, FlushInit, GiveSlotBack, Spawn, Finalize, SinglePut, Throw,
        Return, Leave
  <2>2. CASE FlushAllInit \/ FlushAllLoop \/ CompleteList \/ CompletePost
    BY <2>2
    DEF FlushAllInit, FlushAllLoop, CompleteList, CompletePost, Throw, Return, Leave
  <2>3. CASE AcquireSlot
    BY <2>3 DEF AcquireSlot
  <2>4. CASE FinalFlush
    BY <1>a, <2>4
    DEF FinalFlush, UploadsOver, AfterUploads, RethrowIOError, Throw, Return, Leave
  <2> QED
    BY <1>2, <2>1, <2>2, <2>3, <2>4 DEF Writer
<1>3. CASE SpuriousWakeup
  BY <1>3 DEF SpuriousWakeup
<1>4. ASSUME NEW p \in Parts, UploadThread(p) \/ Terminate(p) PROVE WakeupPending'
  <2>1. CASE PutPart(p)
    BY <1>a, <2>1 DEF PutPart, PutSucceeds, PutFails, SetThread
  <2>2. CASE InsertEtag(p)
    BY <1>a, <2>2 DEF InsertEtag, SetThread
  <2>3. CASE CountPart(p)
    BY <1>a, <2>3 DEF CountPart, SetThread
  <2>4. CASE ReleaseSlot(p)
    BY <1>a, <2>4 DEF ReleaseSlot, SetThread
  <2>5. CASE NotifySlot(p)
    BY <1>a, <2>5 DEF NotifySlot, SetThread
  <2>6. CASE NotifyFinal(p)
    BY <1>a, <2>6 DEF NotifyFinal, WakeFinal, SetThread
  <2>7. CASE Terminate(p)
    BY <2>7 DEF Terminate
  <2> QED
    BY <1>4, <2>1, <2>2, <2>3, <2>4, <2>5, <2>6, <2>7 DEF UploadThread
<1>5. CASE AllDone \/ UNCHANGED vars
  BY <1>5 DEF AllDone, vars
<1> QED
  BY <1>1, <1>2, <1>3, <1>4, <1>5 DEF Next

\* Every step keeps uploads_in_progress in line with the threads.
LEMMA SlotsStep ==
    ASSUME CanSpawnFail = FALSE
    PROVE  Inv /\ SlotsMatchThreads /\ [Next]_vars => SlotsMatchThreads'
<1> SUFFICES ASSUME Inv, SlotsMatchThreads, [Next]_vars PROVE SlotsMatchThreads'
  OBVIOUS
<1> USE DEF SlotsMatchThreads, localVars, writerVars, bufferVars, sessionVars,
    partVars, statusVars, uploadVars, s3Vars, callerVars
<1>a. uploads_in_progress \in Nat /\ thread_pc \in [Parts -> ThreadPc]
      /\ Cardinality(SlotHolders) \in Nat /\ IsFiniteSet(SlotHolders)
  BY SetsFinite, ThreadsAssumption DEF Inv, TypeOK
<1>b. UNCHANGED thread_pc => SlotHolders' = SlotHolders
  BY DEF SlotHolders
<1>1. CASE Caller
  BY <1>1, <1>b DEF Caller, CallWrite, CallFinalize, Destroy
<1>2. CASE Writer
  <2>1. CASE WriteChunk \/ GetBufferThrows \/ Finalize \/ SinglePut
    BY <1>b, <2>1
    DEF WriteChunk, GetBufferThrows, Advance, Finalize, SinglePut, Throw, Return,
        Leave
  <2>2. CASE FlushAllInit \/ FlushAllLoop \/ CompleteList \/ CompletePost
    BY <1>b, <2>2
    DEF FlushAllInit, FlushAllLoop, CompleteList, CompletePost, Throw, Return, Leave
  <2>3. CASE AcquireSlot
    BY <1>a, <1>b, <2>3 DEF AcquireSlot
  <2>4. CASE FinalFlush
    BY <1>b, <2>4
    DEF FinalFlush, UploadsOver, AfterUploads, RethrowIOError, Throw, Return, Leave
  <2>5. CASE FlushBuffer
    BY <1>b, <2>5 DEF FlushBuffer, RethrowIOError, FlushReturns, Advance, Throw, Leave
  <2>6. CASE FlushInit
    BY <1>a, <1>b, <2>6 DEF FlushInit, GiveSlotBack, Throw, Leave
  <2>7. CASE Spawn
    <3>1. cur \in Parts /\ thread_pc[cur] = Unused /\ pc = "spawn"
      BY <2>7 DEF Inv, TypeOK, Alive, WriterInv, Flushing, Spawn
    <3>2. thread_pc' = [thread_pc EXCEPT ![cur] = "put"] /\ pc' \in {"idle", "write", "flush_loop"}
          /\ UNCHANGED uploads_in_progress
      BY <2>7 DEF Spawn, FlushReturns, Advance
    <3>3. SlotHolders' = SlotHolders \cup {cur} /\ cur \notin SlotHolders
      BY <1>a, <3>1, <3>2 DEF SlotHolders, Unused
    <3>4. Cardinality(SlotHolders') = Cardinality(SlotHolders) + 1
      BY <1>a, <3>3, FS_AddElement
    <3> QED
      BY <1>a, <3>1, <3>2, <3>4
  <2> QED
    BY <1>2, <2>1, <2>2, <2>3, <2>4, <2>5, <2>6, <2>7 DEF Writer
<1>3. CASE SpuriousWakeup
  BY <1>3, <1>b DEF SpuriousWakeup
<1>4. ASSUME NEW p \in Parts, UploadThread(p) \/ Terminate(p) PROVE SlotsMatchThreads'
  <2>1. CASE PutPart(p) \/ InsertEtag(p) \/ CountPart(p)
    <3>1. SlotHolders' = SlotHolders
      BY <1>a, <2>1
      DEF PutPart, PutSucceeds, PutFails, InsertEtag, CountPart, SetThread,
          SlotHolders
    <3> QED
      BY <2>1, <3>1 DEF PutPart, PutSucceeds, PutFails, InsertEtag, CountPart
  <2>2. CASE NotifySlot(p) \/ NotifyFinal(p)
    <3>1. SlotHolders' = SlotHolders
      BY <1>a, <2>2 DEF NotifySlot, NotifyFinal, WakeFinal, SetThread, SlotHolders
    <3> QED
      BY <2>2, <3>1 DEF NotifySlot, NotifyFinal, WakeFinal
  <2>3. CASE ReleaseSlot(p)
    <3>1. SlotHolders' = SlotHolders \ {p} /\ p \in SlotHolders
      BY <1>a, <2>3 DEF ReleaseSlot, SetThread, SlotHolders
    <3>2. Cardinality(SlotHolders') = Cardinality(SlotHolders) - 1
      BY <1>a, <3>1, FS_RemoveElement
    <3> QED
      BY <1>a, <2>3, <3>2 DEF ReleaseSlot
  <2>4. CASE Terminate(p)
    BY <2>4 DEF Terminate
  <2> QED
    BY <1>4, <2>1, <2>2, <2>3, <2>4 DEF UploadThread
<1>5. CASE AllDone \/ UNCHANGED vars
  BY <1>5, <1>b DEF AllDone, vars
<1> QED
  BY <1>1, <1>2, <1>3, <1>4, <1>5 DEF Next

\* A new handle has no slot taken and nobody asleep.
LEMMA SlotsInit == Init => SlotsMatchThreads /\ WakeupPending
<1> SUFFICES ASSUME Init PROVE SlotsMatchThreads /\ WakeupPending
  OBVIOUS
<1>1. SlotHolders = {}
  BY DEF Init, SlotHolders
<1> QED
  BY <1>1, FS_EmptySet DEF Init, SlotsMatchThreads, WakeupPending

\* A held slot has a thread behind it, which will notify the sleeper.
LEMMA WaitsFollow ==
    Inv /\ SlotsMatchThreads /\ WakeupPending => WaitsForSomeone
<1> SUFFICES ASSUME Inv, SlotsMatchThreads, WakeupPending PROVE WaitsForSomeone
  OBVIOUS
<1>1. uploads_in_progress \in Nat
  BY ThreadsAssumption DEF Inv, TypeOK
<1>2. ASSUME pc \in {"slot_wait", "final_wait"}, uploads_in_progress > 0
      PROVE  \E p \in Parts : thread_pc[p] \in {"put", "etag", "count", "dec"}
  <2>1. Cardinality(SlotHolders) = uploads_in_progress
    BY <1>1, <1>2, SetsFinite DEF SlotsMatchThreads
  <2>2. SlotHolders # {}
    BY <1>1, <1>2, <2>1, FS_EmptySet
  <2> QED
    BY <2>2 DEF SlotHolders
<1>3. CASE pc = "slot_wait"
  BY <1>1, <1>2, <1>3, ThreadsAssumption DEF WakeupPending, WaitsForSomeone
<1>4. CASE pc = "final_wait"
  BY <1>1, <1>2, <1>4 DEF WakeupPending, WaitsForSomeone, ThreadPc
<1> QED
  BY <1>3, <1>4 DEF WaitsForSomeone

\* If the std::thread constructor never throws, uploads_in_progress counts
\* exactly the uploads under way.
THEOREM SlotsAreReturned ==
    ASSUME CanSpawnFail = FALSE
    PROVE  Spec => []SlotsMatchThreads
<1>1. Init => SlotsMatchThreads
  BY SlotsInit
<1>2. Inv /\ SlotsMatchThreads /\ [Next]_vars => SlotsMatchThreads'
  BY SlotsStep
<1> QED
  BY <1>1, <1>2, Invariance, PTL DEF Spec

\* If the std::thread constructor never throws, a writer asleep on either
\* condition variable always has an upload thread that will notify it.
THEOREM NoForgottenWriter ==
    ASSUME CanSpawnFail = FALSE
    PROVE  Spec => []WaitsForSomeone
<1>1. Init => WakeupPending
  BY SlotsInit
<1>2. Inv /\ WakeupPending /\ [Next]_vars => WakeupPending'
  BY WakeupPendingStep
<1>3. Spec => []SlotsMatchThreads
  BY SlotsAreReturned
<1>4. Inv /\ SlotsMatchThreads /\ WakeupPending => WaitsForSomeone
  BY WaitsFollow
<1> QED
  BY <1>1, <1>2, <1>3, <1>4, Invariance, PTL DEF Spec

-----------------------------------------------------------------------------
(***************************************************************************)
(* S3MultiPartUpload implements S3ObjectWriter: every step of the write    *)
(* path is a step of the all-or-nothing writer, or invisible to it.        *)
(***************************************************************************)
AbstractStep == [Abstract!Next]_(Abstract!vars)

\* A step that touches nothing the abstract writer sees.
LEMMA Invisible ==
    ASSUME UNCHANGED <<file_offset, object, failed, acked, finalize_calls>>,
           call = "destroy" <=> call' = "destroy"
    PROVE  AbstractStep
BY DEF AbstractStep, Abstract!vars, Sealed

\* A step that ends in an exception.
LEMMA Fails ==
    ASSUME UNCHANGED <<file_offset, object, acked, finalize_calls, call>>,
           Inv, failed' = TRUE \/ UNCHANGED failed
    PROVE  AbstractStep
BY DEF AbstractStep, Abstract!vars, Abstract!Next, Abstract!Fail

\* Write accepts bytes only while nothing failed and no call sealed the file.
LEMMA Appends ==
    ASSUME Inv, UNCHANGED <<object, failed, acked, finalize_calls, call>>,
           call = "write", finalize_calls = 0, ~failed,
           file_offset' \in Nat, file_offset' > file_offset
    PROVE  AbstractStep
BY DEF AbstractStep, Abstract!Next, Abstract!Append

\* FileSync, Close or the destructor is entered.
LEMMA Seals ==
    ASSUME UNCHANGED <<file_offset, object, failed, acked>>,
           finalize_calls' > 0 \/ call' = "destroy"
    PROVE  AbstractStep
BY DEF AbstractStep, Abstract!Next, Abstract!Seal

\* FileSync or Close returns normally.
LEMMA Acknowledges ==
    ASSUME UNCHANGED <<file_offset, object, failed, finalize_calls, call>>, Sealed,
           Inv, acked' = TRUE, ~failed, file_offset > 0 => object = Layout(file_offset)
    PROVE  AbstractStep
BY DEF AbstractStep, Abstract!Next, Abstract!Acknowledge, Sealed

\* The object appears.
LEMMA Publishes ==
    ASSUME UNCHANGED <<file_offset, finalize_calls, call>>, Sealed, Inv,
           file_offset > 0, object = NoObject, object' = Layout(file_offset),
           \/ UNCHANGED <<failed, acked>>
           \/ failed' = TRUE /\ UNCHANGED acked
           \/ ~failed /\ acked' = TRUE /\ UNCHANGED failed
    PROVE  AbstractStep
BY DEF AbstractStep, Abstract!Next, Abstract!Publish, Sealed

\* An empty file has no part.
LEMMA EmptyLayout == Layout(0) = NoObject
<1>1. 0 \div PartSize = 0 /\ 0 % PartSize = 0
  BY PartSizeAssumption
<1>2. Layout(0) = [i \in 1 .. 0 |-> <<i - 1, IF i <= 0 THEN PartSize ELSE 0>>]
  BY <1>1 DEF Layout
<1> QED
  BY <1>2 DEF NoObject

\* The answer to a PUT of the object or to CompleteMultipartUpload.
LEMMA Answered ==
    ASSUME Inv, Sealed, UNCHANGED <<file_offset, finalize_calls, call>>,
           object' \in {object, Layout(file_offset)},
           \/ UNCHANGED <<failed, acked>>
           \/ failed' = TRUE /\ UNCHANGED acked
           \/ ~failed /\ acked' = TRUE /\ UNCHANGED failed /\ object' = Layout(file_offset)
    PROVE  AbstractStep
<1>1. CASE object' = object
  BY <1>1, Fails, Acknowledges
<1>2. CASE object' # object
  <2>1. object = NoObject
    BY <1>2 DEF Inv, PublishedIsComplete
  <2>2. file_offset \in Nat /\ file_offset # 0
    BY <1>2, <2>1, EmptyLayout, BoundsAssumption DEF Inv, TypeOK
  <2>3. file_offset > 0
    BY <2>2
  <2>4. object' = Layout(file_offset)
    BY <1>2
  <2>5. CASE UNCHANGED <<failed, acked>>
    BY <2>1, <2>3, <2>4, <2>5, Publishes
  <2>6. CASE failed' = TRUE /\ UNCHANGED acked
    BY <2>1, <2>3, <2>4, <2>6, Publishes
  <2>7. CASE ~failed /\ acked' = TRUE /\ UNCHANGED failed
    BY <2>1, <2>3, <2>4, <2>7, Publishes
  <2> QED
    BY <2>5, <2>6, <2>7
<1> QED
  BY <1>1, <1>2

\* Every step of the handle's thread is a step of the abstract writer.
LEMMA WriterRefines == Inv /\ Writer => AbstractStep
<1> SUFFICES ASSUME Inv, Writer PROVE AbstractStep
  OBVIOUS
<1> USE DEF localVars, writerVars, bufferVars, sessionVars, partVars, statusVars,
        uploadVars, s3Vars, callerVars
<1>1. CASE WriteChunk
  <2>1. /\ BytesToWrite \in 1 .. remaining /\ file_offset \in Nat /\ remaining \in Nat
        /\ ~Sealed /\ ~failed /\ call = "write"
    BY <1>1, ChunkFits, BoundsAssumption, SMTT(30) DEF Inv, TypeOK
  <2>2. file_offset' = file_offset \/ file_offset' = file_offset + BytesToWrite
    BY <1>1 DEF WriteChunk, Advance
  <2>3. UNCHANGED <<object, failed, acked, finalize_calls, call>> /\ finalize_calls = 0
    BY <1>1, <2>1 DEF WriteChunk, Sealed, Inv, TypeOK
  <2> QED
    BY <2>1, <2>2, <2>3, Appends, Invisible
<1>2. CASE FlushBuffer
  <2>1. cur = Full /\ buffers[cur].idx > 0 /\ ~buffers[cur].uploading
    BY <1>2 DEF Inv, Alive, FlushBuffer, RethrowIOError, WriterInv, Flushing
  <2>2. ~(buffers[cur].idx = 0 \/ buffers[cur].uploading)
    BY <2>1
  <2>3. /\ UNCHANGED <<file_offset, object, acked, finalize_calls, call>>
        /\ failed' = TRUE \/ UNCHANGED failed
    BY <1>2, <2>2 DEF FlushBuffer, RethrowIOError, Throw
  <2> QED
    BY <2>3, Fails
<1>3. CASE AcquireSlot \/ FlushAllLoop
  BY <1>3, Invisible DEF AcquireSlot, FlushAllLoop
<1>4. CASE FlushInit \/ FlushAllInit
  <2>1. /\ UNCHANGED <<file_offset, object, acked, finalize_calls, call>>
        /\ failed' = TRUE \/ UNCHANGED failed
    BY <1>4
    DEF FlushInit, GiveSlotBack, FlushAllInit, InitializeMultipartUpload,
        InitializationThrows, Throw
  <2> QED
    BY <2>1, Fails
<1>5. CASE Spawn
  <2>1. UNCHANGED <<object, acked, finalize_calls, call>>
    BY <1>5 DEF Spawn, Throw
  <2>2. CASE call = "write" /\ file_offset' = file_offset + chunk /\ UNCHANGED failed
    <3>1. chunk > 0 /\ finalize_calls = 0 /\ ~failed
      BY <1>5, <2>2 DEF Spawn, Inv, Alive, WriterInv, Flushing
    <3>2. file_offset \in Nat /\ chunk \in Nat
      BY BoundsAssumption DEF Inv, TypeOK
    <3> QED
      BY <2>1, <2>2, <3>1, <3>2, Appends
  <2>3. CASE UNCHANGED file_offset /\ (failed' = TRUE \/ UNCHANGED failed)
    BY <2>1, <2>3, Fails
  <2> QED
    BY <1>5, <2>2, <2>3 DEF Spawn, FlushReturns, Advance, Throw
<1>6. CASE Finalize
  <2>1. UNCHANGED <<file_offset, object, failed, finalize_calls, call>>
    BY <1>6 DEF Finalize, Return
  <2>2. \/ UNCHANGED acked
        \/ acked' = TRUE /\ ~failed /\ upload_finalized
    BY <1>6 DEF Finalize, Return
  <2>3. Sealed /\ (upload_finalized => failed \/ object = Layout(file_offset))
    BY <1>6 DEF Finalize, Inv, Alive, WriterInv, PublishInv
  <2> QED
    BY <2>1, <2>2, <2>3, Invisible, Acknowledges
<1>7. CASE SinglePut
  <2>1. Sealed /\ SingleObject = Layout(file_offset)
    BY <1>7, SingleIsLayout DEF SinglePut, Inv, Alive, WriterInv
  <2>2. UNCHANGED <<file_offset, finalize_calls, call>> /\ object' \in {object, Layout(file_offset)}
    BY <1>7, <2>1 DEF SinglePut, Throw, Return
  <2>3. \/ UNCHANGED <<failed, acked>>
        \/ failed' = TRUE /\ UNCHANGED acked
        \/ ~failed /\ acked' = TRUE /\ UNCHANGED failed /\ object' = Layout(file_offset)
    BY <1>7, <2>1 DEF SinglePut, Throw, Return
  <2> QED
    BY <2>1, <2>2, <2>3, Answered
<1>8. CASE FinalFlush
  <2>1. UNCHANGED <<file_offset, object, finalize_calls, call>> /\ Sealed
    BY <1>8
    DEF FinalFlush, UploadsOver, AfterUploads, RethrowIOError, Throw, Return, Inv,
        Alive, WriterInv
  <2>2. \/ UNCHANGED <<failed, acked>>
        \/ failed' = TRUE /\ UNCHANGED acked
        \/ ~failed /\ acked' = TRUE /\ UNCHANGED failed /\ file_offset = 0
    BY <1>8, FinalState
    DEF FinalFlush, UploadsOver, AfterUploads, RethrowIOError, Throw, Return
  <2>3. CASE UNCHANGED <<failed, acked>>
    BY <2>1, <2>3, Fails
  <2>4. CASE failed' = TRUE /\ UNCHANGED acked
    BY <2>1, <2>4, Fails
  <2>5. CASE ~failed /\ acked' = TRUE /\ UNCHANGED failed /\ file_offset = 0
    <3>1. file_offset > 0 => object = Layout(file_offset)
      BY <2>5
    <3> QED
      BY <2>1, <2>5, <3>1, Acknowledges
  <2> QED
    BY <2>2, <2>3, <2>4, <2>5
<1>9. CASE CompleteList
  <2>1. /\ UNCHANGED <<file_offset, object, acked, finalize_calls, call>>
        /\ failed' = TRUE \/ UNCHANGED failed
    BY <1>9 DEF CompleteList, Throw
  <2> QED
    BY <2>1, Fails
<1>10. CASE CompletePost
  <2>1. Sealed /\ ListedObject = Layout(file_offset)
    BY <1>10 DEF CompletePost, Inv, Alive, WriterInv, ListIsComplete
  <2>2. UNCHANGED <<file_offset, finalize_calls, call>> /\ object' \in {object, Layout(file_offset)}
    BY <1>10, <2>1 DEF CompletePost, S3Answers, Throw, Return
  <2>3. \/ UNCHANGED <<failed, acked>>
        \/ failed' = TRUE /\ UNCHANGED acked
        \/ ~failed /\ acked' = TRUE /\ UNCHANGED failed /\ object' = Layout(file_offset)
    BY <1>10, <2>1 DEF CompletePost, Throw, Return
  <2> QED
    BY <2>1, <2>2, <2>3, Answered
<1>11. CASE GetBufferThrows
  <2>1. /\ UNCHANGED <<file_offset, object, acked, finalize_calls, call>>
        /\ failed' = TRUE \/ UNCHANGED failed
    BY <1>11 DEF GetBufferThrows, Throw
  <2> QED
    BY <2>1, Fails
<1> QED
  BY <1>1, <1>2, <1>3, <1>4, <1>5, <1>6, <1>7, <1>8, <1>9, <1>10, <1>11 DEF Writer

\* Every step of the system is a step of the abstract writer.
LEMMA NextRefines == Inv /\ [Next]_vars => AbstractStep
<1> SUFFICES ASSUME Inv, [Next]_vars PROVE AbstractStep
  OBVIOUS
<1> USE DEF localVars, writerVars, bufferVars, sessionVars, partVars, statusVars,
        uploadVars, s3Vars, callerVars
<1>1. CASE CallWrite
  BY <1>1, Invisible DEF CallWrite, Inv, Alive, WriterInv
<1>2. CASE CallFinalize \/ Destroy
  <2>1. finalize_calls \in Nat
    BY BoundsAssumption DEF Inv, TypeOK
  <2> QED
    BY <1>2, <2>1, Seals DEF CallFinalize, Destroy
<1>3. CASE Writer
  BY <1>3, WriterRefines
<1>4. CASE SpuriousWakeup \/ AllDone \/ UNCHANGED vars
  BY <1>4, Invisible DEF SpuriousWakeup, AllDone, vars
<1>5. ASSUME NEW p \in Parts, UploadThread(p) \/ Terminate(p) PROVE AbstractStep
  <2>1. UNCHANGED <<file_offset, object, failed, acked, finalize_calls, call>>
    BY <1>5
    DEF UploadThread, PutPart, PutSucceeds, PutFails, InsertEtag, CountPart,
        ReleaseSlot, NotifySlot, NotifyFinal, WakeFinal, Terminate
  <2> QED
    BY <2>1, Invisible
<1> QED
  BY <1>1, <1>2, <1>3, <1>4, <1>5 DEF Next, Caller

\* The write path implements the all-or-nothing writer, for every part size,
\* thread limit and S3 part limit: what a reader of the bucket can see is
\* explained by one atomic replacement of the object.
THEOREM Refinement == Spec => ImplementsObjectWriter
<1>1. Init => Abstract!Init
  BY DEF Init, Abstract!Init
<1>2. Inv /\ [Next]_vars => [Abstract!Next]_(Abstract!vars)
  BY NextRefines DEF AbstractStep
<1> QED
  BY <1>1, <1>2, Invariance, PTL DEF Spec, ImplementsObjectWriter, Abstract!Spec
=============================================================================
