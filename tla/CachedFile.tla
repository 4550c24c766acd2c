----------------------------- MODULE CachedFile -----------------------------
(***************************************************************************)
(* The whole files that the handles of a query share (http_state.cpp), and *)
(* who holds their locks: HTTPFileHandle::Initialize, LoadFileInfo and     *)
(* FullDownload, and the full download that HTTPFileSystem::Read falls     *)
(* back to (httpfs.cpp), for handles of one path.                          *)
(*                                                                         *)
(* A CachedFileHandle on a file that is not initialized holds its lock: it *)
(* is for its owner to download the file.  Threads open handles, read with *)
(* them, several with one handle where HandleOf says so, and close them.   *)
(* What is in the file is the matter of HTTPFileHandle; here it is only    *)
(* initialized or not.  External: the server.                              *)
(***************************************************************************)
EXTENDS Naturals, Sequences

CONSTANTS
  Threads, Handles,
  Situations        \* the situations there may be, by name, see below

\* A situation: handle_of, the handle a thread works with; opener, the thread
\* that opens and closes a handle; handles, those that are used, and downloads,
\* those opened with force_download, or of a small file; whether the server
\* supports ranges, errors may name the bucket's region (S3FileHandle), callers
\* go on with a handle after a Read failed, and requests fail or lengths
\* disagree; and bounds: opens of each handle, and CachedFile objects.
ASSUME SituationAssumption == \A s \in DOMAIN Situations :
  LET sit == Situations[s] IN
  /\ sit.handle_of \in [Threads -> Handles] /\ sit.opener \in [Handles -> Threads]
  /\ \A h \in sit.handles : sit.handle_of[sit.opener[h]] = h
  /\ sit.downloads \subseteq sit.handles /\ sit.handles \subseteq Handles
  /\ {sit.ranges, sit.redirects, sit.use_after_failure, sit.can_fail} \subseteq BOOLEAN
  /\ sit.max_opens \in Nat /\ sit.max_files \in Nat \ {0}
\* A lock tells who has it.
ASSUME OwnerAssumption ==
  Threads \cap Handles = {} /\ "nobody" \notin Threads \cup Handles

VARIABLES
  situation,    \* its name
  files,        \* the CachedFile objects: who has the lock, and initialized
  cached_files, \* HTTPState: the one of this path, 0 when there is none
  status,       \* of a handle: "closed", "opening", "open" or "broken"
  cached_file_handle, \* of a handle: the file it refers to, 0 for nullptr
  second,       \* S3FileHandle::Initialize is in its second attempt
  pc, caller,   \* of a thread: where it is, and who called GetHandle
  file_p,       \* the file that it gets a CachedFileHandle on
  opens,
  internal_error

vars == <<files, cached_files, status, cached_file_handle, second, pc, caller,
          file_p, opens, internal_error>>

Situation == Situations[situation]
HandleOf == Situation.handle_of
Opener == Situation.opener
Downloads == Situation.downloads
Ranges == Situation.ranges
Redirects == Situation.redirects
UseAfterFailure == Situation.use_after_failure
CanFail == Situation.can_fail
MaxOpens == Situation.max_opens
MaxFiles == Situation.max_files

\* A lock belongs to the CachedFileHandle of a handle, or to one in the hands
\* of a thread.
Nobody == "nobody"
Owners == Handles \cup Threads
NewFile == [lock |-> Nobody, initialized |-> FALSE]

Init ==
  /\ situation \in DOMAIN Situations
  /\ files = <<>> /\ cached_files = 0
  /\ status = [h \in Handles |-> "closed"]
  /\ cached_file_handle = [h \in Handles |-> 0]
  /\ second = [h \in Handles |-> FALSE] /\ opens = [h \in Handles |-> 0]
  /\ pc = [t \in Threads |-> "idle"] /\ caller = [t \in Threads |-> "idle"]
  /\ file_p = [t \in Threads |-> 0]
  /\ internal_error = FALSE

\* An open or a Read is over.
Done(t) ==
  /\ pc' = [pc EXCEPT ![t] = "idle"]
  /\ status' = [status EXCEPT ![HandleOf[t]] = IF @ = "opening" THEN "open" ELSE @]
Goto(t, l) == pc' = [pc EXCEPT ![t] = l]
Become(h, s) == status' = [status EXCEPT ![h] = s]

-----------------------------------------------------------------------------
(***************************************************************************)
(* Mutants.                                                                *)
(***************************************************************************)
\* The flag is not looked at again once the lock is there.
InitializedAtFirst(t) == FALSE
\* A handle is made without the lock.
NeedsNoLock(t) == FALSE
\* A handle that is destroyed keeps its lock.
ReleasedNever(owner) == files

\* ~CachedFileHandle: what an owner has locked goes to another, or to nobody.
Passed(owner, to, all) ==
  [f \in DOMAIN all |-> IF all[f].lock = owner THEN [all[f] EXCEPT !.lock = to] ELSE all[f]]
Released(owner) == Passed(owner, Nobody, files)

\* ~HTTPFileHandle
Destroy(h) ==
  /\ Become(h, "closed")
  /\ files' = Released(h)
  /\ cached_file_handle' = [cached_file_handle EXCEPT ![h] = 0]

-----------------------------------------------------------------------------
(***************************************************************************)
(* HTTPState::GetCachedFile and the constructor of CachedFileHandle.       *)
(***************************************************************************)
\* The file is looked up, or made.
GetCachedFile(t, by) ==
  /\ IF cached_files # 0
       THEN UNCHANGED <<files, cached_files>>
       ELSE files' = Append(files, NewFile) /\ cached_files' = Len(files) + 1
  /\ file_p' = [file_p EXCEPT ![t] = cached_files']
  /\ caller' = [caller EXCEPT ![t] = by]
  /\ Goto(t, "handle")

\* initialized is read ...
NeedsLock(t) == ~files[file_p[t]].initialized
GetHandle(t) ==
  /\ pc[t] = "handle"
  /\ Goto(t, IF NeedsLock(t) THEN "lock" ELSE caller[t])
  /\ UNCHANGED <<files, cached_files, status, cached_file_handle, second, caller,
                 file_p, opens, internal_error>>

\* ... and the lock is taken, whatever became of the file meanwhile.
TakeLock(t) ==
  /\ pc[t] = "lock" /\ files[file_p[t]].lock = Nobody
  /\ files' = [files EXCEPT ![file_p[t]].lock = t]
  /\ Goto(t, caller[t])
  /\ UNCHANGED <<cached_files, status, cached_file_handle, second, caller, file_p,
                 opens, internal_error>>

\* The thread's CachedFileHandle becomes that of its handle; the one that was
\* there is destroyed.
Assign(t) ==
  LET h == HandleOf[t] IN
  /\ files' = Passed(t, h, Released(h))
  /\ cached_file_handle' = [cached_file_handle EXCEPT ![h] = file_p[t]]

-----------------------------------------------------------------------------
(***************************************************************************)
(* Opening a handle.                                                       *)
(***************************************************************************)
Open(t) ==
  LET h == HandleOf[t] IN
  /\ pc[t] = "idle" /\ h \in Situation.handles /\ Opener[h] = t /\ status[h] = "closed" /\ opens[h] < MaxOpens
  /\ Become(h, "opening")
  /\ opens' = [opens EXCEPT ![h] = @ + 1]
  /\ second' = [second EXCEPT ![h] = FALSE]
  /\ GetCachedFile(t, IF h \in Downloads THEN "full" ELSE "info")
  /\ UNCHANGED <<cached_file_handle, internal_error>>

\* LoadFileInfo, and Initialize with a metadata entry: a file that is there is
\* taken; else the lock is given back, and a HEAD request follows.
Initialized(t) == files[file_p[t]].initialized
LoadFileInfo(t) ==
  /\ pc[t] = "info"
  /\ \/ Initialized(t) /\ Assign(t) /\ Done(t)
     \/ /\ ~Initialized(t)
        /\ files' = Released(t)
        /\ Goto(t, "head")
        /\ UNCHANGED <<status, cached_file_handle>>
  /\ UNCHANGED <<cached_files, second, caller, file_p, opens, internal_error>>

HeadRequest(t) ==
  LET h == HandleOf[t] IN
  /\ pc[t] = "head"
  /\ \/ Become(h, "open") /\ Goto(t, "idle")
        /\ UNCHANGED <<files, cached_files, file_p, caller>>
        /\ UNCHANGED cached_file_handle
     \/ GetCachedFile(t, "full")     \* no length
        /\ UNCHANGED <<status, cached_file_handle>>
     \/ /\ CanFail
        /\ Destroy(h) /\ Goto(t, "idle")
        /\ UNCHANGED <<cached_files, file_p, caller>>
  /\ UNCHANGED <<second, opens, internal_error>>

-----------------------------------------------------------------------------
(***************************************************************************)
(* FullDownload, in an open or in a Read.                                  *)
(***************************************************************************)
\* Read compares the length with the one that HEAD told, and drops the file
\* when they differ.
DropFile(t, all) ==
  LET h == HandleOf[t] IN
  /\ status[h] # "opening" /\ CanFail /\ Len(files) < MaxFiles
  /\ files' = Passed(t, Nobody, Passed(h, Nobody, all)) /\ cached_files' = 0
  /\ cached_file_handle' = [cached_file_handle EXCEPT ![h] = 0]
  /\ Become(h, "broken") /\ Goto(t, "idle")

FullDownload(t) ==
  /\ pc[t] = "full"
  /\ \/ ~Initialized(t) /\ Assign(t) /\ Goto(t, "download") /\ UNCHANGED <<status, cached_files>>
     \/ Initialized(t) /\ Assign(t) /\ Done(t) /\ UNCHANGED cached_files
     \/ Initialized(t) /\ DropFile(t, files)
  /\ UNCHANGED <<second, caller, file_p, opens, internal_error>>

\* SetInitialized, which throws when the file is initialized or not locked, and
\* releases the lock.
Legal(h, f) == ~files[f].initialized /\ files[f].lock = h
Published(h, f) ==
  IF Legal(h, f) THEN [files EXCEPT ![f] = [lock |-> Nobody, initialized |-> TRUE]] ELSE files
DownloadSucceeds(t) ==
  LET h == HandleOf[t]
      f == cached_file_handle[h]
  IN
  /\ pc[t] = "download"
  /\ internal_error' = (internal_error \/ ~Legal(h, f))
  /\ \/ files' = Published(h, f) /\ Done(t) /\ UNCHANGED <<cached_files, cached_file_handle>>
     \/ DropFile(t, Published(h, f))
  /\ UNCHANGED <<second, caller, file_p, opens>>

\* The download fails: an open is over and its handle destroyed, a Read leaves
\* the handle as it is.
DownloadFails(t) ==
  LET h == HandleOf[t] IN
  /\ pc[t] = "download" /\ CanFail
  /\ Goto(t, "idle")
  /\ \/ status[h] = "opening" /\ Destroy(h)
     \/ /\ status[h] # "opening"
        /\ Become(h, "broken")
        /\ UNCHANGED <<files, cached_file_handle>>
  /\ UNCHANGED <<cached_files, second, caller, file_p, opens, internal_error>>

\* S3FileHandle::Initialize: the error names a region, and HTTPFileHandle::
\* Initialize is called once more, for the same handle.
OpenAgain(t) ==
  LET h == HandleOf[t] IN
  /\ pc[t] \in {"head", "download"} /\ Redirects /\ status[h] = "opening" /\ ~second[h]
  /\ second' = [second EXCEPT ![h] = TRUE]
  /\ GetCachedFile(t, IF h \in Downloads THEN "full" ELSE "info")
  /\ UNCHANGED <<status, cached_file_handle, opens, internal_error>>

-----------------------------------------------------------------------------
(***************************************************************************)
(* Reading and closing.                                                    *)
(***************************************************************************)
Readable(h) == status[h] = "open" \/ (status[h] = "broken" /\ UseAfterFailure)

\* ReadInternal: from the file if there is one ...
ReadCached(t) ==
  LET f == cached_file_handle[HandleOf[t]] IN
  /\ pc[t] = "idle" /\ Readable(HandleOf[t]) /\ f # 0
  /\ internal_error' = (internal_error \/ ~files[f].initialized)
  /\ UNCHANGED <<files, cached_files, status, cached_file_handle, second, pc, caller,
                 file_p, opens>>

\* ... or with a range request; when that cannot be, the file is downloaded.
ReadFallsBack(t) ==
  LET h == HandleOf[t] IN
  /\ pc[t] = "idle" /\ Readable(h) /\ cached_file_handle[h] = 0 /\ ~Ranges
  /\ GetCachedFile(t, "full")
  /\ UNCHANGED <<status, cached_file_handle, second, opens, internal_error>>

Close(t) ==
  LET h == HandleOf[t] IN
  /\ Opener[h] = t /\ status[h] \in {"open", "broken"}
  /\ \A u \in Threads : HandleOf[u] = h => pc[u] = "idle"
  /\ Destroy(h)
  /\ UNCHANGED <<cached_files, second, pc, caller, file_p, opens, internal_error>>

\* HTTPState::Reset
QueryEnd ==
  /\ \A t \in Threads : pc[t] = "idle"
  /\ cached_files # 0 /\ Len(files) < MaxFiles
  /\ cached_files' = 0
  /\ UNCHANGED <<files, status, cached_file_handle, second, pc, caller, file_p, opens,
                 internal_error>>

\* What a thread does in a call that it has begun.
Continue(t) ==
  \/ GetHandle(t) \/ TakeLock(t) \/ LoadFileInfo(t) \/ HeadRequest(t)
  \/ FullDownload(t) \/ DownloadSucceeds(t) \/ DownloadFails(t) \/ OpenAgain(t)

Next ==
  /\ \/ \E t \in Threads :
          Open(t) \/ ReadCached(t) \/ ReadFallsBack(t) \/ Continue(t) \/ Close(t)
     \/ QueryEnd
  /\ UNCHANGED situation

Spec == Init /\ [][Next]_<<vars, situation>>
\* Threads run, and handles are closed some day.  The lock is a std::mutex,
\* which is not fair: threads may overtake each other, but not for ever.
FairSpec ==
  /\ Spec
  /\ \A t \in Threads : SF_vars(TakeLock(t)) /\ WF_vars(Continue(t)) /\ WF_vars(Close(t))

-----------------------------------------------------------------------------
(***************************************************************************)
(* Properties.                                                             *)
(***************************************************************************)
\* Type correctness.
TypeOK ==
  /\ files \in Seq([lock : Owners \cup {Nobody}, initialized : BOOLEAN])
  /\ Len(files) <= MaxFiles /\ cached_files \in 0 .. Len(files)
  /\ status \in [Handles -> {"closed", "opening", "open", "broken"}]
  /\ cached_file_handle \in [Handles -> 0 .. Len(files)]
  /\ pc \in [Threads -> {"idle", "handle", "lock", "info", "head", "full", "download"}]
  /\ \A f \in DOMAIN files : files[f].lock \in Threads =>
       pc[files[f].lock] \in {"info", "full"} /\ file_p[files[f].lock] = f
  /\ \A f \in DOMAIN files : files[f].lock \in Handles => status[files[f].lock] # "closed"

\* A file is downloaded through one handle at a time, whatever threads open,
\* wait, fail, give up and erase in which order.
OneDownload ==
  \A t, u \in Threads :
    pc[t] = "download" /\ pc[u] = "download"
      /\ cached_file_handle[HandleOf[t]] = cached_file_handle[HandleOf[u]] => t = u

\* The InternalExceptions of ReadInternal and SetInitialized are not thrown.
NoInternalError == ~internal_error

\* So it is where every handle has one thread, which gives it up after a failure,
\* and no error names another region: a handle that is initialized once more keeps
\* the file whose download failed (Cached_redirected.cfg).
NobodyFindsItUnready == ~UseAfterFailure /\ ~Redirects => NoInternalError

\* A file that is initialized is read "without holding the lock": nobody waits
\* for the lock of such a file while a handle that is merely open has it.
NobodyWaitsForReaders ==
  \A t \in Threads : pc[t] = "lock" /\ files[file_p[t]].initialized =>
    \A h \in Handles : files[file_p[t]].lock = h => status[h] = "opening"

\* Every open and every Read returns.
CallsReturn == \A t \in Threads : pc[t] # "idle" ~> pc[t] = "idle"

\* Without redirects, and if handles are given up after a failure, whichever of
\* them downloads, fails, waits or is closed first.
CallsReturnUndirected ==
  \A t \in Threads : ~Redirects /\ ~UseAfterFailure /\ pc[t] # "idle" ~> pc[t] = "idle"
=============================================================================
