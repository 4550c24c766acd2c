-------------------------- MODULE CachedFileProofs --------------------------
(***************************************************************************)
(* The files that handles share (CachedFile), for any number of threads,   *)
(* handles, files and situations in which no two threads have one handle:  *)
(* the lock of a file belongs to whom it should, and so a file has one     *)
(* download at a time and nobody reads it before it is there.              *)
(*                                                                         *)
(* The inductive invariant says at each point of a call what a thread      *)
(* holds.  OneDownload is not inductive: that two threads do not download  *)
(* one file follows from the handle of each having the file's lock, and    *)
(* this from the lock having been the thread's own before.                 *)
(***************************************************************************)
EXTENDS CachedFile, SequenceTheorems, TLAPS

\* No two threads work with one handle.
OwnHandles == \A t, u \in Threads : HandleOf[t] = HandleOf[u] => t = u

FileRecords == [lock : Owners \cup {Nobody}, initialized : BOOLEAN]
Lines == {"idle", "handle", "lock", "info", "head", "full", "download"}

\* The files, and what a step may change of them: their number, who has the lock
\* of each, and whether it is initialized.
FilesOK == files \in Seq(FileRecords)
Size == Len(files)
LockOf == [f \in 1 .. Len(files) |-> files[f].lock]
Ready == [f \in 1 .. Len(files) |-> files[f].initialized]

\* The values of the variables.  There is room for a file when there is none.
Types ==
  /\ situation \in DOMAIN Situations
  /\ FilesOK
  /\ Size <= MaxFiles /\ cached_files \in 0 .. Size
  /\ cached_files = 0 => Size < MaxFiles
  /\ status \in [Handles -> {"closed", "opening", "open", "broken"}]
  /\ cached_file_handle \in [Handles -> 0 .. Size]
  /\ second \in [Handles -> BOOLEAN]
  /\ pc \in [Threads -> Lines] /\ caller \in [Threads -> {"idle", "info", "full"}]
  /\ file_p \in [Threads -> 0 .. Size]
  /\ internal_error \in BOOLEAN

\* A thread in a call has a file and a handle that is not closed.
InCall ==
  \A t \in Threads : pc[t] # "idle" =>
    /\ file_p[t] # 0 /\ status[HandleOf[t]] # "closed"
    /\ pc[t] \in {"handle", "lock"} => caller[t] # "idle"

\* The lock of a file that is given to a thread is the one it has just taken ...
LockOfThread ==
  \A f \in 1 .. Size, t \in Threads : LockOf[f] = t =>
    pc[t] \in {"info", "full"} /\ file_p[t] = f
\* ... and that of a handle the one of the handle's file.
LockOfHandle ==
  \A f \in 1 .. Size, h \in Handles : LockOf[f] = h =>
    status[h] # "closed" /\ cached_file_handle[h] = f

\* Who is past GetHandle has the lock, if the file is not initialized, ...
PastGetHandle ==
  \A t \in Threads : pc[t] \in {"info", "full"} /\ ~Ready[file_p[t]] =>
    LockOf[file_p[t]] = t
\* ... and so has the handle through which a file is downloaded.
Downloading ==
  \A t \in Threads : pc[t] = "download" =>
    /\ cached_file_handle[HandleOf[t]] = file_p[t]
    /\ LockOf[file_p[t]] = HandleOf[t] /\ ~Ready[file_p[t]]

\* Without redirects, a handle gets a file once, and is open when that is there.
FileWhenOpen == ~Redirects => \A t \in Threads :
  LET h == HandleOf[t] IN
  /\ status[h] = "closed" => cached_file_handle[h] = 0
  /\ pc[t] \notin {"idle", "download"} => cached_file_handle[h] = 0
  /\ pc[t] = "idle" /\ status[h] = "open" /\ cached_file_handle[h] # 0 =>
       Ready[cached_file_handle[h]]

FileInv == /\ OwnHandles /\ Types /\ InCall /\ LockOfThread /\ LockOfHandle
           /\ PastGetHandle /\ Downloading /\ FileWhenOpen /\ NobodyFindsItUnready

-----------------------------------------------------------------------------
\* The situation's parts have the sets they should, and change with it only.
LEMMA SituationFacts ==
  /\ UNCHANGED situation =>
       /\ HandleOf' = HandleOf /\ Opener' = Opener /\ Redirects' = Redirects
       /\ UseAfterFailure' = UseAfterFailure /\ MaxFiles' = MaxFiles
       /\ OwnHandles' = OwnHandles
  /\ situation \in DOMAIN Situations =>
       /\ HandleOf \in [Threads -> Handles] /\ MaxFiles \in Nat \ {0}
       /\ Redirects \in BOOLEAN /\ UseAfterFailure \in BOOLEAN
BY SituationAssumption DEF HandleOf, Opener, Redirects, UseAfterFailure, MaxFiles,
   Situation, OwnHandles

\* Passing locks on changes nothing but who has them.
LEMMA PassedFacts ==
  ASSUME NEW all \in Seq(FileRecords), NEW owner, NEW to \in Owners \cup {Nobody}
  PROVE  /\ Passed(owner, to, all) \in Seq(FileRecords)
         /\ Len(Passed(owner, to, all)) = Len(all)
         /\ \A f \in 1 .. Len(all) :
              /\ Passed(owner, to, all)[f].initialized = all[f].initialized
              /\ Passed(owner, to, all)[f].lock =
                   IF all[f].lock = owner THEN to ELSE all[f].lock
<1>1. /\ DOMAIN all = 1 .. Len(all) /\ Len(all) \in Nat
      /\ \A f \in 1 .. Len(all) : all[f] \in FileRecords
  BY LenProperties, ElementOfSeq
<1> DEFINE after == Passed(owner, to, all)
<1>2. /\ DOMAIN after = 1 .. Len(all)
      /\ \A f \in 1 .. Len(all) :
           after[f] = IF all[f].lock = owner THEN [all[f] EXCEPT !.lock = to] ELSE all[f]
  BY <1>1 DEF Passed
<1> HIDE DEF after
<1>3. ASSUME NEW f \in 1 .. Len(all)
      PROVE  /\ after[f] \in FileRecords /\ after[f].initialized = all[f].initialized
             /\ after[f].lock = IF all[f].lock = owner THEN to ELSE all[f].lock
  BY <1>1, <1>2 DEF FileRecords
<1>4. after \in [1 .. Len(all) -> FileRecords]
  <2>1. after = [f \in 1 .. Len(all) |-> after[f]]
    BY <1>1, <1>2 DEF after, Passed
  <2> QED
    BY <2>1, <1>3
<1>5. after \in Seq(FileRecords)
  BY <1>4, <1>1, SeqDef
<1>6. Len(after) = Len(all)
  BY <1>5, <1>2, <1>1, LenProperties
<1> QED
  BY <1>3, <1>5, <1>6 DEF after

\* The owners of locks are told apart.
LEMMA OwnersDiffer ==
  /\ \A t \in Threads, h \in Handles : t # h /\ t # Nobody /\ h # Nobody
  /\ \A o \in Threads \cup Handles \cup {Nobody} : o \in Owners \cup {Nobody}
BY OwnerAssumption DEF Owners, Nobody

\* The files as functions of their numbers.
LEMMA FilesFacts ==
  ASSUME FilesOK
  PROVE  /\ Size \in Nat /\ LockOf \in [1 .. Size -> Owners \cup {Nobody}]
         /\ Ready \in [1 .. Size -> BOOLEAN]
         /\ \A f \in 1 .. Size : LockOf[f] = files[f].lock /\ Ready[f] = files[f].initialized
<1>1. Len(files) \in Nat /\ \A f \in 1 .. Len(files) : files[f] \in FileRecords
  BY LenProperties, ElementOfSeq DEF FilesOK
<1> QED
  BY <1>1 DEF Size, LockOf, Ready, FileRecords

LEMMA NextFilesFacts ==
  ASSUME FilesOK'
  PROVE  /\ Size' \in Nat /\ LockOf' \in [1 .. Size' -> Owners \cup {Nobody}]
         /\ Ready' \in [1 .. Size' -> BOOLEAN]
         /\ \A f \in 1 .. Size' :
              LockOf'[f] = files'[f].lock /\ Ready'[f] = files'[f].initialized
<1>1. Len(files') \in Nat /\ \A f \in 1 .. Len(files') : files'[f] \in FileRecords
  BY LenProperties, ElementOfSeq DEF FilesOK
<1> QED
  BY <1>1 DEF Size, LockOf, Ready, FileRecords

\* A file that is looked up is there, and a new one is nobody's.
LEMMA GetCachedFileFacts ==
  ASSUME NEW t \in Threads, NEW by \in {"info", "full"}, Types, GetCachedFile(t, by)
  PROVE  /\ FilesOK' /\ Size' \in {Size, Size + 1}
         /\ Size' <= MaxFiles /\ cached_files' \in 1 .. Size'
         /\ \A f \in 1 .. Size : LockOf'[f] = LockOf[f] /\ Ready'[f] = Ready[f]
         /\ \A f \in 1 .. Size' : f > Size => LockOf'[f] = Nobody /\ ~Ready'[f]
         /\ file_p' = [file_p EXCEPT ![t] = cached_files']
         /\ caller' = [caller EXCEPT ![t] = by] /\ pc' = [pc EXCEPT ![t] = "handle"]
<1>1. /\ file_p' = [file_p EXCEPT ![t] = cached_files']
      /\ caller' = [caller EXCEPT ![t] = by] /\ pc' = [pc EXCEPT ![t] = "handle"]
  BY DEF GetCachedFile, Goto
<1>2. CASE cached_files # 0
  BY <1>1, <1>2, FilesFacts DEF GetCachedFile, Types, FilesOK, Size, LockOf, Ready
<1>3. CASE cached_files = 0
  <2>1. NewFile \in FileRecords /\ NewFile.lock = Nobody /\ ~NewFile.initialized
    BY DEF NewFile, FileRecords
  <2>2. files' = Append(files, NewFile) /\ cached_files' = Len(files) + 1
    BY <1>3 DEF GetCachedFile
  <2>3. /\ FilesOK' /\ Len(files') = Len(files) + 1 /\ Len(files) \in Nat
        /\ \A f \in 1 .. Len(files) : files'[f] = files[f]
        /\ files'[Len(files) + 1] = NewFile
    BY <2>1, <2>2, AppendProperties, LenProperties DEF FilesOK, Types
  <2>4. Size' = Size + 1 /\ \A f \in 1 .. Size' : f > Size => f = Size + 1
    BY <2>3 DEF Size
  <2>5. Size < MaxFiles /\ MaxFiles \in Nat
    BY <1>3, SituationFacts DEF Types
  <2>6. Size' <= MaxFiles /\ cached_files' \in 1 .. Size' /\ Size \in Nat
    BY <2>2, <2>3, <2>4, <2>5 DEF Size
  <2>7. \A f \in 1 .. Size : LockOf'[f] = LockOf[f] /\ Ready'[f] = Ready[f]
    <3>1. FilesOK /\ Size' = Size + 1 /\ Len(files) = Size
      BY <2>4 DEF Types, Size
    <3>2. \A f \in 1 .. Size : LockOf[f] = files[f].lock /\ Ready[f] = files[f].initialized
      BY <3>1, FilesFacts
    <3>3. \A f \in 1 .. Size + 1 :
            LockOf'[f] = files'[f].lock /\ Ready'[f] = files'[f].initialized
      BY <2>3, <3>1, NextFilesFacts
    <3> QED
      BY <2>3, <2>6, <3>1, <3>2, <3>3
  <2>8. LockOf'[Size + 1] = Nobody /\ ~Ready'[Size + 1]
    BY <2>1, <2>3, <2>4, <2>6, NextFilesFacts DEF Size
  <2> QED
    BY <1>1, <2>3, <2>4, <2>6, <2>7, <2>8
<1> QED
  BY <1>2, <1>3

\* The files after a CachedFileHandle is destroyed, or moved to its handle.
LEMMA PassedStep ==
  ASSUME FilesOK, NEW o, NEW to \in Owners \cup {Nobody}, files' = Passed(o, to, files)
  PROVE  /\ FilesOK' /\ Size' = Size /\ Ready' = Ready
         /\ LockOf' = [f \in 1 .. Size |-> IF LockOf[f] = o THEN to ELSE LockOf[f]]
BY PassedFacts DEF FilesOK, Size, Ready, LockOf

LEMMA PassedTwiceStep ==
  ASSUME FilesOK, NEW o, NEW to \in Owners \cup {Nobody},
         NEW p, NEW top \in Owners \cup {Nobody},
         files' = Passed(p, top, Passed(o, to, files))
  PROVE  /\ FilesOK' /\ Size' = Size /\ Ready' = Ready
         /\ LockOf' = [f \in 1 .. Size |->
              LET lock == IF LockOf[f] = o THEN to ELSE LockOf[f]
              IN IF lock = p THEN top ELSE lock]
<1> DEFINE once == Passed(o, to, files)
<1>1. /\ once \in Seq(FileRecords) /\ Len(once) = Len(files)
      /\ \A f \in 1 .. Len(files) :
           /\ once[f].initialized = files[f].initialized
           /\ once[f].lock = IF files[f].lock = o THEN to ELSE files[f].lock
  BY PassedFacts DEF FilesOK
<1>2. files' = Passed(p, top, once)
  OBVIOUS
<1> HIDE DEF once
<1>3. /\ files' \in Seq(FileRecords) /\ Len(files') = Len(once)
      /\ \A f \in 1 .. Len(once) :
           /\ files'[f].initialized = once[f].initialized
           /\ files'[f].lock = IF once[f].lock = p THEN top ELSE once[f].lock
  BY <1>1, <1>2, PassedFacts
<1> QED
  BY <1>1, <1>3 DEF FilesOK, Size, Ready, LockOf

\* The file after its lock is taken.
LEMMA LockedStep ==
  ASSUME FilesOK, NEW o \in Owners, NEW f \in 1 .. Size,
         files' = [files EXCEPT ![f].lock = o]
  PROVE  /\ FilesOK' /\ Size' = Size /\ Ready' = Ready
         /\ LockOf' = [LockOf EXCEPT ![f] = o]
<1> DEFINE locked == [files[f] EXCEPT !.lock = o]
<1>1. files[f] \in FileRecords
  BY ElementOfSeq DEF FilesOK, Size
<1>2. locked \in FileRecords /\ locked.lock = o /\ locked.initialized = files[f].initialized
  BY <1>1 DEF FileRecords
<1>3. files' = [files EXCEPT ![f] = locked]
  OBVIOUS
<1> HIDE DEF locked
<1>4. /\ files' \in Seq(FileRecords) /\ Len(files') = Len(files)
      /\ \A g \in 1 .. Len(files) : files'[g] = IF g = f THEN locked ELSE files[g]
  BY <1>2, <1>3, ExceptSeq DEF FilesOK, Size
<1>5. FilesOK' /\ Size' = Size
  BY <1>4 DEF FilesOK, Size
<1>6. \A g \in 1 .. Size : Ready'[g] = Ready[g] /\ LockOf'[g] = IF g = f THEN o ELSE LockOf[g]
  BY <1>2, <1>4, <1>5, FilesFacts, NextFilesFacts DEF Size
<1> QED
  BY <1>5, <1>6, FilesFacts, NextFilesFacts

\* SetInitialized, of a file that a handle downloads.
LEMMA PublishedFacts ==
  ASSUME FilesOK, NEW h \in Handles, NEW f \in 1 .. Size, LockOf[f] = h, ~Ready[f]
  PROVE  /\ Legal(h, f)
         /\ Published(h, f) \in Seq(FileRecords) /\ Len(Published(h, f)) = Len(files)
         /\ Published(h, f)[f].initialized /\ Published(h, f)[f].lock = Nobody
         /\ \A g \in 1 .. Len(files) : g # f => Published(h, f)[g] = files[g]
<1> DEFINE done == [lock |-> Nobody, initialized |-> TRUE]
<1>1. done \in FileRecords /\ done.initialized /\ done.lock = Nobody
  BY DEF FileRecords
<1>2. Legal(h, f) /\ Published(h, f) = [files EXCEPT ![f] = done]
  BY FilesFacts DEF Published, Legal
<1> HIDE DEF done
<1> QED
  BY <1>1, <1>2, ExceptSeq DEF FilesOK, Size

LEMMA PublishedStep ==
  ASSUME FilesOK, NEW h \in Handles, NEW f \in 1 .. Size, LockOf[f] = h, ~Ready[f],
         files' = Published(h, f)
  PROVE  /\ FilesOK' /\ Size' = Size /\ Ready' = [Ready EXCEPT ![f] = TRUE]
         /\ LockOf' = [LockOf EXCEPT ![f] = Nobody] /\ Legal(h, f)
<1>1. Ready[f] \in BOOLEAN /\ Ready'[f] \in BOOLEAN
  BY PublishedFacts, FilesFacts, NextFilesFacts DEF FilesOK, Size
<1> QED
  BY ZenonT(60), <1>1, PublishedFacts DEF FilesOK, Size, Ready, LockOf

\* A file that is dropped is given up by thread and handle alike.
LEMMA DropFileFacts ==
  ASSUME FilesOK, situation \in DOMAIN Situations, NEW t \in Threads, NEW all,
         DropFile(t, all)
  PROVE  /\ files' = Passed(t, Nobody, Passed(HandleOf[t], Nobody, all))
         /\ Size < MaxFiles /\ cached_files' = 0
         /\ cached_file_handle' = [cached_file_handle EXCEPT ![HandleOf[t]] = 0]
         /\ status[HandleOf[t]] # "opening"
         /\ status' = [status EXCEPT ![HandleOf[t]] = "broken"]
         /\ pc' = [pc EXCEPT ![t] = "idle"]
BY DEF DropFile, Become, Goto, Size

LEMMA PublishedDroppedStep ==
  ASSUME FilesOK, NEW h \in Handles, NEW f \in 1 .. Size, LockOf[f] = h, ~Ready[f],
         NEW t \in Threads,
         files' = Passed(t, Nobody, Passed(h, Nobody, Published(h, f)))
  PROVE  /\ FilesOK' /\ Size' = Size /\ Ready' = [Ready EXCEPT ![f] = TRUE]
         /\ LockOf' = [g \in 1 .. Size |-> IF LockOf[g] \in {t, h} THEN Nobody ELSE LockOf[g]]
<1> DEFINE none == Published(h, f)
           once == Passed(h, Nobody, none)
<1>1. /\ none \in Seq(FileRecords) /\ Len(none) = Len(files)
      /\ none[f].initialized /\ none[f].lock = Nobody
      /\ \A g \in 1 .. Len(files) : g # f => none[g] = files[g]
  BY PublishedFacts
<1> HIDE DEF none
<1>2. /\ once \in Seq(FileRecords) /\ Len(once) = Len(files)
      /\ \A g \in 1 .. Len(files) :
           /\ once[g].initialized = none[g].initialized
           /\ once[g].lock = IF none[g].lock = h THEN Nobody ELSE none[g].lock
  BY <1>1, PassedFacts
<1>3. files' = Passed(t, Nobody, once)
  BY DEF none
<1> HIDE DEF once
<1>4. /\ files' \in Seq(FileRecords) /\ Len(files') = Len(files)
      /\ \A g \in 1 .. Len(files) :
           /\ files'[g].initialized = once[g].initialized
           /\ files'[g].lock = IF once[g].lock = t THEN Nobody ELSE once[g].lock
  BY <1>2, <1>3, PassedFacts
<1>5. FilesOK' /\ Size' = Size
  BY <1>4 DEF FilesOK, Size
<1>6. ASSUME NEW g \in 1 .. Size
      PROVE  /\ Ready'[g] = [Ready EXCEPT ![f] = TRUE][g]
             /\ LockOf'[g] = IF LockOf[g] \in {t, h} THEN Nobody ELSE LockOf[g]
  <2>1. Ready'[g] = once[g].initialized /\ LockOf'[g] = IF once[g].lock = t THEN Nobody ELSE once[g].lock
    BY <1>4, <1>5, NextFilesFacts DEF Size
  <2>2. CASE g = f
    BY <1>1, <1>2, <2>1, <2>2, FilesFacts, OwnersDiffer DEF Size
  <2>3. CASE g # f
    BY <1>1, <1>2, <2>1, <2>3, FilesFacts, OwnersDiffer DEF Size
  <2> QED
    BY <2>2, <2>3
<1> QED
  BY ZenonT(60), <1>5, <1>6, FilesFacts, NextFilesFacts

-----------------------------------------------------------------------------
(***************************************************************************)
(* The steps: what each of them changes (1), and every part of the         *)
(* invariant after it.                                                     *)
(***************************************************************************)
\* What a step of t starts from, ...
Known(t) ==
  /\ FilesOK /\ Size \in Nat /\ LockOf \in [1 .. Size -> Owners \cup {Nobody}]
  /\ Ready \in [1 .. Size -> BOOLEAN]
  /\ \A f \in 1 .. Size : LockOf[f] = files[f].lock /\ Ready[f] = files[f].initialized
  /\ HandleOf[t] \in Handles /\ (pc[t] # "idle" => file_p[t] \in 1 .. Size)
\* ... and what no step changes.
Still ==
  /\ HandleOf \in [Threads -> Handles] /\ HandleOf' = HandleOf /\ OwnHandles'
  /\ MaxFiles \in Nat \ {0} /\ MaxFiles' = MaxFiles /\ Redirects' = Redirects
  /\ UseAfterFailure' = UseAfterFailure

LEMMA ThreadFacts ==
  ASSUME FileInv, NEW t \in Threads
  PROVE  Known(t)
<1>1. FilesOK /\ HandleOf[t] \in Handles /\ file_p[t] \in 0 .. Size
  BY SituationFacts DEF FileInv, Types
<1>2. pc[t] # "idle" => file_p[t] # 0
  BY DEF FileInv, InCall
<1>3. Size \in Nat
  BY <1>1, FilesFacts
<1> QED
  BY <1>1, <1>2, <1>3, FilesFacts DEF Known

\* Opening: the handle has no file yet.
LEMMA OpenStep ==
  ASSUME FileInv, NEW t \in Threads, Open(t), UNCHANGED situation
  PROVE  FileInv'
<1>0. Known(t)
  BY ThreadFacts
<1>s. Still
  BY SituationFacts DEF FileInv, Types, Still
<1> USE DEF FileInv, Types, Known, Still
<1>1. /\ FilesOK' /\ Size' \in {Size, Size + 1}
      /\ Size' <= MaxFiles /\ cached_files' \in 1 .. Size'
      /\ \A f \in 1 .. Size : LockOf'[f] = LockOf[f] /\ Ready'[f] = Ready[f]
      /\ \A f \in 1 .. Size' : f > Size => LockOf'[f] = Nobody /\ ~Ready'[f]
      /\ file_p' = [file_p EXCEPT ![t] = cached_files']
      /\ caller' \in [Threads -> {"idle", "info", "full"}] /\ caller'[t] # "idle"
      /\ \A u \in Threads : u # t => caller'[u] = caller[u]
      /\ pc' = [pc EXCEPT ![t] = "handle"]
      /\ status[HandleOf[t]] = "closed" /\ pc[t] = "idle"
      /\ status' = [status EXCEPT ![HandleOf[t]] = "opening"]
      /\ second' \in [Handles -> BOOLEAN]
      /\ UNCHANGED <<cached_file_handle, internal_error>>
  BY ZenonT(60), <1>0, GetCachedFileFacts DEF Open, Become
<1>2. Types'
  BY <1>0, <1>1, <1>s, OwnersDiffer DEF Lines
<1>3. InCall'
  BY <1>0, <1>1, <1>s, OwnersDiffer DEF InCall, OwnHandles
<1>4. LockOfThread'
  BY <1>0, <1>1, <1>s, OwnersDiffer DEF LockOfThread, InCall, OwnHandles,
      LockOfHandle, Downloading
<1>5. LockOfHandle'
  BY <1>0, <1>1, <1>s, OwnersDiffer DEF LockOfHandle, InCall, OwnHandles
<1>6. PastGetHandle'
  BY <1>0, <1>1, <1>s, OwnersDiffer DEF PastGetHandle, InCall, OwnHandles,
      LockOfThread
<1>7. Downloading'
  BY <1>0, <1>1, <1>s, OwnersDiffer DEF Downloading, InCall, OwnHandles
<1>8. FileWhenOpen'
  <2>1. SUFFICES ASSUME ~Redirects, NEW u \in Threads
                 PROVE  LET h == HandleOf[u] IN
                   /\ status'[h] = "closed" => cached_file_handle[h] = 0
                   /\ pc'[u] \notin {"idle", "download"} => cached_file_handle[h] = 0
                   /\ /\ pc'[u] = "idle" /\ status'[h] = "open"
                      /\ cached_file_handle[h] # 0
                      => Ready'[cached_file_handle[h]]
    BY <1>1, <1>s DEF FileWhenOpen
  <2>2. /\ HandleOf[u] \in Handles
        /\ cached_file_handle[HandleOf[u]] # 0 =>
             Ready'[cached_file_handle[HandleOf[u]]] = Ready[cached_file_handle[HandleOf[u]]]
    <3>1. HandleOf[u] \in Handles /\ cached_file_handle[HandleOf[u]] \in 0 .. Size
      BY <1>s
    <3>2. \A f \in 1 .. Size : Ready'[f] = Ready[f]
      BY <1>1
    <3> QED
      BY <1>0, <3>1, <3>2
  <2>3. LET h == HandleOf[u] IN
          /\ status[h] = "closed" => cached_file_handle[h] = 0
          /\ pc[u] \notin {"idle", "download"} => cached_file_handle[h] = 0
          /\ pc[u] = "idle" /\ status[h] = "open" /\ cached_file_handle[h] # 0 =>
               Ready[cached_file_handle[h]]
    BY <2>1 DEF FileWhenOpen
  <2> QED
    BY <1>0, <1>1, <1>s, <2>1, <2>2, <2>3 DEF OwnHandles
<1>9. NobodyFindsItUnready'
  BY <1>0, <1>1, <1>s, OwnersDiffer DEF NobodyFindsItUnready, NoInternalError
<1> QED
  BY <1>s, <1>2, <1>3, <1>4, <1>5, <1>6, <1>7, <1>8, <1>9

\* Who does not wait for the lock of a file has found it initialized.
LEMMA GetHandleStep ==
  ASSUME FileInv, NEW t \in Threads, GetHandle(t), UNCHANGED situation
  PROVE  FileInv'
<1>0. Known(t)
  BY ThreadFacts
<1>s. Still
  BY SituationFacts DEF FileInv, Types, Still
<1> USE DEF FileInv, Types, Known, Still
<1>1. /\ FilesOK' /\ Size' = Size /\ LockOf' = LockOf /\ Ready' = Ready
      /\ pc[t] = "handle" /\ pc' \in [Threads -> Lines]
      /\ \A u \in Threads : u # t => pc'[u] = pc[u]
      /\ ~Ready[file_p[t]] => pc'[t] = "lock"
      /\ Ready[file_p[t]] => pc'[t] = caller[t]
      /\ pc'[t] # "download"
      /\ UNCHANGED <<files, cached_files, status, cached_file_handle, second, caller,
                     file_p, internal_error>>
  BY <1>0 DEF FilesOK, Size, LockOf, Ready, GetHandle, NeedsLock, Goto, Lines
<1>2. Types'
  BY <1>0, <1>1, <1>s, OwnersDiffer DEF Lines
<1>3. InCall'
  BY <1>0, <1>1, <1>s, OwnersDiffer DEF InCall, OwnHandles
<1>4. LockOfThread'
  <2>1. SUFFICES ASSUME NEW f \in 1 .. Size, NEW u \in Threads, LockOf[f] = u
                 PROVE  pc'[u] \in {"info", "full"} /\ file_p[u] = f
    BY <1>1 DEF LockOfThread
  <2>2. pc[u] \in {"info", "full"} /\ file_p[u] = f
    BY <2>1 DEF LockOfThread
  <2> QED
    BY <1>1, <2>2
<1>5. LockOfHandle'
  BY <1>0, <1>1, <1>s, OwnersDiffer DEF LockOfHandle, InCall, OwnHandles
<1>6. PastGetHandle'
  BY <1>0, <1>1, <1>s, OwnersDiffer DEF PastGetHandle, InCall, OwnHandles
<1>7. Downloading'
  BY <1>0, <1>1, <1>s, OwnersDiffer DEF Downloading, InCall, OwnHandles,
      LockOfHandle
<1>8. FileWhenOpen'
  BY <1>0, <1>1, <1>s, OwnersDiffer DEF FileWhenOpen, InCall, OwnHandles
<1>9. NobodyFindsItUnready'
  BY <1>0, <1>1, <1>s, OwnersDiffer DEF NobodyFindsItUnready, NoInternalError
<1> QED
  BY <1>s, <1>2, <1>3, <1>4, <1>5, <1>6, <1>7, <1>8, <1>9

\* Who has waited has the lock.
LEMMA TakeLockStep ==
  ASSUME FileInv, NEW t \in Threads, TakeLock(t), UNCHANGED situation
  PROVE  FileInv'
<1>0. Known(t)
  BY ThreadFacts
<1>s. Still
  BY SituationFacts DEF FileInv, Types, Still
<1> USE DEF FileInv, Types, Known, Still
<1>1. /\ FilesOK' /\ Size' = Size
      /\ Ready' = Ready
      /\ LockOf' = [LockOf EXCEPT ![file_p[t]] = t]
      /\ pc[t] = "lock" /\ LockOf[file_p[t]] = Nobody
      /\ pc' = [pc EXCEPT ![t] = caller[t]] /\ caller[t] \in {"info", "full"}
     
      /\ UNCHANGED <<cached_files, status, cached_file_handle, second, caller, file_p,
                     internal_error>>
  BY <1>0, LockedStep DEF TakeLock, Goto, InCall, Owners
<1>2. Types'
  BY <1>0, <1>1, <1>s, OwnersDiffer DEF Lines
<1>3. InCall'
  BY <1>0, <1>1, <1>s, OwnersDiffer DEF InCall, OwnHandles
<1>4. LockOfThread'
  BY <1>0, <1>1, <1>s, OwnersDiffer DEF LockOfThread, InCall, OwnHandles
<1>5. LockOfHandle'
  BY <1>0, <1>1, <1>s, OwnersDiffer DEF LockOfHandle, InCall, OwnHandles
<1>6. PastGetHandle'
  BY <1>0, <1>1, <1>s, OwnersDiffer DEF PastGetHandle, InCall, OwnHandles
<1>7. Downloading'
  <2>1. SUFFICES ASSUME NEW u \in Threads, pc'[u] = "download"
                 PROVE  /\ cached_file_handle'[HandleOf[u]] = file_p[u]
                        /\ LockOf'[file_p[u]] = HandleOf[u] /\ ~Ready[file_p[u]]
    BY <1>1, <1>s DEF Downloading
  <2>3. CASE u # t
    <3>1. pc[u] = "download" /\ HandleOf[u] \in Handles
      BY <1>1, <1>s, <2>1, <2>3
    <3>5. HandleOf[u] # HandleOf[t]
      BY <2>3 DEF OwnHandles
    <3>6. file_p[u] \in 0 .. Size /\ file_p[u] # 0
      BY <3>1 DEF InCall
    <3>2. /\ cached_file_handle[HandleOf[u]] = file_p[u]
          /\ LockOf[file_p[u]] = HandleOf[u] /\ ~Ready[file_p[u]]
      BY <3>1 DEF Downloading
    <3> QED
      BY <1>0, <1>1, <1>s, <3>1, <3>2, <3>5, <3>6, OwnersDiffer
  <2> QED
    BY <1>1, <2>1, <2>3
<1>8. FileWhenOpen'
  BY <1>0, <1>1, <1>s, OwnersDiffer DEF FileWhenOpen, InCall, OwnHandles
<1>9. NobodyFindsItUnready'
  BY <1>0, <1>1, <1>s, OwnersDiffer DEF NobodyFindsItUnready, NoInternalError
<1> QED
  BY <1>s, <1>2, <1>3, <1>4, <1>5, <1>6, <1>7, <1>8, <1>9

\* LoadFileInfo finds the file, ...
LEMMA InfoFoundStep ==
  ASSUME FileInv, NEW t \in Threads, pc[t] = "info", Initialized(t), Assign(t),
         Done(t), UNCHANGED <<cached_files, second, caller, file_p, internal_error>>,
         UNCHANGED situation
  PROVE  FileInv'
<1>0. Known(t)
  BY ThreadFacts
<1>s. Still
  BY SituationFacts DEF FileInv, Types, Still
<1> USE DEF FileInv, Types, Known, Still
<1>1. /\ FilesOK' /\ Size' = Size
      /\ Ready' = Ready
      /\ LockOf' = [f \in 1 .. Size |->
                       IF LockOf[f] = HandleOf[t] THEN Nobody
                       ELSE IF LockOf[f] = t THEN HandleOf[t] ELSE LockOf[f]]
      /\ cached_file_handle' = [cached_file_handle EXCEPT ![HandleOf[t]] = file_p[t]]
      /\ Ready[file_p[t]]
      /\ pc' = [pc EXCEPT ![t] = "idle"]
      /\ status' = [status EXCEPT ![HandleOf[t]] = IF @ = "opening" THEN "open" ELSE @]
  BY <1>0, PassedTwiceStep, OwnersDiffer DEF Assign, Released, Done, Initialized,
      InCall
<1>2. Types'
  BY <1>0, <1>1, <1>s, OwnersDiffer DEF Lines
<1>3. InCall'
  BY <1>0, <1>1, <1>s, OwnersDiffer DEF InCall, OwnHandles
<1>4. LockOfThread'
  BY <1>0, <1>1, <1>s, OwnersDiffer DEF LockOfThread, InCall, OwnHandles
<1>5. LockOfHandle'
  BY <1>0, <1>1, <1>s, OwnersDiffer DEF LockOfHandle, InCall, OwnHandles,
      LockOfThread
<1>6. PastGetHandle'
  BY <1>0, <1>1, <1>s, OwnersDiffer DEF PastGetHandle, InCall, OwnHandles
<1>7. Downloading'
  BY <1>0, <1>1, <1>s, OwnersDiffer DEF Downloading, InCall, OwnHandles,
      LockOfThread
<1>8. FileWhenOpen'
  BY <1>0, <1>1, <1>s, OwnersDiffer DEF FileWhenOpen, InCall, OwnHandles
<1>9. NobodyFindsItUnready'
  BY <1>0, <1>1, <1>s, OwnersDiffer DEF NobodyFindsItUnready, NoInternalError
<1> QED
  BY <1>s, <1>2, <1>3, <1>4, <1>5, <1>6, <1>7, <1>8, <1>9

\* ... or gives the lock back.
LEMMA InfoMissingStep ==
  ASSUME FileInv, NEW t \in Threads, pc[t] = "info", ~Initialized(t),
         files' = Released(t), Goto(t, "head"),
         UNCHANGED <<status, cached_file_handle, cached_files, second, caller,
                     file_p, internal_error>>, UNCHANGED situation
  PROVE  FileInv'
<1>0. Known(t)
  BY ThreadFacts
<1>s. Still
  BY SituationFacts DEF FileInv, Types, Still
<1> USE DEF FileInv, Types, Known, Still
<1>q. /\ FilesOK' /\ Size' = Size /\ Ready' = Ready
      /\ LockOf' = [f \in 1 .. Size |-> IF LockOf[f] = t THEN Nobody ELSE LockOf[f]]
  <2>1. files' = Passed(t, Nobody, files) /\ Nobody \in Owners \cup {Nobody}
    BY DEF Released
  <2> HIDE DEF Types, FileInv
  <2> QED
    BY <1>0, <2>1, PassedStep
<1>1. /\ FilesOK' /\ Size' = Size
      /\ Ready' = Ready
      /\ LockOf' = [f \in 1 .. Size |->
                       IF LockOf[f] = t THEN Nobody ELSE LockOf[f]]
      /\ pc' = [pc EXCEPT ![t] = "head"]
  BY <1>0, <1>q DEF Goto
<1>2. Types'
  BY <1>0, <1>1, <1>s, OwnersDiffer DEF Lines
<1>3. InCall'
  BY <1>0, <1>1, <1>s, OwnersDiffer DEF InCall, OwnHandles
<1>4. LockOfThread'
  BY <1>0, <1>1, <1>s, OwnersDiffer DEF LockOfThread, InCall, OwnHandles
<1>5. LockOfHandle'
  BY <1>0, <1>1, <1>s, OwnersDiffer DEF LockOfHandle, InCall, OwnHandles
<1>6. PastGetHandle'
  BY <1>0, <1>1, <1>s, OwnersDiffer DEF PastGetHandle, InCall, OwnHandles
<1>7. Downloading'
  <2>1. SUFFICES ASSUME NEW u \in Threads, pc'[u] = "download"
                 PROVE  /\ cached_file_handle'[HandleOf[u]] = file_p[u]
                        /\ LockOf'[file_p[u]] = HandleOf[u] /\ ~Ready[file_p[u]]
    BY <1>1, <1>s DEF Downloading
  <2>3. CASE u # t
    <3>1. pc[u] = "download" /\ HandleOf[u] \in Handles
      BY <1>1, <1>s, <2>1, <2>3
    <3>5. HandleOf[u] # HandleOf[t]
      BY <2>3 DEF OwnHandles
    <3>6. file_p[u] \in 0 .. Size /\ file_p[u] # 0
      BY <3>1 DEF InCall
    <3>2. /\ cached_file_handle[HandleOf[u]] = file_p[u]
          /\ LockOf[file_p[u]] = HandleOf[u] /\ ~Ready[file_p[u]]
      BY <3>1 DEF Downloading
    <3> QED
      BY <1>0, <1>1, <1>s, <3>1, <3>2, <3>5, <3>6, OwnersDiffer
  <2> QED
    BY <1>1, <2>1, <2>3
<1>8. FileWhenOpen'
  BY <1>0, <1>1, <1>s, OwnersDiffer DEF FileWhenOpen, InCall, OwnHandles
<1>9. NobodyFindsItUnready'
  BY <1>0, <1>1, <1>s, OwnersDiffer DEF NobodyFindsItUnready, NoInternalError
<1> QED
  BY <1>s, <1>2, <1>3, <1>4, <1>5, <1>6, <1>7, <1>8, <1>9

\* A HEAD request tells the length: the handle is open, ...
LEMMA HeadOpensStep ==
  ASSUME FileInv, NEW t \in Threads, pc[t] = "head", Become(HandleOf[t], "open"),
         Goto(t, "idle"),
         UNCHANGED <<files, cached_files, file_p, caller, cached_file_handle,
                     second, internal_error>>, UNCHANGED situation
  PROVE  FileInv'
<1>0. Known(t)
  BY ThreadFacts
<1>s. Still
  BY SituationFacts DEF FileInv, Types, Still
<1> USE DEF FileInv, Types, Known, Still
<1>1. /\ FilesOK' /\ Size' = Size /\ LockOf' = LockOf /\ Ready' = Ready
      /\ pc' = [pc EXCEPT ![t] = "idle"]
      /\ status' = [status EXCEPT ![HandleOf[t]] = "open"]
  BY <1>0 DEF FilesOK, Size, LockOf, Ready, Goto, Become
<1>2. Types'
  BY <1>0, <1>1, <1>s, OwnersDiffer DEF Lines
<1>3. InCall'
  BY <1>0, <1>1, <1>s, OwnersDiffer DEF InCall, OwnHandles
<1>4. LockOfThread'
  BY <1>0, <1>1, <1>s, OwnersDiffer DEF LockOfThread, InCall, OwnHandles
<1>5. LockOfHandle'
  BY <1>0, <1>1, <1>s, OwnersDiffer DEF LockOfHandle, InCall, OwnHandles
<1>6. PastGetHandle'
  BY <1>0, <1>1, <1>s, OwnersDiffer DEF PastGetHandle, InCall, OwnHandles
<1>7. Downloading'
  BY <1>0, <1>1, <1>s, OwnersDiffer DEF Downloading, InCall, OwnHandles
<1>8. FileWhenOpen'
  BY <1>0, <1>1, <1>s, OwnersDiffer DEF FileWhenOpen, InCall, OwnHandles
<1>9. NobodyFindsItUnready'
  BY <1>0, <1>1, <1>s, OwnersDiffer DEF NobodyFindsItUnready, NoInternalError
<1> QED
  BY <1>s, <1>2, <1>3, <1>4, <1>5, <1>6, <1>7, <1>8, <1>9

\* ... or does not: the file is downloaded.
LEMMA HeadFallsBackStep ==
  ASSUME FileInv, NEW t \in Threads, pc[t] = "head", GetCachedFile(t, "full"),
         UNCHANGED <<status, cached_file_handle, second, internal_error>>,
         UNCHANGED situation
  PROVE  FileInv'
<1>0. Known(t)
  BY ThreadFacts
<1>s. Still
  BY SituationFacts DEF FileInv, Types, Still
<1> USE DEF FileInv, Types, Known, Still
<1>1. /\ FilesOK' /\ Size' \in {Size, Size + 1}
      /\ Size' <= MaxFiles /\ cached_files' \in 1 .. Size'
      /\ \A f \in 1 .. Size : LockOf'[f] = LockOf[f] /\ Ready'[f] = Ready[f]
      /\ \A f \in 1 .. Size' : f > Size => LockOf'[f] = Nobody /\ ~Ready'[f]
      /\ file_p' = [file_p EXCEPT ![t] = cached_files']
      /\ caller' \in [Threads -> {"idle", "info", "full"}] /\ caller'[t] # "idle"
      /\ \A u \in Threads : u # t => caller'[u] = caller[u]
      /\ pc' = [pc EXCEPT ![t] = "handle"]
      /\ pc[t] = "head"
  BY ZenonT(60), <1>0, GetCachedFileFacts
<1>2. Types'
  BY <1>0, <1>1, <1>s, OwnersDiffer DEF Lines
<1>3. InCall'
  BY <1>0, <1>1, <1>s, OwnersDiffer DEF InCall, OwnHandles
<1>4. LockOfThread'
  BY <1>0, <1>1, <1>s, OwnersDiffer DEF LockOfThread, InCall, OwnHandles,
      LockOfHandle, Downloading
<1>5. LockOfHandle'
  BY <1>0, <1>1, <1>s, OwnersDiffer DEF LockOfHandle, InCall, OwnHandles
<1>6. PastGetHandle'
  BY <1>0, <1>1, <1>s, OwnersDiffer DEF PastGetHandle, InCall, OwnHandles
<1>7. Downloading'
  BY <1>0, <1>1, <1>s, OwnersDiffer DEF Downloading, InCall, OwnHandles
<1>8. FileWhenOpen'
  <2>1. SUFFICES ASSUME ~Redirects, NEW u \in Threads
                 PROVE  LET h == HandleOf[u] IN
                   /\ status'[h] = "closed" => cached_file_handle[h] = 0
                   /\ pc'[u] \notin {"idle", "download"} => cached_file_handle[h] = 0
                   /\ /\ pc'[u] = "idle" /\ status'[h] = "open"
                      /\ cached_file_handle[h] # 0
                      => Ready'[cached_file_handle[h]]
    BY <1>1, <1>s DEF FileWhenOpen
  <2>2. /\ HandleOf[u] \in Handles
        /\ cached_file_handle[HandleOf[u]] # 0 =>
             Ready'[cached_file_handle[HandleOf[u]]] = Ready[cached_file_handle[HandleOf[u]]]
    <3>1. HandleOf[u] \in Handles /\ cached_file_handle[HandleOf[u]] \in 0 .. Size
      BY <1>s
    <3>2. \A f \in 1 .. Size : Ready'[f] = Ready[f]
      BY <1>1
    <3> QED
      BY <1>0, <3>1, <3>2
  <2>3. LET h == HandleOf[u] IN
          /\ status[h] = "closed" => cached_file_handle[h] = 0
          /\ pc[u] \notin {"idle", "download"} => cached_file_handle[h] = 0
          /\ pc[u] = "idle" /\ status[h] = "open" /\ cached_file_handle[h] # 0 =>
               Ready[cached_file_handle[h]]
    BY <2>1 DEF FileWhenOpen
  <2> QED
    BY <1>0, <1>1, <1>s, <2>1, <2>2, <2>3 DEF OwnHandles
<1>9. NobodyFindsItUnready'
  BY <1>0, <1>1, <1>s, OwnersDiffer DEF NobodyFindsItUnready, NoInternalError
<1> QED
  BY <1>s, <1>2, <1>3, <1>4, <1>5, <1>6, <1>7, <1>8, <1>9

\* A handle is destroyed, after an open that failed or when it is closed.
LEMMA DestroyStep ==
  ASSUME FileInv, NEW t \in Threads, Destroy(HandleOf[t]),
         pc' = [pc EXCEPT ![t] = "idle"], pc[t] \in {"idle", "head", "download"},
         UNCHANGED <<cached_files, second, caller, file_p, internal_error>>,
         UNCHANGED situation
  PROVE  FileInv'
<1>0. Known(t)
  BY ThreadFacts
<1>s. Still
  BY SituationFacts DEF FileInv, Types, Still
<1> USE DEF FileInv, Types, Known, Still
<1>q. /\ FilesOK' /\ Size' = Size /\ Ready' = Ready
      /\ LockOf' = [f \in 1 .. Size |-> IF LockOf[f] = HandleOf[t] THEN Nobody ELSE LockOf[f]]
  <2>1. files' = Passed(HandleOf[t], Nobody, files) /\ Nobody \in Owners \cup {Nobody}
    BY DEF Destroy, Released
  <2> HIDE DEF Types, FileInv
  <2> QED
    BY <1>0, <2>1, PassedStep
<1>1. /\ FilesOK' /\ Size' = Size
      /\ Ready' = Ready
      /\ LockOf' = [f \in 1 .. Size |->
                       IF LockOf[f] = HandleOf[t] THEN Nobody ELSE LockOf[f]]
      /\ pc'[t] = "idle" /\ pc' \in [Threads -> Lines]
      /\ \A u \in Threads : u # t => pc'[u] = pc[u]
      /\ status' = [status EXCEPT ![HandleOf[t]] = "closed"]
      /\ cached_file_handle' = [cached_file_handle EXCEPT ![HandleOf[t]] = 0]
  BY <1>0, <1>q DEF Destroy, Become, Lines
<1>2. Types'
  BY <1>0, <1>1, <1>s, OwnersDiffer DEF Lines
<1>3. InCall'
  BY <1>0, <1>1, <1>s, OwnersDiffer DEF InCall, OwnHandles
<1>4. LockOfThread'
  BY <1>0, <1>1, <1>s, OwnersDiffer DEF LockOfThread, InCall, OwnHandles
<1>5. LockOfHandle'
  BY <1>0, <1>1, <1>s, OwnersDiffer DEF LockOfHandle, InCall, OwnHandles
<1>6. PastGetHandle'
  BY <1>0, <1>1, <1>s, OwnersDiffer DEF PastGetHandle, InCall, OwnHandles
<1>7. Downloading'
  BY <1>0, <1>1, <1>s, OwnersDiffer DEF Downloading, InCall, OwnHandles
<1>8. FileWhenOpen'
  BY <1>0, <1>1, <1>s, OwnersDiffer DEF FileWhenOpen, InCall, OwnHandles
<1>9. NobodyFindsItUnready'
  BY <1>0, <1>1, <1>s, OwnersDiffer DEF NobodyFindsItUnready, NoInternalError
<1> QED
  BY <1>s, <1>2, <1>3, <1>4, <1>5, <1>6, <1>7, <1>8, <1>9

\* FullDownload: the file is to be downloaded, ...
LEMMA FullMissingStep ==
  ASSUME FileInv, NEW t \in Threads, pc[t] = "full", ~Initialized(t), Assign(t),
         Goto(t, "download"),
         UNCHANGED <<status, cached_files, second, caller, file_p, internal_error>>,
         UNCHANGED situation
  PROVE  FileInv'
<1>0. Known(t)
  BY ThreadFacts
<1>s. Still
  BY SituationFacts DEF FileInv, Types, Still
<1> USE DEF FileInv, Types, Known, Still
<1>1. /\ FilesOK' /\ Size' = Size
      /\ Ready' = Ready
      /\ LockOf' = [f \in 1 .. Size |->
                       IF LockOf[f] = HandleOf[t] THEN Nobody
                       ELSE IF LockOf[f] = t THEN HandleOf[t] ELSE LockOf[f]]
      /\ cached_file_handle' = [cached_file_handle EXCEPT ![HandleOf[t]] = file_p[t]]
      /\ ~Ready[file_p[t]]
      /\ pc' = [pc EXCEPT ![t] = "download"]
  BY <1>0, PassedTwiceStep, OwnersDiffer DEF Assign, Released, Goto, Initialized,
      InCall
<1>2. Types'
  BY <1>0, <1>1, <1>s, OwnersDiffer DEF Lines
<1>3. InCall'
  BY <1>0, <1>1, <1>s, OwnersDiffer DEF InCall, OwnHandles
<1>4. LockOfThread'
  BY <1>0, <1>1, <1>s, OwnersDiffer DEF LockOfThread, InCall, OwnHandles
<1>5. LockOfHandle'
  BY <1>0, <1>1, <1>s, OwnersDiffer DEF LockOfHandle, InCall, OwnHandles,
      LockOfThread
<1>6. PastGetHandle'
  BY <1>0, <1>1, <1>s, OwnersDiffer DEF PastGetHandle, InCall, OwnHandles
<1>7. Downloading'
  <2>1. SUFFICES ASSUME NEW u \in Threads, pc'[u] = "download"
                 PROVE  /\ cached_file_handle'[HandleOf[u]] = file_p[u]
                        /\ LockOf'[file_p[u]] = HandleOf[u] /\ ~Ready[file_p[u]]
    BY ZenonT(60), <1>1, <1>s DEF Downloading
  <2>2. CASE u = t
    BY <1>0, <1>1, <1>s, <2>2, OwnersDiffer DEF PastGetHandle
  <2>3. CASE u # t
    <3>1. pc[u] = "download" /\ HandleOf[u] \in Handles
      BY <1>1, <1>s, <2>1, <2>3
    <3>5. HandleOf[u] # HandleOf[t]
      BY <2>3 DEF OwnHandles
    <3>6. file_p[u] \in 0 .. Size /\ file_p[u] # 0
      BY <3>1 DEF InCall
    <3>2. /\ cached_file_handle[HandleOf[u]] = file_p[u]
          /\ LockOf[file_p[u]] = HandleOf[u] /\ ~Ready[file_p[u]]
      BY <3>1 DEF Downloading
    <3> QED
      BY <1>0, <1>1, <1>s, <3>1, <3>2, <3>5, <3>6, OwnersDiffer
  <2> QED
    BY <2>2, <2>3
<1>8. FileWhenOpen'
  BY <1>0, <1>1, <1>s, OwnersDiffer DEF FileWhenOpen, InCall, OwnHandles
<1>9. NobodyFindsItUnready'
  BY <1>0, <1>1, <1>s, OwnersDiffer DEF NobodyFindsItUnready, NoInternalError
<1> QED
  BY <1>s, <1>2, <1>3, <1>4, <1>5, <1>6, <1>7, <1>8, <1>9

\* ... or is there, ...
LEMMA FullFoundStep ==
  ASSUME FileInv, NEW t \in Threads, pc[t] = "full", Initialized(t), Assign(t),
         Done(t), UNCHANGED <<cached_files, second, caller, file_p, internal_error>>,
         UNCHANGED situation
  PROVE  FileInv'
<1>0. Known(t)
  BY ThreadFacts
<1>s. Still
  BY SituationFacts DEF FileInv, Types, Still
<1> USE DEF FileInv, Types, Known, Still
<1>1. /\ FilesOK' /\ Size' = Size
      /\ Ready' = Ready
      /\ LockOf' = [f \in 1 .. Size |->
                       IF LockOf[f] = HandleOf[t] THEN Nobody
                       ELSE IF LockOf[f] = t THEN HandleOf[t] ELSE LockOf[f]]
      /\ cached_file_handle' = [cached_file_handle EXCEPT ![HandleOf[t]] = file_p[t]]
      /\ Ready[file_p[t]]
      /\ pc' = [pc EXCEPT ![t] = "idle"]
      /\ status' = [status EXCEPT ![HandleOf[t]] = IF @ = "opening" THEN "open" ELSE @]
  BY <1>0, PassedTwiceStep, OwnersDiffer DEF Assign, Released, Done, Initialized,
      InCall
<1>2. Types'
  BY <1>0, <1>1, <1>s, OwnersDiffer DEF Lines
<1>3. InCall'
  BY <1>0, <1>1, <1>s, OwnersDiffer DEF InCall, OwnHandles
<1>4. LockOfThread'
  BY <1>0, <1>1, <1>s, OwnersDiffer DEF LockOfThread, InCall, OwnHandles
<1>5. LockOfHandle'
  BY <1>0, <1>1, <1>s, OwnersDiffer DEF LockOfHandle, InCall, OwnHandles,
      LockOfThread
<1>6. PastGetHandle'
  BY <1>0, <1>1, <1>s, OwnersDiffer DEF PastGetHandle, InCall, OwnHandles
<1>7. Downloading'
  BY <1>0, <1>1, <1>s, OwnersDiffer DEF Downloading, InCall, OwnHandles,
      LockOfThread
<1>8. FileWhenOpen'
  BY <1>0, <1>1, <1>s, OwnersDiffer DEF FileWhenOpen, InCall, OwnHandles
<1>9. NobodyFindsItUnready'
  BY <1>0, <1>1, <1>s, OwnersDiffer DEF NobodyFindsItUnready, NoInternalError
<1> QED
  BY <1>s, <1>2, <1>3, <1>4, <1>5, <1>6, <1>7, <1>8, <1>9

\* ... but of another length.
LEMMA FullDroppedStep ==
  ASSUME FileInv, NEW t \in Threads, pc[t] = "full", Initialized(t),
         DropFile(t, files), UNCHANGED <<second, caller, file_p, internal_error>>,
         UNCHANGED situation
  PROVE  FileInv'
<1>0. Known(t)
  BY ThreadFacts
<1>s. Still
  BY SituationFacts DEF FileInv, Types, Still
<1> USE DEF FileInv, Types, Known, Still
<1>1. /\ FilesOK' /\ Size' = Size
      /\ Ready' = Ready
      /\ LockOf' = [f \in 1 .. Size |->
                       IF LockOf[f] \in {t, HandleOf[t]} THEN Nobody ELSE LockOf[f]]
      /\ Size < MaxFiles /\ cached_files' = 0
      /\ cached_file_handle' = [cached_file_handle EXCEPT ![HandleOf[t]] = 0]
      /\ status[HandleOf[t]] \notin {"opening", "closed"}
      /\ status' = [status EXCEPT ![HandleOf[t]] = "broken"]
      /\ pc' = [pc EXCEPT ![t] = "idle"]
  BY <1>0, DropFileFacts, PassedTwiceStep, OwnersDiffer DEF InCall
<1>2. Types'
  BY <1>0, <1>1, <1>s, OwnersDiffer DEF Lines
<1>3. InCall'
  BY <1>0, <1>1, <1>s, OwnersDiffer DEF InCall, OwnHandles
<1>4. LockOfThread'
  BY <1>0, <1>1, <1>s, OwnersDiffer DEF LockOfThread, InCall, OwnHandles
<1>5. LockOfHandle'
  BY <1>0, <1>1, <1>s, OwnersDiffer DEF LockOfHandle, InCall, OwnHandles
<1>6. PastGetHandle'
  BY <1>0, <1>1, <1>s, OwnersDiffer DEF PastGetHandle, InCall, OwnHandles
<1>7. Downloading'
  <2>1. SUFFICES ASSUME NEW u \in Threads, pc'[u] = "download"
                 PROVE  /\ cached_file_handle'[HandleOf[u]] = file_p[u]
                        /\ LockOf'[file_p[u]] = HandleOf[u] /\ ~Ready[file_p[u]]
    BY <1>1, <1>s DEF Downloading
  <2>3. CASE u # t
    <3>1. pc[u] = "download" /\ HandleOf[u] \in Handles
      BY <1>1, <1>s, <2>1, <2>3
    <3>5. HandleOf[u] # HandleOf[t]
      BY <2>3 DEF OwnHandles
    <3>6. file_p[u] \in 0 .. Size /\ file_p[u] # 0
      BY <3>1 DEF InCall
    <3>2. /\ cached_file_handle[HandleOf[u]] = file_p[u]
          /\ LockOf[file_p[u]] = HandleOf[u] /\ ~Ready[file_p[u]]
      BY <3>1 DEF Downloading
    <3> QED
      BY <1>0, <1>1, <1>s, <3>1, <3>2, <3>5, <3>6, OwnersDiffer
  <2> QED
    BY <1>1, <2>1, <2>3
<1>8. FileWhenOpen'
  BY <1>0, <1>1, <1>s, OwnersDiffer DEF FileWhenOpen, InCall, OwnHandles
<1>9. NobodyFindsItUnready'
  BY <1>0, <1>1, <1>s, OwnersDiffer DEF NobodyFindsItUnready, NoInternalError
<1> QED
  BY <1>s, <1>2, <1>3, <1>4, <1>5, <1>6, <1>7, <1>8, <1>9

\* The download succeeds: nobody else had the lock, and nobody has it now, ...
LEMMA PublishStep ==
  ASSUME FileInv, NEW t \in Threads, pc[t] = "download",
         files' = Published(HandleOf[t], cached_file_handle[HandleOf[t]]),
         internal_error' = (internal_error \/ ~Legal(HandleOf[t], cached_file_handle[HandleOf[t]])),
         Done(t),
         UNCHANGED <<cached_files, cached_file_handle, second, caller, file_p>>,
         UNCHANGED situation
  PROVE  FileInv'
<1>0. Known(t)
  BY ThreadFacts
<1>s. Still
  BY SituationFacts DEF FileInv, Types, Still
<1> USE DEF FileInv, Types, Known, Still
<1>1. /\ cached_file_handle[HandleOf[t]] = file_p[t]
      /\ LockOf[file_p[t]] = HandleOf[t] /\ ~Ready[file_p[t]]
      /\ FilesOK' /\ Size' = Size /\ Ready' = [Ready EXCEPT ![file_p[t]] = TRUE]
      /\ LockOf' = [LockOf EXCEPT ![file_p[t]] = Nobody]
      /\ internal_error' = internal_error /\ pc' = [pc EXCEPT ![t] = "idle"]
      /\ status' = [status EXCEPT ![HandleOf[t]] = IF @ = "opening" THEN "open" ELSE @]
  BY <1>0, PublishedStep DEF Downloading, InCall, Legal, Done
<1>2. Types'
  BY <1>0, <1>1, <1>s, OwnersDiffer DEF Lines
<1>3. InCall'
  BY <1>0, <1>1, <1>s, OwnersDiffer DEF InCall, OwnHandles
<1>4. LockOfThread'
  BY <1>0, <1>1, <1>s, OwnersDiffer DEF LockOfThread, InCall, OwnHandles
<1>5. LockOfHandle'
  BY <1>0, <1>1, <1>s, OwnersDiffer DEF LockOfHandle, InCall, OwnHandles
<1>6. PastGetHandle'
  BY <1>0, <1>1, <1>s, OwnersDiffer DEF PastGetHandle, InCall, OwnHandles
<1>7. Downloading'
  BY <1>0, <1>1, <1>s, OwnersDiffer DEF Downloading, InCall, OwnHandles
<1>8. FileWhenOpen'
  BY <1>0, <1>1, <1>s, OwnersDiffer DEF FileWhenOpen, InCall, OwnHandles
<1>9. NobodyFindsItUnready'
  BY <1>0, <1>1, <1>s, OwnersDiffer DEF NobodyFindsItUnready, NoInternalError
<1> QED
  BY <1>s, <1>2, <1>3, <1>4, <1>5, <1>6, <1>7, <1>8, <1>9

\* ... and the file may be of another length.
LEMMA PublishDropStep ==
  ASSUME FileInv, NEW t \in Threads, pc[t] = "download",
         DropFile(t, Published(HandleOf[t], cached_file_handle[HandleOf[t]])),
         internal_error' = (internal_error \/ ~Legal(HandleOf[t], cached_file_handle[HandleOf[t]])),
         UNCHANGED <<second, caller, file_p>>, UNCHANGED situation
  PROVE  FileInv'
<1>0. Known(t)
  BY ThreadFacts
<1>s. Still
  BY SituationFacts DEF FileInv, Types, Still
<1> USE DEF FileInv, Types, Known, Still
<1>1. /\ cached_file_handle[HandleOf[t]] = file_p[t]
      /\ LockOf[file_p[t]] = HandleOf[t] /\ ~Ready[file_p[t]]
      /\ FilesOK' /\ Size' = Size /\ Ready' = [Ready EXCEPT ![file_p[t]] = TRUE]
      /\ LockOf' = [f \in 1 .. Size |->
                       IF LockOf[f] \in {t, HandleOf[t]} THEN Nobody ELSE LockOf[f]]
      /\ Size < MaxFiles /\ cached_files' = 0 /\ internal_error' = internal_error
      /\ cached_file_handle' = [cached_file_handle EXCEPT ![HandleOf[t]] = 0]
      /\ status[HandleOf[t]] \notin {"opening", "closed"}
      /\ status' = [status EXCEPT ![HandleOf[t]] = "broken"]
      /\ pc' = [pc EXCEPT ![t] = "idle"]
  BY <1>0, PublishedDroppedStep, PublishedFacts, DropFileFacts DEF Downloading,
      InCall, Legal
<1>2. Types'
  BY <1>0, <1>1, <1>s, OwnersDiffer DEF Lines
<1>3. InCall'
  BY <1>0, <1>1, <1>s, OwnersDiffer DEF InCall, OwnHandles
<1>4. LockOfThread'
  BY <1>0, <1>1, <1>s, OwnersDiffer DEF LockOfThread, InCall, OwnHandles
<1>5. LockOfHandle'
  BY <1>0, <1>1, <1>s, OwnersDiffer DEF LockOfHandle, InCall, OwnHandles
<1>6. PastGetHandle'
  BY <1>0, <1>1, <1>s, OwnersDiffer DEF PastGetHandle, InCall, OwnHandles
<1>7. Downloading'
  BY <1>0, <1>1, <1>s, OwnersDiffer DEF Downloading, InCall, OwnHandles,
      LockOfThread
<1>8. FileWhenOpen'
  BY <1>0, <1>1, <1>s, OwnersDiffer DEF FileWhenOpen, InCall, OwnHandles
<1>9. NobodyFindsItUnready'
  BY <1>0, <1>1, <1>s, OwnersDiffer DEF NobodyFindsItUnready, NoInternalError
<1> QED
  BY <1>s, <1>2, <1>3, <1>4, <1>5, <1>6, <1>7, <1>8, <1>9

\* A Read whose download fails leaves the lock with the handle.
LEMMA DownloadBrokenStep ==
  ASSUME FileInv, NEW t \in Threads, pc[t] = "download", Goto(t, "idle"),
         status[HandleOf[t]] # "opening", Become(HandleOf[t], "broken"),
         UNCHANGED <<files, cached_file_handle, cached_files, second, caller,
                     file_p, internal_error>>, UNCHANGED situation
  PROVE  FileInv'
<1>0. Known(t)
  BY ThreadFacts
<1>s. Still
  BY SituationFacts DEF FileInv, Types, Still
<1> USE DEF FileInv, Types, Known, Still
<1>1. /\ FilesOK' /\ Size' = Size /\ LockOf' = LockOf /\ Ready' = Ready
      /\ pc' = [pc EXCEPT ![t] = "idle"]
      /\ status[HandleOf[t]] # "opening"
      /\ status' = [status EXCEPT ![HandleOf[t]] = "broken"]
  BY <1>0 DEF FilesOK, Size, LockOf, Ready, Goto, Become
<1>2. Types'
  BY <1>0, <1>1, <1>s, OwnersDiffer DEF Lines
<1>3. InCall'
  BY <1>0, <1>1, <1>s, OwnersDiffer DEF InCall, OwnHandles
<1>4. LockOfThread'
  BY <1>0, <1>1, <1>s, OwnersDiffer DEF LockOfThread, InCall, OwnHandles
<1>5. LockOfHandle'
  BY <1>0, <1>1, <1>s, OwnersDiffer DEF LockOfHandle, InCall, OwnHandles
<1>6. PastGetHandle'
  BY <1>0, <1>1, <1>s, OwnersDiffer DEF PastGetHandle, InCall, OwnHandles
<1>7. Downloading'
  BY <1>0, <1>1, <1>s, OwnersDiffer DEF Downloading, InCall, OwnHandles
<1>8. FileWhenOpen'
  BY <1>0, <1>1, <1>s, OwnersDiffer DEF FileWhenOpen, InCall, OwnHandles
<1>9. NobodyFindsItUnready'
  BY <1>0, <1>1, <1>s, OwnersDiffer DEF NobodyFindsItUnready, NoInternalError
<1> QED
  BY <1>s, <1>2, <1>3, <1>4, <1>5, <1>6, <1>7, <1>8, <1>9

\* An open that begins once more keeps the file and the lock that the handle has.
LEMMA OpenAgainStep ==
  ASSUME FileInv, NEW t \in Threads, OpenAgain(t), UNCHANGED situation
  PROVE  FileInv'
<1>0. Known(t)
  BY ThreadFacts
<1>s. Still
  BY SituationFacts DEF FileInv, Types, Still
<1> USE DEF FileInv, Types, Known, Still
<1>1. /\ FilesOK' /\ Size' \in {Size, Size + 1}
      /\ Size' <= MaxFiles /\ cached_files' \in 1 .. Size'
      /\ \A f \in 1 .. Size : LockOf'[f] = LockOf[f] /\ Ready'[f] = Ready[f]
      /\ \A f \in 1 .. Size' : f > Size => LockOf'[f] = Nobody /\ ~Ready'[f]
      /\ file_p' = [file_p EXCEPT ![t] = cached_files']
      /\ caller' \in [Threads -> {"idle", "info", "full"}] /\ caller'[t] # "idle"
      /\ \A u \in Threads : u # t => caller'[u] = caller[u]
      /\ pc' = [pc EXCEPT ![t] = "handle"]
      /\ pc[t] \in {"head", "download"} /\ Redirects
      /\ second' \in [Handles -> BOOLEAN]
      /\ UNCHANGED <<cached_file_handle, status, internal_error>>
  BY ZenonT(60), <1>0, GetCachedFileFacts DEF OpenAgain
<1>2. Types'
  BY <1>0, <1>1, <1>s, OwnersDiffer DEF Lines
<1>3. InCall'
  BY <1>0, <1>1, <1>s, OwnersDiffer DEF InCall, OwnHandles
<1>4. LockOfThread'
  BY <1>0, <1>1, <1>s, OwnersDiffer DEF LockOfThread, InCall, OwnHandles
<1>5. LockOfHandle'
  BY <1>0, <1>1, <1>s, OwnersDiffer DEF LockOfHandle, InCall, OwnHandles
<1>6. PastGetHandle'
  BY <1>0, <1>1, <1>s, OwnersDiffer DEF PastGetHandle, InCall, OwnHandles
<1>7. Downloading'
  BY <1>0, <1>1, <1>s, OwnersDiffer DEF Downloading, InCall, OwnHandles
<1>8. FileWhenOpen'
  BY <1>0, <1>1, <1>s, OwnersDiffer DEF FileWhenOpen, InCall, OwnHandles
<1>9. NobodyFindsItUnready'
  BY <1>0, <1>1, <1>s, OwnersDiffer DEF NobodyFindsItUnready, NoInternalError
<1> QED
  BY <1>s, <1>2, <1>3, <1>4, <1>5, <1>6, <1>7, <1>8, <1>9

\* A Read from the file.
LEMMA ReadCachedStep ==
  ASSUME FileInv, NEW t \in Threads, ReadCached(t), UNCHANGED situation
  PROVE  FileInv'
<1>0. Known(t)
  BY ThreadFacts
<1>s. Still
  BY SituationFacts DEF FileInv, Types, Still
<1> USE DEF FileInv, Types, Known, Still
<1>1. /\ FilesOK' /\ Size' = Size /\ LockOf' = LockOf /\ Ready' = Ready
      /\ pc[t] = "idle" /\ Readable(HandleOf[t])
      /\ cached_file_handle[HandleOf[t]] # 0
      /\ internal_error' =
           (internal_error \/ ~Ready[cached_file_handle[HandleOf[t]]])
      /\ UNCHANGED <<files, cached_files, status, cached_file_handle, second, pc, caller,
                     file_p>>
  BY <1>0 DEF FilesOK, Size, LockOf, Ready, ReadCached
<1>2. Types'
  BY <1>0, <1>1, <1>s, OwnersDiffer DEF Lines
<1>3. InCall'
  BY <1>0, <1>1, <1>s, OwnersDiffer DEF InCall, OwnHandles
<1>4. LockOfThread'
  BY <1>0, <1>1, <1>s, OwnersDiffer DEF LockOfThread, InCall, OwnHandles
<1>5. LockOfHandle'
  BY <1>0, <1>1, <1>s, OwnersDiffer DEF LockOfHandle, InCall, OwnHandles
<1>6. PastGetHandle'
  BY <1>0, <1>1, <1>s, OwnersDiffer DEF PastGetHandle, InCall, OwnHandles
<1>7. Downloading'
  BY <1>0, <1>1, <1>s, OwnersDiffer DEF Downloading, InCall, OwnHandles
<1>8. FileWhenOpen'
  BY <1>0, <1>1, <1>s, OwnersDiffer DEF FileWhenOpen, InCall, OwnHandles
<1>9. NobodyFindsItUnready'
  BY <1>0, <1>1, <1>s DEF NobodyFindsItUnready, NoInternalError, FileWhenOpen,
      Readable
<1> QED
  BY <1>s, <1>2, <1>3, <1>4, <1>5, <1>6, <1>7, <1>8, <1>9

\* A Read that downloads the file: the handle has none.
LEMMA ReadFallsBackStep ==
  ASSUME FileInv, NEW t \in Threads, ReadFallsBack(t), UNCHANGED situation
  PROVE  FileInv'
<1>0. Known(t)
  BY ThreadFacts
<1>s. Still
  BY SituationFacts DEF FileInv, Types, Still
<1> USE DEF FileInv, Types, Known, Still
<1>1. /\ FilesOK' /\ Size' \in {Size, Size + 1}
      /\ Size' <= MaxFiles /\ cached_files' \in 1 .. Size'
      /\ \A f \in 1 .. Size : LockOf'[f] = LockOf[f] /\ Ready'[f] = Ready[f]
      /\ \A f \in 1 .. Size' : f > Size => LockOf'[f] = Nobody /\ ~Ready'[f]
      /\ file_p' = [file_p EXCEPT ![t] = cached_files']
      /\ caller' \in [Threads -> {"idle", "info", "full"}] /\ caller'[t] # "idle"
      /\ \A u \in Threads : u # t => caller'[u] = caller[u]
      /\ pc' = [pc EXCEPT ![t] = "handle"]
      /\ cached_file_handle[HandleOf[t]] = 0 /\ pc[t] = "idle"
      /\ status[HandleOf[t]] \in {"open", "broken"}
      /\ UNCHANGED <<cached_file_handle, status, second, internal_error>>
  BY ZenonT(60), <1>0, GetCachedFileFacts DEF ReadFallsBack, Readable
<1>2. Types'
  BY <1>0, <1>1, <1>s, OwnersDiffer DEF Lines
<1>3. InCall'
  BY <1>0, <1>1, <1>s, OwnersDiffer DEF InCall, OwnHandles
<1>4. LockOfThread'
  BY <1>0, <1>1, <1>s, OwnersDiffer DEF LockOfThread, InCall, OwnHandles,
      LockOfHandle, Downloading
<1>5. LockOfHandle'
  BY <1>0, <1>1, <1>s, OwnersDiffer DEF LockOfHandle, InCall, OwnHandles
<1>6. PastGetHandle'
  BY <1>0, <1>1, <1>s, OwnersDiffer DEF PastGetHandle, InCall, OwnHandles,
      LockOfThread
<1>7. Downloading'
  BY <1>0, <1>1, <1>s, OwnersDiffer DEF Downloading, InCall, OwnHandles
<1>8. FileWhenOpen'
  <2>1. SUFFICES ASSUME ~Redirects, NEW u \in Threads
                 PROVE  LET h == HandleOf[u] IN
                   /\ status'[h] = "closed" => cached_file_handle[h] = 0
                   /\ pc'[u] \notin {"idle", "download"} => cached_file_handle[h] = 0
                   /\ /\ pc'[u] = "idle" /\ status'[h] = "open"
                      /\ cached_file_handle[h] # 0
                      => Ready'[cached_file_handle[h]]
    BY <1>1, <1>s DEF FileWhenOpen
  <2>2. /\ HandleOf[u] \in Handles
        /\ cached_file_handle[HandleOf[u]] # 0 =>
             Ready'[cached_file_handle[HandleOf[u]]] = Ready[cached_file_handle[HandleOf[u]]]
    <3>1. HandleOf[u] \in Handles /\ cached_file_handle[HandleOf[u]] \in 0 .. Size
      BY <1>s
    <3>2. \A f \in 1 .. Size : Ready'[f] = Ready[f]
      BY <1>1
    <3> QED
      BY <1>0, <3>1, <3>2
  <2>3. LET h == HandleOf[u] IN
          /\ status[h] = "closed" => cached_file_handle[h] = 0
          /\ pc[u] \notin {"idle", "download"} => cached_file_handle[h] = 0
          /\ pc[u] = "idle" /\ status[h] = "open" /\ cached_file_handle[h] # 0 =>
               Ready[cached_file_handle[h]]
    BY <2>1 DEF FileWhenOpen
  <2> QED
    BY <1>0, <1>1, <1>s, <2>1, <2>2, <2>3 DEF OwnHandles
<1>9. NobodyFindsItUnready'
  BY <1>0, <1>1, <1>s, OwnersDiffer DEF NobodyFindsItUnready, NoInternalError
<1> QED
  BY <1>s, <1>2, <1>3, <1>4, <1>5, <1>6, <1>7, <1>8, <1>9

-----------------------------------------------------------------------------
\* Every step is one of these.
LEMMA FileStart == Init /\ OwnHandles => FileInv
<1> SUFFICES ASSUME Init, OwnHandles
             PROVE  FileInv
  OBVIOUS
<1>1. files = <<>> /\ Size = 0 /\ FilesOK
  BY DEF Init, FilesOK, Size
<1>2. Types
  <2>1. situation \in DOMAIN Situations /\ MaxFiles \in Nat \ {0}
    BY SituationFacts DEF Init
  <2>2. 0 \in 0 .. Size /\ "idle" \in Lines /\ Size < MaxFiles
    BY <1>1, <2>1 DEF Lines
  <2>3. /\ cached_files \in 0 .. Size /\ cached_file_handle \in [Handles -> 0 .. Size]
        /\ file_p \in [Threads -> 0 .. Size] /\ pc \in [Threads -> Lines]
    BY <2>2 DEF Init
  <2>4. /\ status \in [Handles -> {"closed", "opening", "open", "broken"}]
        /\ second \in [Handles -> BOOLEAN] /\ caller \in [Threads -> {"idle", "info", "full"}]
        /\ internal_error \in BOOLEAN
    BY DEF Init
  <2> QED
    BY <1>1, <2>1, <2>2, <2>3, <2>4 DEF Types
<1>3. InCall /\ PastGetHandle /\ Downloading
  BY DEF Init, InCall, PastGetHandle, Downloading
<1>4. LockOfThread /\ LockOfHandle
  BY <1>1 DEF LockOfThread, LockOfHandle
<1>5. FileWhenOpen
  BY SituationFacts DEF Init, FileWhenOpen
<1> QED
  BY <1>2, <1>3, <1>4, <1>5 DEF Init, FileInv, NobodyFindsItUnready, NoInternalError

LEMMA FileIdle == FileInv /\ UNCHANGED <<vars, situation>> => FileInv'
<1> SUFFICES ASSUME FileInv, UNCHANGED <<vars, situation>>
             PROVE  FileInv'
  OBVIOUS
<1>1. /\ FilesOK' = FilesOK /\ Size' = Size /\ LockOf' = LockOf /\ Ready' = Ready
      /\ UNCHANGED <<files, cached_files, status, cached_file_handle, second, pc, caller,
                     file_p, internal_error, situation>>
  BY DEF vars, FilesOK, Size, LockOf, Ready
<1>2. Types' /\ OwnHandles'
  BY <1>1, SituationFacts DEF FileInv, Types
<1>3. InCall' /\ LockOfThread' /\ LockOfHandle' /\ PastGetHandle' /\ Downloading'
  BY <1>1, SituationFacts
  DEF FileInv, Types, InCall, LockOfThread, LockOfHandle, PastGetHandle, Downloading
<1>4. FileWhenOpen' /\ NobodyFindsItUnready'
  BY <1>1, SituationFacts
  DEF FileInv, Types, FileWhenOpen, NobodyFindsItUnready, NoInternalError
<1> QED
  BY <1>2, <1>3, <1>4 DEF FileInv

LEMMA QueryEndStep ==
  ASSUME FileInv, QueryEnd, UNCHANGED situation
  PROVE  FileInv'
<1>1. /\ FilesOK' = FilesOK /\ Size' = Size /\ LockOf' = LockOf /\ Ready' = Ready
      /\ cached_files' = 0 /\ Size < MaxFiles
      /\ UNCHANGED <<files, status, cached_file_handle, second, pc, caller,
                     file_p, internal_error, situation>>
  BY DEF QueryEnd, FilesOK, Size, LockOf, Ready
<1>0. Size \in Nat
  BY FilesFacts DEF FileInv, Types
<1>2. Types' /\ OwnHandles'
  BY <1>0, <1>1, SituationFacts DEF FileInv, Types
<1>3. InCall' /\ LockOfThread' /\ LockOfHandle' /\ PastGetHandle' /\ Downloading'
  BY <1>1, SituationFacts
  DEF FileInv, Types, InCall, LockOfThread, LockOfHandle, PastGetHandle, Downloading
<1>4. FileWhenOpen' /\ NobodyFindsItUnready'
  BY <1>1, SituationFacts
  DEF FileInv, Types, FileWhenOpen, NobodyFindsItUnready, NoInternalError
<1> QED
  BY <1>2, <1>3, <1>4 DEF FileInv

LEMMA ThreadStep ==
  ASSUME FileInv, UNCHANGED situation, NEW t \in Threads,
         Open(t) \/ ReadCached(t) \/ ReadFallsBack(t) \/ Continue(t) \/ Close(t)
  PROVE  FileInv'
<1>1. CASE Open(t)
  BY <1>1, OpenStep
<1>2. CASE ReadCached(t)
  BY <1>2, ReadCachedStep
<1>3. CASE ReadFallsBack(t)
  BY <1>3, ReadFallsBackStep
<1>4. CASE Close(t)
  <2>1. HandleOf[t] \in Handles /\ pc \in [Threads -> Lines]
    BY SituationFacts DEF FileInv, Types
  <2>2. pc[t] = "idle" /\ pc' = [pc EXCEPT ![t] = "idle"] /\ Destroy(HandleOf[t])
    BY <1>4, <2>1 DEF Close
  <2> QED
    BY <1>4, <2>2, DestroyStep DEF Close
<1>5. CASE GetHandle(t)
  BY <1>5, GetHandleStep
<1>6. CASE TakeLock(t)
  BY <1>6, TakeLockStep
<1>7. CASE LoadFileInfo(t)
  BY <1>7, InfoFoundStep, InfoMissingStep DEF LoadFileInfo
<1>8. CASE HeadRequest(t)
  <2>1. CASE Become(HandleOf[t], "open") /\ Goto(t, "idle")
             /\ UNCHANGED <<files, cached_files, file_p, caller, cached_file_handle>>
    BY <1>8, <2>1, HeadOpensStep DEF HeadRequest
  <2>2. CASE GetCachedFile(t, "full") /\ UNCHANGED <<status, cached_file_handle>>
    BY <1>8, <2>2, HeadFallsBackStep DEF HeadRequest
  <2>3. CASE Destroy(HandleOf[t]) /\ Goto(t, "idle")
             /\ UNCHANGED <<cached_files, file_p, caller>>
    BY <1>8, <2>3, DestroyStep DEF HeadRequest, Goto
  <2> QED
    BY <1>8, <2>1, <2>2, <2>3 DEF HeadRequest
<1>9. CASE FullDownload(t)
  BY <1>9, FullMissingStep, FullFoundStep, FullDroppedStep DEF FullDownload
<1>10. CASE DownloadSucceeds(t)
  BY <1>10, PublishStep, PublishDropStep DEF DownloadSucceeds
<1>11. CASE DownloadFails(t)
  BY <1>11, DestroyStep, DownloadBrokenStep DEF DownloadFails, Goto
<1>12. CASE OpenAgain(t)
  BY <1>12, OpenAgainStep
<1> QED
  BY <1>1, <1>2, <1>3, <1>4, <1>5, <1>6, <1>7, <1>8, <1>9, <1>10, <1>11, <1>12
  DEF Continue

\* OwnHandles stays as it is, and the invariant is one where it holds.
LEMMA FileInvHolds == Spec => [](OwnHandles => FileInv)
<1>1. ASSUME OwnHandles => FileInv, [Next]_<<vars, situation>>
      PROVE  (OwnHandles => FileInv)'
  <2>1. UNCHANGED situation /\ OwnHandles' = OwnHandles
    BY <1>1, SituationFacts DEF Next, vars
  <2>2. CASE UNCHANGED <<vars, situation>>
    BY <1>1, <2>1, <2>2, FileIdle
  <2>3. CASE Next
    BY <1>1, <2>1, <2>3, ThreadStep, QueryEndStep DEF Next
  <2> QED
    BY <1>1, <2>2, <2>3
<1> QED
  BY <1>1, FileStart, PTL DEF Spec

-----------------------------------------------------------------------------
(***************************************************************************)
(* The theorems.                                                           *)
(***************************************************************************)
\* The types, and that a lock is in hands that will give it back: those of a thread
\* that has just taken it, or of a handle that is not closed.
THEOREM FilesTypeCorrect == Spec => [](OwnHandles => TypeOK)
<1>1. ASSUME FileInv
      PROVE  TypeOK
  <2>1. /\ files \in Seq([lock : Owners \cup {Nobody}, initialized : BOOLEAN])
        /\ Size = Len(files) /\ DOMAIN files = 1 .. Size
    BY <1>1, LenProperties DEF FileInv, Types, FilesOK, FileRecords, Size
  <2>2. \A f \in DOMAIN files : LockOf[f] = files[f].lock
    BY <1>1, <2>1, FilesFacts DEF FileInv, Types
  <2>3. \A f \in DOMAIN files : files[f].lock \in Threads =>
          pc[files[f].lock] \in {"info", "full"} /\ file_p[files[f].lock] = f
    BY <1>1, <2>1, <2>2 DEF FileInv, LockOfThread
  <2>4. \A f \in DOMAIN files : files[f].lock \in Handles => status[files[f].lock] # "closed"
    BY <1>1, <2>1, <2>2 DEF FileInv, LockOfHandle
  <2> QED
    BY <1>1, <2>1, <2>3, <2>4 DEF FileInv, Types, TypeOK, Lines
<1> QED
  BY <1>1, FileInvHolds, PTL

\* A file is downloaded through one handle at a time: the handle has its lock, and
\* no other handle or thread can have that (CachedFileHandle, http_state.cpp).
THEOREM OneDownloadAtATime == Spec => [](OwnHandles => OneDownload)
<1>1. FileInv => OneDownload
  BY DEF FileInv, Downloading, OneDownload, OwnHandles
<1> QED
  BY <1>1, FileInvHolds, PTL

\* ReadInternal and SetInitialized throw none of their InternalExceptions, if handles
\* are given up after a failure and errors do not redirect.
THEOREM FilesAreReadyWhenRead == Spec => [](OwnHandles => NobodyFindsItUnready)
<1>1. FileInv => NobodyFindsItUnready
  BY DEF FileInv
<1> QED
  BY <1>1, FileInvHolds, PTL

=============================================================================
