------------------------------- MODULE S3Glob -------------------------------
(***************************************************************************)
(* S3GlobResult (s3fs.cpp): the lazy expansion of a glob on a bucket.      *)
(* Every call of ExpandNextPath makes one listing request, or two: it      *)
(* reads the pages of the flat listing below the part of the pattern       *)
(* before its first wildcard, or, once a full first page shows few folders *)
(* with many files, the pages of the hierarchical listing, descending into *)
(* the folders ("common prefixes") that the pattern can match in before    *)
(* it asks for the next page at the top.                                   *)
(*                                                                         *)
(* The bucket is external.  It lists keys in a fixed order, page by page,  *)
(* and other clients put and delete objects between two requests.  A key   *)
(* is the sequence of its components; one that ends in "" is the marker of *)
(* a directory.                                                            *)
(***************************************************************************)
EXTENDS Naturals, FiniteSetsExt, SequencesExt, GlobMatch

CONSTANTS
  Order,          \* the keys there may be, in the order the bucket lists them
  InitialKeys,    \* positions in Order of the keys there are at first
  SharedDir,      \* the folder that the text before the first wildcard names
  SharedStart,    \* the components that start with the rest of that text
  Names,          \* all components
  Encode, Decode, \* url encoding and decoding of components
  PageSize,       \* most entries of a page (1000)
  FilesPerFolder, \* files per folder that make hierarchical listing pay (100)
  Situations      \* the situations there may be, by name, see below

\* A situation: the patterns (see GlobMatch); allow_recursive, the setting
\* s3_allow_recursive_globbing; can_fail, whether requests may fail for reasons
\* of their own; and a bound on what other clients put and delete.  A pattern
\* begins with the text before its first wildcard, and so does what it matches.
ASSUME SituationAssumption == \A s \in DOMAIN Situations :
  LET sit == Situations[s] IN
  /\ {sit.allow_recursive, sit.can_fail} \subseteq BOOLEAN /\ sit.max_writes \in Nat
  /\ \A p \in sit.patterns :
       /\ p \in Seq(SUBSET STRING)
       /\ \A k \in DOMAIN Order : Matches(Order[k], p) =>
            /\ IsStrictPrefix(SharedDir, Order[k])
            /\ Order[k][Len(SharedDir) + 1] \in SharedStart

\* S3 lists keys in the order of their bytes: what lies below a folder is listed
\* in one piece.
ASSUME OrderAssumption ==
  /\ Names \subseteq STRING /\ SharedDir \in Seq(STRING)
  /\ Order \in Seq(Seq(Names) \ {<<>>})
  /\ InitialKeys \subseteq DOMAIN Order
  /\ \A i, j, k \in DOMAIN Order : i < j /\ j < k =>
       \A n \in 1 .. Len(Order[i]) - 1 :
         LET folder == SubSeq(Order[i], 1, n) IN
           IsStrictPrefix(folder, Order[k]) => IsStrictPrefix(folder, Order[j])
\* Every text can be decoded, to a text.
ASSUME CodingAssumption ==
  /\ DOMAIN Decode \subseteq STRING /\ Decode \in [DOMAIN Decode -> DOMAIN Decode]
  /\ Encode \in [Names -> DOMAIN Decode]
  /\ \A n \in Names : Decode[Encode[n]] = n
ASSUME BoundsAssumption ==
  PageSize \in Nat \ {0} /\ FilesPerFolder \in Nat

VARIABLES
  situation,       \* its name
  pattern,         \* the pattern of this glob
  glob_type,       \* "UNKNOWN", "LISTING" or "HIERARCHICAL"
  main_continuation_token,
  current_common_prefix,             \* <<>> when there is none
  common_prefix_continuation_token,
  common_prefixes,
  finished,
  restart,         \* the first page is asked for again, with a delimiter
  expanded,        \* how often each key is in expanded_files
  failed,          \* a request was refused: the glob throws
  present,         \* the bucket: positions of the keys it holds
  stable,          \* ghost: those it held from the start on
  ever,            \* ghost: those it held at some time
  writes           \* ghost: what the other clients did so far

glob == <<pattern, glob_type, main_continuation_token, current_common_prefix,
          common_prefix_continuation_token, common_prefixes, finished, restart,
          expanded, failed>>
vars == <<glob, present, stable, ever, writes>>

Situation == Situations[situation]
Patterns == Situation.patterns
AllowRecursive == Situation.allow_recursive
CanFail == Situation.can_fail
MaxWrites == Situation.max_writes

NoToken == [at |-> 0]
Keys == DOMAIN Order
Top(delimiter) == [dir |-> SharedDir, start |-> SharedStart, delimiter |-> delimiter]
Folder(dir) == [dir |-> dir, start |-> Names, delimiter |-> TRUE]

Init ==
  /\ situation \in DOMAIN Situations /\ pattern \in Patterns
  /\ glob_type = "UNKNOWN" /\ finished = FALSE /\ restart = FALSE
  /\ main_continuation_token = NoToken
  /\ current_common_prefix = <<>> /\ common_prefixes = {}
  /\ common_prefix_continuation_token = NoToken
  /\ expanded = [k \in Keys |-> 0] /\ failed = FALSE
  /\ present = InitialKeys /\ stable = InitialKeys /\ ever = InitialKeys
  /\ writes = 0

-----------------------------------------------------------------------------
(***************************************************************************)
(* The bucket.                                                             *)
(***************************************************************************)
\* The keys a listing request is about.
Below(req, k) ==
  /\ IsStrictPrefix(req.dir, Order[k])
  /\ Order[k][Len(req.dir) + 1] \in req.start

\* With a delimiter, the keys of a folder are one entry, the folder.
InFolder(req, k) == req.delimiter /\ Len(Order[k]) > Len(req.dir) + 1
FolderOf(req, k) == SubSeq(Order[k], 1, Len(req.dir) + 1)

\* The last position of the entry that k is listed in.
EntryEnd(req, k) ==
  IF InFolder(req, k)
  THEN Max({j \in Keys : InFolder(req, j) /\ FolderOf(req, j) = FolderOf(req, k)})
  ELSE k

\* The page after a token.
Page(req, token) ==
  LET entries == {EntryEnd(req, k) : k \in {j \in present : j > token.at /\ Below(req, j)}}
      listed  == {e \in entries : Cardinality({d \in entries : d < e}) < PageSize}
  IN  [keys     |-> {e \in listed : ~InFolder(req, e)},
       prefixes |-> {FolderOf(req, e) : e \in {f \in listed : InFolder(req, f)}},
       token    |-> IF listed = entries THEN NoToken
                    ELSE [at |-> Max(listed), req |-> req]]

\* A token is good for the request it was given out for.
Refused(req, token) == token # NoToken /\ token.req # req

\* Other clients.
Put(k) ==
  /\ k \notin present /\ writes < MaxWrites
  /\ present' = present \cup {k} /\ ever' = ever \cup {k}
  /\ writes' = writes + 1
  /\ UNCHANGED <<glob, stable>>

Delete(k) ==
  /\ k \in present /\ writes < MaxWrites
  /\ present' = present \ {k} /\ stable' = stable \ {k}
  /\ writes' = writes + 1
  /\ UNCHANGED <<glob, ever>>

-----------------------------------------------------------------------------
(***************************************************************************)
(* Mutants.                                                                *)
(***************************************************************************)
\* A folder is descended into only when it matches the whole pattern.
FolderMatchesWhole(dir) == Match(dir, pattern, TRUE)
\* The next page at the top starts again from the first.
FirstPageAgain(page) == [page.token EXCEPT !.at = IF @ = 0 THEN 0 ELSE 1]
\* Only a folder that was listed is left for the next one.
SkipPrefixStays ==
  /\ ~finished /\ ~failed /\ current_common_prefix # <<>>
  /\ ~Match(current_common_prefix, pattern, FALSE)
  /\ UNCHANGED vars

-----------------------------------------------------------------------------
(***************************************************************************)
(* Requests and responses.                                                 *)
(***************************************************************************)
UrlEncode(dir) == [i \in DOMAIN dir |-> Encode[dir[i]]]
UrlDecode(text) == [i \in DOMAIN text |-> Decode[text[i]]]

\* AWSListObjectV2::ParseFileList: the markers of directories are dropped.
ParseFileList(page) == {k \in page.keys : Last(Order[k]) # ""}
\* AWSListObjectV2::ParseCommonPrefix: the folders as the response has them.
ParseCommonPrefix(page) == {UrlEncode(f) : f \in page.prefixes}
\* AWSListObjectV2::ParseContinuationToken.
ParseContinuationToken(page) == page.token
\* ... of a folder's page.
NextOfFolder(page) == page.token

\* The keys of a page that match are appended to expanded_files.
Expand(page) ==
  \E listed \in {{k \in ParseFileList(page) : Match(Order[k], pattern, TRUE)}} :
    expanded' = [k \in Keys |-> expanded[k] + (IF k \in listed THEN 1 ELSE 0)]

FolderMatches(dir) == Match(dir, pattern, FALSE)
WithMore(prefixes, more) == prefixes \cup more

\* One of the prefixes becomes the current one; there may be none.
TakePrefix(prefixes) ==
  \/ prefixes = {} /\ current_common_prefix' = <<>> /\ common_prefixes' = {}
  \/ \E p \in prefixes :
       current_common_prefix' = p /\ common_prefixes' = prefixes \ {p}

Over(token, prefix) == token = NoToken /\ prefix = <<>>

-----------------------------------------------------------------------------
(***************************************************************************)
(* ExpandNextPath at the top.                                              *)
(***************************************************************************)
\* The files of a full first page lie in few folders.
FewFolders(page) ==
  LET listed  == ParseFileList(page)
      folders == {Front(Order[k]) : k \in listed}
  IN  Cardinality(folders) * FilesPerFolder < Cardinality(listed)

Investigates(page) ==
  /\ AllowRecursive /\ glob_type = "UNKNOWN" /\ AnyDepth \notin Range(pattern)
  /\ page.token # NoToken

\* A page at the top is accepted: its files are expanded, its folders wait.
AcceptMain(page) ==
  /\ main_continuation_token' = ParseContinuationToken(page)
  /\ TakePrefix(ParseCommonPrefix(page))
  /\ finished' = Over(main_continuation_token', current_common_prefix')
  /\ Expand(page)
  /\ UNCHANGED <<common_prefix_continuation_token, failed>>

\* The first request of a call that has no folder to read.
ListMain ==
  /\ ~finished /\ ~failed /\ ~restart /\ current_common_prefix = <<>>
  /\ \E page \in {Page(Top(glob_type = "HIERARCHICAL"), main_continuation_token)} :
       \/ /\ Investigates(page) /\ FewFolders(page)
          /\ glob_type' = "HIERARCHICAL" /\ restart' = TRUE
          /\ UNCHANGED <<main_continuation_token, current_common_prefix,
                         common_prefix_continuation_token, common_prefixes,
                         finished, expanded, failed>>
       \/ /\ ~(Investigates(page) /\ FewFolders(page))
          /\ glob_type' = IF Investigates(page) THEN "LISTING" ELSE glob_type
          /\ AcceptMain(page)
          /\ UNCHANGED restart
  /\ UNCHANGED <<pattern, present, stable, ever, writes>>

\* The second one: the first page again, now with a delimiter.
ListMainAgain ==
  /\ ~failed /\ restart /\ restart' = FALSE
  /\ \E page \in {Page(Top(TRUE), main_continuation_token)} : AcceptMain(page)
  /\ UNCHANGED <<pattern, glob_type, present, stable, ever, writes>>

-----------------------------------------------------------------------------
(***************************************************************************)
(* ExpandNextPath in a folder.                                             *)
(***************************************************************************)
\* Done with the current folder: on to the next one, or back to the top.
LeaveFolder(token, prefixes) ==
  /\ common_prefix_continuation_token' = token
  /\ \/ /\ token = NoToken
        /\ TakePrefix(prefixes)
     \/ /\ token # NoToken
        /\ current_common_prefix' = UrlDecode(current_common_prefix)
        /\ common_prefixes' = prefixes
  /\ finished' = Over(main_continuation_token, current_common_prefix')

\* A folder in which a key can match is listed.
ListPrefix ==
  /\ ~finished /\ ~failed /\ current_common_prefix # <<>>
  /\ \E req \in {Folder(UrlDecode(current_common_prefix))} :
       /\ FolderMatches(req.dir)
       /\ ~Refused(req, common_prefix_continuation_token)
       /\ \E page \in {Page(req, common_prefix_continuation_token)} :
            /\ LeaveFolder(NextOfFolder(page),
                           WithMore(common_prefixes, ParseCommonPrefix(page)))
            /\ Expand(page)
  /\ UNCHANGED <<glob_type, main_continuation_token, restart, failed>>
  /\ UNCHANGED <<pattern, present, stable, ever, writes>>

\* Any other folder is left as it is.
SkipPrefix ==
  /\ ~finished /\ ~failed /\ current_common_prefix # <<>>
  /\ ~FolderMatches(UrlDecode(current_common_prefix))
  /\ LeaveFolder(common_prefix_continuation_token, common_prefixes)
  /\ UNCHANGED <<glob_type, main_continuation_token, restart, expanded, failed>>
  /\ UNCHANGED <<pattern, present, stable, ever, writes>>

\* A request fails, or is refused: the exception ends the glob.
RequestFails ==
  /\ ~finished /\ ~failed
  /\ \/ CanFail
     \/ /\ current_common_prefix # <<>>
        /\ Refused(Folder(UrlDecode(current_common_prefix)),
                   common_prefix_continuation_token)
  /\ failed' = TRUE
  /\ UNCHANGED <<pattern, glob_type, main_continuation_token, current_common_prefix,
                 common_prefix_continuation_token, common_prefixes, finished,
                 restart, expanded, present, stable, ever, writes>>

\* A call of ExpandNextPath that gets its answers.
ExpandNextPath == ListMain \/ ListMainAgain \/ ListPrefix \/ SkipPrefix

Next ==
  /\ ExpandNextPath \/ RequestFails \/ \E k \in Keys : Put(k) \/ Delete(k)
  /\ UNCHANGED situation

Spec == Init /\ [][Next]_<<vars, situation>>
\* The scan goes on calling ExpandNextPath.
FairSpec == Spec /\ WF_vars(ExpandNextPath)

-----------------------------------------------------------------------------
(***************************************************************************)
(* Properties.                                                             *)
(***************************************************************************)
\* Type correctness.
TypeOK ==
  /\ glob_type \in {"UNKNOWN", "LISTING", "HIERARCHICAL"}
  /\ finished \in BOOLEAN /\ restart \in BOOLEAN /\ failed \in BOOLEAN
  /\ main_continuation_token.at \in 0..Len(Order)
  /\ common_prefix_continuation_token.at \in 0..Len(Order)
  /\ current_common_prefix \in Seq(Range(Encode)) \cup Seq(Range(Decode))
  /\ common_prefixes \subseteq Seq(Range(Encode))
  /\ expanded \in [Keys -> Nat]
  /\ stable \subseteq present /\ present \subseteq ever /\ ever \subseteq Keys

Wanted(k) == Last(Order[k]) # "" /\ Matches(Order[k], pattern)

\* No file is read twice and none is made up: whatever the order of pages and
\* folders, the change to the hierarchical listing and the writes of others, a
\* key is expanded at most once, and only if it was there and matches.
ListedOnce ==
  \A k \in Keys : expanded[k] > 0 => expanded[k] = 1 /\ k \in ever /\ Wanted(k)

\* No file is missed: when the glob is over, every matching key that was there
\* all the time has been expanded.
NothingLost == finished => \A k \in stable : Wanted(k) => expanded[k] = 1

\* The glob ends.
GlobTerminates == <>(finished \/ failed)
=============================================================================
