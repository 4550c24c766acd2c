------------------------------- MODULE HFGlob -------------------------------
(***************************************************************************)
(* HuggingFaceFileSystem::Glob (hffs.cpp): walks the directories of a      *)
(* repository below the first wildcard, page by page, and matches the      *)
(* files it has found against the pattern.                                 *)
(*                                                                         *)
(* A page is the text of a JSON array, which ParseListResult scans; here   *)
(* it is the sequence of the tokens that the scanner knows.  External: the *)
(* server, commits to the repository by others, and the request loop of    *)
(* HTTPUtil, which repeats an attempt that broke up to Retries times.      *)
(* Names that S3Glob has too begin with HF, for GlobProofs extends both.   *)
(***************************************************************************)
EXTENDS GlobMatch, FiniteSets

CONSTANTS
  SharedPath,   \* the directory before the first wildcard
  Written,      \* how ParseListResult reads the name of a path in its text
  MaxPerPage,   \* hf_max_per_page
  Retries,      \* http_retries
  Repositories  \* the situations there may be, by name, see below

\* A situation: the paths of files and directories, in the server's order; those
\* that are directories, those that are neither, and those that commits add
\* while the glob is under way; the patterns (see GlobMatch); can_fail, whether
\* attempts may break; and streaming, whether the content handler gets the body
\* as it arrives (httplib) and not when it is complete (curl).  What a path is
\* in are directories, there as long as it is, and what a pattern matches begins
\* with the directory before its first wildcard (so no "?" is before that one).
IsRepository(sit) ==
  /\ sit.order \in Seq(Seq(STRING)) /\ IsInjective(sit.order)
  /\ sit.dirs \cup sit.odd \cup sit.late \subseteq Range(sit.order)
  /\ \A p \in Range(sit.order) : IsStrictPrefix(SharedPath, p) =>
       \A n \in Len(SharedPath) + 1 .. Len(p) - 1 :
         LET d == SubSeq(p, 1, n) IN d \in sit.dirs /\ (d \in sit.late => p \in sit.late)
  /\ \A q \in sit.patterns :
       /\ q \in Seq(SUBSET STRING)
       /\ \A p \in Range(sit.order) : Matches(p, q) => IsStrictPrefix(SharedPath, p)
  /\ {sit.streaming, sit.can_fail} \subseteq BOOLEAN

ASSUME RepositoryAssumption ==
  /\ SharedPath \in Seq(STRING)
  /\ \A s \in DOMAIN Repositories :
       /\ IsRepository(Repositories[s])
       /\ Range(Repositories[s].order) \subseteq DOMAIN Written
ASSUME HFBoundAssumption == MaxPerPage \in Nat \ {0} /\ Retries \in Nat

VARIABLES
  repository,      \* the name of the situation
  hf_pattern,      \* the pattern of this glob
  tree,            \* the server: the paths there are
  files, dirs,     \* what was found; the directories to be listed
  next_page_url,   \* a directory and the position in it, or NoUrl
  response, link_header_result,   \* of the request under way
  scanner,         \* the variables of ParseListResult
  tries, pc

HFVars == <<hf_pattern, tree, files, dirs, next_page_url, response, link_header_result,
            scanner, tries, pc>>

Repository == Repositories[repository]
HFOrder == Repository.order
Dirs == Repository.dirs
Odd == Repository.odd
Late == Repository.late
HFPatterns == Repository.patterns
AttemptsBreak == Repository.can_fail
Streaming == Repository.streaming

NoUrl == [dir |-> <<>>, after |-> -1]
Position(p) == CHOOSE i \in DOMAIN HFOrder : HFOrder[i] = p

NewScanner == [entry |-> FALSE, nested |-> 0, type |-> "unknown", path |-> <<>>]

HFInit ==
  /\ repository \in DOMAIN Repositories /\ hf_pattern \in HFPatterns /\ tree = Range(HFOrder) \ Late
  /\ files = <<>> /\ dirs = <<SharedPath>>
  /\ next_page_url = NoUrl /\ response = <<>> /\ link_header_result = NoUrl
  /\ scanner = NewScanner
  /\ tries = 0 /\ pc = "loop"

-----------------------------------------------------------------------------
(***************************************************************************)
(* Mutants.                                                                *)
(***************************************************************************)
\* current_string is not cleared at the end of an entry.
StringKept == [NewScanner EXCEPT !.path = scanner.path]
\* The page that was asked for is asked for again.
SamePage(link) == next_page_url
\* The directories found before are forgotten.
OnlyNewDir(stack, d) == <<d>>

-----------------------------------------------------------------------------
(***************************************************************************)
(* The server.                                                             *)
(***************************************************************************)
\* A set of positions in order, as a loop over them visits them.
Increasing(S) ==
  [n \in 1 .. Cardinality(S) |-> CHOOSE i \in S : Cardinality({j \in S : j < i}) = n - 1]

Children(d) == {p \in tree : p # <<>> /\ Front(p) = d}
\* The paths of the page at url.
HFPage(url) ==
  LET rest == {i \in DOMAIN HFOrder : HFOrder[i] \in Children(url.dir) /\ i > url.after}
      on   == {i \in rest : Cardinality({j \in rest : j < i}) < MaxPerPage}
  IN  Increasing(on)
\* The Link header.
LinkAfter(url) ==
  LET page == HFPage(url) IN
  IF \E p \in Children(url.dir) : page # <<>> /\ Position(p) > Last(page)
    THEN [dir |-> url.dir, after |-> Last(page)] ELSE NoUrl

Open  == [kind |-> "open", is |-> "{"]
Close == [kind |-> "close", is |-> "}"]
TypeOf(p) == CASE p \in Dirs -> "directory" [] p \in Odd -> "unknown" [] OTHER -> "file"
\* One entry, with an object in it.
Entry(p) ==
  << Open, [kind |-> "type", is |-> TypeOf(p)],
     Open, Close, [kind |-> "path", is |-> p], Close >>
Tokens(page) ==
  [k \in 1 .. 6 * Len(page) |-> Entry(HFOrder[page[(k + 5) \div 6]])[((k - 1) % 6) + 1]]
HFBody(url) == Tokens(HFPage(url))

-----------------------------------------------------------------------------
(***************************************************************************)
(* ParseListResult.                                                        *)
(***************************************************************************)
\* A directory is found.
WithDir(stack, d) == Append(stack, d)

Scan(s, token) ==
  CASE token.kind = "open" /\ ~s.entry -> [s EXCEPT !.entry = TRUE, !.type = "unknown"]
    [] token.kind = "open" /\ s.entry -> [s EXCEPT !.nested = @ + 1]
    [] token.kind = "close" /\ s.entry -> [s EXCEPT !.nested = @ - 1]
    [] token.kind = "type" /\ s.entry -> [s EXCEPT !.type = token.is]
    [] token.kind = "path" /\ s.entry -> [s EXCEPT !.path = @ \o Written[token.is]]
    [] OTHER -> s

EndsEntry(s, token) == token.kind = "close" /\ s.entry /\ s.nested = 0

\* A token that ends no entry.  Names in one entry are joined.
ScanToken ==
  /\ pc = "parse" /\ response # <<>> /\ ~EndsEntry(scanner, Head(response))
  /\ scanner' = Scan(scanner, Head(response))
  /\ response' = Tail(response)
  /\ UNCHANGED <<hf_pattern, tree, files, dirs, next_page_url, link_header_result, tries, pc>>

\* The end of an entry.
Cleared == NewScanner
ScanEntry ==
  /\ pc = "parse" /\ response # <<>> /\ EndsEntry(scanner, Head(response))
  /\ scanner' = Cleared /\ response' = Tail(response)
  /\ \/ scanner.type = "file" /\ scanner.path # <<>>
        /\ files' = Append(files, scanner.path) /\ UNCHANGED <<dirs, pc>>
     \/ scanner.type = "directory" /\ scanner.path # <<>>
        /\ dirs' = WithDir(dirs, scanner.path) /\ UNCHANGED <<files, pc>>
     \/ /\ scanner.type = "unknown" \/ scanner.path = <<>>
        /\ pc' = "thrown" /\ UNCHANGED <<files, dirs>>
  /\ UNCHANGED <<hf_pattern, tree, next_page_url, link_header_result, tries>>

ParseListResultEnds ==
  /\ pc = "parse" /\ response = <<>>
  /\ pc' = "loop"
  /\ UNCHANGED <<hf_pattern, tree, files, dirs, next_page_url, response, link_header_result,
                 scanner, tries>>

-----------------------------------------------------------------------------
(***************************************************************************)
(* Glob and ListHFRequest.                                                 *)
(***************************************************************************)
NextPage(link) == link

\* The page to be read next: of the directory under way, or of another one.
StartRequest ==
  /\ pc = "loop"
  /\ \/ next_page_url # NoUrl /\ UNCHANGED <<dirs, next_page_url>>
     \/ /\ next_page_url = NoUrl /\ dirs # <<>>
        /\ dirs' = Front(dirs)
        /\ next_page_url' = [dir |-> Last(dirs), after |-> 0]
  /\ response' = <<>> /\ link_header_result' = NoUrl /\ tries' = 0
  /\ pc' = "request"
  /\ UNCHANGED <<hf_pattern, tree, files, scanner>>

\* The header is kept once there is one.  One that cannot be parsed ends the listing
\* with an exception, as a request that fails does (HFRequestFails).
ReceivedLink ==
  LET link == LinkAfter(next_page_url) IN IF link # NoUrl THEN link ELSE link_header_result

\* An attempt that succeeds: the page is to be parsed.
RequestSucceeds ==
  /\ pc = "request"
  /\ response' = response \o HFBody(next_page_url)
  /\ link_header_result' = ReceivedLink
  /\ next_page_url' = NextPage(ReceivedLink)
  /\ scanner' = NewScanner
  /\ pc' = "parse"
  /\ UNCHANGED <<hf_pattern, tree, files, dirs, tries>>

\* An attempt that breaks after a part of the body, and is repeated.
RequestBreaks ==
  /\ pc = "request" /\ AttemptsBreak /\ tries < Retries
  /\ tries' = tries + 1
  /\ \/ UNCHANGED <<response, link_header_result>>
     \/ /\ Streaming
        /\ \E text \in {HFBody(next_page_url)} : \E n \in 0 .. Len(text) :
             response' = response \o SubSeq(text, 1, n)
        /\ link_header_result' = ReceivedLink
  /\ UNCHANGED <<hf_pattern, tree, files, dirs, next_page_url, scanner, pc>>

\* The request fails for good.
HFRequestFails ==
  /\ pc = "request" /\ AttemptsBreak
  /\ pc' = "thrown"
  /\ UNCHANGED <<hf_pattern, tree, files, dirs, next_page_url, response, link_header_result,
                 scanner, tries>>

\* There are no more pages: the files that match are the result.
Finish ==
  /\ pc = "loop" /\ next_page_url = NoUrl /\ dirs = <<>>
  /\ LET kept == Increasing({i \in DOMAIN files : HFMatch(files[i], hf_pattern)})
     IN  files' = [n \in DOMAIN kept |-> files[kept[n]]]
  /\ pc' = "done"
  /\ UNCHANGED <<hf_pattern, tree, dirs, next_page_url, response, link_header_result,
                 scanner, tries>>

\* Somebody commits a file, and with it the directories it is in.
Commit ==
  /\ \E p \in Late \ (tree \cup Dirs) : tree' = tree \cup {q \in Range(HFOrder) : IsPrefix(q, p)}
  /\ UNCHANGED <<hf_pattern, files, dirs, next_page_url, response, link_header_result,
                 scanner, tries, pc>>

Glob ==
  \/ StartRequest \/ RequestSucceeds \/ RequestBreaks \/ HFRequestFails
  \/ ScanToken \/ ScanEntry \/ ParseListResultEnds \/ Finish
HFNext == (Glob \/ Commit) /\ UNCHANGED repository

HFSpec == HFInit /\ [][HFNext]_<<HFVars, repository>>
\* The caller waits in Glob, which goes on.
HFFairSpec == HFSpec /\ WF_HFVars(Glob)

-----------------------------------------------------------------------------
(***************************************************************************)
(* Properties.                                                             *)
(***************************************************************************)
\* Type correctness.
HFTypeOK ==
  /\ pc \in {"loop", "request", "parse", "done", "thrown"} /\ tries \in 0 .. Retries
  /\ Range(files) \subseteq Range(HFOrder) \ Dirs /\ Range(dirs) \subseteq Dirs \cup {SharedPath}
  /\ next_page_url.after \in -1 .. Len(HFOrder)

IsFile(p) == TypeOf(p) = "file"

HFWanted(p) == IsFile(p) /\ Matches(p, hf_pattern)

\* Whatever the pages, the order of the directories and the attempts that broke,
\* a glob that returns has found every matching file that was there all the
\* time, has found none twice, and has found nothing else.
FilesAreExact ==
  pc = "done" =>
    /\ \A p \in Range(HFOrder) \ Late : HFWanted(p) => p \in Range(files)
    /\ IsInjective(files)
    /\ \A p \in Range(files) : p \in tree /\ HFWanted(p)

\* The same of the default client, which hands over a body when it is complete.
FilesAreExactByCurl == ~Streaming => FilesAreExact

\* Glob returns.
GlobReturns == <>(pc \in {"done", "thrown"})
=============================================================================
