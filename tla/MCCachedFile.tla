---------------------------- MODULE MCCachedFile ----------------------------
(* CachedFile for TLC.                                                     *)
EXTENDS CachedFile

CONSTANTS t1, t2, t3, h1, h2, h3

\* Every thread has a handle of its own.
Own == [t \in Threads |-> IF t = t1 THEN h1 ELSE IF t = t2 THEN h2 ELSE h3]
Plain ==
  [handle_of |-> Own, handles |-> Handles,
   opener |-> [h \in Handles |-> IF h = h1 THEN t1 ELSE IF h = h2 THEN t2 ELSE t3],
   downloads |-> {h1, h2}, ranges |-> FALSE, redirects |-> FALSE,
   use_after_failure |-> FALSE, can_fail |-> TRUE, max_opens |-> 2, max_files |-> 2]

Regular == [
  \* Two handles download the file, one asks for its length first and falls back
  \* to a download when it reads.  Each handle twice.
  opens     |-> Plain,
  \* Handles that errors redirect and that are used on after a failure.
  exclusion |-> [Plain EXCEPT !.handles = {h1, h2}, !.downloads = {h1},
                              !.redirects = TRUE, !.use_after_failure = TRUE]]

Once == [Plain EXCEPT !.can_fail = FALSE, !.max_opens = 1, !.max_files = 1]
\* Two threads read with one handle, and the server does not know ranges.
Shared ==
  [shared |-> [Once EXCEPT !.handle_of = [Own EXCEPT ![t2] = h1],
                           !.handles = {h1}, !.downloads = {}]]
\* Three handles that download the file, each with a thread of its own.
Waiters == [waiters |-> [Once EXCEPT !.downloads = Handles]]
\* Three handles that read what their server has no ranges of; errors name a
\* region, and lengths disagree.
Redirected ==
  [redirected |-> [Plain EXCEPT !.downloads = {}, !.redirects = TRUE,
                                !.max_opens = 1, !.max_files = 3]]
\* One handle; the download fails with an error that names a region.
Region ==
  [region |-> [Once EXCEPT !.handles = {h1}, !.downloads = {h1},
                           !.can_fail = TRUE, !.redirects = TRUE]]
=============================================================================
