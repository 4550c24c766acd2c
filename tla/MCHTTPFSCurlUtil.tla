------------------------- MODULE MCHTTPFSCurlUtil -------------------------
(* HTTPFSCurlUtil for TLC.                                                 *)
EXTENDS HTTPFSCurlUtil

CONSTANTS t1, t2, b1, b2, k1, k2

\* The requests of httpfs.cpp and s3fs.cpp: a range is only asked for with GET.
AllKinds == [verb : Verbs, range : {FALSE}] \cup [verb : {"GET"}, range : {TRUE}]
\* Reads only.
Reads == [verb : {"GET"}, range : {TRUE}]

Contended ==
  [users |-> {t1, t2}, cloned |-> {}, bases |-> {b1}, tokens |-> {k1}, kinds |-> Reads,
   contexts |-> {TRUE}, max_sends |-> 1, max_commands |-> 2]
Alone ==
  [Contended EXCEPT !.users = {t1}, !.tokens = {k1, k2}, !.kinds = AllKinds,
                    !.contexts = BOOLEAN, !.max_sends = 4]

Regular == [
  \* Two threads contend for the pools, also with Clear.
  contended |-> Contended,
  \* One thread, whose requests and handles re-use the same clients: every
  \* sequence of four requests, and of two to two endpoints.
  alone     |-> [Alone EXCEPT !.max_commands = 1],
  endpoints |-> [Contended EXCEPT !.users = {t1}, !.bases = {b1, b2}, !.max_sends = 3]]

\* The requests of an S3 handle, which are sent with a clone of its parameters.
CloneOf == [clone |-> [Alone EXCEPT !.cloned = {t1}, !.max_sends = 1]]
=============================================================================
