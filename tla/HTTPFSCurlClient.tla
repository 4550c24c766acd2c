-------------------------- MODULE HTTPFSCurlClient --------------------------
(***************************************************************************)
(* HTTPFSCurlClient (httpfs_curl_client.cpp): one libcurl easy handle that *)
(* serves one request after the other.  The handle keeps every option      *)
(* until it is set again, so what a request puts on the wire depends on    *)
(* what the requests before it left behind.                                *)
(*                                                                         *)
(* A client is a record of the options that differ between requests, of    *)
(* what it points to (memory of the query that uses it, which is gone when *)
(* the query is), and of the parameters it was initialized with.           *)
(***************************************************************************)
CONSTANTS
  None,    \* a null pointer, an empty string, an option that is not set
  Freed    \* a pointer to memory that is gone

Verbs == {"GET", "HEAD", "PUT", "DELETE", "POST"}

\* A new easy handle, with the options libcurl gives it.
NewHandle(c) ==
  [c EXCEPT !.method = "GET", !.custom = None, !.fields = None, !.watch = None,
            !.identity = FALSE]

\* A client before its first Initialize: it has no handle.
NewClient(base) ==
  [base |-> base, token |-> Freed, state |-> None, info |-> Freed,
   method |-> "GET", custom |-> None, fields |-> None, watch |-> None,
   identity |-> FALSE]

-----------------------------------------------------------------------------
(***************************************************************************)
(* curl_easy_setopt, for the options that interact.                        *)
(***************************************************************************)
SetNoBody(c, on) ==
  [c EXCEPT !.method = IF on THEN "HEAD" ELSE IF @ = "HEAD" THEN "GET" ELSE @]
SetHttpGet(c) == [c EXCEPT !.method = "GET"]
SetPost(c, on) == [c EXCEPT !.method = IF on THEN "POST" ELSE "GET"]
\* Setting the fields of a POST, even to none, makes the request a POST.
SetPostFields(c, body) == [c EXCEPT !.fields = body, !.method = "POST"]
SetCustom(c, verb) == [c EXCEPT !.custom = verb]

\* What curl_easy_perform sends.
WireVerb(c) == IF c.custom # None THEN c.custom ELSE c.method
WireBody(c) == IF c.method = "POST" THEN c.fields ELSE None

-----------------------------------------------------------------------------
(***************************************************************************)
(* Mutants.                                                                *)
(***************************************************************************)
\* The handle is kept whatever the bearer token.
InitializeKeepsHandle(c, p, query) ==
  [c EXCEPT !.state = query, !.info = "own", !.token = IF @ = Freed THEN p.token ELSE @]
\* The hook of the last request stays armed.
KeepHook(c) == c
\* Only the requests with a body can be cancelled.
ArmForBodies(c, flag) == [c EXCEPT !.watch = IF c.fields = None THEN @ ELSE flag]
\* The body of a PUT stays set.
RestoredKeepsFields(c, verb) ==
  IF verb = "HEAD" THEN SetHttpGet(SetNoBody(c, FALSE)) ELSE SetCustom(c, None)

-----------------------------------------------------------------------------
(***************************************************************************)
(* The client.                                                             *)
(***************************************************************************)
\* Initialize: a new handle for a new token, and new targets of the callbacks.
Initialize(c, p, query) ==
  LET handle == IF c.token = p.token THEN c ELSE NewHandle(c)
  IN  [handle EXCEPT !.token = p.token, !.state = query, !.info = "own"]

\* Cleanup: the buffers of the last request are released, the targets of the
\* callbacks with them.
Cleanup(c) == [c EXCEPT !.info = Freed]

\* ResetRequestInfo: the cancellation hook of the last request is disarmed.
ResetRequestInfo(c) == [c EXCEPT !.watch = None]

\* ArmCancellation, when the caller supplied a flag.
ArmCancellation(c, flag) == [c EXCEPT !.watch = IF flag = None THEN @ ELSE flag]

\* RequireIdentityResponse and AllowCompressedResponse.
AcceptEncoding(c, r) == [c EXCEPT !.identity = r.verb = "HEAD" \/ r.range]

\* The methods, up to curl->Execute: the options for method and body.  A POST sent as
\* a GET (send_post_as_get_request) is left out: nothing in the repository asks for one.
Get(c)       == SetHttpGet(SetNoBody(c, FALSE))
Head(c)      == SetNoBody(c, TRUE)
Put(c, body) == SetPostFields(SetCustom(c, "PUT"), body)
Delete(c)    == SetCustom(c, "DELETE")
Post(c, body) == SetPostFields(SetPost(c, TRUE), body)

SetVerb(c, r) ==
  CASE r.verb = "GET"    -> Get(c)
    [] r.verb = "HEAD"   -> Head(c)
    [] r.verb = "PUT"    -> Put(c, r.body)
    [] r.verb = "DELETE" -> Delete(c)
    [] r.verb = "POST"   -> Post(c, r.body)

\* A request up to curl->Execute.
Prepared(c, r) ==
  ArmCancellation(SetVerb(AcceptEncoding(ResetRequestInfo(c), r), r), r.flag)

\* What each of them sets back when Execute has returned.
Restored(c, verb) ==
  CASE verb = "GET"    -> c
    [] verb = "HEAD"   -> SetHttpGet(SetNoBody(c, FALSE))
    [] verb = "PUT"    -> SetPostFields(SetCustom(c, None), None)
    [] verb = "DELETE" -> SetCustom(c, None)
    [] verb = "POST"   -> SetPost(SetPostFields(SetCustom(c, None), None), FALSE)

-----------------------------------------------------------------------------
\* Memory of a query that is gone: its state, its interrupt flag, its buffers.
QueryGone(c, query) ==
  [c EXCEPT !.state = IF @ = query THEN Freed ELSE @,
            !.watch = IF @ = query THEN Freed ELSE @]
BodyGone(c, body) == [c EXCEPT !.fields = IF @ = body THEN Freed ELSE @]
=============================================================================
