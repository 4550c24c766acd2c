-------------------------- MODULE MCS3AuthRefresh --------------------------
(* S3AuthRefresh for TLC.                                                  *)
EXTENDS S3AuthRefresh, TLC

CONSTANTS t1, t2, t3, h1, h2, in1, ls, elsewhere

TwoReaders ==
    [owner_of |-> t1 :> h1 @@ t2 :> h1, handles |-> {h1, h2}, listings |-> {},
     open_redirected |-> {}, secret_region |-> elsewhere, denied |-> {},
     can_fail |-> FALSE, max_expiry |-> 1, max_requests |-> 1]
Simple == [TwoReaders EXCEPT !.handles = {h1}]

Regular == [
    \* Two threads read through one handle, a third one through another.
    handles  |-> [TwoReaders EXCEPT !.owner_of = t1 :> h1 @@ t2 :> h1 @@ t3 :> h2,
                                     !.secret_region = Home],
    \* Two threads upload through one input, a third one reads through a
    \* handle; the secret names the wrong region.
    redirect |-> [Simple EXCEPT !.owner_of = t1 :> in1 @@ t2 :> in1 @@ t3 :> h1],
    \* Two threads read through one handle that is redirected, while credentials
    \* expire: its cached clients become stale under requests that are out.
    shared   |-> Simple,
    \* One request after the other, while credentials expire twice.
    again    |-> [Simple EXCEPT !.owner_of = t1 :> in1 @@ t2 :> h1,
                                !.max_expiry = 2, !.max_requests = 2],
    \* One of two uploads is not allowed, and everything may fail.
    failing  |-> [Simple EXCEPT !.owner_of = t1 :> in1 @@ t2 :> in1, !.handles = {},
                                !.denied = {t2}, !.can_fail = TRUE],
    \* One thread lists the files, another one reads one of them.
    listing  |-> [Simple EXCEPT !.owner_of = t1 :> ls @@ t2 :> h1, !.listings = {ls},
                                !.max_expiry = 2]]

\* Two threads of one handle meet a redirect.
SharedHandle == [shared |-> [Simple EXCEPT !.max_expiry = 0]]
\* A listing asks for two pages.
SecondPage == [pages |-> [Regular.listing EXCEPT !.max_expiry = 1, !.max_requests = 2]]
\* Two threads upload to a file whose handle was redirected by its HEAD.
Redirected == [opened |-> [Simple EXCEPT !.owner_of = t1 :> in1 @@ t2 :> in1, !.handles = {},
                                         !.open_redirected = {in1}]]
=============================================================================
