--------------------------- MODULE S3ObjectWriter ---------------------------
(***************************************************************************)
(* What a file handle opened for writing on s3:// promises its caller,     *)
(* without any of the machinery (buffers, parts, upload threads) that      *)
(* keeps the promise: the object is replaced in one step, by exactly the   *)
(* bytes written, and a normal return of FileSync or Close means that it   *)
(* has been replaced.                                                      *)
(*                                                                         *)
(* Content(n) is the object a caller that wrote n bytes expects to find;   *)
(* NoObject is whatever the bucket held under that key before the handle   *)
(* was opened.                                                             *)
(***************************************************************************)
EXTENDS Naturals

CONSTANTS Content(_), NoObject

VARIABLES
    offset,     \* bytes accepted by Write so far
    sealed,     \* FileSync, Close or the destructor has been entered
    object,     \* what a GET of the key returns
    failed,     \* some call has ended in an exception
    acked       \* FileSync or Close returned, and no call had failed before

vars == <<offset, sealed, object, failed, acked>>

Init ==
    /\ offset = 0
    /\ sealed = FALSE
    /\ object = NoObject
    /\ failed = FALSE
    /\ acked = FALSE

Append ==
    /\ ~failed /\ ~sealed
    /\ offset' \in Nat /\ offset' > offset
    /\ UNCHANGED <<sealed, object, failed, acked>>

Seal ==
    /\ sealed' = TRUE
    /\ UNCHANGED <<offset, object, failed, acked>>

\* The object appears at once and whole.  The same step may also be the one
\* that returns to the caller or that fails: a request can take effect and
\* its answer still be an error.
Publish ==
    /\ sealed
    /\ offset > 0
    /\ object = NoObject
    /\ object' = Content(offset)
    /\ \/ UNCHANGED <<failed, acked>>
       \/ failed' = TRUE /\ UNCHANGED acked
       \/ ~failed /\ acked' = TRUE /\ UNCHANGED failed
    /\ UNCHANGED <<offset, sealed>>

Fail ==
    /\ failed' = TRUE
    /\ UNCHANGED <<offset, sealed, object, acked>>

\* An empty file is never created: the code has no part to upload for it.
Acknowledge ==
    /\ sealed
    /\ ~failed
    /\ offset > 0 => object = Content(offset)
    /\ acked' = TRUE
    /\ UNCHANGED <<offset, sealed, object, failed>>

Next == Append \/ Seal \/ Publish \/ Fail \/ Acknowledge

Spec == Init /\ [][Next]_vars
=============================================================================
