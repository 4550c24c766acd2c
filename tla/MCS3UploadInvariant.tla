------------------------ MODULE MCS3UploadInvariant ------------------------
(***************************************************************************)
(* The inductive invariant of the write path on small instances, before    *)
(* and beside its proof.                                                   *)
(***************************************************************************)
EXTENDS S3MultiPartUploadProofs
=============================================================================
