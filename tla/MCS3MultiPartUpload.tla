------------------------ MODULE MCS3MultiPartUpload ------------------------
(* S3MultiPartUpload for TLC; the bounds are in the cfg files.             *)
EXTENDS S3MultiPartUpload
=============================================================================
