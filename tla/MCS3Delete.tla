----------------------------- MODULE MCS3Delete -----------------------------
(* S3Delete for TLC.                                                       *)
EXTENDS S3Delete

\* Two secrets; three paths of one directory and bucket, and one of each in
\* another directory and another bucket.
PathSecret == [p \in AllPaths |-> IF p \in {"a1", "a2", "a3", "b1"} THEN "s1" ELSE "s2"]
PathHost == [p \in AllPaths |-> IF p = "h1" THEN "other" ELSE "bucket"]
PathDir == [p \in AllPaths |-> IF p = "b1" THEN "b/" ELSE "a/"]

Regular == [
  \* A batch of two chunks, a batch of another secret and one in a bucket that
  \* refuses; requests, keys and refreshes fail.
  faults |-> [paths |-> AllPaths \ {"b1"}, denied |-> {"other"}, can_fail |-> TRUE,
              far_apart |-> FALSE, max_expiry |-> 1, sessions |-> 2],
  \* Nothing fails but credentials, twice and at any time; a directory more.
  expiry |-> [paths |-> AllPaths \ {"h1"}, denied |-> {}, can_fail |-> FALSE,
              far_apart |-> TRUE, max_expiry |-> 2, sessions |-> 4]]
=============================================================================
