------------------------------ MODULE MCS3Glob ------------------------------
(* S3Glob for TLC.                                                         *)
EXTENDS S3Glob

\* Folders with a marker, with files, with a folder in them, and a file and a
\* folder of the same name.
FolderOrder == << <<"a">>, <<"d", "">>, <<"d", "a">>, <<"d", "d">>,
                  <<"d", "d", "a">>, <<"d", "d", "d">>,
                  <<"d e">>, <<"d e", "a">>, <<"d e", "d">> >>
FolderNames == {"", "a", "d", "d e"}
FolderEncode == [n \in FolderNames |-> IF n = "d e" THEN "d+e" ELSE n]
FolderDecode == [n \in FolderNames \cup {"d+e"} |-> IF n = "d+e" THEN "d e" ELSE n]
StartsD == {"d", "d e"}
Files == FolderNames \ {""}
\* "d*/*", "d*/*/d", "d*/*e/*" and "d*/**".
FolderPatterns == {<<StartsD, Files>>, <<StartsD, Files, {"d"}>>,
                   <<StartsD, AnyDepth>>, <<StartsD, {"d e"}, Files>>}
Bucket == <<>>
\* "d*", "d*/?", "d*/?/?" and "d*/?/?/?", every "?" being "*", "a", "d", "d e" or "**".
AllPatterns ==
  {<<StartsD>> \o p :
     p \in UNION {[1..n -> {Files, {"a"}, {"d"}, {"d e"}, AnyDepth}] : n \in 0..3}}

Regular == [
  \* Other clients write and requests fail while folders are read.
  folders |-> [patterns |-> FolderPatterns, allow_recursive |-> TRUE,
               can_fail |-> TRUE, max_writes |-> 2],
  \* Every pattern, with nothing in the way.
  patterns |-> [patterns |-> AllPatterns, allow_recursive |-> TRUE,
                can_fail |-> FALSE, max_writes |-> 0],
  \* The flat listing only.
  flat |-> [patterns |-> FolderPatterns, allow_recursive |-> FALSE,
            can_fail |-> FALSE, max_writes |-> 1]]

\* The matcher on its own: every key of up to three components against every
\* pattern of up to three.  A complete key matches exactly when the pattern can
\* be laid over it; the filter drops a folder exactly when no key in it can match.
SmallKeys == UNION {[1..n -> {"a", "b"}] : n \in 0..3}
SmallPatterns ==
  UNION {[1..n -> {{"a"}, {"b"}, {"a", "b"}, AnyDepth}] : n \in 1..3}
ASSUME MatchIsExact == \A k \in SmallKeys, p \in SmallPatterns :
  /\ Match(k, p, TRUE) <=> Matches(k, p)
  /\ Match(k, p, FALSE) <=> CanMatchBelow(k, p, {"a", "b"}, Len(p))

\* Two files in a folder with a plus, and the pattern "x+*/*".
PlusOrder == << <<"x+y", "a">>, <<"x+y", "b">>, <<"x+y", "c">>, <<"x+y", "d">> >>
PlusNames == {"", "a", "b", "c", "d", "x+y"}
PlusTexts == PlusNames \cup {"x%2By", "x y"}
PlusEncode == [n \in PlusNames |-> IF n = "x+y" THEN "x%2By" ELSE n]
PlusDecode == [n \in PlusTexts |->
  CASE n = "x%2By" -> "x+y" [] n = "x+y" -> "x y" [] OTHER -> n]
StartsPlus == {"x+y"}
Plus == [plus |-> [patterns |-> {<<StartsPlus, PlusNames \ {""}>>},
                   allow_recursive |-> TRUE, can_fail |-> FALSE, max_writes |-> 0]]
=============================================================================
