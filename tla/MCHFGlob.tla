------------------------------ MODULE MCHFGlob ------------------------------
(* HFGlob for TLC.                                                         *)
EXTENDS HFGlob

Root == <<>>
Repo == << <<"a">>, <<"d">>, <<"e">>, <<"f">>, <<"d", "a">>, <<"d", "b">>, <<"d", "d">>,
           <<"d", "d", "a">>, <<"e", "a">>, <<"e", "s">> >>
Small == << <<"a">>, <<"d">>, <<"e">>, <<"d", "a">> >>
Quoted == << <<"a">>, <<"q\"x">> >>
Names == {"a", "b", "d", "e", "f", "s", "q\"x"}

\* The scanner takes the last name of a path as it is, but ends it at a quote.
Read == [p \in Range(Repo) \cup Range(Small) \cup Range(Quoted) |->
           [p EXCEPT ![Len(p)] = IF @ = "q\"x" THEN "q\\" ELSE @]]

\* "*", "a", "d" and "**", up to three of them.
AllPatterns == UNION {[1..n -> {Names, {"a"}, {"d"}, AnyDepth}] : n \in 1..3}

\* Four directories of up to two pages, one of which a commit adds; attempts that break.
Walk == [order |-> Repo, dirs |-> {<<"d">>, <<"d", "d">>, <<"e">>},
         odd |-> {<<"e", "s">>}, late |-> {<<"d", "b">>, <<"e">>, <<"e", "a">>, <<"e", "s">>},
         patterns |-> {<<Names>>, <<{"d"}, Names>>, <<AnyDepth, {"a"}>>},
         can_fail |-> TRUE, streaming |-> FALSE]
\* The client hands over the body as it arrives, and attempts break anywhere.
Httplib == [order |-> Small, dirs |-> {<<"d">>}, odd |-> {}, late |-> {},
            patterns |-> {<<AnyDepth, {"a"}>>}, can_fail |-> TRUE, streaming |-> TRUE]
Regular == [
  walk |-> Walk,
  httplib |-> Httplib,
  \* Every pattern, with nothing in the way.
  patterns |-> [Walk EXCEPT !.patterns = AllPatterns, !.late = {}, !.odd = {},
                            !.can_fail = FALSE]]

HttplibOnly == [httplib |-> Httplib]
\* A file with a quote in its name.
QuotedOnly == [quoted |-> [Httplib EXCEPT !.order = Quoted, !.dirs = {},
                             !.patterns = {<<{"a", "q\"x"}>>}, !.can_fail = FALSE,
                             !.streaming = FALSE]]

\* The matcher on its own: it accepts a name exactly when the pattern can be laid
\* over it.
ASSUME HFMatchIsExact ==
  \A k \in UNION {[1..n -> {"a", "b"}] : n \in 0..4},
     p \in UNION {[1..n -> {{"a"}, {"b"}, {"a", "b"}, AnyDepth}] : n \in 1..3} :
    HFMatch(k, p) <=> Matches(k, p)
=============================================================================
