----------------------------- MODULE GlobMatch -----------------------------
(***************************************************************************)
(* The two recursive matchers of object names against glob patterns: Match *)
(* of s3fs.cpp, which also filters the folders a listing descends into,    *)
(* and Match of hffs.cpp.  A name is the sequence of its components, a     *)
(* pattern the sequence of the sets of components that its components      *)
(* match (what duckdb's Glob on one component answers); AnyDepth stands    *)
(* for "**".                                                               *)
(***************************************************************************)
EXTENDS Naturals, Sequences, SequencesExt

AnyDepth == {"**"}

\* The set of what is left of s after some of its components are dropped, at
\* least one component being left.
Rests(s) == {SubSeq(s, i, Len(s)) : i \in DOMAIN s}

-----------------------------------------------------------------------------
(***************************************************************************)
(* The code.                                                               *)
(***************************************************************************)
\* Match of s3fs.cpp.  With completed false the key is a folder, and the
\* question is whether some key below it can match.
Match(key, pattern, completed) ==
  LET M[p \in Seq(SUBSET STRING)] == [k \in Seq(STRING) |->
        \/ k = <<>> /\ ~completed
        \/ k = <<>> /\ p = <<>>
        \/ /\ k # <<>> /\ p # <<>>
           /\ IF Head(p) = AnyDepth
              THEN \/ Tail(p) = <<>>
                   \/ \E rest \in Rests(k) : M[Tail(p)][rest]
                   \/ ~completed
              ELSE Head(k) \in Head(p) /\ M[Tail(p)][Tail(k)]]
  IN  M[pattern][key]

\* Match of hffs.cpp.
HFMatch(key, pattern) ==
  LET M[p \in Seq(SUBSET STRING)] == [k \in Seq(STRING) |->
        \/ k = <<>> /\ p = <<>>
        \/ /\ k # <<>> /\ p # <<>>
           /\ IF Head(p) = AnyDepth
              THEN \/ Tail(p) = <<>>
                   \/ \E rest \in Rests(k) : M[Tail(p)][rest]
              ELSE Head(k) \in Head(p) /\ M[Tail(p)][Tail(k)]]
  IN  M[pattern][key]

-----------------------------------------------------------------------------
(***************************************************************************)
(* What a pattern means, without recursion: its components are laid over   *)
(* the name's in order.                                                    *)
(***************************************************************************)
\* f gives every component of the name the component of the pattern that
\* covers it.  "**" covers any number of components, and at least one when it
\* ends the pattern; every other component covers one that it matches.
Covers(f, key, pattern) ==
  /\ \A i, j \in DOMAIN key : i < j => f[i] <= f[j]
  /\ \A p \in DOMAIN pattern :
       LET covered == {i \in DOMAIN key : f[i] = p} IN
         IF pattern[p] = AnyDepth
         THEN p = Len(pattern) => covered # {}
         ELSE \E i \in DOMAIN key : covered = {i} /\ key[i] \in pattern[p]

Matches(key, pattern) ==
  \E f \in [DOMAIN key -> DOMAIN pattern] : Covers(f, key, pattern)

\* What a lookahead of at most depth more components finds below a folder.
CanMatchBelow(dir, pattern, names, depth) ==
  \E n \in 0..depth : \E rest \in [1..n -> names] : Matches(dir \o rest, pattern)
=============================================================================
