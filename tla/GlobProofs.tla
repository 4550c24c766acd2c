----------------------------- MODULE GlobProofs -----------------------------
(***************************************************************************)
(* Globs, for every pattern, bucket, page size, encoding and situation:    *)
(* the recursive matchers (GlobMatch) accept exactly the names that the    *)
(* pattern can be laid over, and the lazy expansion on a bucket (S3Glob)   *)
(* yields every matching key once, and the walk of a repository (HFGlob)   *)
(* finds exactly the matching files.                                        *)
(*                                                                         *)
(* What a recursive matcher computes is proved by a shortest pattern that  *)
(* would be a counterexample.  The invariant of the expansion says which   *)
(* parts of the bucket are still to be read: by the next request at the    *)
(* top, in the current folder, and in the folders that wait.  They do not  *)
(* overlap, nothing read is in them, and nothing is lost between them.     *)
(***************************************************************************)
EXTENDS S3Glob, HFGlob, WellFoundedInduction, FiniteSetTheorems, TLAPS

-----------------------------------------------------------------------------
(***************************************************************************)
(* The matchers.                                                           *)
(***************************************************************************)

\* The head and the tail of a sequence, componentwise.
LEMMA TailOf ==
  ASSUME NEW S, NEW s \in Seq(S), s # <<>>
  PROVE  /\ Head(s) \in S /\ Tail(s) \in Seq(S)
         /\ Len(s) > 0 /\ Len(Tail(s)) = Len(s) - 1
         /\ Head(s) = s[1] /\ \A i \in 1..Len(s) - 1 : Tail(s)[i] = s[i + 1]
  OBVIOUS

\* What is left of a sequence is a sequence over the same set.
LEMMA RestsOf ==
  ASSUME NEW S, NEW s \in Seq(S), NEW rest \in Rests(s)
  PROVE  rest \in Seq(S)
<1>1. PICK i \in DOMAIN s : rest = SubSeq(s, i, Len(s))
  BY DEF Rests
<1>2. QED
  BY <1>1

\* Match answers what one more step of its recursion answers.  The recursive
\* function exists: it is the least set of pairs of a pattern and a key that the
\* step is closed under.
LEMMA MatchUnfolds ==
  ASSUME NEW key \in Seq(STRING), NEW pat \in Seq(SUBSET STRING),
         NEW completed
  PROVE  Match(key, pat, completed) <=>
           \/ key = <<>> /\ ~completed
           \/ key = <<>> /\ pat = <<>>
           \/ /\ key # <<>> /\ pat # <<>>
              /\ IF Head(pat) = AnyDepth
                 THEN \/ Tail(pat) = <<>>
                      \/ \E rest \in Rests(key) : Match(rest, Tail(pat), completed)
                      \/ ~completed
                 ELSE /\ Head(key) \in Head(pat)
                      /\ Match(Tail(key), Tail(pat), completed)
<1> DEFINE P == Seq(SUBSET STRING)
           K == Seq(STRING)
           D == P \X K
           Body(S, p, k) ==
             \/ k = <<>> /\ ~completed
             \/ k = <<>> /\ p = <<>>
             \/ /\ k # <<>> /\ p # <<>>
                /\ IF Head(p) = AnyDepth
                   THEN \/ Tail(p) = <<>>
                        \/ \E rest \in Rests(k) : <<Tail(p), rest>> \in S
                        \/ ~completed
                   ELSE Head(k) \in Head(p) /\ <<Tail(p), Tail(k)>> \in S
           Closed(S) == \A p \in P, k \in K : Body(S, p, k) => <<p, k>> \in S
           Least == {x \in D : \A S \in SUBSET D : Closed(S) => x \in S}
           After == {x \in D : Body(Least, x[1], x[2])}
           F == [p \in P |-> [k \in K |-> <<p, k>> \in Least]]
           Step(M, p, k) ==
             \/ k = <<>> /\ ~completed
             \/ k = <<>> /\ p = <<>>
             \/ /\ k # <<>> /\ p # <<>>
                /\ IF Head(p) = AnyDepth
                   THEN \/ Tail(p) = <<>>
                        \/ \E rest \in Rests(k) : M[Tail(p)][rest]
                        \/ ~completed
                   ELSE Head(k) \in Head(p) /\ M[Tail(p)][Tail(k)]
           Is(M) == M = [p \in P |-> [k \in K |-> Step(M, p, k)]]
           C == CHOOSE M : Is(M)
<1>1. ASSUME NEW S, NEW T, S \subseteq T, NEW p, NEW k, Body(S, p, k)
      PROVE  Body(T, p, k)
  BY <1>1
<1>2. ASSUME NEW p \in P, NEW k \in K, Body(Least, p, k)
      PROVE  <<p, k>> \in Least
  <2> SUFFICES ASSUME NEW S \in SUBSET D, Closed(S) PROVE <<p, k>> \in S
    OBVIOUS
  <2>1. Least \subseteq S
    OBVIOUS
  <2> HIDE DEF Least, Body
  <2>2. Body(S, p, k)
    BY <1>1, <1>2, <2>1
  <2>3. QED
    BY <2>2
<1>3. ASSUME NEW p \in P, NEW k \in K, <<p, k>> \in Least
      PROVE  Body(Least, p, k)
  <2>1. After \subseteq Least
    <3> HIDE DEF Least, Body
    <3>1. QED
      BY <1>2
  <2> HIDE DEF Body
  <2>2. Closed(After)
    <3> HIDE DEF Least
    <3>1. ASSUME NEW q \in P, NEW l \in K, Body(After, q, l) PROVE <<q, l>> \in After
      <4>1. Body(Least, q, l)
        <5> HIDE DEF After
        <5>1. QED
          BY <1>1, <2>1, <3>1
      <4>2. QED
        BY <4>1
    <3>2. QED
      BY <3>1
  <2>3. <<p, k>> \in After
    <3>1. After \in SUBSET D
      OBVIOUS
    <3> HIDE DEF After
    <3>2. QED
      BY <1>3, <2>2, <3>1
  <2>4. QED
    BY <2>3
<1>4. ASSUME NEW p \in P, NEW k \in K, k # <<>>, p # <<>>
      PROVE  Tail(p) \in P /\ Tail(k) \in K /\ Rests(k) \subseteq K
  BY <1>4, TailOf, RestsOf
<1>5. Is(F)
  <2>1. ASSUME NEW p \in P, NEW k \in K
        PROVE  (<<p, k>> \in Least) = Step(F, p, k)
    <3>1. (<<p, k>> \in Least) <=> Body(Least, p, k)
      <4> HIDE DEF Least, Body
      <4>1. QED
        BY <1>2, <1>3
    <3> HIDE DEF Least
    <3>2. ASSUME k # <<>>, p # <<>>
          PROVE  /\ \A rest \in Rests(k) : F[Tail(p)][rest] = (<<Tail(p), rest>> \in Least)
                 /\ F[Tail(p)][Tail(k)] = (<<Tail(p), Tail(k)>> \in Least)
      BY <1>4, <3>2
    <3> HIDE DEF F
    <3>3. ASSUME k # <<>>, p # <<>> PROVE Body(Least, p, k) <=> Step(F, p, k)
      BY <3>2, <3>3
    <3>4. ASSUME ~(k # <<>> /\ p # <<>>) PROVE Body(Least, p, k) <=> Step(F, p, k)
      BY <3>4
    <3>5. (<<p, k>> \in Least) <=> Step(F, p, k)
      <4> HIDE DEF Body, Step
      <4>1. QED
        BY <3>1, <3>3, <3>4
    <3>6. (<<p, k>> \in Least) \in BOOLEAN /\ Step(F, p, k) \in BOOLEAN
      OBVIOUS
    <3> HIDE DEF Step
    <3>7. QED
      BY <3>5, <3>6
  <2> HIDE DEF Least
  <2>2. ASSUME NEW p \in P
        PROVE  [k \in K |-> <<p, k>> \in Least] = [k \in K |-> Step(F, p, k)]
    <3> HIDE DEF F, Step
    <3>1. QED
      BY <2>1
  <2>3. F = [p \in P |-> [k \in K |-> Step(F, p, k)]]
    <3> DEFINE G == F
    <3>1. F = [p \in P |-> [k \in K |-> Step(G, p, k)]]
      <4> HIDE DEF Step, G
      <4>1. \A p \in P : [k \in K |-> <<p, k>> \in Least] = [k \in K |-> Step(G, p, k)]
        BY <2>2 DEF G
      <4>2. QED
        BY <4>1
    <3>2. QED
      BY <3>1
  <2>4. QED
    BY <2>3
<1>6. C = [p \in P |-> [k \in K |-> Step(C, p, k)]]
  <2>1. \E M : Is(M)
    <3> HIDE DEF F, Is
    <3>1. QED
      BY <1>5
  <2> HIDE DEF Is
  <2>2. Is(C)
    BY <2>1
  <2> USE DEF Is
  <2> HIDE DEF C
  <2>3. QED
    BY <2>2
<1>7. ASSUME NEW p \in P, NEW k \in K PROVE Match(k, p, completed) = C[p][k]
  BY Zenon DEF Match
<1> HIDE DEF C
<1>8. ASSUME NEW p \in P, NEW k \in K PROVE C[p][k] = Step(C, p, k)
  <2> DEFINE R(p_1, k_1) == Step(C, p_1, k_1)
  <2>1. C = [p_1 \in P |-> [k_1 \in K |-> R(p_1, k_1)]]
    BY <1>6
  <2> HIDE DEF R
  <2>2. C[p][k] = R(p, k)
    BY <2>1
  <2> USE DEF R
  <2>3. QED
    BY <2>2
<1>9. Match(key, pat, completed) <=> Step(C, pat, key)
  <2>1. Match(key, pat, completed) = C[pat][key]
    BY <1>7
  <2>2. C[pat][key] = Step(C, pat, key)
    BY <1>8
  <2>3. QED
    BY ONLY <2>1, <2>2
<1>10. ASSUME key # <<>>, pat # <<>>
       PROVE  /\ \A rest \in Rests(key) : C[Tail(pat)][rest] = Match(rest, Tail(pat), completed)
              /\ C[Tail(pat)][Tail(key)] = Match(Tail(key), Tail(pat), completed)
  BY <1>4, <1>7, <1>10
<1>11. CASE key = <<>> \/ pat = <<>>
  BY <1>9, <1>11
<1>12. CASE key # <<>> /\ pat # <<>>
  BY <1>9, <1>10, <1>12
<1>13. QED
  BY <1>11, <1>12

\* The same of the matcher of hffs.cpp.
LEMMA HFMatchUnfolds ==
  ASSUME NEW key \in Seq(STRING), NEW pat \in Seq(SUBSET STRING)
  PROVE  HFMatch(key, pat) <=>
           \/ key = <<>> /\ pat = <<>>
           \/ /\ key # <<>> /\ pat # <<>>
              /\ IF Head(pat) = AnyDepth
                 THEN \/ Tail(pat) = <<>>
                      \/ \E rest \in Rests(key) : HFMatch(rest, Tail(pat))
                 ELSE /\ Head(key) \in Head(pat)
                      /\ HFMatch(Tail(key), Tail(pat))
<1> DEFINE P == Seq(SUBSET STRING)
           K == Seq(STRING)
           D == P \X K
           Body(S, p, k) ==
             \/ k = <<>> /\ p = <<>>
             \/ /\ k # <<>> /\ p # <<>>
                /\ IF Head(p) = AnyDepth
                   THEN \/ Tail(p) = <<>>
                        \/ \E rest \in Rests(k) : <<Tail(p), rest>> \in S
                   ELSE Head(k) \in Head(p) /\ <<Tail(p), Tail(k)>> \in S
           Closed(S) == \A p \in P, k \in K : Body(S, p, k) => <<p, k>> \in S
           Least == {x \in D : \A S \in SUBSET D : Closed(S) => x \in S}
           After == {x \in D : Body(Least, x[1], x[2])}
           F == [p \in P |-> [k \in K |-> <<p, k>> \in Least]]
           Step(M, p, k) ==
             \/ k = <<>> /\ p = <<>>
             \/ /\ k # <<>> /\ p # <<>>
                /\ IF Head(p) = AnyDepth
                   THEN \/ Tail(p) = <<>>
                        \/ \E rest \in Rests(k) : M[Tail(p)][rest]
                   ELSE Head(k) \in Head(p) /\ M[Tail(p)][Tail(k)]
           Is(M) == M = [p \in P |-> [k \in K |-> Step(M, p, k)]]
           C == CHOOSE M : Is(M)
<1>1. ASSUME NEW S, NEW T, S \subseteq T, NEW p, NEW k, Body(S, p, k)
      PROVE  Body(T, p, k)
  BY <1>1
<1>2. ASSUME NEW p \in P, NEW k \in K, Body(Least, p, k)
      PROVE  <<p, k>> \in Least
  <2> SUFFICES ASSUME NEW S \in SUBSET D, Closed(S) PROVE <<p, k>> \in S
    OBVIOUS
  <2>1. Least \subseteq S
    OBVIOUS
  <2> HIDE DEF Least, Body
  <2>2. Body(S, p, k)
    BY <1>1, <1>2, <2>1
  <2>3. QED
    BY <2>2
<1>3. ASSUME NEW p \in P, NEW k \in K, <<p, k>> \in Least
      PROVE  Body(Least, p, k)
  <2>1. After \subseteq Least
    <3> HIDE DEF Least, Body
    <3>1. QED
      BY <1>2
  <2> HIDE DEF Body
  <2>2. Closed(After)
    <3> HIDE DEF Least
    <3>1. ASSUME NEW q \in P, NEW l \in K, Body(After, q, l) PROVE <<q, l>> \in After
      <4>1. Body(Least, q, l)
        <5> HIDE DEF After
        <5>1. QED
          BY <1>1, <2>1, <3>1
      <4>2. QED
        BY <4>1
    <3>2. QED
      BY <3>1
  <2>3. <<p, k>> \in After
    <3>1. After \in SUBSET D
      OBVIOUS
    <3> HIDE DEF After
    <3>2. QED
      BY <1>3, <2>2, <3>1
  <2>4. QED
    BY <2>3
<1>4. ASSUME NEW p \in P, NEW k \in K, k # <<>>, p # <<>>
      PROVE  Tail(p) \in P /\ Tail(k) \in K /\ Rests(k) \subseteq K
  BY <1>4, TailOf, RestsOf
<1>5. Is(F)
  <2>1. ASSUME NEW p \in P, NEW k \in K
        PROVE  (<<p, k>> \in Least) = Step(F, p, k)
    <3>1. (<<p, k>> \in Least) <=> Body(Least, p, k)
      <4> HIDE DEF Least, Body
      <4>1. QED
        BY <1>2, <1>3
    <3> HIDE DEF Least
    <3>2. ASSUME k # <<>>, p # <<>>
          PROVE  /\ \A rest \in Rests(k) : F[Tail(p)][rest] = (<<Tail(p), rest>> \in Least)
                 /\ F[Tail(p)][Tail(k)] = (<<Tail(p), Tail(k)>> \in Least)
      BY <1>4, <3>2
    <3> HIDE DEF F
    <3>3. ASSUME k # <<>>, p # <<>> PROVE Body(Least, p, k) <=> Step(F, p, k)
      BY <3>2, <3>3
    <3>4. ASSUME ~(k # <<>> /\ p # <<>>) PROVE Body(Least, p, k) <=> Step(F, p, k)
      BY <3>4
    <3>5. (<<p, k>> \in Least) <=> Step(F, p, k)
      <4> HIDE DEF Body, Step
      <4>1. QED
        BY <3>1, <3>3, <3>4
    <3>6. (<<p, k>> \in Least) \in BOOLEAN /\ Step(F, p, k) \in BOOLEAN
      OBVIOUS
    <3> HIDE DEF Step
    <3>7. QED
      BY <3>5, <3>6
  <2> HIDE DEF Least
  <2>2. ASSUME NEW p \in P
        PROVE  [k \in K |-> <<p, k>> \in Least] = [k \in K |-> Step(F, p, k)]
    <3> HIDE DEF F, Step
    <3>1. QED
      BY <2>1
  <2>3. F = [p \in P |-> [k \in K |-> Step(F, p, k)]]
    <3> DEFINE G == F
    <3>1. F = [p \in P |-> [k \in K |-> Step(G, p, k)]]
      <4> HIDE DEF Step, G
      <4>1. \A p \in P : [k \in K |-> <<p, k>> \in Least] = [k \in K |-> Step(G, p, k)]
        BY <2>2 DEF G
      <4>2. QED
        BY <4>1
    <3>2. QED
      BY <3>1
  <2>4. QED
    BY <2>3
<1>6. C = [p \in P |-> [k \in K |-> Step(C, p, k)]]
  <2>1. \E M : Is(M)
    <3> HIDE DEF F, Is
    <3>1. QED
      BY <1>5
  <2> HIDE DEF Is
  <2>2. Is(C)
    BY <2>1
  <2> USE DEF Is
  <2> HIDE DEF C
  <2>3. QED
    BY <2>2
<1>7. ASSUME NEW p \in P, NEW k \in K PROVE HFMatch(k, p) = C[p][k]
  BY Zenon DEF HFMatch
<1> HIDE DEF C
<1>8. ASSUME NEW p \in P, NEW k \in K PROVE C[p][k] = Step(C, p, k)
  <2> DEFINE R(p_1, k_1) == Step(C, p_1, k_1)
  <2>1. C = [p_1 \in P |-> [k_1 \in K |-> R(p_1, k_1)]]
    BY <1>6
  <2> HIDE DEF R
  <2>2. C[p][k] = R(p, k)
    BY <2>1
  <2> USE DEF R
  <2>3. QED
    BY <2>2
<1>9. HFMatch(key, pat) <=> Step(C, pat, key)
  <2>1. HFMatch(key, pat) = C[pat][key]
    BY <1>7
  <2>2. C[pat][key] = Step(C, pat, key)
    BY <1>8
  <2>3. QED
    BY ONLY <2>1, <2>2
<1>10. ASSUME key # <<>>, pat # <<>>
       PROVE  /\ \A rest \in Rests(key) : C[Tail(pat)][rest] = HFMatch(rest, Tail(pat))
              /\ C[Tail(pat)][Tail(key)] = HFMatch(Tail(key), Tail(pat))
  BY <1>4, <1>7, <1>10
<1>11. CASE key = <<>> \/ pat = <<>>
  BY <1>9, <1>11
<1>12. CASE key # <<>> /\ pat # <<>>
  BY <1>9, <1>10, <1>12
<1>13. QED
  BY <1>11, <1>12

\* A set of numbers has a least one.
LEMMA NatMin ==
  ASSUME NEW T, T \subseteq Nat, T # {}
  PROVE  \E n \in T : \A m \in T : n <= m
<1> DEFINE R == {ss \in Nat \X Nat : ss[1] < ss[2]}
<1>1. IsWellFoundedOn(R, Nat)
  BY ONLY NatLessThanWellFounded DEF OpToRel
<1> HIDE DEF R
<1>2. PICK n \in T : \A m \in T : ~(<<m, n>> \in R)
  BY <1>1, WFMin
<1>3. \A m \in T : ~(m < n)
  BY <1>2 DEF R
<1>4. QED
  BY <1>3

\* Induction over sequences: a set that holds a sequence whenever it holds its
\* tail holds them all, for a shortest one outside would have its tail inside.
LEMMA TailInduction ==
  ASSUME NEW T, NEW S, \A s \in Seq(T) : s = <<>> \/ Tail(s) \in S => s \in S
  PROVE  Seq(T) \subseteq S
<1> SUFFICES ASSUME NEW t \in Seq(T), t \notin S PROVE FALSE
  OBVIOUS
<1> DEFINE Bad == {n \in Nat : \E s \in Seq(T) : s \notin S /\ Len(s) = n}
<1>1. Len(t) \in Bad
  OBVIOUS
<1>2. PICK n \in Bad : \A m \in Bad : n <= m
  <2> HIDE DEF Bad
  <2>1. Bad \subseteq Nat
    BY DEF Bad
  <2>2. QED
    BY <1>1, <2>1, NatMin
<1>3. PICK s \in Seq(T) : s \notin S /\ Len(s) = n
  OBVIOUS
<1>4. s # <<>> /\ Tail(s) \notin S
  BY <1>3
<1>5. Tail(s) \in Seq(T) /\ Len(Tail(s)) = n - 1 /\ n - 1 \in Nat
  BY <1>3, <1>4, TailOf
<1>6. n - 1 \in Bad
  BY <1>4, <1>5
<1>7. QED
  BY <1>2, <1>6

\* A strict prefix, componentwise.
LEMMA StrictPrefix ==
  ASSUME NEW T, NEW s \in Seq(T), NEW t \in Seq(T)
  PROVE  IsStrictPrefix(s, t) <=>
           Len(s) < Len(t) /\ \A i \in 1..Len(s) : s[i] = t[i]
<1>1. SubSeq(s, 1, Len(s)) = s
  OBVIOUS
<1>2. ASSUME Len(s) <= Len(t)
      PROVE  (s = SubSeq(t, 1, Len(s))) <=> \A i \in 1..Len(s) : s[i] = t[i]
  BY <1>2
<1>3. ASSUME Len(s) = Len(t), \A i \in 1..Len(s) : s[i] = t[i] PROVE s = t
  BY <1>3
<1>4. QED
  BY <1>1, <1>2, <1>3 DEF IsStrictPrefix, IsPrefix

\* A folder above a key that matches passes the filter of SkipPrefix.
LEMMA FolderOfMatch ==
  ASSUME NEW key \in Seq(STRING), NEW dir \in Seq(STRING), IsStrictPrefix(dir, key),
         NEW pat \in Seq(SUBSET STRING), Match(key, pat, TRUE)
  PROVE  Match(dir, pat, FALSE)
<1> DEFINE P == Seq(SUBSET STRING)
           K == Seq(STRING)
           S == {p \in P : \A k \in K, d \in K :
                   IsStrictPrefix(d, k) /\ Match(k, p, TRUE) => Match(d, p, FALSE)}
<1>1. ASSUME NEW p \in P, p = <<>> \/ Tail(p) \in S, NEW k \in K, NEW d \in K,
             IsStrictPrefix(d, k), Match(k, p, TRUE)
      PROVE  Match(d, p, FALSE)
  <2>1. CASE d = <<>>
    BY <2>1, MatchUnfolds
  <2>2. CASE d # <<>>
    <3>1. Len(d) < Len(k) /\ \A i \in 1..Len(d) : d[i] = k[i]
      BY <1>1, StrictPrefix
    <3>2. k # <<>> /\ Len(d) > 0
      BY <2>2, <3>1
    <3>3. p # <<>> /\ Tail(p) \in P /\ Tail(p) \in S
      BY <1>1, <3>2, MatchUnfolds, TailOf
    <3>4. Head(d) = Head(k) /\ Tail(d) \in K /\ Tail(k) \in K
      BY <2>2, <3>1, <3>2, TailOf
    <3>5. IsStrictPrefix(Tail(d), Tail(k))
      <4>1. Len(Tail(d)) < Len(Tail(k))
        BY <2>2, <3>1, <3>2, TailOf
      <4>2. ASSUME NEW i \in 1..Len(Tail(d)) PROVE Tail(d)[i] = Tail(k)[i]
        <5>1. i + 1 \in 1..Len(d) /\ i \in 1..Len(d) - 1 /\ i \in 1..Len(k) - 1
          BY <2>2, <3>1, TailOf
        <5>2. Tail(d)[i] = d[i + 1] /\ Tail(k)[i] = k[i + 1]
          BY <5>1, <2>2, <3>2, TailOf
        <5>3. QED
          BY <3>1, <5>1, <5>2
      <4>3. QED
        BY <3>4, <4>1, <4>2, StrictPrefix
    <3>6. CASE Head(p) = AnyDepth
      BY <2>2, <3>3, <3>6, MatchUnfolds
    <3>7. CASE Head(p) # AnyDepth
      <4>1. Head(k) \in Head(p) /\ Match(Tail(k), Tail(p), TRUE)
        BY <1>1, <3>2, <3>3, <3>7, MatchUnfolds
      <4>2. Match(Tail(d), Tail(p), FALSE)
        BY <3>3, <3>4, <3>5, <4>1
      <4>3. QED
        BY <2>2, <3>3, <3>4, <3>7, <4>1, <4>2, MatchUnfolds
    <3>8. QED
      BY <3>6, <3>7
  <2>3. QED
    BY <2>1, <2>2
<1>2. P \subseteq S
  <2>1. \A p \in P : p = <<>> \/ Tail(p) \in S => p \in S
    BY <1>1
  <2> HIDE DEF S
  <2>2. QED
    BY <2>1, TailInduction
<1>3. QED
  BY <1>2

\* Covers, without the sets of covered components.
LEMMA CoversPointwise ==
  ASSUME NEW key, NEW pat, NEW f
  PROVE  Covers(f, key, pat) <=>
           /\ \A i, j \in DOMAIN key : i < j => f[i] <= f[j]
           /\ \A p \in DOMAIN pat :
                IF pat[p] = AnyDepth
                THEN p = Len(pat) => \E i \in DOMAIN key : f[i] = p
                ELSE \E i \in DOMAIN key :
                       /\ f[i] = p /\ key[i] \in pat[p]
                       /\ \A j \in DOMAIN key : f[j] = p => j = i
<1>1. ASSUME NEW p, NEW i \in DOMAIN key
      PROVE  {j \in DOMAIN key : f[j] = p} = {i} <=>
               f[i] = p /\ \A j \in DOMAIN key : f[j] = p => j = i
  OBVIOUS
<1>2. ASSUME NEW p
      PROVE  {j \in DOMAIN key : f[j] = p} # {} <=> \E i \in DOMAIN key : f[i] = p
  OBVIOUS
<1>3. QED
  BY <1>1, <1>2 DEF Covers

\* No name but the empty one matches the empty pattern, and it matches no other.
LEMMA MatchesEmpty ==
  ASSUME NEW key \in Seq(STRING), NEW pat \in Seq(SUBSET STRING),
         key = <<>> \/ pat = <<>>
  PROVE  Matches(key, pat) <=> key = <<>> /\ pat = <<>>
<1>1. CASE key = <<>> /\ pat = <<>>
  <2> DEFINE f == [i \in DOMAIN key |-> 1]
  <2>1. f \in [DOMAIN key -> DOMAIN pat] /\ Covers(f, key, pat)
    BY <1>1, CoversPointwise
  <2>2. QED
    BY <1>1, <2>1 DEF Matches
<1>2. CASE key # <<>> /\ pat = <<>>
  <2>1. 1 \in DOMAIN key /\ DOMAIN pat = {}
    BY <1>2
  <2>2. QED
    BY <1>2, <2>1 DEF Matches
<1>3. CASE key = <<>> /\ pat # <<>>
  <2>1. Len(pat) \in DOMAIN pat /\ DOMAIN key = {}
    BY <1>3
  <2>2. \A f : ~Covers(f, key, pat)
    BY <2>1, CoversPointwise
  <2>3. QED
    BY <1>3, <2>2 DEF Matches
<1>4. QED
  BY <1>1, <1>2, <1>3

\* What is left after m components, and its components.
LEMMA RestIs ==
  ASSUME NEW T, NEW s \in Seq(T), NEW m \in 0..Len(s)
  PROVE  LET r == SubSeq(s, m + 1, Len(s)) IN
           /\ r \in Seq(T) /\ Len(r) = Len(s) - m
           /\ \A i \in 1..Len(s) - m : r[i] = s[i + m]
  OBVIOUS

\* The first component of the pattern covers the first m of the name.
Leads(f, key, m) == \A i \in DOMAIN key : f[i] = 1 <=> i <= m

\* What the first component of a pattern leaves of a name, the others cover.
LEMMA CoversRest ==
  ASSUME NEW key \in Seq(STRING), NEW pat \in Seq(SUBSET STRING), pat # <<>>,
         NEW m \in 0..Len(key), NEW f \in [DOMAIN key -> DOMAIN pat],
         Covers(f, key, pat), Leads(f, key, m)
  PROVE  Matches(SubSeq(key, m + 1, Len(key)), Tail(pat))
<1> DEFINE r == SubSeq(key, m + 1, Len(key))
           q == Tail(pat)
           g == [i \in DOMAIN r |-> f[i + m] - 1]
<1>1. /\ r \in Seq(STRING) /\ Len(r) = Len(key) - m
      /\ \A i \in 1..Len(r) : r[i] = key[i + m]
  <2> HIDE DEF r
  <2>1. QED
    BY RestIs DEF r
<1>2. q \in Seq(SUBSET STRING) /\ Len(q) = Len(pat) - 1
      /\ \A c \in 1..Len(q) : q[c] = pat[c + 1]
  BY TailOf
<1> HIDE DEF r, q
<1>3. Len(key) \in Nat /\ Len(pat) \in Nat /\ m \in Nat /\ m <= Len(key)
      /\ Len(pat) > 0
      /\ DOMAIN key = 1..Len(key) /\ DOMAIN pat = 1..Len(pat)
      /\ DOMAIN r = 1..Len(r) /\ DOMAIN q = 1..Len(q)
  BY <1>1, <1>2
<1>4. ASSUME NEW i \in DOMAIN r
      PROVE  i + m \in DOMAIN key /\ f[i + m] \in DOMAIN pat /\ f[i + m] # 1
  <2>1. i \in Nat /\ i >= 1 /\ i + m <= Len(key)
    BY <1>1, <1>3
  <2>2. i + m \in DOMAIN key /\ ~(i + m <= m)
    BY <1>3, <2>1
  <2>3. QED
    BY <2>2 DEF Leads
<1>5. ASSUME NEW i \in DOMAIN key, f[i] # 1
      PROVE  i - m \in DOMAIN r /\ i = (i - m) + m
  <2>1. i > m /\ i \in 1..Len(key)
    BY <1>3, <1>5 DEF Leads
  <2>2. QED
    BY <1>1, <1>3, <2>1
<1>6. g \in [DOMAIN r -> DOMAIN q]
  <2>1. ASSUME NEW i \in DOMAIN r PROVE f[i + m] - 1 \in DOMAIN q
    BY <1>2, <1>3, <1>4
  <2>2. QED
    BY <2>1
<1>7. Covers(g, r, q)
  <2>1. ASSUME NEW i \in DOMAIN r, NEW j \in DOMAIN r, i < j PROVE g[i] <= g[j]
    <3>1. i + m < j + m /\ i + m \in DOMAIN key /\ j + m \in DOMAIN key
      BY <1>3, <1>4, <2>1
    <3>2. f[i + m] <= f[j + m]
      BY <3>1, CoversPointwise
    <3>3. f[i + m] \in Nat /\ f[j + m] \in Nat
      BY <1>3, <1>4
    <3>4. QED
      BY <3>2, <3>3
  <2>2. ASSUME NEW c \in DOMAIN q
        PROVE  IF q[c] = AnyDepth
               THEN c = Len(q) => \E i \in DOMAIN r : g[i] = c
               ELSE \E i \in DOMAIN r :
                      /\ g[i] = c /\ r[i] \in q[c]
                      /\ \A j \in DOMAIN r : g[j] = c => j = i
    <3>1. c + 1 \in DOMAIN pat /\ q[c] = pat[c + 1] /\ c \in Nat /\ c >= 1
      BY <1>2, <1>3
    <3>2. ASSUME NEW i \in DOMAIN r PROVE g[i] = c <=> f[i + m] = c + 1
      <4>1. f[i + m] \in Nat
        BY <1>3, <1>4
      <4>2. QED
        BY <3>1, <4>1
    <3>3. ASSUME NEW i \in DOMAIN key, f[i] = c + 1
          PROVE  i - m \in DOMAIN r /\ i = (i - m) + m /\ g[i - m] = c
                 /\ r[i - m] = key[i]
      <4>1. f[i] # 1
        BY <3>1, <3>3
      <4>2. i - m \in DOMAIN r /\ i = (i - m) + m
        BY <1>5, <4>1
      <4>3. QED
        BY <1>1, <1>3, <3>2, <3>3, <4>2
    <3>4. CASE q[c] = AnyDepth
      <4>1. ASSUME c = Len(q) PROVE \E i \in DOMAIN r : g[i] = c
        <5>1. c + 1 = Len(pat)
          BY <1>2, <1>3, <4>1
        <5>2. PICK i \in DOMAIN key : f[i] = c + 1
          BY <3>1, <3>4, <5>1, CoversPointwise
        <5>3. QED
          BY <3>3, <5>2
      <4>2. QED
        BY <3>4, <4>1
    <3>5. CASE q[c] # AnyDepth
      <4>1. PICK i \in DOMAIN key :
              /\ f[i] = c + 1 /\ key[i] \in pat[c + 1]
              /\ \A j \in DOMAIN key : f[j] = c + 1 => j = i
        BY <3>1, <3>5, CoversPointwise
      <4>2. i - m \in DOMAIN r /\ g[i - m] = c /\ r[i - m] \in q[c]
        BY <3>1, <3>3, <4>1
      <4>3. ASSUME NEW j \in DOMAIN r, g[j] = c PROVE j = i - m
        <5>1. f[j + m] = c + 1 /\ j + m \in DOMAIN key
          BY <1>4, <3>2, <4>3
        <5>2. j + m = i
          BY <4>1, <5>1
        <5>3. QED
          BY <1>3, <5>2
      <4>4. QED
        BY <3>5, <4>2, <4>3
    <3>6. QED
      BY <3>4, <3>5
  <2> HIDE DEF g
  <2>3. QED
    BY <2>1, <2>2, CoversPointwise
<1>8. QED
  BY <1>6, <1>7 DEF Matches, r, q

\* A component that covers the start of a name is put before those that cover
\* the rest.
LEMMA CoversMore ==
  ASSUME NEW key \in Seq(STRING), NEW pat \in Seq(SUBSET STRING), pat # <<>>,
         NEW m \in 0..Len(key),
         Matches(SubSeq(key, m + 1, Len(key)), Tail(pat)),
         IF Head(pat) = AnyDepth THEN Tail(pat) # <<>> \/ m > 0
                                     ELSE m = 1 /\ key[1] \in Head(pat)
  PROVE  Matches(key, pat)
<1> DEFINE r == SubSeq(key, m + 1, Len(key))
           q == Tail(pat)
<1>1. /\ r \in Seq(STRING) /\ Len(r) = Len(key) - m
      /\ \A i \in 1..Len(r) : r[i] = key[i + m]
  <2> HIDE DEF r
  <2>1. QED
    BY RestIs DEF r
<1>2. /\ q \in Seq(SUBSET STRING) /\ Len(q) = Len(pat) - 1
      /\ \A c \in 1..Len(q) : q[c] = pat[c + 1]
      /\ Head(pat) = pat[1]
  BY TailOf
<1>3. PICK g \in [DOMAIN r -> DOMAIN q] : Covers(g, r, q)
  BY DEF Matches
<1>q. q # <<>> => Len(q) > 0
  BY <1>2
<1>m. IF pat[1] = AnyDepth THEN q # <<>> \/ m > 0 ELSE m = 1 /\ key[1] \in pat[1]
  BY <1>2
<1> HIDE DEF r, q
<1>4. Len(key) \in Nat /\ Len(pat) \in Nat /\ m \in Nat /\ m <= Len(key)
      /\ Len(pat) > 0
      /\ DOMAIN key = 1..Len(key) /\ DOMAIN pat = 1..Len(pat)
      /\ DOMAIN r = 1..Len(r) /\ DOMAIN q = 1..Len(q)
  BY <1>1, <1>2
<1> DEFINE f == [i \in DOMAIN key |-> IF i <= m THEN 1 ELSE g[i - m] + 1]
<1>5. ASSUME NEW i \in DOMAIN key, i > m
      PROVE  i - m \in DOMAIN r /\ g[i - m] \in DOMAIN q /\ f[i] = g[i - m] + 1
             /\ key[i] = r[i - m]
  <2>1. i - m \in DOMAIN r /\ i = (i - m) + m /\ ~(i <= m)
    BY SMTT(30), <1>1, <1>4, <1>5
  <2>2. QED
    BY <1>1, <1>4, <2>1
<1>6. ASSUME NEW i \in DOMAIN key, ~(i > m) PROVE f[i] = 1 /\ i <= m
  BY <1>4, <1>6
<1> HIDE DEF f
<1>7. ASSUME NEW i \in DOMAIN key PROVE f[i] \in DOMAIN pat /\ f[i] \in Nat
  <2>1. CASE i > m
    <3>1. f[i] = g[i - m] + 1 /\ g[i - m] \in 1..Len(pat) - 1
      BY <1>2, <1>4, <1>5, <2>1
    <3>2. QED
      BY SMTT(30), <1>4, <3>1
  <2>2. CASE ~(i > m)
    <3>1. f[i] = 1
      BY <1>6, <2>2
    <3>2. QED
      BY <1>4, <3>1
  <2>3. QED
    BY <2>1, <2>2
<1>8. f \in [DOMAIN key -> DOMAIN pat]
  BY <1>7 DEF f
<1>9. ASSUME NEW i \in DOMAIN key, NEW j \in DOMAIN key, i < j PROVE f[i] <= f[j]
  <2>1. CASE ~(i > m)
    <3>1. f[i] = 1 /\ f[j] \in DOMAIN pat
      BY <1>6, <1>7, <2>1
    <3>2. QED
      BY <1>4, <3>1
  <2>2. CASE i > m
    <3>1. j > m
      BY <1>4, <1>9, <2>2
    <3>2. g[i - m] <= g[j - m]
      <4>1. i - m < j - m
        BY <1>4, <1>9
      <4>2. i - m \in DOMAIN r /\ j - m \in DOMAIN r
        BY <1>5, <2>2, <3>1
      <4>3. QED
        BY <1>3, <4>1, <4>2, CoversPointwise
    <3>3. g[i - m] \in Nat /\ g[j - m] \in Nat
      <4>1. g[i - m] \in DOMAIN q /\ g[j - m] \in DOMAIN q
        BY <1>5, <2>2, <3>1
      <4>2. DOMAIN q \subseteq Nat
        BY <1>4
      <4>3. QED
        BY <4>1, <4>2
    <3>4. f[i] = g[i - m] + 1 /\ f[j] = g[j - m] + 1
      BY <1>5, <2>2, <3>1
    <3>5. QED
      BY <3>2, <3>3, <3>4
  <2>3. QED
    BY <2>1, <2>2
<1>10. ASSUME NEW c \in DOMAIN pat
       PROVE  IF pat[c] = AnyDepth
              THEN c = Len(pat) => \E i \in DOMAIN key : f[i] = c
              ELSE \E i \in DOMAIN key :
                     /\ f[i] = c /\ key[i] \in pat[c]
                     /\ \A j \in DOMAIN key : f[j] = c => j = i
  <2>1. CASE c = 1
    <3>1. ASSUME NEW i \in DOMAIN key PROVE f[i] = 1 <=> i <= m
      <4>1. CASE i > m
        <5>1. f[i] = g[i - m] + 1 /\ g[i - m] \in Nat /\ g[i - m] >= 1
          BY <1>4, <1>5, <4>1
        <5>2. QED
          BY <1>4, <4>1, <5>1
      <4>2. CASE ~(i > m)
        <5>1. f[i] = 1 /\ i <= m
          BY <1>6, <4>2
        <5>2. QED
          BY <5>1
      <4>3. QED
        BY <4>1, <4>2
    <3>2. CASE pat[c] = AnyDepth
      <4>1. ASSUME c = Len(pat) PROVE \E i \in DOMAIN key : f[i] = c
        <5>1. Len(q) = 0
          BY <1>2, <1>4, <2>1, <4>1
        <5>2. m > 0
          BY <1>q, <1>m, <2>1, <3>2, <5>1
        <5>3. 1 \in DOMAIN key /\ 1 <= m
          BY <1>4, <5>2
        <5>4. QED
          BY <2>1, <3>1, <5>3
      <4>2. QED
        BY <3>2, <4>1
    <3>3. CASE pat[c] # AnyDepth
      <4>1. m = 1 /\ key[1] \in pat[c]
        BY <1>m, <2>1, <3>3
      <4>2. 1 \in DOMAIN key /\ f[1] = c
        BY <1>4, <2>1, <3>1, <4>1
      <4>3. \A j \in DOMAIN key : f[j] = c => j = 1
        BY <1>4, <2>1, <3>1, <4>1
      <4>4. QED
        BY <3>3, <4>1, <4>2, <4>3
    <3>4. QED
      BY <3>2, <3>3
  <2>2. CASE c # 1
    <3>1. c - 1 \in DOMAIN q /\ pat[c] = q[c - 1] /\ c \in Nat /\ c = (c - 1) + 1
      BY <1>2, <1>4, <2>2
    <3>2. ASSUME NEW i \in DOMAIN r, g[i] = c - 1
          PROVE  i + m \in DOMAIN key /\ f[i + m] = c /\ key[i + m] = r[i]
      <4>1. i \in Nat /\ i >= 1 /\ i <= Len(r)
        BY <1>4
      <4>2. i + m \in DOMAIN key /\ i + m > m /\ (i + m) - m = i
        BY <1>1, <1>4, <4>1, SMTT(30)
      <4>3. f[i + m] = g[i] + 1 /\ key[i + m] = r[i]
        BY <1>5, <4>2
      <4>4. QED
        BY <3>1, <3>2, <4>2, <4>3
    <3>3. ASSUME NEW i \in DOMAIN key, f[i] = c
          PROVE  i - m \in DOMAIN r /\ g[i - m] = c - 1
      <4>1. i > m
        BY <1>6, <2>2, <3>3
      <4>2. i - m \in DOMAIN r /\ g[i - m] \in DOMAIN q /\ f[i] = g[i - m] + 1
        BY <1>5, <4>1
      <4>3. g[i - m] \in Nat
        BY <1>4, <4>2
      <4>4. QED
        BY <3>3, <4>2, <4>3
    <3>4. CASE pat[c] = AnyDepth
      <4>1. ASSUME c = Len(pat) PROVE \E i \in DOMAIN key : f[i] = c
        <5>1. c - 1 = Len(q)
          BY <1>2, <1>4, <4>1
        <5>2. PICK i \in DOMAIN r : g[i] = c - 1
          BY <1>3, <3>1, <3>4, <5>1, CoversPointwise
        <5>3. QED
          BY <3>2, <5>2
      <4>2. QED
        BY <3>4, <4>1
    <3>5. CASE pat[c] # AnyDepth
      <4>1. PICK i \in DOMAIN r :
              /\ g[i] = c - 1 /\ r[i] \in q[c - 1]
              /\ \A j \in DOMAIN r : g[j] = c - 1 => j = i
        BY <1>3, <3>1, <3>5, CoversPointwise
      <4>2. i + m \in DOMAIN key /\ f[i + m] = c /\ key[i + m] \in pat[c]
        BY <3>1, <3>2, <4>1
      <4>3. ASSUME NEW j \in DOMAIN key, f[j] = c PROVE j = i + m
        <5>1. j - m = i
          BY <3>3, <4>1, <4>3
        <5>2. QED
          BY <1>4, <5>1
      <4>4. QED
        BY <3>5, <4>2, <4>3
    <3>6. QED
      BY <3>4, <3>5
  <2>3. QED
    BY <2>1, <2>2
<1>11. Covers(f, key, pat)
  BY <1>9, <1>10, CoversPointwise
<1>12. QED
  BY <1>8, <1>11 DEF Matches

\* A pattern whose first component is not "**", one component of the name less.
LEMMA MatchesOne ==
  ASSUME NEW key \in Seq(STRING), NEW pat \in Seq(SUBSET STRING),
         key # <<>>, pat # <<>>, Head(pat) # AnyDepth
  PROVE  Matches(key, pat) <=>
           Head(key) \in Head(pat) /\ Matches(Tail(key), Tail(pat))
<1>1. 1 \in 0..Len(key) /\ SubSeq(key, 1 + 1, Len(key)) = Tail(key)
      /\ Head(key) = key[1] /\ Head(pat) = pat[1]
      /\ DOMAIN key = 1..Len(key) /\ DOMAIN pat = 1..Len(pat)
      /\ Len(key) \in Nat /\ Len(key) > 0 /\ Len(pat) \in Nat /\ Len(pat) > 0
  <2>1. SubSeq(key, 1 + 1, Len(key)) = Tail(key)
    <3>1. Len(key) \in Nat /\ Len(key) > 0 /\ Tail(key) \in Seq(STRING)
          /\ Len(Tail(key)) = Len(key) - 1
          /\ \A i \in 1..Len(key) - 1 : Tail(key)[i] = key[i + 1]
      BY TailOf
    <3>2. LET r == SubSeq(key, 1 + 1, Len(key)) IN
           /\ r \in Seq(STRING) /\ Len(r) = Len(key) - 1
           /\ \A i \in 1..Len(key) - 1 : r[i] = key[i + 1]
      <4>1. 1 \in 0..Len(key)
        BY <3>1
      <4>2. QED
        BY <4>1, RestIs
    <3>3. QED
      BY <3>1, <3>2
  <2>2. QED
    BY <2>1, TailOf
<1>2. ASSUME Matches(key, pat)
      PROVE  Head(key) \in Head(pat) /\ Matches(Tail(key), Tail(pat))
  <2>1. PICK f \in [DOMAIN key -> DOMAIN pat] : Covers(f, key, pat)
    BY <1>2 DEF Matches
  <2>2. 1 \in DOMAIN key /\ 1 \in DOMAIN pat
    BY <1>1
  <2>3. PICK i \in DOMAIN key :
          /\ f[i] = 1 /\ key[i] \in pat[1]
          /\ \A j \in DOMAIN key : f[j] = 1 => j = i
    <3>1. pat[1] # AnyDepth
      BY <1>1
    <3>2. QED
      BY <2>1, <2>2, <3>1, CoversPointwise
  <2>4. f[1] = 1
    <3>1. f[1] \in 1..Len(pat)
      BY <1>1, <2>2
    <3>2. i = 1 \/ f[1] <= f[i]
      <4>1. \A k, l \in DOMAIN key : k < l => f[k] <= f[l]
        BY <2>1, CoversPointwise
      <4>2. i = 1 \/ 1 < i
        BY <1>1
      <4>3. QED
        BY <2>2, <4>1, <4>2
    <3>3. QED
      BY <1>1, <2>3, <3>1, <3>2
  <2>5. i = 1
    BY <2>2, <2>3, <2>4
  <2>6. Leads(f, key, 1)
    BY <1>1, <2>3, <2>5 DEF Leads
  <2>7. Matches(SubSeq(key, 1 + 1, Len(key)), Tail(pat))
    BY <1>1, <2>1, <2>6, CoversRest
  <2>8. QED
    BY <1>1, <2>3, <2>5, <2>7
<1>3. ASSUME Head(key) \in Head(pat), Matches(Tail(key), Tail(pat))
      PROVE  Matches(key, pat)
  BY <1>1, <1>3, CoversMore
<1>4. QED
  BY <1>2, <1>3

\* A pattern that starts with "**": the rest of it matches some rest of the name.
LEMMA MatchesAny ==
  ASSUME NEW key \in Seq(STRING), NEW pat \in Seq(SUBSET STRING),
         key # <<>>, pat # <<>>, Head(pat) = AnyDepth
  PROVE  Matches(key, pat) <=>
           Tail(pat) = <<>> \/ \E rest \in Rests(key) : Matches(rest, Tail(pat))
<1>1. /\ Head(pat) = pat[1] /\ Tail(pat) \in Seq(SUBSET STRING)
      /\ Len(Tail(pat)) = Len(pat) - 1
      /\ DOMAIN key = 1..Len(key) /\ DOMAIN pat = 1..Len(pat)
      /\ Len(key) \in Nat /\ Len(key) > 0 /\ Len(pat) \in Nat /\ Len(pat) > 0
  BY TailOf
<1>2. ASSUME Matches(key, pat), Tail(pat) # <<>>
      PROVE  \E rest \in Rests(key) : Matches(rest, Tail(pat))
  <2>1. PICK f \in [DOMAIN key -> DOMAIN pat] : Covers(f, key, pat)
    BY <1>2 DEF Matches
  <2> DEFINE Bounds == {m \in 0..Len(key) : \A i \in DOMAIN key : f[i] = 1 => i <= m}
  <2>2. PICK m \in Bounds : \A n \in Bounds : m <= n
    <3>1. Len(key) \in Bounds
      BY <1>1
    <3>2. Bounds \subseteq Nat
      BY <1>1
    <3> HIDE DEF Bounds
    <3>3. QED
      BY <3>1, <3>2, NatMin
  <2>3. m \in 0..Len(key) /\ m \in Nat /\ \A i \in DOMAIN key : f[i] = 1 => i <= m
    BY <1>1, <2>2
  <2>4. ASSUME m > 0 PROVE m \in DOMAIN key /\ f[m] = 1
    <3>1. m \in DOMAIN key
      BY <1>1, <2>3, <2>4
    <3>2. m - 1 \in 0..Len(key)
      BY <1>1, <2>3, <2>4
    <3>n. m - 1 \notin Bounds
      <4> HIDE DEF Bounds
      <4>1. QED
        BY <2>2, <2>3
    <3>3. PICK i \in DOMAIN key : f[i] = 1 /\ ~(i <= m - 1)
      BY <3>2, <3>n
    <3>4. i = m
      BY <1>1, <2>3, <3>3
    <3>5. QED
      BY <3>1, <3>3, <3>4
  <2> HIDE DEF Bounds
  <2>5. ASSUME NEW i \in DOMAIN key, i <= m PROVE f[i] = 1
    <3>1. m > 0 /\ f[m] = 1 /\ m \in DOMAIN key
      BY <1>1, <2>3, <2>4, <2>5
    <3>2. i = m \/ f[i] <= f[m]
      <4>1. \A k, l \in DOMAIN key : k < l => f[k] <= f[l]
        BY <2>1, CoversPointwise
      <4>2. i = m \/ i < m
        BY <1>1, <2>3, <2>5
      <4>3. QED
        BY <3>1, <4>1, <4>2
    <3>3. f[i] \in 1..Len(pat)
      BY <1>1
    <3>4. QED
      BY <3>1, <3>2, <3>3
  <2>6. Leads(f, key, m)
    BY <2>3, <2>5 DEF Leads
  <2>7. Matches(SubSeq(key, m + 1, Len(key)), Tail(pat))
    BY <2>1, <2>3, <2>6, CoversRest
  <2>8. SubSeq(key, m + 1, Len(key)) # <<>>
    <3>1. SubSeq(key, m + 1, Len(key)) \in Seq(STRING)
      BY <2>3, RestIs
    <3>2. QED
      BY <1>1, <1>2, <2>7, <3>1, MatchesEmpty
  <2>9. m + 1 \in DOMAIN key
    <3>1. m # Len(key)
      <4>1. SubSeq(key, Len(key) + 1, Len(key)) = <<>>
        BY <1>1
      <4>2. QED
        BY <2>8, <4>1
    <3>2. m \in Nat /\ m <= Len(key) /\ Len(key) \in Nat
      BY <1>1, <2>3
    <3>3. m + 1 \in 1..Len(key)
      BY <3>1, <3>2
    <3>4. QED
      BY <1>1, <3>3
  <2>10. SubSeq(key, m + 1, Len(key)) \in Rests(key)
    BY <2>9 DEF Rests
  <2>11. QED
    BY <2>7, <2>10
<1>3. ASSUME Tail(pat) = <<>> PROVE Matches(key, pat)
  <2>1. Len(key) \in 0..Len(key) /\ Len(key) > 0
        /\ SubSeq(key, Len(key) + 1, Len(key)) = <<>>
    BY <1>1
  <2>2. Matches(<<>>, Tail(pat))
    <3>1. <<>> \in Seq(STRING)
      OBVIOUS
    <3>2. QED
      BY <1>1, <1>3, <3>1, MatchesEmpty
  <2>3. QED
    BY <2>1, <2>2, CoversMore
<1>4. ASSUME NEW rest \in Rests(key), Matches(rest, Tail(pat))
      PROVE  Matches(key, pat)
  <2>1. CASE Tail(pat) = <<>>
    BY <1>3, <2>1
  <2>2. CASE Tail(pat) # <<>>
    <3>1. PICK i \in DOMAIN key : rest = SubSeq(key, i, Len(key))
      BY DEF Rests
    <3>2. i - 1 \in 0..Len(key) /\ (i - 1) + 1 = i
      BY <1>1, <3>1
    <3>3. Matches(SubSeq(key, (i - 1) + 1, Len(key)), Tail(pat))
      BY <1>4, <3>1, <3>2
    <3>4. QED
      BY <2>2, <3>2, <3>3, CoversMore
  <2>3. QED
    BY <2>1, <2>2
<1>5. QED
  BY <1>2, <1>3, <1>4

\* Match of s3fs.cpp accepts a complete key exactly when the pattern can be
\* laid over it, whatever the key and the pattern.
THEOREM MatchIsExact ==
  ASSUME NEW key \in Seq(STRING), NEW pat \in Seq(SUBSET STRING)
  PROVE  Match(key, pat, TRUE) <=> Matches(key, pat)
<1> DEFINE P == Seq(SUBSET STRING)
           K == Seq(STRING)
           S == {p \in P : \A k \in K : Match(k, p, TRUE) <=> Matches(k, p)}
<1>1. ASSUME NEW p \in P, p = <<>> \/ Tail(p) \in S, NEW k \in K
      PROVE  Match(k, p, TRUE) <=> Matches(k, p)
  <2>1. CASE k = <<>> \/ p = <<>>
    BY <2>1, MatchUnfolds, MatchesEmpty
  <2>2. CASE k # <<>> /\ p # <<>> /\ Head(p) = AnyDepth
    <3>1. Rests(k) \subseteq K
      BY RestsOf
    <3>2. \A r \in Rests(k) : Match(r, Tail(p), TRUE) <=> Matches(r, Tail(p))
      BY <1>1, <2>2, <3>1
    <3>3. QED
      BY <2>2, <3>2, MatchUnfolds, MatchesAny
  <2>3. CASE k # <<>> /\ p # <<>> /\ Head(p) # AnyDepth
    <3>1. Tail(k) \in K
      BY <2>3, TailOf
    <3>2. Match(Tail(k), Tail(p), TRUE) <=> Matches(Tail(k), Tail(p))
      BY <1>1, <2>3, <3>1
    <3>3. QED
      BY <2>3, <3>2, MatchUnfolds, MatchesOne
  <2>4. QED
    BY <2>1, <2>2, <2>3
<1>2. P \subseteq S
  <2>1. \A p \in P : p = <<>> \/ Tail(p) \in S => p \in S
    BY <1>1
  <2> HIDE DEF S
  <2>2. QED
    BY <2>1, TailInduction
<1>3. QED
  BY <1>2

\* Match of hffs.cpp accepts a path exactly when the pattern can be laid over
\* it, whatever the path and the pattern.
THEOREM HFMatchIsExact ==
  ASSUME NEW key \in Seq(STRING), NEW pat \in Seq(SUBSET STRING)
  PROVE  HFMatch(key, pat) <=> Matches(key, pat)
<1> DEFINE P == Seq(SUBSET STRING)
           K == Seq(STRING)
           S == {p \in P : \A k \in K : HFMatch(k, p) <=> Matches(k, p)}
<1>1. ASSUME NEW p \in P, p = <<>> \/ Tail(p) \in S, NEW k \in K
      PROVE  HFMatch(k, p) <=> Matches(k, p)
  <2>1. CASE k = <<>> \/ p = <<>>
    BY <2>1, HFMatchUnfolds, MatchesEmpty
  <2>2. CASE k # <<>> /\ p # <<>> /\ Head(p) = AnyDepth
    <3>1. Rests(k) \subseteq K
      BY RestsOf
    <3>2. \A r \in Rests(k) : HFMatch(r, Tail(p)) <=> Matches(r, Tail(p))
      BY <1>1, <2>2, <3>1
    <3>3. QED
      BY <2>2, <3>2, HFMatchUnfolds, MatchesAny
  <2>3. CASE k # <<>> /\ p # <<>> /\ Head(p) # AnyDepth
    <3>1. Tail(k) \in K
      BY <2>3, TailOf
    <3>2. HFMatch(Tail(k), Tail(p)) <=> Matches(Tail(k), Tail(p))
      BY <1>1, <2>3, <3>1
    <3>3. QED
      BY <2>3, <3>2, HFMatchUnfolds, MatchesOne
  <2>4. QED
    BY <2>1, <2>2, <2>3
<1>2. P \subseteq S
  <2>1. \A p \in P : p = <<>> \/ Tail(p) \in S => p \in S
    BY <1>1
  <2> HIDE DEF S
  <2>2. QED
    BY <2>1, TailInduction
<1>3. QED
  BY <1>2

-----------------------------------------------------------------------------
(***************************************************************************)
(* Listing requests, and what a page leaves to be listed.                  *)
(***************************************************************************)
USE DEF Keys

\* The greatest of a finite set of numbers.
LEMMA MaxOf ==
  ASSUME NEW n \in Nat, NEW S \in SUBSET (0..n), S # {}
  PROVE  Max(S) \in S /\ \A x \in S : x <= Max(S)
<1> DEFINE Bounds == {u \in 0..n : \A x \in S : x <= u}
<1>1. n \in Bounds /\ Bounds \subseteq Nat
  OBVIOUS
<1>2. PICK u \in Bounds : \A v \in Bounds : u <= v
  <2> HIDE DEF Bounds
  <2>1. QED
    BY <1>1, NatMin
<1>3. u \in S
  <2> SUFFICES ASSUME u \notin S PROVE FALSE
    OBVIOUS
  <2>1. u \in 0..n /\ \A x \in S : x <= u /\ x # u /\ x \in 0..n
    OBVIOUS
  <2>2. PICK y : y \in S
    OBVIOUS
  <2>3. u > 0 /\ u - 1 \in 0..n
    BY <2>1, <2>2
  <2>4. \A x \in S : x <= u - 1
    BY <2>1
  <2>5. u - 1 \in Bounds
    BY <2>3, <2>4
  <2>6. QED
    BY <1>2, <2>1, <2>5
<1>4. \E x \in S : \A y \in S : x >= y
  BY <1>3
<1>5. Max(S) \in S /\ \A y \in S : Max(S) >= y
  BY <1>4 DEF Max
<1>6. QED
  BY <1>5

\* The keys are non-empty sequences of components.
LEMMA OrderIs ==
  /\ Len(Order) \in Nat /\ DOMAIN Order = 1..Len(Order)
  /\ \A k \in Keys : Order[k] \in Seq(Names) /\ Order[k] \in Seq(STRING) /\ Order[k] # <<>>
<1>1. ASSUME NEW k \in Keys PROVE Order[k] \in Seq(Names) /\ Order[k] # <<>>
  BY OrderAssumption
<1>2. ASSUME NEW s \in Seq(Names) PROVE s \in Seq(STRING)
  <2>1. Len(s) \in Nat /\ s = [i \in 1..Len(s) |-> s[i]]
        /\ \A i \in 1..Len(s) : s[i] \in Names
    OBVIOUS
  <2>2. \A i \in 1..Len(s) : s[i] \in STRING
    BY <2>1, OrderAssumption
  <2>3. QED
    BY <2>1, <2>2
<1>3. QED
  BY <1>1, <1>2, OrderAssumption

\* The folder of a key, componentwise.
LEMMA FolderOfIs ==
  ASSUME NEW req, req.dir \in Seq(STRING), NEW k \in Keys, InFolder(req, k)
  PROVE  /\ FolderOf(req, k) \in Seq(Names) /\ FolderOf(req, k) \in Seq(STRING)
         /\ Len(FolderOf(req, k)) = Len(req.dir) + 1
         /\ \A i \in 1..Len(req.dir) + 1 : FolderOf(req, k)[i] = Order[k][i]
         /\ IsStrictPrefix(FolderOf(req, k), Order[k])
<1> DEFINE n == Len(req.dir) + 1
           f == SubSeq(Order[k], 1, n)
           s == Order[k]
<1>1. s \in Seq(Names) /\ s \in Seq(STRING) /\ n \in Nat /\ Len(s) > n /\ Len(s) \in Nat
  BY OrderIs DEF InFolder
<1> HIDE DEF n, s
<1>2. LET g == SubSeq(s, 1, n) IN
        g \in Seq(Names) /\ g \in Seq(STRING) /\ Len(g) = n /\ \A i \in 1..n : g[i] = s[i]
  BY <1>1
<1>3. IsStrictPrefix(SubSeq(s, 1, n), s)
  BY <1>1, <1>2, StrictPrefix
<1> USE DEF n, s
<1>4. FolderOf(req, k) = SubSeq(s, 1, n)
  BY DEF FolderOf
<1> HIDE DEF n, s
<1>5. n = Len(req.dir) + 1 /\ s = Order[k]
  BY DEF n, s
<1>6. QED
  BY <1>2, <1>3, <1>4, <1>5

\* The keys below the folder of a key are those that have the same folder.
LEMMA SameFolder ==
  ASSUME NEW req, req.dir \in Seq(STRING), NEW k \in Keys, InFolder(req, k),
         NEW j \in Keys
  PROVE  /\ IsStrictPrefix(FolderOf(req, k), Order[j]) <=>
              InFolder(req, j) /\ FolderOf(req, j) = FolderOf(req, k)
         /\ IsStrictPrefix(FolderOf(req, k), Order[j]) =>
              (Below(req, k) <=> Below(req, j))
<1> DEFINE n == Len(req.dir) + 1
           f == FolderOf(req, k)
<1>1. /\ f \in Seq(Names) /\ f \in Seq(STRING) /\ Len(f) = n
      /\ \A i \in 1..n : f[i] = Order[k][i]
      /\ Len(Order[k]) > n /\ req.delimiter
  BY FolderOfIs DEF InFolder
<1>2. n \in Nat /\ n = Len(req.dir) + 1 /\ n >= 1 /\ Len(req.dir) \in Nat
  OBVIOUS
<1>3. Order[j] \in Seq(STRING) /\ Order[k] \in Seq(STRING) /\ Len(Order[j]) \in Nat
      /\ Len(Order[k]) \in Nat
  BY OrderIs
<1> HIDE DEF n, f
<1>4. ASSUME IsStrictPrefix(f, Order[j])
      PROVE  InFolder(req, j) /\ FolderOf(req, j) = f
             /\ \A i \in 1..n : Order[j][i] = Order[k][i]
  <2>1. n < Len(Order[j]) /\ \A i \in 1..n : f[i] = Order[j][i]
    BY <1>1, <1>3, <1>4, StrictPrefix
  <2>2. InFolder(req, j)
    BY <1>1, <1>2, <2>1 DEF InFolder
  <2>3. /\ FolderOf(req, j) \in Seq(Names) /\ Len(FolderOf(req, j)) = n
        /\ \A i \in 1..n : FolderOf(req, j)[i] = Order[j][i]
    BY <1>2, <2>2, FolderOfIs
  <2>4. FolderOf(req, j) = f
    BY <1>1, <1>2, <2>1, <2>3
  <2>5. QED
    BY <1>1, <2>1, <2>2, <2>4
<1>5. ASSUME InFolder(req, j), FolderOf(req, j) = f
      PROVE  IsStrictPrefix(f, Order[j])
  BY <1>5, FolderOfIs
<1>6. ASSUME IsStrictPrefix(f, Order[j])
      PROVE  Below(req, k) <=> Below(req, j)
  <2>1. Len(req.dir) < Len(Order[j]) /\ Len(req.dir) < Len(Order[k])
        /\ \A i \in 1..n : Order[j][i] = Order[k][i]
    <3>1. n < Len(Order[j])
      BY <1>1, <1>3, <1>6, StrictPrefix
    <3>2. QED
      BY <1>1, <1>2, <1>3, <1>4, <1>6, <3>1
  <2>2. Order[j][Len(req.dir) + 1] = Order[k][Len(req.dir) + 1]
    BY <1>2, <2>1
  <2>3. IsStrictPrefix(req.dir, Order[k]) <=> IsStrictPrefix(req.dir, Order[j])
    <3>1. \A i \in 1..Len(req.dir) : Order[j][i] = Order[k][i]
      BY <1>2, <2>1
    <3>2. QED
      BY <1>3, <2>1, <3>1, StrictPrefix
  <2>4. QED
    BY <2>2, <2>3 DEF Below
<1>7. QED
  BY <1>4, <1>5, <1>6 DEF f

\* What is listed between two keys of a folder is in that folder.
LEMMA FolderInOnePiece ==
  ASSUME NEW req, req.dir \in Seq(STRING),
         NEW i \in Keys, NEW j \in Keys, NEW k \in Keys, i < j, j < k,
         InFolder(req, i), InFolder(req, k), FolderOf(req, i) = FolderOf(req, k)
  PROVE  InFolder(req, j) /\ FolderOf(req, j) = FolderOf(req, k)
<1>1. Len(req.dir) + 1 \in 1..Len(Order[i]) - 1
  BY OrderIs DEF InFolder
<1>2. IsStrictPrefix(FolderOf(req, i), Order[k])
  BY FolderOfIs
<1>3. IsStrictPrefix(FolderOf(req, i), Order[j])
  BY <1>1, <1>2, OrderAssumption DEF FolderOf
<1>4. QED
  BY <1>3, SameFolder

\* The last key of an entry is of that entry.
LEMMA EntryEndIs ==
  ASSUME NEW req, req.dir \in Seq(STRING), NEW k \in Keys
  PROVE  LET e == EntryEnd(req, k) IN
         /\ e \in Keys /\ e >= k /\ (Below(req, k) <=> Below(req, e))
         /\ InFolder(req, k) <=> InFolder(req, e)
         /\ InFolder(req, k) =>
              /\ FolderOf(req, e) = FolderOf(req, k)
              /\ \A j \in Keys : InFolder(req, j) /\ FolderOf(req, j) = FolderOf(req, k) => j <= e
         /\ ~InFolder(req, k) => e = k
<1>1. CASE ~InFolder(req, k)
  <2>1. k >= k
    BY OrderIs
  <2>2. QED
    BY <1>1, <2>1 DEF EntryEnd
<1>2. CASE InFolder(req, k)
  <2> DEFINE S == {j \in Keys : InFolder(req, j) /\ FolderOf(req, j) = FolderOf(req, k)}
             e == EntryEnd(req, k)
  <2>1. k \in S /\ S \in SUBSET (0..Len(Order)) /\ Len(Order) \in Nat
    BY <1>2, OrderIs
  <2>2. e = Max(S)
    BY <1>2 DEF EntryEnd
  <2> HIDE DEF e
  <2>3. e \in S /\ \A j \in S : j <= e
    <3> HIDE DEF S
    <3>1. QED
      BY <2>1, <2>2, MaxOf
  <2>4. e \in Keys /\ e >= k
    BY <2>1, <2>3, OrderIs
  <2>5. Below(req, k) <=> Below(req, e)
    BY <1>2, <2>3, SameFolder
  <2>6. QED
    BY <1>2, <2>3, <2>4, <2>5 DEF e
<1>3. QED
  BY <1>1, <1>2
\* The keys below a folder.
In(dir) == {k \in Keys : IsStrictPrefix(dir, Order[k])}
\* What a request still lists after a token.
Left(req, token) == {k \in Keys : Below(req, k) /\ k > token.at}
\* What a response leaves to be listed.
LeftAfter(req, token) == IF token = NoToken THEN {} ELSE Left(req, token)
\* No entry lies on both sides of a token.
Whole(req, token) ==
  \A j, k \in Keys :
    j <= token.at /\ token.at < k /\ InFolder(req, j) /\ InFolder(req, k)
      => FolderOf(req, j) # FolderOf(req, k)

\* The entries of a listing after a token, and those on its first page.
Entries(req, token) ==
  {EntryEnd(req, k) : k \in {j \in present : j > token.at /\ Below(req, j)}}
Listed(entries) == {e \in entries : Cardinality({d \in entries : d < e}) < PageSize}

\* The entries of a page are those up to the last of them.
LEMMA ListedIs ==
  ASSUME NEW entries \in SUBSET Keys, entries # {}
  PROVE  /\ Listed(entries) # {} /\ Listed(entries) \subseteq entries
         /\ Max(Listed(entries)) \in Listed(entries)
         /\ \A e \in entries : e \in Listed(entries) <=> e <= Max(Listed(entries))
<1> DEFINE below(e) == {d \in entries : d < e}
           L == Listed(entries)
           m == Max(L)
<1>1. ASSUME NEW e \in entries
      PROVE  IsFiniteSet(below(e)) /\ Cardinality(below(e)) \in Nat
  <2>1. below(e) \subseteq 1..Len(Order) /\ IsFiniteSet(1..Len(Order))
    BY OrderIs, FS_Interval
  <2>2. QED
    BY <2>1, FS_Subset, FS_CardinalityType
<1>2. ASSUME NEW e \in entries, NEW d \in entries, d <= e
      PROVE  Cardinality(below(d)) <= Cardinality(below(e))
  <2>1. below(d) \subseteq below(e)
    BY <1>2, OrderIs
  <2> HIDE DEF below
  <2>2. QED
    BY <1>1, <2>1, FS_Subset
<1>3. \A e \in entries : e \in L <=> Cardinality(below(e)) < PageSize
  BY DEF Listed
<1>4. L # {} /\ L \subseteq entries
  <2>1. PICK e \in entries : \A d \in entries : e <= d
    BY OrderIs, NatMin
  <2>2. below(e) = {}
    BY <2>1, OrderIs
  <2>3. Cardinality(below(e)) = 0
    BY <2>2, FS_EmptySet
  <2>4. e \in L
    BY <1>3, <2>3, BoundsAssumption
  <2>5. QED
    BY <2>4 DEF Listed
<1> HIDE DEF L
<1>5. m \in L /\ \A e \in L : e <= m
  <2>1. L \in SUBSET (0..Len(Order)) /\ Len(Order) \in Nat
    BY <1>4, OrderIs
  <2>2. QED
    BY <1>4, <2>1, MaxOf
<1>6. ASSUME NEW e \in entries, e <= m PROVE e \in L
  <2>1. m \in entries /\ Cardinality(below(m)) < PageSize
    BY <1>3, <1>4, <1>5
  <2>2. Cardinality(below(e)) <= Cardinality(below(m))
    BY <1>2, <1>6, <2>1
  <2>3. Cardinality(below(e)) \in Nat /\ Cardinality(below(m)) \in Nat
    BY <1>1, <2>1
  <2> HIDE DEF below
  <2>4. Cardinality(below(e)) < PageSize
    BY <2>1, <2>2, <2>3, BoundsAssumption
  <2>5. QED
    BY <1>3, <2>4
<1>7. QED
  BY <1>4, <1>5, <1>6 DEF L

\* An entry is a key that is there, or a folder all of whose keys are after the
\* token.
LEMMA EntriesAre ==
  ASSUME NEW req, req.dir \in Seq(STRING), NEW token, token.at \in 0..Len(Order),
         Whole(req, token), present \subseteq Keys, NEW e \in Entries(req, token)
  PROVE  /\ e \in Left(req, token)
         /\ ~InFolder(req, e) => e \in present
         /\ InFolder(req, e) =>
              /\ In(FolderOf(req, e)) \subseteq Left(req, token)
              /\ \A j \in In(FolderOf(req, e)) : j <= e
              /\ e \in In(FolderOf(req, e))
<1>1. PICK k \in present : k > token.at /\ Below(req, k) /\ e = EntryEnd(req, k)
  BY DEF Entries
<1>2. k \in Keys
  BY <1>1
<1>3. /\ e \in Keys /\ e >= k /\ Below(req, e)
      /\ InFolder(req, k) <=> InFolder(req, e)
      /\ InFolder(req, k) =>
              /\ FolderOf(req, e) = FolderOf(req, k)
              /\ \A j \in Keys : InFolder(req, j) /\ FolderOf(req, j) = FolderOf(req, k) => j <= e
      /\ ~InFolder(req, k) => e = k
  BY <1>1, <1>2, EntryEndIs
<1>4. e \in Left(req, token)
  BY <1>1, <1>2, <1>3, OrderIs DEF Left
<1>5. ASSUME InFolder(req, e), NEW j \in In(FolderOf(req, e))
      PROVE  j <= e /\ j \in Left(req, token)
  <2>1. j \in Keys /\ InFolder(req, j) /\ FolderOf(req, j) = FolderOf(req, k)
        /\ Below(req, j)
    BY <1>3, <1>5, SameFolder DEF In
  <2>2. j <= e
    BY <1>3, <1>5, <2>1
  <2>3. ~(j <= token.at)
    BY <1>1, <1>2, <1>3, <1>5, <2>1 DEF Whole
  <2>4. QED
    BY <2>1, <2>2, <2>3, OrderIs DEF Left
<1>6. ASSUME InFolder(req, e) PROVE e \in In(FolderOf(req, e))
  BY <1>3, <1>6, FolderOfIs DEF In
<1>7. QED
  BY <1>1, <1>3, <1>4, <1>5, <1>6

\* A page: its keys, its folders and what its token leaves divide what was left.
\* No key that is there is forgotten, none is in two of the parts.
LEMMA PageIs ==
  ASSUME NEW req, req.dir \in Seq(STRING), NEW token, token.at \in 0..Len(Order),
         Whole(req, token), present \subseteq Keys,
         NEW page, page = Page(req, token), NEW after, after = LeftAfter(req, page.token)
  PROVE  /\ page.keys \subseteq Left(req, token) \cap present
         /\ page.keys \cap after = {}
         /\ after \subseteq Left(req, token)
         /\ \A f \in page.prefixes :
              /\ f \in Seq(Names) \ {<<>>}
              /\ In(f) \subseteq Left(req, token)
              /\ In(f) \cap page.keys = {} /\ In(f) \cap after = {}
              /\ \A g \in page.prefixes : g # f => In(f) \cap In(g) = {}
         /\ \A k \in Left(req, token) \cap present :
              k \in page.keys \/ k \in after \/ \E f \in page.prefixes : k \in In(f)
         /\ page.token.at \in 0..Len(Order) /\ Whole(req, page.token)
         /\ page.token # NoToken => page.token.req = req
         /\ ~req.delimiter => page.prefixes = {}
<1> DEFINE E == Entries(req, token)
           L == Listed(E)
           m == Max(L)
           next == IF L = E THEN NoToken ELSE [at |-> m, req |-> req]
<1>1. /\ page.keys = {e \in L : ~InFolder(req, e)}
      /\ page.prefixes = {FolderOf(req, e) : e \in {f \in L : InFolder(req, f)}}
      /\ page.token = next
  BY DEF Page, Entries, Listed
<1>2. \A e \in E :
         /\ e \in Left(req, token)
         /\ ~InFolder(req, e) => e \in present
         /\ InFolder(req, e) =>
              /\ In(FolderOf(req, e)) \subseteq Left(req, token)
              /\ \A j \in In(FolderOf(req, e)) : j <= e
              /\ e \in In(FolderOf(req, e))
  BY EntriesAre
<1>3. E \in SUBSET Keys
  BY <1>2 DEF Left
<1> HIDE DEF E
<1>4. L \subseteq E /\ L \subseteq Keys
  BY <1>3 DEF Listed
<1>5. ASSUME L # E
      PROVE  m \in L /\ m \in E /\ m \in Keys /\ (\A e \in E : e \in L <=> e <= m)
             /\ next = [at |-> m, req |-> req] /\ next # NoToken /\ next.at = m
  <2>1. E # {}
    BY <1>4, <1>5
  <2>2. m \in L /\ \A e \in E : e \in L <=> e <= m
    BY <1>3, <2>1, ListedIs
  <2>3. m \in Keys /\ m # 0
    BY <1>4, <2>2, OrderIs
  <2>4. next = [at |-> m, req |-> req] /\ next.at = m
    BY <1>5
  <2>5. NoToken.at = 0
    BY DEF NoToken
  <2>6. QED
    BY <1>4, <2>2, <2>3, <2>4, <2>5
<1>6. after = IF L = E THEN {} ELSE {k \in Keys : Below(req, k) /\ k > m}
  BY <1>1, <1>5 DEF LeftAfter, Left
<1>7. \A e \in L : e \notin after
  BY <1>4, <1>5, <1>6, OrderIs
<1>8. page.keys \subseteq Left(req, token) \cap present /\ page.keys \cap after = {}
  BY <1>1, <1>2, <1>4, <1>7
<1>9. after \subseteq Left(req, token)
  <2>1. CASE L = E
    BY <1>6, <2>1
  <2>2. CASE L # E
    <3>1. m \in Left(req, token) /\ m \in Keys
      BY <1>2, <1>5, <2>2
    <3>2. QED
      BY <1>6, <2>2, <3>1, OrderIs DEF Left
  <2>3. QED
    BY <2>1, <2>2
<1>10. ASSUME NEW f \in page.prefixes
       PROVE  /\ f \in Seq(Names) \ {<<>>}
              /\ In(f) \subseteq Left(req, token)
              /\ In(f) \cap page.keys = {} /\ In(f) \cap after = {}
              /\ \A g \in page.prefixes : g # f => In(f) \cap In(g) = {}
  <2>1. PICK e \in L : InFolder(req, e) /\ f = FolderOf(req, e)
    BY <1>1
  <2>2. e \in E /\ e \in Keys
    BY <1>4, <2>1
  <2>3. f \in Seq(Names) /\ Len(f) = Len(req.dir) + 1
    BY <2>1, <2>2, FolderOfIs
  <2>4. f \in Seq(Names) \ {<<>>}
    BY <2>3
  <2>5. \A j \in In(f) : j \in Keys /\ InFolder(req, j) /\ FolderOf(req, j) = f /\ j <= e
    BY <1>2, <2>1, <2>2, SameFolder DEF In
  <2>6. In(f) \cap page.keys = {}
    BY <1>1, <2>5
  <2>7. In(f) \cap after = {}
    <3>1. CASE L = E
      BY <1>6, <3>1
    <3>2. CASE L # E
      <4>1. e <= m /\ m \in Keys
        BY <1>5, <2>1, <2>2, <3>2
      <4>2. QED
        BY <1>6, <2>2, <2>5, <3>2, <4>1, OrderIs
    <3>3. QED
      BY <3>1, <3>2
  <2>8. ASSUME NEW g \in page.prefixes, g # f PROVE In(f) \cap In(g) = {}
    <3>1. PICK d \in L : InFolder(req, d) /\ g = FolderOf(req, d)
      BY <1>1
    <3>2. \A j \in In(g) : FolderOf(req, j) = g
      BY <1>4, <3>1, SameFolder DEF In
    <3>3. QED
      BY <2>5, <2>8, <3>2
  <2>9. QED
    BY <1>2, <2>1, <2>2, <2>4, <2>6, <2>7, <2>8
<1>11. ASSUME NEW k \in Left(req, token) \cap present
       PROVE  k \in page.keys \/ k \in after \/ \E f \in page.prefixes : k \in In(f)
  <2> DEFINE e == EntryEnd(req, k)
  <2>1. k \in Keys /\ Below(req, k) /\ k > token.at /\ e \in E
    BY DEF Left, Entries, E
  <2>2. /\ e \in Keys /\ e >= k
        /\ InFolder(req, k) <=> InFolder(req, e)
        /\ InFolder(req, k) => FolderOf(req, e) = FolderOf(req, k)
        /\ ~InFolder(req, k) => e = k
    BY <2>1, EntryEndIs
  <2> HIDE DEF e
  <2>3. CASE e \in L /\ ~InFolder(req, e)
    BY <1>1, <2>2, <2>3
  <2>4. CASE e \in L /\ InFolder(req, e)
    <3>1. FolderOf(req, e) \in page.prefixes
      BY <1>1, <2>4
    <3>2. k \in In(FolderOf(req, e))
      BY <2>1, <2>2, <2>4, FolderOfIs DEF In
    <3>3. QED
      BY <3>1, <3>2
  <2>5. CASE e \notin L
    <3>1. L # E /\ m \in L /\ m \in E /\ m \in Keys /\ ~(e <= m)
      BY <1>5, <2>1, <2>5
    <3>2. m < e
      BY <2>2, <3>1, OrderIs
    <3>3. ASSUME k <= m PROVE FALSE
      <4>1. InFolder(req, k) /\ InFolder(req, e)
        BY <2>2, <3>1, <3>3
      <4>2. InFolder(req, m) /\ FolderOf(req, m) = FolderOf(req, e)
        <5>1. CASE k = m
          BY <2>2, <4>1, <5>1
        <5>2. CASE k # m
          <6>1. k < m
            BY <2>1, <3>1, <3>3, <5>2, OrderIs
          <6>2. QED
            BY <2>1, <2>2, <3>1, <3>2, <4>1, <6>1, FolderInOnePiece
        <5>3. QED
          BY <5>1, <5>2
      <4>3. e \in In(FolderOf(req, m))
        BY <2>2, <4>1, <4>2, FolderOfIs DEF In
      <4>4. QED
        BY <1>2, <3>1, <4>2, <4>3
    <3>4. k > m
      BY <2>1, <3>1, <3>3, OrderIs
    <3>5. QED
      BY <1>6, <2>1, <3>1, <3>4
  <2>6. QED
    BY <2>3, <2>4, <2>5
<1>12. page.token.at \in 0..Len(Order) /\ (page.token # NoToken => page.token.req = req)
  <2>1. CASE L = E
    BY <1>1, <2>1, OrderIs DEF NoToken
  <2>2. CASE L # E
    BY <1>1, <1>5, <2>2, OrderIs
  <2>3. QED
    BY <2>1, <2>2
<1>13. Whole(req, page.token)
  <2>1. CASE L = E
    <3>1. page.token.at = 0
      BY <1>1, <2>1 DEF NoToken
    <3>2. QED
      BY <3>1, OrderIs DEF Whole
  <2>2. CASE L # E
    <3>1. page.token.at = m /\ m \in E /\ m \in Keys
      BY <1>1, <1>5, <2>2
    <3>2. SUFFICES ASSUME NEW j \in Keys, NEW k \in Keys, j <= m, m < k,
                          InFolder(req, j), InFolder(req, k), FolderOf(req, j) = FolderOf(req, k)
                   PROVE  FALSE
      BY <3>1 DEF Whole
    <3>3. InFolder(req, m) /\ FolderOf(req, m) = FolderOf(req, k)
      <4>1. CASE j = m
        BY <3>2, <4>1
      <4>2. CASE j # m
        <5>1. j < m
          BY <3>1, <3>2, <4>2, OrderIs
        <5>2. QED
          BY <3>1, <3>2, <5>1, FolderInOnePiece
      <4>3. QED
        BY <4>1, <4>2
    <3>4. k \in In(FolderOf(req, m))
      BY <3>2, <3>3, FolderOfIs DEF In
    <3>5. k <= m
      BY <1>2, <3>1, <3>3, <3>4
    <3>6. QED
      BY <3>1, <3>2, <3>5, OrderIs
  <2>3. QED
    BY <2>1, <2>2
<1>14. ~req.delimiter => page.prefixes = {}
  BY <1>1 DEF InFolder
<1>15. QED
  BY <1>8, <1>9, <1>10, <1>11, <1>12, <1>13, <1>14
-----------------------------------------------------------------------------
(***************************************************************************)
(* The parts of the bucket that are still to be read.                      *)
(***************************************************************************)
Waiting(prefixes) == UNION {In(UrlDecode(p)) : p \in prefixes}
Separate(prefixes) ==
  \A p, q \in prefixes : p # q => In(UrlDecode(p)) \cap In(UrlDecode(q)) = {}

\* By the next request at the top, by the next one in the current folder, and in
\* the folders that wait.
AtTop ==
  IF ~finished /\ (main_continuation_token # NoToken \/ current_common_prefix = <<>>)
  THEN Left(Top(TRUE), main_continuation_token) ELSE {}
InCurrent ==
  IF current_common_prefix = <<>> THEN {}
  ELSE IF common_prefix_continuation_token = NoToken
  THEN In(UrlDecode(current_common_prefix))
  ELSE Left(common_prefix_continuation_token.req, common_prefix_continuation_token)
InWaiting == Waiting(common_prefixes)
Unread == AtTop \cup InCurrent \cup InWaiting

\* The type invariant, and where the variables of the glob come from.
Types ==
  /\ TypeOK
  /\ situation \in DOMAIN Situations /\ pattern \in Patterns
  /\ <<>> \notin common_prefixes

\* What is over, what is restarted and what tokens were given out for.
Control ==
  /\ finished => main_continuation_token = NoToken /\ current_common_prefix = <<>>
  /\ current_common_prefix = <<>> =>
       common_prefixes = {} /\ common_prefix_continuation_token = NoToken
  /\ restart => /\ main_continuation_token = NoToken /\ current_common_prefix = <<>>
                /\ glob_type = "HIERARCHICAL" /\ ~finished
  /\ glob_type = "UNKNOWN" /\ main_continuation_token # NoToken =>
       ~AllowRecursive \/ AnyDepth \in Range(pattern)
  /\ glob_type = "HIERARCHICAL" => Whole(Top(TRUE), main_continuation_token)
  /\ common_prefix_continuation_token # NoToken =>
       \E dir \in Seq(STRING) :
         /\ common_prefix_continuation_token.req = Folder(dir)
         /\ Whole(Folder(dir), common_prefix_continuation_token)

\* The unread parts of the bucket do not overlap.
Apart ==
  /\ AtTop \cap InCurrent = {} /\ AtTop \cap InWaiting = {}
  /\ InCurrent \cap InWaiting = {}
  /\ Separate(common_prefixes)

\* A key that was read matches, was there, was read once, and is in no unread
\* part.
Read ==
  \A k \in Keys : expanded[k] > 0 =>
    expanded[k] = 1 /\ k \in ever /\ Wanted(k) /\ k \notin Unread

\* A matching key that was there all the time was read or is in an unread part.
Pending == \A k \in stable : Wanted(k) => expanded[k] = 1 \/ k \in Unread

\* The inductive invariant.
IInv == Types /\ Control /\ Apart /\ Read /\ Pending

-----------------------------------------------------------------------------
\* Decoding a prefix gives a sequence of the same length.
LEMMA TextsAre ==
  ASSUME NEW s \in Seq(Range(Encode)) \cup Seq(Range(Decode))
  PROVE  /\ s \in Seq(DOMAIN Decode) /\ Len(s) \in Nat
         /\ UrlDecode(s) \in Seq(Range(Decode)) /\ UrlDecode(s) \in Seq(STRING)
         /\ UrlDecode(s) = <<>> <=> s = <<>>
<1>1. Range(Encode) \subseteq DOMAIN Decode /\ Range(Decode) \subseteq DOMAIN Decode
      /\ Range(Decode) \subseteq STRING
  BY CodingAssumption DEF Range
<1>2. s \in Seq(DOMAIN Decode) /\ Len(s) \in Nat
      /\ \A i \in 1..Len(s) : s[i] \in DOMAIN Decode
  <2>1. CASE s \in Seq(Range(Encode))
    <3>1. Len(s) \in Nat /\ s = [i \in 1..Len(s) |-> s[i]]
          /\ \A i \in 1..Len(s) : s[i] \in Range(Encode)
      BY <2>1
    <3>2. \A i \in 1..Len(s) : s[i] \in DOMAIN Decode
      BY <1>1, <3>1
    <3>3. QED
      BY <3>1, <3>2
  <2>2. CASE s \in Seq(Range(Decode))
    <3>1. Len(s) \in Nat /\ s = [i \in 1..Len(s) |-> s[i]]
          /\ \A i \in 1..Len(s) : s[i] \in Range(Decode)
      BY <2>2
    <3>2. \A i \in 1..Len(s) : s[i] \in DOMAIN Decode
      BY <1>1, <3>1
    <3>3. QED
      BY <3>1, <3>2
  <2>3. QED
    BY <2>1, <2>2
<1>3. UrlDecode(s) = [i \in 1..Len(s) |-> Decode[s[i]]]
  BY <1>2 DEF UrlDecode
<1>4. \A i \in 1..Len(s) : Decode[s[i]] \in Range(Decode) /\ Decode[s[i]] \in STRING
  <2>1. \A t \in DOMAIN Decode : Decode[t] \in Range(Decode)
    BY DEF Range
  <2>2. QED
    BY <1>1, <1>2, <2>1
<1>5. UrlDecode(s) \in Seq(Range(Decode)) /\ UrlDecode(s) \in Seq(STRING)
      /\ Len(UrlDecode(s)) = Len(s)
  BY <1>2, <1>3, <1>4
<1>6. QED
  BY <1>2, <1>5

\* A folder that is encoded and then decoded is the folder.
LEMMA EncodedIs ==
  ASSUME NEW f \in Seq(Names) \ {<<>>}
  PROVE  /\ UrlEncode(f) \in Seq(Range(Encode)) \ {<<>>}
         /\ UrlDecode(UrlEncode(f)) = f
<1>1. Len(f) \in Nat /\ f = [i \in 1..Len(f) |-> f[i]] /\ DOMAIN f = 1..Len(f)
      /\ Len(f) > 0 /\ \A i \in 1..Len(f) : f[i] \in Names
  OBVIOUS
<1>2. UrlEncode(f) = [i \in 1..Len(f) |-> Encode[f[i]]]
  BY <1>1 DEF UrlEncode
<1>3. \A n \in Names : Encode[n] \in Range(Encode)
  BY CodingAssumption DEF Range
<1>4. UrlEncode(f) \in Seq(Range(Encode)) \ {<<>>}
  BY <1>1, <1>2, <1>3
<1>5. UrlDecode(UrlEncode(f)) = [i \in 1..Len(f) |-> Decode[Encode[f[i]]]]
  BY <1>1, <1>2 DEF UrlDecode
<1>6. QED
  BY <1>1, <1>4, <1>5, CodingAssumption

\* The prefixes that ParseCommonPrefix reads stand for the folders of the page.
LEMMA ParsedAre ==
  ASSUME NEW page, \A f \in page.prefixes : f \in Seq(Names) \ {<<>>}
  PROVE  /\ ParseCommonPrefix(page) \subseteq Seq(Range(Encode)) \ {<<>>}
         /\ \A k : k \in Waiting(ParseCommonPrefix(page)) <=> \E f \in page.prefixes : k \in In(f)
         /\ (\A f, g \in page.prefixes : g # f => In(f) \cap In(g) = {}) =>
              Separate(ParseCommonPrefix(page))
<1>1. \A f \in page.prefixes :
         UrlEncode(f) \in Seq(Range(Encode)) \ {<<>>} /\ UrlDecode(UrlEncode(f)) = f
  BY EncodedIs
<1>2. ParseCommonPrefix(page) = {UrlEncode(f) : f \in page.prefixes}
  BY DEF ParseCommonPrefix
<1>3. QED
  BY <1>1, <1>2 DEF Waiting, Separate

\* A prefix is taken: it and the others are what waited before.
LEMMA Taken ==
  ASSUME NEW prefixes, prefixes \subseteq Seq(Range(Encode)) \ {<<>>},
         Separate(prefixes),
         TakePrefix(prefixes), common_prefix_continuation_token' = NoToken
  PROVE  /\ InCurrent' \cup InWaiting' = Waiting(prefixes)
         /\ InCurrent' \cap InWaiting' = {} /\ Separate(common_prefixes')
         /\ common_prefixes' \subseteq Seq(Range(Encode)) \ {<<>>}
         /\ current_common_prefix' \in Seq(Range(Encode)) \cup Seq(Range(Decode))
         /\ current_common_prefix' = <<>> => common_prefixes' = {}
<1>1. CASE prefixes = {} /\ current_common_prefix' = <<>> /\ common_prefixes' = {}
  <2>1. <<>> \in Seq(Range(Encode))
    OBVIOUS
  <2>2. QED
    BY <1>1, <2>1 DEF InCurrent, InWaiting, Waiting, Separate
<1>2. ASSUME NEW p \in prefixes,
             current_common_prefix' = p /\ common_prefixes' = prefixes \ {p}
      PROVE  /\ InCurrent' \cup InWaiting' = Waiting(prefixes)
             /\ InCurrent' \cap InWaiting' = {} /\ Separate(common_prefixes')
             /\ common_prefixes' \subseteq Seq(Range(Encode)) \ {<<>>}
             /\ current_common_prefix' \in Seq(Range(Encode)) \cup Seq(Range(Decode))
             /\ current_common_prefix' # <<>>
  <2>1. p \in Seq(Range(Encode)) /\ p # <<>>
    OBVIOUS
  <2>2. InCurrent' = In(UrlDecode(p))
    BY <1>2, <2>1 DEF InCurrent, In, UrlDecode
  <2>3. InWaiting' = Waiting(prefixes \ {p})
    BY <1>2 DEF InWaiting, Waiting, In, UrlDecode
  <2>4. Waiting(prefixes) = In(UrlDecode(p)) \cup Waiting(prefixes \ {p})
    BY DEF Waiting
  <2>5. In(UrlDecode(p)) \cap Waiting(prefixes \ {p}) = {}
    BY DEF Waiting, Separate
  <2>6. Separate(prefixes \ {p})
    BY DEF Separate
  <2>7. QED
    BY <1>2, <2>1, <2>2, <2>3, <2>4, <2>5, <2>6
<1>3. QED
  BY <1>1, <1>2 DEF TakePrefix

\* A page is read.
LEMMA PageRead ==
  ASSUME Types, Read, Pending, NEW R, R \subseteq Unread,
         NEW page, page.keys \subseteq R \cap present,
         NEW more, more \subseteq R, more \cap page.keys = {},
         \A k \in R \cap present : k \in page.keys \/ k \in more,
         Unread' = (Unread \ R) \cup more,
         Expand(page), UNCHANGED <<situation, pattern, stable, ever>>
  PROVE  Read' /\ Pending' /\ expanded' \in [Keys -> Nat]
<1>1. pattern \in Seq(SUBSET STRING)
  BY SituationAssumption DEF Types, Patterns, Situation
<1>2. \A k \in Keys : Match(Order[k], pattern, TRUE) <=> Matches(Order[k], pattern)
  BY <1>1, OrderIs, MatchIsExact
<1> DEFINE listed == {k \in ParseFileList(page) : Match(Order[k], pattern, TRUE)}
<1>3. stable \subseteq present /\ present \subseteq ever /\ ever \subseteq Keys
      /\ expanded \in [Keys -> Nat]
  BY DEF Types, TypeOK
<1>4. listed = {k \in page.keys : Wanted(k)}
  BY <1>2, <1>3 DEF ParseFileList, Wanted
<1>5. expanded' = [k \in Keys |-> expanded[k] + (IF k \in listed THEN 1 ELSE 0)]
  BY DEF Expand
<1>6. \A k : Wanted(k)' <=> Wanted(k)
  BY DEF Wanted
<1> HIDE DEF listed
<1>7. \A k \in Keys : k \in listed => expanded[k] = 0
  BY <1>3, <1>4 DEF Read
<1>8. \A k \in Keys : /\ expanded[k] \in Nat
                      /\ k \in listed => expanded'[k] = 1
                      /\ k \notin listed => expanded'[k] = expanded[k]
  BY <1>3, <1>5, <1>7
<1>9. expanded' \in [Keys -> Nat]
  BY <1>3, <1>5
<1>10. Read'
  <2>1. ASSUME NEW k \in Keys, expanded'[k] > 0
        PROVE  expanded'[k] = 1 /\ k \in ever /\ Wanted(k) /\ k \notin Unread'
    <3>1. CASE k \in listed
      <4>1. k \in R /\ k \in present /\ k \in page.keys /\ Wanted(k)
        BY <1>4, <3>1
      <4>2. QED
        BY <1>3, <1>8, <3>1, <4>1
    <3>2. CASE k \notin listed
      <4>1. expanded'[k] = expanded[k]
        BY <1>8, <3>2
      <4>2. expanded[k] = 1 /\ k \in ever /\ Wanted(k) /\ k \notin Unread
        BY <2>1, <4>1 DEF Read
      <4>3. QED
        BY <4>1, <4>2
    <3>3. QED
      BY <3>1, <3>2
  <2> HIDE DEF Unread
  <2>2. QED
    BY <1>6, <2>1 DEF Read
<1>11. Pending'
  <2>1. ASSUME NEW k \in stable, Wanted(k) PROVE expanded'[k] = 1 \/ k \in Unread'
    <3>1. k \in Keys /\ k \in present
      BY <1>3
    <3>2. CASE k \in listed
      BY <1>8, <3>1, <3>2
    <3>3. CASE k \notin listed /\ k \in R
      BY <1>4, <2>1, <3>1, <3>3
    <3>4. CASE k \notin listed /\ k \notin R
      BY <1>8, <2>1, <3>1, <3>4 DEF Pending
    <3>5. QED
      BY <3>2, <3>3, <3>4
  <2> HIDE DEF Unread
  <2>2. QED
    BY <1>6, <2>1 DEF Pending
<1>12. QED
  BY <1>9, <1>10, <1>11
-----------------------------------------------------------------------------
\* With and without a delimiter, the requests at the top list the same keys.
LEMMA TopIs ==
  ASSUME NEW d \in BOOLEAN
  PROVE  /\ Top(d).dir \in Seq(STRING) /\ Top(d).delimiter = d
         /\ \A token : Left(Top(d), token) = Left(Top(TRUE), token)
         /\ \A token : LeftAfter(Top(d), token) = LeftAfter(Top(TRUE), token)
         /\ \A token : ~d => Whole(Top(d), token)
<1>1. Top(d) = [dir |-> SharedDir, start |-> SharedStart, delimiter |-> d]
      /\ Top(TRUE) = [dir |-> SharedDir, start |-> SharedStart, delimiter |-> TRUE]
  BY DEF Top
<1>2. ASSUME NEW k PROVE Below(Top(d), k) <=> Below(Top(TRUE), k)
  <2>1. Top(d).dir = Top(TRUE).dir /\ Top(d).start = Top(TRUE).start
    BY DEF Top
  <2>2. QED
    BY <2>1 DEF Below
<1>3. \A token : Left(Top(d), token) = Left(Top(TRUE), token)
  BY <1>2 DEF Left
<1>4. \A token : ~d => Whole(Top(d), token)
  BY <1>1 DEF Whole, InFolder
<1>5. ASSUME NEW token PROVE LeftAfter(Top(d), token) = LeftAfter(Top(TRUE), token)
  BY <1>3 DEF LeftAfter
<1>6. Top(d).dir \in Seq(STRING) /\ Top(d).delimiter = d
  BY <1>1, OrderAssumption
<1>7. QED
  BY <1>3, <1>4, <1>5, <1>6

\* The request for a folder lists the keys below it.
LEMMA FolderIs ==
  ASSUME NEW dir \in Seq(STRING)
  PROVE  /\ Folder(dir).dir = dir /\ Folder(dir).delimiter = TRUE
         /\ In(dir) = Left(Folder(dir), NoToken)
         /\ Whole(Folder(dir), NoToken)
<1>1. Folder(dir) = [dir |-> dir, start |-> Names, delimiter |-> TRUE] /\ NoToken.at = 0
  BY DEF Folder, NoToken
<1>2. ASSUME NEW k \in Keys
      PROVE  IsStrictPrefix(dir, Order[k]) <=> Below(Folder(dir), k) /\ k > 0
  <2>1. ASSUME IsStrictPrefix(dir, Order[k]) PROVE Order[k][Len(dir) + 1] \in Names
    <3>1. Len(dir) < Len(Order[k]) /\ Len(dir) \in Nat /\ Len(Order[k]) \in Nat
      BY <2>1, OrderIs, StrictPrefix
    <3>2. Len(dir) + 1 \in 1..Len(Order[k])
      BY <3>1
    <3>3. QED
      BY <3>2, OrderIs
  <2>2. QED
    BY <1>1, <2>1, OrderIs DEF Below
<1>3. Whole(Folder(dir), NoToken)
  BY <1>1, OrderIs DEF Whole
<1>4. In(dir) = Left(Folder(dir), NoToken)
  <2>1. \A k \in Keys : IsStrictPrefix(dir, Order[k]) <=>
                        Below(Folder(dir), k) /\ k > NoToken.at
    BY <1>1, <1>2
  <2>2. QED
    BY <2>1 DEF In, Left
<1>5. QED
  BY <1>1, <1>3, <1>4

\* A page at the top is accepted.
LEMMA MainAccepted ==
  ASSUME IInv, ~finished, current_common_prefix = <<>>, NEW d \in BOOLEAN,
         Whole(Top(d), main_continuation_token), glob_type' = "HIERARCHICAL" => d,
         NEW page, page = Page(Top(d), main_continuation_token), AcceptMain(page),
         glob_type' \in {"UNKNOWN", "LISTING", "HIERARCHICAL"},
         restart' = FALSE,
         glob_type' = "UNKNOWN" /\ page.token # NoToken =>
           ~AllowRecursive \/ AnyDepth \in Range(pattern),
         UNCHANGED <<situation, pattern, present, stable, ever>>
  PROVE  IInv'
<1> DEFINE more == LeftAfter(Top(TRUE), page.token)
           P == ParseCommonPrefix(page)
           R == Left(Top(TRUE), main_continuation_token)
<1>1. /\ TypeOK /\ present \subseteq Keys /\ main_continuation_token.at \in 0..Len(Order)
      /\ common_prefixes = {} /\ common_prefix_continuation_token = NoToken
  BY DEF IInv, Types, TypeOK, Control
<1>2. /\ page.keys \subseteq R \cap present
      /\ page.keys \cap more = {} /\ more \subseteq R
      /\ \A f \in page.prefixes :
           /\ f \in Seq(Names) \ {<<>>}
           /\ In(f) \subseteq R
           /\ In(f) \cap page.keys = {} /\ In(f) \cap more = {}
           /\ \A g \in page.prefixes : g # f => In(f) \cap In(g) = {}
      /\ \A k \in R \cap present :
           k \in page.keys \/ k \in more \/ \E f \in page.prefixes : k \in In(f)
      /\ page.token.at \in 0..Len(Order) /\ Whole(Top(d), page.token)
  <2>1. /\ Top(d).dir \in Seq(STRING)
        /\ Left(Top(d), main_continuation_token) = R
        /\ LeftAfter(Top(d), page.token) = more
    BY TopIs
  <2> HIDE DEF R, more
  <2>2. QED
    BY <1>1, <2>1, PageIs
<1>3. /\ main_continuation_token' = page.token
      /\ TakePrefix(P) /\ Expand(page)
      /\ finished' = Over(main_continuation_token', current_common_prefix')
      /\ common_prefix_continuation_token' = NoToken /\ failed' = failed
  BY <1>1 DEF AcceptMain, ParseContinuationToken
<1>4. /\ P \subseteq Seq(Range(Encode)) \ {<<>>}
      /\ \A k : k \in Waiting(P) <=> \E f \in page.prefixes : k \in In(f)
      /\ Separate(P)
  BY <1>2, ParsedAre
<1> HIDE DEF P
<1>5. /\ InCurrent' \cup InWaiting' = Waiting(P)
      /\ InCurrent' \cap InWaiting' = {} /\ Separate(common_prefixes')
      /\ common_prefixes' \subseteq Seq(Range(Encode)) \ {<<>>}
      /\ current_common_prefix' \in Seq(Range(Encode)) \cup Seq(Range(Decode))
      /\ current_common_prefix' = <<>> => common_prefixes' = {}
  BY <1>3, <1>4, Taken
<1>6. finished' <=> page.token = NoToken /\ current_common_prefix' = <<>>
  BY <1>3 DEF Over
<1>7. AtTop' = more
  <2>1. AtTop' = IF ~finished' /\ (page.token # NoToken \/ current_common_prefix' = <<>>)
                 THEN Left(Top(TRUE), page.token) ELSE {}
    BY <1>3 DEF AtTop, Left, Top, Below
  <2>2. QED
    BY <1>6, <2>1 DEF LeftAfter
<1>8. Unread = R
  <2>1. AtTop = R /\ InCurrent = {} /\ InWaiting = {}
    BY <1>1 DEF AtTop, InCurrent, InWaiting, Waiting
  <2>2. QED
    BY <2>1 DEF Unread
<1>9. Unread' = more \cup Waiting(P)
  BY <1>5, <1>7 DEF Unread
<1> HIDE DEF more, R
<1>10. Read' /\ Pending' /\ expanded' \in [Keys -> Nat]
  <2> DEFINE M == more \cup Waiting(P)
  <2>1. M \subseteq R /\ M \cap page.keys = {}
        /\ \A k \in R \cap present : k \in page.keys \/ k \in M
    BY <1>2, <1>4
  <2>2. Unread' = (Unread \ R) \cup M /\ R \subseteq Unread
    BY <1>8, <1>9
  <2>3. Types /\ Read /\ Pending /\ Expand(page) /\ page.keys \subseteq R \cap present
    BY <1>2, <1>3 DEF IInv
  <2> HIDE DEF M, Unread
  <2>4. QED
    BY <2>1, <2>2, <2>3, PageRead
<1>11. Apart'
  BY <1>2, <1>4, <1>5, <1>7 DEF Apart
<1>12. Types'
  <2>1. TypeOK'
    <3>1. finished' \in BOOLEAN
      BY <1>3 DEF Over
    <3>2. restart' \in BOOLEAN /\ failed' \in BOOLEAN
      BY <1>1, <1>3 DEF TypeOK
    <3>3. main_continuation_token'.at \in 0..Len(Order)
          /\ common_prefix_continuation_token'.at \in 0..Len(Order)
      BY <1>1, <1>2, <1>3 DEF TypeOK
    <3>4. stable' \subseteq present' /\ present' \subseteq ever' /\ ever' \subseteq Keys
      BY <1>1 DEF TypeOK
    <3>5. QED
      BY <1>5, <1>10, <3>1, <3>2, <3>3, <3>4 DEF TypeOK
  <2>2. QED
    BY <1>5, <2>1 DEF IInv, Types, Patterns, Situation
<1>13. Control'
  <2>1. finished' => main_continuation_token' = NoToken /\ current_common_prefix' = <<>>
    BY <1>3, <1>6
  <2>2. glob_type' = "UNKNOWN" /\ main_continuation_token' # NoToken =>
          ~AllowRecursive' \/ AnyDepth \in Range(pattern')
    BY <1>3 DEF AllowRecursive, Situation
  <2>3. glob_type' = "HIERARCHICAL" => Whole(Top(TRUE), main_continuation_token')
    BY <1>2, <1>3
  <2>4. QED
    BY <1>3, <1>5, <2>1, <2>2, <2>3 DEF Control, Whole, Top, InFolder, FolderOf
<1>14. QED
  BY <1>10, <1>11, <1>12, <1>13 DEF IInv

\* ListMain preserves the invariant.
LEMMA ListMainStep ==
  ASSUME IInv, ListMain, UNCHANGED situation
  PROVE  IInv'
<1> DEFINE d == glob_type = "HIERARCHICAL"
           page == Page(Top(d), main_continuation_token)
<1>1. ~finished /\ ~restart /\ current_common_prefix = <<>> /\ TypeOK
      /\ UNCHANGED <<situation, pattern, present, stable, ever>>
  BY DEF ListMain, IInv, Types
<1>2. CASE /\ Investigates(page) /\ FewFolders(page)
           /\ glob_type' = "HIERARCHICAL" /\ restart' = TRUE
           /\ UNCHANGED <<main_continuation_token, current_common_prefix,
                          common_prefix_continuation_token, common_prefixes,
                          finished, expanded, failed>>
  <2>1. main_continuation_token = NoToken
    BY <1>2 DEF Investigates, IInv, Control
  <2>2. Types'
    BY <1>1, <1>2 DEF IInv, Types, TypeOK, Patterns, Situation
  <2>3. Control'
    <3>1. Whole(Top(TRUE), NoToken)
      BY OrderIs DEF Whole, NoToken
    <3>2. QED
      BY <1>1, <1>2, <2>1, <3>1 DEF IInv, Control, Whole, Top, InFolder, FolderOf
  <2>4. AtTop' = AtTop /\ InCurrent' = InCurrent /\ InWaiting' = InWaiting
    BY <1>1, <1>2
       DEF AtTop, InCurrent, InWaiting, Left, Top, Below, In, Waiting, UrlDecode
  <2>5. Apart'
    BY <1>2, <2>4 DEF IInv, Apart, Separate, In, UrlDecode
  <2>6. Read' /\ Pending'
    <3>1. Unread' = Unread
      BY <2>4 DEF Unread
    <3>2. QED
      BY <1>1, <1>2, <3>1 DEF IInv, Read, Pending, Wanted
  <2>7. QED
    BY <2>2, <2>3, <2>5, <2>6 DEF IInv
<1>3. CASE /\ ~(Investigates(page) /\ FewFolders(page))
           /\ glob_type' = IF Investigates(page) THEN "LISTING" ELSE glob_type
           /\ AcceptMain(page)
           /\ UNCHANGED restart
  <2>1. d \in BOOLEAN /\ Whole(Top(d), main_continuation_token)
    <3>1. CASE d
      BY <3>1 DEF IInv, Control
    <3>2. CASE ~d
      BY <3>2, TopIs
    <3>3. QED
      BY <3>1, <3>2
  <2>2. glob_type' = "HIERARCHICAL" => d
    BY <1>3
  <2>3. restart' = FALSE /\ glob_type' \in {"UNKNOWN", "LISTING", "HIERARCHICAL"}
    BY <1>1, <1>3 DEF TypeOK
  <2>4. glob_type' = "UNKNOWN" /\ page.token # NoToken =>
           ~AllowRecursive \/ AnyDepth \in Range(pattern)
    BY <1>3 DEF Investigates
  <2> HIDE DEF d
  <2>5. AcceptMain(page)
    BY <1>3
  <2>6. QED
    BY <1>1, <2>1, <2>2, <2>3, <2>4, <2>5, MainAccepted
<1>4. QED
  BY <1>2, <1>3 DEF ListMain

\* ListMainAgain preserves the invariant.
LEMMA ListMainAgainStep ==
  ASSUME IInv, ListMainAgain, UNCHANGED situation
  PROVE  IInv'
<1> DEFINE page == Page(Top(TRUE), main_continuation_token)
<1>1. /\ ~finished /\ current_common_prefix = <<>> /\ restart' = FALSE
      /\ glob_type = "HIERARCHICAL" /\ glob_type' = glob_type
      /\ Whole(Top(TRUE), main_continuation_token) /\ AcceptMain(page)
      /\ UNCHANGED <<situation, pattern, present, stable, ever>>
  BY DEF ListMainAgain, IInv, Control
<1>2. QED
  BY <1>1, MainAccepted
\* The top is as it was when a folder was read.
LEMMA TopStays ==
  ASSUME IInv, ~finished, current_common_prefix # <<>>,
         UNCHANGED main_continuation_token,
         finished' = Over(main_continuation_token, current_common_prefix')
  PROVE  AtTop' = AtTop
<1>1. AtTop = IF main_continuation_token # NoToken
              THEN Left(Top(TRUE), main_continuation_token) ELSE {}
  BY DEF AtTop
<1>2. AtTop' = IF ~finished' /\ (main_continuation_token # NoToken \/ current_common_prefix' = <<>>)
               THEN Left(Top(TRUE), main_continuation_token) ELSE {}
  BY DEF AtTop, Left, Top, Below
<1>3. QED
  BY <1>1, <1>2 DEF Over

\* What is left of the folder that was read, and what waits after it.
LEMMA FolderLeft ==
  ASSUME IInv, ~finished, current_common_prefix # <<>>,
         NEW dir \in Seq(STRING), NEW token, token.at \in 0..Len(Order),
         token # NoToken => token.req = Folder(dir) /\ Whole(Folder(dir), token),
         NEW prefixes, prefixes \subseteq Seq(Range(Encode)) \ {<<>>}, Separate(prefixes),
         LeaveFolder(token, prefixes),
         LeftAfter(Folder(dir), token) \cap Waiting(prefixes) = {},
         AtTop \cap (LeftAfter(Folder(dir), token) \cup Waiting(prefixes)) = {},
         UNCHANGED <<situation, pattern, glob_type, main_continuation_token, restart, failed,
                     present, stable, ever>>,
         expanded' \in [Keys -> Nat]
  PROVE  /\ Unread' = AtTop \cup LeftAfter(Folder(dir), token) \cup Waiting(prefixes)
         /\ Types' /\ Control' /\ Apart'
<1>1. /\ TypeOK /\ <<>> \notin common_prefixes
      /\ current_common_prefix \in Seq(Range(Encode)) \cup Seq(Range(Decode))
      /\ ~restart
  BY DEF IInv, Types, TypeOK, Control
<1>2. /\ common_prefix_continuation_token' = token
      /\ finished' = Over(main_continuation_token, current_common_prefix')
  BY DEF LeaveFolder
<1>3. AtTop' = AtTop
  BY <1>2, TopStays
<1>4. /\ InCurrent' \cup InWaiting' = LeftAfter(Folder(dir), token) \cup Waiting(prefixes)
      /\ InCurrent' \cap InWaiting' = {} /\ Separate(common_prefixes')
      /\ common_prefixes' \subseteq Seq(Range(Encode)) \ {<<>>}
      /\ current_common_prefix' \in Seq(Range(Encode)) \cup Seq(Range(Decode))
      /\ current_common_prefix' = <<>> => common_prefixes' = {} /\ token = NoToken
  <2>1. CASE token = NoToken
    <3>1. LeftAfter(Folder(dir), token) = {}
      BY <2>1 DEF LeftAfter
    <3>2. TakePrefix(prefixes)
      BY <2>1 DEF LeaveFolder
    <3>3. QED
      BY <1>2, <2>1, <3>1, <3>2, Taken
  <2>2. CASE token # NoToken
    <3>1. current_common_prefix' = UrlDecode(current_common_prefix)
          /\ common_prefixes' = prefixes
      BY <2>2 DEF LeaveFolder
    <3>2. current_common_prefix' \in Seq(Range(Decode)) /\ current_common_prefix' # <<>>
      BY <1>1, <3>1, TextsAre
    <3>3. InCurrent' = Left(token.req, token)
      BY <1>2, <2>2, <3>2 DEF InCurrent, Left, Below
    <3>4. InCurrent' = LeftAfter(Folder(dir), token)
      BY <2>2, <3>3 DEF LeftAfter
    <3>5. InWaiting' = Waiting(prefixes)
      BY <3>1 DEF InWaiting, Waiting, In, UrlDecode
    <3>6. QED
      BY <3>1, <3>2, <3>4, <3>5
  <2>3. QED
    BY <2>1, <2>2
<1>5. Unread' = AtTop \cup LeftAfter(Folder(dir), token) \cup Waiting(prefixes)
  BY <1>3, <1>4 DEF Unread
<1>6. Apart'
  <2> HIDE DEF AtTop, InCurrent, InWaiting
  <2>1. AtTop' \cap (InCurrent' \cup InWaiting') = {}
    BY <1>3, <1>4
  <2>2. QED
    BY <1>4, <2>1 DEF Apart, Separate, In, UrlDecode
<1>7. Types'
  <2>1. finished' \in BOOLEAN
    BY <1>2 DEF Over
  <2>2. main_continuation_token'.at \in 0..Len(Order)
        /\ common_prefix_continuation_token'.at \in 0..Len(Order)
    BY <1>1, <1>2 DEF TypeOK
  <2>3. /\ glob_type' \in {"UNKNOWN", "LISTING", "HIERARCHICAL"}
        /\ restart' \in BOOLEAN /\ failed' \in BOOLEAN
        /\ stable' \subseteq present' /\ present' \subseteq ever' /\ ever' \subseteq Keys
    BY <1>1 DEF TypeOK
  <2>4. TypeOK'
    BY <1>4, <2>1, <2>2, <2>3 DEF TypeOK
  <2>5. QED
    BY <1>4, <2>4 DEF IInv, Types, Patterns, Situation
<1>8. Control'
  <2>1. finished' => main_continuation_token' = NoToken /\ current_common_prefix' = <<>>
    BY <1>2 DEF Over
  <2>2. glob_type' = "UNKNOWN" /\ main_continuation_token' # NoToken =>
          ~AllowRecursive' \/ AnyDepth \in Range(pattern')
    BY DEF IInv, Control, AllowRecursive, Situation
  <2>3. glob_type' = "HIERARCHICAL" => Whole(Top(TRUE), main_continuation_token')
    BY DEF IInv, Control
  <2>4. /\ current_common_prefix' = <<>> =>
             common_prefixes' = {} /\ common_prefix_continuation_token' = NoToken
        /\ ~restart'
    BY <1>1, <1>2, <1>4
  <2>5. token # NoToken => \E e \in Seq(STRING) :
          token.req = Folder(e) /\ Whole(Folder(e), token)
    OBVIOUS
  <2>6. common_prefix_continuation_token' # NoToken => \E e \in Seq(STRING) :
          /\ common_prefix_continuation_token'.req = Folder(e)'
          /\ Whole(Folder(e), common_prefix_continuation_token)'
    BY <1>2, <2>5 DEF Whole, Folder, InFolder, FolderOf
  <2>7. Whole(Top(TRUE), main_continuation_token)' =
          Whole(Top(TRUE), main_continuation_token')
    BY DEF Whole, Top, InFolder, FolderOf
  <2>8. QED
    BY <2>1, <2>2, <2>3, <2>4, <2>6, <2>7 DEF Control
<1>9. QED
  BY <1>5, <1>6, <1>7, <1>8

\* ListPrefix preserves the invariant.
LEMMA ListPrefixStep ==
  ASSUME IInv, ListPrefix, UNCHANGED situation
  PROVE  IInv'
<1> DEFINE dir == UrlDecode(current_common_prefix)
           req == Folder(dir)
           token == common_prefix_continuation_token
           page == Page(req, token)
           P == ParseCommonPrefix(page)
           more == LeftAfter(req, page.token)
<1>1. /\ ~finished /\ current_common_prefix # <<>> /\ ~Refused(req, token)
      /\ LeaveFolder(page.token, common_prefixes \cup P) /\ Expand(page)
      /\ UNCHANGED <<situation, pattern, glob_type, main_continuation_token, restart, failed,
                     present, stable, ever>>
  BY DEF ListPrefix, NextOfFolder, WithMore
<1>2. /\ current_common_prefix \in Seq(Range(Encode)) \cup Seq(Range(Decode))
      /\ common_prefixes \subseteq Seq(Range(Encode)) \ {<<>>}
      /\ token.at \in 0..Len(Order) /\ present \subseteq Keys
  BY DEF IInv, Types, TypeOK
<1>3. dir \in Seq(STRING)
  BY <1>2, TextsAre
<1> HIDE DEF dir
<1>4. InCurrent = Left(req, token) /\ Whole(req, token)
  <2>1. CASE token = NoToken
    <3>1. InCurrent = In(dir)
      BY <1>1, <2>1 DEF InCurrent, dir
    <3>2. QED
      BY <1>3, <2>1, <3>1, FolderIs
  <2>2. CASE token # NoToken
    <3>1. token.req = req
      BY <1>1, <2>2 DEF Refused
    <3>2. InCurrent = Left(req, token)
      BY <1>1, <2>2, <3>1 DEF InCurrent
    <3>3. Whole(req, token)
      BY <2>2, <3>1 DEF IInv, Control
    <3>4. QED
      BY <3>2, <3>3
  <2>3. QED
    BY <2>1, <2>2
<1>5. /\ page.keys \subseteq InCurrent \cap present
      /\ page.keys \cap more = {} /\ more \subseteq InCurrent
      /\ \A f \in page.prefixes :
           /\ f \in Seq(Names) \ {<<>>}
           /\ In(f) \subseteq InCurrent
           /\ In(f) \cap page.keys = {} /\ In(f) \cap more = {}
           /\ \A g \in page.prefixes : g # f => In(f) \cap In(g) = {}
      /\ \A k \in InCurrent \cap present :
           k \in page.keys \/ k \in more \/ \E f \in page.prefixes : k \in In(f)
      /\ page.token.at \in 0..Len(Order) /\ Whole(req, page.token)
      /\ page.token # NoToken => page.token.req = req
  <2>1. req.dir \in Seq(STRING)
    BY <1>3, FolderIs
  <2> HIDE DEF req, more, token
  <2>2. more = LeftAfter(req, page.token)
    BY DEF more
  <2> HIDE DEF page
  <2>3. page = Page(req, token)
    BY DEF page
  <2>4. QED
    BY <1>2, <1>4, <2>1, <2>2, <2>3, PageIs
<1>6. /\ P \subseteq Seq(Range(Encode)) \ {<<>>}
      /\ \A k : k \in Waiting(P) <=> \E f \in page.prefixes : k \in In(f)
      /\ Separate(P)
  BY <1>5, ParsedAre
<1> HIDE DEF P, more, page, req
<1>7. Waiting(P) \subseteq InCurrent /\ Waiting(P) \cap more = {}
      /\ Waiting(P) \cap page.keys = {}
  BY <1>5, <1>6
<1>8. Waiting(common_prefixes \cup P) = InWaiting \cup Waiting(P)
  BY DEF Waiting, InWaiting
<1>9. /\ AtTop \cap InCurrent = {} /\ AtTop \cap InWaiting = {}
      /\ InCurrent \cap InWaiting = {}
      /\ Separate(common_prefixes)
  BY DEF IInv, Apart
<1>10. Separate(common_prefixes \cup P)
  <2>1. \A p \in common_prefixes, q \in P : In(UrlDecode(p)) \cap In(UrlDecode(q)) = {}
    <3>1. \A p \in common_prefixes : In(UrlDecode(p)) \subseteq InWaiting
      BY DEF InWaiting, Waiting
    <3>2. \A q \in P : In(UrlDecode(q)) \subseteq InCurrent
      BY <1>7 DEF Waiting
    <3>3. QED
      BY <1>9, <3>1, <3>2
  <2>2. QED
    BY <1>6, <1>9, <2>1 DEF Separate
<1> DEFINE M == more \cup Waiting(P)
<1>11. /\ M \subseteq InCurrent /\ M \cap page.keys = {}
       /\ \A k \in InCurrent \cap present : k \in page.keys \/ k \in M
  BY <1>5, <1>6, <1>7
<1>12. /\ Unread' = AtTop \cup more \cup Waiting(common_prefixes \cup P)
       /\ expanded' \in [Keys -> Nat] => Types' /\ Control' /\ Apart'
       /\ expanded' \in [Keys -> Nat]
  <2>1. expanded' \in [Keys -> Nat]
    <3> DEFINE listed == {k \in ParseFileList(page) : Match(Order[k], pattern, TRUE)}
    <3>1. expanded' = [k \in Keys |-> expanded[k] + (IF k \in listed THEN 1 ELSE 0)]
      BY <1>1 DEF Expand
    <3>2. expanded \in [Keys -> Nat]
      BY DEF IInv, Types, TypeOK
    <3> HIDE DEF listed
    <3>3. QED
      BY <3>1, <3>2
  <2>2. /\ more \cap Waiting(common_prefixes \cup P) = {}
        /\ AtTop \cap (more \cup Waiting(common_prefixes \cup P)) = {}
    BY <1>5, <1>7, <1>8, <1>9
  <2>3. page.token # NoToken => page.token.req = Folder(dir) /\ Whole(Folder(dir), page.token)
    BY <1>5 DEF req
  <2>4. more = LeftAfter(Folder(dir), page.token)
    BY DEF more, req
  <2>5. QED
    BY <1>1, <1>2, <1>3, <1>5, <1>6, <1>10, <2>1, <2>2, <2>3, <2>4, FolderLeft
<1>13. Unread' = (Unread \ InCurrent) \cup M
  BY <1>8, <1>9, <1>12 DEF Unread
<1>14. Read' /\ Pending'
  <2>1. Types /\ Read /\ Pending /\ InCurrent \subseteq Unread
        /\ page.keys \subseteq InCurrent \cap present
    BY <1>5 DEF IInv, Unread
  <2> HIDE DEF M, Unread
  <2>2. QED
    BY <1>1, <1>11, <1>13, <2>1, PageRead
<1>15. QED
  BY <1>12, <1>14 DEF IInv
\* SkipPrefix preserves the invariant: the folder it leaves has no match.
LEMMA SkipPrefixStep ==
  ASSUME IInv, SkipPrefix, UNCHANGED situation
  PROVE  IInv'
<1> DEFINE dir == UrlDecode(current_common_prefix)
           token == common_prefix_continuation_token
<1>1. /\ ~finished /\ current_common_prefix # <<>> /\ ~FolderMatches(dir)
      /\ LeaveFolder(token, common_prefixes)
      /\ UNCHANGED <<situation, pattern, glob_type, main_continuation_token, restart, failed,
                     expanded, present, stable, ever>>
  BY DEF SkipPrefix
<1>2. /\ current_common_prefix \in Seq(Range(Encode)) \cup Seq(Range(Decode))
      /\ common_prefixes \subseteq Seq(Range(Encode)) \ {<<>>}
      /\ token.at \in 0..Len(Order) /\ expanded \in [Keys -> Nat]
      /\ stable \subseteq Keys /\ pattern \in Seq(SUBSET STRING)
  BY SituationAssumption DEF IInv, Types, TypeOK, Patterns, Situation
<1>3. dir \in Seq(STRING)
  BY <1>2, TextsAre
<1> HIDE DEF dir
<1>4. /\ AtTop \cap InCurrent = {} /\ AtTop \cap InWaiting = {}
      /\ InCurrent \cap InWaiting = {}
      /\ Separate(common_prefixes) /\ Waiting(common_prefixes) = InWaiting
  BY DEF IInv, Apart, InWaiting
<1>5. PICK d \in Seq(STRING) :
        /\ token # NoToken => token.req = Folder(d) /\ Whole(Folder(d), token)
        /\ LeftAfter(Folder(d), token) \subseteq InCurrent
        /\ token # NoToken => InCurrent = LeftAfter(Folder(d), token)
  <2>1. CASE token = NoToken
    BY <1>3, <2>1 DEF LeftAfter
  <2>2. CASE token # NoToken
    <3>1. PICK d \in Seq(STRING) : token.req = Folder(d) /\ Whole(Folder(d), token)
      BY <2>2 DEF IInv, Control
    <3>2. InCurrent = LeftAfter(Folder(d), token)
      BY <1>1, <2>2, <3>1 DEF InCurrent, LeftAfter
    <3>3. QED
      BY <2>2, <3>1, <3>2
  <2>3. QED
    BY <2>1, <2>2
<1> DEFINE more == LeftAfter(Folder(d), token)
<1>6. /\ Unread' = AtTop \cup more \cup InWaiting
      /\ Types' /\ Control' /\ Apart'
  <2>1. /\ more \cap Waiting(common_prefixes) = {}
        /\ AtTop \cap (more \cup Waiting(common_prefixes)) = {}
    BY <1>4, <1>5
  <2>2. expanded' \in [Keys -> Nat]
    BY <1>1, <1>2
  <2>3. QED
    BY <1>1, <1>2, <1>4, <1>5, <2>1, <2>2, FolderLeft
<1>7. \A k \in Keys : Wanted(k) /\ k \in Unread => k \in Unread'
  <2>1. CASE token # NoToken
    BY <1>5, <1>6, <2>1 DEF Unread
  <2>2. ASSUME token = NoToken, NEW k \in Keys, Wanted(k), k \in InCurrent PROVE FALSE
    <3>1. InCurrent = In(dir)
      BY <1>1, <2>2 DEF InCurrent, dir
    <3>2. IsStrictPrefix(dir, Order[k]) /\ Matches(Order[k], pattern)
      BY <2>2, <3>1 DEF In, Wanted
    <3>3. Match(Order[k], pattern, TRUE)
      BY <1>2, <3>2, OrderIs, MatchIsExact
    <3>4. FolderMatches(dir)
      BY <1>2, <1>3, <3>2, <3>3, OrderIs, FolderOfMatch DEF FolderMatches
    <3>5. QED
      BY <1>1, <3>4
  <2>3. QED
    BY <1>6, <2>1, <2>2 DEF Unread
<1>8. Unread' \subseteq Unread
  BY <1>5, <1>6 DEF Unread
<1>9. \A k : Wanted(k)' <=> Wanted(k)
  BY <1>1 DEF Wanted
<1> HIDE DEF Unread
<1>10. Read'
  BY <1>1, <1>8, <1>9 DEF IInv, Read
<1>11. Pending'
  BY <1>1, <1>2, <1>7, <1>9 DEF IInv, Pending
<1>12. QED
  BY <1>6, <1>10, <1>11 DEF IInv

\* Where the glob stands where it stood, what is unread is what was unread.
LEMMA StandsStill ==
  ASSUME IInv,
         UNCHANGED <<situation, pattern, glob_type, main_continuation_token,
                     current_common_prefix, common_prefix_continuation_token,
                     common_prefixes, finished, restart, expanded>>,
         stable' \subseteq stable, ever \subseteq ever', TypeOK'
  PROVE  IInv'
<1>1. Types'
  BY DEF IInv, Types, Patterns, Situation
<1>2. Control'
  <2>1. \A req, token : Whole(req, token)' <=> Whole(req, token)
    BY DEF Whole, InFolder, FolderOf
  <2>2. Top(TRUE)' = Top(TRUE) /\ (\A dir : Folder(dir)' = Folder(dir))
        /\ AllowRecursive' = AllowRecursive
    BY DEF Top, Folder, AllowRecursive, Situation
  <2>3. Whole(Top(TRUE), main_continuation_token)' <=>
          Whole(Top(TRUE), main_continuation_token)
    BY <2>2 DEF Whole, InFolder, FolderOf
  <2>4. \A dir : Whole(Folder(dir), common_prefix_continuation_token)' <=>
                 Whole(Folder(dir), common_prefix_continuation_token)
    BY <2>2 DEF Whole, InFolder, FolderOf
  <2>5. QED
    BY <2>2, <2>3, <2>4 DEF IInv, Control
<1>3. AtTop' = AtTop /\ InCurrent' = InCurrent /\ InWaiting' = InWaiting
  BY DEF AtTop, InCurrent, InWaiting, Left, Top, Below, In, Waiting, UrlDecode
<1>4. Apart'
  BY <1>3 DEF IInv, Apart, Separate, In, UrlDecode
<1>5. Unread' = Unread
  BY <1>3 DEF Unread
<1>6. \A k : Wanted(k)' <=> Wanted(k)
  BY DEF Wanted
<1> HIDE DEF Unread
<1>7. Read' /\ Pending'
  BY <1>5, <1>6 DEF IInv, Read, Pending
<1>8. QED
  BY <1>1, <1>2, <1>4, <1>7 DEF IInv

\* The bucket changes, or nothing does.
LEMMA OthersStep ==
  ASSUME IInv, UNCHANGED glob, UNCHANGED situation,
         stable' \subseteq present', present' \subseteq ever', ever' \subseteq Keys,
         stable' \subseteq stable, ever \subseteq ever'
  PROVE  IInv'
<1>1. UNCHANGED <<pattern, glob_type, main_continuation_token, current_common_prefix,
                  common_prefix_continuation_token, common_prefixes, finished,
                  restart, expanded, failed, situation>>
  BY DEF glob
<1>2. TypeOK'
  BY <1>1 DEF IInv, Types, TypeOK
<1>3. QED
  BY <1>1, <1>2, StandsStill

\* RequestFails preserves the invariant.
LEMMA RequestFailsStep ==
  ASSUME IInv, RequestFails, UNCHANGED situation
  PROVE  IInv'
<1>1. /\ failed' = TRUE
      /\ UNCHANGED <<pattern, glob_type, main_continuation_token, current_common_prefix,
                     common_prefix_continuation_token, common_prefixes, finished,
                     restart, expanded, situation, present, stable, ever>>
  BY DEF RequestFails
<1>2. TypeOK'
  BY <1>1 DEF IInv, Types, TypeOK
<1>3. QED
  BY <1>1, <1>2, StandsStill

\* The invariant holds at first: every key that matches is listed at the top.
LEMMA InitHolds == Init => IInv
<1> SUFFICES ASSUME Init PROVE IInv
  OBVIOUS
<1>1. /\ situation \in DOMAIN Situations /\ pattern \in Patterns
      /\ glob_type = "UNKNOWN" /\ finished = FALSE /\ restart = FALSE
      /\ main_continuation_token = NoToken
      /\ current_common_prefix = <<>> /\ common_prefixes = {}
      /\ common_prefix_continuation_token = NoToken
      /\ expanded = [k \in Keys |-> 0] /\ failed = FALSE
      /\ present = InitialKeys /\ stable = InitialKeys /\ ever = InitialKeys
      /\ NoToken.at = 0 /\ InitialKeys \subseteq Keys
  BY OrderAssumption DEF Init, NoToken
<1>2. TypeOK
  <2>1. 0 \in 0..Len(Order) /\ main_continuation_token.at = 0
        /\ common_prefix_continuation_token.at = 0
    BY <1>1, OrderIs
  <2>2. <<>> \in Seq(Range(Encode)) /\ expanded \in [Keys -> Nat]
    BY <1>1
  <2>3. QED
    BY <1>1, <2>1, <2>2 DEF TypeOK
<1>3. Types /\ Control
  BY <1>1, <1>2 DEF Types, Control
<1>4. AtTop = Left(Top(TRUE), NoToken) /\ InCurrent = {} /\ InWaiting = {}
  BY <1>1 DEF AtTop, InCurrent, InWaiting, Waiting
<1>5. Apart
  BY <1>1, <1>4 DEF Apart, Separate
<1>6. Read
  BY <1>1 DEF Read
<1>7. Pending
  <2> SUFFICES ASSUME NEW k \in stable, Wanted(k) PROVE k \in Left(Top(TRUE), NoToken)
    BY <1>4 DEF Pending, Unread
  <2>1. k \in Keys /\ Matches(Order[k], pattern)
    BY <1>1 DEF Wanted
  <2>2. /\ IsStrictPrefix(SharedDir, Order[k])
        /\ Order[k][Len(SharedDir) + 1] \in SharedStart
    BY <1>1, <2>1, SituationAssumption DEF Patterns, Situation
  <2>3. QED
    BY <1>1, <2>1, <2>2, OrderIs DEF Left, Below, Top
<1>8. QED
  BY <1>3, <1>5, <1>6, <1>7 DEF IInv

\* Every step preserves the invariant.
LEMMA NextHolds == IInv /\ [Next]_<<vars, situation>> => IInv'
<1> SUFFICES ASSUME IInv, [Next]_<<vars, situation>> PROVE IInv'
  OBVIOUS
<1>t. stable \subseteq present /\ present \subseteq ever /\ ever \subseteq Keys
  BY DEF IInv, Types, TypeOK
<1>1. ASSUME ExpandNextPath, UNCHANGED situation PROVE IInv'
  BY <1>1, ListMainStep, ListMainAgainStep, ListPrefixStep, SkipPrefixStep
     DEF ExpandNextPath
<1>2. ASSUME RequestFails, UNCHANGED situation PROVE IInv'
  BY <1>2, RequestFailsStep
<1>3. ASSUME NEW k \in Keys, Put(k), UNCHANGED situation PROVE IInv'
  <2>1. /\ UNCHANGED glob /\ stable' = stable /\ present' = present \cup {k}
        /\ ever' = ever \cup {k}
    BY <1>3 DEF Put
  <2>2. QED
    BY <1>t, <1>3, <2>1, OthersStep
<1>4. ASSUME NEW k \in Keys, Delete(k), UNCHANGED situation PROVE IInv'
  <2>1. /\ UNCHANGED glob /\ ever' = ever /\ present' = present \ {k}
        /\ stable' = stable \ {k}
    BY <1>4 DEF Delete
  <2>2. QED
    BY <1>t, <1>4, <2>1, OthersStep
<1>5. ASSUME UNCHANGED <<vars, situation>> PROVE IInv'
  BY <1>t, <1>5, OthersStep DEF vars
<1>6. QED
  BY <1>1, <1>2, <1>3, <1>4, <1>5 DEF Next

\* The variables of the glob have their types.
THEOREM TypeCorrect == Spec => []TypeOK
<1>1. IInv => TypeOK
  BY DEF IInv, Types
<1>2. QED
  BY <1>1, InitHolds, NextHolds, PTL DEF Spec

\* A glob yields a key at most once, and only one that matches and was in the
\* bucket, whichever listing it uses and whatever others put and delete.
THEOREM ListedOnceHolds == Spec => []ListedOnce
<1>1. IInv => ListedOnce
  BY DEF IInv, Read, ListedOnce
<1>2. QED
  BY <1>1, InitHolds, NextHolds, PTL DEF Spec

\* A glob that is over has yielded every matching key that was in the bucket all
\* the time: no page, folder, restart or skipped folder loses one.
THEOREM NothingLostHolds == Spec => []NothingLost
<1>1. IInv => NothingLost
  <2> SUFFICES ASSUME IInv, finished, NEW k \in stable, Wanted(k) PROVE expanded[k] = 1
    BY DEF NothingLost
  <2>1. AtTop = {} /\ InCurrent = {} /\ InWaiting = {}
    BY DEF IInv, Control, AtTop, InCurrent, InWaiting, Waiting
  <2>2. Unread = {}
    BY <2>1 DEF Unread
  <2>3. QED
    BY <2>2 DEF IInv, Pending
<1>2. QED
  BY <1>1, InitHolds, NextHolds, PTL DEF Spec

-----------------------------------------------------------------------------
(***************************************************************************)
(* The walk of a Hugging Face repository, for any repository, page size    *)
(* and number of retries.                                                  *)
(***************************************************************************)
Paths == Range(HFOrder)

\* The paths in a directory; those at a path or in it; those that a page and the
\* pages after it list, or that are in what they list.
Under(d) == {p \in Paths : IsStrictPrefix(d, p)}
AtOrUnder(d) == {p \in Paths : IsPrefix(d, p)}
Child(d, p) == SubSeq(p, 1, Len(d) + 1)
FromPage(url) == {p \in Under(url.dir) : Position(Child(url.dir, p)) > url.after}

\* What is still to be listed: what the page being scanned, of which k entries
\* are done, tells of; the next page; and the directories.
OnPage(page, k) == UNION {AtOrUnder(HFOrder[page[e]]) : e \in k + 1 .. Len(page)}
NextOn == IF next_page_url = NoUrl THEN {} ELSE FromPage(next_page_url)
InDirs == UNION {Under(dirs[i]) : i \in DOMAIN dirs}
Unlisted(page, k) == OnPage(page, k) \cup NextOn \cup InDirs

HFTypes ==
  /\ repository \in DOMAIN Repositories /\ hf_pattern \in HFPatterns
  /\ Paths \ Late \subseteq tree /\ tree \subseteq Paths
  /\ files \in Seq(Paths) /\ dirs \in Seq(Seq(STRING))
  /\ \A i \in DOMAIN dirs : IsPrefix(SharedPath, dirs[i])
  /\ next_page_url \in [dir : Seq(STRING), after : Nat \cup {-1}]
  /\ next_page_url # NoUrl =>
       IsPrefix(SharedPath, next_page_url.dir) /\ next_page_url.after \in Nat

\* The scanner when it has read r tokens of an entry, r > 0.
ScannerAt(p, r) ==
  [entry |-> TRUE, nested |-> IF r = 3 THEN 1 ELSE 0,
   type |-> IF r >= 2 THEN TypeOf(p) ELSE "unknown", path |-> IF r = 5 THEN p ELSE <<>>]

\* What is being scanned: a page of which k entries and r tokens are done.
Place(page, k, r) ==
  /\ page \in Seq(DOMAIN HFOrder) /\ k \in 0 .. Len(page) /\ r \in 0 .. 5
  /\ k = Len(page) => r = 0
  /\ \A e \in DOMAIN page :
       HFOrder[page[e]] \in tree /\ IsStrictPrefix(SharedPath, HFOrder[page[e]])
  /\ pc = "parse" =>
       /\ response = SubSeq(Tokens(page), 6 * k + r + 1, 6 * Len(page))
       /\ r = 0 => scanner = NewScanner
       /\ r > 0 => scanner = ScannerAt(HFOrder[page[k + 1]], r)
  /\ pc # "parse" => page = <<>>
  /\ pc = "request" =>
       response = <<>> /\ link_header_result = NoUrl /\ next_page_url # NoUrl

HFApart(page, k) ==
  /\ OnPage(page, k) \cap NextOn = {} /\ OnPage(page, k) \cap InDirs = {}
  /\ NextOn \cap InDirs = {}
  /\ \A i, j \in DOMAIN dirs : i # j => Under(dirs[i]) \cap Under(dirs[j]) = {}
  /\ \A d, e \in k + 1 .. Len(page) : d # e =>
       AtOrUnder(HFOrder[page[d]]) \cap AtOrUnder(HFOrder[page[e]]) = {}

\* What was found is a file, was there, was found once, and is not listed again.
Found(page, k) ==
  /\ IsInjective(files)
  /\ \A p \in Range(files) : p \in tree /\ IsFile(p) /\ p \notin Unlisted(page, k)

\* A file that was there all the time was found or is still to be listed.
Awaited(page, k) ==
  \A p \in Paths \ Late : IsFile(p) /\ IsStrictPrefix(SharedPath, p) =>
    p \in Range(files) \/ p \in Unlisted(page, k)

Walk(page, k, r) == Place(page, k, r) /\ HFApart(page, k) /\ Found(page, k) /\ Awaited(page, k)

HFInv ==
  /\ HFTypes
  /\ pc = "done" => FilesAreExact
  /\ pc \in {"loop", "request", "parse"} =>
       \E page \in Seq(DOMAIN HFOrder), k, r \in Nat : Walk(page, k, r)

\* The scanner reads the names as they are: none has a quote.
PlainNames == \A s \in DOMAIN Repositories :
  \A p \in Range(Repositories[s].order) : Written[p] = p

-----------------------------------------------------------------------------
\* The rank of a number in a finite set of numbers is less than that of a greater one.
LEMMA RanksAre ==
  ASSUME NEW n \in Nat, NEW S \in SUBSET (1..n),
         NEW x \in S
  PROVE  /\ Cardinality({j \in S : j < x}) \in Nat
         /\ Cardinality({j \in S : j < x}) < Cardinality(S)
         /\ Cardinality(S) \in Nat /\ IsFiniteSet(S)
         /\ \A y \in S : x < y => Cardinality({j \in S : j < x}) < Cardinality({j \in S : j < y})
<1> DEFINE below(y) == {j \in S : j < y}
<1>1. IsFiniteSet(S) /\ Cardinality(S) \in Nat
  <2>1. S \subseteq 1..n /\ IsFiniteSet(1..n)
    BY FS_Interval
  <2>2. QED
    BY <2>1, FS_Subset, FS_CardinalityType
<1>2. ASSUME NEW y
      PROVE  below(y) \subseteq S /\ IsFiniteSet(below(y)) /\ Cardinality(below(y)) \in Nat
  <2>1. below(y) \subseteq S
    OBVIOUS
  <2> HIDE DEF below
  <2>2. QED
    BY <1>1, <2>1, FS_Subset, FS_CardinalityType
<1>3. x \notin below(x)
  OBVIOUS
<1>4. ASSUME NEW T \in SUBSET S, x \in T, below(x) \subseteq T
      PROVE  Cardinality(below(x)) < Cardinality(T)
  <2> HIDE DEF below
  <2>1. Cardinality(below(x) \cup {x}) = Cardinality(below(x)) + 1
    BY <1>2, <1>3, FS_AddElement
  <2>2. IsFiniteSet(T) /\ Cardinality(T) \in Nat /\ below(x) \cup {x} \in SUBSET T
    BY <1>1, <1>4, FS_Subset, FS_CardinalityType
  <2>3. Cardinality(below(x) \cup {x}) <= Cardinality(T)
    BY <2>2, FS_Subset
  <2>4. Cardinality(below(x)) \in Nat
    BY <1>2
  <2>5. QED
    BY <2>1, <2>2, <2>3, <2>4
<1>5. ASSUME NEW y \in S, x < y PROVE Cardinality(below(x)) < Cardinality(below(y))
  <2>1. S \subseteq Nat
    OBVIOUS
  <2>2. x \in below(y) /\ below(y) \in SUBSET S
    BY <1>5
  <2>t. \A j \in S : j < x => j < y
    BY <1>5, <2>1
  <2>b. below(x) \subseteq below(y)
    BY <2>t
  <2> HIDE DEF below
  <2>3. QED
    BY <1>4, <2>2, <2>b
<1>6. Cardinality(below(x)) < Cardinality(S)
  <2>1. below(x) \subseteq S
    OBVIOUS
  <2> HIDE DEF below
  <2>2. QED
    BY <1>4, <2>1
<1>7. QED
  BY <1>1, <1>2, <1>5, <1>6

\* Every rank below the size of a finite set of numbers is that of one of them: below the
\* least rank that is missing there is one to go on from.
LEMMA RankExists ==
  ASSUME NEW n \in Nat, NEW S \in SUBSET (1..n), NEW r \in Nat, r < Cardinality(S)
  PROVE  \E x \in S : Cardinality({j \in S : j < x}) = r
<1> DEFINE below(y) == {j \in S : j < y}
           Missing == {m \in Nat : m < Cardinality(S) /\ \A x \in S : Cardinality(below(x)) # m}
<1>1. IsFiniteSet(S) /\ Cardinality(S) \in Nat
  <2>1. S \subseteq 1..n /\ IsFiniteSet(1..n)
    BY FS_Interval
  <2>2. QED
    BY <2>1, FS_Subset, FS_CardinalityType
<1>n. S \subseteq Nat
  OBVIOUS
<1>2. SUFFICES ASSUME r \in Missing PROVE FALSE
  OBVIOUS
<1>3. PICK m \in Missing : \A l \in Missing : m <= l
  <2>1. Missing \subseteq Nat
    OBVIOUS
  <2> HIDE DEF Missing
  <2>2. QED
    BY <1>2, <2>1, NatMin
<1>4. m \in Nat /\ m < Cardinality(S) /\ \A x \in S : Cardinality(below(x)) # m
  OBVIOUS
<1>5. CASE m = 0
  <2>1. S # {}
    BY <1>4, <1>5, FS_EmptySet
  <2>2. PICK x \in S : \A y \in S : x <= y
    BY <1>n, <2>1, NatMin
  <2>3. below(x) = {}
    <3>1. \A y \in S : y \in Nat /\ x \in Nat /\ ~(y < x)
      BY <1>n, <2>2
    <3>2. QED
      BY <3>1
  <2>4. Cardinality(below(x)) = 0
    BY <2>3, FS_EmptySet
  <2>5. QED
    BY <1>4, <1>5, <2>4
<1>6. CASE m # 0
  <2>1. m - 1 \in Nat /\ m - 1 < Cardinality(S) /\ m - 1 \notin Missing
    <3>1. m - 1 \in Nat /\ m - 1 < Cardinality(S) /\ ~(m <= m - 1)
      BY <1>1, <1>4, <1>6
    <3> HIDE DEF Missing
    <3>2. QED
      BY <1>3, <3>1
  <2>2. PICK x \in S : Cardinality(below(x)) = m - 1
    BY <2>1
  <2> DEFINE T == below(x) \cup {x}
             Above == {y \in S : x < y}
  <2>3. Cardinality(T) = m
    <3>1. IsFiniteSet(below(x)) /\ x \notin below(x)
      <4>1. below(x) \subseteq S
        OBVIOUS
      <4>2. QED
        BY <1>1, <4>1, FS_Subset
    <3> HIDE DEF below
    <3>2. Cardinality(T) = (m - 1) + 1
      BY <2>2, <3>1, FS_AddElement
    <3>3. QED
      BY <1>4, <3>2
  <2>4. CASE Above = {}
    <3>1. S = T
      <4>1. \A y \in S : y < x \/ y = x
        BY <1>n, <2>4
      <4>2. QED
        BY <4>1
    <3>2. QED
      BY <1>1, <1>4, <2>3, <3>1
  <2>5. CASE Above # {}
    <3>1. PICK y \in Above : \A z \in Above : y <= z
      BY <1>n, <2>5, NatMin
    <3>2. below(y) = T
      <4>1. ASSUME NEW z \in S PROVE z < y <=> z < x \/ z = x
        <5>1. x \in Nat /\ y \in Nat /\ z \in Nat /\ x < y
          BY <1>n, <3>1
        <5>2. x < z => y <= z
          BY <3>1
        <5>3. QED
          BY <5>1, <5>2
      <4>2. QED
        BY <4>1
    <3>3. QED
      BY <1>4, <2>3, <3>1, <3>2
  <2>6. QED
    BY <2>4, <2>5
<1>7. QED
  BY <1>5, <1>6

\* s gives the elements of S in increasing order.
InOrder(s, S) ==
  /\ s \in Seq(S) /\ DOMAIN s = 1 .. Len(s) /\ Len(s) \in Nat
  /\ \A i, j \in DOMAIN s : i < j => s[i] < s[j]
  /\ \A x \in S : \E i \in DOMAIN s : s[i] = x

\* Increasing lists a set of numbers in order.
LEMMA IncreasingIs ==
  ASSUME NEW n \in Nat, NEW S \in SUBSET (1..n), NEW s, s = Increasing(S)
  PROVE  InOrder(s, S)
<1> DEFINE rank(x) == Cardinality({j \in S : j < x})
           N == Cardinality(S)
<1>1. N \in Nat
  <2>1. S \subseteq 1..n /\ IsFiniteSet(1..n)
    BY FS_Interval
  <2>2. QED
    BY <2>1, FS_Subset, FS_CardinalityType
<1>2. s = [i \in 1 .. N |-> CHOOSE x \in S : rank(x) = i - 1]
  <2>1. Cardinality(S) = N /\ \A i \in S : Cardinality({j \in S : j < i}) = rank(i)
    OBVIOUS
  <2> HIDE DEF rank, N
  <2>2. s = [i \in 1 .. N |-> CHOOSE x \in S : Cardinality({j \in S : j < x}) = i - 1]
    BY <2>1 DEF Increasing
  <2>3. ASSUME NEW i \in 1 .. N
        PROVE  (CHOOSE x \in S : Cardinality({j \in S : j < x}) = i - 1)
                 = (CHOOSE x \in S : rank(x) = i - 1)
    BY <2>1
  <2>4. QED
    BY <2>2, <2>3
<1>3. ASSUME NEW x \in S
      PROVE  rank(x) \in Nat /\ rank(x) < N /\ \A y \in S : x < y => rank(x) < rank(y)
  BY RanksAre
<1>4. ASSUME NEW r \in Nat, r < N PROVE \E x \in S : rank(x) = r
  BY <1>4, RankExists
<1> HIDE DEF rank, N
<1>5. ASSUME NEW i \in 1 .. N PROVE s[i] \in S /\ rank(s[i]) = i - 1
  <2>1. i - 1 \in Nat /\ i - 1 < N
    BY <1>1
  <2>2. \E x \in S : rank(x) = i - 1
    BY <1>4, <2>1
  <2>3. s[i] = CHOOSE x \in S : rank(x) = i - 1
    BY <1>2
  <2>4. QED
    BY <2>2, <2>3
<1>6. s \in Seq(S) /\ Len(s) = N /\ DOMAIN s = 1 .. N
  BY <1>1, <1>2, <1>5
<1>7. ASSUME NEW i \in 1 .. N, NEW j \in 1 .. N, i < j PROVE s[i] < s[j]
  <2>1. s[i] \in S /\ s[j] \in S /\ rank(s[i]) = i - 1 /\ rank(s[j]) = j - 1
    BY <1>5
  <2>2. s[i] # s[j]
    BY <1>1, <1>7, <2>1
  <2>3. ~(s[j] < s[i])
    <3>1. ~(j - 1 < i - 1)
      BY <1>1, <1>7
    <3>2. s[j] < s[i] => rank(s[j]) < rank(s[i])
      BY <1>3, <2>1
    <3>3. QED
      BY <2>1, <3>1, <3>2
  <2>4. s[i] \in Nat /\ s[j] \in Nat
    <3>1. S \subseteq Nat
      OBVIOUS
    <3>2. QED
      BY <2>1, <3>1
  <2>5. QED
    BY <2>2, <2>3, <2>4
<1>8. ASSUME NEW x \in S PROVE \E i \in 1 .. N : s[i] = x
  <2>1. rank(x) + 1 \in 1 .. N /\ (rank(x) + 1) - 1 = rank(x)
    BY <1>1, <1>3
  <2>2. s[rank(x) + 1] \in S /\ rank(s[rank(x) + 1]) = rank(x)
    BY <1>5, <2>1
  <2> DEFINE y == s[rank(x) + 1]
  <2>3. y \in S /\ rank(y) = rank(x)
    BY <2>2
  <2> HIDE DEF y
  <2>4. ~(x < y) /\ ~(y < x)
    BY <1>3, <2>3
  <2>5. x \in Nat /\ y \in Nat
    BY <2>3
  <2>6. y = x
    BY <2>4, <2>5
  <2>7. QED
    BY <2>1, <2>6 DEF y
<1>9. QED
  BY <1>1, <1>6, <1>7, <1>8 DEF InOrder

\* The first ones of a set of numbers, as many as a page holds, are those up to one of them.
LEMMA FirstOnes ==
  ASSUME NEW n \in Nat, NEW S \in SUBSET (1..n), S # {}, NEW size \in Nat \ {0}
  PROVE  LET first == {i \in S : Cardinality({j \in S : j < i}) < size} IN
           \E m \in first : \A i \in S : i \in first <=> i <= m
<1> DEFINE rank(x) == Cardinality({j \in S : j < x})
           first == {i \in S : rank(i) < size}
<1>1. ASSUME NEW x \in S
      PROVE  rank(x) \in Nat /\ \A y \in S : x < y => rank(x) < rank(y)
  BY RanksAre
<1>2. Cardinality(S) \in Nat /\ Cardinality(S) > 0
  <2>1. PICK x : x \in S
    OBVIOUS
  <2>2. rank(x) \in Nat /\ rank(x) < Cardinality(S) /\ Cardinality(S) \in Nat
    BY <2>1, RanksAre
  <2> HIDE DEF rank
  <2>3. QED
    BY <2>2
<1>3. first # {}
  <2>1. PICK x \in S : rank(x) = 0
    BY <1>2, RankExists
  <2>2. x \in first
    BY <2>1
  <2>3. QED
    BY <2>2
<1> HIDE DEF rank
<1>4. Max(first) \in first /\ \A x \in first : x <= Max(first)
  <2>1. first \in SUBSET (0..n)
    <3>1. 1..n \subseteq 0..n
      OBVIOUS
    <3>2. QED
      BY <3>1
  <2> HIDE DEF first
  <2>2. QED
    BY <1>3, <2>1, MaxOf
<1>5. PICK m \in first : \A x \in first : x <= m
  BY <1>4
<1>6. ASSUME NEW i \in S, i <= m PROVE i \in first
  <2>1. i = m \/ i < m
    BY <1>6
  <2>2. rank(i) < size
    <3>1. i = m \/ rank(i) < rank(m)
      BY <1>1, <2>1
    <3>2. rank(i) \in Nat /\ rank(m) \in Nat /\ rank(m) < size
      BY <1>1, <1>5
    <3>3. QED
      BY <3>1, <3>2
  <2>3. QED
    BY <2>2
<1>7. QED
  BY <1>5, <1>6 DEF rank

\* What is assumed of a repository, in the terms of this module.
LEMMA RepositoryIs ==
  ASSUME PlainNames, repository \in DOMAIN Repositories
  PROVE  /\ HFOrder \in Seq(Seq(STRING)) /\ Len(HFOrder) \in Nat
         /\ DOMAIN HFOrder = 1 .. Len(HFOrder)
         /\ \A i \in DOMAIN HFOrder : HFOrder[i] \in Paths /\ Position(HFOrder[i]) = i
         /\ \A p \in Paths :
              /\ p \in Seq(STRING) /\ Written[p] = p
              /\ Position(p) \in DOMAIN HFOrder /\ HFOrder[Position(p)] = p
         /\ Dirs \cup Late \subseteq Paths /\ SharedPath \in Seq(STRING)
         /\ \A p \in Paths : IsStrictPrefix(SharedPath, p) =>
              \A n \in Len(SharedPath) + 1 .. Len(p) - 1 :
                /\ SubSeq(p, 1, n) \in Dirs
                /\ SubSeq(p, 1, n) \in Late => p \in Late
         /\ \A q \in HFPatterns :
              /\ q \in Seq(SUBSET STRING)
              /\ \A p \in Paths : Matches(p, q) => IsStrictPrefix(SharedPath, p)
<1> DEFINE sit == Repositories[repository]
<1>1. /\ SharedPath \in Seq(STRING) /\ IsRepository(sit)
      /\ \A p \in Range(sit.order) : Written[p] = p
  BY RepositoryAssumption DEF PlainNames
<1>2. /\ sit.order = HFOrder /\ sit.dirs = Dirs /\ sit.late = Late
      /\ sit.patterns = HFPatterns
  BY DEF HFOrder, Dirs, Late, HFPatterns, Repository
<1>3. Range(HFOrder) = Paths
  BY DEF Paths
<1> HIDE DEF sit
<1>4. /\ HFOrder \in Seq(Seq(STRING)) /\ IsInjective(HFOrder)
      /\ Dirs \cup Late \subseteq Paths
  BY <1>1, <1>2, <1>3 DEF IsRepository
<1>5. \A p \in Paths : IsStrictPrefix(SharedPath, p) =>
        \A n \in Len(SharedPath) + 1 .. Len(p) - 1 :
          /\ SubSeq(p, 1, n) \in Dirs
          /\ SubSeq(p, 1, n) \in Late => p \in Late
  BY <1>1, <1>2, <1>3 DEF IsRepository
<1>6. \A q \in HFPatterns :
        /\ q \in Seq(SUBSET STRING)
        /\ \A p \in Paths : Matches(p, q) => IsStrictPrefix(SharedPath, p)
  BY <1>1, <1>2, <1>3 DEF IsRepository
<1>7. Len(HFOrder) \in Nat /\ DOMAIN HFOrder = 1 .. Len(HFOrder)
  BY <1>4
<1>8. ASSUME NEW i \in DOMAIN HFOrder
      PROVE  HFOrder[i] \in Paths /\ Position(HFOrder[i]) = i
  <2>1. HFOrder[i] \in Paths
    BY DEF Paths, Range
  <2>2. \A j \in DOMAIN HFOrder : HFOrder[j] = HFOrder[i] => j = i
    BY <1>4 DEF IsInjective
  <2>3. QED
    BY <2>1, <2>2 DEF Position
<1>9. ASSUME NEW p \in Paths
      PROVE  Position(p) \in DOMAIN HFOrder /\ HFOrder[Position(p)] = p
  BY DEF Paths, Range, Position
<1>10. \A p \in Paths : p \in Seq(STRING)
  BY <1>4, <1>9
<1>11. \A p \in Paths : Written[p] = p
  BY <1>1, <1>2, <1>3
<1>12. QED
  BY <1>1, <1>4, <1>5, <1>6, <1>7, <1>8, <1>9, <1>10, <1>11

\* Prefixes, componentwise.
LEMMA Prefix ==
  ASSUME NEW T, NEW s \in Seq(T), NEW t \in Seq(T)
  PROVE  IsPrefix(s, t) <=> Len(s) <= Len(t) /\ \A i \in 1..Len(s) : s[i] = t[i]
<1>1. CASE Len(s) <= Len(t)
  <2>1. /\ SubSeq(s, 1, Len(s)) \in Seq(T) /\ SubSeq(t, 1, Len(s)) \in Seq(T)
        /\ Len(SubSeq(s, 1, Len(s))) = Len(s) /\ Len(SubSeq(t, 1, Len(s))) = Len(s)
        /\ \A i \in 1..Len(s) : SubSeq(s, 1, Len(s))[i] = s[i] /\ SubSeq(t, 1, Len(s))[i] = t[i]
    BY <1>1
  <2>2. SubSeq(s, 1, Len(s)) = SubSeq(t, 1, Len(s)) <=> \A i \in 1..Len(s) : s[i] = t[i]
    BY <2>1
  <2>3. QED
    BY <1>1, <2>2 DEF IsPrefix
<1>2. CASE ~(Len(s) <= Len(t))
  BY <1>2 DEF IsPrefix
<1>3. QED
  BY <1>1, <1>2

\* The child of d that a path below d is at or in.
LEMMA ChildOf ==
  ASSUME NEW d \in Seq(STRING), NEW p \in Seq(STRING), IsStrictPrefix(d, p),
         NEW c, c = Child(d, p)
  PROVE  /\ c \in Seq(STRING) /\ c # <<>> /\ Len(c) = Len(d) + 1 /\ Front(c) = d
         /\ IsPrefix(c, p) /\ Len(c) <= Len(p)
         /\ Len(c) = Len(p) => c = p
<1>1. Len(d) \in Nat /\ Len(p) \in Nat /\ Len(d) < Len(p) /\ \A i \in 1..Len(d) : d[i] = p[i]
  BY StrictPrefix
<1>2. /\ c \in Seq(STRING) /\ Len(c) = Len(d) + 1
      /\ \A i \in 1..Len(d) + 1 : c[i] = p[i]
  BY <1>1 DEF Child
<1>3. Front(c) = d
  <2>1. SubSeq(c, 1, Len(d)) \in Seq(STRING) /\ Len(SubSeq(c, 1, Len(d))) = Len(d)
        /\ \A i \in 1..Len(d) : SubSeq(c, 1, Len(d))[i] = c[i]
    BY <1>1, <1>2
  <2>2. \A i \in 1..Len(d) : c[i] = d[i]
    BY <1>1, <1>2
  <2>3. SubSeq(c, 1, Len(d)) = d
    BY <2>1, <2>2
  <2>4. Len(c) - 1 = Len(d)
    BY <1>1, <1>2
  <2>5. QED
    BY <2>3, <2>4 DEF Front
<1>4. Len(c) <= Len(p)
  BY <1>1, <1>2
<1>5. IsPrefix(c, p)
  BY <1>2, <1>4, Prefix
<1>6. Len(c) = Len(p) => c = p
  BY <1>2
<1>7. c # <<>>
  BY <1>1, <1>2
<1>8. QED
  BY <1>2, <1>3, <1>4, <1>5, <1>6, <1>7

\* What is at or in q is below the directory of q, in its child q.
LEMMA ParentOf ==
  ASSUME NEW q \in Seq(STRING), q # <<>>, NEW p \in Seq(STRING), IsPrefix(q, p),
         NEW d, d = Front(q)
  PROVE  d \in Seq(STRING) /\ IsStrictPrefix(d, p) /\ Child(d, p) = q
<1>1. /\ Len(q) \in Nat \ {0} /\ Len(p) \in Nat /\ Len(q) <= Len(p)
      /\ \A i \in 1..Len(q) : q[i] = p[i]
  BY Prefix
<1>2. /\ d \in Seq(STRING) /\ Len(d) = Len(q) - 1
      /\ \A i \in 1..Len(q) - 1 : d[i] = q[i]
  <2> DEFINE m == Len(q) - 1
  <2>1. m \in Nat /\ m <= Len(q) /\ d = SubSeq(q, 1, m)
    BY <1>1 DEF Front
  <2> HIDE DEF m
  <2>2. d \in Seq(STRING) /\ Len(d) = m /\ \A i \in 1..m : d[i] = q[i]
    BY <2>1
  <2>3. QED
    BY <2>2 DEF m
<1>3. \A i \in 1..Len(d) : d[i] = p[i]
  BY <1>1, <1>2
<1>4. Len(d) < Len(p)
  BY <1>1, <1>2
<1>5. IsStrictPrefix(d, p)
  BY <1>2, <1>3, <1>4, StrictPrefix
<1>6. Child(d, p) = SubSeq(p, 1, Len(q))
  BY <1>1, <1>2 DEF Child
<1>7. SubSeq(p, 1, Len(q)) \in Seq(STRING) /\ Len(SubSeq(p, 1, Len(q))) = Len(q)
      /\ \A i \in 1..Len(q) : SubSeq(p, 1, Len(q))[i] = p[i]
  BY <1>1
<1>8. SubSeq(p, 1, Len(q)) = q
  BY <1>1, <1>7
<1>9. QED
  BY <1>2, <1>5, <1>6, <1>8

\* Prefixes of prefixes.
LEMMA Longer ==
  ASSUME NEW s \in Seq(STRING), NEW t \in Seq(STRING), NEW u \in Seq(STRING), IsPrefix(s, t)
  PROVE  /\ IsPrefix(t, u) => IsPrefix(s, u)
         /\ IsStrictPrefix(t, u) => IsStrictPrefix(s, u)
         /\ IsPrefix(s, s)
<1>1. /\ Len(s) \in Nat /\ Len(t) \in Nat /\ Len(u) \in Nat /\ Len(s) <= Len(t)
      /\ \A i \in 1..Len(s) : s[i] = t[i]
  BY Prefix
<1>2. ASSUME IsPrefix(t, u) PROVE IsPrefix(s, u)
  <2>1. Len(t) <= Len(u) /\ \A i \in 1..Len(t) : t[i] = u[i]
    BY <1>2, Prefix
  <2>2. Len(s) <= Len(u) /\ \A i \in 1..Len(s) : s[i] = u[i]
    BY <1>1, <2>1
  <2>3. QED
    BY <2>2, Prefix
<1>3. ASSUME IsStrictPrefix(t, u) PROVE IsStrictPrefix(s, u)
  <2>1. Len(t) < Len(u) /\ \A i \in 1..Len(t) : t[i] = u[i]
    BY <1>3, StrictPrefix
  <2>2. Len(s) < Len(u) /\ \A i \in 1..Len(s) : s[i] = u[i]
    BY <1>1, <2>1, SMTT(30)
  <2>3. QED
    BY <2>2, StrictPrefix
<1>4. IsPrefix(s, s)
  BY <1>1, Prefix
<1>5. QED
  BY <1>2, <1>3, <1>4

\* The child of a listed directory that leads to a path is a path, a directory unless it is
\* that path, and there as long as it is.
LEMMA ChildIn ==
  ASSUME PlainNames, repository \in DOMAIN Repositories,
         NEW d \in Seq(STRING), IsPrefix(SharedPath, d), NEW p \in Under(d),
         NEW c, c = Child(d, p)
  PROVE  /\ c \in Paths /\ p \in AtOrUnder(c) /\ c # <<>> /\ Front(c) = d
         /\ IsStrictPrefix(SharedPath, c)
         /\ c = p \/ c \in Dirs
         /\ c \in Late => p \in Late
<1>1. p \in Paths /\ p \in Seq(STRING) /\ IsStrictPrefix(d, p) /\ SharedPath \in Seq(STRING)
  BY RepositoryIs DEF Under
<1>2. /\ c \in Seq(STRING) /\ c # <<>> /\ Len(c) = Len(d) + 1 /\ Front(c) = d
      /\ IsPrefix(c, p) /\ Len(c) <= Len(p)
      /\ Len(c) = Len(p) => c = p
  BY <1>1, ChildOf
<1>3. /\ Len(SharedPath) \in Nat /\ Len(d) \in Nat /\ Len(p) \in Nat /\ Len(SharedPath) <= Len(d)
  BY <1>1, Prefix
<1>4. IsStrictPrefix(SharedPath, p)
  BY <1>1, Longer
<1>5. (c = p \/ c \in Dirs) /\ (c \in Late => p \in Late)
  <2>1. CASE Len(c) = Len(p)
    BY <1>2, <2>1
  <2>2. CASE Len(c) # Len(p)
    <3> DEFINE n == Len(d) + 1
    <3>1. n \in Len(SharedPath) + 1 .. Len(p) - 1
      BY <1>2, <1>3, <2>2
    <3>2. c = SubSeq(p, 1, n)
      BY DEF Child
    <3> HIDE DEF n
    <3>3. QED
      BY <1>1, <1>4, <3>1, <3>2, RepositoryIs
  <2>3. QED
    BY <2>1, <2>2
<1>6. c \in Paths
  BY <1>1, <1>5, RepositoryIs
<1>7. IsStrictPrefix(SharedPath, c)
  <2>1. IsStrictPrefix(d, c)
    <3>1. IsPrefix(c, c)
      <4>1. Len(c) <= Len(c)
        BY <1>2, <1>3
      <4>2. QED
        BY <1>2, <4>1, Prefix
    <3>2. QED
      BY <1>2, <3>1, ParentOf
  <2>2. QED
    BY <1>1, <1>2, <2>1, Longer
<1>8. p \in AtOrUnder(c)
  BY <1>1, <1>2 DEF AtOrUnder
<1>9. QED
  BY <1>2, <1>5, <1>6, <1>7, <1>8

\* A page has different children of its directory, and all of them from where it begins to
\* where the next page begins, or to the end.
LEMMA PageOf ==
  ASSUME PlainNames, repository \in DOMAIN Repositories, tree \subseteq Paths,
         NEW d \in Seq(STRING), NEW a \in Nat,
         NEW page, page = HFPage([dir |-> d, after |-> a]),
         NEW link, link = LinkAfter([dir |-> d, after |-> a])
  PROVE  /\ page \in Seq(DOMAIN HFOrder) /\ Len(page) \in Nat /\ DOMAIN page = 1 .. Len(page)
         /\ \A e, f \in DOMAIN page : e # f => page[e] # page[f]
         /\ \A e \in DOMAIN page :
              /\ HFOrder[page[e]] \in tree /\ HFOrder[page[e]] # <<>>
              /\ Front(HFOrder[page[e]]) = d /\ page[e] > a
         /\ \/ /\ link = NoUrl
               /\ \A c \in tree : c # <<>> /\ Front(c) = d /\ Position(c) > a =>
                    \E e \in DOMAIN page : page[e] = Position(c)
            \/ \E last \in Nat :
                 /\ link = [dir |-> d, after |-> last] /\ last > a
                 /\ \A e \in DOMAIN page : page[e] <= last
                 /\ \A c \in tree : c # <<>> /\ Front(c) = d /\ Position(c) > a =>
                      Position(c) > last \/ \E e \in DOMAIN page : page[e] = Position(c)
<1> DEFINE url == [dir |-> d, after |-> a]
           N == Len(HFOrder)
           rest == {i \in DOMAIN HFOrder : HFOrder[i] \in Children(d) /\ i > a}
           on == {i \in rest : Cardinality({j \in rest : j < i}) < MaxPerPage}
<1>1. N \in Nat /\ DOMAIN HFOrder = 1 .. N
  BY RepositoryIs
<1>2. \A c : c \in Children(d) <=> c \in tree /\ c # <<>> /\ Front(c) = d
  BY DEF Children
<1>3. MaxPerPage \in Nat \ {0}
  BY HFBoundAssumption
<1>4. rest \in SUBSET (1 .. N) /\ on \in SUBSET (1 .. N) /\ on \subseteq rest
  BY <1>1
<1>5. page = Increasing(on)
  <2>1. on = {i \in rest : Cardinality({j \in rest : j < i}) < MaxPerPage}
    OBVIOUS
  <2>2. url.dir = d /\ url.after = a
    OBVIOUS
  <2>3. QED
    BY <2>1, <2>2 DEF HFPage
<1>6. rest # {} => \E m \in on : \A i \in rest : i \in on <=> i <= m
  BY <1>1, <1>3, <1>4, FirstOnes
<1>7. \A i \in rest : /\ i \in 1 .. N /\ i > a /\ HFOrder[i] \in tree /\ HFOrder[i] # <<>>
                      /\ Front(HFOrder[i]) = d
  BY <1>1, <1>2
<1>8. ASSUME NEW c \in tree, c # <<>>, Front(c) = d, Position(c) > a
      PROVE  Position(c) \in rest
  BY <1>2, <1>8, RepositoryIs
<1>9. link = IF \E c \in Children(d) : page # <<>> /\ Position(c) > Last(page)
               THEN [dir |-> d, after |-> Last(page)] ELSE NoUrl
  <2>1. Last(page) = Last(page) /\ url.dir = d
    OBVIOUS
  <2>2. QED
    BY <2>1 DEF LinkAfter
<1> HIDE DEF on, rest, N
<1>10. /\ page \in Seq(on) /\ DOMAIN page = 1 .. Len(page) /\ Len(page) \in Nat
       /\ \A i, j \in DOMAIN page : i < j => page[i] < page[j]
       /\ \A x \in on : \E i \in DOMAIN page : page[i] = x
  BY <1>1, <1>4, <1>5, IncreasingIs DEF InOrder
<1>11. \A e \in DOMAIN page :
         page[e] \in on /\ page[e] \in rest /\ page[e] \in 1 .. N /\ page[e] \in Nat
  <2>1. \A e \in DOMAIN page : page[e] \in on
    BY <1>10
  <2>2. 1 .. N \subseteq Nat
    BY <1>1
  <2>3. QED
    BY <1>4, <2>1, <2>2
<1>12. page \in Seq(DOMAIN HFOrder)
  BY <1>1, <1>10, <1>11
<1>13. ASSUME NEW e \in DOMAIN page, NEW f \in DOMAIN page, e # f PROVE page[e] # page[f]
  <2>1. e < f \/ f < e
    BY <1>10, <1>13
  <2>2. page[e] < page[f] \/ page[f] < page[e]
    BY <1>10, <2>1
  <2>3. QED
    BY <1>11, <2>2
<1>14. \A e \in DOMAIN page :
         /\ HFOrder[page[e]] \in tree /\ HFOrder[page[e]] # <<>>
         /\ Front(HFOrder[page[e]]) = d /\ page[e] > a
  BY <1>7, <1>11
<1>15. CASE rest = {}
  <2>1. on = {} /\ page = <<>>
    <3>1. on = {}
      BY <1>4, <1>15
    <3>2. QED
      BY <3>1, <1>10
  <2>2. link = NoUrl
    BY <1>9, <2>1
  <2>3. QED
    BY <1>8, <1>10, <1>12, <1>13, <1>14, <1>15, <2>2
<1>16. CASE rest # {}
  <2>1. PICK m \in on : \A i \in rest : i \in on <=> i <= m
    BY <1>6, <1>16
  <2>2. PICK top \in DOMAIN page : page[top] = m
    BY <1>10, <2>1
  <2>3. m \in Nat /\ m > a /\ m \in rest
    BY <1>4, <1>7, <2>1
  <2>4. \A e \in DOMAIN page : page[e] <= m
    BY <1>11, <2>1
  <2>5. Last(page) = m
    <3>1. Len(page) \in DOMAIN page /\ top <= Len(page) /\ top \in Nat
      BY <1>10, <2>2
    <3>2. CASE top = Len(page)
      BY <2>2, <3>2 DEF Last
    <3>3. CASE top < Len(page)
      <4>1. page[top] < page[Len(page)]
        BY <1>10, <3>1, <3>3
      <4>2. page[Len(page)] <= m /\ page[Len(page)] \in Nat
        BY <1>11, <2>4, <3>1
      <4>3. QED
        BY <2>2, <2>3, <4>1, <4>2
    <3>4. QED
      BY <1>10, <3>1, <3>2, <3>3
  <2>6. ASSUME NEW c \in tree, c # <<>>, Front(c) = d, Position(c) > a
        PROVE  Position(c) > m \/ \E e \in DOMAIN page : page[e] = Position(c)
    <3>1. Position(c) \in rest /\ Position(c) \in Nat
      BY <1>7, <1>8, <2>6
    <3>2. Position(c) > m \/ Position(c) \in on
      BY <2>1, <2>3, <3>1
    <3>3. QED
      BY <1>10, <3>2
  <2>7. CASE link = NoUrl
    <3>1. ASSUME NEW c \in tree, c # <<>>, Front(c) = d, Position(c) > a
          PROVE  ~(Position(c) > m)
      <4>1. c \in Children(d)
        BY <1>2, <3>1
      <4>2. page # <<>>
        BY <2>2
      <4>3. [dir |-> d, after |-> Last(page)] # NoUrl
        <5>1. [dir |-> d, after |-> m].after # NoUrl.after
          BY <2>3 DEF NoUrl
        <5>2. QED
          BY <2>5, <5>1
      <4>4. QED
        BY <1>9, <2>5, <2>7, <4>1, <4>2, <4>3
    <3>2. \A c \in tree : c # <<>> /\ Front(c) = d /\ Position(c) > a =>
             \E e \in DOMAIN page : page[e] = Position(c)
      BY <2>6, <3>1
    <3>3. QED
      BY <1>10, <1>12, <1>13, <1>14, <2>7, <3>2
  <2>8. CASE link = [dir |-> d, after |-> m]
    BY <1>10, <1>12, <1>13, <1>14, <2>3, <2>4, <2>6, <2>8
  <2>9. QED
    BY <1>9, <2>5, <2>7, <2>8
<1>17. QED
  BY <1>15, <1>16

\* A page and the pages after it divide what the page at a of directory d begins.
Splits(d, a, page, link, more) ==
  /\ page \in Seq(DOMAIN HFOrder) /\ Len(page) \in Nat
  /\ link # NoUrl => link.dir = d /\ link.after \in Nat
  /\ link \in [dir : Seq(STRING), after : Nat \cup {-1}]
  /\ \A e \in DOMAIN page :
       HFOrder[page[e]] \in tree /\ IsStrictPrefix(SharedPath, HFOrder[page[e]])
  /\ OnPage(page, 0) \subseteq FromPage([dir |-> d, after |-> a])
  /\ more \subseteq FromPage([dir |-> d, after |-> a])
  /\ OnPage(page, 0) \cap more = {}
  /\ \A e, f \in 1 .. Len(page) : e # f =>
       AtOrUnder(HFOrder[page[e]]) \cap AtOrUnder(HFOrder[page[f]]) = {}
  /\ FromPage([dir |-> d, after |-> a]) \ Late \subseteq OnPage(page, 0) \cup more

\* What a page begins is divided between its entries and the next page, and nothing that is
\* there all the time is lost between them.
LEMMA PageSplits ==
  ASSUME PlainNames, repository \in DOMAIN Repositories,
         tree \subseteq Paths, Paths \ Late \subseteq tree,
         NEW d \in Seq(STRING), IsPrefix(SharedPath, d), NEW a \in Nat,
         NEW page, page = HFPage([dir |-> d, after |-> a]),
         NEW link, link = LinkAfter([dir |-> d, after |-> a]),
         NEW more, more = IF link = NoUrl THEN {} ELSE FromPage(link)
  PROVE  Splits(d, a, page, link, more)
<1> USE DEF Splits
<1> DEFINE url == [dir |-> d, after |-> a]
<1>1. /\ page \in Seq(DOMAIN HFOrder) /\ Len(page) \in Nat /\ DOMAIN page = 1 .. Len(page)
      /\ \A e, f \in DOMAIN page : e # f => page[e] # page[f]
      /\ \A e \in DOMAIN page :
           /\ HFOrder[page[e]] \in tree /\ HFOrder[page[e]] # <<>>
           /\ Front(HFOrder[page[e]]) = d /\ page[e] > a
  BY PageOf
<1>2. \/ /\ link = NoUrl
         /\ \A c \in tree : c # <<>> /\ Front(c) = d /\ Position(c) > a =>
              \E e \in DOMAIN page : page[e] = Position(c)
      \/ \E last \in Nat :
           /\ link = [dir |-> d, after |-> last] /\ last > a
           /\ \A e \in DOMAIN page : page[e] <= last
           /\ \A c \in tree : c # <<>> /\ Front(c) = d /\ Position(c) > a =>
                Position(c) > last \/ \E e \in DOMAIN page : page[e] = Position(c)
  BY PageOf
<1>3. \A p : p \in FromPage(url) <=> p \in Under(d) /\ Position(Child(d, p)) > a
  BY DEF FromPage
<1>4. ASSUME NEW e \in DOMAIN page, NEW p \in AtOrUnder(HFOrder[page[e]])
      PROVE  /\ p \in Under(d) /\ Child(d, p) = HFOrder[page[e]]
             /\ Position(Child(d, p)) = page[e] /\ page[e] \in Nat
  <2> DEFINE q == HFOrder[page[e]]
  <2>1. page[e] \in DOMAIN HFOrder /\ q # <<>> /\ Front(q) = d
    BY <1>1
  <2>2. q \in Paths /\ Position(q) = page[e] /\ q \in Seq(STRING) /\ page[e] \in Nat
    BY <2>1, RepositoryIs
  <2>3. p \in Paths /\ IsPrefix(q, p) /\ p \in Seq(STRING)
    BY <1>4, RepositoryIs DEF AtOrUnder
  <2> HIDE DEF q
  <2>4. IsStrictPrefix(d, p) /\ Child(d, p) = q
    BY <2>1, <2>2, <2>3, ParentOf
  <2>5. p \in Under(d)
    BY <2>3, <2>4 DEF Under
  <2>6. QED
    BY <2>2, <2>4, <2>5 DEF q
<1>5. \A p : p \in OnPage(page, 0) <=> \E e \in DOMAIN page : p \in AtOrUnder(HFOrder[page[e]])
  BY <1>1, SMTT(30) DEF OnPage
<1>6. ASSUME NEW e \in DOMAIN page
      PROVE  HFOrder[page[e]] \in tree /\ IsStrictPrefix(SharedPath, HFOrder[page[e]])
  <2> DEFINE q == HFOrder[page[e]]
  <2>1. q \in tree /\ q # <<>> /\ Front(q) = d /\ q \in Paths /\ q \in Seq(STRING)
        /\ SharedPath \in Seq(STRING)
    BY <1>1, RepositoryIs
  <2> HIDE DEF q
  <2>2. IsPrefix(q, q)
    BY <2>1, Prefix
  <2>3. IsStrictPrefix(d, q)
    BY <2>1, <2>2, ParentOf
  <2>4. IsStrictPrefix(SharedPath, q)
    BY <2>1, <2>3, Longer
  <2>5. QED
    BY <2>1, <2>4 DEF q
<1>7. OnPage(page, 0) \subseteq FromPage(url)
  BY <1>1, <1>3, <1>4, <1>5
<1>8. ASSUME NEW e \in DOMAIN page, NEW f \in DOMAIN page, e # f
      PROVE  AtOrUnder(HFOrder[page[e]]) \cap AtOrUnder(HFOrder[page[f]]) = {}
  <2>1. ASSUME NEW p, p \in AtOrUnder(HFOrder[page[e]]), p \in AtOrUnder(HFOrder[page[f]])
        PROVE  FALSE
    <3>1. Position(Child(d, p)) = page[e]
      BY <1>4, <2>1
    <3>2. Position(Child(d, p)) = page[f]
      BY <1>4, <2>1
    <3>3. page[e] # page[f]
      BY <1>1, <1>8
    <3>4. QED
      BY <3>1, <3>2, <3>3
  <2>2. QED
    BY <2>1
<1>9. ASSUME NEW p \in FromPage(url), p \notin Late
      PROVE  LET c == Child(d, p) IN
               c \in tree /\ c # <<>> /\ Front(c) = d /\ Position(c) > a /\ p \in AtOrUnder(c)
               /\ c \in Paths
  <2> DEFINE c == Child(d, p)
  <2>1. p \in Under(d) /\ Position(c) > a
    BY <1>3, <1>9
  <2>2. /\ c \in Paths /\ p \in AtOrUnder(c) /\ c # <<>> /\ Front(c) = d
        /\ c \in Late => p \in Late
    BY <2>1, ChildIn
  <2>3. c \in tree
    BY <1>9, <2>2
  <2>4. QED
    BY <2>1, <2>2, <2>3
<1>10. ASSUME NEW p \in FromPage(url), p \notin Late,
              \E e \in DOMAIN page : page[e] = Position(Child(d, p))
       PROVE  p \in OnPage(page, 0)
  <2>1. PICK e \in DOMAIN page : page[e] = Position(Child(d, p))
    BY <1>10
  <2>2. Child(d, p) \in Paths /\ p \in AtOrUnder(Child(d, p))
    BY <1>9, <1>10
  <2>3. HFOrder[page[e]] = Child(d, p)
    BY <2>1, <2>2, RepositoryIs
  <2>4. QED
    BY <1>5, <2>2, <2>3
<1> HIDE DEF url
<1>11. CASE link = NoUrl
  <2>1. more = {} /\ link \in [dir : Seq(STRING), after : Nat \cup {-1}]
    <3>1. <<>> \in Seq(STRING) /\ -1 \in Nat \cup {-1}
      OBVIOUS
    <3>2. link = [dir |-> <<>>, after |-> -1]
      BY <1>11 DEF NoUrl
    <3>3. [dir |-> <<>>, after |-> -1] \in [dir : Seq(STRING), after : Nat \cup {-1}]
      BY <3>1
    <3>4. more = {}
      BY <1>11
    <3>5. QED
      BY <3>2, <3>3, <3>4
  <2>2. \A c \in tree : c # <<>> /\ Front(c) = d /\ Position(c) > a =>
          \E e \in DOMAIN page : page[e] = Position(c)
    <3>1. ASSUME NEW last \in Nat, link = [dir |-> d, after |-> last] PROVE FALSE
      <4>1. link.after = last /\ link.after = -1
        BY <1>11, <3>1 DEF NoUrl
      <4>2. QED
        BY <4>1
    <3>2. QED
      BY <1>2, <3>1
  <2>3. FromPage(url) \ Late \subseteq OnPage(page, 0)
    BY <1>9, <1>10, <2>2
  <2>4. QED
    BY <1>1, <1>6, <1>7, <1>8, <1>11, <2>1, <2>3 DEF url
<1>12. CASE link # NoUrl
  <2>1. PICK last \in Nat :
          /\ link = [dir |-> d, after |-> last] /\ last > a
          /\ \A e \in DOMAIN page : page[e] <= last
          /\ \A c \in tree : c # <<>> /\ Front(c) = d /\ Position(c) > a =>
               Position(c) > last \/ \E e \in DOMAIN page : page[e] = Position(c)
    BY <1>2, <1>12
  <2>2. \A p : p \in more <=> p \in Under(d) /\ Position(Child(d, p)) > last
    BY <1>12, <2>1 DEF FromPage
  <2>3. link.dir = d /\ link.after \in Nat /\ link \in [dir : Seq(STRING), after : Nat \cup {-1}]
    BY <2>1
  <2>4. more \subseteq FromPage(url)
    <3>1. ASSUME NEW p \in more PROVE Position(Child(d, p)) > a
      <4>1. p \in Under(d) /\ Position(Child(d, p)) > last
        BY <2>2, <3>1
      <4>2. Child(d, p) \in Paths
        BY <4>1, ChildIn
      <4>3. Position(Child(d, p)) \in Nat
        BY <4>2, RepositoryIs
      <4>4. QED
        BY <2>1, <4>1, <4>3
    <3>2. QED
      BY <1>3, <2>2, <3>1
  <2>5. ASSUME NEW p \in OnPage(page, 0) PROVE p \notin more
    <3>1. PICK e \in DOMAIN page : p \in AtOrUnder(HFOrder[page[e]])
      BY <1>5, <2>5
    <3>2. Position(Child(d, p)) = page[e] /\ page[e] \in Nat /\ page[e] <= last
      BY <1>4, <2>1, <3>1
    <3>3. ~(Position(Child(d, p)) > last)
      BY <3>2
    <3>4. QED
      BY <2>2, <3>3
  <2>6. ASSUME NEW p \in FromPage(url), p \notin Late PROVE p \in OnPage(page, 0) \cup more
    <3>1. \/ Position(Child(d, p)) > last
          \/ \E e \in DOMAIN page : page[e] = Position(Child(d, p))
      BY <1>9, <2>1, <2>6
    <3>2. p \in Under(d)
      BY <1>3, <2>6
    <3>3. QED
      BY <1>10, <2>2, <2>6, <3>1, <3>2
  <2>7. QED
    BY <1>1, <1>6, <1>7, <1>8, <2>3, <2>4, <2>5, <2>6 DEF url
<1>13. QED
  BY <1>11, <1>12

\* The text of a page has six tokens for every entry.
LEMMA TokensLen ==
  ASSUME NEW page, page \in Seq(DOMAIN HFOrder)
  PROVE  Tokens(page) \in Seq(Range(Tokens(page))) /\ Len(Tokens(page)) = 6 * Len(page)
<1> DEFINE n == Len(page)
           entry(e) == Entry(HFOrder[page[e]])
           s == Tokens(page)
<1>1. n \in Nat
  OBVIOUS
<1>2. s = [x \in 1 .. 6 * n |-> entry((x + 5) \div 6)[((x - 1) % 6) + 1]]
  BY DEF Tokens
<1> HIDE DEF n, entry, s
<1>3. s \in Seq(Range(s)) /\ Len(s) = 6 * n
  <2>1. 6 * n \in Nat
    BY <1>1
  <2>2. DOMAIN s = 1 .. 6 * n
    BY <1>2
  <2>3. \A x \in 1 .. 6 * n : s[x] \in Range(s)
    BY <2>2 DEF Range
  <2>4. s = [x \in 1 .. 6 * n |-> s[x]]
    BY <1>2
  <2>5. QED
    BY <2>1, <2>2, <2>3, <2>4
<1>4. QED
  BY <1>3 DEF n, s

\* Where the tokens of an entry are.
EntryAt(page, k, r) ==
  Tokens(page)[6 * k + r + 1] = Entry(HFOrder[page[k + 1]])[r + 1]

LEMMA TokensAre ==
  ASSUME NEW page, page \in Seq(DOMAIN HFOrder), NEW k \in Nat, k < Len(page), NEW r \in 0 .. 5
  PROVE  EntryAt(page, k, r)
<1> DEFINE n == Len(page)
           entry(e) == Entry(HFOrder[page[e]])
           s == Tokens(page)
<1>1. n \in Nat
  OBVIOUS
<1>2. s = [x \in 1 .. 6 * n |-> entry((x + 5) \div 6)[((x - 1) % 6) + 1]]
  BY DEF Tokens
<1> HIDE DEF n, entry, s
<1> DEFINE x == 6 * k + r + 1
<1>4. k \in Nat /\ k < n
  BY DEF n
<1>5. x \in 1 .. 6 * n
  BY <1>1, <1>4
<1>6. (x + 5) \div 6 = k + 1 /\ ((x - 1) % 6) + 1 = r + 1
  OBVIOUS
<1> HIDE DEF x
<1>7. s[x] = entry((x + 5) \div 6)[((x - 1) % 6) + 1]
  BY <1>2, <1>5
<1>8. s[x] = entry(k + 1)[r + 1]
  BY <1>6, <1>7
<1>9. QED
  BY <1>8 DEF n, entry, s, x, EntryAt

\* The rest of a sequence, and one element less.
LEMMA RestAndTail ==
  ASSUME NEW T, NEW s \in Seq(T), NEW n, n = Len(s), NEW m \in Nat, m < n
  PROVE  LET rest == SubSeq(s, m + 1, n) IN
           rest # <<>> /\ Head(rest) = s[m + 1] /\ Tail(rest) = SubSeq(s, m + 2, n)
<1>1. n \in Nat /\ m \in 0 .. Len(s) /\ m + 1 \in 0 .. Len(s) /\ (m + 1) + 1 = m + 2
  OBVIOUS
<1> DEFINE rest == SubSeq(s, m + 1, n)
           next == SubSeq(s, (m + 1) + 1, n)
<1>2. /\ rest \in Seq(T) /\ Len(rest) = n - m
      /\ \A i \in 1 .. n - m : rest[i] = s[i + m]
  BY <1>1, RestIs
<1>3. /\ next \in Seq(T) /\ Len(next) = n - (m + 1)
      /\ \A i \in 1 .. n - (m + 1) : next[i] = s[i + (m + 1)]
  BY <1>1, RestIs
<1> HIDE DEF rest, next
<1>4. rest # <<>>
  BY <1>1, <1>2
<1>5. /\ Head(rest) = rest[1] /\ Tail(rest) \in Seq(T) /\ Len(Tail(rest)) = n - m - 1
      /\ \A i \in 1 .. n - m - 1 : Tail(rest)[i] = rest[i + 1]
  <2>1. /\ Head(rest) = rest[1] /\ Tail(rest) \in Seq(T) /\ Len(Tail(rest)) = Len(rest) - 1
        /\ \A i \in 1 .. Len(rest) - 1 : Tail(rest)[i] = rest[i + 1]
    BY <1>2, <1>4, TailOf
  <2>2. QED
    BY <1>2, <2>1
<1>6. rest[1] = s[m + 1]
  <2>1. 1 \in 1 .. n - m /\ 1 + m = m + 1
    BY <1>1
  <2>2. QED
    BY <1>2, <2>1
<1>7. Tail(rest) = next
  <2>1. \A i \in 1 .. n - (m + 1) : Tail(rest)[i] = next[i]
    <3>1. ASSUME NEW i \in 1 .. n - (m + 1) PROVE Tail(rest)[i] = next[i]
      <4>1. i \in 1 .. n - m - 1 /\ i + 1 \in 1 .. n - m /\ (i + 1) + m = i + (m + 1)
        BY <1>1
      <4>2. QED
        BY <1>2, <1>3, <1>5, <4>1
    <3>2. QED
      BY <3>1
  <2>2. Len(Tail(rest)) = Len(next) /\ Len(next) \in Nat
    <3>1. n - (m + 1) = n - m - 1 /\ n - (m + 1) \in Nat
      BY <1>1
    <3>2. QED
      BY <1>3, <1>5, <3>1
  <2>3. /\ Tail(rest) \in Seq(T) /\ next \in Seq(T)
        /\ \A i \in 1 .. Len(next) : Tail(rest)[i] = next[i]
    BY <1>3, <1>5, <2>1
  <2>4. QED
    BY <2>2, <2>3
<1>8. QED
  BY <1>1, <1>4, <1>5, <1>6, <1>7 DEF rest, next

\* Six tokens make an entry: what the scanner does with each.
LEMMA ScannerStep ==
  ASSUME NEW p, Written[p] = p, p \in Seq(STRING), NEW r \in 0 .. 5,
         r = 0 => scanner = NewScanner, r > 0 => scanner = ScannerAt(p, r)
  PROVE  LET token == Entry(p)[r + 1] IN
           /\ EndsEntry(scanner, token) <=> r = 5
           /\ r < 5 => Scan(scanner, token) = ScannerAt(p, r + 1)
<1> DEFINE token == Entry(p)[r + 1]
           type == TypeOf(p)
           At(n, t, q) == [entry |-> TRUE, nested |-> n, type |-> t, path |-> q]
<1> SUFFICES /\ EndsEntry(scanner, token) <=> r = 5
             /\ r < 5 => Scan(scanner, token) = ScannerAt(p, r + 1)
  OBVIOUS
<1>1. /\ Entry(p)[1] = [kind |-> "open", is |-> "{"]
      /\ Entry(p)[2] = [kind |-> "type", is |-> type]
      /\ Entry(p)[3] = [kind |-> "open", is |-> "{"]
      /\ Entry(p)[4] = [kind |-> "close", is |-> "}"]
      /\ Entry(p)[5] = [kind |-> "path", is |-> p]
      /\ Entry(p)[6] = [kind |-> "close", is |-> "}"]
  BY DEF Entry, Open, Close
<1>2. /\ ScannerAt(p, 1) = At(0, "unknown", <<>>) /\ ScannerAt(p, 2) = At(0, type, <<>>)
      /\ ScannerAt(p, 3) = At(1, type, <<>>) /\ ScannerAt(p, 4) = At(0, type, <<>>)
      /\ ScannerAt(p, 5) = At(0, type, p)
  <2>1. ScannerAt(p, 1) = At(0, "unknown", <<>>)
    BY DEF ScannerAt
  <2>2. ScannerAt(p, 2) = At(0, type, <<>>)
    BY DEF ScannerAt
  <2>3. ScannerAt(p, 3) = At(1, type, <<>>)
    BY DEF ScannerAt
  <2>4. ScannerAt(p, 4) = At(0, type, <<>>)
    BY DEF ScannerAt
  <2>5. ScannerAt(p, 5) = At(0, type, p)
    BY DEF ScannerAt
  <2>6. QED
    BY <2>1, <2>2, <2>3, <2>4, <2>5
<1> HIDE DEF token, type, At
<1>0. token = Entry(p)[r + 1]
  BY DEF token
<1>4. CASE r = 0
  <2>1. scanner = NewScanner /\ token = [kind |-> "open", is |-> "{"]
    <3>1. r + 1 = 1
      BY <1>4
    <3>2. QED
      BY <1>0, <1>1, <1>4, <3>1
  <2>2. Scan(NewScanner, [kind |-> "open", is |-> "{"]) = At(0, "unknown", <<>>)
    BY DEF Scan, NewScanner, At
  <2>3. ~EndsEntry(scanner, token)
    BY <2>1 DEF EndsEntry
  <2>4. r < 5 /\ r # 5 /\ r + 1 = 1
    BY <1>4
  <2>5. QED
    BY <1>2, <2>1, <2>2, <2>3, <2>4
<1>5. CASE r = 1
  <2>1. scanner = At(0, "unknown", <<>>) /\ token = [kind |-> "type", is |-> type]
    <3>1. r > 0 /\ r + 1 = 2
      BY <1>5
    <3>2. scanner = ScannerAt(p, 1) /\ token = Entry(p)[2]
      BY <1>0, <1>5, <3>1
    <3>3. QED
      BY <1>1, <1>2, <3>2
  <2>2. Scan(scanner, token) = At(0, type, <<>>) /\ ~EndsEntry(scanner, token)
    <3> DEFINE is == [kind |-> "type", is |-> type]
    <3>1. Scan(scanner, is) = At(0, type, <<>>)
      BY <2>1 DEF Scan, At
    <3>2. ~EndsEntry(scanner, is)
      BY <2>1 DEF EndsEntry, At
    <3>3. QED
      BY <2>1, <3>1, <3>2
  <2>3. QED
    BY <1>2, <1>5, <2>2
<1>6. CASE r = 2
  <2>1. scanner = At(0, type, <<>>) /\ token = [kind |-> "open", is |-> "{"]
    <3>1. r > 0 /\ r + 1 = 3
      BY <1>6
    <3>2. scanner = ScannerAt(p, 2) /\ token = Entry(p)[3]
      BY <1>0, <1>6, <3>1
    <3>3. QED
      BY <1>1, <1>2, <3>2
  <2>2. Scan(scanner, token) = At(0 + 1, type, <<>>) /\ ~EndsEntry(scanner, token)
    <3> DEFINE is == [kind |-> "open", is |-> "{"]
    <3>1. Scan(scanner, is) = At(0 + 1, type, <<>>)
      BY <2>1 DEF Scan, At
    <3>2. ~EndsEntry(scanner, is)
      BY <2>1 DEF EndsEntry, At
    <3>3. QED
      BY <2>1, <3>1, <3>2
  <2>3. QED
    BY <1>2, <1>6, <2>2
<1>7. CASE r = 3
  <2>1. scanner = At(1, type, <<>>) /\ token = [kind |-> "close", is |-> "}"]
    <3>1. r > 0 /\ r + 1 = 4
      BY <1>7
    <3>2. scanner = ScannerAt(p, 3) /\ token = Entry(p)[4]
      BY <1>0, <1>7, <3>1
    <3>3. QED
      BY <1>1, <1>2, <3>2
  <2>2. Scan(scanner, token) = At(1 - 1, type, <<>>) /\ ~EndsEntry(scanner, token)
    <3> DEFINE is == [kind |-> "close", is |-> "}"]
    <3>1. Scan(scanner, is) = At(1 - 1, type, <<>>)
      BY <2>1 DEF Scan, At
    <3>a. scanner.nested = 1
      BY <2>1 DEF At
    <3>2. ~EndsEntry(scanner, is)
      BY <3>a DEF EndsEntry
    <3>3. QED
      BY <2>1, <3>1, <3>2
  <2>3. QED
    BY <1>2, <1>7, <2>2
<1>8. CASE r = 4
  <2>1. scanner = At(0, type, <<>>) /\ token = [kind |-> "path", is |-> p]
    <3>1. r > 0 /\ r + 1 = 5
      BY <1>8
    <3>2. scanner = ScannerAt(p, 4) /\ token = Entry(p)[5]
      BY <1>0, <1>8, <3>1
    <3>3. QED
      BY <1>1, <1>2, <3>2
  <2>2. Scan(scanner, token) = At(0, type, <<>> \o Written[p]) /\ ~EndsEntry(scanner, token)
    <3> DEFINE is == [kind |-> "path", is |-> p]
    <3>1. Scan(scanner, is) = At(0, type, <<>> \o Written[p])
      BY <2>1 DEF Scan, At
    <3>2. ~EndsEntry(scanner, is)
      BY <2>1 DEF EndsEntry, At
    <3>3. QED
      BY <2>1, <3>1, <3>2
  <2>3. <<>> \o Written[p] = p
    OBVIOUS
  <2>4. QED
    BY <1>2, <1>8, <2>2, <2>3
<1>9. CASE r = 5
  <2>1. scanner = At(0, type, p) /\ token = [kind |-> "close", is |-> "}"]
    <3>1. r > 0 /\ r + 1 = 6
      BY <1>9
    <3>2. scanner = ScannerAt(p, 5) /\ token = Entry(p)[6]
      BY <1>0, <1>9, <3>1
    <3>3. QED
      BY <1>1, <1>2, <3>2
  <2>2. EndsEntry(scanner, token)
    <3>1. EndsEntry(scanner, [kind |-> "close", is |-> "}"])
      BY <2>1 DEF EndsEntry, At
    <3>2. QED
      BY <2>1, <3>1
  <2>3. QED
    BY <1>9, <2>2
<1>10. QED
  BY <1>4, <1>5, <1>6, <1>7, <1>8, <1>9 DEF token

\* What is still to be listed, as a relation.
LEMMA UnlistedIs ==
  ASSUME NEW page, NEW k
  PROVE  \A p : p \in Unlisted(page, k) <=>
           \/ \E e \in k + 1 .. Len(page) : p \in AtOrUnder(HFOrder[page[e]])
           \/ p \in NextOn
           \/ \E i \in DOMAIN dirs : p \in Under(dirs[i])
BY DEF Unlisted, OnPage, InDirs

\* No page is being scanned.
LEMMA NothingOnPage ==
  ASSUME NEW page, NEW k, NEW r, Place(page, k, r), pc # "parse"
  PROVE  page = <<>> /\ k = 0 /\ r = 0 /\ OnPage(page, k) = {} /\ OnPage(<<>>, 0) = {}
<1>1. page = <<>> /\ k \in 0 .. 0 /\ Len(page) = 0
  BY DEF Place
<1>2. k = 0 /\ r = 0
  BY <1>1 DEF Place
<1>3. 0 + 1 .. 0 = {}
  OBVIOUS
<1>4. OnPage(<<>>, 0) = {}
  BY <1>3 DEF OnPage
<1>5. QED
  BY <1>1, <1>2, <1>4

\* What depends on the repository alone does not change.
LEMMA SameRepository ==
  ASSUME repository' = repository
  PROVE  /\ HFOrder' = HFOrder /\ Dirs' = Dirs /\ Late' = Late
         /\ HFPatterns' = HFPatterns /\ Paths' = Paths
         /\ \A p : IsFile(p)' <=> IsFile(p)
         /\ \A page, k : OnPage(page, k)' = OnPage(page, k)
         /\ NextOn' = IF next_page_url' = NoUrl THEN {} ELSE FromPage(next_page_url')
         /\ InDirs' = UNION {Under(dirs'[i]) : i \in DOMAIN dirs'}
<1>1. Repository' = Repository
  BY DEF Repository
<1>2. /\ HFOrder' = HFOrder /\ Dirs' = Dirs /\ Late' = Late
      /\ HFPatterns' = HFPatterns /\ Odd' = Odd
  BY <1>1 DEF HFOrder, Dirs, Late, HFPatterns, Odd
<1>3. Paths' = Paths
  BY <1>2 DEF Paths, Range
<1>4. \A p : IsFile(p)' <=> IsFile(p)
  BY <1>2 DEF IsFile, TypeOf
<1>5. ASSUME NEW page, NEW k PROVE OnPage(page, k)' = OnPage(page, k)
  BY <1>2, <1>3 DEF OnPage, AtOrUnder
<1>6. NextOn' = IF next_page_url' = NoUrl THEN {} ELSE FromPage(next_page_url')
  BY <1>2, <1>3 DEF NextOn, FromPage, Under, Child, Position, NoUrl
<1>7. InDirs' = UNION {Under(dirs'[i]) : i \in DOMAIN dirs'}
  BY <1>3 DEF InDirs, Under
<1>8. QED
  BY <1>2, <1>3, <1>4, <1>5, <1>6, <1>7

\* HFApart of the next state, in terms of this one.
LEMMA ApartNext ==
  ASSUME repository' = repository, NEW page, NEW k,
         OnPage(page, k) \cap NextOn' = {}, OnPage(page, k) \cap InDirs' = {},
         NextOn' \cap InDirs' = {},
         \A i, j \in DOMAIN dirs' : i # j => Under(dirs'[i]) \cap Under(dirs'[j]) = {},
         \A d, e \in k + 1 .. Len(page) : d # e =>
           AtOrUnder(HFOrder[page[d]]) \cap AtOrUnder(HFOrder[page[e]]) = {}
  PROVE  HFApart(page, k)'
<1>1. HFOrder' = HFOrder /\ Paths' = Paths /\ OnPage(page, k)' = OnPage(page, k)
  BY SameRepository
<1>2. \A i, j \in DOMAIN dirs' : i # j => Under(dirs[i])' \cap Under(dirs[j])' = {}
  BY <1>1 DEF Under
<1>3. \A d, e \in k + 1 .. Len(page) : d # e =>
        AtOrUnder(HFOrder[page[d]])' \cap AtOrUnder(HFOrder[page[e]])' = {}
  BY <1>1 DEF AtOrUnder
<1>4. QED
  BY <1>1, <1>2, <1>3 DEF HFApart

\* A step that finds no file keeps the invariant if what is to be listed stays in what was,
\* and nothing that has to be found leaves it.
LEMMA GoesOn ==
  ASSUME HFTypes', repository' = repository, tree \subseteq tree', files' = files,
         NEW page, NEW k, Found(page, k), Awaited(page, k),
         NEW more \in Seq(DOMAIN HFOrder), NEW l \in Nat, NEW s \in Nat,
         Place(more, l, s)', HFApart(more, l)',
         OnPage(more, l) \cup NextOn' \cup InDirs' \subseteq Unlisted(page, k),
         \A p \in Unlisted(page, k) :
           p \in OnPage(more, l) \cup NextOn' \cup InDirs' \/ p \in Late \/ ~IsFile(p),
         pc' \in {"loop", "request", "parse"}
  PROVE  HFInv'
<1>1. /\ HFOrder' = HFOrder /\ Late' = Late /\ Paths' = Paths
      /\ \A p : IsFile(p)' <=> IsFile(p)
      /\ OnPage(more, l)' = OnPage(more, l)
  BY SameRepository
<1>2. Unlisted(more, l)' = OnPage(more, l) \cup NextOn' \cup InDirs'
  BY <1>1 DEF Unlisted
<1>3. Found(more, l)'
  BY <1>1, <1>2 DEF Found, IsInjective, Range
<1>4. Awaited(more, l)'
  BY <1>1, <1>2 DEF Awaited, Range
<1>5. Walk(more, l, s)'
  BY <1>3, <1>4 DEF Walk
<1>6. more \in Seq(DOMAIN HFOrder)'
  BY <1>1
<1>7. QED
  BY <1>5, <1>6 DEF HFInv

\* The first page of a directory begins all that is below it.
LEMMA FromStart ==
  ASSUME PlainNames, repository \in DOMAIN Repositories,
         NEW d \in Seq(STRING), IsPrefix(SharedPath, d)
  PROVE  FromPage([dir |-> d, after |-> 0]) = Under(d)
<1>1. ASSUME NEW p \in Under(d) PROVE Position(Child(d, p)) > 0
  <2>1. Child(d, p) \in Paths
    BY ChildIn
  <2>2. Position(Child(d, p)) \in 1 .. Len(HFOrder) /\ Len(HFOrder) \in Nat
    BY <2>1, RepositoryIs
  <2>3. QED
    BY <2>2
<1>2. QED
  BY <1>1 DEF FromPage

\* Nor do the tokens.
LEMMA SameEntries ==
  ASSUME repository' = repository
  PROVE  /\ \A p : Entry(p)' = Entry(p) /\ TypeOf(p)' = TypeOf(p)
         /\ \A page : Tokens(page)' = Tokens(page)
         /\ \A p, r : ScannerAt(p, r)' = ScannerAt(p, r)
<1>1. HFOrder' = HFOrder /\ Dirs' = Dirs /\ Odd' = Odd
  BY DEF HFOrder, Dirs, Odd, Repository
<1>2. \A p : TypeOf(p)' = TypeOf(p)
  BY <1>1 DEF TypeOf
<1>3. \A p : Entry(p)' = Entry(p)
  BY <1>2 DEF Entry, Open, Close
<1>4. \A page : Tokens(page)' = Tokens(page)
  BY <1>1, <1>3 DEF Tokens
<1>5. \A p, r : ScannerAt(p, r)' = ScannerAt(p, r)
  BY <1>2 DEF ScannerAt
<1>6. QED
  BY <1>2, <1>3, <1>4, <1>5

\* Types, when at most paths are added.
LEMMA TypesStay ==
  ASSUME HFTypes, UNCHANGED <<repository, hf_pattern, files, dirs, next_page_url>>,
         tree \subseteq tree', tree' \subseteq Paths
  PROVE  HFTypes'
<1>1. HFOrder' = HFOrder /\ Late' = Late /\ Paths' = Paths /\ HFPatterns' = HFPatterns
  BY SameRepository
<1>2. NoUrl' = NoUrl
  BY DEF NoUrl
<1>3. QED
  BY <1>1, <1>2 DEF HFTypes

\* What is being scanned stays.
LEMMA PlaceStays ==
  ASSUME NEW page, NEW k, NEW r, Place(page, k, r), tree \subseteq tree',
         UNCHANGED <<repository, pc, response, link_header_result, next_page_url, scanner>>
  PROVE  Place(page, k, r)'
<1>1. HFOrder' = HFOrder
  BY SameRepository
<1>2. /\ NoUrl' = NoUrl /\ NewScanner' = NewScanner
      /\ Tokens(page)' = Tokens(page)
      /\ \A p, s : ScannerAt(p, s)' = ScannerAt(p, s)
  BY SameEntries DEF NoUrl, NewScanner
<1>3. ScannerAt(HFOrder[page[k + 1]], r)' = ScannerAt(HFOrder[page[k + 1]], r)
  BY <1>1, SameEntries DEF ScannerAt, TypeOf, Dirs, Odd, Repository
<1>4. QED
  BY <1>1, <1>2, <1>3 DEF Place

\* The same page, with another token of the same entry.
LEMMA Stays ==
  ASSUME HFTypes', repository' = repository, tree \subseteq tree',
         UNCHANGED <<files, dirs, next_page_url>>,
         NEW page \in Seq(DOMAIN HFOrder), NEW k \in Nat, NEW r \in Nat, Walk(page, k, r),
         NEW s \in Nat, Place(page, k, s)', pc' \in {"loop", "request", "parse"}
  PROVE  HFInv'
<1>1. NextOn' = NextOn /\ InDirs' = InDirs /\ HFApart(page, k) /\ Found(page, k) /\ Awaited(page, k)
  BY SameRepository DEF NextOn, InDirs, Walk
<1>2. HFApart(page, k)'
  BY <1>1, ApartNext DEF HFApart
<1>3. OnPage(page, k) \cup NextOn' \cup InDirs' = Unlisted(page, k)
  BY <1>1 DEF Unlisted
<1>4. QED
  BY <1>1, <1>2, <1>3, GoesOn

\* Nothing changes but tries.
LEMMA HFStandsStill ==
  ASSUME HFInv, UNCHANGED <<repository, hf_pattern, tree, files, dirs, next_page_url, response,
                            link_header_result, scanner, pc>>
  PROVE  HFInv'
<1>1. HFTypes /\ tree \subseteq tree' /\ tree' \subseteq Paths
  BY DEF HFInv, HFTypes
<1>2. HFTypes'
  BY <1>1, TypesStay
<1>3. CASE pc \in {"loop", "request", "parse"}
  <2>1. PICK page \in Seq(DOMAIN HFOrder), k \in Nat, r \in Nat : Walk(page, k, r)
    BY <1>3 DEF HFInv
  <2>2. Place(page, k, r)
    BY <2>1 DEF Walk
  <2>3. Place(page, k, r)'
    BY <1>1, <2>2, PlaceStays
  <2>4. QED
    BY <1>1, <1>2, <1>3, <2>1, <2>3, Stays
<1>4. CASE pc \notin {"loop", "request", "parse"}
  <2>1. pc = "done" => FilesAreExact
    BY DEF HFInv
  <2>2. FilesAreExact' <=> FilesAreExact
    BY DEF FilesAreExact, HFOrder, Late, Repository, HFWanted, IsFile, TypeOf,
           Dirs, Odd, Matches, Range, IsInjective
  <2>3. QED
    BY <1>2, <1>4, <2>1, <2>2 DEF HFInv
<1>5. QED
  BY <1>3, <1>4

\* A directory or the next page is taken up.
LEMMA StartRequestStep ==
  ASSUME PlainNames, HFInv, StartRequest, repository' = repository
  PROVE  HFInv'
<1>1. PICK page \in Seq(DOMAIN HFOrder), k \in Nat, r \in Nat : Walk(page, k, r)
  BY DEF HFInv, StartRequest
<1>2. /\ HFTypes /\ Place(page, k, r) /\ HFApart(page, k) /\ Found(page, k) /\ Awaited(page, k)
      /\ pc = "loop"
  BY <1>1 DEF HFInv, Walk, StartRequest
<1>3. page = <<>> /\ k = 0 /\ OnPage(page, k) = {} /\ OnPage(<<>>, 0) = {}
  BY <1>2, NothingOnPage
<1>4. /\ repository \in DOMAIN Repositories /\ hf_pattern \in HFPatterns
      /\ Paths \ Late \subseteq tree /\ tree \subseteq Paths
      /\ files \in Seq(Paths) /\ dirs \in Seq(Seq(STRING))
      /\ \A i \in DOMAIN dirs : IsPrefix(SharedPath, dirs[i])
      /\ next_page_url \in [dir : Seq(STRING), after : Nat \cup {-1}]
      /\ next_page_url # NoUrl =>
           IsPrefix(SharedPath, next_page_url.dir) /\ next_page_url.after \in Nat
  BY <1>2 DEF HFTypes
<1>5. /\ pc' = "request" /\ response' = <<>> /\ link_header_result' = NoUrl
      /\ hf_pattern' = hf_pattern /\ tree' = tree /\ files' = files
  BY DEF StartRequest
<1>6. /\ HFOrder' = HFOrder /\ Late' = Late /\ Paths' = Paths /\ HFPatterns' = HFPatterns
      /\ NextOn' = IF next_page_url' = NoUrl THEN {} ELSE FromPage(next_page_url')
      /\ InDirs' = UNION {Under(dirs'[i]) : i \in DOMAIN dirs'}
  BY SameRepository
<1>7. /\ NextOn \cap InDirs = {}
      /\ \A i, j \in DOMAIN dirs : i # j => Under(dirs[i]) \cap Under(dirs[j]) = {}
  BY <1>2 DEF HFApart
<1>8. Unlisted(page, k) = NextOn \cup InDirs
  BY <1>3 DEF Unlisted
<1>9. ASSUME next_page_url' # NoUrl, dirs' \in Seq(Seq(STRING)),
             \A i \in DOMAIN dirs' : IsPrefix(SharedPath, dirs'[i]),
             next_page_url' \in [dir : Seq(STRING), after : Nat \cup {-1}],
             IsPrefix(SharedPath, next_page_url'.dir), next_page_url'.after \in Nat,
             NextOn' \cap InDirs' = {}, NextOn' \cup InDirs' = NextOn \cup InDirs,
             \A i, j \in DOMAIN dirs' : i # j => Under(dirs'[i]) \cap Under(dirs'[j]) = {}
      PROVE  HFInv'
  <2>1. HFTypes'
    BY <1>4, <1>5, <1>6, <1>9 DEF HFTypes
  <2>2. HFApart(<<>>, 0)'
    <3>1. 0 + 1 .. Len(<<>>) = {}
      OBVIOUS
    <3>2. \A i, e \in 0 + 1 .. Len(<<>>) : i # e =>
            AtOrUnder(HFOrder[<<>>[i]]) \cap AtOrUnder(HFOrder[<<>>[e]]) = {}
      BY <3>1
    <3>3. OnPage(<<>>, 0) \cap NextOn' = {} /\ OnPage(<<>>, 0) \cap InDirs' = {}
      BY <1>3
    <3>4. QED
      BY <1>9, <3>2, <3>3, ApartNext
  <2>3. Place(<<>>, 0, 0)'
    <3>1. <<>> \in Seq(DOMAIN HFOrder) /\ DOMAIN <<>> = {} /\ Len(<<>>) = 0
      OBVIOUS
    <3>2. NoUrl' = NoUrl
      BY DEF NoUrl
    <3>3. QED
      BY <1>5, <1>6, <1>9, <3>1, <3>2 DEF Place
  <2>4. OnPage(<<>>, 0) \cup NextOn' \cup InDirs' = Unlisted(page, k)
    BY <1>3, <1>8, <1>9
  <2>5. <<>> \in Seq(DOMAIN HFOrder) /\ 0 \in Nat /\ tree \subseteq tree'
        /\ pc' \in {"loop", "request", "parse"}
    BY <1>5
  <2>6. QED
    BY <1>2, <1>5, <2>1, <2>2, <2>3, <2>4, <2>5, GoesOn
<1>10. CASE next_page_url # NoUrl /\ UNCHANGED <<dirs, next_page_url>>
  <2>1. NextOn' = NextOn /\ InDirs' = InDirs
    BY <1>6, <1>10 DEF NextOn, InDirs
  <2>2. QED
    BY <1>4, <1>7, <1>9, <1>10, <2>1
<1>11. CASE /\ next_page_url = NoUrl /\ dirs # <<>>
            /\ dirs' = Front(dirs)
            /\ next_page_url' = [dir |-> Last(dirs), after |-> 0]
  <2> DEFINE n == Len(dirs)
             d == dirs[n]
  <2>1. n \in Nat /\ n > 0 /\ DOMAIN dirs = 1 .. n /\ n \in DOMAIN dirs
    BY <1>4, <1>11
  <2>2. d \in Seq(STRING) /\ IsPrefix(SharedPath, d)
    <3>1. \A i \in DOMAIN dirs : dirs[i] \in Seq(STRING)
      BY <1>4
    <3>2. QED
      BY <1>4, <2>1, <3>1
  <2>3. next_page_url' = [dir |-> d, after |-> 0]
    BY <1>11 DEF Last
  <2>4. dirs' = SubSeq(dirs, 1, n - 1)
    BY <1>11 DEF Front
  <2> HIDE DEF n, d
  <2>5. /\ dirs' \in Seq(Seq(STRING)) /\ DOMAIN dirs' = 1 .. n - 1
        /\ \A i \in 1 .. n - 1 : dirs'[i] = dirs[i] /\ i \in DOMAIN dirs /\ i # n
    <3>1. n - 1 \in Nat /\ n - 1 <= Len(dirs)
      BY <2>1 DEF n
    <3>2. \A i \in 1 .. n - 1 : i \in 1 .. n /\ i # n
      BY <2>1
    <3>3. /\ dirs' \in Seq(Seq(STRING)) /\ DOMAIN dirs' = 1 .. n - 1
          /\ \A i \in 1 .. n - 1 : dirs'[i] = dirs[i]
      BY <1>4, <2>4, <3>1
    <3>4. QED
      BY <2>1, <3>2, <3>3
  <2>6. next_page_url' # NoUrl
    BY <2>3 DEF NoUrl
  <2>7. NextOn' = Under(d)
    BY <1>4, <1>6, <2>2, <2>3, <2>6, FromStart
  <2>8. NextOn = {}
    BY <1>11 DEF NextOn
  <2>9. \A i \in DOMAIN dirs : i = n \/ i \in 1 .. n - 1
    BY <2>1
  <2>10. NextOn' \cup InDirs' = NextOn \cup InDirs
    <3>1. \A p : p \in InDirs <=> \E i \in DOMAIN dirs : p \in Under(dirs[i])
      BY DEF InDirs
    <3>2. \A p : p \in InDirs' <=> \E i \in 1 .. n - 1 : p \in Under(dirs[i])
      BY <1>6, <2>5
    <3>3. \A p : p \in InDirs <=> p \in Under(d) \/ p \in InDirs'
      BY <2>1, <2>5, <2>9, <3>1, <3>2 DEF d
    <3>4. QED
      BY <2>7, <2>8, <3>3
  <2>11. NextOn' \cap InDirs' = {}
    <3>1. \A p : p \in InDirs' <=> \E i \in 1 .. n - 1 : p \in Under(dirs[i])
      BY <1>6, <2>5
    <3>2. \A i \in 1 .. n - 1 : Under(dirs[i]) \cap Under(d) = {}
      BY <1>7, <2>1, <2>5 DEF d
    <3>3. QED
      BY <2>7, <3>1, <3>2
  <2>12. \A i, j \in DOMAIN dirs' : i # j => Under(dirs'[i]) \cap Under(dirs'[j]) = {}
    BY <1>7, <2>5
  <2>13. \A i \in DOMAIN dirs' : IsPrefix(SharedPath, dirs'[i])
    BY <1>4, <2>5
  <2>14. /\ next_page_url' \in [dir : Seq(STRING), after : Nat \cup {-1}]
         /\ IsPrefix(SharedPath, next_page_url'.dir) /\ next_page_url'.after \in Nat
    <3>1. 0 \in Nat /\ 0 \in Nat \cup {-1}
      OBVIOUS
    <3>2. QED
      BY <2>2, <2>3, <3>1
  <2>15. QED
    BY <1>9, <2>5, <2>6, <2>10, <2>11, <2>12, <2>13, <2>14
<1>12. QED
  BY <1>10, <1>11 DEF StartRequest

\* A page arrives: it takes the place of what was to be listed from next_page_url on.
LEMMA RequestSucceedsStep ==
  ASSUME PlainNames, HFInv, RequestSucceeds, repository' = repository
  PROVE  HFInv'
<1>1. PICK page \in Seq(DOMAIN HFOrder), k \in Nat, r \in Nat : Walk(page, k, r)
  BY DEF HFInv, RequestSucceeds
<1>2. /\ HFTypes /\ Place(page, k, r) /\ HFApart(page, k) /\ Found(page, k) /\ Awaited(page, k)
      /\ pc = "request"
  BY <1>1 DEF HFInv, Walk, RequestSucceeds
<1>3. page = <<>> /\ k = 0 /\ OnPage(page, k) = {}
  BY <1>2, NothingOnPage
<1>4. /\ repository \in DOMAIN Repositories /\ hf_pattern \in HFPatterns
      /\ Paths \ Late \subseteq tree /\ tree \subseteq Paths
      /\ files \in Seq(Paths) /\ dirs \in Seq(Seq(STRING))
      /\ \A i \in DOMAIN dirs : IsPrefix(SharedPath, dirs[i])
      /\ next_page_url \in [dir : Seq(STRING), after : Nat \cup {-1}]
      /\ next_page_url # NoUrl =>
           IsPrefix(SharedPath, next_page_url.dir) /\ next_page_url.after \in Nat
  BY <1>2 DEF HFTypes
<1>5. response = <<>> /\ link_header_result = NoUrl /\ next_page_url # NoUrl
  BY <1>2 DEF Place
<1>6. PICK d, a : /\ next_page_url = [dir |-> d, after |-> a] /\ d \in Seq(STRING) /\ a \in Nat
                  /\ IsPrefix(SharedPath, d)
  <2>1. next_page_url = [dir |-> next_page_url.dir, after |-> next_page_url.after]
    BY <1>4
  <2>2. next_page_url.dir \in Seq(STRING) /\ next_page_url.after \in Nat
        /\ IsPrefix(SharedPath, next_page_url.dir)
    BY <1>4, <1>5
  <2>3. QED
    BY <2>1, <2>2
<1>n. PICK next : next = HFPage([dir |-> d, after |-> a])
  OBVIOUS
<1>l. PICK link : link = LinkAfter([dir |-> d, after |-> a])
  OBVIOUS
<1>m. PICK more : more = IF link = NoUrl THEN {} ELSE FromPage(link)
  OBVIOUS
<1>7. /\ pc' = "parse" /\ response' = response \o Tokens(next)
      /\ next_page_url' = link /\ scanner' = NewScanner
      /\ hf_pattern' = hf_pattern /\ tree' = tree /\ files' = files /\ dirs' = dirs
  <2>1. ReceivedLink = link
    BY <1>5, <1>6, <1>l DEF ReceivedLink
  <2>2. HFBody(next_page_url) = Tokens(next)
    BY <1>6, <1>n DEF HFBody
  <2>3. QED
    BY <2>1, <2>2 DEF RequestSucceeds, NextPage
<1>8. /\ next \in Seq(DOMAIN HFOrder) /\ Len(next) \in Nat
      /\ link # NoUrl => link.dir = d /\ link.after \in Nat
      /\ link \in [dir : Seq(STRING), after : Nat \cup {-1}]
      /\ \A e \in DOMAIN next :
           HFOrder[next[e]] \in tree /\ IsStrictPrefix(SharedPath, HFOrder[next[e]])
      /\ OnPage(next, 0) \subseteq FromPage([dir |-> d, after |-> a])
      /\ more \subseteq FromPage([dir |-> d, after |-> a])
      /\ OnPage(next, 0) \cap more = {}
      /\ \A e, f \in 1 .. Len(next) : e # f =>
           AtOrUnder(HFOrder[next[e]]) \cap AtOrUnder(HFOrder[next[f]]) = {}
      /\ FromPage([dir |-> d, after |-> a]) \ Late \subseteq OnPage(next, 0) \cup more
  <2>1. /\ repository \in DOMAIN Repositories /\ tree \subseteq Paths
        /\ Paths \ Late \subseteq tree
        /\ d \in Seq(STRING) /\ IsPrefix(SharedPath, d) /\ a \in Nat
    BY <1>4, <1>6
  <2>2. QED
    <3>1. Splits(d, a, next, link, more)
      BY <1>n, <1>l, <1>m, <2>1, PageSplits
    <3>2. QED
      BY <3>1 DEF Splits
<1>9. /\ HFOrder' = HFOrder /\ Late' = Late /\ Paths' = Paths /\ HFPatterns' = HFPatterns
      /\ NextOn' = more /\ InDirs' = InDirs
  BY <1>7, <1>m, SameRepository DEF InDirs
<1>10. NextOn = FromPage([dir |-> d, after |-> a])
  BY <1>5, <1>6 DEF NextOn
<1>11. /\ NextOn \cap InDirs = {}
       /\ \A i, j \in DOMAIN dirs : i # j => Under(dirs[i]) \cap Under(dirs[j]) = {}
  BY <1>2 DEF HFApart
<1>12. Unlisted(page, k) = NextOn \cup InDirs
  BY <1>3 DEF Unlisted
<1>13. HFTypes'
  <2>1. NoUrl' = NoUrl
    BY DEF NoUrl
  <2>2. next_page_url' # NoUrl =>
          IsPrefix(SharedPath, next_page_url'.dir) /\ next_page_url'.after \in Nat
    BY <1>6, <1>7, <1>8
  <2>3. next_page_url' \in [dir : Seq(STRING), after : Nat \cup {-1}]
    BY <1>7, <1>8
  <2>4. QED
    BY <1>4, <1>7, <1>9, <2>1, <2>2, <2>3 DEF HFTypes
<1>14. HFApart(next, 0)'
  <2>1. OnPage(next, 0) \cap NextOn' = {} /\ OnPage(next, 0) \cap InDirs' = {}
        /\ NextOn' \cap InDirs' = {}
    BY <1>8, <1>9, <1>10, <1>11
  <2>2. \A i, j \in DOMAIN dirs' : i # j => Under(dirs'[i]) \cap Under(dirs'[j]) = {}
    BY <1>7, <1>11
  <2>3. \A i, e \in 0 + 1 .. Len(next) : i # e =>
          AtOrUnder(HFOrder[next[i]]) \cap AtOrUnder(HFOrder[next[e]]) = {}
    <3>1. 0 + 1 = 1
      OBVIOUS
    <3>2. QED
      BY <1>8, <3>1
  <2>4. QED
    BY <2>1, <2>2, <2>3, ApartNext
<1>15. Place(next, 0, 0)'
  <2>1. response' = SubSeq(Tokens(next), 6 * 0 + 0 + 1, 6 * Len(next))
    <3> DEFINE s == Tokens(next)
    <3>1. s \in Seq(Range(s)) /\ Len(s) = 6 * Len(next)
      BY <1>8, TokensLen
    <3> HIDE DEF s
    <3>2. <<>> \o s = s /\ SubSeq(s, 1, Len(s)) = s
      BY <3>1
    <3>3. 6 * 0 + 0 + 1 = 1
      OBVIOUS
    <3>4. QED
      BY <1>5, <1>7, <3>1, <3>2, <3>3 DEF s
  <2>2. Tokens(next)' = Tokens(next)
    BY SameEntries
  <2>3. NewScanner' = NewScanner
    BY DEF NewScanner
  <2>4. 0 \in 0 .. Len(next) /\ 0 \in 0 .. 5 /\ ~(0 > 0)
    BY <1>8
  <2>5. QED
    BY <1>7, <1>8, <1>9, <2>1, <2>2, <2>3, <2>4 DEF Place
<1>16. OnPage(next, 0) \cup NextOn' \cup InDirs' \subseteq Unlisted(page, k)
  BY <1>8, <1>9, <1>10, <1>12
<1>17. \A p \in Unlisted(page, k) :
         p \in OnPage(next, 0) \cup NextOn' \cup InDirs' \/ p \in Late \/ ~IsFile(p)
  BY <1>8, <1>9, <1>10, <1>12
<1>18. QED
  BY <1>2, <1>7, <1>8, <1>13, <1>14, <1>15, <1>16, <1>17, GoesOn

\* An attempt breaks: with curl nothing of it remains.
LEMMA RequestBreaksStep ==
  ASSUME HFInv, ~Streaming, RequestBreaks, repository' = repository
  PROVE  HFInv'
<1>1. ~Streaming /\ UNCHANGED <<response, link_header_result>>
  BY DEF RequestBreaks
<1>2. UNCHANGED <<repository, hf_pattern, tree, files, dirs, next_page_url, response,
                  link_header_result, scanner, pc>>
  BY <1>1 DEF RequestBreaks
<1>3. QED
  BY <1>2, HFStandsStill

\* After an error nothing is claimed.
LEMMA ThrownStep ==
  ASSUME HFInv, HFTypes', pc' = "thrown"
  PROVE  HFInv'
BY DEF HFInv

\* A request fails for good.
LEMMA RequestFailsHF ==
  ASSUME HFInv, HFRequestFails, repository' = repository
  PROVE  HFInv'
<1>1. /\ UNCHANGED <<repository, hf_pattern, tree, files, dirs, next_page_url>>
      /\ pc' = "thrown" /\ HFTypes
  BY DEF HFRequestFails, HFInv
<1>2. HFTypes'
  <2>1. tree \subseteq tree' /\ tree' \subseteq Paths
    BY <1>1 DEF HFTypes
  <2>2. QED
    BY <1>1, <2>1, TypesStay
<1>3. QED
  BY <1>1, <1>2, ThrownStep

\* A commit adds a path of which nothing is claimed until it is listed.
LEMMA CommitStep ==
  ASSUME PlainNames, HFInv, Commit, repository' = repository
  PROVE  HFInv'
<1>1. PICK p \in Late \ tree : tree' = tree \cup {q \in Paths : IsPrefix(q, p)}
  BY DEF Commit, Paths
<1>2. UNCHANGED <<repository, hf_pattern, files, dirs, next_page_url, response,
                  link_header_result, scanner, tries, pc>>
  BY DEF Commit
<1>3. HFTypes
  BY DEF HFInv
<1>4. HFTypes'
  <2>1. tree \subseteq tree' /\ tree' \subseteq Paths
    BY <1>1, <1>3 DEF HFTypes
  <2>2. QED
    BY <1>2, <1>3, <2>1, TypesStay
<1>5. CASE pc \in {"loop", "request", "parse"}
  <2>1. PICK page \in Seq(DOMAIN HFOrder), k \in Nat, r \in Nat : Walk(page, k, r)
    BY <1>5 DEF HFInv
  <2>2. Place(page, k, r)'
    <3>1. Place(page, k, r)
      BY <2>1 DEF Walk
    <3>2. tree \subseteq tree'
      BY <1>1
    <3>3. QED
      BY <1>2, <3>1, <3>2, PlaceStays
  <2>3. QED
    BY <1>1, <1>2, <1>4, <1>5, <2>1, <2>2, Stays
<1>6. CASE pc = "done"
  <2>1. FilesAreExact
    BY <1>6 DEF HFInv
  <2>2. FilesAreExact'
    <3>1. /\ HFOrder' = HFOrder /\ Late' = Late
          /\ \A q : IsFile(q)' <=> IsFile(q)
      BY <1>2, SameRepository
    <3>2. \A q : HFWanted(q)' <=> HFWanted(q)
      BY <1>2, <3>1 DEF HFWanted, Matches
    <3>3. QED
      BY <1>1, <1>2, <1>6, <2>1, <3>1, <3>2 DEF FilesAreExact, Range, IsInjective
  <2>3. QED
    BY <1>2, <1>4, <1>6, <2>2 DEF HFInv
<1>7. CASE pc \notin {"loop", "request", "parse", "done"}
  BY <1>2, <1>4, <1>7 DEF HFInv
<1>8. QED
  BY <1>5, <1>6, <1>7

\* What the scanner reads next.
LEMMA TokenAhead ==
  ASSUME NEW page \in Seq(DOMAIN HFOrder), NEW k \in Nat, NEW r \in Nat,
         Place(page, k, r), pc = "parse"
  PROVE  /\ response = <<>> <=> k = Len(page)
         /\ k \in 0 .. Len(page) /\ r \in 0 .. 5
         /\ k < Len(page) =>
              /\ Head(response) = Entry(HFOrder[page[k + 1]])[r + 1]
              /\ Tail(response) = SubSeq(Tokens(page), 6 * k + r + 2, 6 * Len(page))
<1> DEFINE s == Tokens(page)
           n == Len(page)
           m == 6 * k + r
<1>1. /\ k \in 0 .. n /\ r \in 0 .. 5 /\ (k = n => r = 0) /\ n \in Nat
      /\ response = SubSeq(s, m + 1, 6 * n)
  BY DEF Place
<1>2. s \in Seq(Range(s)) /\ Len(s) = 6 * n
  BY TokensLen
<1>3. CASE k = n
  <2>1. m + 1 > 6 * n /\ m + 1 \in Nat /\ 6 * n \in Nat
    BY <1>1, <1>3
  <2> HIDE DEF s, m, n
  <2>2. SubSeq(s, m + 1, 6 * n) = <<>>
    BY <1>2, <2>1
  <2>3. ~(k < n)
    BY <1>1, <1>3
  <2>4. QED
    BY <1>1, <1>3, <2>2, <2>3 DEF n, s
<1>4. CASE k < n
  <2>1. m \in Nat /\ m < 6 * n
    BY <1>1, <1>4
  <2>2. s[m + 1] = Entry(HFOrder[page[k + 1]])[r + 1]
    <3>1. k < Len(page) /\ r \in 0 .. 5
      BY <1>1, <1>4
    <3>2. EntryAt(page, k, r)
      BY <3>1, TokensAre
    <3>3. QED
      BY <3>2 DEF EntryAt
  <2> HIDE DEF s, m, n
  <2>3. /\ SubSeq(s, m + 1, 6 * n) # <<>> /\ Head(SubSeq(s, m + 1, 6 * n)) = s[m + 1]
        /\ Tail(SubSeq(s, m + 1, 6 * n)) = SubSeq(s, m + 2, 6 * n)
    BY <1>2, <2>1, RestAndTail
  <2>4. k # n
    BY <1>1, <1>4
  <2>5. QED
    BY <1>1, <2>2, <2>3, <2>4 DEF n, s, m
<1>5. k = n \/ k < n
  BY <1>1
<1> HIDE DEF s, m
<1>6. k \in 0 .. Len(page) /\ r \in 0 .. 5
  BY <1>1
<1>7. QED
  BY <1>3, <1>4, <1>5, <1>6

\* The end of a page.
LEMMA ParseListResultEndsStep ==
  ASSUME HFInv, ParseListResultEnds, repository' = repository
  PROVE  HFInv'
<1>1. PICK page \in Seq(DOMAIN HFOrder), k \in Nat, r \in Nat : Walk(page, k, r)
  BY DEF HFInv, ParseListResultEnds
<1>2. /\ HFTypes /\ Place(page, k, r) /\ HFApart(page, k) /\ Found(page, k) /\ Awaited(page, k)
      /\ pc = "parse" /\ response = <<>> /\ pc' = "loop"
      /\ UNCHANGED <<hf_pattern, tree, files, dirs, next_page_url>>
  BY <1>1 DEF HFInv, Walk, ParseListResultEnds
<1>3. k = Len(page) /\ k \in Nat
  BY <1>2, TokenAhead
<1>4. OnPage(page, k) = {} /\ OnPage(<<>>, 0) = {} /\ 0 + 1 .. Len(<<>>) = {}
  <2>1. k + 1 .. Len(page) = {} /\ 0 + 1 .. Len(<<>>) = {}
    BY <1>3
  <2>2. QED
    BY <2>1 DEF OnPage
<1>5. NextOn' = NextOn /\ InDirs' = InDirs
  BY <1>2, SameRepository DEF NextOn, InDirs
<1>6. HFTypes'
  <2>1. tree \subseteq tree' /\ tree' \subseteq Paths
    BY <1>2 DEF HFTypes
  <2>2. QED
    BY <1>2, <2>1, TypesStay
<1>7. HFApart(<<>>, 0)'
  <2>1. \A i, e \in 0 + 1 .. Len(<<>>) : i # e =>
          AtOrUnder(HFOrder[<<>>[i]]) \cap AtOrUnder(HFOrder[<<>>[e]]) = {}
    BY <1>4
  <2>2. /\ NextOn' \cap InDirs' = {}
        /\ \A i, j \in DOMAIN dirs' : i # j => Under(dirs'[i]) \cap Under(dirs'[j]) = {}
    BY <1>2, <1>5 DEF HFApart
  <2>3. OnPage(<<>>, 0) \cap NextOn' = {} /\ OnPage(<<>>, 0) \cap InDirs' = {}
    BY <1>4
  <2>4. QED
    BY <2>1, <2>2, <2>3, ApartNext
<1>8. Place(<<>>, 0, 0)'
  <2>1. <<>> \in Seq(DOMAIN HFOrder)' /\ DOMAIN <<>> = {} /\ Len(<<>>) = 0
    OBVIOUS
  <2>2. QED
    BY <1>2, <2>1 DEF Place
<1>9. OnPage(<<>>, 0) \cup NextOn' \cup InDirs' = Unlisted(page, k)
  BY <1>4, <1>5 DEF Unlisted
<1>10. <<>> \in Seq(DOMAIN HFOrder) /\ 0 \in Nat /\ tree \subseteq tree'
       /\ pc' \in {"loop", "request", "parse"}
  BY <1>2
<1>11. QED
  BY <1>2, <1>6, <1>7, <1>8, <1>9, <1>10, GoesOn

\* A token inside of an entry.
LEMMA ScanTokenStep ==
  ASSUME PlainNames, HFInv, ScanToken, repository' = repository
  PROVE  HFInv'
<1>1. PICK page \in Seq(DOMAIN HFOrder), k \in Nat, r \in Nat : Walk(page, k, r)
  BY DEF HFInv, ScanToken
<1>2. /\ HFTypes /\ Place(page, k, r)
      /\ pc = "parse" /\ response # <<>> /\ pc' = pc
      /\ ~EndsEntry(scanner, Head(response))
      /\ scanner' = Scan(scanner, Head(response)) /\ response' = Tail(response)
      /\ UNCHANGED <<hf_pattern, tree, files, dirs, next_page_url>>
  BY <1>1 DEF HFInv, Walk, ScanToken
<1>3. PICK p : p = HFOrder[page[k + 1]]
  OBVIOUS
<1>4. /\ k \in 0 .. Len(page) /\ k # Len(page) /\ k < Len(page) /\ k + 1 \in DOMAIN page
      /\ r \in 0 .. 5
      /\ Head(response) = Entry(p)[r + 1]
      /\ Tail(response) = SubSeq(Tokens(page), 6 * k + r + 2, 6 * Len(page))
  <2>1. k \in 0 .. Len(page) /\ r \in 0 .. 5 /\ k # Len(page)
    BY <1>2, TokenAhead
  <2>2. k < Len(page) /\ k + 1 \in DOMAIN page
    BY <2>1
  <2>3. QED
    BY <1>2, <1>3, <2>1, <2>2, TokenAhead
<1>5. p \in Seq(STRING) /\ Written[p] = p
  <2>1. page[k + 1] \in DOMAIN HFOrder
    BY <1>4
  <2>2. QED
    BY <1>2, <1>3, <2>1, RepositoryIs DEF HFTypes
<1>6. (r = 0 => scanner = NewScanner) /\ (r > 0 => scanner = ScannerAt(p, r))
  BY <1>2, <1>3 DEF Place
<1>7. r < 5 /\ scanner' = ScannerAt(p, r + 1)
  <2>1. /\ EndsEntry(scanner, Entry(p)[r + 1]) <=> r = 5
        /\ r < 5 => Scan(scanner, Entry(p)[r + 1]) = ScannerAt(p, r + 1)
    BY <1>4, <1>5, <1>6, ScannerStep
  <2>2. r < 5
    BY <1>2, <1>4, <2>1
  <2>3. QED
    BY <1>2, <1>4, <2>1, <2>2
<1>8. Place(page, k, r + 1)'
  <2>1. HFOrder' = HFOrder
    BY SameRepository
  <2>2. /\ Tokens(page)' = Tokens(page)
        /\ ScannerAt(HFOrder[page[k + 1]], r + 1)' = ScannerAt(p, r + 1)
    BY <1>3, <2>1, SameEntries DEF ScannerAt, TypeOf, Dirs, Odd, Repository
  <2>3. 6 * k + (r + 1) + 1 = 6 * k + r + 2 /\ r + 1 \in 0 .. 5 /\ r + 1 > 0 /\ r + 1 # 0
    BY <1>4, <1>7
  <2>4. /\ page \in Seq(DOMAIN HFOrder) /\ k \in 0 .. Len(page)
        /\ \A e \in DOMAIN page :
             HFOrder[page[e]] \in tree /\ IsStrictPrefix(SharedPath, HFOrder[page[e]])
    BY <1>2 DEF Place
  <2>5. response' = SubSeq(Tokens(page), 6 * k + (r + 1) + 1, 6 * Len(page))
    BY <1>2, <1>4, <2>3
  <2>6. QED
    BY <1>2, <1>4, <1>7, <2>1, <2>2, <2>3, <2>4, <2>5 DEF Place
<1>9. HFTypes'
  <2>1. tree \subseteq tree' /\ tree' \subseteq Paths
    BY <1>2 DEF HFTypes
  <2>2. QED
    BY <1>2, <2>1, TypesStay
<1>10. r + 1 \in Nat /\ tree \subseteq tree' /\ pc' \in {"loop", "request", "parse"}
  BY <1>2
<1>11. QED
  BY <1>1, <1>2, <1>8, <1>9, <1>10, Stays

\* The region of the entry p, the next one on the page.
Leaves(page, k, p) ==
  /\ p \in Paths /\ p \in tree /\ p \in Seq(STRING) /\ p # <<>>
  /\ IsPrefix(SharedPath, p) /\ Under(p) \subseteq AtOrUnder(p) /\ p \in AtOrUnder(p)
  /\ \A q \in AtOrUnder(p) : q = p \/ (q \in Under(p) /\ p \in Dirs)
  /\ OnPage(page, k) = AtOrUnder(p) \cup OnPage(page, k + 1)
  /\ AtOrUnder(p) \cap (OnPage(page, k + 1) \cup NextOn \cup InDirs) = {}

\* The entry that ends: its region leaves what is to be listed.
LEMMA EntryDone ==
  ASSUME PlainNames, HFTypes, NEW page \in Seq(DOMAIN HFOrder), NEW k \in Nat,
         k < Len(page), NEW r, Walk(page, k, r), NEW p, p = HFOrder[page[k + 1]]
  PROVE  Leaves(page, k, p)
<1>1. /\ page[k + 1] \in DOMAIN HFOrder /\ k + 1 \in DOMAIN page /\ k + 1 \in Nat
      /\ repository \in DOMAIN Repositories /\ Len(page) \in Nat
  BY DEF HFTypes
<1>2. p \in Paths /\ p \in Seq(STRING) /\ SharedPath \in Seq(STRING)
  BY <1>1, RepositoryIs
<1>3. p \in tree /\ IsStrictPrefix(SharedPath, p)
  BY <1>1 DEF Walk, Place
<1>4. /\ Len(SharedPath) \in Nat /\ Len(p) \in Nat /\ Len(SharedPath) < Len(p)
      /\ p # <<>> /\ IsPrefix(SharedPath, p)
  <2>1. /\ Len(SharedPath) \in Nat /\ Len(p) \in Nat /\ Len(SharedPath) < Len(p)
    BY <1>2, <1>3, StrictPrefix
  <2>2. QED
    BY <1>3, <2>1 DEF IsStrictPrefix
<1>5. p \in AtOrUnder(p)
  <2>1. Len(p) <= Len(p)
    BY <1>4
  <2>2. IsPrefix(p, p)
    BY <1>2, <2>1, Prefix
  <2>3. QED
    BY <1>2, <2>2 DEF AtOrUnder
<1>6. Under(p) \subseteq AtOrUnder(p)
  BY DEF Under, AtOrUnder, IsStrictPrefix
<1>7. ASSUME NEW q \in AtOrUnder(p), q # p PROVE q \in Under(p) /\ p \in Dirs
  <2>1. q \in Paths /\ q \in Seq(STRING) /\ IsPrefix(p, q)
    BY <1>1, RepositoryIs DEF AtOrUnder
  <2>2. IsStrictPrefix(p, q)
    BY <1>7, <2>1 DEF IsStrictPrefix
  <2>3. q \in Under(p)
    BY <2>1, <2>2 DEF Under
  <2>4. Len(p) < Len(q) /\ Len(q) \in Nat /\ \A i \in 1 .. Len(p) : p[i] = q[i]
    BY <1>2, <2>1, <2>2, StrictPrefix
  <2>5. IsStrictPrefix(SharedPath, q)
    BY <1>2, <1>4, <2>1, <2>2, Longer
  <2>6. SubSeq(q, 1, Len(p)) = p
    <3>1. /\ SubSeq(q, 1, Len(p)) \in Seq(STRING) /\ Len(SubSeq(q, 1, Len(p))) = Len(p)
          /\ \A i \in 1 .. Len(p) : SubSeq(q, 1, Len(p))[i] = q[i]
      BY <1>4, <2>1, <2>4
    <3>2. QED
      BY <1>2, <2>4, <3>1
  <2>7. Len(p) \in Len(SharedPath) + 1 .. Len(q) - 1
    BY <1>4, <2>4
  <2>8. SubSeq(q, 1, Len(p)) \in Dirs
    BY <1>1, <2>1, <2>5, <2>7, RepositoryIs
  <2>9. QED
    BY <2>3, <2>6, <2>8
<1>8. \A x : x \in OnPage(page, k) <=>
        \E e \in k + 1 .. Len(page) : x \in AtOrUnder(HFOrder[page[e]])
  BY DEF OnPage
<1>9. \A x : x \in OnPage(page, k + 1)
               <=> \E e \in (k + 1) + 1 .. Len(page) : x \in AtOrUnder(HFOrder[page[e]])
  BY DEF OnPage
<1>10. /\ k + 1 \in k + 1 .. Len(page)
       /\ \A e \in (k + 1) + 1 .. Len(page) : e \in k + 1 .. Len(page) /\ e # k + 1
       /\ \A e \in k + 1 .. Len(page) : e = k + 1 \/ e \in (k + 1) + 1 .. Len(page)
  BY <1>1
<1>11. OnPage(page, k) = AtOrUnder(p) \cup OnPage(page, k + 1)
  <2>1. \A x : x \in OnPage(page, k) <=> x \in AtOrUnder(p) \/ x \in OnPage(page, k + 1)
    BY <1>8, <1>9, <1>10
  <2>2. QED
    BY <2>1
<1>12. /\ OnPage(page, k) \cap NextOn = {} /\ OnPage(page, k) \cap InDirs = {}
       /\ \A d, e \in k + 1 .. Len(page) : d # e =>
            AtOrUnder(HFOrder[page[d]]) \cap AtOrUnder(HFOrder[page[e]]) = {}
  BY DEF Walk, HFApart
<1>13. AtOrUnder(p) \cap OnPage(page, k + 1) = {}
  <2>1. ASSUME NEW x \in AtOrUnder(p), x \in OnPage(page, k + 1) PROVE FALSE
    <3>1. PICK e \in (k + 1) + 1 .. Len(page) : x \in AtOrUnder(HFOrder[page[e]])
      BY <1>9, <2>1
    <3>2. e \in k + 1 .. Len(page) /\ e # k + 1 /\ k + 1 \in k + 1 .. Len(page)
      BY <1>10
    <3>3. AtOrUnder(HFOrder[page[k + 1]]) \cap AtOrUnder(HFOrder[page[e]]) = {}
      BY <1>12, <3>2
    <3>4. QED
      BY <2>1, <3>1, <3>3
  <2>2. QED
    BY <2>1
<1>14. AtOrUnder(p) \cap (OnPage(page, k + 1) \cup NextOn \cup InDirs) = {}
  BY <1>11, <1>12, <1>13
<1>15. QED
  <2>1. \A q \in AtOrUnder(p) : q = p \/ (q \in Under(p) /\ p \in Dirs)
    BY <1>7
  <2>2. QED
    BY <1>2, <1>3, <1>4, <1>5, <1>6, <1>11, <1>14, <2>1 DEF Leaves

\* A file is found.
LEMMA FileFound ==
  ASSUME PlainNames, HFTypes, HFTypes', repository' = repository,
         UNCHANGED <<tree, dirs, next_page_url>>,
         NEW page \in Seq(DOMAIN HFOrder), NEW k \in Nat, k < Len(page),
         NEW r, Walk(page, k, r), NEW p, p = HFOrder[page[k + 1]], IsFile(p),
         files' = Append(files, p), Place(page, k + 1, 0)', pc' \in {"loop", "request", "parse"}
  PROVE  HFInv'
<1>1. /\ HFOrder' = HFOrder /\ Late' = Late /\ Paths' = Paths
      /\ \A q : IsFile(q)' <=> IsFile(q)
      /\ OnPage(page, k + 1)' = OnPage(page, k + 1)
      /\ NextOn' = NextOn /\ InDirs' = InDirs
  BY SameRepository DEF NextOn, InDirs
<1>2. /\ p \in Paths /\ p \in tree /\ p \in AtOrUnder(p)
      /\ \A q \in AtOrUnder(p) : q = p \/ (q \in Under(p) /\ p \in Dirs)
      /\ OnPage(page, k) = AtOrUnder(p) \cup OnPage(page, k + 1)
      /\ AtOrUnder(p) \cap (OnPage(page, k + 1) \cup NextOn \cup InDirs) = {}
  <2>1. Leaves(page, k, p)
    BY EntryDone
  <2>2. QED
    BY <2>1 DEF Leaves
<1>3. /\ Found(page, k) /\ Awaited(page, k) /\ HFApart(page, k)
  BY DEF Walk
<1>4. p \notin Dirs
  BY DEF IsFile, TypeOf
<1>5. Unlisted(page, k + 1)' = OnPage(page, k + 1) \cup NextOn \cup InDirs
  BY <1>1 DEF Unlisted
<1>6. Unlisted(page, k) = {p} \cup (OnPage(page, k + 1) \cup NextOn \cup InDirs)
  BY <1>2, <1>4 DEF Unlisted
<1>7. p \notin OnPage(page, k + 1) \cup NextOn \cup InDirs
  BY <1>2
<1>8. /\ files \in Seq(Paths) /\ Len(files) \in Nat /\ DOMAIN files = 1 .. Len(files)
      /\ DOMAIN files' = 1 .. Len(files) + 1
      /\ files'[Len(files) + 1] = p /\ \A i \in 1 .. Len(files) : files'[i] = files[i]
      /\ \A i \in 1 .. Len(files) + 1 : i = Len(files) + 1 \/ i \in 1 .. Len(files)
  <2>1. files \in Seq(Paths)
    BY DEF HFTypes
  <2>2. QED
    BY <1>2, <2>1
<1>9. Range(files') = Range(files) \cup {p}
  <2>1. \A x : x \in Range(files') <=> \E i \in 1 .. Len(files) + 1 : files'[i] = x
    BY <1>8 DEF Range
  <2>2. \A x : x \in Range(files) <=> \E i \in 1 .. Len(files) : files[i] = x
    BY <1>8 DEF Range
  <2>3. Len(files) + 1 \in 1 .. Len(files) + 1 /\ 1 .. Len(files) \subseteq 1 .. Len(files) + 1
    BY <1>8
  <2>4. \A x : x \in Range(files') <=> x \in Range(files) \/ x = p
    BY <1>8, <2>1, <2>2, <2>3
  <2>5. QED
    BY <2>4
<1>10. p \notin Range(files)
  BY <1>3, <1>6 DEF Found
<1>11. IsInjective(files')
  <2>1. IsInjective(files)
    BY <1>3 DEF Found
  <2>2. \A i, j \in 1 .. Len(files) : files[i] = files[j] => i = j
    BY <1>8, <2>1 DEF IsInjective
  <2>3. \A i \in 1 .. Len(files) : files[i] # p
    BY <1>8, <1>10 DEF Range
  <2>4. \A i, j \in 1 .. Len(files) + 1 : files'[i] = files'[j] => i = j
    BY <1>8, <2>2, <2>3
  <2>5. QED
    BY <1>8, <2>4 DEF IsInjective
<1>12. Found(page, k + 1)'
  <2>1. \A q \in Range(files) : q \in tree /\ IsFile(q) /\ q \notin Unlisted(page, k)
    BY <1>3 DEF Found
  <2>2. \A q \in Range(files') :
          q \in tree' /\ IsFile(q)' /\ q \notin Unlisted(page, k + 1)'
    BY <1>1, <1>2, <1>5, <1>6, <1>7, <1>9, <2>1
  <2>3. (IsInjective(files))'
    BY <1>11 DEF IsInjective
  <2>4. (Range(files))' = Range(files')
    BY DEF Range
  <2>5. QED
    BY <2>2, <2>3, <2>4 DEF Found
<1>13. Awaited(page, k + 1)'
  <2>1. \A q \in Paths \ Late : IsFile(q) /\ IsStrictPrefix(SharedPath, q) =>
          q \in Range(files) \/ q \in Unlisted(page, k)
    BY <1>3 DEF Awaited
  <2>2. \A q \in Paths \ Late : IsFile(q) /\ IsStrictPrefix(SharedPath, q) =>
          q \in Range(files') \/ q \in Unlisted(page, k + 1)'
    BY <1>5, <1>6, <1>9, <2>1
  <2>3. (Range(files))' = Range(files')
    BY DEF Range
  <2>4. QED
    BY <1>1, <2>2, <2>3 DEF Awaited
<1>14. HFApart(page, k + 1)'
  <2>1. /\ NextOn \cap InDirs = {} /\ OnPage(page, k) \cap NextOn = {}
        /\ OnPage(page, k) \cap InDirs = {}
        /\ \A i, j \in DOMAIN dirs : i # j => Under(dirs[i]) \cap Under(dirs[j]) = {}
        /\ \A d, e \in k + 1 .. Len(page) : d # e =>
             AtOrUnder(HFOrder[page[d]]) \cap AtOrUnder(HFOrder[page[e]]) = {}
    BY <1>3 DEF HFApart
  <2>2. (k + 1) + 1 .. Len(page) \subseteq k + 1 .. Len(page)
    OBVIOUS
  <2>3. \A d, e \in (k + 1) + 1 .. Len(page) : d # e =>
          AtOrUnder(HFOrder[page[d]]) \cap AtOrUnder(HFOrder[page[e]]) = {}
    BY <2>1, <2>2
  <2>4. /\ OnPage(page, k + 1) \cap NextOn' = {} /\ OnPage(page, k + 1) \cap InDirs' = {}
        /\ NextOn' \cap InDirs' = {}
    BY <1>1, <1>2, <2>1
  <2>5. \A i, j \in DOMAIN dirs' : i # j => Under(dirs'[i]) \cap Under(dirs'[j]) = {}
    BY <2>1
  <2>6. QED
    BY <2>3, <2>4, <2>5, ApartNext
<1>15. Walk(page, k + 1, 0)'
  BY <1>12, <1>13, <1>14 DEF Walk
<1>16. page \in Seq(DOMAIN HFOrder)' /\ k + 1 \in Nat /\ 0 \in Nat
  BY <1>1
<1>17. QED
  BY <1>15, <1>16 DEF HFInv

\* A directory is found.
LEMMA DirectoryFound ==
  ASSUME PlainNames, HFTypes, HFTypes', repository' = repository,
         UNCHANGED <<tree, files, next_page_url>>,
         NEW page \in Seq(DOMAIN HFOrder), NEW k \in Nat, k < Len(page),
         NEW r, Walk(page, k, r), NEW p, p = HFOrder[page[k + 1]], ~IsFile(p),
         dirs' = Append(dirs, p), Place(page, k + 1, 0)', pc' \in {"loop", "request", "parse"}
  PROVE  HFInv'
<1>1. NextOn' = NextOn /\ InDirs' = UNION {Under(dirs'[i]) : i \in DOMAIN dirs'}
  BY SameRepository DEF NextOn
<1>2. Leaves(page, k, p)
  BY EntryDone
<1>3. /\ p \in Seq(STRING) /\ Under(p) \subseteq AtOrUnder(p)
      /\ \A q \in AtOrUnder(p) : q = p \/ q \in Under(p)
      /\ OnPage(page, k) = AtOrUnder(p) \cup OnPage(page, k + 1)
      /\ AtOrUnder(p) \cap (OnPage(page, k + 1) \cup NextOn \cup InDirs) = {}
  BY <1>2 DEF Leaves
<1>4. /\ NextOn \cap InDirs = {} /\ OnPage(page, k) \cap NextOn = {}
      /\ OnPage(page, k) \cap InDirs = {}
      /\ \A i, j \in DOMAIN dirs : i # j => Under(dirs[i]) \cap Under(dirs[j]) = {}
      /\ \A d, e \in k + 1 .. Len(page) : d # e =>
           AtOrUnder(HFOrder[page[d]]) \cap AtOrUnder(HFOrder[page[e]]) = {}
  BY DEF Walk, HFApart
<1>5. /\ DOMAIN dirs = 1 .. Len(dirs) /\ Len(dirs) \in Nat
      /\ DOMAIN dirs' = 1 .. Len(dirs) + 1
      /\ dirs'[Len(dirs) + 1] = p /\ \A i \in DOMAIN dirs : dirs'[i] = dirs[i]
      /\ \A i \in DOMAIN dirs' : i = Len(dirs) + 1 \/ i \in DOMAIN dirs
      /\ Len(dirs) + 1 \in DOMAIN dirs' /\ DOMAIN dirs \subseteq DOMAIN dirs'
  <2>1. dirs \in Seq(Seq(STRING))
    BY DEF HFTypes
  <2>2. QED
    BY <1>3, <2>1
<1>6. InDirs' = InDirs \cup Under(p)
  <2>1. \A x : x \in InDirs' <=> \E i \in DOMAIN dirs' : x \in Under(dirs'[i])
    BY <1>1
  <2>2. \A x : x \in InDirs <=> \E i \in DOMAIN dirs : x \in Under(dirs[i])
    BY DEF InDirs
  <2>3. \A x : x \in InDirs' <=> x \in InDirs \/ x \in Under(p)
    BY <1>5, <2>1, <2>2
  <2>4. QED
    BY <2>3
<1>7. HFApart(page, k + 1)'
  <2>1. (k + 1) + 1 .. Len(page) \subseteq k + 1 .. Len(page)
    OBVIOUS
  <2>2. \A d, e \in (k + 1) + 1 .. Len(page) : d # e =>
          AtOrUnder(HFOrder[page[d]]) \cap AtOrUnder(HFOrder[page[e]]) = {}
    BY <1>4, <2>1
  <2>3. OnPage(page, k + 1) \cap NextOn' = {} /\ OnPage(page, k + 1) \cap InDirs' = {}
    BY <1>1, <1>3, <1>4, <1>6
  <2>4. NextOn' \cap InDirs' = {}
    BY <1>1, <1>3, <1>4, <1>6
  <2>5. \A i \in DOMAIN dirs : Under(dirs[i]) \cap Under(p) = {}
    BY <1>3 DEF InDirs
  <2>6. \A i, j \in DOMAIN dirs' : i # j => Under(dirs'[i]) \cap Under(dirs'[j]) = {}
    <3>1. ASSUME NEW i \in DOMAIN dirs', NEW j \in DOMAIN dirs', i # j
          PROVE  Under(dirs'[i]) \cap Under(dirs'[j]) = {}
      <4>1. CASE i \in DOMAIN dirs /\ j \in DOMAIN dirs
        BY <1>4, <1>5, <3>1, <4>1
      <4>2. CASE i = Len(dirs) + 1 /\ j \in DOMAIN dirs
        BY <1>5, <2>5, <4>2
      <4>3. CASE i \in DOMAIN dirs /\ j = Len(dirs) + 1
        BY <1>5, <2>5, <4>3
      <4>4. QED
        BY <1>5, <3>1, <4>1, <4>2, <4>3
    <3>2. QED
      BY <3>1
  <2>7. QED
    BY <2>2, <2>3, <2>4, <2>6, ApartNext
<1>8. OnPage(page, k + 1) \cup NextOn' \cup InDirs' \subseteq Unlisted(page, k)
  BY <1>1, <1>3, <1>6 DEF Unlisted
<1>9. \A q \in Unlisted(page, k) :
        q \in OnPage(page, k + 1) \cup NextOn' \cup InDirs' \/ q \in Late \/ ~IsFile(q)
  BY <1>1, <1>3, <1>6 DEF Unlisted
<1>10. Found(page, k) /\ Awaited(page, k) /\ k + 1 \in Nat /\ 0 \in Nat /\ tree \subseteq tree'
  BY DEF Walk
<1>11. QED
  BY <1>7, <1>8, <1>9, <1>10, GoesOn

\* The end of an entry.
LEMMA ScanEntryStep ==
  ASSUME PlainNames, HFInv, ScanEntry, repository' = repository
  PROVE  HFInv'
<1>1. PICK page \in Seq(DOMAIN HFOrder), k \in Nat, r \in Nat : Walk(page, k, r)
  BY DEF HFInv, ScanEntry
<1>2. /\ HFTypes /\ Place(page, k, r) /\ pc = "parse" /\ response # <<>>
      /\ EndsEntry(scanner, Head(response))
      /\ scanner' = NewScanner /\ response' = Tail(response)
      /\ UNCHANGED <<hf_pattern, tree, next_page_url>>
  BY <1>1 DEF HFInv, Walk, ScanEntry, Cleared
<1>3. PICK p : p = HFOrder[page[k + 1]]
  OBVIOUS
<1>4. /\ k \in 0 .. Len(page) /\ k # Len(page) /\ k < Len(page) /\ k + 1 \in DOMAIN page
      /\ r \in 0 .. 5
      /\ Head(response) = Entry(p)[r + 1]
      /\ Tail(response) = SubSeq(Tokens(page), 6 * k + r + 2, 6 * Len(page))
  <2>1. k \in 0 .. Len(page) /\ r \in 0 .. 5 /\ k # Len(page)
    BY <1>2, TokenAhead
  <2>2. k < Len(page) /\ k + 1 \in DOMAIN page
    BY <2>1
  <2>3. QED
    BY <1>2, <1>3, <2>1, <2>2, TokenAhead
<1>5. p \in Seq(STRING) /\ Written[p] = p /\ p \in Paths
  <2>1. page[k + 1] \in DOMAIN HFOrder
    BY <1>4
  <2>2. QED
    BY <1>2, <1>3, <2>1, RepositoryIs DEF HFTypes
<1>6. (r = 0 => scanner = NewScanner) /\ (r > 0 => scanner = ScannerAt(p, r))
  BY <1>2, <1>3 DEF Place
<1>7. r = 5 /\ scanner = ScannerAt(p, 5)
  <2>1. EndsEntry(scanner, Entry(p)[r + 1]) <=> r = 5
    BY <1>4, <1>5, <1>6, ScannerStep
  <2>2. r = 5 /\ r > 0
    BY <1>2, <1>4, <2>1
  <2>3. QED
    BY <1>6, <2>2
<1>8. scanner.type = TypeOf(p) /\ scanner.path = p
  BY <1>7 DEF ScannerAt
<1>9. ASSUME pc' = "parse" PROVE Place(page, k + 1, 0)'
  <2>1. HFOrder' = HFOrder /\ Tokens(page)' = Tokens(page) /\ NewScanner' = NewScanner
    BY SameRepository, SameEntries DEF NewScanner
  <2>2. 6 * (k + 1) + 0 + 1 = 6 * k + r + 2 /\ k + 1 \in 0 .. Len(page) /\ 0 \in 0 .. 5 /\ ~(0 > 0)
    BY <1>4, <1>7
  <2>3. /\ page \in Seq(DOMAIN HFOrder)
        /\ \A e \in DOMAIN page :
             HFOrder[page[e]] \in tree /\ IsStrictPrefix(SharedPath, HFOrder[page[e]])
    BY <1>2 DEF Place
  <2>4. response' = SubSeq(Tokens(page), 6 * (k + 1) + 0 + 1, 6 * Len(page))
    BY <1>2, <1>4, <2>2
  <2>5. QED
    BY <1>2, <1>9, <2>1, <2>2, <2>3, <2>4 DEF Place
<1>10. Leaves(page, k, p)
  BY <1>1, <1>2, <1>3, <1>4, EntryDone
<1>11. ASSUME files' \in Seq(Paths), dirs' \in Seq(Seq(STRING)),
              \A i \in DOMAIN dirs' : IsPrefix(SharedPath, dirs'[i])
       PROVE  HFTypes'
  <2>1. Late' = Late /\ Paths' = Paths /\ HFPatterns' = HFPatterns /\ NoUrl' = NoUrl
    BY SameRepository DEF NoUrl
  <2>2. QED
    BY <1>2, <1>11, <2>1 DEF HFTypes
<1>12. /\ files \in Seq(Paths) /\ dirs \in Seq(Seq(STRING))
       /\ \A i \in DOMAIN dirs : IsPrefix(SharedPath, dirs[i])
  BY <1>2 DEF HFTypes
<1>13. CASE scanner.type = "file" /\ files' = Append(files, scanner.path) /\ UNCHANGED <<dirs, pc>>
  <2>1. files' = Append(files, p) /\ IsFile(p)
    BY <1>8, <1>13 DEF IsFile
  <2>2. files' \in Seq(Paths)
    BY <1>5, <1>12, <2>1
  <2>3. HFTypes'
    BY <1>11, <1>12, <1>13, <2>2
  <2>4. pc' \in {"loop", "request", "parse"} /\ UNCHANGED <<tree, dirs, next_page_url>>
    BY <1>2, <1>13
  <2>5. Place(page, k + 1, 0)'
    BY <1>2, <1>9, <1>13
  <2>6. QED
    BY <1>1, <1>2, <1>3, <1>4, <2>1, <2>3, <2>4, <2>5, FileFound
<1>14. CASE /\ scanner.type = "directory"
            /\ dirs' = WithDir(dirs, scanner.path) /\ UNCHANGED <<files, pc>>
  <2>1. dirs' = Append(dirs, p) /\ ~IsFile(p)
    BY <1>8, <1>14 DEF IsFile, WithDir
  <2>2. dirs' \in Seq(Seq(STRING)) /\ \A i \in DOMAIN dirs' : IsPrefix(SharedPath, dirs'[i])
    <3>1. IsPrefix(SharedPath, p)
      BY <1>10 DEF Leaves
    <3>2. \A i \in DOMAIN dirs' : dirs'[i] = p \/ (i \in DOMAIN dirs /\ dirs'[i] = dirs[i])
      <4>1. /\ DOMAIN dirs = 1 .. Len(dirs) /\ DOMAIN dirs' = 1 .. Len(dirs) + 1
            /\ dirs'[Len(dirs) + 1] = p /\ \A i \in 1 .. Len(dirs) : dirs'[i] = dirs[i]
            /\ Len(dirs) \in Nat
        BY <1>5, <1>12, <2>1
      <4>2. \A i \in 1 .. Len(dirs) + 1 : i = Len(dirs) + 1 \/ i \in 1 .. Len(dirs)
        BY <4>1
      <4>3. QED
        BY <4>1, <4>2
    <3>3. dirs' \in Seq(Seq(STRING))
      BY <1>5, <1>12, <2>1
    <3>4. QED
      BY <1>12, <3>1, <3>2, <3>3
  <2>3. HFTypes'
    BY <1>11, <1>12, <1>14, <2>2
  <2>4. pc' \in {"loop", "request", "parse"} /\ UNCHANGED <<tree, files, next_page_url>>
    BY <1>2, <1>14
  <2>5. Place(page, k + 1, 0)'
    BY <1>2, <1>9, <1>14
  <2>6. QED
    BY <1>1, <1>2, <1>3, <1>4, <2>1, <2>3, <2>4, <2>5, DirectoryFound
<1>15. CASE pc' = "thrown" /\ UNCHANGED <<files, dirs>>
  <2>1. HFTypes'
    BY <1>11, <1>12, <1>15
  <2>2. QED
    BY <1>15, <2>1, ThrownStep
<1>16. QED
  BY <1>13, <1>14, <1>15 DEF ScanEntry

\* Nothing is to be listed any more: what was found and matches is the result.
LEMMA FinishStep ==
  ASSUME PlainNames, HFInv, Finish, repository' = repository
  PROVE  HFInv'
<1>1. PICK page \in Seq(DOMAIN HFOrder), k \in Nat, r \in Nat : Walk(page, k, r)
  BY DEF HFInv, Finish
<1>2. /\ HFTypes /\ Place(page, k, r) /\ Found(page, k) /\ Awaited(page, k)
      /\ pc = "loop" /\ pc' = "done" /\ next_page_url = NoUrl /\ dirs = <<>>
      /\ UNCHANGED <<hf_pattern, tree, dirs, next_page_url>>
  BY <1>1 DEF HFInv, Walk, Finish
<1>3. Unlisted(page, k) = {}
  <2>1. OnPage(page, k) = {}
    BY <1>2, NothingOnPage
  <2>2. NextOn = {}
    BY <1>2 DEF NextOn
  <2>3. InDirs = {}
    BY <1>2 DEF InDirs
  <2>4. QED
    BY <2>1, <2>2, <2>3 DEF Unlisted
<1>4. /\ repository \in DOMAIN Repositories /\ hf_pattern \in HFPatterns
      /\ files \in Seq(Paths)
  BY <1>2 DEF HFTypes
<1>5. PICK matching : matching = {i \in DOMAIN files : HFMatch(files[i], hf_pattern)}
  OBVIOUS
<1>6. PICK kept : kept = Increasing(matching)
  OBVIOUS
<1>7. files' = [n \in DOMAIN kept |-> files[kept[n]]]
  <2>1. matching = {i \in DOMAIN files : HFMatch(files[i], hf_pattern)}
    BY <1>5
  <2>2. QED
    BY <1>6, <2>1 DEF Finish
<1>8. /\ DOMAIN files = 1 .. Len(files) /\ Len(files) \in Nat
      /\ matching \in SUBSET (1 .. Len(files))
  BY <1>4, <1>5
<1>9. /\ kept \in Seq(matching) /\ DOMAIN kept = 1 .. Len(kept) /\ Len(kept) \in Nat
      /\ \A i, j \in DOMAIN kept : i < j => kept[i] < kept[j]
      /\ \A x \in matching : \E i \in DOMAIN kept : kept[i] = x
  <2>1. InOrder(kept, matching)
    BY <1>6, <1>8, IncreasingIs
  <2>2. QED
    BY <2>1 DEF InOrder
<1>10. ASSUME NEW n \in DOMAIN kept
       PROVE  /\ kept[n] \in matching /\ kept[n] \in DOMAIN files /\ kept[n] \in Nat
              /\ files'[n] = files[kept[n]] /\ files'[n] \in Paths
              /\ HFMatch(files'[n], hf_pattern) /\ files'[n] \in Range(files)
  <2>1. kept[n] \in matching
    BY <1>9
  <2>2. kept[n] \in DOMAIN files /\ HFMatch(files[kept[n]], hf_pattern) /\ kept[n] \in Nat
    BY <1>5, <1>8, <2>1
  <2>3. files'[n] = files[kept[n]]
    BY <1>7
  <2>4. files[kept[n]] \in Paths /\ files[kept[n]] \in Range(files)
    BY <1>4, <2>2 DEF Range
  <2>5. QED
    BY <2>1, <2>2, <2>3, <2>4
<1>11. files' \in Seq(Paths) /\ DOMAIN files' = DOMAIN kept
  BY <1>7, <1>9, <1>10
<1>12. HFOrder' = HFOrder /\ Late' = Late /\ Paths' = Paths /\ HFPatterns' = HFPatterns
       /\ \A p : IsFile(p)' <=> IsFile(p)
  BY SameRepository
<1>13. HFTypes'
  <2>1. NoUrl' = NoUrl
    BY DEF NoUrl
  <2>2. QED
    BY <1>2, <1>11, <1>12, <2>1 DEF HFTypes
<1>14. \A p \in Paths : HFMatch(p, hf_pattern) <=> Matches(p, hf_pattern)
  <2>1. hf_pattern \in Seq(SUBSET STRING)
    BY <1>4, RepositoryIs
  <2>2. \A p \in Paths : p \in Seq(STRING)
    BY <1>4, RepositoryIs
  <2>3. QED
    BY <2>1, <2>2, HFMatchIsExact
<1>15. ASSUME NEW p \in Paths \ Late, IsFile(p), Matches(p, hf_pattern)
       PROVE  p \in Range(files')
  <2>1. IsStrictPrefix(SharedPath, p)
    BY <1>4, <1>15, RepositoryIs
  <2>2. p \in Range(files)
    BY <1>2, <1>3, <1>15, <2>1 DEF Awaited
  <2>3. PICK i \in DOMAIN files : files[i] = p
    BY <2>2 DEF Range
  <2>4. i \in matching
    BY <1>5, <1>14, <1>15, <2>3
  <2>5. PICK n \in DOMAIN kept : kept[n] = i
    BY <1>9, <2>4
  <2>6. files'[n] = p
    BY <1>10, <2>3, <2>5
  <2>7. QED
    BY <1>11, <2>5, <2>6 DEF Range
<1>16. IsInjective(files')
  <2>1. ASSUME NEW m \in DOMAIN kept, NEW n \in DOMAIN kept, files'[m] = files'[n] PROVE m = n
    <3>1. kept[m] = kept[n]
      BY <1>2, <1>10, <2>1 DEF Found, IsInjective
    <3>2. kept[m] \in Nat /\ kept[n] \in Nat /\ m \in Nat /\ n \in Nat
      BY <1>9, <1>10
    <3>3. ~(m < n) /\ ~(n < m)
      BY <1>9, <3>1, <3>2
    <3>4. QED
      BY <3>2, <3>3
  <2>2. QED
    BY <1>11, <2>1 DEF IsInjective
<1>17. \A p \in Range(files') : p \in tree /\ IsFile(p) /\ Matches(p, hf_pattern)
  <2>1. ASSUME NEW n \in DOMAIN files'
        PROVE  files'[n] \in tree /\ IsFile(files'[n]) /\ Matches(files'[n], hf_pattern)
    BY <1>2, <1>10, <1>11, <1>14 DEF Found
  <2>2. QED
    BY <2>1 DEF Range
<1>18. FilesAreExact'
  <2>1. \A p : HFWanted(p)' <=> IsFile(p) /\ Matches(p, hf_pattern)
    <3>1. \A p : Matches(p, hf_pattern)' <=> Matches(p, hf_pattern)
      BY <1>2 DEF Matches
    <3>2. QED
      BY <1>12, <3>1 DEF HFWanted
  <2>2. Range(HFOrder)' = Paths
    BY <1>12 DEF Range, Paths
  <2>3. Range(files)' = Range(files') /\ (IsInjective(files)' <=> IsInjective(files'))
    BY DEF Range, IsInjective
  <2>4. QED
    BY <1>2, <1>12, <1>15, <1>16, <1>17, <2>1, <2>2, <2>3 DEF FilesAreExact
<1>19. QED
  BY <1>2, <1>13, <1>18 DEF HFInv

\* The first directory is to be listed.
LEMMA WalkBegins ==
  ASSUME PlainNames, HFInit
  PROVE  HFInv
<1>1. /\ repository \in DOMAIN Repositories /\ hf_pattern \in HFPatterns
      /\ tree = Paths \ Late /\ files = <<>> /\ dirs = <<SharedPath>>
      /\ next_page_url = NoUrl /\ pc = "loop"
  BY DEF HFInit, Paths
<1>2. SharedPath \in Seq(STRING) /\ Len(SharedPath) \in Nat
  BY <1>1, RepositoryIs
<1>3. dirs \in Seq(Seq(STRING)) /\ DOMAIN dirs = {1} /\ dirs[1] = SharedPath
  BY <1>1, <1>2
<1>4. NextOn = {} /\ InDirs = Under(SharedPath)
  BY <1>1, <1>3 DEF NextOn, InDirs
<1>5. 0 + 1 .. Len(<<>>) = {} /\ Len(<<>>) = 0 /\ <<>> \in Seq(DOMAIN HFOrder) /\ 0 \in Nat
  OBVIOUS
<1>6. OnPage(<<>>, 0) = {}
  BY <1>5 DEF OnPage
<1>7. HFTypes
  <2>1. IsPrefix(SharedPath, SharedPath)
    <3>1. Len(SharedPath) <= Len(SharedPath)
      BY <1>2
    <3>2. QED
      BY <1>2, <3>1, Prefix
  <2>2. NoUrl \in [dir : Seq(STRING), after : Nat \cup {-1}]
    <3>1. <<>> \in Seq(STRING) /\ -1 \in Nat \cup {-1}
      OBVIOUS
    <3>2. QED
      BY <3>1 DEF NoUrl
  <2>3. files \in Seq(Paths)
    BY <1>1
  <2>4. QED
    BY <1>1, <1>3, <2>1, <2>2, <2>3 DEF HFTypes
<1>8. Place(<<>>, 0, 0)
  BY <1>1, <1>5 DEF Place
<1>9. HFApart(<<>>, 0)
  <2>1. \A i, j \in DOMAIN dirs : i # j => Under(dirs[i]) \cap Under(dirs[j]) = {}
    BY <1>3
  <2>2. QED
    BY <1>4, <1>5, <1>6, <2>1 DEF HFApart
<1>10. Found(<<>>, 0)
  <2>1. DOMAIN files = {} /\ Range(files) = {}
    BY <1>1 DEF Range
  <2>2. QED
    BY <2>1 DEF Found, IsInjective
<1>11. Awaited(<<>>, 0)
  BY <1>4 DEF Awaited, Unlisted, Under
<1>12. Walk(<<>>, 0, 0)
  BY <1>8, <1>9, <1>10, <1>11 DEF Walk
<1>13. QED
  BY <1>1, <1>5, <1>7, <1>12 DEF HFInv

\* Every step of the walk.
LEMMA WalkGoesOn ==
  ASSUME PlainNames
  PROVE  (Streaming \/ HFInv) /\ [HFNext]_<<HFVars, repository>> => (Streaming \/ HFInv)'
<1> SUFFICES ASSUME Streaming \/ HFInv, [HFNext]_<<HFVars, repository>>
             PROVE  (Streaming \/ HFInv)'
  OBVIOUS
<1>1. repository' = repository
  BY DEF HFNext
<1>2. Streaming' <=> Streaming
  BY <1>1 DEF Streaming, Repository
<1>3. CASE Streaming
  BY <1>2, <1>3
<1>4. CASE HFInv /\ ~Streaming
  <2>1. CASE StartRequest
    BY <1>1, <1>4, <2>1, StartRequestStep
  <2>2. CASE RequestSucceeds
    BY <1>1, <1>4, <2>2, RequestSucceedsStep
  <2>3. CASE RequestBreaks
    BY <1>1, <1>4, <2>3, RequestBreaksStep
  <2>4. CASE HFRequestFails
    BY <1>1, <1>4, <2>4, RequestFailsHF
  <2>5. CASE ScanToken
    BY <1>1, <1>4, <2>5, ScanTokenStep
  <2>6. CASE ScanEntry
    BY <1>1, <1>4, <2>6, ScanEntryStep
  <2>7. CASE ParseListResultEnds
    BY <1>1, <1>4, <2>7, ParseListResultEndsStep
  <2>8. CASE Finish
    BY <1>1, <1>4, <2>8, FinishStep
  <2>9. CASE Commit
    BY <1>1, <1>4, <2>9, CommitStep
  <2>10. CASE UNCHANGED HFVars
    BY <1>1, <1>4, <2>10, HFStandsStill DEF HFVars
  <2>11. QED
    BY <2>1, <2>2, <2>3, <2>4, <2>5, <2>6, <2>7, <2>8, <2>9, <2>10 DEF HFNext, Glob
<1>5. QED
  BY <1>3, <1>4

\* A glob with the curl client that returns has found exactly the matching files: every file
\* that was there all the time, none twice, and nothing else, whatever the pages, the order of
\* the directories, the commits and the attempts that broke, if no name has a quote.
THEOREM FilesAreExactByCurlHolds ==
  ASSUME PlainNames
  PROVE  HFSpec => []FilesAreExactByCurl
<1>1. HFInit => Streaming \/ HFInv
  BY WalkBegins
<1>2. (Streaming \/ HFInv) /\ [HFNext]_<<HFVars, repository>> => (Streaming \/ HFInv)'
  BY WalkGoesOn
<1>3. Streaming \/ HFInv => FilesAreExactByCurl
  BY DEF HFInv, FilesAreExactByCurl, FilesAreExact
<1>4. QED
  BY <1>1, <1>2, <1>3, PTL DEF HFSpec
=============================================================================
