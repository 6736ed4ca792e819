-------------------------- MODULE BaselineCheck_proofs --------------------------
(***************************************************************************)
(* The matcher of path patterns, the baseline and the CHECK: for paths and   *)
(* patterns of any length, any objects, contracts and amendments, and any     *)
(* number of steps of the user between any two of a command.                 *)
(***************************************************************************)
EXTENDS BaselineCheck, FiniteSetTheorems, WellFoundedInduction, TLAPS

\* Every nonempty set of naturals has a least element.
LEMMA LeastNatural ==
    ASSUME NEW T, T \subseteq Nat, T # {}
    PROVE  \E m \in T : \A n \in T : m <= n
  <1>1. PICK m \in T : \A n \in T : ~(<<n, m>> \in OpToRel(<, Nat))
    BY NatLessThanWellFounded, WFMin
  <1>2. \A n \in T : ~(n < m)
    BY <1>1 DEF OpToRel
  <1> QED
    BY <1>2

-----------------------------------------------------------------------------
(* The matcher is the glob language.                                        *)

StarLike(token) == token.kind \in {"star", "globstar"}

\* The first j tokens share out a stretch of the path that ends at q.
Shared(path, pattern, j, q) ==
    \E cut \in [0..j -> 0..Len(path)] :
        /\ cut[j] = q
        /\ StartsAt(path, pattern, cut[0])
        /\ \A k \in 1..j : /\ cut[k - 1] <= cut[k]
                           /\ Takes(pattern.tokens[k], path, cut[k - 1], cut[k])

\* What state j means at pos: the first j tokens are matched, and the one after
\* them, if it is a star, may have taken what lies between.
Holding(path, pattern, j, pos) ==
    \E q \in 0..pos :
        /\ Shared(path, pattern, j, q)
        /\ \/ q = pos
           \/ /\ j < Len(pattern.tokens)
              /\ StarLike(pattern.tokens[j + 1])
              /\ Takes(pattern.tokens[j + 1], path, q, pos)

Meaning(path, pattern) ==
    [pos \in 0..Len(path) |->
        {j \in 0..Len(pattern.tokens) : Holding(path, pattern, j, pos)}]

\* One step of the automaton, from the states R it was in before.
Arrives(R, path, pattern, pos) ==
    addEmptyTransitions(
        (IF StartsAt(path, pattern, pos) THEN {0} ELSE {})
        \cup (IF pos = 0 THEN {}
              ELSE Advance(R[pos - 1], pattern.tokens, path[pos])),
        pattern.tokens)
IsRun(R, path, pattern) == R = [pos \in 0..Len(path) |-> Arrives(R, path, pattern, pos)]

Text(path, pattern) == Len(path) \in Nat /\ Len(pattern.tokens) \in Nat

LEMMA SharedStarts ==
    ASSUME NEW path, NEW pattern, Text(path, pattern), NEW pos \in 0..Len(path),
           StartsAt(path, pattern, pos)
    PROVE  Shared(path, pattern, 0, pos)
  <1> DEFINE cut == [k \in 0..0 |-> pos]
  <1>1. cut \in [0..0 -> 0..Len(path)] /\ cut[0] = pos
    OBVIOUS
  <1>2. 1..0 = {}
    OBVIOUS
  <1> HIDE DEF cut
  <1> QED
    BY <1>1, <1>2 DEF Shared

LEMMA SharedExtends ==
    ASSUME NEW path, NEW pattern, Text(path, pattern),
           NEW j \in 0..Len(pattern.tokens), j < Len(pattern.tokens),
           NEW q \in 0..Len(path), NEW r \in 0..Len(path), q <= r,
           Shared(path, pattern, j, q), Takes(pattern.tokens[j + 1], path, q, r)
    PROVE  Shared(path, pattern, j + 1, r)
  <1>1. PICK cut \in [0..j -> 0..Len(path)] :
           /\ cut[j] = q
           /\ StartsAt(path, pattern, cut[0])
           /\ \A k \in 1..j : /\ cut[k - 1] <= cut[k]
                              /\ Takes(pattern.tokens[k], path, cut[k - 1], cut[k])
    BY DEF Shared
  <1> DEFINE longer == [k \in 0..(j + 1) |-> IF k <= j THEN cut[k] ELSE r]
  <1>2. longer \in [0..(j + 1) -> 0..Len(path)] /\ longer[j + 1] = r /\ longer[0] = cut[0]
    BY DEF Text
  <1>3. ASSUME NEW k \in 1..(j + 1)
        PROVE  /\ longer[k - 1] <= longer[k]
               /\ Takes(pattern.tokens[k], path, longer[k - 1], longer[k])
    <2>1. CASE k <= j
      <3>1. k \in 1..j /\ longer[k - 1] = cut[k - 1] /\ longer[k] = cut[k]
        BY <2>1 DEF Text
      <3> QED
        BY <1>1, <3>1
    <2>2. CASE k = j + 1
      <3>1. longer[k - 1] = q /\ longer[k] = r
        BY <1>1, <2>2 DEF Text
      <3> QED
        BY <2>2, <3>1
    <2> QED
      BY <2>1, <2>2 DEF Text
  <1> HIDE DEF longer
  <1> QED
    BY <1>1, <1>2, <1>3 DEF Shared

LEMMA SharedRests ==
    ASSUME NEW path, NEW pattern, Text(path, pattern),
           NEW j \in 0..Len(pattern.tokens), NEW i \in 0..j, NEW q \in 0..Len(path),
           Shared(path, pattern, i, q), \A k \in (i + 1)..j : StarLike(pattern.tokens[k])
    PROVE  Shared(path, pattern, j, q)
  <1>1. PICK cut \in [0..i -> 0..Len(path)] :
           /\ cut[i] = q
           /\ StartsAt(path, pattern, cut[0])
           /\ \A k \in 1..i : /\ cut[k - 1] <= cut[k]
                              /\ Takes(pattern.tokens[k], path, cut[k - 1], cut[k])
    BY DEF Shared
  <1> DEFINE longer == [k \in 0..j |-> IF k <= i THEN cut[k] ELSE q]
  <1>2. longer \in [0..j -> 0..Len(path)] /\ longer[j] = q /\ longer[0] = cut[0]
    BY <1>1 DEF Text
  <1>3. ASSUME NEW k \in 1..j
        PROVE  /\ longer[k - 1] <= longer[k]
               /\ Takes(pattern.tokens[k], path, longer[k - 1], longer[k])
    <2>1. CASE k <= i
      <3>1. k \in 1..i /\ longer[k - 1] = cut[k - 1] /\ longer[k] = cut[k]
        BY <2>1 DEF Text
      <3> QED
        BY <1>1, <3>1
    <2>2. CASE k > i
      <3>1. longer[k - 1] = q /\ longer[k] = q /\ StarLike(pattern.tokens[k])
        BY <1>1, <2>2 DEF Text
      <3>2. Takes(pattern.tokens[k], path, q, q)
        BY <3>1 DEF Takes, StarLike
      <3> QED
        BY <3>1, <3>2
    <2> QED
      BY <2>1, <2>2 DEF Text
  <1> HIDE DEF longer
  <1> QED
    BY <1>1, <1>2, <1>3 DEF Shared

LEMMA TakesMore ==
    ASSUME NEW token, StarLike(token), NEW path, NEW q \in Nat, NEW pos \in Nat, q < pos
    PROVE  Takes(token, path, q, pos)
           <=> /\ q = pos - 1 \/ Takes(token, path, q, pos - 1)
               /\ token.kind = "globstar" \/ (token.kind = "star" /\ path[pos] # "/")
  <1>1. CASE token.kind = "globstar"
    BY <1>1 DEF Takes
  <1>2. CASE token.kind = "star"
    <2>1. Takes(token, path, q, pos) <=> \A k \in (q + 1)..pos : path[k] # "/"
      BY <1>2 DEF Takes
    <2>2. Takes(token, path, q, pos - 1) <=> \A k \in (q + 1)..(pos - 1) : path[k] # "/"
      BY <1>2 DEF Takes
    <2>3. (q + 1)..pos = ((q + 1)..(pos - 1)) \cup {pos}
      OBVIOUS
    <2>4. q = pos - 1 => (q + 1)..(pos - 1) = {}
      OBVIOUS
    <2> QED
      BY <1>2, <2>1, <2>2, <2>3, <2>4
  <1> QED
    BY <1>1, <1>2 DEF StarLike

\* What the states mean satisfies the equation of the automaton.
LEMMA MeaningArrives ==
    ASSUME NEW path, NEW pattern, Text(path, pattern), NEW pos \in 0..Len(path),
           NEW j \in 0..Len(pattern.tokens), Holding(path, pattern, j, pos)
    PROVE  j \in Arrives(Meaning(path, pattern), path, pattern, pos)
  <1> DEFINE tokens == pattern.tokens
             before == Meaning(path, pattern)[pos - 1]
  <1>1. PICK q \in 0..pos :
            /\ Shared(path, pattern, j, q)
            /\ q = pos \/ (j < Len(tokens) /\ StarLike(tokens[j + 1])
                             /\ Takes(tokens[j + 1], path, q, pos))
    BY DEF Holding
  <1>2. SUFFICES ASSUME TRUE
                 PROVE  \E i \in 0..j :
                            /\ \A k \in (i + 1)..j : StarLike(tokens[k])
                            /\ \/ i = 0 /\ StartsAt(path, pattern, pos)
                               \/ pos # 0 /\ i \in Advance(before, tokens, path[pos])
    BY DEF Arrives, addEmptyTransitions, StarLike, Text
  <1>3. CASE q < pos
    <2>1. /\ j < Len(tokens) /\ StarLike(tokens[j + 1]) /\ Takes(tokens[j + 1], path, q, pos)
      BY <1>1, <1>3
    <2>2. /\ q = pos - 1 \/ Takes(tokens[j + 1], path, q, pos - 1)
          /\ tokens[j + 1].kind = "globstar" \/ (tokens[j + 1].kind = "star" /\ path[pos] # "/")
      <3>1. q \in Nat /\ pos \in Nat
        BY DEF Text
      <3> QED
        BY <1>3, <2>1, <3>1, TakesMore
    <2>3. Holding(path, pattern, j, pos - 1)
      BY <1>1, <1>3, <2>1, <2>2 DEF Holding
    <2>4. j \in before
      BY <1>3, <2>3 DEF Meaning, Text
    <2>5. pos # 0 /\ j \in Advance(before, tokens, path[pos])
      BY <1>3, <2>1, <2>2, <2>4 DEF Advance, Text
    <2>6. (j + 1)..j = {}
      BY DEF Text
    <2> QED
      BY <2>5, <2>6
  <1>4. CASE q = pos
    <2>1. PICK cut \in [0..j -> 0..Len(path)] :
             /\ cut[j] = pos
             /\ StartsAt(path, pattern, cut[0])
             /\ \A k \in 1..j : /\ cut[k - 1] <= cut[k]
                                /\ Takes(tokens[k], path, cut[k - 1], cut[k])
      BY <1>1, <1>4 DEF Shared
    <2> DEFINE T == {i \in 0..j : \A k \in i..j : cut[k] = pos}
    <2>2. T \subseteq Nat /\ j \in T
      BY <2>1 DEF Text
    <2>3. PICK i \in T : \A n \in T : i <= n
      BY <2>2, LeastNatural
    <2>4. i \in 0..j /\ \A k \in i..j : cut[k] = pos
      BY <2>3
    <2> HIDE DEF T
    <2>5. ASSUME NEW k \in (i + 1)..j PROVE StarLike(tokens[k])
      <3>1. k \in 1..j /\ k - 1 \in i..j /\ k \in i..j
        BY <2>4 DEF Text
      <3>2. Takes(tokens[k], path, pos, pos)
        BY <2>1, <2>4, <3>1
      <3> QED
        BY <3>2 DEF Takes, StarLike
    <2>6. CASE i = 0
      <3>1. cut[0] = pos
        BY <2>4, <2>6 DEF Text
      <3> QED
        BY <2>1, <2>4, <2>5, <2>6, <3>1
    <2>7. CASE i # 0
      <3>1. i \in 1..j /\ i - 1 \in 0..j /\ cut[i - 1] \in 0..Len(path) /\ cut[i] = pos
        BY <2>1, <2>4, <2>7 DEF Text
      <3>2. cut[i - 1] <= pos /\ Takes(tokens[i], path, cut[i - 1], pos)
        BY <2>1, <3>1
      <3>3. cut[i - 1] # pos
        <4>1. SUFFICES ASSUME cut[i - 1] = pos PROVE i - 1 \in T
          BY <2>3, <2>2, <3>1 DEF Text
        <4>2. \A k \in (i - 1)..j : k = i - 1 \/ k \in i..j
          BY <3>1 DEF Text
        <4> QED
          BY <2>4, <3>1, <4>1, <4>2 DEF T
      <3> DEFINE r == cut[i - 1]
      <3>4. r \in 0..(pos - 1) /\ pos # 0 /\ r < pos /\ pos - 1 \in 0..Len(path)
        BY <3>1, <3>2, <3>3 DEF Text
      <3>5. Shared(path, pattern, i - 1, r)
        <4> DEFINE shorter == [k \in 0..(i - 1) |-> cut[k]]
        <4>1. shorter \in [0..(i - 1) -> 0..Len(path)] /\ shorter[i - 1] = r /\ shorter[0] = cut[0]
          BY <2>4, <3>1 DEF Text
        <4>2. ASSUME NEW k \in 1..(i - 1)
              PROVE  k \in 1..j /\ shorter[k - 1] = cut[k - 1] /\ shorter[k] = cut[k]
          BY <3>1 DEF Text
        <4> HIDE DEF shorter
        <4> QED
          BY <2>1, <4>1, <4>2 DEF Shared
      <3> HIDE DEF r
      <3>6. (i - 1) + 1 = i /\ i - 1 \in 0..Len(tokens) /\ i - 1 < Len(tokens) /\ i - 1 # Len(tokens)
        BY <3>1 DEF Text
      <3>7. CASE StarLike(tokens[i])
        <4>1. /\ r = pos - 1 \/ Takes(tokens[i], path, r, pos - 1)
              /\ tokens[i].kind = "globstar" \/ (tokens[i].kind = "star" /\ path[pos] # "/")
          <5>1. r \in Nat /\ pos \in Nat
            BY <3>4 DEF Text
          <5> QED
            BY <3>2, <3>4, <3>7, <5>1, TakesMore DEF r
        <4>2. Holding(path, pattern, i - 1, pos - 1)
          BY <3>4, <3>5, <3>6, <3>7, <4>1 DEF Holding
        <4>3. i - 1 \in before
          BY <3>4, <3>6, <4>2 DEF Meaning
        <4>4. i - 1 \in Advance(before, tokens, path[pos])
          BY <3>6, <4>1, <4>3 DEF Advance
        <4>5. \A k \in ((i - 1) + 1)..j : StarLike(tokens[k])
          <5>1. \A k \in i..j : k = i \/ k \in (i + 1)..j
            BY <3>1 DEF Text
          <5> QED
            BY <2>5, <3>6, <3>7, <5>1
        <4> QED
          BY <3>1, <3>4, <4>4, <4>5
      <3>8. CASE ~StarLike(tokens[i])
        <4>1. r = pos - 1 /\ matchesCharacter(tokens[i], path[pos])
          <5>1. Takes(tokens[i], path, r, pos)
            BY <3>2 DEF r
          <5>2. pos = r + 1 /\ matchesCharacter(tokens[i], path[pos])
            BY <3>8, <5>1, Zenon DEF Takes, StarLike
          <5>3. r \in Int /\ pos \in Int
            BY <3>4 DEF Text
          <5> QED
            BY <5>2, <5>3
        <4>2. Holding(path, pattern, i - 1, pos - 1)
          BY <3>4, <3>5, <4>1 DEF Holding
        <4>3. i - 1 \in before
          BY <3>4, <3>6, <4>2 DEF Meaning
        <4>4. i \in Advance(before, tokens, path[pos])
          BY <3>6, <4>1, <4>3 DEF Advance
        <4> QED
          BY <2>4, <2>5, <3>4, <4>4
      <3> QED
        BY <3>7, <3>8
    <2> QED
      BY <2>6, <2>7
  <1> QED
    BY <1>1, <1>3, <1>4

LEMMA ArrivesMeans ==
    ASSUME NEW path, NEW pattern, Text(path, pattern), NEW pos \in 0..Len(path),
           NEW j \in Arrives(Meaning(path, pattern), path, pattern, pos)
    PROVE  j \in 0..Len(pattern.tokens) /\ Holding(path, pattern, j, pos)
  <1> DEFINE tokens == pattern.tokens
             before == Meaning(path, pattern)[pos - 1]
  <1>1. j \in 0..Len(tokens)
    BY DEF Arrives, addEmptyTransitions
  <1>2. PICK i : /\ \/ StartsAt(path, pattern, pos) /\ i = 0
                    \/ pos # 0 /\ i \in Advance(before, tokens, path[pos])
                 /\ i <= j
                 /\ \A k \in (i + 1)..j : StarLike(tokens[k])
    BY DEF Arrives, addEmptyTransitions, StarLike
  <1>3. CASE StartsAt(path, pattern, pos) /\ i = 0
    <2>1. Shared(path, pattern, 0, pos)
      BY <1>3, SharedStarts
    <2>2. Shared(path, pattern, j, pos)
      <3>1. 0 \in 0..j
        BY <1>1
      <3> QED
        BY <1>1, <1>2, <1>3, <2>1, <3>1, SharedRests
    <2> QED
      BY <1>1, <2>2 DEF Holding
  <1>4. CASE pos # 0 /\ i \in Advance(before, tokens, path[pos])
    <2>1. pos - 1 \in 0..Len(path)
      BY <1>4 DEF Text
    <2>2. before = {k \in 0..Len(tokens) : Holding(path, pattern, k, pos - 1)}
      BY <2>1 DEF Meaning
    <2>3. CASE /\ i \in before \ {Len(tokens)}
               /\ tokens[i + 1].kind = "globstar" \/ (tokens[i + 1].kind = "star" /\ path[pos] # "/")
      <3>1. i \in 0..Len(tokens) /\ i < Len(tokens) /\ StarLike(tokens[i + 1])
        BY <2>2, <2>3 DEF StarLike, Text
      <3>2. PICK q \in 0..(pos - 1) :
               /\ Shared(path, pattern, i, q)
               /\ q = pos - 1 \/ Takes(tokens[i + 1], path, q, pos - 1)
        BY <2>2, <2>3 DEF Holding
      <3>3. q \in Nat /\ q < pos /\ q \in 0..Len(path) /\ pos \in Nat
        BY <1>4 DEF Text
      <3>4. Takes(tokens[i + 1], path, q, pos)
        BY <2>3, <3>1, <3>2, <3>3, TakesMore
      <3>5. CASE i = j
        BY <1>1, <3>1, <3>2, <3>3, <3>4, <3>5 DEF Holding
      <3>6. CASE i < j
        <4>1. Shared(path, pattern, i + 1, pos)
          BY <3>1, <3>2, <3>3, <3>4, SharedExtends
        <4>2. Shared(path, pattern, j, pos)
          <5>1. i + 1 \in 0..j /\ \A k \in ((i + 1) + 1)..j : k \in (i + 1)..j
            BY <1>1, <3>1, <3>6 DEF Text
          <5> QED
            BY <1>1, <1>2, <4>1, <5>1, SharedRests
        <4> QED
          BY <1>1, <4>2 DEF Holding
      <3> QED
        BY <1>1, <1>2, <3>1, <3>5, <3>6
    <2>4. CASE \E k \in before \ {Len(tokens)} : i = k + 1 /\ matchesCharacter(tokens[k + 1], path[pos])
      <3>1. PICK k \in before \ {Len(tokens)} :
                i = k + 1 /\ matchesCharacter(tokens[k + 1], path[pos])
        BY <2>4
      <3>2. k \in 0..Len(tokens) /\ k < Len(tokens) /\ i \in 0..j
        <4>1. k \in 0..Len(tokens)
          BY <2>2, <3>1
        <4> QED
          BY <1>1, <1>2, <3>1, <4>1 DEF Text
      <3>3. ~StarLike(tokens[k + 1])
        BY <3>1 DEF matchesCharacter, StarLike
      <3>4. Shared(path, pattern, k, pos - 1)
        BY <2>2, <3>1, <3>3 DEF Holding
      <3>5. Takes(tokens[k + 1], path, pos - 1, pos)
        <4>1. pos = (pos - 1) + 1
          BY DEF Text
        <4> QED
          BY <3>1, <4>1 DEF Takes, matchesCharacter
      <3>6. Shared(path, pattern, i, pos)
        BY <2>1, <3>1, <3>2, <3>4, <3>5, SharedExtends
      <3>7. Shared(path, pattern, j, pos)
        BY <1>1, <1>2, <3>2, <3>6, SharedRests
      <3> QED
        BY <1>1, <3>7 DEF Holding
    <2> QED
      BY <1>4, <2>3, <2>4 DEF Advance
  <1> QED
    BY <1>1, <1>2, <1>3, <1>4

\* The equation of a run has one solution.
LEMMA RunIsUnique ==
    ASSUME NEW path, NEW pattern, Text(path, pattern), NEW R, IsRun(R, path, pattern),
           NEW D, IsRun(D, path, pattern)
    PROVE  R = D
  <1> DEFINE T == {pos \in 0..Len(path) : R[pos] # D[pos]}
  <1>1. SUFFICES ASSUME T # {} PROVE FALSE
    BY DEF IsRun
  <1>2. PICK pos \in T : \A n \in T : pos <= n
    <2>1. T \subseteq Nat
      BY DEF Text
    <2> HIDE DEF T
    <2> QED
      BY <1>1, <2>1, LeastNatural
  <1>3. /\ R[pos] = Arrives(R, path, pattern, pos)
        /\ D[pos] = Arrives(D, path, pattern, pos)
    BY DEF IsRun
  <1>4. pos # 0 => R[pos - 1] = D[pos - 1]
    BY <1>2 DEF Text
  <1> QED
    BY <1>3, <1>4 DEF Arrives

\* A pattern matches a path, run as an automaton over its characters, exactly when
\* its tokens share out a stretch of the path between the borders of segments, for
\* paths and patterns of any length (patterns.ts: matchesPath).
THEOREM MatcherIsTheGlob ==
    ASSUME NEW path, NEW pattern, Len(path) \in Nat, Len(pattern.tokens) \in Nat
    PROVE  matchesPath(path, pattern) <=> Denotes(path, pattern)
  <1> DEFINE D == Meaning(path, pattern)
             R == CHOOSE R : IsRun(R, path, pattern)
             n == Len(pattern.tokens)
  <1>1. Text(path, pattern)
    BY DEF Text
  <1>2. IsRun(D, path, pattern)
    <2>1. ASSUME NEW pos \in 0..Len(path)
          PROVE  {j \in 0..n : Holding(path, pattern, j, pos)} = Arrives(D, path, pattern, pos)
      BY <1>1, MeaningArrives, ArrivesMeans
    <2> QED
      BY <2>1 DEF IsRun, Meaning
  <1>3. R = D
    <2>1. IsRun(R, path, pattern)
      BY <1>2, Zenon
    <2> HIDE DEF R, D
    <2> QED
      BY <1>1, <1>2, <2>1, RunIsUnique
  <1>4. matchesPath(path, pattern)
        <=> \E pos \in 0..Len(path) : EndsAt(path, pattern, pos) /\ n \in R[pos]
    BY Zenon DEF matchesPath, IsRun, Arrives
  <1>5. ASSUME NEW pos \in 0..Len(path)
        PROVE  n \in D[pos] <=> Shared(path, pattern, n, pos)
    BY DEF Meaning, Holding
  <1>6. matchesPath(path, pattern)
        <=> \E pos \in 0..Len(path) : EndsAt(path, pattern, pos) /\ Shared(path, pattern, n, pos)
    <2> HIDE DEF R, D
    <2> QED
      BY <1>3, <1>4, <1>5
  <1>7. Denotes(path, pattern)
        <=> \E pos \in 0..Len(path) : EndsAt(path, pattern, pos) /\ Shared(path, pattern, n, pos)
    <2>1. ASSUME Denotes(path, pattern)
          PROVE  \E pos \in 0..Len(path) :
                     EndsAt(path, pattern, pos) /\ Shared(path, pattern, n, pos)
      <3>1. PICK cut \in [0..n -> 0..Len(path)] :
                /\ \A k \in 1..n : cut[k - 1] <= cut[k]
                /\ StartsAt(path, pattern, cut[0])
                /\ EndsAt(path, pattern, cut[n])
                /\ \A k \in 1..n : Takes(pattern.tokens[k], path, cut[k - 1], cut[k])
        BY <2>1 DEF Denotes
      <3>2. Shared(path, pattern, n, cut[n])
        BY <3>1 DEF Shared
      <3> QED
        BY <3>1, <3>2
    <2>2. ASSUME NEW pos \in 0..Len(path), EndsAt(path, pattern, pos), Shared(path, pattern, n, pos)
          PROVE  Denotes(path, pattern)
      BY <2>2 DEF Shared, Denotes
    <2> QED
      BY <2>1, <2>2
  <1> QED
    BY <1>6, <1>7

\* The pattern AMEND writes for a path matches that path.
LEMMA LiteralMatches ==
    ASSUME NEW path, Len(path) \in Nat
    PROVE  matchesPath(path, LiteralPattern(path))
  <1> DEFINE pattern == LiteralPattern(path)
             n == Len(path)
             cut == [k \in 0..n |-> k]
  <1>1. /\ pattern.tokens = [i \in 1..n |-> Literal(path[i])]
    BY DEF LiteralPattern, Anchored
  <1>2. Len(pattern.tokens) = n
    BY <1>1
  <1>3. /\ cut \in [0..n -> 0..n]
        /\ StartsAt(path, pattern, cut[0]) /\ EndsAt(path, pattern, cut[n])
    BY DEF StartsAt, EndsAt
  <1>4. ASSUME NEW k \in 1..n
        PROVE  /\ cut[k - 1] <= cut[k]
               /\ Takes(pattern.tokens[k], path, cut[k - 1], cut[k])
    BY <1>1 DEF Takes, matchesCharacter, Literal
  <1>5. Denotes(path, pattern)
    <2> HIDE DEF cut, pattern
    <2> QED
      BY <1>2, <1>3, <1>4 DEF Denotes
  <1> QED
    BY <1>2, <1>5, MatcherIsTheGlob

-----------------------------------------------------------------------------
(* Amendments and the histories they leave.                                  *)

Change == {NoChange} \cup [before : Limits, after : Nat]

LEMMA LimitChangeIs ==
    ASSUME NEW c, ContractTyped(c), NEW request \in AmendRequest, NEW f \in LimitFields
    PROVE  /\ LimitChange(c, request, f) \in Change
           /\ LimitChange(c, request, f) # NoChange =>
                  /\ LimitChange(c, request, f).before = c[f]
                  /\ LimitChange(c, request, f).after = request[f]
                  /\ request[f] # c[f] /\ request[f] \in Nat
  <1>1. c[f] \in Limits
    BY DEF ContractTyped
  <1>2. request[f] \in Nat \cup {NotAsked}
    BY DEF AmendRequest, LimitFields
  <1> QED
    BY <1>1, <1>2 DEF LimitChange, Change

\* What an amendment does to a limit and to its history.
LEMMA AmendedLimit ==
    ASSUME NEW c, ContractTyped(c), NEW request \in AmendRequest, NEW f \in LimitFields
    PROVE  amendContractUnderLock(c, request)[f] =
               IF LimitChange(c, request, f) = NoChange THEN c[f] ELSE request[f]
  BY DEF amendContractUnderLock, ContractTyped, LimitFields

LEMMA AmendedTyped ==
    ASSUME NEW c, ContractTyped(c), NEW request \in AmendRequest
    PROVE  ContractTyped(amendContractUnderLock(c, request))
  <1> DEFINE d == amendContractUnderLock(c, request)
  <1>1. DOMAIN d = DOMAIN c
    BY DEF amendContractUnderLock
  <1>2. ASSUME NEW f \in LimitFields PROVE d[f] \in Limits
    BY AmendedLimit, LimitChangeIs DEF ContractTyped, Limits
  <1>3. Changes(c, request) \in [LimitFields -> Change]
    BY LimitChangeIs DEF Changes
  <1>4. /\ d.budgetHistory = IF ChangesLimits(c, request)
                             THEN Append(c.budgetHistory, Changes(c, request)) ELSE c.budgetHistory
        /\ d.scopeHistory = IF request.paths = {} THEN c.scopeHistory
                            ELSE Append(c.scopeHistory, request.paths)
    BY DEF amendContractUnderLock, ContractTyped
  <1>5. request.paths \in SUBSET Paths
    BY DEF AmendRequest
  <1>6. /\ c.budgetHistory \in Seq([LimitFields -> Change])
        /\ c.scopeHistory \in Seq(SUBSET Paths)
    BY DEF ContractTyped, Change
  <1>7. d.budgetHistory \in Seq([LimitFields -> Change]) /\ d.scopeHistory \in Seq(SUBSET Paths)
    BY <1>3, <1>4, <1>5, <1>6
  <1>8. DOMAIN c = {"allow", "deny", "maxFiles", "maxLines", "newFiles", "profile",
                    "disabled", "base", "budgetHistory", "scopeHistory"}
    BY DEF ContractTyped
  <1>10. d.base \in {"HEAD", "commit"}
    <2>1. d.base = c.base
      BY <1>8 DEF amendContractUnderLock
    <2> QED
      BY <2>1 DEF ContractTyped
  <1> HIDE DEF d
  <1>9. ContractTyped(d)
    BY <1>1, <1>2, <1>7, <1>8, <1>10, Zenon DEF ContractTyped, Change
  <1> QED
    BY <1>9 DEF d

LEMMA AmendedBudget ==
    ASSUME NEW c, ContractTyped(c), NEW request \in AmendRequest,
           validateBudgetAmendments(c)
    PROVE  validateBudgetAmendments(amendContractUnderLock(c, request))
  <1> DEFINE d == amendContractUnderLock(c, request)
             h == c.budgetHistory
             n == Len(h)
             last == Changes(c, request)
  <1>1. /\ h \in Seq([LimitFields -> Change]) /\ n \in Nat
        /\ d.budgetHistory = IF ChangesLimits(c, request) THEN Append(h, last) ELSE h
        /\ \A f \in LimitFields : last[f] = LimitChange(c, request, f)
    BY DEF amendContractUnderLock, ContractTyped, Change, Changes
  <1>2. \A f \in LimitFields : FieldExplained(h, f, c[f])
    BY DEF validateBudgetAmendments
  <1>3. CASE ~ChangesLimits(c, request)
    <2>1. \A f \in LimitFields : d[f] = c[f]
      BY <1>3, AmendedLimit DEF ChangesLimits
    <2> QED
      BY <1>1, <1>3, <2>1 DEF validateBudgetAmendments
  <1>4. CASE ChangesLimits(c, request)
    <2> DEFINE k == d.budgetHistory
    <2>1. /\ Len(k) = n + 1 /\ k[n + 1] = last
          /\ DOMAIN k = 1..(n + 1) /\ DOMAIN h = 1..n
          /\ \A i \in 1..n : k[i] = h[i]
      BY <1>1, <1>4
    <2>2. \E f \in LimitFields : last[f] # NoChange
      BY <1>1, <1>4 DEF ChangesLimits
    <2> HIDE DEF d, k, h, last
    <2>3. ASSUME NEW i \in DOMAIN k PROVE \E f \in LimitFields : k[i][f] # NoChange
      <3>1. CASE i = n + 1
        BY <2>1, <2>2, <3>1
      <3>2. CASE i \in 1..n
        BY <2>1, <3>2 DEF validateBudgetAmendments, h
      <3> QED
        BY <1>1, <2>1, <3>1, <3>2
    <2>4. ASSUME NEW f \in LimitFields PROVE FieldExplained(k, f, d[f])
      <3>1. /\ last[f] # NoChange =>
                   /\ last[f].before = c[f] /\ last[f].after = d[f]
                   /\ last[f].before # last[f].after
            /\ last[f] = NoChange => d[f] = c[f]
        BY <1>1, LimitChangeIs, AmendedLimit DEF d
      <3>2. FieldExplained(h, f, c[f])
        BY <1>2 DEF h
      <3>3. ASSUME NEW from \in 1..(n + 1), NEW to \in Nat, to <= n
            PROVE  Untouched(k, f, from, to) <=> Untouched(h, f, from, to)
        <4>1. \A x \in from..to : x \in 1..n
          BY <1>1, <3>3
        <4> QED
          BY <2>1, <4>1 DEF Untouched
      <3>4. ASSUME NEW i \in 1..(n + 1), k[i][f] # NoChange
            PROVE  /\ k[i][f].before # k[i][f].after
                   /\ \A j \in (i + 1)..(n + 1) :
                          k[j][f] # NoChange /\ Untouched(k, f, i + 1, j - 1)
                              => k[j][f].before = k[i][f].after
                   /\ Untouched(k, f, i + 1, n + 1) => k[i][f].after = d[f]
        <4>1. CASE i = n + 1
          BY <1>1, <2>1, <3>1, <3>4, <4>1
        <4>2. CASE i \in 1..n
          <5>1. /\ h[i][f] # NoChange /\ k[i] = h[i]
                /\ i + 1 \in 1..(n + 1)
            BY <1>1, <2>1, <3>4, <4>2
          <5>2. /\ h[i][f].before # h[i][f].after
                /\ \A j \in (i + 1)..n :
                       h[j][f] # NoChange /\ Untouched(h, f, i + 1, j - 1)
                           => h[j][f].before = h[i][f].after
                /\ Untouched(h, f, i + 1, n) => h[i][f].after = c[f]
            BY <2>1, <3>2, <4>2, <5>1 DEF FieldExplained
          <5>3. ASSUME NEW j \in (i + 1)..(n + 1), k[j][f] # NoChange, Untouched(k, f, i + 1, j - 1)
                PROVE  k[j][f].before = k[i][f].after
            <6>1. j - 1 \in Nat /\ j - 1 <= n
              BY <1>1, <4>2
            <6>2. Untouched(h, f, i + 1, j - 1)
              BY <3>3, <5>1, <5>3, <6>1
            <6>3. CASE j = n + 1
              BY <1>1, <2>1, <3>1, <5>1, <5>2, <5>3, <6>2, <6>3
            <6>4. CASE j \in (i + 1)..n
              <7>1. k[j] = h[j]
                BY <1>1, <2>1, <4>2, <6>4
              <7> QED
                BY <5>1, <5>2, <5>3, <6>2, <6>4, <7>1
            <6> QED
              BY <1>1, <4>2, <6>3, <6>4
          <5>4. ASSUME Untouched(k, f, i + 1, n + 1) PROVE k[i][f].after = d[f]
            <6>1. k[n + 1][f] = NoChange /\ Untouched(k, f, i + 1, n)
              BY <1>1, <4>2, <5>4 DEF Untouched
            <6>2. Untouched(h, f, i + 1, n)
              BY <1>1, <3>3, <5>1, <6>1
            <6> QED
              BY <2>1, <3>1, <5>1, <5>2, <6>1, <6>2
          <5> QED
            BY <5>1, <5>2, <5>3, <5>4
        <4> QED
          BY <1>1, <4>1, <4>2
      <3> QED
        BY <2>1, <3>4 DEF FieldExplained
    <2> QED
      BY <2>3, <2>4 DEF validateBudgetAmendments, d, k
  <1> QED
    BY <1>3, <1>4

LEMMA AmendedScope ==
    ASSUME NEW c, ContractTyped(c), NEW request \in AmendRequest,
           parseAmendArgs(request), prepareScopeAmendment(c, request)
    PROVE  validateScopeAmendments(amendContractUnderLock(c, request))
  <1> DEFINE d == amendContractUnderLock(c, request)
             h == c.scopeHistory
             n == Len(h)
             added == {LiteralPattern(PathChars[p]) : p \in request.paths}
  <1>1. /\ h \in Seq(SUBSET Paths) /\ n \in Nat
        /\ d.scopeHistory = IF request.paths = {} THEN h ELSE Append(h, request.paths)
        /\ d.allow = c.allow \cup added
        /\ request.paths \in SUBSET Paths
    BY DEF amendContractUnderLock, ContractTyped, AmendRequest
  <1>2. validateScopeAmendments(c)
    BY DEF prepareScopeAmendment
  <1>3. CASE request.paths = {}
    BY <1>1, <1>2, <1>3 DEF validateScopeAmendments
  <1>4. CASE request.paths # {}
    <2> DEFINE k == d.scopeHistory
    <2>1. /\ k[n + 1] = request.paths
          /\ DOMAIN k = 1..(n + 1) /\ DOMAIN h = 1..n
          /\ \A i \in 1..n : k[i] = h[i]
      BY <1>1, <1>4
    <2>2. request.paths \subseteq Literals
      BY DEF parseAmendArgs
    <2>3. ASSUME NEW i \in 1..n PROVE h[i] \cap request.paths = {}
      <3>1. SUFFICES ASSUME NEW p \in request.paths, p \in h[i] PROVE FALSE
        OBVIOUS
      <3>2. LiteralPattern(PathChars[p]) \in c.allow
        BY <1>2, <2>1, <3>1 DEF validateScopeAmendments
      <3>3. matchesPath(PathChars[p], LiteralPattern(PathChars[p]))
        BY <1>1, PathAssumption, LiteralMatches
      <3>4. ~matchPathPattern(p, c.allow)
        BY <1>4 DEF prepareScopeAmendment
      <3> QED
        BY <3>2, <3>3, <3>4 DEF matchPathPattern
    <2> HIDE DEF d, k, h
    <2>4. ASSUME NEW i \in 1..(n + 1)
          PROVE  /\ k[i] # {} /\ k[i] \subseteq Literals
                 /\ \A p \in k[i] : LiteralPattern(PathChars[p]) \in d.allow
      <3>1. CASE i = n + 1
        BY <1>1, <1>4, <2>1, <2>2, <3>1
      <3>2. CASE i \in 1..n
        BY <1>1, <1>2, <2>1, <3>2 DEF validateScopeAmendments, h
      <3> QED
        BY <1>1, <3>1, <3>2
    <2>5. ASSUME NEW i \in 1..(n + 1), NEW j \in 1..(n + 1), i # j
          PROVE  k[i] \cap k[j] = {}
      <3>1. CASE i \in 1..n /\ j \in 1..n
        BY <1>2, <2>1, <2>5, <3>1 DEF validateScopeAmendments, h
      <3>2. CASE i = n + 1 /\ j \in 1..n
        BY <2>1, <2>3, <3>2
      <3>3. CASE j = n + 1 /\ i \in 1..n
        BY <2>1, <2>3, <3>3
      <3> QED
        BY <1>1, <2>5, <3>1, <3>2, <3>3
    <2> QED
      BY <2>1, <2>4, <2>5 DEF validateScopeAmendments, k, d
  <1> QED
    BY <1>3, <1>4

-----------------------------------------------------------------------------
(* Git's renames.                                                            *)

RenameCandidates(from, to) ==
    {r \in Paths \X Paths : /\ from[r[1]] # Absent /\ to[r[1]] = Absent
                           /\ from[r[2]] = Absent /\ to[r[2]] # Absent
                           /\ Same(from[r[1]], to[r[2]])}
Paired(M) == \A p, q \in M : p # q => p[1] # q[1] /\ p[2] # q[2]

\* There is a largest pairing, so what CHOOSE picks is one: each path is in one
\* pair at most, gone at the source and new at the target.
LEMMA RenamesPair ==
    ASSUME NEW from, NEW to
    PROVE  /\ RenamePairs(from, to) \subseteq RenameCandidates(from, to)
           /\ Paired(RenamePairs(from, to))
  <1> DEFINE Pairs == RenameCandidates(from, to)
             n == Cardinality(Pairs)
             T == {m \in Nat : \E N \in SUBSET Pairs : Paired(N) /\ Cardinality(N) + m = n}
  <1>1. IsFiniteSet(Pairs)
    <2>1. IsFiniteSet(Paths \X Paths)
      BY BaselineAssumption, FS_Product
    <2> QED
      BY <2>1, FS_Subset DEF RenameCandidates
  <1>2. ASSUME NEW N \in SUBSET Pairs
        PROVE  Cardinality(N) \in Nat /\ n \in Nat /\ Cardinality(N) <= n
    BY <1>1, FS_Subset, FS_CardinalityType
  <1>7. RenamePairs(from, to) = CHOOSE M \in SUBSET Pairs :
            Paired(M) /\ \A N \in SUBSET Pairs : Paired(N) => Cardinality(N) <= Cardinality(M)
    BY DEF RenamePairs, RenameCandidates, Paired
  <1> HIDE DEF Pairs
  <1>3. n \in T
    <2>1. {} \in SUBSET Pairs /\ Paired({}) /\ Cardinality({}) = 0
      BY FS_EmptySet DEF Paired
    <2>2. n \in Nat /\ 0 + n = n
      BY <1>2, <2>1
    <2> QED
      BY <2>1, <2>2
  <1>4. PICK m \in T : \A k \in T : m <= k
    <2> HIDE DEF n
    <2>1. T \subseteq Nat
      OBVIOUS
    <2> HIDE DEF T
    <2> QED
      BY <1>3, <2>1, LeastNatural
  <1>5. PICK M \in SUBSET Pairs : Paired(M) /\ Cardinality(M) + m = n
    BY <1>4
  <1>6. ASSUME NEW N \in SUBSET Pairs, Paired(N) PROVE Cardinality(N) <= Cardinality(M)
    <2>1. n - Cardinality(N) \in Nat /\ Cardinality(N) + (n - Cardinality(N)) = n
      BY <1>2
    <2>2. m <= n - Cardinality(N)
      BY <1>4, <1>6, <2>1
    <2> QED
      BY <1>2, <1>4, <1>5, <2>2
  <1>8. RenamePairs(from, to) \in SUBSET Pairs /\ Paired(RenamePairs(from, to))
    BY <1>5, <1>6, <1>7, Zenon
  <1> QED
    BY <1>8 DEF Pairs

-----------------------------------------------------------------------------
(* What git status says of a tree.                                           *)

FileModes == {"100644", "100755", "120000", NoMode}
Observation == [path : Paths, tracked : BOOLEAN, deleted : BOOLEAN, renamed : BOOLEAN,
                source : Paths \cup {NoSource}, staged : BOOLEAN, unstaged : BOOLEAN,
                mode : FileModes, noIndexMode : BOOLEAN, kindChanged : BOOLEAN]

\* The two kinds of records, as Observations makes them of a path.
GoneIn(p, h, s, t) == p \notin Targets(RenamePairs(h, s)) /\ (s[p] = Absent \/ t[p] = Absent)
SourceIn(p, h, s) ==
    IF p \in Targets(RenamePairs(h, s)) THEN (CHOOSE r \in RenamePairs(h, s) : r[2] = p)[1]
    ELSE NoSource
ModeIn(p, h, s, t) == IF GoneIn(p, h, s, t) \/ t[p] = Absent THEN NoMode ELSE Mode[t[p]]
DirtyIn(p, h, s, t) ==
    p \notin Sources(RenamePairs(h, s)) /\ (h[p] # s[p] \/ (s[p] # Absent /\ s[p] # t[p]))
KindChangesIn(o, u) == o # Absent /\ u # Absent /\ Kind[o] # Kind[u]
RetypedIn(p, h, s, t) == KindChangesIn(h[p], s[p]) \/ KindChangesIn(s[p], t[p])
TrackedIn(p, h, s, t) ==
    [path |-> p, tracked |-> TRUE, deleted |-> GoneIn(p, h, s, t),
     renamed |-> p \in Targets(RenamePairs(h, s)), source |-> SourceIn(p, h, s),
     staged |-> h[p] # s[p], unstaged |-> s[p] # t[p], mode |-> ModeIn(p, h, s, t),
     noIndexMode |-> s[p] = Absent, kindChanged |-> RetypedIn(p, h, s, t)]
UntrackedIn(p) ==
    [path |-> p, tracked |-> FALSE, deleted |-> FALSE, renamed |-> FALSE,
     source |-> NoSource, staged |-> FALSE, unstaged |-> FALSE, mode |-> NoMode,
     noIndexMode |-> FALSE, kindChanged |-> FALSE]

LEMMA RecordsAre ==
    ASSUME NEW h, NEW s, NEW t
    PROVE  Observations(h, s, t) =
               {TrackedIn(p, h, s, t) : p \in {q \in Paths : DirtyIn(q, h, s, t)}}
               \cup {UntrackedIn(p) : p \in {q \in Paths : s[q] = Absent /\ t[q] # Absent}}
  BY Zenon DEF Observations, TrackedIn, UntrackedIn, DirtyIn, GoneIn, SourceIn, ModeIn,
               RetypedIn, KindChangesIn

LEMMA RecordFields ==
    ASSUME NEW h, NEW s, NEW t, NEW p
    PROVE  /\ TrackedIn(p, h, s, t).path = p
           /\ TrackedIn(p, h, s, t).deleted <=> GoneIn(p, h, s, t)
           /\ TrackedIn(p, h, s, t).renamed <=> p \in Targets(RenamePairs(h, s))
           /\ TrackedIn(p, h, s, t).source = SourceIn(p, h, s)
           /\ TrackedIn(p, h, s, t).mode = ModeIn(p, h, s, t)
           /\ UntrackedIn(p).path = p /\ ~UntrackedIn(p).deleted /\ ~UntrackedIn(p).renamed
           /\ UntrackedIn(p).mode = NoMode
  BY Zenon DEF TrackedIn, UntrackedIn

LEMMA RecordTypes ==
    ASSUME NEW h \in Tree, NEW s \in Tree, NEW t \in Tree, NEW o \in Observations(h, s, t)
    PROVE  /\ o \in Observation
           /\ o.mode # NoMode => t[o.path] \in Objects /\ o.mode = Mode[t[o.path]]
  <1>1. ASSUME NEW p \in Paths
        PROVE  /\ UntrackedIn(p) \in Observation
               /\ TrackedIn(p, h, s, t) \in Observation
               /\ ModeIn(p, h, s, t) # NoMode => t[p] \in Objects /\ ModeIn(p, h, s, t) = Mode[t[p]]
    <2>1. UntrackedIn(p) \in Observation
      BY DEF UntrackedIn, Observation, FileModes
    <2>2. SourceIn(p, h, s) \in Paths \cup {NoSource}
      <3>1. RenamePairs(h, s) \subseteq Paths \X Paths
        BY RenamesPair DEF RenameCandidates
      <3> QED
        BY <3>1 DEF SourceIn, Targets
    <2>3. /\ ModeIn(p, h, s, t) \in FileModes
          /\ ModeIn(p, h, s, t) # NoMode => t[p] \in Objects /\ ModeIn(p, h, s, t) = Mode[t[p]]
      BY BaselineAssumption DEF ModeIn, FileModes, Tree, NoMode
    <2>4. GoneIn(p, h, s, t) \in BOOLEAN /\ RetypedIn(p, h, s, t) \in BOOLEAN
      BY DEF GoneIn, RetypedIn
    <2>5. TrackedIn(p, h, s, t) \in Observation
      BY <2>2, <2>3, <2>4 DEF TrackedIn, Observation
    <2> QED
      BY <2>1, <2>3, <2>5
  <1> QED
    BY <1>1, RecordsAre, RecordFields

\* A path whose only record calls it deleted is not in the tree.
LEMMA DeletedIsAbsent ==
    ASSUME NEW h, NEW s, NEW t, NEW o \in Observations(h, s, t), o.deleted,
           \A u \in Observations(h, s, t) : u.path = o.path => u.deleted
    PROVE  t[o.path] = Absent
  <1>1. PICK p \in Paths : o = TrackedIn(p, h, s, t)
    BY RecordsAre, RecordFields
  <1>2. o.path = p /\ (s[p] = Absent \/ t[p] = Absent)
    BY <1>1, RecordFields DEF GoneIn
  <1>3. ASSUME s[p] = Absent, t[p] # Absent PROVE FALSE
    <2>1. UntrackedIn(p) \in Observations(h, s, t)
      BY <1>3, RecordsAre, RecordFields DEF DirtyIn
    <2> QED
      BY <1>2, <2>1, RecordFields
  <1> QED
    BY <1>2, <1>3

\* A record of a rename names its source, and every source is named.
LEMMA RecordedRename ==
    ASSUME NEW h, NEW s, NEW t
    PROVE  /\ \A o \in Observations(h, s, t) :
                  o.renamed => o.source \in Sources(RenamePairs(h, s))
           /\ \A p \in Sources(RenamePairs(h, s)) :
                  /\ p \in Paths /\ s[p] = Absent
                  /\ \E o \in Observations(h, s, t) : o.renamed /\ o.source = p
  <1> DEFINE renames == RenamePairs(h, s)
  <1>1. renames \subseteq RenameCandidates(h, s) /\ Paired(renames)
    BY RenamesPair
  <1>2. ASSUME NEW o \in Observations(h, s, t), o.renamed
        PROVE  o.source \in Sources(renames)
    <2>1. PICK p \in Paths : o = TrackedIn(p, h, s, t)
      BY <1>2, RecordsAre, RecordFields
    <2>2. p \in Targets(renames) /\ o.source = SourceIn(p, h, s)
      BY <1>2, <2>1, RecordFields
    <2> QED
      BY <2>2 DEF SourceIn, Targets, Sources
  <1>3. ASSUME NEW p \in Sources(renames)
        PROVE  /\ p \in Paths /\ s[p] = Absent
               /\ \E o \in Observations(h, s, t) : o.renamed /\ o.source = p
    <2>1. PICK r \in renames : r[1] = p
      BY DEF Sources
    <2> DEFINE q == r[2]
    <2>2. /\ p \in Paths /\ q \in Paths
          /\ s[p] = Absent /\ h[q] = Absent /\ s[q] # Absent
      BY <1>1, <2>1 DEF RenameCandidates
    <2>3. q \notin Sources(renames)
      BY <1>1, <2>2 DEF RenameCandidates, Sources
    <2>4. TrackedIn(q, h, s, t) \in Observations(h, s, t)
      BY <2>2, <2>3, RecordsAre DEF DirtyIn
    <2>5. q \in Targets(renames)
      BY DEF Targets
    <2>6. (CHOOSE x \in renames : x[2] = q) = r
      BY <1>1, <2>1 DEF Paired
    <2>7. TrackedIn(q, h, s, t).renamed /\ TrackedIn(q, h, s, t).source = p
      BY <2>1, <2>5, <2>6, RecordFields DEF SourceIn
    <2> QED
      BY <2>2, <2>4, <2>7
  <1> QED
    BY <1>2, <1>3

\* A path without a record holds what HEAD does, unless it is gone by a rename.
LEMMA UnrecordedPath ==
    ASSUME NEW h, NEW s, NEW t, NEW p \in Paths,
           \A o \in Observations(h, s, t) : o.path # p
    PROVE  /\ p \in Sources(RenamePairs(h, s)) => t[p] = Absent
           /\ p \notin Sources(RenamePairs(h, s)) => t[p] = h[p]
  <1>1. s[p] # Absent \/ t[p] = Absent
    BY RecordsAre, RecordFields
  <1>2. CASE p \in Sources(RenamePairs(h, s))
    BY <1>1, <1>2, RecordedRename
  <1>3. CASE p \notin Sources(RenamePairs(h, s))
    <2>1. h[p] = s[p] /\ (s[p] = Absent \/ s[p] = t[p])
      BY <1>3, RecordsAre, RecordFields DEF DirtyIn
    <2> QED
      BY <1>1, <1>3, <2>1
  <1> QED
    BY <1>2, <1>3

\* Two looks that saw the same records of the same HEAD agree on the rest.
LEMMA SameRecords ==
    ASSUME NEW h, NEW s1, NEW t1, NEW s2, NEW t2, NEW p \in Paths,
           Observations(h, s1, t1) = Observations(h, s2, t2),
           \A o \in Observations(h, s1, t1) : o.path # p
    PROVE  t1[p] = t2[p]
  <1>1. p \in Sources(RenamePairs(h, s1)) <=> p \in Sources(RenamePairs(h, s2))
    BY RecordedRename
  <1> QED
    BY <1>1, UnrecordedPath

-----------------------------------------------------------------------------
(* The capture.  What the two passes know of the moment between them rests on *)
(* one fact: an object a path held since the capture began, and holds no      *)
(* longer, does not come back.                                               *)

Held == Objects \cup {Absent}
Looking == {"scan", "read", "activate"}

StartType ==
    [phase : {"idle", "observe", "scan", "read", "activate", "active", "failed"},
     attempt : 0..MaxAttempts, head : Nat, headTree : ReadTree, staged : ReadTree,
     seen : ReadTree, observed : SUBSET Observation, values : ReadTree,
     first : {NotRead} \cup [observed : SUBSET Observation, values : ReadTree]]
BaselineType ==
    [state : {"none", "intact", "unsafe"}, head : Nat, entries : SUBSET EntryType]

CaptureTyped ==
    /\ commits \in Seq(Tree) /\ commits # <<>>
    /\ index \in Tree /\ disk \in Tree
    /\ past \in [Paths -> SUBSET Held] /\ moment \in ReadTree
    /\ start \in StartType /\ baseline \in BaselineType

\* What a path held before is not what it holds now, nor the same in kind and bytes.
PastIsGone ==
    Capturing => \A p \in Paths :
        /\ disk[p] \in past[p]
        /\ \A o \in past[p] : o # disk[p] => ~Same(o, disk[p])

HeadWas == Capturing => start.head \in 1..Len(commits)

\* The pass under way read what the paths held, and HEAD as it is unless it moved.
PassRuns ==
    start.phase \in Looking =>
        /\ start.headTree \in Tree /\ start.staged \in Tree
        /\ Len(commits) = start.head => start.headTree = commits[start.head]
        /\ \A p \in Paths : /\ start.seen[p] \in past[p] \cup {NotRead}
                            /\ start.values[p] \in (past[p] \ {Absent}) \cup {NotRead}
        /\ start.phase = "scan" => \A p \in Paths : start.values[p] = NotRead
        /\ start.phase # "scan" =>
               /\ start.seen \in Tree
               /\ start.observed = Observations(start.headTree, start.staged, start.seen)

\* The first pass: what it saw and is no longer there at the moment never returns.
FirstLook(h, s, t) ==
    /\ start.first.observed = Observations(h, s, t)
    /\ Len(commits) = start.head => h = commits[start.head]
    /\ \A p \in Paths :
           /\ t[p] \in past[p]
           /\ t[p] # moment[p] => t[p] # disk[p]
           /\ start.phase \in Looking /\ start.seen[p] = t[p] => t[p] = moment[p]

FirstRead ==
    /\ \A p \in Paths :
           /\ start.first.values[p] \in (past[p] \ {Absent}) \cup {NotRead}
           /\ start.first.values[p] \notin {NotRead, moment[p]} => start.first.values[p] # disk[p]
    /\ \A o \in start.first.observed : ~o.deleted => start.first.values[o.path] # NotRead

\* The second pass: a path that no longer held what it did at the moment never
\* will again, and equal bytes in both passes are those of the moment.
SecondRead ==
    start.phase \in Looking =>
        \A p \in Paths :
            /\ start.seen[p] \notin {NotRead, moment[p]} => disk[p] # moment[p]
            /\ /\ start.values[p] # NotRead /\ start.first.values[p] # NotRead
               /\ Same(start.first.values[p], start.values[p])
               => start.first.values[p] = moment[p] /\ start.seen[p] = moment[p]

MomentKept ==
    Capturing /\ start.first # NotRead =>
        /\ moment \in Tree /\ \A p \in Paths : moment[p] \in past[p]
        /\ FirstRead /\ SecondRead
        /\ \E h \in Tree, s \in Tree, t \in Tree : FirstLook(h, s, t)

Compared ==
    start.phase = "activate" =>
        /\ start.first # NotRead
        /\ Stable(start.first, start.observed, start.values)
        /\ \A o \in start.observed : ~o.deleted => start.values[o.path] # NotRead

EntryTrue(e, o) ==
    /\ e.deleted => o = Absent
    /\ ~e.deleted => /\ o # Absent /\ e.object = o
                     /\ e.mode # NoMode => e.mode = Mode[o]

BaselineTrue ==
    /\ start.phase = "active" <=> baseline.state # "none"
    /\ baseline.state # "none" =>
           /\ baseline.head \in 1..Len(commits)
           /\ moment \in Tree
           /\ OneRecordEach(baseline.entries)
           /\ \A e \in baseline.entries : EntryTrue(e, moment[e.path])
           /\ \A p \in Paths \ EntryPaths(baseline.entries) :
                  \/ moment[p] = commits[baseline.head][p]
                  \/ moment[p] = Absent /\ \E e \in baseline.entries : e.renamed

Captured ==
    /\ CaptureTyped /\ PastIsGone /\ HeadWas /\ PassRuns /\ MomentKept /\ Compared
    /\ BaselineTrue

\* A step that leaves START and its evidence alone: the history of HEAD grows if
\* at all, and what a path left does not come back.
CaptureGoesOn ==
    /\ commits' = commits \/ \E tree \in Tree : commits' = Append(commits, tree)
    /\ index' \in Tree /\ disk' \in Tree
    /\ past' \in [Paths -> SUBSET Held]
    /\ \A p \in Paths : past[p] \subseteq past'[p]
    /\ Capturing => \A p \in Paths : \A o \in past[p] : o # disk[p] => o # disk'[p]
    /\ UNCHANGED <<start, moment>>

LEMMA GoesOnHistory ==
    ASSUME Captured, CaptureGoesOn
    PROVE  /\ commits' \in Seq(Tree) /\ commits' # <<>>
           /\ Len(commits) \in Nat \ {0}
           /\ Len(commits') >= Len(commits) /\ Len(commits') \in Nat
           /\ \A i \in 1..Len(commits) : commits'[i] = commits[i]
  <1>1. commits \in Seq(Tree) /\ commits # <<>>
    BY DEF Captured, CaptureTyped
  <1>2. CASE commits' = commits
    BY <1>1, <1>2
  <1>3. CASE \E tree \in Tree : commits' = Append(commits, tree)
    BY <1>1, <1>3
  <1> QED
    BY <1>2, <1>3 DEF CaptureGoesOn

LEMMA GoesOnPass ==
    ASSUME Captured, CaptureGoesOn, PastIsGone'
    PROVE  PassRuns' /\ HeadWas' /\ Compared'
  <1>1. /\ start' = start /\ Len(commits') >= Len(commits) /\ Len(commits') \in Nat
        /\ Len(commits) \in Nat
        /\ \A i \in 1..Len(commits) : commits'[i] = commits[i]
        /\ \A p \in Paths : past[p] \subseteq past'[p]
    BY GoesOnHistory DEF CaptureGoesOn
  <1>2. HeadWas'
    BY <1>1 DEF Captured, HeadWas, Capturing
  <1>3. PassRuns'
    <2>1. SUFFICES ASSUME start.phase \in Looking PROVE PassRuns'
      BY <1>1 DEF PassRuns
    <2>2. start.head \in 1..Len(commits)
      BY <2>1 DEF Captured, HeadWas, Capturing, Looking
    <2>3. Len(commits') = start.head =>
              Len(commits) = start.head /\ commits'[start.head] = commits[start.head]
      BY <1>1, <2>2
    <2> QED
      BY <1>1, <2>1, <2>3 DEF Captured, PassRuns
  <1>4. Compared'
    BY <1>1 DEF Captured, Compared, Stable
  <1> QED
    BY <1>2, <1>3, <1>4

LEMMA GoesOnMoment ==
    ASSUME Captured, CaptureGoesOn, PastIsGone'
    PROVE  MomentKept'
  <1>1. /\ start' = start /\ moment' = moment
        /\ Len(commits') >= Len(commits) /\ Len(commits') \in Nat /\ Len(commits) \in Nat
        /\ \A i \in 1..Len(commits) : commits'[i] = commits[i]
        /\ \A p \in Paths : past[p] \subseteq past'[p]
    BY GoesOnHistory DEF CaptureGoesOn
  <1>2. SUFFICES ASSUME Capturing, start.first # NotRead PROVE MomentKept'
    BY <1>1 DEF MomentKept, Capturing
  <1>3. \A p \in Paths : \A o \in past[p] : o # disk[p] => o # disk'[p]
    BY <1>2 DEF CaptureGoesOn
  <1>4. /\ moment \in Tree /\ \A p \in Paths : moment[p] \in past[p]
        /\ FirstRead /\ SecondRead
    BY <1>2 DEF Captured, MomentKept
  <1>5. FirstRead'
    BY <1>1, <1>3, <1>4 DEF FirstRead
  <1>6. SecondRead'
    BY <1>1, <1>3, <1>4 DEF SecondRead
  <1>7. \E h \in Tree, s \in Tree, t \in Tree : FirstLook(h, s, t)'
    <2>1. PICK h \in Tree, s \in Tree, t \in Tree : FirstLook(h, s, t)
      BY <1>2 DEF Captured, MomentKept
    <2>2. start.head \in 1..Len(commits)
      BY <1>2 DEF Captured, HeadWas
    <2>3. Len(commits') = start.head =>
              Len(commits) = start.head /\ commits'[start.head] = commits[start.head]
      BY <1>1, <2>2
    <2>4. FirstLook(h, s, t)'
      BY <1>1, <1>3, <2>1, <2>3 DEF FirstLook
    <2> QED
      BY <2>4
  <1> QED
    BY <1>1, <1>4, <1>5, <1>6, <1>7 DEF MomentKept

LEMMA GoesOnCaptured ==
    ASSUME Captured, CaptureGoesOn, PastIsGone',
           baseline' \in BaselineType,
           baseline'.state # "none" <=> baseline.state # "none",
           baseline'.head = baseline.head, baseline'.entries = baseline.entries
    PROVE  Captured'
  <1>1. CaptureTyped'
    BY GoesOnHistory DEF Captured, CaptureTyped, CaptureGoesOn
  <1>2. BaselineTrue'
    <2>1. /\ start' = start /\ moment' = moment
          /\ Len(commits') >= Len(commits) /\ Len(commits') \in Nat /\ Len(commits) \in Nat
          /\ \A i \in 1..Len(commits) : commits'[i] = commits[i]
      BY GoesOnHistory DEF CaptureGoesOn
    <2>2. SUFFICES ASSUME baseline.state # "none" PROVE BaselineTrue'
      BY <2>1 DEF Captured, BaselineTrue
    <2>3. baseline.head \in 1..Len(commits)
      BY <2>2 DEF Captured, BaselineTrue
    <2>4. baseline.head \in 1..Len(commits') /\ commits'[baseline.head] = commits[baseline.head]
      BY <2>1, <2>3
    <2> QED
      BY <2>1, <2>2, <2>4 DEF Captured, BaselineTrue
  <1> QED
    BY <1>1, <1>2, GoesOnPass, GoesOnMoment DEF Captured

\* The steps of the user.
LEMMA CaptureRests ==
    ASSUME Captured, UNCHANGED <<commits, index, disk, start, past, moment>>
    PROVE  CaptureGoesOn /\ PastIsGone'
  BY DEF Captured, CaptureTyped, CaptureGoesOn, PastIsGone, Capturing

LEMMA RestsCaptured ==
    ASSUME Captured, UNCHANGED <<commits, index, disk, start, past, moment, baseline>>
    PROVE  Captured'
  BY CaptureRests, GoesOnCaptured DEF Captured, CaptureTyped

LEMMA EditCaptured ==
    ASSUME Captured, NEW p \in Paths, NEW o \in Held, Edit(p, o)
    PROVE  Captured'
  <1>1. /\ disk' = [disk EXCEPT ![p] = o]
        /\ Capturing => o \notin past[p] /\ \A u \in past[p] \ {Absent} : ~Same(o, u)
        /\ past' = IF Capturing THEN [past EXCEPT ![p] = @ \cup {o}] ELSE past
        /\ UNCHANGED <<commits, index, start, moment, baseline>>
    BY DEF Edit, Returns
  <1>2. disk \in Tree /\ past \in [Paths -> SUBSET Held] /\ baseline \in BaselineType /\ index \in Tree
    BY DEF Captured, CaptureTyped
  <1>3. /\ disk' \in Tree /\ disk'[p] = o /\ \A q \in Paths \ {p} : disk'[q] = disk[q]
    BY <1>1, <1>2 DEF Tree, Held
  <1>4. /\ past' \in [Paths -> SUBSET Held]
        /\ Capturing => past'[p] = past[p] \cup {o} /\ \A q \in Paths \ {p} : past'[q] = past[q]
        /\ ~Capturing => past' = past
    BY <1>1, <1>2
  <1>5. CaptureGoesOn
    BY <1>1, <1>2, <1>3, <1>4 DEF CaptureGoesOn
  <1>6. PastIsGone'
    <2>1. SUFFICES ASSUME Capturing, NEW q \in Paths
                   PROVE  /\ disk'[q] \in past'[q]
                          /\ \A u \in past'[q] : u # disk'[q] => ~Same(u, disk'[q])
      BY <1>1 DEF PastIsGone, Capturing
    <2>2. CASE q = p
      BY <1>1, <1>3, <1>4, <2>1, <2>2 DEF Same
    <2>3. CASE q # p
      BY <1>3, <1>4, <2>1, <2>3 DEF Captured, PastIsGone
    <2> QED
      BY <2>2, <2>3
  <1> QED
    BY <1>1, <1>2, <1>5, <1>6, GoesOnCaptured

LEMMA StageCaptured ==
    ASSUME Captured, NEW p \in Paths, NEW o \in Held, Stage(p, o)
    PROVE  Captured'
  <1>1. /\ index' = [index EXCEPT ![p] = o]
        /\ UNCHANGED <<commits, disk, start, moment, past, baseline>>
    BY DEF Stage
  <1>2. disk \in Tree /\ past \in [Paths -> SUBSET Held] /\ baseline \in BaselineType /\ index \in Tree
    BY DEF Captured, CaptureTyped
  <1>3. index' \in Tree
    BY <1>1, <1>2 DEF Tree, Held
  <1>4. CaptureGoesOn
    BY <1>1, <1>2, <1>3 DEF CaptureGoesOn
  <1>5. PastIsGone'
    BY <1>1 DEF Captured, PastIsGone, Capturing
  <1> QED
    BY <1>1, <1>2, <1>4, <1>5, GoesOnCaptured

LEMMA CommitCaptured ==
    ASSUME Captured, Commit
    PROVE  Captured'
  <1>1. /\ commits' = Append(commits, index)
        /\ UNCHANGED <<index, disk, start, moment, past, baseline>>
    BY DEF Commit, ghosts
  <1>2. disk \in Tree /\ past \in [Paths -> SUBSET Held] /\ baseline \in BaselineType /\ index \in Tree
    BY DEF Captured, CaptureTyped
  <1>3. CaptureGoesOn
    BY <1>1, <1>2 DEF CaptureGoesOn
  <1>4. PastIsGone'
    BY <1>1 DEF Captured, PastIsGone, Capturing
  <1> QED
    BY <1>1, <1>2, <1>3, <1>4, GoesOnCaptured

LEMMA LoseCaptured ==
    ASSUME Captured, LoseBaseline
    PROVE  Captured'
  <1>1. /\ baseline.state = "intact" /\ baseline' = [baseline EXCEPT !.state = "unsafe"]
        /\ UNCHANGED <<commits, index, disk, start, moment, past>>
    BY DEF LoseBaseline, ghosts, treeVars
  <1>2. baseline \in BaselineType
    BY DEF Captured, CaptureTyped
  <1>3. /\ baseline' \in BaselineType /\ baseline'.state = "unsafe"
        /\ baseline'.head = baseline.head /\ baseline'.entries = baseline.entries
    BY <1>1, <1>2 DEF BaselineType
  <1> QED
    BY <1>1, <1>3, CaptureRests, GoesOnCaptured

LEMMA UserCaptured ==
    ASSUME Captured, User
    PROVE  Captured'
  <1>1. ASSUME NEW p \in Paths, NEW o \in Objects \cup {Absent}, Edit(p, o) \/ Stage(p, o)
        PROVE  Captured'
    BY <1>1, EditCaptured, StageCaptured DEF Held
  <1>2. ASSUME NEW file \in OverrideFiles, WriteOverrides(file) PROVE Captured'
    BY <1>2, RestsCaptured DEF WriteOverrides, treeVars, ghosts
  <1>3. ASSUME NEW request \in Requests, Amend(request) PROVE Captured'
    BY <1>3, RestsCaptured DEF Amend, treeVars, ghosts
  <1> QED
    BY <1>1, <1>2, <1>3, CommitCaptured, LoseCaptured DEF User

LEMMA CheckCaptured ==
    ASSUME Captured, Check
    PROVE  Captured'
  <1>1. UNCHANGED <<commits, index, disk, start, past, moment, baseline>>
    BY DEF Check, CheckReturns, CheckBegin, getStackPolicyResolution, reloadBaselineEvidence,
           CheckNames, CheckStats, CheckOthers, CheckCollected, readCurrentBaselineValue,
           CheckEvaluate, CheckFails, treeVars, ghosts
  <1> QED
    BY <1>1, RestsCaptured

\* The steps of START.  Until it has activated the contract there is no evidence.
LEMMA StartStep ==
    ASSUME Captured, UNCHANGED <<commits, index, disk, baseline>>,
           start' \in StartType, past' \in [Paths -> SUBSET Held], moment' \in ReadTree,
           start.phase # "active", start'.phase # "active",
           PastIsGone', HeadWas', PassRuns', MomentKept', Compared'
    PROVE  Captured'
  <1>1. CaptureTyped'
    BY DEF Captured, CaptureTyped
  <1>2. BaselineTrue'
    BY DEF Captured, BaselineTrue
  <1> QED
    BY <1>1, <1>2 DEF Captured

LEMMA UnreadTyped == Unread \in ReadTree
  BY DEF Unread, ReadTree

LEMMA IdleTyped == Idle \in StartType /\ Idle.phase = "idle" /\ Idle.first = NotRead
  BY UnreadTyped, BaselineAssumption DEF Idle, StartType

LEMMA FailedTyped == Failed \in StartType /\ Failed.phase = "failed"
  BY IdleTyped DEF Failed, StartType

LEMMA StartFails ==
    ASSUME Captured, UNCHANGED <<commits, index, disk, baseline, past, moment>>,
           start.phase # "active", start' = Failed
    PROVE  Captured'
  <1>1. start' \in StartType /\ start'.phase = "failed"
    BY FailedTyped
  <1>2. past' \in [Paths -> SUBSET Held] /\ moment' \in ReadTree
    BY DEF Captured, CaptureTyped
  <1>3. PastIsGone' /\ HeadWas' /\ PassRuns' /\ MomentKept' /\ Compared'
    BY <1>1 DEF PastIsGone, HeadWas, PassRuns, MomentKept, Compared, Capturing, Looking
  <1> QED
    BY <1>1, <1>2, <1>3, StartStep

LEMMA StartBeginCaptured ==
    ASSUME Captured, StartBegin
    PROVE  Captured'
  <1>1. /\ start.phase \in {"idle", "failed"}
        /\ start' = [Idle EXCEPT !.phase = "observe", !.attempt = 1, !.head = Len(commits)]
        /\ past' = [p \in Paths |-> {disk[p]}]
        /\ UNCHANGED <<commits, index, disk, baseline, moment>>
    BY DEF StartBegin, treeVars
  <1>2. commits \in Seq(Tree) /\ commits # <<>> /\ disk \in Tree /\ moment \in ReadTree
    BY DEF Captured, CaptureTyped
  <1>3. Len(commits) \in Nat \ {0}
    BY <1>2
  <1>4. /\ start' \in StartType /\ start'.phase = "observe"
        /\ start'.head = Len(commits) /\ start'.first = NotRead
    <2>1. 1 \in 0..MaxAttempts
      BY BaselineAssumption
    <2> QED
      BY <1>1, <1>3, <2>1, IdleTyped DEF StartType
  <1>5. past' \in [Paths -> SUBSET Held]
    BY <1>1, <1>2 DEF Tree, Held
  <1>6. PastIsGone' /\ HeadWas'
    BY <1>1, <1>3, <1>4 DEF PastIsGone, HeadWas
  <1>7. PassRuns' /\ MomentKept' /\ Compared'
    BY <1>4 DEF PassRuns, MomentKept, Compared, Looking
  <1> QED
    BY <1>1, <1>2, <1>4, <1>5, <1>6, <1>7, StartStep

\* A step of a capture that goes on: the working tree, what it was and the head
\* the capture began with are left alone.
LEMMA StartGoesOn ==
    ASSUME Captured, UNCHANGED <<commits, index, disk, baseline, past>>,
           start' \in StartType, moment' \in ReadTree,
           Capturing, Capturing', start'.head = start.head,
           PassRuns', MomentKept', Compared'
    PROVE  Captured'
  <1>1. PastIsGone' /\ HeadWas'
    BY DEF Captured, PastIsGone, HeadWas
  <1>2. past' \in [Paths -> SUBSET Held]
    BY DEF Captured, CaptureTyped
  <1>3. start.phase # "active" /\ start'.phase # "active"
    BY DEF Capturing
  <1> QED
    BY <1>1, <1>2, <1>3, StartStep

LEMMA StartObserveCaptured ==
    ASSUME Captured, StartObserve
    PROVE  Captured'
  <1>1. /\ start.phase = "observe"
        /\ start' = [start EXCEPT !.phase = "scan", !.headTree = HeadTree, !.staged = index,
                              !.seen = Unread, !.values = Unread]
        /\ UNCHANGED <<commits, index, disk, baseline, past, moment>>
    BY DEF StartObserve, treeVars, ghosts
  <1>2. /\ commits \in Seq(Tree) /\ commits # <<>> /\ index \in Tree /\ moment \in ReadTree
        /\ start \in StartType
    BY DEF Captured, CaptureTyped
  <1>3. HeadTree \in Tree /\ Tree \subseteq ReadTree
    BY <1>2 DEF HeadTree, Tree, ReadTree
  <1>4. /\ start' \in StartType /\ start'.phase = "scan"
        /\ start'.head = start.head /\ start'.first = start.first
        /\ start'.headTree = HeadTree /\ start'.staged = index
        /\ start'.seen = Unread /\ start'.values = Unread
    BY <1>1, <1>2, <1>3, UnreadTyped DEF StartType
  <1>5. Capturing /\ Capturing'
    BY <1>1, <1>4 DEF Capturing
  <1>6. PassRuns'
    BY <1>1, <1>2, <1>3, <1>4 DEF PassRuns, HeadTree, Unread
  <1>7. MomentKept'
    <2>1. SUFFICES ASSUME start.first # NotRead PROVE MomentKept'
      BY <1>4 DEF MomentKept
    <2>2. /\ moment \in Tree /\ \A p \in Paths : moment[p] \in past[p]
          /\ FirstRead
      BY <1>5, <2>1 DEF Captured, MomentKept
    <2>3. PICK h \in Tree, s \in Tree, t \in Tree : FirstLook(h, s, t)
      BY <1>5, <2>1 DEF Captured, MomentKept
    <2>4. FirstRead'
      BY <1>1, <1>4, <2>2 DEF FirstRead
    <2>5. SecondRead'
      BY <1>4 DEF SecondRead, Unread
    <2>6. FirstLook(h, s, t)'
      <3>1. \A p \in Paths : t[p] # NotRead
        BY BaselineAssumption DEF Tree
      <3> QED
        BY <1>1, <1>4, <2>3, <3>1 DEF FirstLook, Unread
    <2> QED
      BY <1>1, <2>2, <2>4, <2>5, <2>6 DEF MomentKept
  <1>8. Compared'
    BY <1>4 DEF Compared
  <1> QED
    BY <1>1, <1>2, <1>4, <1>5, <1>6, <1>7, <1>8, StartGoesOn

LEMMA StartScanCaptured ==
    ASSUME Captured, NEW p \in Paths, StartScan(p)
    PROVE  Captured'
  <1>1. /\ start.phase = "scan" /\ start.seen[p] = NotRead
        /\ start' = [start EXCEPT !.seen[p] = disk[p]]
        /\ UNCHANGED <<commits, index, disk, baseline, past, moment>>
    BY DEF StartScan, treeVars, ghosts
  <1>2. /\ disk \in Tree /\ moment \in ReadTree /\ start \in StartType
    BY DEF Captured, CaptureTyped
  <1>3. start.seen \in ReadTree /\ disk[p] \in Held
    BY <1>2 DEF StartType, Tree, Held
  <1>4. /\ start' \in StartType /\ start'.phase = "scan"
        /\ start'.head = start.head /\ start'.first = start.first
        /\ start'.headTree = start.headTree /\ start'.staged = start.staged
        /\ start'.seen = [start.seen EXCEPT ![p] = disk[p]] /\ start'.values = start.values
    <2>1. [start.seen EXCEPT ![p] = disk[p]] \in ReadTree
      BY <1>3 DEF ReadTree, Held
    <2> QED
      BY <1>1, <1>2, <2>1 DEF StartType
  <1>5. start'.seen[p] = disk[p] /\ \A q \in Paths \ {p} : start'.seen[q] = start.seen[q]
    BY <1>3, <1>4 DEF ReadTree
  <1>6. Capturing /\ Capturing'
    BY <1>1, <1>4 DEF Capturing
  <1>7. disk[p] \in past[p]
    BY <1>6 DEF Captured, PastIsGone
  <1>8. PassRuns'
    BY <1>1, <1>4, <1>5, <1>7 DEF Captured, PassRuns, Looking
  <1>9. MomentKept'
    <2>1. SUFFICES ASSUME start.first # NotRead PROVE MomentKept'
      BY <1>4 DEF MomentKept
    <2>2. /\ moment \in Tree /\ \A q \in Paths : moment[q] \in past[q]
          /\ FirstRead /\ SecondRead
      BY <1>6, <2>1 DEF Captured, MomentKept
    <2>3. PICK h \in Tree, s \in Tree, t \in Tree : FirstLook(h, s, t)
      BY <1>6, <2>1 DEF Captured, MomentKept
    <2>4. FirstRead'
      BY <1>1, <1>4, <2>2 DEF FirstRead
    <2>5. \A q \in Paths : start'.values[q] = NotRead
      BY <1>1, <1>4 DEF Captured, PassRuns, Looking
    <2>6. SecondRead'
      BY <1>1, <1>4, <1>5, <2>2, <2>5 DEF SecondRead, Looking
    <2>7. FirstLook(h, s, t)'
      BY <1>1, <1>4, <1>5, <2>3 DEF FirstLook, Looking
    <2> QED
      BY <1>1, <2>2, <2>4, <2>6, <2>7 DEF MomentKept
  <1>10. Compared'
    BY <1>4 DEF Compared
  <1> QED
    BY <1>1, <1>2, <1>4, <1>6, <1>8, <1>9, <1>10, StartGoesOn

LEMMA StartListCaptured ==
    ASSUME Captured, StartList
    PROVE  Captured'
  <1> DEFINE records == Observations(start.headTree, start.staged, start.seen)
  <1>1. /\ start.phase = "scan" /\ \A p \in Paths : start.seen[p] # NotRead
        /\ start' = IF Malformed(records) THEN Failed
                    ELSE [start EXCEPT !.phase = "read", !.observed = records]
        /\ UNCHANGED <<commits, index, disk, baseline, past, moment>>
    BY DEF StartList, treeVars, ghosts
  <1>2. /\ moment \in ReadTree /\ start \in StartType
    BY DEF Captured, CaptureTyped
  <1>3. /\ start.headTree \in Tree /\ start.staged \in Tree /\ start.seen \in Tree
    <2>1. start.headTree \in Tree /\ start.staged \in Tree
      BY <1>1 DEF Captured, PassRuns, Looking
    <2>2. start.seen \in ReadTree
      BY <1>2 DEF StartType
    <2> QED
      BY <1>1, <2>1, <2>2 DEF ReadTree, Tree
  <1>4. records \in SUBSET Observation
    BY <1>3, RecordTypes
  <1>5. CASE Malformed(records)
    BY <1>1, <1>5, StartFails
  <1>6. CASE ~Malformed(records)
    <2>1. start' = [start EXCEPT !.phase = "read", !.observed = records]
      BY <1>1, <1>6
    <2> HIDE DEF records
    <2>2. /\ start' \in StartType /\ start'.phase = "read" /\ start'.observed = records
          /\ start'.head = start.head /\ start'.first = start.first
          /\ start'.headTree = start.headTree /\ start'.staged = start.staged
          /\ start'.seen = start.seen /\ start'.values = start.values
      BY <1>2, <1>4, <2>1 DEF StartType
    <2>3. Capturing /\ Capturing'
      BY <1>1, <2>2 DEF Capturing
    <2>4. PassRuns'
      BY <1>1, <1>3, <2>2 DEF Captured, PassRuns, Looking, records
    <2>5. MomentKept'
      BY <1>1, <2>2, <2>3 DEF Captured, MomentKept, FirstRead, SecondRead, FirstLook, Looking
    <2>6. Compared'
      BY <2>2 DEF Compared
    <2> QED
      BY <1>1, <1>2, <2>2, <2>3, <2>4, <2>5, <2>6, StartGoesOn
  <1> QED
    BY <1>5, <1>6

\* What a second reading finds again is what the first one read, as it still was
\* at the moment.
LEMMA readObservedValueCaptured ==
    ASSUME Captured, NEW p \in Paths, readObservedValue(p)
    PROVE  Captured'
  <1>1. /\ start.phase = "read" /\ start.values[p] = NotRead
        /\ start' = IF disk[p] = Absent THEN Failed ELSE [start EXCEPT !.values[p] = disk[p]]
        /\ UNCHANGED <<commits, index, disk, baseline, past, moment>>
    BY DEF readObservedValue, treeVars, ghosts
  <1>2. /\ disk \in Tree /\ moment \in ReadTree /\ start \in StartType
    BY DEF Captured, CaptureTyped
  <1>3. CASE disk[p] = Absent
    BY <1>1, <1>3, StartFails
  <1>4. CASE disk[p] # Absent
    <2>1. start' = [start EXCEPT !.values[p] = disk[p]]
      BY <1>1, <1>4
    <2>2. start.values \in ReadTree /\ disk[p] \in Held
      BY <1>2 DEF StartType, Tree, Held
    <2>3. /\ start' \in StartType /\ start'.phase = "read" /\ start'.observed = start.observed
          /\ start'.head = start.head /\ start'.first = start.first
          /\ start'.headTree = start.headTree /\ start'.staged = start.staged
          /\ start'.seen = start.seen /\ start'.values = [start.values EXCEPT ![p] = disk[p]]
      <3>1. [start.values EXCEPT ![p] = disk[p]] \in ReadTree
        BY <2>2 DEF ReadTree, Held
      <3> QED
        BY <1>1, <1>2, <2>1, <3>1 DEF StartType
    <2>4. start'.values[p] = disk[p] /\ \A q \in Paths \ {p} : start'.values[q] = start.values[q]
      BY <2>2, <2>3 DEF ReadTree
    <2>5. Capturing /\ Capturing'
      BY <1>1, <2>3 DEF Capturing
    <2>6. disk[p] \in past[p] /\ \A o \in past[p] : Same(o, disk[p]) => o = disk[p]
      BY <2>5 DEF Captured, PastIsGone
    <2>7. PassRuns'
      BY <1>1, <1>4, <2>3, <2>4, <2>6 DEF Captured, PassRuns, Looking
    <2>8. MomentKept'
      <3>1. SUFFICES ASSUME start.first # NotRead PROVE MomentKept'
        BY <2>3 DEF MomentKept
      <3>2. /\ moment \in Tree /\ \A q \in Paths : moment[q] \in past[q]
            /\ FirstRead /\ SecondRead
        BY <2>5, <3>1 DEF Captured, MomentKept
      <3>3. PICK h \in Tree, s \in Tree, t \in Tree : FirstLook(h, s, t)
        BY <2>5, <3>1 DEF Captured, MomentKept
      <3>4. FirstRead'
        BY <1>1, <2>3, <3>2 DEF FirstRead
      <3>5. start.seen[p] # NotRead
        BY <1>1, BaselineAssumption DEF Captured, PassRuns, Looking, Tree
      <3>6. ASSUME start.first.values[p] # NotRead, Same(start.first.values[p], disk[p])
            PROVE  start.first.values[p] = moment[p] /\ start.seen[p] = moment[p]
        <4>1. start.first.values[p] \in past[p]
          BY <3>2, <3>6 DEF FirstRead
        <4>2. start.first.values[p] = disk[p]
          BY <2>6, <3>6, <4>1
        <4>3. start.first.values[p] = moment[p]
          BY <3>2, <3>6, <4>2 DEF FirstRead
        <4> QED
          BY <1>1, <3>2, <3>5, <4>2, <4>3 DEF SecondRead, Looking
      <3>7. SecondRead'
        BY <1>1, <2>3, <2>4, <3>2, <3>6 DEF SecondRead, Looking
      <3>8. FirstLook(h, s, t)'
        BY <1>1, <2>3, <3>3 DEF FirstLook, Looking
      <3> QED
        BY <1>1, <3>2, <3>4, <3>7, <3>8 DEF MomentKept
    <2>9. Compared'
      BY <2>3 DEF Compared
    <2> QED
      BY <1>1, <1>2, <2>3, <2>5, <2>7, <2>8, <2>9, StartGoesOn
  <1> QED
    BY <1>3, <1>4

\* Between the two passes lies the moment.
LEMMA StartSecondPassCaptured ==
    ASSUME Captured, StartSecondPass
    PROVE  Captured'
  <1>1. /\ start.phase = "read" /\ \A p \in ToRead : start.values[p] # NotRead
        /\ start' = [start EXCEPT !.phase = "observe",
                              !.first = [observed |-> start.observed, values |-> start.values]]
        /\ moment' = disk
        /\ UNCHANGED <<commits, index, disk, baseline, past>>
    BY DEF StartSecondPass, PassRead, treeVars
  <1>2. /\ disk \in Tree /\ disk \in ReadTree /\ start \in StartType
    BY DEF Captured, CaptureTyped, Tree, ReadTree
  <1>3. /\ start' \in StartType /\ start'.phase = "observe" /\ start'.head = start.head
        /\ start'.first.observed = start.observed /\ start'.first.values = start.values
    <2>1. start.observed \in SUBSET Observation /\ start.values \in ReadTree
      BY <1>2 DEF StartType
    <2> DEFINE first == [observed |-> start.observed, values |-> start.values]
    <2>2. first \in [observed : SUBSET Observation, values : ReadTree]
      BY <2>1
    <2> HIDE DEF first
    <2>3. /\ start' \in StartType /\ start'.phase = "observe" /\ start'.head = start.head
          /\ start'.first = first
      BY <1>1, <1>2, <2>2 DEF StartType, first
    <2> QED
      BY <2>3 DEF first
  <1>4. Capturing /\ Capturing'
    BY <1>1, <1>3 DEF Capturing
  <1>5. PassRuns' /\ Compared'
    BY <1>3 DEF PassRuns, Compared, Looking
  <1>6. MomentKept'
    <2>1. PassRuns /\ PastIsGone
      BY DEF Captured
    <2>2. /\ start.headTree \in Tree /\ start.staged \in Tree /\ start.seen \in Tree
          /\ start.observed = Observations(start.headTree, start.staged, start.seen)
          /\ Len(commits) = start.head => start.headTree = commits[start.head]
          /\ \A p \in Paths : /\ start.seen[p] \in past[p] \cup {NotRead}
                              /\ start.values[p] \in (past[p] \ {Absent}) \cup {NotRead}
      BY <1>1, <2>1 DEF PassRuns, Looking
    <2>3. \A p \in Paths : disk[p] \in past[p] /\ start.seen[p] # NotRead
      BY <1>4, <2>1, <2>2, BaselineAssumption DEF PastIsGone, Tree
    <2>4. FirstRead'
      BY <1>1, <1>3, <2>2 DEF FirstRead, ToRead
    <2>5. SecondRead'
      BY <1>3 DEF SecondRead, Looking
    <2>6. FirstLook(start.headTree, start.staged, start.seen)'
      BY <1>1, <1>3, <2>2, <2>3 DEF FirstLook, Looking
    <2> QED
      BY <1>1, <1>2, <2>2, <2>3, <2>4, <2>5, <2>6 DEF MomentKept
  <1> QED
    BY <1>1, <1>2, <1>3, <1>4, <1>5, <1>6, StartGoesOn

LEMMA StartCompareCaptured ==
    ASSUME Captured, StartCompare
    PROVE  Captured'
  <1>1. /\ start.phase = "read" /\ \A p \in ToRead : start.values[p] # NotRead
        /\ start.first # NotRead
        /\ start' = IF Stable(start.first, start.observed, start.values)
                    THEN [start EXCEPT !.phase = "activate"]
                    ELSE IF start.attempt < MaxAttempts
                    THEN [start EXCEPT !.phase = "observe", !.attempt = @ + 1, !.first = NotRead]
                    ELSE Failed
        /\ UNCHANGED <<commits, index, disk, baseline, past, moment>>
    BY DEF StartCompare, PassRead, treeVars, ghosts
  <1>2. /\ moment \in ReadTree /\ start \in StartType
    BY DEF Captured, CaptureTyped
  <1>3. CASE Stable(start.first, start.observed, start.values)
    <2>1. start' = [start EXCEPT !.phase = "activate"]
      BY <1>1, <1>3
    <2>2. /\ start' \in StartType /\ start'.phase = "activate" /\ start'.observed = start.observed
          /\ start'.head = start.head /\ start'.first = start.first
          /\ start'.headTree = start.headTree /\ start'.staged = start.staged
          /\ start'.seen = start.seen /\ start'.values = start.values
      BY <1>2, <2>1 DEF StartType
    <2>3. Capturing /\ Capturing'
      BY <1>1, <2>2 DEF Capturing
    <2>4. PassRuns'
      BY <1>1, <2>2 DEF Captured, PassRuns, Looking
    <2>5. MomentKept'
      BY <1>1, <2>2, <2>3 DEF Captured, MomentKept, FirstRead, SecondRead, FirstLook, Looking
    <2>6. Compared'
      BY <1>1, <1>3, <2>2 DEF Compared, Stable, ToRead
    <2> QED
      BY <1>1, <1>2, <2>2, <2>3, <2>4, <2>5, <2>6, StartGoesOn
  <1>4. CASE ~Stable(start.first, start.observed, start.values) /\ start.attempt < MaxAttempts
    <2>1. start' = [start EXCEPT !.phase = "observe", !.attempt = @ + 1, !.first = NotRead]
      BY <1>1, <1>4
    <2>2. start.attempt + 1 \in 0..MaxAttempts
      BY <1>2, <1>4, BaselineAssumption DEF StartType
    <2>3. /\ start' \in StartType /\ start'.phase = "observe"
          /\ start'.head = start.head /\ start'.first = NotRead
      BY <1>2, <2>1, <2>2 DEF StartType
    <2>4. Capturing /\ Capturing'
      BY <1>1, <2>3 DEF Capturing
    <2>5. PassRuns' /\ MomentKept' /\ Compared'
      BY <2>3 DEF PassRuns, MomentKept, Compared, Looking
    <2> QED
      BY <1>1, <1>2, <2>3, <2>4, <2>5, StartGoesOn
  <1>5. CASE ~Stable(start.first, start.observed, start.values) /\ ~(start.attempt < MaxAttempts)
    BY <1>1, <1>5, StartFails
  <1> QED
    BY <1>3, <1>4, <1>5

\* What a comparison that succeeded shows: the records describe the moment.
LEMMA ActivatedTrue ==
    ASSUME Captured, start.phase = "activate", OneRecordEach(Entries(start.first)),
           Len(commits) = start.head
    PROVE  /\ Entries(start.first) \subseteq EntryType
           /\ start.head \in 1..Len(commits) /\ moment \in Tree
           /\ \A e \in Entries(start.first) : EntryTrue(e, moment[e.path])
           /\ \A p \in Paths \ EntryPaths(Entries(start.first)) :
                  \/ moment[p] = commits[start.head][p]
                  \/ moment[p] = Absent /\ \E e \in Entries(start.first) : e.renamed
  <1> DEFINE first == start.first
             entries == Entries(first)
             head == commits[start.head]
  <1>1. Capturing /\ start.phase \in Looking
    BY DEF Capturing, Looking
  <1>2. /\ first # NotRead
        /\ first.observed = start.observed
        /\ \A o \in start.observed :
               ~o.deleted => Same(first.values[o.path], start.values[o.path])
        /\ \A o \in start.observed : ~o.deleted => start.values[o.path] # NotRead
    BY DEF Captured, Compared, Stable
  <1>3. /\ moment \in Tree /\ FirstRead /\ SecondRead
        /\ \E h \in Tree, s \in Tree, t \in Tree : FirstLook(h, s, t)
    BY <1>1, <1>2 DEF Captured, MomentKept
  <1>4. PICK h \in Tree, s \in Tree, t \in Tree : FirstLook(h, s, t)
    BY <1>3
  <1>5. /\ start.headTree \in Tree /\ start.staged \in Tree /\ start.seen \in Tree
        /\ start.observed = Observations(start.headTree, start.staged, start.seen)
        /\ start.headTree = head
    BY <1>1 DEF Captured, PassRuns, Looking
  <1>6. /\ first.observed = Observations(h, s, t) /\ h = head
        /\ \A p \in Paths : start.seen[p] = t[p] => t[p] = moment[p]
    BY <1>1, <1>4 DEF FirstLook
  <1>7. start.observed \subseteq Observation
    BY <1>5, RecordTypes
  <1>8. start.head \in 1..Len(commits)
    BY <1>1 DEF Captured, HeadWas
  <1>9. ASSUME NEW o \in start.observed, ~o.deleted
        PROVE  /\ o.path \in Paths /\ first.values[o.path] = moment[o.path]
               /\ moment[o.path] \in Objects
               /\ o.mode # NoMode => o.mode = Mode[moment[o.path]]
    <2>1. o.path \in Paths
      BY <1>7 DEF Observation
    <2>2. first.values[o.path] = moment[o.path] /\ start.seen[o.path] = moment[o.path]
      BY <1>1, <1>2, <1>3, <1>9, <2>1 DEF SecondRead, FirstRead
    <2>3. moment[o.path] # Absent
      BY <1>2, <1>9, <2>2 DEF Same
    <2>4. moment[o.path] \in Objects
      BY <1>3, <2>1, <2>3 DEF Tree
    <2>5. o.mode # NoMode => o.mode = Mode[start.seen[o.path]]
      BY <1>5, RecordTypes
    <2> QED
      BY <2>1, <2>2, <2>4, <2>5
  <1>10. ASSUME NEW o \in start.observed, o.deleted
         PROVE  moment[o.path] = Absent
    <2>1. o.path \in Paths
      BY <1>7 DEF Observation
    <2>2. \A u \in start.observed : u.path = o.path => u.deleted
      <3>1. SUFFICES ASSUME NEW u \in start.observed, u.path = o.path PROVE u.deleted
        OBVIOUS
      <3>2. entryFor(o, first.values) \in entries /\ entryFor(u, first.values) \in entries
        BY <1>2 DEF Entries
      <3>3. entryFor(o, first.values).path = entryFor(u, first.values).path
        BY <3>1 DEF entryFor
      <3>4. entryFor(o, first.values) = entryFor(u, first.values)
        BY <3>2, <3>3 DEF OneRecordEach
      <3>5. /\ entryFor(o, first.values).deleted <=> o.deleted
            /\ entryFor(u, first.values).deleted <=> u.deleted
        BY Zenon DEF entryFor
      <3> QED
        BY <1>10, <3>4, <3>5
    <2>3. start.seen[o.path] = Absent
      BY <1>5, <1>10, <2>2, DeletedIsAbsent
    <2>4. t[o.path] = Absent
      BY <1>2, <1>6, <1>10, <2>2, DeletedIsAbsent
    <2> QED
      BY <1>6, <2>1, <2>3, <2>4
  <1>11. ASSUME NEW e \in entries
         PROVE  e \in EntryType /\ EntryTrue(e, moment[e.path])
    <2>1. PICK o \in start.observed : e = entryFor(o, first.values)
      BY <1>2 DEF Entries
    <2>2. o \in Observation
      BY <1>7
    <2>3. /\ e.path = o.path /\ e.mode = o.mode
          /\ e.object = IF o.deleted THEN Absent ELSE first.values[o.path]
      BY <2>1 DEF entryFor
    <2>4. e.deleted <=> o.deleted
      BY <2>1, Zenon DEF entryFor
    <2>5. (IF o.deleted THEN Absent ELSE first.values[o.path]) \in Objects \cup {Absent}
      BY <1>9
    <2>6. e \in EntryType
      BY <2>1, <2>2, <2>5 DEF entryFor, EntryType, Observation, FileModes
    <2>7. EntryTrue(e, moment[e.path])
      <3>1. CASE o.deleted
        BY <1>10, <2>3, <2>4, <3>1 DEF EntryTrue
      <3>2. CASE ~o.deleted
        BY <1>9, <2>3, <2>4, <3>2, BaselineAssumption DEF EntryTrue
      <3> QED
        BY <3>1, <3>2
    <2> QED
      BY <2>6, <2>7
  <1>12. ASSUME NEW p \in Paths \ EntryPaths(entries)
         PROVE  \/ moment[p] = head[p]
                \/ moment[p] = Absent /\ \E e \in entries : e.renamed
    <2>1. \A o \in start.observed : o.path # p
      <3>1. SUFFICES ASSUME NEW o \in start.observed, o.path = p PROVE FALSE
        OBVIOUS
      <3>2. entryFor(o, first.values) \in entries /\ entryFor(o, first.values).path = p
        BY <1>2, <3>1 DEF Entries, entryFor
      <3> QED
        BY <3>2 DEF EntryPaths
    <2>2. /\ t[p] = start.seen[p]
          /\ \/ t[p] = head[p]
             \/ t[p] = Absent /\ \E o \in start.observed : o.renamed
      <3> DEFINE s2 == start.staged
                 t2 == start.seen
      <3>1. h = start.headTree
        BY <1>5, <1>6
      <3>2. Observations(h, s, t) = start.observed /\ Observations(h, s2, t2) = start.observed
        BY <1>2, <1>5, <1>6, <3>1
      <3> HIDE DEF s2, t2
      <3>3. \/ t[p] = h[p]
            \/ t[p] = Absent /\ \E o \in Observations(h, s, t) : o.renamed
        <4>1. p \in Paths /\ \A o \in Observations(h, s, t) : o.path # p
          BY <2>1, <3>2
        <4> QED
          BY <4>1, UnrecordedPath, RecordedRename
      <3>4. ASSUME NEW a, NEW b, Observations(h, s, t) = Observations(h, a, b)
            PROVE  t[p] = b[p]
        BY <2>1, <3>2, <3>4, SameRecords
      <3> QED
        BY <1>6, <3>2, <3>3, <3>4 DEF t2
    <2>3. t[p] = moment[p]
      BY <1>6, <2>2
    <2>4. ASSUME NEW o \in start.observed, o.renamed
          PROVE  \E e \in entries : e.renamed
      <3>1. entryFor(o, first.values) \in entries
        BY <1>2 DEF Entries
      <3>2. entryFor(o, first.values).renamed
        BY <2>4, Zenon DEF entryFor
      <3> QED
        BY <3>1, <3>2
    <2> QED
      BY <2>2, <2>3, <2>4
  <1> QED
    BY <1>3, <1>8, <1>11, <1>12

LEMMA StartActivateCaptured ==
    ASSUME Captured, StartActivate
    PROVE  Captured'
  <1>1. /\ start.phase = "activate"
        /\ past' = NoPast
        /\ UNCHANGED <<commits, index, disk, moment>>
    BY DEF StartActivate, treeVars
  <1>2. past' \in [Paths -> SUBSET Held] /\ moment' \in ReadTree
    BY <1>1 DEF NoPast, Captured, CaptureTyped
  <1>3. CASE OneRecordEach(Entries(start.first)) /\ Len(commits) = start.head
    <2>1. /\ start' = [Idle EXCEPT !.phase = "active"]
          /\ baseline' = [state |-> "intact", head |-> start.head,
                            entries |-> Entries(start.first)]
      BY <1>3 DEF StartActivate
    <2>2. start' \in StartType /\ start'.phase = "active"
      BY <2>1, IdleTyped DEF StartType
    <2>3. /\ Entries(start.first) \subseteq EntryType
          /\ start.head \in 1..Len(commits) /\ moment \in Tree
          /\ \A e \in Entries(start.first) : EntryTrue(e, moment[e.path])
          /\ \A p \in Paths \ EntryPaths(Entries(start.first)) :
                 \/ moment[p] = commits[start.head][p]
                 \/ moment[p] = Absent /\ \E e \in Entries(start.first) : e.renamed
      BY <1>1, <1>3, ActivatedTrue
    <2>4. Len(commits) \in Nat
      BY DEF Captured, CaptureTyped
    <2>5. /\ baseline'.state = "intact" /\ baseline'.head = start.head
          /\ baseline'.entries = Entries(start.first)
      BY <2>1
    <2>6. baseline' \in BaselineType
      BY <2>1, <2>3, <2>4 DEF BaselineType
    <2>7. CaptureTyped'
      BY <1>1, <1>2, <2>2, <2>6 DEF Captured, CaptureTyped
    <2>8. PastIsGone' /\ HeadWas' /\ PassRuns' /\ MomentKept' /\ Compared'
      BY <2>2 DEF PastIsGone, HeadWas, PassRuns, MomentKept, Compared, Capturing, Looking
    <2>9. BaselineTrue'
      BY <1>1, <1>3, <2>2, <2>3, <2>5 DEF BaselineTrue
    <2> QED
      BY <2>7, <2>8, <2>9 DEF Captured
  <1>4. CASE ~(OneRecordEach(Entries(start.first)) /\ Len(commits) = start.head)
    <2>1. start' = Failed /\ baseline' = baseline
      BY <1>4 DEF StartActivate
    <2>2. start' \in StartType /\ start'.phase = "failed"
      BY <2>1, FailedTyped
    <2>3. PastIsGone' /\ HeadWas' /\ PassRuns' /\ MomentKept' /\ Compared'
      BY <2>2 DEF PastIsGone, HeadWas, PassRuns, MomentKept, Compared, Capturing, Looking
    <2> QED
      BY <1>1, <1>2, <2>1, <2>2, <2>3, StartStep
  <1> QED
    BY <1>3, <1>4

LEMMA InitCaptured ==
    ASSUME Init
    PROVE  Captured
  <1>1. /\ commits \in {<<tree>> : tree \in InitialHead}
        /\ \E trees \in InitialTrees : index = trees[1] /\ disk = trees[2]
        /\ baseline = [state |-> "none", head |-> 0, entries |-> {}]
        /\ start = Idle /\ past = NoPast /\ moment = Unread
    BY DEF Init
  <1>2. commits \in Seq(Tree) /\ commits # <<>> /\ index \in Tree /\ disk \in Tree
    <2>1. InitialHead \subseteq Tree /\ InitialTrees \subseteq Tree \X Tree
      BY BaselineAssumption
    <2> HIDE DEF Tree
    <2> QED
      BY <1>1, <2>1
  <1>3. CaptureTyped
    BY <1>1, <1>2, IdleTyped, UnreadTyped DEF CaptureTyped, NoPast, BaselineType
  <1> QED
    BY <1>1, <1>3, IdleTyped DEF Captured, PastIsGone, HeadWas, PassRuns, MomentKept, Compared,
       BaselineTrue, Capturing, Looking

LEMMA StepCaptured ==
    ASSUME Captured, [Next]_vars
    PROVE  Captured'
  <1>1. CASE User
    BY <1>1, UserCaptured
  <1>2. CASE Start
    BY <1>2, StartBeginCaptured, StartObserveCaptured, StartListCaptured, StartSecondPassCaptured,
       StartCompareCaptured, StartActivateCaptured, StartScanCaptured, readObservedValueCaptured
       DEF Start
  <1>3. CASE Check
    BY <1>3, CheckCaptured
  <1>4. CASE UNCHANGED vars
    BY <1>4, RestsCaptured DEF vars, treeVars, ghosts
  <1> QED
    BY <1>1, <1>2, <1>3, <1>4 DEF Next

\* The capture and the evidence it leaves are as Captured says in every state.
THEOREM CaptureIsTrue == Spec => []Captured
  <1>1. Init => Captured
    BY InitCaptured
  <1>2. Captured /\ [Next]_vars => Captured'
    BY StepCaptured
  <1> QED
    BY <1>1, <1>2, PTL DEF Spec

\* The baseline of an active contract is the working tree as it was at one moment,
\* although git status and the reading of the paths took many steps with the user
\* editing, staging and committing in between (captureBaseline, capture.ts).  It is
\* about the trees START reads: it refuses those with a staged deletion or a change
\* of kind (observe.ts:50, 81), and these get no baseline.
THEOREM BaselineOfOneMoment == Spec => []BaselineIsOneMoment
  <1>1. Captured => BaselineIsOneMoment
    <2>1. SUFFICES ASSUME Captured, baseline.state = "intact", NEW p \in Paths
                   PROVE  IF p \in EntryPaths(baseline.entries)
                          THEN \A e \in baseline.entries : e.path = p => EntryExplains(e, moment[p])
                          ELSE \/ moment[p] = commits[baseline.head][p]
                               \/ moment[p] = Absent /\ \E e \in baseline.entries : e.renamed
      BY DEF BaselineIsOneMoment
    <2>2. BaselineTrue /\ baseline.state # "none"
      BY <2>1 DEF Captured
    <2>3. ASSUME NEW e \in baseline.entries, e.path = p
          PROVE  EntryExplains(e, moment[p])
      BY <2>2, <2>3 DEF BaselineTrue, EntryTrue, EntryExplains, Same
    <2> QED
      BY <2>2, <2>3 DEF BaselineTrue
  <1> QED
    BY <1>1, CaptureIsTrue, PTL

-----------------------------------------------------------------------------
(* The contract.                                                             *)

\* Each path in the history is allowed: an amendment adds none that is denied, and
\* none changes what is.
AddedAllowed(c) ==
    \A i \in DOMAIN c.scopeHistory : \A p \in c.scopeHistory[i] : PathAllowed(c, p)

LEMMA AmendKeepsAllowed ==
    ASSUME NEW c, ContractTyped(c), NEW request \in AmendRequest,
           prepareScopeAmendment(c, request), NEW p \in Paths, PathAllowed(c, p)
    PROVE  PathAllowed(amendContractUnderLock(c, request), p)
  <1> DEFINE d == amendContractUnderLock(c, request)
             added == {LiteralPattern(PathChars[q]) : q \in request.paths}
  <1>1. d.allow = c.allow \cup added /\ d.deny = c.deny
    BY DEF amendContractUnderLock, ContractTyped
  <1> HIDE DEF d
  <1>2. MatchedDeny(d, p) <=> MatchedDeny(c, p)
    BY <1>1 DEF MatchedDeny, matchPathPattern
  <1>3. CASE request.paths = {}
    <2>1. d.allow = c.allow
      BY <1>1, <1>3
    <2> QED
      BY <1>2, <2>1 DEF PathAllowed, MatchedAllow, d
  <1>4. CASE request.paths # {}
    <2>1. c.allow # {}
      BY <1>4 DEF prepareScopeAmendment
    <2>2. matchPathPattern(p, c.allow)
      BY <2>1 DEF PathAllowed, MatchedAllow
    <2>3. matchPathPattern(p, d.allow)
      BY <1>1, <2>2 DEF matchPathPattern
    <2> QED
      BY <1>2, <2>3 DEF PathAllowed, MatchedAllow, d
  <1> QED
    BY <1>3, <1>4

LEMMA AmendedAllowed ==
    ASSUME NEW c, ContractTyped(c), NEW request \in AmendRequest,
           prepareScopeAmendment(c, request), AddedAllowed(c)
    PROVE  AddedAllowed(amendContractUnderLock(c, request))
  <1> DEFINE d == amendContractUnderLock(c, request)
             added == {LiteralPattern(PathChars[p]) : p \in request.paths}
  <1>1. /\ d.allow = c.allow \cup added /\ d.deny = c.deny
        /\ d.scopeHistory = IF request.paths = {} THEN c.scopeHistory
                            ELSE Append(c.scopeHistory, request.paths)
    BY DEF amendContractUnderLock, ContractTyped
  <1>2. c.scopeHistory \in Seq(SUBSET Paths)
    BY DEF ContractTyped
  <1>3. request.paths \in SUBSET Paths
    BY DEF AmendRequest
  <1> HIDE DEF d
  <1>4. ASSUME NEW p \in Paths, PathAllowed(c, p) PROVE PathAllowed(d, p)
    BY <1>4, AmendKeepsAllowed DEF d
  <1>5. ASSUME NEW p \in request.paths PROVE PathAllowed(d, p)
    <2>1. ~MatchedDeny(d, p)
      BY <1>1 DEF MatchedDeny, prepareScopeAmendment, matchPathPattern
    <2>2. LiteralPattern(PathChars[p]) \in d.allow
      BY <1>1
    <2>3. matchesPath(PathChars[p], LiteralPattern(PathChars[p]))
      BY <1>3, PathAssumption, LiteralMatches
    <2>4. matchPathPattern(p, d.allow)
      BY <2>2, <2>3 DEF matchPathPattern
    <2> QED
      BY <2>1, <2>4 DEF PathAllowed, MatchedAllow
  <1>6. ASSUME NEW i \in DOMAIN d.scopeHistory, NEW p \in d.scopeHistory[i]
        PROVE  PathAllowed(d, p)
    <2>1. CASE i \in DOMAIN c.scopeHistory /\ d.scopeHistory[i] = c.scopeHistory[i]
      BY <1>2, <1>4, <1>6, <2>1 DEF AddedAllowed
    <2>2. CASE d.scopeHistory[i] = request.paths
      BY <1>5, <1>6, <2>2
    <2>3. \/ i \in DOMAIN c.scopeHistory /\ d.scopeHistory[i] = c.scopeHistory[i]
          \/ d.scopeHistory[i] = request.paths
      BY <1>1, <1>2, <1>3
    <2> QED
      BY <2>1, <2>2, <2>3
  <1>7. AddedAllowed(d)
    BY <1>6 DEF AddedAllowed
  <1> QED
    BY <1>7 DEF d

ContractKept ==
    ContractTyped(contract) /\ HistoriesExplainBudget(contract) /\ AddedAllowed(contract)

LEMMA InitContract ==
    ASSUME Init
    PROVE  ContractKept
  <1>1. ContractTyped(contract) /\ contract.budgetHistory = <<>> /\ contract.scopeHistory = <<>>
    BY BaselineAssumption DEF Init
  <1> QED
    BY <1>1 DEF ContractKept, HistoriesExplainBudget, validateBudgetAmendments,
       validateScopeAmendments, FieldExplained, AddedAllowed

LEMMA StepContract ==
    ASSUME ContractKept, [Next]_vars
    PROVE  ContractKept'
  <1>1. ASSUME NEW request \in Requests, Amend(request)
        PROVE  ContractKept'
    <2>1. request \in AmendRequest
      BY BaselineAssumption
    <2>2. contract' = amendContractUnderLock(contract, request) /\ AmendAccepted(contract, request)
      BY <1>1 DEF Amend
    <2> QED
      BY <2>1, <2>2, AmendedTyped, AmendedBudget, AmendedScope, AmendedAllowed
      DEF ContractKept, HistoriesExplainBudget, AmendAccepted
  <1>2. CASE UNCHANGED contract
    BY <1>2 DEF ContractKept
  <1>3. CASE Start
    BY <1>2, <1>3 DEF Start, StartBegin, StartObserve, StartScan, StartList, readObservedValue,
       StartSecondPass, StartCompare, StartActivate
  <1>4. CASE Check
    BY <1>2, <1>4 DEF Check, CheckReturns, CheckBegin, getStackPolicyResolution,
       reloadBaselineEvidence, CheckNames, CheckStats, CheckOthers, CheckCollected,
       readCurrentBaselineValue, CheckEvaluate, CheckFails
  <1>5. CASE User
    BY <1>1, <1>2, <1>5 DEF User, Edit, Stage, Commit, WriteOverrides, LoseBaseline
  <1> QED
    BY <1>2, <1>3, <1>4, <1>5 DEF Next, vars

LEMMA ContractIsKept == Spec => []ContractKept
  <1>1. Init => ContractKept
    BY InitContract
  <1>2. ContractKept /\ [Next]_vars => ContractKept'
    BY StepContract
  <1> QED
    BY <1>1, <1>2, PTL DEF Spec

\* No sequence of amendments leads to a contract whose histories AMEND or CLOSE
\* refuse as corrupt, nor to one that does not allow a path they say was added
\* (budget-amendment.ts, scope-amendment.ts).
THEOREM HistoriesAccepted == Spec => []OwnHistoryAccepted
  <1>1. ContractKept => OwnHistoryAccepted
    BY DEF ContractKept, OwnHistoryAccepted, AddedAllowed
  <1> QED
    BY <1>1, ContractIsKept, PTL

-----------------------------------------------------------------------------
(* The CHECK.  What each of its commands found stays true of the paths the     *)
(* user leaves alone, so that the items account for all of them at the end.    *)

OneItemEach(items) == \A i, j \in items : i.path = j.path => i = j

NamesTrue(names) ==
    /\ DOMAIN names \subseteq Paths
    /\ \A p \in DOMAIN names : names[p].type \in ChangeTypes
    /\ \A p \in Paths \ touched :
           Revision[p] # TrackedTree(index, disk)[p] => p \in DOMAIN names

StatsTyped(stats) ==
    \A p \in DOMAIN stats :
        stats[p].added \in Nat /\ stats[p].removed \in Nat /\ stats[p].binary \in BOOLEAN

OthersTrue(others) ==
    /\ DOMAIN others \subseteq Paths
    /\ \A p \in DOMAIN others : others[p] \in BOOLEAN
    /\ \A p \in Paths \ touched : index[p] = Absent /\ disk[p] # Absent => p \in DOMAIN others

ItemsTyped(items) == items \subseteq ItemType /\ OneItemEach(items)

ItemsFound(items) ==
    \A p \in Paths \ touched : Revision[p] # disk[p] => \E i \in items : i.path = p

ValuesTrue(values) ==
    \A p \in Paths \ touched : values[p] # NotRead => values[p] = disk[p]

Judged ==
    /\ ItemsTyped(check.items)
    /\ \A p \in KeptChanges : \E i \in check.items : i.path = p
    /\ InheritedExcluded
    /\ check.result = evaluateBudgetCheck(check.budget, check.rules, check.items, NoEvidence)

CheckFields == {"phase", "mode", "budget", "rules", "names", "stats", "others", "values", "items",
                "result"}

CheckTyped ==
    /\ DOMAIN check = CheckFields
    /\ check.phase \in {"idle", "policy", "reload", "collect", "values", "done"}
    /\ check.mode \in {"none", "active", "draft"}
    /\ check.values \in ReadTree
    /\ check.result \in Decisions \cup {"none", "ERROR"}
    /\ touched \subseteq Paths

CheckRuns ==
    /\ check.mode = "active" => start.phase = "active"
    /\ check.phase \in {"idle", "policy", "reload", "collect"} =>
           check.items = NotRead /\ check.values = Unread
    /\ check.phase \in {"policy", "reload"} =>
           check.names = NotRead /\ check.stats = NotRead /\ check.others = NotRead
    /\ check.phase \in {"policy", "reload", "collect", "values"} \/ Evaluated =>
           ContractTyped(check.budget)
    /\ check.phase = "collect" =>
           /\ check.names # NotRead => NamesTrue(check.names)
           /\ check.stats # NotRead => StatsTyped(check.stats)
           /\ check.others # NotRead => OthersTrue(check.others)
    /\ check.phase = "values" =>
           ItemsTyped(check.items) /\ ItemsFound(check.items) /\ ValuesTrue(check.values)
    /\ Evaluated => Judged

Checked == CheckTyped /\ CheckRuns

LEMMA RevisionIsTree ==
    ASSUME Captured, Checked
    PROVE  Revision \in Tree
  <1>1. commits \in Seq(Tree) /\ commits # <<>>
    BY DEF Captured, CaptureTyped
  <1>2. CASE check.mode = "active"
    <2>1. baseline.head \in 1..Len(commits)
      BY <1>2 DEF Captured, BaselineTrue, Checked, CheckRuns
    <2> QED
      BY <1>1, <1>2, <2>1 DEF Revision
  <1>3. CASE check.mode # "active"
    BY <1>1, <1>3 DEF Revision, HeadTree
  <1> QED
    BY <1>2, <1>3

\* A step that leaves the CHECK and what it compares with alone, and touches the
\* tree only at paths it remembers as touched.
CheckGoesOn ==
    /\ check' = check /\ touched' \subseteq Paths
    /\ commits' = commits \/ \E tree \in Tree : commits' = Append(commits, tree)
    /\ Collecting => \A p \in Paths \ touched' :
           p \notin touched /\ index'[p] = index[p] /\ disk'[p] = disk[p]
    /\ BaseMoves => \A p \in Paths \ touched' : HeadTree'[p] = HeadTree[p]
    /\ start.phase = "active" =>
           /\ start'.phase = "active" /\ moment' = moment
           /\ baseline'.head = baseline.head /\ baseline'.entries = baseline.entries

\* It leaves the base alone too, for a CHECK that compares the tree with it.
Compares == check.phase \in {"collect", "values"} \/ Evaluated

LEMMA BaseIsRevision == Base = Revision
  BY DEF Base, Revision

LEMMA SameRevision ==
    ASSUME Captured, Checked, CheckGoesOn, Compares
    PROVE  \A p \in Paths \ touched' : Revision'[p] = Revision[p]
  <1>1. commits \in Seq(Tree) /\ commits # <<>>
    BY DEF Captured, CaptureTyped
  <1>2. \A i \in 1..Len(commits) : commits'[i] = commits[i]
    <2>1. CASE commits' = commits
      BY <2>1
    <2>2. CASE \E tree \in Tree : commits' = Append(commits, tree)
      BY <1>1, <2>2
    <2> QED
      BY <2>1, <2>2 DEF CheckGoesOn
  <1>3. CASE check.mode = "active"
    <2>1. start.phase = "active"
      BY <1>3 DEF Checked, CheckRuns
    <2>2. baseline.head \in 1..Len(commits) /\ baseline'.head = baseline.head /\ check' = check
      BY <2>1 DEF Captured, BaselineTrue, CheckGoesOn
    <2> QED
      BY <1>2, <1>3, <2>2 DEF Revision
  <1>4. CASE check.mode # "active"
    <2>1. 1 \in 1..Len(commits) /\ check' = check
      BY <1>1 DEF CheckGoesOn
    <2>2. CASE check.budget.base = "HEAD"
      <3>1. BaseMoves
        BY <1>4, <2>2 DEF BaseMoves, Compares, Collecting, Evaluated
      <3>2. Revision = HeadTree /\ Revision' = HeadTree'
        BY <1>4, <2>1, <2>2 DEF Revision
      <3> QED
        BY <3>1, <3>2 DEF CheckGoesOn
    <2>3. CASE check.budget.base # "HEAD"
      BY <1>2, <1>4, <2>1, <2>3 DEF Revision
    <2> QED
      BY <2>2, <2>3
  <1> QED
    BY <1>3, <1>4

LEMMA GoesOnChecked ==
    ASSUME Captured, Checked, CheckGoesOn
    PROVE  Checked'
  <1>1. check' = check
    BY DEF CheckGoesOn
  <1>9. Compares => \A p \in Paths \ touched' : Revision'[p] = Revision[p]
    BY SameRevision
  <1>2. CheckTyped'
    BY <1>1 DEF Checked, CheckTyped, CheckGoesOn
  <1>3. check.mode = "active" =>
            /\ start.phase = "active" /\ start'.phase = "active"
            /\ moment' = moment /\ baseline'.entries = baseline.entries
    BY DEF Checked, CheckRuns, CheckGoesOn
  <1>4. ASSUME check.phase = "collect", check.names # NotRead
        PROVE  NamesTrue(check.names)'
    <2>1. \A p \in Paths \ touched' : 
              /\ p \in Paths \ touched
              /\ TrackedTree(index, disk)'[p] = TrackedTree(index, disk)[p]
      BY <1>4 DEF CheckGoesOn, Collecting, TrackedTree
    <2>2. NamesTrue(check.names)
      BY <1>4 DEF Checked, CheckRuns
    <2> QED
      BY <1>1, <1>4, <1>9, <2>1, <2>2 DEF NamesTrue, Compares
  <1>5. ASSUME check.phase = "collect", check.others # NotRead
        PROVE  OthersTrue(check.others)'
    BY <1>1, <1>5 DEF Checked, CheckRuns, CheckGoesOn, Collecting, OthersTrue
  <1>6. ASSUME check.phase = "values"
        PROVE  ItemsFound(check.items)' /\ ValuesTrue(check.values)'
    <2>1. ItemsFound(check.items) /\ ValuesTrue(check.values)
      BY <1>6 DEF Checked, CheckRuns
    <2>2. \A p \in Paths \ touched' :
              p \in Paths \ touched /\ disk'[p] = disk[p] /\ Revision'[p] = Revision[p]
      BY <1>6, <1>9 DEF CheckGoesOn, Collecting, Compares
    <2> QED
      BY <1>1, <2>1, <2>2 DEF ItemsFound, ValuesTrue
  <1>7. ASSUME Evaluated
        PROVE  Judged'
    <2>1. Judged /\ \A p \in Paths \ touched' : p \in Paths \ touched /\ disk'[p] = disk[p]
      BY <1>7 DEF Checked, CheckRuns, Evaluated, CheckGoesOn, Collecting
    <2>2. CheckEntries' = CheckEntries
      BY <1>1, <1>3 DEF CheckEntries
    <2>3. ASSUME NEW p \in Paths \ touched'
          PROVE  ChangedSince(p)' => ChangedSince(p)
      <3>1. p \in EntryPaths(CheckEntries) => moment' = moment
        BY <1>3 DEF CheckEntries, EntryPaths
      <3>2. EntryPaths(CheckEntries)' = EntryPaths(CheckEntries)
        BY <2>2 DEF EntryPaths
      <3>3. Boundary(p)' = Boundary(p)
        <4>1. Revision'[p] = Revision[p]
          BY <1>7, <1>9 DEF Compares
        <4>2. Base = Revision /\ Base' = Revision'
          BY <1>1 DEF Base, Revision
        <4> QED
          BY <3>1, <3>2, <4>1, <4>2 DEF Boundary
      <3>4. ModeUnknown(p)' <=> ModeUnknown(p)
        BY <1>1, <1>3 DEF ModeUnknown
      <3>5. disk'[p] = disk[p]
        BY <2>1
      <3> QED
        BY <3>3, <3>4, <3>5 DEF ChangedSince, Same
    <2>4. \A p \in KeptChanges' : p \in KeptChanges
      BY <2>1, <2>3 DEF KeptChanges
    <2>5. InheritedExcluded'
      <3>1. SUFFICES ASSUME check.mode = "active" PROVE InheritedExcluded'
        BY <1>1 DEF InheritedExcluded
      <3>2. baseline'.entries = baseline.entries /\ moment' = moment /\ baseline.entries \subseteq EntryType
        BY <1>3, <3>1 DEF Captured, CaptureTyped, BaselineType
      <3>3. \A e \in baseline.entries : e.path \in Paths
        BY <3>2 DEF EntryType
      <3> QED
        BY <1>1, <1>7, <2>1, <3>1, <3>2, <3>3 DEF InheritedExcluded, Judged
    <2> QED
      BY <1>1, <2>1, <2>4, <2>5 DEF Judged
  <1>8. CheckRuns'
    <2>1. check'.mode = "active" => start'.phase = "active"
      BY <1>1, <1>3
    <2>2. Evaluated' <=> Evaluated
      BY <1>1 DEF Evaluated
    <2> QED
      BY <1>1, <1>4, <1>5, <1>6, <1>7, <2>1, <2>2 DEF Checked, CheckRuns, StatsTyped, ItemsTyped
  <1> QED
    BY <1>2, <1>8 DEF Checked

\* The steps of the user and of START.
LEMMA OthersChecked ==
    ASSUME Captured, Checked, User \/ Start
    PROVE  Checked'
  <1>1. ASSUME NEW p \in Paths, NEW o \in Objects \cup {Absent}, Edit(p, o) \/ Stage(p, o)
        PROVE  CheckGoesOn
    <2>1. /\ touched' = IF Collecting THEN touched \cup {p} ELSE {}
          /\ HeadTree' = HeadTree
          /\ UNCHANGED <<commits, start, check, baseline, moment>>
          /\ \/ disk' = [disk EXCEPT ![p] = o] /\ index' = index
             \/ index' = [index EXCEPT ![p] = o] /\ disk' = disk
      BY <1>1 DEF Edit, Stage, Move, HeadTree
    <2>2. disk \in Tree /\ index \in Tree /\ touched \subseteq Paths
      BY DEF Captured, CaptureTyped, Checked, CheckTyped
    <2> QED
      BY <2>1, <2>2 DEF CheckGoesOn, Tree
  <1>2. ASSUME Commit PROVE CheckGoesOn
    <2>1. commits' = Append(commits, index) /\ index \in Tree /\ touched \subseteq Paths
      BY <1>2 DEF Commit, Captured, CaptureTyped, Checked, CheckTyped
    <2>2. HeadTree' = index
      <3>1. commits \in Seq(Tree) /\ Len(commits) \in Nat
        BY DEF Captured, CaptureTyped
      <3> QED
        BY <2>1, <3>1 DEF HeadTree
    <2>3. /\ touched \subseteq touched' /\ touched' \subseteq Paths
          /\ BaseMoves => touched' = touched \cup {p \in Paths : index[p] # HeadTree[p]}
      BY <1>2, <2>1 DEF Commit
    <2>4. UNCHANGED <<index, disk, start, check, baseline, moment>>
      BY <1>2 DEF Commit
    <2> QED
      BY <2>1, <2>2, <2>3, <2>4 DEF CheckGoesOn
  <1>3. ASSUME LoseBaseline PROVE CheckGoesOn
    <2>1. /\ baseline' = [baseline EXCEPT !.state = "unsafe"]
          /\ baseline \in BaselineType /\ touched \subseteq Paths
      BY <1>3 DEF LoseBaseline, Captured, CaptureTyped, Checked, CheckTyped
    <2>2. baseline'.head = baseline.head /\ baseline'.entries = baseline.entries
      BY <2>1 DEF BaselineType
    <2> QED
      BY <1>3, <2>1, <2>2 DEF LoseBaseline, ghosts, treeVars, CheckGoesOn, HeadTree
  <1>4. ASSUME UNCHANGED <<commits, index, disk, start, check, baseline, moment, touched>>
        PROVE  CheckGoesOn
    BY <1>4 DEF CheckGoesOn, Checked, CheckTyped, HeadTree
  <1>5. ASSUME Start PROVE CheckGoesOn
    <2>1. start.phase # "active" /\ UNCHANGED <<commits, index, disk, check, touched>>
      BY <1>5 DEF Start, StartBegin, StartObserve, StartScan, StartList, readObservedValue,
         StartSecondPass, StartCompare, StartActivate, PassRead, treeVars, ghosts
    <2> QED
      BY <2>1 DEF CheckGoesOn, Checked, CheckTyped, HeadTree
  <1>6. ASSUME User PROVE CheckGoesOn
    BY <1>1, <1>2, <1>3, <1>4, <1>6 DEF User, WriteOverrides, Amend, treeVars, ghosts
  <1> QED
    BY <1>5, <1>6, GoesOnChecked

\* The steps of the CHECK.
LEMMA NoCheckTyped ==
    /\ DOMAIN NoCheck = CheckFields
    /\ NoCheck.phase = "idle" /\ NoCheck.mode = "none" /\ NoCheck.result = "none"
    /\ NoCheck.names = NotRead /\ NoCheck.stats = NotRead /\ NoCheck.others = NotRead
    /\ NoCheck.items = NotRead /\ NoCheck.values = Unread
  BY DEF NoCheck, CheckFields

LEMMA AnswerChecked ==
    ASSUME Checked, NEW result \in Decisions \cup {"ERROR"}, check' = Answer(result),
           UNCHANGED <<start, touched>>
    PROVE  Checked'
  <1>1. /\ DOMAIN check' = CheckFields /\ check'.phase = "done" /\ check'.mode = check.mode
        /\ check'.result = result /\ check'.items = NotRead /\ check'.values = Unread
    BY NoCheckTyped DEF Answer, CheckFields
  <1>2. CheckTyped'
    BY <1>1, UnreadTyped DEF Checked, CheckTyped
  <1>3. CheckRuns'
    BY <1>1 DEF Checked, CheckRuns, Evaluated
  <1> QED
    BY <1>2, <1>3 DEF Checked

LEMMA CheckReturnsChecked ==
    ASSUME Checked, CheckReturns
    PROVE  Checked'
  <1>1. check' = NoCheck /\ touched' = {}
    BY DEF CheckReturns
  <1>2. CheckTyped'
    BY <1>1, NoCheckTyped, UnreadTyped DEF CheckTyped
  <1>3. CheckRuns'
    BY <1>1, NoCheckTyped DEF CheckRuns, Evaluated
  <1> QED
    BY <1>2, <1>3 DEF Checked

LEMMA CheckBeginChecked ==
    ASSUME Checked, ContractKept, NEW mode \in {"active", "draft"}, CheckBegin(mode)
    PROVE  Checked'
  <1>1. /\ start.phase \in (IF mode = "active" THEN {"active"} ELSE {"idle", "failed"})
        /\ check' = [NoCheck EXCEPT !.phase = "policy", !.mode = mode, !.budget = contract]
        /\ UNCHANGED <<start, touched>>
    BY DEF CheckBegin, ghosts
  <1>2. /\ DOMAIN check' = CheckFields /\ check'.phase = "policy" /\ check'.mode = mode
        /\ check'.budget = contract /\ check'.result = "none"
        /\ check'.names = NotRead /\ check'.stats = NotRead /\ check'.others = NotRead
        /\ check'.items = NotRead /\ check'.values = Unread
    BY <1>1, NoCheckTyped DEF CheckFields
  <1>3. CheckTyped'
    BY <1>1, <1>2, UnreadTyped DEF Checked, CheckTyped
  <1>4. CheckRuns'
    BY <1>1, <1>2 DEF CheckRuns, Evaluated, ContractKept
  <1> QED
    BY <1>3, <1>4 DEF Checked

LEMMA getStackPolicyResolutionChecked ==
    ASSUME Checked, getStackPolicyResolution
    PROVE  Checked'
  <1> DEFINE rules == resolveStackPolicy(check.budget.profile, overrides, check.budget.disabled)
  <1>1. /\ check.phase = "policy" /\ UNCHANGED <<start, touched>>
        /\ \/ check' = Answer("ERROR")
           \/ check' = [check EXCEPT !.phase = "reload", !.rules = rules]
    BY DEF getStackPolicyResolution, ghosts
  <1>2. CASE check' = Answer("ERROR")
    BY <1>1, <1>2, AnswerChecked
  <1>3. CASE check' = [check EXCEPT !.phase = "reload", !.rules = rules]
    <2> HIDE DEF rules
    <2>1. DOMAIN check = CheckFields
      BY DEF Checked, CheckTyped
    <2>2. /\ DOMAIN check' = CheckFields /\ check'.phase = "reload"
          /\ \A f \in CheckFields \ {"phase", "rules"} : check'[f] = check[f]
      BY <1>3, <2>1 DEF CheckFields
    <2>3. CheckTyped'
      BY <1>1, <2>2 DEF Checked, CheckTyped, CheckFields
    <2>4. CheckRuns'
      BY <1>1, <2>2 DEF Checked, CheckRuns, Evaluated, CheckFields
    <2> QED
      BY <2>3, <2>4 DEF Checked
  <1> QED
    BY <1>1, <1>2, <1>3

LEMMA reloadBaselineEvidenceChecked ==
    ASSUME Checked, reloadBaselineEvidence
    PROVE  Checked'
  <1>1. /\ check.phase = "reload" /\ UNCHANGED <<start, touched>>
        /\ \/ check' = Answer("HUMAN_REVIEW")
           \/ check' = [check EXCEPT !.phase = "collect"]
    BY DEF reloadBaselineEvidence, ghosts
  <1>2. CASE check' = Answer("HUMAN_REVIEW")
    BY <1>1, <1>2, AnswerChecked DEF Decisions
  <1>3. CASE check' = [check EXCEPT !.phase = "collect"]
    <2>1. DOMAIN check = CheckFields
      BY DEF Checked, CheckTyped
    <2>2. /\ DOMAIN check' = CheckFields /\ check'.phase = "collect"
          /\ \A f \in CheckFields \ {"phase"} : check'[f] = check[f]
      BY <1>3, <2>1 DEF CheckFields
    <2>3. CheckTyped'
      BY <1>1, <2>2 DEF Checked, CheckTyped, CheckFields
    <2>4. CheckRuns'
      BY <1>1, <2>2 DEF Checked, CheckRuns, Evaluated, CheckFields
    <2> QED
      BY <2>3, <2>4 DEF Checked
  <1> QED
    BY <1>1, <1>2, <1>3

\* What git says is true of the tree it reads.
LEMMA NamesAreTrue ==
    ASSUME NEW revision \in Tree, NEW staged \in Tree, NEW tree \in Tree
    PROVE  LET names == NameStatus(revision, staged, tree)
           IN  /\ DOMAIN names =
                      {p \in Paths : revision[p] # TrackedTree(staged, tree)[p]}
               /\ \A p \in DOMAIN names : names[p].type \in ChangeTypes
  BY DEF NameStatus, ChangeTypes

LEMMA StatsAreTyped ==
    ASSUME NEW revision \in Tree, NEW staged \in Tree, NEW tree \in Tree
    PROVE  StatsTyped(Numstat(revision, staged, tree))
  <1> DEFINE now == TrackedTree(staged, tree)
             stats == Numstat(revision, staged, tree)
             renames == RenamePairs(revision, now)
             Lines(p, tree1, tree2) ==
                 IF tree1[p] = Absent \/ Same(tree1[p], tree2[p]) \/ Pairing(p, renames) # "none"
                 THEN 0 ELSE LineCount[tree1[p]]
  <1>1. now \in Tree
    BY DEF TrackedTree, Tree
  <1>2. stats = [p \in {q \in Paths : revision[q] # now[q]} |->
                    [pair |-> Pairing(p, renames),
                     added |-> Lines(p, now, revision), removed |-> Lines(p, revision, now),
                     binary |-> {revision[p], now[p]} \cap Binary # {}]]
    BY DEF Numstat
  <1>3. ASSUME NEW p \in Paths, NEW tree1 \in Tree, NEW tree2
        PROVE  Lines(p, tree1, tree2) \in Nat
    BY BaselineAssumption DEF Tree
  <1> HIDE DEF now, stats, renames, Lines
  <1>4. ASSUME NEW p \in DOMAIN stats
        PROVE  /\ stats[p].added \in Nat /\ stats[p].removed \in Nat
               /\ stats[p].binary \in BOOLEAN
    <2>1. p \in Paths
      BY <1>2
    <2>2. stats[p] = [pair |-> Pairing(p, renames),
                      added |-> Lines(p, now, revision), removed |-> Lines(p, revision, now),
                      binary |-> {revision[p], now[p]} \cap Binary # {}]
      BY <1>2
    <2>3. stats[p].added = Lines(p, now, revision) /\ stats[p].removed = Lines(p, revision, now)
      BY <2>2
    <2>4. stats[p].binary \in BOOLEAN
      BY <2>2
    <2> QED
      BY <1>1, <1>3, <2>1, <2>3, <2>4
  <1>5. StatsTyped(stats)
    BY <1>4 DEF StatsTyped
  <1> QED
    BY <1>5 DEF stats

\* A git command of the CHECK that has answered.
LEMMA CollectChecked ==
    ASSUME Captured, Checked, CheckNames \/ CheckStats \/ CheckOthers
    PROVE  Checked'
  <1> DEFINE names == NameStatus(Revision, index, disk)
             stats == Numstat(Revision, index, disk)
             others == Others(index, disk)
  <1>1. /\ check.phase = "collect"
        /\ UNCHANGED <<commits, index, disk, start, baseline, touched>>
        /\ \/ check' = [check EXCEPT !.names = names]
           \/ check' = [check EXCEPT !.stats = stats]
           \/ check' = [check EXCEPT !.others = others]
    BY DEF CheckNames, CheckStats, CheckOthers, treeVars, ghosts
  <1>2. Revision \in Tree /\ index \in Tree /\ disk \in Tree
    BY RevisionIsTree DEF Captured, CaptureTyped
  <1>3. NamesTrue(names)
    <2>1. /\ DOMAIN names = {p \in Paths : Revision[p] # TrackedTree(index, disk)[p]}
          /\ \A p \in DOMAIN names : names[p].type \in ChangeTypes
      BY <1>2, NamesAreTrue
    <2> HIDE DEF names
    <2> QED
      BY <2>1 DEF NamesTrue
  <1>4. StatsTyped(stats)
    BY <1>2, StatsAreTyped
  <1>5. OthersTrue(others)
    <2>1. others = [p \in {q \in Paths : index[q] = Absent /\ disk[q] # Absent} |->
                        disk[p] \in Binary]
      BY DEF Others
    <2> HIDE DEF others
    <2>2. DOMAIN others = {q \in Paths : index[q] = Absent /\ disk[q] # Absent}
      BY <2>1
    <2>3. ASSUME NEW p \in DOMAIN others PROVE others[p] \in BOOLEAN
      <3>1. (disk[p] \in Binary) \in BOOLEAN
        OBVIOUS
      <3>2. others[p] = (disk[p] \in Binary)
        BY <2>1, <2>2, Zenon
      <3> QED
        BY <3>1, <3>2, Zenon
    <2> QED
      BY <2>2, <2>3 DEF OthersTrue
  <1> HIDE DEF names, stats, others
  <1>6. /\ DOMAIN check' = CheckFields
        /\ \A f \in CheckFields \ {"names", "stats", "others"} : check'[f] = check[f]
        /\ check'.names \in {check.names, names}
        /\ check'.stats \in {check.stats, stats}
        /\ check'.others \in {check.others, others}
    <2>1. DOMAIN check = CheckFields
      BY DEF Checked, CheckTyped
    <2> QED
      BY <1>1, <2>1 DEF CheckFields
  <1>7. /\ check'.phase = "collect" /\ check'.mode = check.mode /\ check'.budget = check.budget
        /\ check'.values = check.values /\ check'.items = check.items
        /\ check'.result = check.result
    BY <1>1, <1>6 DEF CheckFields
  <1>8. Revision' = Revision
    BY <1>1, <1>7 DEF Revision, HeadTree
  <1>9. CheckTyped'
    BY <1>1, <1>6, <1>7 DEF Checked, CheckTyped
  <1>10. CheckRuns'
    <2>1. check'.names # NotRead => NamesTrue(check'.names)
      BY <1>1, <1>3, <1>6 DEF Checked, CheckRuns
    <2>2. check'.stats # NotRead => StatsTyped(check'.stats)
      BY <1>1, <1>4, <1>6 DEF Checked, CheckRuns
    <2>3. check'.others # NotRead => OthersTrue(check'.others)
      BY <1>1, <1>5, <1>6 DEF Checked, CheckRuns
    <2>4. /\ check'.names # NotRead => NamesTrue(check.names)'
          /\ check'.stats # NotRead => StatsTyped(check.stats)'
          /\ check'.others # NotRead => OthersTrue(check.others)'
      BY <1>1, <1>8, <2>1, <2>2, <2>3 DEF NamesTrue, StatsTyped, OthersTrue, TrackedTree
    <2>5. ~Evaluated'
      BY <1>7 DEF Evaluated
    <2> QED
      BY <1>1, <1>7, <2>4, <2>5 DEF Checked, CheckRuns
  <1> QED
    BY <1>9, <1>10 DEF Checked

\* The items of git's three answers: one for each path they name, and none is
\* missing of those the user has not touched meanwhile.
LEMMA ItemsAreFound ==
    ASSUME Captured, Checked, NEW names, NEW stats, NEW others,
           NamesTrue(names), StatsTyped(stats), OthersTrue(others)
    PROVE  LET items == collectChangedItems(names, stats, others)
           IN  ItemsTyped(items) /\ ItemsFound(items)
  <1> DEFINE items == collectChangedItems(names, stats, others)
             item(p) == ChangedItem(p, names, stats, others)
  <1>1. items = {item(p) : p \in DOMAIN names \cup DOMAIN others}
    BY DEF collectChangedItems
  <1>2. ASSUME NEW p \in DOMAIN names \cup DOMAIN others
        PROVE  item(p) \in ItemType /\ item(p).path = p
    <2> DEFINE counted == /\ p \in DOMAIN names /\ p \in DOMAIN stats
                          /\ stats[p].pair = names[p].pair
               type == IF p \notin DOMAIN names THEN "added"
                       ELSE IF names[p].type = "deleted" /\ p \in DOMAIN others THEN "added"
                       ELSE names[p].type
               added == IF counted THEN stats[p].added ELSE 0
               removed == IF counted THEN stats[p].removed ELSE 0
               binary == (counted /\ stats[p].binary) \/ (p \in DOMAIN others /\ others[p])
    <2>1. item(p) = [path |-> p, type |-> type, added |-> added, removed |-> removed,
                     binary |-> binary]
      BY DEF ChangedItem
    <2>2. p \in Paths
      BY DEF NamesTrue, OthersTrue
    <2>3. type \in ChangeTypes
      BY DEF NamesTrue, ChangeTypes
    <2>4. added \in Nat /\ removed \in Nat
      BY DEF StatsTyped
    <2>5. binary \in BOOLEAN
      BY DEF StatsTyped, OthersTrue
    <2> HIDE DEF item, type, added, removed, binary
    <2> QED
      BY <2>1, <2>2, <2>3, <2>4, <2>5 DEF ItemType
  <1> HIDE DEF items, item
  <1>3. ItemsTyped(items)
    BY <1>1, <1>2 DEF ItemsTyped, OneItemEach
  <1>4. ItemsFound(items)
    <2>1. SUFFICES ASSUME NEW p \in Paths \ touched, Revision[p] # disk[p]
                   PROVE  p \in DOMAIN names \cup DOMAIN others
      BY <1>1, <1>2 DEF ItemsFound
    <2>2. TrackedTree(index, disk)[p] = IF index[p] = Absent THEN Absent ELSE disk[p]
      BY DEF TrackedTree
    <2> QED
      BY <2>1, <2>2 DEF NamesTrue, OthersTrue
  <1> QED
    BY <1>3, <1>4 DEF items

LEMMA CheckCollectedChecked ==
    ASSUME Captured, Checked, CheckCollected
    PROVE  Checked'
  <1> DEFINE items == collectChangedItems(check.names, check.stats, check.others)
  <1>1. /\ check.phase = "collect" /\ NotRead \notin {check.names, check.stats, check.others}
        /\ UNCHANGED <<commits, index, disk, start, baseline, touched>>
        /\ check' = [check EXCEPT !.phase = "values", !.names = NotRead, !.stats = NotRead,
                     !.others = NotRead, !.items = items]
    BY DEF CheckCollected, treeVars, ghosts
  <1>2. ItemsTyped(items) /\ ItemsFound(items)
    BY <1>1, ItemsAreFound DEF Checked, CheckRuns
  <1> HIDE DEF items
  <1>3. /\ DOMAIN check' = CheckFields /\ check'.phase = "values" /\ check'.mode = check.mode
        /\ check'.budget = check.budget /\ check'.values = check.values
        /\ check'.items = items /\ check'.result = check.result
    <2>1. DOMAIN check = CheckFields
      BY DEF Checked, CheckTyped
    <2> QED
      BY <1>1, <2>1 DEF CheckFields
  <1>4. Revision' = Revision
    BY <1>1, <1>3 DEF Revision, HeadTree
  <1>5. CheckTyped'
    BY <1>1, <1>3 DEF Checked, CheckTyped
  <1>6. CheckRuns'
    <2>1. ItemsTyped(check.items)' /\ ItemsFound(check.items)'
      BY <1>1, <1>2, <1>3, <1>4 DEF ItemsTyped, ItemsFound
    <2>2. ValuesTrue(check.values)'
      BY <1>1, <1>3 DEF Checked, CheckRuns, ValuesTrue, Unread
    <2>3. ~Evaluated'
      BY <1>3 DEF Evaluated
    <2> QED
      BY <1>1, <1>3, <2>1, <2>2, <2>3 DEF Checked, CheckRuns
  <1> QED
    BY <1>5, <1>6 DEF Checked

LEMMA readCurrentBaselineValueChecked ==
    ASSUME Captured, Checked, NEW p \in Paths, readCurrentBaselineValue(p)
    PROVE  Checked'
  <1>1. /\ check.phase = "values"
        /\ UNCHANGED <<commits, index, disk, start, baseline, touched>>
        /\ check' = [check EXCEPT !.values[p] = disk[p]]
    BY DEF readCurrentBaselineValue, treeVars, ghosts
  <1>2. disk \in Tree /\ check.values \in ReadTree /\ DOMAIN check = CheckFields
    BY DEF Captured, CaptureTyped, Checked, CheckTyped
  <1>3. /\ DOMAIN check' = CheckFields /\ check'.phase = "values" /\ check'.mode = check.mode
        /\ check'.budget = check.budget /\ check'.items = check.items
        /\ check'.result = check.result
        /\ check'.values = [check.values EXCEPT ![p] = disk[p]]
    BY <1>1, <1>2 DEF CheckFields
  <1>4. check'.values \in ReadTree
    BY <1>2, <1>3 DEF ReadTree, Tree
  <1>5. check'.values[p] = disk[p] /\ \A q \in Paths \ {p} : check'.values[q] = check.values[q]
    BY <1>2, <1>3 DEF ReadTree
  <1>6. Revision' = Revision
    BY <1>1, <1>3 DEF Revision, HeadTree
  <1>7. CheckTyped'
    BY <1>1, <1>3, <1>4 DEF Checked, CheckTyped
  <1>8. CheckRuns'
    <2>1. ItemsTyped(check.items)' /\ ItemsFound(check.items)'
      BY <1>1, <1>3, <1>6 DEF Checked, CheckRuns, ItemsTyped, ItemsFound
    <2>2. ValuesTrue(check.values)'
      BY <1>1, <1>3, <1>5 DEF Checked, CheckRuns, ValuesTrue
    <2>3. ~Evaluated'
      BY <1>3 DEF Evaluated
    <2> QED
      BY <1>1, <1>3, <2>1, <2>2, <2>3 DEF Checked, CheckRuns
  <1> QED
    BY <1>7, <1>8 DEF Checked

\* A path of the baseline is an item exactly when it is no longer what it was.
LEMMA ProjectedItems ==
    ASSUME NEW entries, entries \subseteq EntryType, OneRecordEach(entries),
           NEW items, ItemsTyped(items), NEW values
    PROVE  LET projected == projectBaselineChanges(entries, items, values)
           IN  /\ ItemsTyped(projected)
               /\ \A e \in entries : (\E i \in projected : i.path = e.path)
                                     <=> ~entryEquals(e, values[e.path])
               /\ \A i \in items : i.path \notin EntryPaths(entries) => i \in projected
  <1> DEFINE Moved == {e \in entries : ~entryEquals(e, values[e.path])}
             Unlisted == {e \in Moved : \A i \in items : i.path # e.path}
             Kept == {i \in items : \A e \in entries \ Moved : e.path # i.path}
             new(e) == [path |-> e.path, added |-> 0, removed |-> 0,
                        type |-> IF values[e.path] = Absent THEN "deleted" ELSE "modified",
                        binary |-> {e.object, values[e.path]} \cap Binary # {}]
             New == {new(e) : e \in Unlisted}
             projected == projectBaselineChanges(entries, items, values)
  <1>1. projected = Kept \cup New
    BY DEF projectBaselineChanges
  <1>2. ASSUME NEW e \in Unlisted PROVE new(e) \in ItemType /\ new(e).path = e.path
    <2>1. e.path \in Paths
      BY DEF EntryType
    <2>2. ({e.object, values[e.path]} \cap Binary # {}) \in BOOLEAN
      OBVIOUS
    <2>3. (IF values[e.path] = Absent THEN "deleted" ELSE "modified") \in ChangeTypes
      BY DEF ChangeTypes
    <2> QED
      BY <2>1, <2>2, <2>3 DEF ItemType
  <1>3. /\ items \subseteq ItemType /\ \A i, j \in items : i.path = j.path => i = j
        /\ \A e, f \in entries : e.path = f.path => e = f
    BY DEF ItemsTyped, OneItemEach, OneRecordEach
  <1>4. Moved \subseteq entries /\ Unlisted \subseteq Moved
        /\ \A e \in entries : e \in Moved <=> ~entryEquals(e, values[e.path])
    OBVIOUS
  <1> HIDE DEF Moved, projected, new
  <1>5. ItemsTyped(projected)
    <2>1. projected \subseteq ItemType
      BY <1>1, <1>2, <1>3
    <2>2. ASSUME NEW i \in projected, NEW j \in projected, i.path = j.path
          PROVE  i = j
      <3>1. CASE i \in Kept /\ j \in Kept
        BY <1>3, <2>2, <3>1
      <3>2. CASE i \in New /\ j \in New
        BY <1>2, <1>3, <1>4, <2>2, <3>2
      <3>3. CASE (i \in Kept /\ j \in New) \/ (i \in New /\ j \in Kept)
        BY <1>2, <2>2, <3>3
      <3> QED
        BY <1>1, <3>1, <3>2, <3>3
    <2> QED
      BY <2>1, <2>2 DEF ItemsTyped, OneItemEach
  <1>6. ASSUME NEW e \in Moved PROVE \E i \in projected : i.path = e.path
    <2>1. CASE e \in Unlisted
      BY <1>1, <1>2, <2>1
    <2>2. CASE e \notin Unlisted
      <3>1. PICK i \in items : i.path = e.path
        BY <2>2
      <3>2. i \in Kept
        BY <1>3, <1>4, <3>1
      <3> QED
        BY <1>1, <3>1, <3>2
    <2> QED
      BY <2>1, <2>2
  <1>7. ASSUME NEW e \in entries \ Moved, NEW i \in projected, i.path = e.path PROVE FALSE
    <2>1. CASE i \in Kept
      BY <1>7, <2>1
    <2>2. CASE i \in New
      <3>1. PICK f \in Unlisted : i = new(f)
        BY <2>2
      <3>2. f.path = e.path
        BY <1>2, <1>7, <3>1
      <3>3. f = e
        BY <1>3, <1>4, <3>2
      <3> QED
        BY <1>4, <3>3
    <2> QED
      BY <1>1, <2>1, <2>2
  <1>8. ASSUME NEW i \in items, i.path \notin EntryPaths(entries) PROVE i \in projected
    BY <1>1, <1>8 DEF EntryPaths
  <1> QED
    BY <1>4, <1>5, <1>6, <1>7, <1>8 DEF projected

\* What an entry that is true of the moment says of a path now.
LEMMA EntryCompares ==
    ASSUME NEW e \in EntryType, NEW was \in Objects \cup {Absent}, EntryTrue(e, was),
           NEW now \in Objects \cup {Absent}
    PROVE  /\ entryEquals(e, now) => now = was \/ (e.mode = NoMode /\ Same(now, was))
           /\ now = was /\ ~(e.mode = NoMode /\ ~e.deleted /\ Kind[e.object] = "symlink")
              => entryEquals(e, now)
  <1>1. e.deleted \in BOOLEAN
    BY DEF EntryType
  <1>2. CASE e.deleted
    BY <1>2 DEF EntryTrue, entryEquals
  <1>3. CASE ~e.deleted
    <2>1. /\ was \in Objects /\ e.object = was /\ (e.mode # NoMode => e.mode = Mode[was])
          /\ Kind[was] \in {"file", "symlink"}
      BY <1>3, BaselineAssumption DEF EntryTrue
    <2>2. entryEquals(e, now)
          <=> now # Absent /\ Same(was, now) /\ e.mode = CurrentMode(e, now)
      BY <1>3, <2>1 DEF entryEquals
    <2>3. ASSUME entryEquals(e, now)
          PROVE  now = was \/ (e.mode = NoMode /\ Same(now, was))
      <3>1. Same(now, was) /\ now \in Objects
        BY <2>2, <2>3 DEF Same
      <3>2. CASE e.mode # NoMode
        <4>1. Mode[now] = Mode[was]
          BY <2>1, <2>2, <2>3, <3>2 DEF CurrentMode
        <4> QED
          BY <2>1, <3>1, <4>1, BaselineAssumption DEF Same
      <3> QED
        BY <3>1, <3>2
    <2>4. ASSUME now = was, ~(e.mode = NoMode /\ Kind[e.object] = "symlink")
          PROVE  entryEquals(e, now)
      <3>1. now # Absent /\ Same(was, now)
        BY <2>1, <2>4, BaselineAssumption DEF Same
      <3>2. e.mode = CurrentMode(e, now)
        BY <2>1, <2>4, BaselineAssumption DEF CurrentMode
      <3> QED
        BY <2>2, <3>1, <3>2
    <2> QED
      BY <1>3, <2>3, <2>4
  <1> QED
    BY <1>1, <1>2, <1>3

LEMMA DecisionTyped ==
    ASSUME NEW budget, NEW rules, NEW items
    PROVE  evaluateBudgetCheck(budget, rules, items, NoEvidence) \in Decisions
  BY DEF evaluateBudgetCheck, Decisions

LEMMA CheckEvaluateChecked ==
    ASSUME Captured, Checked, CheckEvaluate
    PROVE  Checked'
  <1> DEFINE items == projectBaselineChanges(CheckEntries, check.items, check.values)
             decision == evaluateBudgetCheck(check.budget, check.rules, items, NoEvidence)
  <1>1. /\ check.phase = "values"
        /\ \A p \in EntryPaths(CheckEntries) : check.values[p] # NotRead
        /\ UNCHANGED <<commits, index, disk, start, baseline, moment, touched>>
        /\ check' = [check EXCEPT !.phase = "done", !.values = Unread, !.items = items,
                                  !.result = decision]
    BY DEF CheckEvaluate, treeVars, ghosts
  <1>2. /\ ItemsTyped(check.items) /\ ItemsFound(check.items) /\ ValuesTrue(check.values)
        /\ ContractTyped(check.budget)
    BY <1>1 DEF Checked, CheckRuns
  <1>3. /\ CheckEntries \subseteq EntryType /\ OneRecordEach(CheckEntries)
        /\ \A e \in CheckEntries :
               check.mode = "active" /\ moment \in Tree /\ EntryTrue(e, moment[e.path])
    <2>1. CASE check.mode = "active"
      <3>1. baseline.state # "none" /\ CheckEntries = baseline.entries
        BY <2>1 DEF Captured, BaselineTrue, Checked, CheckRuns, CheckEntries
      <3> QED
        BY <2>1, <3>1 DEF Captured, CaptureTyped, BaselineType, BaselineTrue
    <2>2. CASE check.mode # "active"
      BY <2>2 DEF CheckEntries, OneRecordEach
    <2> QED
      BY <2>1, <2>2
  <1>4. /\ ItemsTyped(items)
        /\ \A e \in CheckEntries : (\E i \in items : i.path = e.path)
                                   <=> ~entryEquals(e, check.values[e.path])
        /\ \A i \in check.items : i.path \notin EntryPaths(CheckEntries) => i \in items
    BY <1>2, <1>3, ProjectedItems
  <1>5. decision \in Decisions
    BY DecisionTyped
  <1> HIDE DEF items
  <1>6. ASSUME NEW e \in CheckEntries, e.path \notin touched
        PROVE  /\ e.path \in Paths /\ moment[e.path] \in Objects \cup {Absent}
               /\ disk[e.path] \in Objects \cup {Absent}
               /\ check.values[e.path] = disk[e.path]
    <2>1. e.path \in Paths /\ moment \in Tree /\ disk \in Tree
      BY <1>3 DEF EntryType, Captured, CaptureTyped
    <2>2. check.values[e.path] # NotRead
      BY <1>1 DEF EntryPaths
    <2> QED
      BY <1>2, <1>6, <2>1, <2>2 DEF ValuesTrue, Tree
  <1>7. ASSUME NEW p \in KeptChanges
        PROVE  \E i \in items : i.path = p
    <2>1. p \in Paths \ touched /\ ChangedSince(p)
      BY DEF KeptChanges
    <2>2. CASE p \in EntryPaths(CheckEntries)
      <3>1. PICK e \in CheckEntries : e.path = p
        BY <2>2 DEF EntryPaths
      <3>2. /\ disk[p] # moment[p]
            /\ ~(e.mode = NoMode /\ Same(disk[p], moment[p]))
        BY <1>3, <2>1, <2>2, <3>1 DEF ChangedSince, Boundary, ModeUnknown, CheckEntries
      <3>3. ~entryEquals(e, disk[p])
        BY <1>3, <1>6, <2>1, <3>1, <3>2, EntryCompares
      <3> QED
        BY <1>4, <1>6, <2>1, <3>1, <3>3
    <2>3. CASE p \notin EntryPaths(CheckEntries)
      <3>1. disk[p] # Revision[p]
        BY <2>1, <2>3, BaseIsRevision DEF ChangedSince, Boundary
      <3>2. PICK i \in check.items : i.path = p
        BY <1>2, <2>1, <3>1 DEF ItemsFound
      <3> QED
        BY <1>4, <2>3, <3>2
    <2> QED
      BY <2>2, <2>3
  <1>8. ASSUME NEW e \in CheckEntries, e.path \notin touched, disk[e.path] = moment[e.path],
               ~(e.mode = NoMode /\ ~e.deleted /\ Kind[e.object] = "symlink"),
               NEW i \in items, i.path = e.path
        PROVE  FALSE
    <2>1. entryEquals(e, disk[e.path])
      BY <1>3, <1>6, <1>8, EntryCompares
    <2> QED
      BY <1>4, <1>6, <1>8, <2>1
  <1>9. /\ DOMAIN check' = CheckFields /\ check'.phase = "done" /\ check'.mode = check.mode
        /\ check'.budget = check.budget /\ check'.rules = check.rules
        /\ check'.items = items /\ check'.result = decision /\ check'.values = Unread
    <2> HIDE DEF decision
    <2>1. DOMAIN check = CheckFields
      BY DEF Checked, CheckTyped
    <2> QED
      BY <1>1, <2>1 DEF CheckFields
  <1>10. CheckTyped'
    BY <1>1, <1>5, <1>9, UnreadTyped DEF Checked, CheckTyped
  <1>11. Judged'
    <2>1. KeptChanges' = KeptChanges
      BY <1>1, <1>9 DEF KeptChanges, ChangedSince, Boundary, CheckEntries, ModeUnknown, Base,
                        HeadTree
    <2>2. InheritedExcluded'
      <3>1. SUFFICES ASSUME check.mode = "active" PROVE InheritedExcluded'
        BY <1>9 DEF InheritedExcluded
      <3>2. baseline.entries = CheckEntries
        BY <3>1 DEF CheckEntries
      <3> QED
        BY <1>1, <1>8, <1>9, <3>2 DEF InheritedExcluded
    <2> QED
      BY <1>1, <1>4, <1>7, <1>9, <2>1, <2>2 DEF Judged
  <1>12. CheckRuns'
    BY <1>1, <1>2, <1>9, <1>11 DEF Checked, CheckRuns
  <1> QED
    BY <1>10, <1>12 DEF Checked

LEMMA CheckChecked ==
    ASSUME Captured, ContractKept, Checked, Check
    PROVE  Checked'
  <1>1. ASSUME NEW mode \in {"active", "draft"}, CheckBegin(mode) PROVE Checked'
    BY <1>1, CheckBeginChecked
  <1>2. ASSUME NEW p \in Paths, readCurrentBaselineValue(p) PROVE Checked'
    BY <1>2, readCurrentBaselineValueChecked
  <1>3. ASSUME NEW result \in {"ERROR", "HUMAN_REVIEW"}, CheckFails(result) PROVE Checked'
    <2>1. check' = Answer(result) /\ UNCHANGED <<start, touched>>
      BY <1>3 DEF CheckFails, ghosts
    <2> QED
      BY <1>3, <2>1, AnswerChecked DEF Decisions
  <1> QED
    BY <1>1, <1>2, <1>3, CheckReturnsChecked, getStackPolicyResolutionChecked,
       reloadBaselineEvidenceChecked, CollectChecked, CheckCollectedChecked, CheckEvaluateChecked
    DEF Check

LEMMA InitChecked ==
    ASSUME Init
    PROVE  Checked
  <1>1. check = NoCheck /\ touched = {}
    BY DEF Init
  <1> QED
    BY <1>1, NoCheckTyped, UnreadTyped DEF Checked, CheckTyped, CheckRuns, Evaluated

LEMMA StepChecked ==
    ASSUME Captured, ContractKept, Checked, [Next]_vars
    PROVE  Checked'
  <1>1. CASE User \/ Start
    BY <1>1, OthersChecked
  <1>2. CASE Check
    BY <1>2, CheckChecked
  <1>3. CASE UNCHANGED vars
    <2>1. CheckGoesOn
      BY <1>3 DEF vars, treeVars, ghosts, CheckGoesOn, Checked, CheckTyped, HeadTree
    <2> QED
      BY <2>1, GoesOnChecked
  <1> QED
    BY <1>1, <1>2, <1>3 DEF Next

\* A finished CHECK accounts for every path the user left alone while it read.
THEOREM CheckIsTrue == Spec => []Checked
  <1>1. Init => Checked
    BY InitChecked
  <1>2. Captured /\ ContractKept /\ Checked /\ [Next]_vars => Checked'
    BY StepChecked
  <1> QED
    BY <1>1, <1>2, ContractIsKept, CaptureIsTrue, PTL DEF Spec

\* The paths of a set of items with one for each are no more than the items.
LEMMA PathsCounted ==
    ASSUME NEW items, ItemsTyped(items),
           NEW S, S \subseteq Paths, \A p \in S : \E i \in items : i.path = p
    PROVE  /\ Cardinality(S) \in Nat /\ Cardinality(items) \in Nat
           /\ Cardinality(S) <= Cardinality(items)
  <1> DEFINE f == [i \in items |-> i.path]
             T == {f[i] : i \in items}
  <1>1. IsFiniteSet(Paths)
    BY BaselineAssumption
  <1>2. \A i \in items : i.path \in Paths
    BY DEF ItemsTyped, ItemType
  <1>3. IsFiniteSet(items)
    <2>1. f \in Injection(items, Paths)
      BY <1>2 DEF Injection, IsInjective, ItemsTyped, OneItemEach
    <2> HIDE DEF f
    <2> QED
      BY <1>1, <2>1, FS_Injection
  <1>4. IsFiniteSet(T) /\ Cardinality(T) <= Cardinality(items)
    <2>1. f \in Surjection(items, T)
      BY DEF Surjection
    <2> HIDE DEF f, T
    <2> QED
      BY <1>3, <2>1, FS_Surjection
  <1>5. S \subseteq T
    OBVIOUS
  <1>6. IsFiniteSet(S) /\ Cardinality(S) <= Cardinality(T)
    BY <1>4, <1>5, FS_Subset
  <1> HIDE DEF T
  <1> QED
    BY <1>3, <1>4, <1>6, FS_CardinalityType

\* Without evidence of its provenance a numeric limit that is exceeded is for a
\* human to judge, so PASS means that there are no more items than max_files, no
\* denied path among them and no rule they match.
\* What PASS says of a set of items: each is allowed, creates a file only where the
\* contract allows it and matches no rule, and both limits hold.
Fits(budget, rules, items) ==
    /\ \A i \in items :
           /\ PathAllowed(budget, i.path)
           /\ i.type = "added" => budget.newFiles
           /\ \A r \in rules : ~matchPathPattern(i.path, RulePatterns[r])
    /\ ~Exceeds(Cardinality(items), budget.maxFiles)
    /\ ~Exceeds(ChangedLines(items), budget.maxLines)

LEMMA LimitsUnresolved ==
    ASSUME NEW budget, NEW items
    PROVE  /\ MaterialUnresolved(budget, items, NoEvidence)
              <=> \/ Exceeds(Cardinality(items), budget.maxFiles)
                  \/ Exceeds(ChangedLines(items), budget.maxLines)
           /\ \A l \in ExceededLimits(budget, items, NoEvidence) : l.provenance = "UNRESOLVED"
  <1> DEFINE observed == [max_files |-> Cardinality(items),
                          max_changed_lines |-> ChangedLines(items)]
             expected == [max_files |-> budget.maxFiles, max_changed_lines |-> budget.maxLines]
             over == {k \in DOMAIN expected : Exceeds(observed[k], expected[k])}
             exceeded == ExceededLimits(budget, items, NoEvidence)
             judged(l) == [limit |-> l,
                           provenance |-> classifyNumericProvenance(l, expected[l], NoEvidence)]
  <1>1. exceeded = {judged(l) : l \in over}
    BY DEF ExceededLimits
  <1>2. ASSUME NEW l \in over PROVE judged(l).provenance = "UNRESOLVED"
    BY DEF classifyNumericProvenance, SupportsLimit, Exceeds
  <1>3. /\ "max_files" \in over <=> Exceeds(Cardinality(items), budget.maxFiles)
        /\ "max_changed_lines" \in over <=> Exceeds(ChangedLines(items), budget.maxLines)
        /\ over \subseteq {"max_files", "max_changed_lines"}
    OBVIOUS
  <1> HIDE DEF over, judged, exceeded
  <1>4. \A l \in exceeded : l.provenance = "UNRESOLVED"
    BY <1>1, <1>2
  <1>5. (\E l \in exceeded : l.provenance = "UNRESOLVED") <=> over # {}
    BY <1>1, <1>2
  <1> QED
    BY <1>3, <1>4, <1>5 DEF MaterialUnresolved, exceeded

\* PASS is exactly what the contract says: every rule of evaluateBudgetCheck is
\* applied to every item, and no verdict but PASS is given to a tree that fits
\* (engine.ts; no command passes it a verifier).
THEOREM PassIsFits ==
    ASSUME NEW budget, NEW rules, NEW items
    PROVE  evaluateBudgetCheck(budget, rules, items, NoEvidence) = "PASS"
               <=> Fits(budget, rules, items)
  <1> DEFINE violations == Violations(budget, rules, items, NoEvidence)
             denied == {<<"deny_paths", i.path>> : i \in {j \in items : MatchedDeny(budget, j.path)}}
             outside == {<<"allow_paths", i.path>> :
                 i \in {j \in items : ~MatchedDeny(budget, j.path) /\ ~MatchedAllow(budget, j.path)}}
             created == {<<"allow_new_files", i.path>> :
                 i \in {j \in items : ~budget.newFiles /\ j.type = "added"}}
             hard == {<<l.limit>> :
                 l \in {k \in ExceededLimits(budget, items, NoEvidence) : k.provenance = "HARD"}}
             found(i) == {<<"stack_profile_rule", i.path, r>> :
                 r \in {s \in rules : matchPathPattern(i.path, RulePatterns[s])}}
             ruled == UNION {found(i) : i \in items}
  <1>1. violations = denied \cup outside \cup created \cup hard \cup ruled
    BY Zenon DEF Violations
  <1>2. hard = {}
    BY LimitsUnresolved
  <1>3. /\ denied = {} <=> \A i \in items : ~MatchedDeny(budget, i.path)
        /\ outside = {} <=> \A i \in items : MatchedDeny(budget, i.path) \/ MatchedAllow(budget, i.path)
        /\ created = {} <=> \A i \in items : i.type = "added" => budget.newFiles
    OBVIOUS
  <1>4. ruled = {} <=> \A i \in items : found(i) = {}
    <2> HIDE DEF found
    <2> QED
      OBVIOUS
  <1>5. \A i \in items :
            found(i) = {} <=> \A r \in rules : ~matchPathPattern(i.path, RulePatterns[r])
    OBVIOUS
  <1> HIDE DEF violations, denied, outside, created, hard, ruled, found
  <1>6. violations = {} <=> denied = {} /\ outside = {} /\ created = {} /\ ruled = {}
    BY <1>1, <1>2
  <1>7. violations = {} <=>
            \A i \in items :
                /\ PathAllowed(budget, i.path)
                /\ i.type = "added" => budget.newFiles
                /\ \A r \in rules : ~matchPathPattern(i.path, RulePatterns[r])
    BY <1>3, <1>4, <1>5, <1>6, Zenon DEF PathAllowed
  <1>8. evaluateBudgetCheck(budget, rules, items, NoEvidence) = "PASS"
        <=> ~MaterialUnresolved(budget, items, NoEvidence) /\ violations = {}
    BY DEF evaluateBudgetCheck, violations
  <1> QED
    BY <1>7, <1>8, LimitsUnresolved, Zenon DEF Fits

\* No change of the working tree since the boundary escapes a CHECK, whatever the
\* user does meanwhile to other paths, and PASS means that each is allowed and
\* that they are no more than max_files (collectChangedItems, diff.ts;
\* projectBaselineChanges, compare.ts; evaluateBudgetCheck, engine.ts).  The
\* boundary is the baseline, or what the text of the base means to git when the
\* CHECK runs; the mode of a file that was untracked at START is left out.
THEOREM ChangesJudged == Spec => []KeptChangesJudged
  <1>1. Checked => KeptChangesJudged
    <2>1. SUFFICES ASSUME Checked, Evaluated
                   PROVE  /\ \A p \in KeptChanges : \E i \in check.items : i.path = p
                          /\ check.result = "PASS" =>
                                 /\ \A p \in KeptChanges :
                                        /\ PathAllowed(check.budget, p)
                                        /\ \A r \in check.rules :
                                               ~matchPathPattern(p, RulePatterns[r])
                                 /\ ~Exceeds(Cardinality(KeptChanges), check.budget.maxFiles)
      BY DEF KeptChangesJudged
    <2>2. Judged /\ ContractTyped(check.budget)
      BY <2>1 DEF Checked, CheckRuns
    <2>3. \A p \in KeptChanges : \E i \in check.items : i.path = p
      BY <2>2 DEF Judged
    <2>4. ASSUME check.result = "PASS"
          PROVE  /\ \A p \in KeptChanges :
                        /\ PathAllowed(check.budget, p)
                        /\ \A r \in check.rules : ~matchPathPattern(p, RulePatterns[r])
                 /\ ~Exceeds(Cardinality(KeptChanges), check.budget.maxFiles)
      <3>1. /\ ~Exceeds(Cardinality(check.items), check.budget.maxFiles)
            /\ \A i \in check.items :
                   /\ PathAllowed(check.budget, i.path)
                   /\ \A r \in check.rules : ~matchPathPattern(i.path, RulePatterns[r])
        <4>1. evaluateBudgetCheck(check.budget, check.rules, check.items, NoEvidence) = "PASS"
          BY <2>2, <2>4 DEF Judged
        <4>2. Fits(check.budget, check.rules, check.items)
          BY <4>1, PassIsFits
        <4> QED
          BY <4>2, Zenon DEF Fits
      <3>2. /\ Cardinality(KeptChanges) \in Nat /\ Cardinality(check.items) \in Nat
            /\ Cardinality(KeptChanges) <= Cardinality(check.items)
        <4>1. KeptChanges \subseteq Paths
          BY DEF KeptChanges
        <4> QED
          BY <2>2, <2>3, <4>1, PathsCounted DEF Judged
      <3>3. check.budget.maxFiles \in Nat \cup {NoLimit}
        BY <2>2 DEF ContractTyped, LimitFields, Limits
      <3> QED
        BY <2>3, <3>1, <3>2, <3>3 DEF Exceeds
    <2> QED
      BY <2>3, <2>4
  <1> QED
    BY <1>1, CheckIsTrue, PTL

\* A path that has an entry in the baseline and holds the same object is not
\* charged to the contract, unless it was an untracked link
\* (projectBaselineChanges, compare.ts).  What START refuses has no entry.
THEOREM InheritedNotCharged == Spec => []InheritedExcluded
  <1>1. Checked => InheritedExcluded
    BY DEF Checked, CheckRuns, Judged, InheritedExcluded
  <1> QED
    BY <1>1, CheckIsTrue, PTL

\* What the type invariant needs besides: nothing is remembered at rest.
AtRest ==
    /\ moves \in 0..MaxMoves
    /\ baseline.state = "none" => baseline.head = 0
    /\ start.phase \in {"idle", "active", "failed"} => start.head = 0

LEMMA StepAtRest ==
    ASSUME Captured, AtRest, [Next]_vars
    PROVE  AtRest'
  <1>1. start \in StartType /\ baseline \in BaselineType
    BY DEF Captured, CaptureTyped
  <1>2. CASE User
    <2>1. moves' \in 0..MaxMoves
      <3>1. moves < MaxMoves /\ moves' = moves + 1
        BY <1>2 DEF User, Edit, Stage, Move, Commit, WriteOverrides, Amend, LoseBaseline
      <3> QED
        BY <3>1, BaselineAssumption DEF AtRest
    <2>2. /\ start' = start
          /\ baseline' = baseline \/ baseline' = [baseline EXCEPT !.state = "unsafe"]
      BY <1>2 DEF User, Edit, Stage, Commit, WriteOverrides, Amend, LoseBaseline
    <2> QED
      BY <1>1, <2>1, <2>2 DEF AtRest, BaselineType
  <1>3. CASE Start
    <2>1. Idle.head = 0 /\ Failed.head = 0 /\ Failed.phase = "failed"
      BY DEF Idle, Failed
    <2>2. moves' = moves
      BY <1>3 DEF Start, StartBegin, StartObserve, StartScan, StartList, readObservedValue,
         StartSecondPass, StartCompare, StartActivate, ghosts
    <2>3. ASSUME StartActivate PROVE AtRest'
      <3>1. CASE start' = Failed /\ baseline' = baseline
        BY <2>1, <2>2, <3>1 DEF AtRest
      <3>2. CASE /\ start' = [Idle EXCEPT !.phase = "active"]
                 /\ baseline' = [state |-> "intact", head |-> start.head,
                                 entries |-> Entries(start.first)]
        <4>1. start'.head = 0 /\ baseline'.state = "intact"
          BY <2>1, <3>2 DEF Idle
        <4> QED
          BY <2>2, <4>1 DEF AtRest
      <3> QED
        BY <2>3, <3>1, <3>2 DEF StartActivate
    <2>4. ASSUME Start, ~StartActivate PROVE AtRest'
      <3>1. baseline' = baseline
        BY <2>4 DEF Start, StartBegin, StartObserve, StartScan, StartList, readObservedValue,
           StartSecondPass, StartCompare
      <3>2. start' = Failed \/ start'.phase \in {"observe", "scan", "read", "activate"}
        <4>1. ASSUME StartBegin PROVE start'.phase = "observe"
          BY <4>1, IdleTyped DEF StartBegin, StartType
        <4> QED
          BY <1>1, <2>4, <4>1 DEF Start, StartObserve, StartScan, StartList, readObservedValue,
             StartSecondPass, StartCompare, StartType
      <3> QED
        BY <2>1, <2>2, <3>1, <3>2 DEF AtRest
    <2> QED
      BY <1>3, <2>3, <2>4
  <1>4. CASE Check \/ UNCHANGED vars
    <2>1. UNCHANGED <<moves, baseline, start>>
      BY <1>4 DEF Check, CheckReturns, CheckBegin, getStackPolicyResolution,
         reloadBaselineEvidence, CheckNames, CheckStats, CheckOthers, CheckCollected,
         readCurrentBaselineValue, CheckEvaluate, CheckFails, vars, ghosts
    <2> QED
      BY <2>1 DEF AtRest
  <1> QED
    BY <1>2, <1>3, <1>4 DEF Next

\* Every variable has its type.
THEOREM BaselineCheckTypes == Spec => []TypeOK
  <1>1. Init => AtRest
    BY BaselineAssumption DEF Init, AtRest, Idle
  <1>2. Captured /\ AtRest /\ [Next]_vars => AtRest'
    BY StepAtRest
  <1>3. Captured /\ ContractKept /\ Checked /\ AtRest => TypeOK
    <2>1. SUFFICES ASSUME Captured, ContractKept, Checked, AtRest PROVE TypeOK
      OBVIOUS
    <2>2. /\ commits \in Seq(Tree) /\ commits # <<>> /\ index \in Tree /\ disk \in Tree
          /\ moment \in ReadTree /\ start \in StartType /\ baseline \in BaselineType
          /\ Len(commits) \in Nat
      BY <2>1 DEF Captured, CaptureTyped
    <2>3. baseline.head \in 0..Len(commits)
      BY <2>1, <2>2 DEF Captured, BaselineTrue, AtRest
    <2>4. start.head \in 0..Len(commits)
      BY <2>1, <2>2 DEF Captured, HeadWas, AtRest, Capturing, StartType
    <2>5. /\ check.phase \in {"idle", "policy", "reload", "collect", "values", "done"}
          /\ check.result \in Decisions \cup {"none", "ERROR"}
          /\ touched \subseteq Paths
      BY <2>1 DEF Checked, CheckTyped
    <2>6. check.items = NotRead \/ check.items \subseteq ItemType
      BY <2>1, <2>5 DEF Checked, CheckRuns, Evaluated, Judged, ItemsTyped
    <2>7. ContractTyped(contract) /\ moves \in 0..MaxMoves
      BY <2>1 DEF ContractKept, AtRest
    <2>8. /\ start.phase \in {"idle", "observe", "scan", "read", "activate", "active", "failed"}
          /\ start.attempt \in 0..MaxAttempts
          /\ start.seen \in ReadTree /\ start.values \in ReadTree
          /\ start.headTree \in ReadTree /\ start.staged \in ReadTree
      BY <2>2 DEF StartType
    <2>9. /\ baseline.state \in {"none", "intact", "unsafe"}
          /\ baseline.entries \subseteq EntryType
      BY <2>2 DEF BaselineType
    <2> QED
      BY <2>2, <2>3, <2>4, <2>5, <2>6, <2>7, <2>8, <2>9 DEF TypeOK
  <1> QED
    BY <1>1, <1>2, <1>3, CaptureIsTrue, ContractIsKept, CheckIsTrue, PTL DEF Spec

-----------------------------------------------------------------------------
(* The verdict.                                                              *)

\* The lines of an item, each as a pair of the item and a number: the sum the
\* code forms is how many there are, in whatever order it adds them up.
LinesOf(i) == IF i.binary THEN 0 ELSE i.added + i.removed
Lines(items) == {x \in items \X Nat : x[2] \in 1..LinesOf(x[1])}

IsSum(R, items) ==
    R = [s \in SUBSET items |->
            IF s = {} THEN 0
            ELSE LinesOf(CHOOSE x \in s : TRUE) + R[s \ {CHOOSE x \in s : TRUE}]]

LEMMA LinesGrow ==
    ASSUME NEW s, IsFiniteSet(s), NEW i \in s, LinesOf(i) \in Nat,
           IsFiniteSet(Lines(s \ {i}))
    PROVE  /\ IsFiniteSet(Lines(s))
           /\ Cardinality(Lines(s)) = LinesOf(i) + Cardinality(Lines(s \ {i}))
  <1> DEFINE rest == Lines(s \ {i})
             mine == {i} \X (1..LinesOf(i))
  <1>1. Lines(s) = mine \cup rest /\ mine \cap rest = {}
    BY DEF Lines
  <1>2. IsFiniteSet(1..LinesOf(i)) /\ Cardinality(1..LinesOf(i)) = LinesOf(i)
    BY FS_Interval
  <1>3. IsFiniteSet({i}) /\ Cardinality({i}) = 1
    BY FS_Singleton
  <1>4. IsFiniteSet(mine) /\ Cardinality(mine) = LinesOf(i)
    <2> DEFINE n == 1..LinesOf(i)
    <2> HIDE DEF n
    <2>1. /\ IsFiniteSet({i} \X n)
          /\ Cardinality({i} \X n) = Cardinality({i}) * Cardinality(n)
      BY <1>2, <1>3, FS_Product DEF n
    <2>2. Cardinality({i}) * Cardinality(n) = LinesOf(i)
      BY <1>2, <1>3 DEF n
    <2> QED
      BY <2>1, <2>2 DEF n
  <1>5. Cardinality({}) = 0
    BY FS_EmptySet
  <1>6. Cardinality(rest) \in Nat
    BY FS_CardinalityType
  <1> HIDE DEF mine, rest
  <1>7. /\ IsFiniteSet(mine \cup rest)
        /\ Cardinality(mine \cup rest)
           = Cardinality(mine) + Cardinality(rest) - Cardinality(mine \cap rest)
    BY <1>4, FS_Union DEF rest
  <1>8. Cardinality(mine \cap rest) = 0
    BY <1>1, <1>5
  <1>9. Cardinality(mine \cup rest) = LinesOf(i) + Cardinality(rest)
    BY <1>4, <1>6, <1>7, <1>8
  <1> QED
    BY <1>1, <1>7, <1>9 DEF rest

LEMMA LinesFinite ==
    ASSUME NEW items, IsFiniteSet(items), \A i \in items : LinesOf(i) \in Nat
    PROVE  \A s \in SUBSET items : IsFiniteSet(Lines(s))
  <1> DEFINE Bad == {s \in SUBSET items : ~IsFiniteSet(Lines(s))}
  <1>1. SUFFICES ASSUME Bad # {} PROVE FALSE
    OBVIOUS
  <1>2. Bad \subseteq FiniteSubsetsOf(items)
    BY FS_Subset DEF FiniteSubsetsOf
  <1>3. PICK s \in Bad : \A r \in Bad : ~(<<r, s>> \in StrictSubsetOrdering(items))
    BY <1>1, <1>2, FS_StrictSubsetOrderingWellFounded, WFMin
  <1>4. CASE s = {}
    <2>1. Lines(s) = {}
      BY <1>4 DEF Lines
    <2> QED
      BY <2>1, FS_EmptySet
  <1>5. CASE s # {}
    <2>1. PICK i \in s : TRUE
      BY <1>5
    <2>2. s \ {i} \notin Bad
      BY <1>3, <2>1 DEF StrictSubsetOrdering
    <2>3. IsFiniteSet(s)
      BY FS_Subset
    <2> QED
      BY <2>1, <2>2, <2>3, LinesGrow
  <1> QED
    BY <1>4, <1>5

LEMMA SumIsUnique ==
    ASSUME NEW items, IsFiniteSet(items), \A i \in items : LinesOf(i) \in Nat,
           NEW R, IsSum(R, items)
    PROVE  \A s \in SUBSET items : R[s] = Cardinality(Lines(s))
  <1> DEFINE Bad == {s \in SUBSET items : R[s] # Cardinality(Lines(s))}
  <1>1. SUFFICES ASSUME Bad # {} PROVE FALSE
    OBVIOUS
  <1>2. Bad \subseteq FiniteSubsetsOf(items)
    BY FS_Subset DEF FiniteSubsetsOf
  <1>3. PICK s \in Bad : \A r \in Bad : ~(<<r, s>> \in StrictSubsetOrdering(items))
    BY <1>1, <1>2, FS_StrictSubsetOrderingWellFounded, WFMin
  <1>4. CASE s = {}
    <2>1. Lines(s) = {} /\ R[s] = 0
      BY <1>4 DEF Lines, IsSum
    <2> QED
      BY <2>1, FS_EmptySet
  <1>5. CASE s # {}
    <2> DEFINE i == CHOOSE x \in s : TRUE
    <2>1. i \in s
      BY <1>5
    <2>2. R[s] = LinesOf(i) + R[s \ {i}]
      BY <1>5, Zenon DEF IsSum
    <2> HIDE DEF i
    <2>3. s \ {i} \in SUBSET items /\ s \ {i} \notin Bad
      <3>1. s \in SUBSET items
        OBVIOUS
      <3>2. <<s \ {i}, s>> \in StrictSubsetOrdering(items)
        BY <2>1, <3>1 DEF StrictSubsetOrdering
      <3> HIDE DEF Bad
      <3> QED
        BY <1>3, <3>1, <3>2
    <2>4. IsFiniteSet(s) /\ IsFiniteSet(Lines(s \ {i}))
      BY <2>3, FS_Subset, LinesFinite
    <2> QED
      BY <2>1, <2>2, <2>3, <2>4, LinesGrow
  <1> QED
    BY <1>4, <1>5

LEMMA LinesCounted ==
    ASSUME NEW items, IsFiniteSet(items), \A i \in items : LinesOf(i) \in Nat
    PROVE  ChangedLines(items) = Cardinality(Lines(items)) /\ IsFiniteSet(Lines(items))
  <1> DEFINE Sum == CHOOSE R : IsSum(R, items)
             Count == [s \in SUBSET items |-> Cardinality(Lines(s))]
  <1>1. ChangedLines(items) = Sum[items]
    BY Zenon DEF ChangedLines, MapThenSumSet, MapThenFoldSet, IsSum, LinesOf
  <1>2. IsSum(Count, items)
    <2>1. ASSUME NEW s \in SUBSET items
          PROVE  Cardinality(Lines(s)) =
                     IF s = {} THEN 0
                     ELSE LinesOf(CHOOSE x \in s : TRUE)
                          + Count[s \ {CHOOSE x \in s : TRUE}]
      <3>1. CASE s = {}
        <4>1. Lines(s) = {}
          BY <3>1 DEF Lines
        <4> QED
          BY <3>1, <4>1, FS_EmptySet
      <3>2. CASE s # {}
        <4> DEFINE i == CHOOSE x \in s : TRUE
        <4>1. i \in s
          BY <3>2
        <4> HIDE DEF i
        <4>2. s \ {i} \in SUBSET items /\ IsFiniteSet(s)
          BY FS_Subset
        <4>3. Cardinality(Lines(s)) = LinesOf(i) + Cardinality(Lines(s \ {i}))
          BY <4>1, <4>2, LinesFinite, LinesGrow
        <4>4. Count[s \ {i}] = Cardinality(Lines(s \ {i}))
          BY <4>2
        <4> QED
          BY <3>2, <4>3, <4>4 DEF i
      <3> QED
        BY <3>1, <3>2
    <2> QED
      BY <2>1, Zenon DEF IsSum
  <1>3. IsSum(Sum, items)
    <2> HIDE DEF Count
    <2> QED
      BY <1>2, Zenon
  <1> HIDE DEF Sum
  <1>4. Sum[items] = Cardinality(Lines(items))
    BY <1>3, SumIsUnique
  <1> QED
    BY <1>1, <1>4, LinesFinite

\* Undoing some of the changes never turns a PASS into anything else: no rule
\* asks for a change, and both counts only fall (engine.ts).
THEOREM PassIsMonotone ==
    ASSUME NEW budget, ContractTyped(budget), NEW rules,
           NEW items \in SUBSET ItemType, IsFiniteSet(items), NEW kept \in SUBSET items,
           evaluateBudgetCheck(budget, rules, items, NoEvidence) = "PASS"
    PROVE  evaluateBudgetCheck(budget, rules, kept, NoEvidence) = "PASS"
  <1>1. Fits(budget, rules, items)
    BY PassIsFits
  <1>2. budget.maxFiles \in Nat \cup {NoLimit} /\ budget.maxLines \in Nat \cup {NoLimit}
    BY DEF ContractTyped, LimitFields, Limits
  <1>3. \A i \in items : LinesOf(i) \in Nat
    BY DEF ItemType, LinesOf
  <1>4. IsFiniteSet(kept) /\ Cardinality(kept) <= Cardinality(items)
    BY FS_Subset
  <1>5. /\ ChangedLines(items) = Cardinality(Lines(items)) /\ IsFiniteSet(Lines(items))
        /\ ChangedLines(kept) = Cardinality(Lines(kept))
    BY <1>3, <1>4, LinesCounted
  <1>6. Lines(kept) \subseteq Lines(items)
    BY DEF Lines
  <1>7. Cardinality(Lines(kept)) <= Cardinality(Lines(items))
    BY <1>5, <1>6, FS_Subset
  <1>8. /\ Cardinality(kept) \in Nat /\ Cardinality(items) \in Nat
        /\ Cardinality(Lines(kept)) \in Nat /\ Cardinality(Lines(items)) \in Nat
    BY <1>4, <1>5, <1>6, FS_Subset, FS_CardinalityType
  <1>9. /\ ~Exceeds(Cardinality(kept), budget.maxFiles)
        /\ ~Exceeds(ChangedLines(kept), budget.maxLines)
    BY <1>1, <1>2, <1>4, <1>5, <1>7, <1>8 DEF Exceeds, Fits
  <1>10. Fits(budget, rules, kept)
    BY <1>1, <1>9, Zenon DEF Fits
  <1> QED
    BY <1>10, PassIsFits

\* An amendment that lowers no limit never turns a PASS into anything else: what
\* was allowed stays so, for a path it adds is one more of a list that was not
\* empty (amendContractUnderLock, contracts.ts; prepareScopeAmendment,
\* scope-amendment.ts; engine.ts).
THEOREM AmendKeepsPass ==
    ASSUME NEW budget, ContractTyped(budget), NEW request \in AmendRequest,
           AmendAccepted(budget, request),
           \A f \in LimitFields :
               \/ request[f] = NotAsked
               \/ budget[f] # NoLimit /\ request[f] >= budget[f],
           NEW rules, NEW items \in SUBSET ItemType, IsFiniteSet(items),
           evaluateBudgetCheck(budget, rules, items, NoEvidence) = "PASS"
    PROVE  evaluateBudgetCheck(amendContractUnderLock(budget, request), rules, items,
                               NoEvidence) = "PASS"
  <1> DEFINE raised == amendContractUnderLock(budget, request)
  <1>1. Fits(budget, rules, items)
    BY PassIsFits
  <1>2. ContractTyped(budget) /\ prepareScopeAmendment(budget, request)
    BY DEF AmendAccepted
  <1>3. \A i \in items : PathAllowed(raised, i.path)
    BY <1>1, <1>2, AmendKeepsAllowed DEF Fits, ItemType
  <1>4. raised.newFiles = budget.newFiles
    BY DEF amendContractUnderLock, ContractTyped
  <1>5. /\ Cardinality(items) \in Nat /\ ChangedLines(items) \in Nat
        /\ budget.maxFiles \in Nat \cup {NoLimit} /\ budget.maxLines \in Nat \cup {NoLimit}
    <2>1. \A i \in items : LinesOf(i) \in Nat
      BY DEF ItemType, LinesOf
    <2> QED
      BY <2>1, LinesCounted, FS_CardinalityType DEF ContractTyped, LimitFields, Limits
  <1>6. /\ raised.maxFiles = IF LimitChange(budget, request, "maxFiles") = NoChange
                             THEN budget.maxFiles ELSE request.maxFiles
        /\ raised.maxLines = IF LimitChange(budget, request, "maxLines") = NoChange
                             THEN budget.maxLines ELSE request.maxLines
    BY DEF amendContractUnderLock, ContractTyped
  <1>7. /\ request.maxFiles = NotAsked => LimitChange(budget, request, "maxFiles") = NoChange
        /\ request.maxLines = NotAsked => LimitChange(budget, request, "maxLines") = NoChange
    BY DEF LimitChange
  <1>8. request.maxFiles \in Nat \cup {NotAsked} /\ request.maxLines \in Nat \cup {NotAsked}
    BY DEF AmendRequest
  <1> HIDE DEF raised
  <1>9. /\ ~Exceeds(Cardinality(items), raised.maxFiles)
        /\ ~Exceeds(ChangedLines(items), raised.maxLines)
    BY <1>1, <1>5, <1>6, <1>7, <1>8 DEF Fits, Exceeds, LimitFields
  <1>10. Fits(raised, rules, items)
    BY <1>1, <1>3, <1>4, <1>9, Zenon DEF Fits
  <1> QED
    BY <1>10, PassIsFits DEF raised
=============================================================================
