-------------------------- MODULE CodeIndexingProofs --------------------------
(***************************************************************************)
(* Theorems about CodeParser and CodeIndexing, for every file, syntax tree *)
(* and token limit: the parser is one that CodeChunks may rest on, and the *)
(* chunks that executions make partition the file and are attributed to    *)
(* the innermost symbols around them.                                      *)
(*                                                                         *)
(* Recursive functions are reasoned about without induction: an equation   *)
(* that a function satisfies, and the least argument where a claim fails.  *)
(***************************************************************************)
EXTENDS CodeIndexing, CodeChunksProofs, WellFoundedInduction

-----------------------------------------------------------------------------
(* Least numbers, in place of induction.                                   *)

\* A set of natural numbers has a least member.
LEMMA Least ==
  ASSUME NEW T \in SUBSET Nat, T # {}
  PROVE  \E n \in T : \A m \in T : n <= m
<1> DEFINE Less == {ss \in Nat \X Nat : ss[1] < ss[2]}
<1>1. OpToRel(<, Nat) = Less
  BY DEF OpToRel
<1>2. IsWellFoundedOn(Less, Nat)
  BY <1>1, NatLessThanWellFounded, Zenon
<1>3. PICK x \in T : \A y \in T : <<y, x>> \notin Less
  <2> HIDE DEF Less
  <2> QED BY <1>2, WFMin
<1>4. ASSUME NEW m \in T PROVE x <= m
  <2>1. <<m, x>> \in Nat \X Nat /\ <<m, x>>[1] = m /\ <<m, x>>[2] = x
    OBVIOUS
  <2>2. ~ (m < x)
    BY <1>3, <2>1, Zenon
  <2> QED BY <2>2
<1> QED BY <1>4

\* A finite set of natural numbers that is not empty has a greatest member.
LEMMA Greatest ==
  ASSUME NEW T \in SUBSET Nat, T # {}, NEW b \in Nat, \A n \in T : n <= b
  PROVE  \E n \in T : \A m \in T : m <= n
<1> DEFINE U == {n \in Nat : \A m \in T : m <= n}
<1>1. PICK n \in U : \A m \in U : n <= m
  <2>1. b \in U
    OBVIOUS
  <2> HIDE DEF U
  <2>2. U \in SUBSET Nat
    BY DEF U
  <2> QED BY <2>1, <2>2, Least
<1>2. n \in T
  <2> SUFFICES ASSUME n \notin T PROVE FALSE
    OBVIOUS
  <2>1. PICK t \in T : TRUE
    OBVIOUS
  <2>2. t < n /\ n \in Nat
    BY <1>1
  <2>3. n - 1 \in U
    BY <1>1, <2>2
  <2> QED BY <1>1, <2>2, <2>3
<1> QED BY <1>1, <1>2

-----------------------------------------------------------------------------
(* Sequences of sequences.                                                 *)

\* What the first k sequences of ss make when they are joined, for every k.
Joins(ss, f) ==
    /\ f[0] = << >>
    /\ \A k \in 1 .. Len(ss) : f[k] = f[k - 1] \o ss[k]

\* The body of the recursive function in FlattenSeq.
Joined(g, ss, i) == IF i = 1 THEN ss[i] ELSE g[i-1] \o ss[i]

\* That function exists.
LEMMA FlattenExists ==
  ASSUME NEW ss, NEW n \in Nat, n >= 1
  PROVE  \E g : g = [i \in 1 .. n |-> Joined(g, ss, i)]
<1> DEFINE P(m) == \E g : g = [i \in 1 .. m |-> Joined(g, ss, i)]
           T == {m \in 1 .. n : ~ P(m)}
<1>1. P(1)
  <2> DEFINE g == [i \in 1 .. 1 |-> Joined(ss, ss, i)]
  <2>1. Joined(g, ss, 1) = Joined(ss, ss, 1)
    BY DEF Joined
  <2>2. g = [i \in 1 .. 1 |-> Joined(g, ss, i)]
    <3> HIDE DEF g
    <3>1. \A i \in 1 .. 1 : Joined(g, ss, i) = Joined(ss, ss, i)
      BY <2>1
    <3> QED BY <3>1 DEF g
  <2> HIDE DEF g
  <2> QED BY <2>2
<1>2. ASSUME NEW m \in 2 .. n, P(m - 1) PROVE P(m)
  <2>1. PICK g : g = [i \in 1 .. m - 1 |-> Joined(g, ss, i)]
    BY <1>2
  <2> DEFINE h == [i \in 1 .. m |-> Joined(g, ss, i)]
  <2>2. \A i \in 1 .. m - 1 : h[i] = g[i]
    <3>1. \A i \in 1 .. m - 1 : g[i] = Joined(g, ss, i)
      BY <2>1
    <3> QED BY <3>1
  <2> HIDE DEF h
  <2>3. ASSUME NEW i \in 1 .. m PROVE Joined(h, ss, i) = Joined(g, ss, i)
    <3>1. CASE i = 1
      BY <3>1 DEF Joined
    <3>2. CASE i > 1
      <4>1. h[i - 1] = g[i - 1]
        BY <2>2, <3>2
      <4> QED BY <3>2, <4>1 DEF Joined
    <3> QED BY <3>1, <3>2
  <2>4. h = [i \in 1 .. m |-> Joined(h, ss, i)]
    BY <2>3 DEF h
  <2> QED BY <2>4
<1> HIDE DEF P
<1> SUFFICES ASSUME T # {} PROVE FALSE
  BY DEF P
<1>3. PICK m \in T : \A k \in T : m <= k
  <2>1. T \in SUBSET Nat
    OBVIOUS
  <2> HIDE DEF T
  <2> QED BY <2>1, Least
<1> QED BY <1>1, <1>2, <1>3

\* FlattenSeq joins them all.
LEMMA FlattenJoins ==
  ASSUME NEW S, NEW ss \in Seq(Seq(S))
  PROVE  \E f \in [0 .. Len(ss) -> Seq(S)] :
           Joins(ss, f) /\ FlattenSeq(ss) = f[Len(ss)]
<1>1. CASE Len(ss) = 0
  <2>1. ss = << >>
    BY <1>1, EmptySeq
  <2>2. FlattenSeq(ss) = << >>
    BY <2>1 DEF FlattenSeq
  <2> DEFINE f == [k \in 0 .. 0 |-> << >>]
  <2>3. f \in [0 .. 0 -> Seq(S)] /\ f[0] = << >>
    OBVIOUS
  <2> HIDE DEF f
  <2> QED BY <1>1, <2>2, <2>3 DEF Joins
<1>2. CASE Len(ss) # 0
  <2> DEFINE n == Len(ss)
  <2>1. n \in Nat /\ n >= 1 /\ \A k \in 1 .. n : ss[k] \in Seq(S)
    BY <1>2
  <2>2. PICK g : g = CHOOSE h : h = [i \in 1 .. n |-> Joined(h, ss, i)]
    OBVIOUS
  <2>3. FlattenSeq(ss) = g[n]
    BY <1>2, <2>2 DEF FlattenSeq, Joined
  <2>4. g = [i \in 1 .. n |-> Joined(g, ss, i)]
    <3> HIDE DEF n
    <3> QED BY <2>1, <2>2, FlattenExists
  <2> HIDE DEF n
  <2>5. \A i \in 1 .. n : g[i] = Joined(g, ss, i)
    BY <2>1, <2>4
  <2>6. g[1] = ss[1] /\ \A i \in 2 .. n : g[i] = g[i-1] \o ss[i]
    <3>1. Joined(g, ss, 1) = ss[1]
      BY DEF Joined
    <3>2. ASSUME NEW i \in 2 .. n PROVE g[i] = g[i-1] \o ss[i]
      <4>1. Joined(g, ss, i) = g[i-1] \o ss[i]
        <5>1. i # 1
          OBVIOUS
        <5> QED BY <5>1, Zenon DEF Joined
      <4>2. i \in 1 .. n
        BY <2>1
      <4> QED BY <2>5, <4>1, <4>2, Zenon
    <3>3. 1 \in 1 .. n
      BY <2>1
    <3> QED BY <2>5, <3>1, <3>2, <3>3, Zenon
  <2>7. \A i \in 1 .. n : g[i] \in Seq(S)
    <3> DEFINE T == {i \in 1 .. n : g[i] \notin Seq(S)}
    <3> SUFFICES ASSUME T # {} PROVE FALSE
      OBVIOUS
    <3>1. PICK i \in T : \A k \in T : i <= k
      <4>1. T \in SUBSET Nat
        OBVIOUS
      <4> HIDE DEF T
      <4> QED BY <4>1, Least
    <3>2. CASE i = 1
      BY <2>1, <2>6, <3>1, <3>2
    <3>3. CASE i > 1
      <4>1. i - 1 \in 1 .. n /\ g[i - 1] \in Seq(S)
        <5>1. i - 1 \in 1 .. n /\ i - 1 \notin T
          <6>1. i \in 1 .. n
            OBVIOUS
          <6> HIDE DEF T
          <6> QED BY <2>1, <3>1, <3>3, <6>1
        <5> QED BY <5>1
      <4>2. g[i] = g[i-1] \o ss[i] /\ ss[i] \in Seq(S)
        <5>1. i \in 2 .. n
          BY <3>3
        <5> QED BY <2>1, <2>6, <5>1, Zenon
      <4>3. g[i] \in Seq(S)
        BY <4>1, <4>2, ConcatProperties, Zenon
      <4> QED BY <4>3
    <3> QED BY <3>1, <3>2, <3>3
  <2> DEFINE f == [k \in 0 .. n |-> IF k = 0 THEN << >> ELSE g[k]]
  <2>8. f \in [0 .. n -> Seq(S)]
    BY <2>1, <2>7
  <2>9. f[0] = << >> /\ \A k \in 1 .. n : f[k] = g[k]
    BY <2>1
  <2> HIDE DEF f
  <2>10. ASSUME NEW k \in 1 .. n PROVE f[k] = f[k - 1] \o ss[k]
    <3>1. CASE k = 1
      <4>1. f[1] = ss[1] /\ f[0] = << >> /\ ss[1] \in Seq(S)
        BY <2>1, <2>6, <2>9
      <4>2. << >> \o ss[1] = ss[1]
        BY <4>1, ConcatEmptySeq
      <4>3. k - 1 = 0
        BY <3>1
      <4> QED BY <3>1, <4>1, <4>2, <4>3, Zenon
    <3>2. CASE k > 1
      <4>1. k \in 2 .. n /\ k - 1 \in 1 .. n
        BY <2>1, <3>2
      <4> QED BY <2>6, <2>9, <4>1, Zenon
    <3>3. k = 1 \/ k > 1
      BY <2>1
    <3> QED BY <3>1, <3>2, <3>3, Zenon
  <2>11. f[n] = g[n]
    BY <2>1, <2>9
  <2> QED BY <2>3, <2>8, <2>9, <2>10, <2>11, Zenon DEF Joins, n
<1> QED BY <1>1, <1>2

-----------------------------------------------------------------------------
(* Counting.                                                               *)

Rank(S, n) == Cardinality({m \in S : m < n})

\* Moving a set of numbers does not change its size.
LEMMA Moved ==
  ASSUME NEW A \in SUBSET Int, IsFiniteSet(A), NEW d \in Int,
         NEW B \in SUBSET Int, \A x \in Int : x \in B <=> x + d \in A
  PROVE  IsFiniteSet(B) /\ Cardinality(B) = Cardinality(A)
<1> DEFINE f == [x \in A |-> x - d]
<1>1. f \in [A -> B]
  <2>1. \A x \in A : x - d \in Int /\ (x - d) + d = x
    OBVIOUS
  <2> QED BY <2>1
<1>2. \A x, y \in A : f[x] = f[y] => x = y
  OBVIOUS
<1>3. \A t \in B : \E s \in A : f[s] = t
  <2>1. ASSUME NEW t \in B PROVE t + d \in A /\ f[t + d] = t
    OBVIOUS
  <2> QED BY <2>1
<1> HIDE DEF f
<1>4. ExistsBijection(A, B)
  BY <1>1, <1>2, <1>3 DEF ExistsBijection, Bijection, Injection, Surjection, IsInjective
<1> QED BY <1>4, FS_Bijection

\* A rank is a number, and no more than all members.
LEMMA RankType ==
  ASSUME NEW S, IsFiniteSet(S), NEW n
  PROVE  /\ Rank(S, n) \in Nat
         /\ Rank(S, n) <= Cardinality(S)
BY FS_Subset, FS_CardinalityType DEF Rank

\* What lies between two numbers.
LEMMA RankBetween ==
  ASSUME NEW S \in SUBSET Nat, IsFiniteSet(S), NEW a \in Int, NEW b \in Int, a <= b
  PROVE  LET T == {m \in S : a <= m /\ m < b}
         IN  /\ IsFiniteSet(T)
             /\ Cardinality(T) = Rank(S, b) - Rank(S, a)
<1> DEFINE T == {m \in S : a <= m /\ m < b}
           A == {m \in S : m < a}
           B == {m \in S : m < b}
<1>1. IsFiniteSet(T) /\ IsFiniteSet(A) /\ IsFiniteSet(B)
  BY FS_Subset
<1>2. T = B \ A /\ B \cap A = A
  <2>1. \A m \in S : m \in Int
    OBVIOUS
  <2>2. \A m \in S : (a <= m <=> ~ (m < a)) /\ (m < a => m < b)
    BY <2>1
  <2> QED BY <2>2
<1>3. Cardinality(B \ A) = Cardinality(B) - Cardinality(B \cap A)
  BY <1>1, FS_Difference
<1> QED BY <1>1, <1>2, <1>3 DEF Rank

\* Ranks grow with what is counted below.
LEMMA RankGrows ==
  ASSUME NEW S \in SUBSET Nat, IsFiniteSet(S), NEW a \in Int, NEW b \in Int, a <= b
  PROVE  /\ Rank(S, a) <= Rank(S, b)
         /\ a \in S /\ a < b => Rank(S, a) < Rank(S, b)
         /\ b = a + 1 => Rank(S, b) = IF a \in S THEN Rank(S, a) + 1 ELSE Rank(S, a)
<1> DEFINE T == {m \in S : a <= m /\ m < b}
<1>1. IsFiniteSet(T) /\ Cardinality(T) = Rank(S, b) - Rank(S, a)
  BY RankBetween
<1>2. Cardinality(T) \in Nat /\ (Cardinality(T) = 0 <=> T = {})
  <2> HIDE DEF T
  <2> QED BY <1>1, FS_CardinalityType, FS_EmptySet
<1>3. Rank(S, a) \in Nat /\ Rank(S, b) \in Nat
  BY RankType
<1>4. ASSUME a \in S, a < b PROVE T # {}
  BY <1>4
<1>5. ASSUME b = a + 1
      PROVE  Cardinality(T) = IF a \in S THEN 1 ELSE 0
  <2>1. T = IF a \in S THEN {a} ELSE {}
    <3>1. \A m \in S : m \in Int
      OBVIOUS
    <3>2. \A m \in S : a <= m /\ m < b <=> m = a
      BY <1>5, <3>1
    <3> QED BY <3>2
  <2> HIDE DEF T
  <2> QED BY <2>1, FS_Singleton, FS_EmptySet
<1> HIDE DEF T
<1> QED BY <1>1, <1>2, <1>3, <1>4, <1>5

\* A member of S has a rank below the size of S.
LEMMA RankOfMember ==
  ASSUME NEW b \in Nat, NEW S \in SUBSET (0 .. b)
  PROVE  /\ IsFiniteSet(S) /\ S \in SUBSET Nat
         /\ Cardinality(S) \in Nat
         /\ Rank(S, 0) = 0
         /\ \A n \in Int : n > b => Rank(S, n) = Cardinality(S)
         /\ \A n \in S : Rank(S, n) \in 0 .. Cardinality(S) - 1
<1>1. IsFiniteSet(S) /\ S \in SUBSET Nat
  <2>1. IsFiniteSet(0 .. b)
    BY FS_Interval
  <2>2. 0 .. b \in SUBSET Nat
    OBVIOUS
  <2> QED BY <2>1, <2>2, FS_Subset
<1>0. \A m \in S : m \in Nat /\ m <= b
  OBVIOUS
<1>2. Cardinality(S) \in Nat
  BY <1>1, FS_CardinalityType
<1>3. Rank(S, 0) = 0
  <2>0. \A m \in S : ~ (m < 0)
    BY <1>0
  <2>1. {m \in S : m < 0} = {}
    BY <2>0, Zenon
  <2> QED BY <2>1, FS_EmptySet DEF Rank
<1>4. ASSUME NEW n \in Int, n > b PROVE Rank(S, n) = Cardinality(S)
  <2>0. \A m \in S : m < n
    BY <1>0, <1>4
  <2>1. {m \in S : m < n} = S
    BY <2>0, Zenon
  <2> QED BY <2>1 DEF Rank
<1>5. ASSUME NEW n \in S PROVE Rank(S, n) \in 0 .. Cardinality(S) - 1
  <2>1. n \in Int /\ b + 1 \in Int /\ n < b + 1
    BY <1>1
  <2>2. Rank(S, n) < Rank(S, b + 1)
    BY <1>1, <2>1, RankGrows
  <2>3. Rank(S, n) \in Nat
    BY <1>1, RankType
  <2> QED BY <1>2, <1>4, <2>1, <2>2, <2>3
<1> QED BY <1>1, <1>2, <1>3, <1>4, <1>5

\* Nth counts the members of S in their order.
LEMMA NthMember ==
  ASSUME NEW b \in Nat, NEW S \in SUBSET (0 .. b)
  PROVE  /\ \A j \in 0 .. Cardinality(S) - 1 :
              Nth(S, j) \in S /\ Rank(S, Nth(S, j)) = j
         /\ \A n \in S : Nth(S, Rank(S, n)) = n
<1>1. /\ IsFiniteSet(S) /\ S \in SUBSET Nat /\ Cardinality(S) \in Nat
      /\ Rank(S, 0) = 0
      /\ \A n \in S : Rank(S, n) \in 0 .. Cardinality(S) - 1
      /\ \A n \in Int : n > b => Rank(S, n) = Cardinality(S)
  BY RankOfMember
<1>2. \A n : Rank(S, n) \in Nat
  BY <1>1, RankType
<1>3. ASSUME NEW j \in 0 .. Cardinality(S) - 1
      PROVE  \E n \in S : Rank(S, n) = j
  <2> DEFINE T == {n \in Nat : Rank(S, n) > j}
  <2>1. b + 1 \in T
    BY <1>1
  <2>2. PICK n \in T : \A m \in T : n <= m
    <3>1. T \in SUBSET Nat
      OBVIOUS
    <3> HIDE DEF T
    <3> QED BY <2>1, <3>1, Least
  <2>3. n \in Nat /\ Rank(S, n) > j
    OBVIOUS
  <2>4. n # 0
    BY <1>1, <2>3
  <2>5. n - 1 \in Nat /\ n - 1 \notin T
    <3> HIDE DEF T
    <3> QED BY <2>2, <2>3, <2>4
  <2>6. Rank(S, n - 1) <= j
    BY <1>2, <2>5
  <2>7. Rank(S, n) = IF n - 1 \in S THEN Rank(S, n - 1) + 1 ELSE Rank(S, n - 1)
    BY <1>1, <2>3, RankGrows
  <2>8. n - 1 \in S /\ Rank(S, n - 1) = j
    <3> HIDE DEF T
    <3> QED BY <1>2, <2>3, <2>6, <2>7
  <2> QED BY <2>8
<1>4. ASSUME NEW j \in 0 .. Cardinality(S) - 1
      PROVE  Nth(S, j) \in S /\ Rank(S, Nth(S, j)) = j
  <2>1. Nth(S, j) = CHOOSE n \in S : Rank(S, n) = j
    BY DEF Nth, Rank
  <2> QED BY <1>3, <2>1
<1>5. ASSUME NEW n \in S PROVE Nth(S, Rank(S, n)) = n
  <2> DEFINE m == Nth(S, Rank(S, n))
  <2>1. m \in S /\ Rank(S, m) = Rank(S, n)
    BY <1>1, <1>4
  <2> HIDE DEF m
  <2>2. m \in Int /\ n \in Int
    BY <1>1, <2>1
  <2>3. ~ (m < n) /\ ~ (n < m)
    BY <1>1, <1>2, <2>1, <2>2, RankGrows
  <2>4. m = n
    BY <2>2, <2>3
  <2> QED BY <2>4 DEF m
<1> QED BY <1>4, <1>5

\* Nth grows with the rank.
LEMMA NthGrows ==
  ASSUME NEW b \in Nat, NEW S \in SUBSET (0 .. b),
         NEW j \in 0 .. Cardinality(S) - 1, NEW k \in 0 .. Cardinality(S) - 1, j < k
  PROVE  Nth(S, j) < Nth(S, k)
<1>1. /\ IsFiniteSet(S) /\ S \in SUBSET Nat
  BY RankOfMember
<1>2. /\ Nth(S, j) \in S /\ Rank(S, Nth(S, j)) = j
      /\ Nth(S, k) \in S /\ Rank(S, Nth(S, k)) = k
  BY NthMember
<1>3. Nth(S, j) \in Int /\ Nth(S, k) \in Int
  <2>1. \A m \in S : m \in Int
    OBVIOUS
  <2> QED BY <1>2, <2>1
<1>4. Nth(S, k) <= Nth(S, j) => k <= j
  BY <1>1, <1>2, <1>3, RankGrows
<1> QED BY <1>3, <1>4

-----------------------------------------------------------------------------
(* Characters and tokens.                                                  *)

\* Where characters start, and the end, are offsets in the text.
LEMMA CharStartsType ==
  ASSUME NEW part \in Seq(Bytes)
  PROVE  /\ Len(part) \in Nat
         /\ CharStarts(part) \in SUBSET (0 .. Len(part))
         /\ Len(part) \notin CharStarts(part)
         /\ CharStarts(part) \cup {Len(part)} \in SUBSET (0 .. Len(part))
         /\ part # << >> /\ part[1] # "cont" => 0 \in CharStarts(part) /\ Len(part) > 0
BY EmptySeq DEF CharStarts

\* What Decoded and EncodedLength are for a text that begins with a character:
\* character c begins EncodedLength(part, c) bytes after the first.
LEMMA Characters ==
  ASSUME NEW part \in Seq(Bytes), part # << >>, part[1] # "cont"
  PROVE  LET N == Cardinality(CharStarts(part))
             E(c) == EncodedLength(part, c)
         IN  /\ N \in Nat
             /\ Decoded(part) \in Seq(Bytes) /\ Len(Decoded(part)) = N
             /\ E(0) = 0 /\ E(N) = Len(part)
             /\ \A c \in 0 .. N :
                  E(c) \in 0 .. Len(part) /\ Rank(CharStarts(part), E(c)) = c
             /\ \A c, d \in 0 .. N : c < d => E(c) < E(d)
             /\ \A c \in 0 .. N - 1 :
                  /\ E(c) \in CharStarts(part)
                  /\ Decoded(part)[c + 1] = part[E(c) + 1]
<1> DEFINE L == Len(part)
           cs == CharStarts(part)
           ends == cs \cup {L}
           N == Cardinality(cs)
           E(c) == EncodedLength(part, c)
<1>1. /\ L \in Nat /\ cs \in SUBSET (0 .. L) /\ L \notin cs /\ 0 \in cs
      /\ ends \in SUBSET (0 .. L) /\ L > 0
  BY CharStartsType
<1>2. \A c : E(c) = Nth(ends, c)
  BY DEF EncodedLength
<1>3. \A c \in 1 .. N : Decoded(part)[c] = part[Nth(cs, c - 1) + 1]
  BY DEF Decoded
<1>4. Decoded(part) = [c \in 1 .. N |-> part[Nth(cs, c - 1) + 1]]
  BY DEF Decoded
<1>5. \A i \in cs : i + 1 \in 1 .. L
  <2>1. \A i \in cs : i \in 0 .. L /\ i # L
    BY <1>1
  <2> QED BY <1>1, <2>1
<1>6. \A i \in cs : part[i + 1] \in Bytes
  BY <1>5
<1> HIDE DEF L, cs, N, E
<1>7. /\ IsFiniteSet(cs) /\ N \in Nat /\ cs \in SUBSET Nat
      /\ Rank(cs, 0) = 0
      /\ \A n \in cs : Rank(cs, n) \in 0 .. N - 1
  BY <1>1, RankOfMember DEF N
<1>8. Cardinality(ends) = N + 1
  BY <1>1, <1>7, FS_AddElement DEF N
<1>9. \A n \in 0 .. L : Rank(ends, n) = Rank(cs, n)
  <2>1. ASSUME NEW n \in 0 .. L PROVE {m \in ends : m < n} = {m \in cs : m < n}
    <3>1. ~ (L < n)
      BY <1>1
    <3> QED BY <3>1
  <2> QED BY <2>1 DEF Rank
<1>10. Rank(cs, L) = N
  <2>1. \A m \in cs : m \in Nat /\ m <= L /\ m # L
    BY <1>1
  <2>2. \A m \in cs : m < L
    BY <1>1, <2>1
  <2>3. {m \in cs : m < L} = cs
    BY <2>2, Zenon
  <2> QED BY <2>3 DEF Rank, N
<1>11. ASSUME NEW c \in 0 .. N - 1
       PROVE  E(c) = Nth(cs, c) /\ E(c) \in cs /\ Rank(cs, E(c)) = c
  <2>1. Nth(cs, c) \in cs /\ Rank(cs, Nth(cs, c)) = c
    BY <1>1, NthMember DEF N
  <2>2. Nth(cs, c) \in 0 .. L /\ Nth(cs, c) \in ends
    BY <1>1, <2>1
  <2>3. Rank(ends, Nth(cs, c)) = c
    BY <1>9, <2>1, <2>2
  <2>4. Nth(ends, c) = Nth(cs, c)
    BY <1>1, <2>2, <2>3, NthMember
  <2> QED BY <1>2, <2>1, <2>4
<1>12. E(N) = L
  <2>1. L \in ends /\ Rank(ends, L) = N
    BY <1>1, <1>9, <1>10
  <2> QED BY <1>1, <1>2, <2>1, NthMember
<1>13. E(0) = 0
  <2>1. 0 \in ends /\ Rank(ends, 0) = 0
    BY <1>1, <1>7, <1>9
  <2> QED BY <1>1, <1>2, <2>1, NthMember
<1>14. ASSUME NEW c \in 0 .. N
       PROVE  E(c) \in 0 .. L /\ Rank(cs, E(c)) = c
  <2>1. CASE c = N
    BY <1>1, <1>10, <1>12, <2>1
  <2>2. CASE c # N
    <3>1. c \in 0 .. N - 1
      BY <1>7, <2>2
    <3> QED BY <1>1, <1>11, <3>1
  <2> QED BY <2>1, <2>2
<1>15. ASSUME NEW c \in 0 .. N, NEW d \in 0 .. N, c < d PROVE E(c) < E(d)
  <2>1. c \in 0 .. Cardinality(ends) - 1 /\ d \in 0 .. Cardinality(ends) - 1
    BY <1>7, <1>8
  <2> QED BY <1>1, <1>2, <1>15, <2>1, NthGrows
<1>16. ASSUME NEW c \in 0 .. N - 1 PROVE Decoded(part)[c + 1] = part[E(c) + 1]
  <2>1. c + 1 \in 1 .. N /\ (c + 1) - 1 = c
    BY <1>7
  <2>2. Decoded(part)[c + 1] = part[Nth(cs, c) + 1]
    BY <1>3, <2>1
  <2> QED BY <1>11, <2>2
<1>17. Decoded(part) \in Seq(Bytes) /\ Len(Decoded(part)) = N
  <2>1. ASSUME NEW c \in 1 .. N PROVE part[Nth(cs, c - 1) + 1] \in Bytes
    <3>1. c - 1 \in 0 .. N - 1
      BY <1>7
    <3>2. Nth(cs, c - 1) \in cs
      BY <1>1, <3>1, NthMember DEF N
    <3> QED BY <1>6, <3>2
  <2> QED BY <1>4, <1>7, <2>1
<1> QED
  BY <1>7, <1>11, <1>12, <1>13, <1>14, <1>15, <1>16, <1>17 DEF L, cs, N, E

\* The characters of a part of a text that begins and ends between characters.
LEMMA SubText ==
  ASSUME NEW part \in Seq(Bytes), part # << >>, part[1] # "cont",
         NEW a \in 0 .. Cardinality(CharStarts(part)),
         NEW b \in 0 .. Cardinality(CharStarts(part)), a < b
  PROVE  LET text == SubSeq(part, EncodedLength(part, a) + 1, EncodedLength(part, b))
         IN  /\ text \in Seq(Bytes) /\ text # << >> /\ text[1] # "cont"
             /\ Decoded(text) \in Seq(Bytes) /\ Len(Decoded(text)) = b - a
             /\ \A c \in 1 .. b - a : Decoded(text)[c] = Decoded(part)[a + c]
<1> DEFINE cs == CharStarts(part)
           N == Cardinality(cs)
           E(c) == EncodedLength(part, c)
           x == E(a)
           y == E(b)
           text == SubSeq(part, x + 1, y)
           ct == CharStarts(text)
           L == Len(part)
<1>1. /\ N \in Nat /\ Len(Decoded(part)) = N
      /\ \A c \in 0 .. N : E(c) \in 0 .. L /\ Rank(cs, E(c)) = c
      /\ \A c, d \in 0 .. N : c < d => E(c) < E(d)
      /\ \A c \in 0 .. N - 1 : E(c) \in cs /\ Decoded(part)[c + 1] = part[E(c) + 1]
  BY Characters
<1>2. /\ L \in Nat /\ cs \in SUBSET (0 .. L)
      /\ \A i \in 0 .. L - 1 : i \in cs <=> part[i + 1] # "cont"
  BY CharStartsType DEF CharStarts
<1>3. \A i \in 1 .. L : part[i] \in Bytes
  OBVIOUS
<1>4. IsFiniteSet(cs) /\ cs \in SUBSET Nat
  BY <1>2, RankOfMember
<1> HIDE DEF N, E, L, cs
<1>5. a \in 0 .. N - 1 /\ a \in 0 .. N /\ b \in 0 .. N
  BY <1>1 DEF N, cs
<1>6. x \in 0 .. L /\ y \in 0 .. L /\ x < y /\ x \in cs
  BY <1>1, <1>5
<1> HIDE DEF x, y
<1>7. /\ text \in Seq(Bytes) /\ Len(text) = y - x
      /\ \A i \in 1 .. y - x : text[i] = part[x + i]
  <2>1. x + 1 \in Int /\ y \in Int /\ y - (x + 1) + 1 = y - x /\ x + 1 <= y
    BY <1>2, <1>6
  <2>2. \A i \in x + 1 .. y : part[i] \in Bytes
    BY <1>2, <1>3, <1>6
  <2>3. \A i \in 1 .. y - x : (x + 1) + i - 1 = x + i
    BY <1>2, <1>6
  <2> QED BY <2>1, <2>2, <2>3, SubSeqProperties
<1>8. \A i \in 0 .. y - x - 1 : i \in ct <=> text[i + 1] # "cont"
  BY <1>7 DEF CharStarts
<1>9. ct \in SUBSET (0 .. y - x - 1) /\ ct \in SUBSET (0 .. y - x)
  BY <1>6, <1>7 DEF CharStarts
<1> HIDE DEF text, ct
<1>10. ASSUME NEW i \in Int
       PROVE  i \in ct <=> i + x \in {m \in cs : x <= m /\ m < y}
  <2>1. CASE i \in 0 .. y - x - 1
    <3>1. i + 1 \in 1 .. y - x /\ i + x \in 0 .. L - 1 /\ x <= i + x /\ i + x < y
      BY <1>2, <1>6, <2>1
    <3>2. text[i + 1] = part[x + (i + 1)] /\ x + (i + 1) = (i + x) + 1
      BY <1>6, <1>7, <3>1
    <3> QED BY <1>2, <1>8, <2>1, <3>1, <3>2
  <2>2. CASE i \notin 0 .. y - x - 1
    <3>1. ~ (x <= i + x /\ i + x < y)
      BY <1>2, <1>6, <2>2
    <3> QED BY <1>9, <2>2, <3>1
  <2> QED BY <2>1, <2>2
<1>11. ASSUME NEW c \in 0 .. b - a
       PROVE  Cardinality({m \in cs : x <= m /\ m < E(a + c)}) = c
  <2>1. a + c \in 0 .. N
    BY <1>1, <1>5
  <2>2. E(a + c) \in Int /\ x \in Int /\ x <= E(a + c)
    <3>1. CASE c = 0
      BY <1>1, <1>2, <1>6, <2>1, <3>1, <1>5 DEF x
    <3>2. CASE c # 0
      <4>1. a < a + c
        BY <1>1, <1>5, <3>2
      <4>2. x < E(a + c)
        BY <1>1, <1>5, <2>1, <4>1 DEF x
      <4> QED BY <1>1, <1>2, <1>6, <2>1, <4>2
    <3> QED BY <3>1, <3>2
  <2>3. Cardinality({m \in cs : x <= m /\ m < E(a + c)}) = Rank(cs, E(a + c)) - Rank(cs, x)
    BY <1>4, <2>2, RankBetween
  <2>4. Rank(cs, E(a + c)) = a + c /\ Rank(cs, x) = a
    BY <1>1, <1>5, <2>1 DEF x
  <2> QED BY <1>1, <1>5, <2>3, <2>4
<1>12. Cardinality(ct) = b - a
  <2> DEFINE K == {m \in cs : x <= m /\ m < y}
  <2>1. Cardinality(K) = b - a
    <3>1. b - a \in 0 .. b - a /\ a + (b - a) = b
      BY <1>1, <1>5
    <3> QED BY <1>11, <3>1 DEF y
  <2>2. IsFiniteSet(K) /\ K \in SUBSET Int
    <3>1. K \in SUBSET cs /\ cs \in SUBSET Int
      BY <1>4
    <3> HIDE DEF K
    <3> QED BY <1>4, <3>1, FS_Subset
  <2>3. ct \in SUBSET Int /\ x \in Int
    BY <1>6, <1>9
  <2> HIDE DEF K
  <2>4. \A i \in Int : i \in ct <=> i + x \in K
    BY <1>10 DEF K
  <2>5. Cardinality(ct) = Cardinality(K)
    BY <2>2, <2>3, <2>4, Moved
  <2> QED BY <2>1, <2>5
<1>13. ASSUME NEW c \in 0 .. b - a - 1
       PROVE  Nth(ct, c) = E(a + c) - x
  <2> DEFINE z == E(a + c)
             A == {m \in cs : x <= m /\ m < z}
             B == {m \in ct : m < z - x}
  <2>1. a + c \in 0 .. N - 1 /\ a + c \in 0 .. N /\ c \in 0 .. b - a /\ a + c < b
    BY <1>1, <1>5
  <2>2. z \in cs /\ z \in 0 .. L /\ z < y
    BY <1>1, <1>5, <2>1 DEF y
  <2>3. x <= z
    <3>1. CASE c = 0
      BY <1>1, <1>5, <1>6, <3>1 DEF x
    <3>2. CASE c # 0
      <4>1. a < a + c
        BY <1>1, <1>5, <3>2
      <4> QED BY <1>1, <1>2, <1>5, <1>6, <2>1, <2>2, <4>1 DEF x
    <3> QED BY <3>1, <3>2
  <2>4. Cardinality(A) = c
    BY <1>11, <2>1
  <2> HIDE DEF z
  <2>5. z \in Int /\ x \in Int /\ z - x \in Int /\ (z - x) + x = z
    BY <1>6, <2>2
  <2>6. z - x \in ct
    <3>1. z \in {m \in cs : x <= m /\ m < y}
      BY <2>2, <2>3
    <3> QED BY <1>10, <2>5, <3>1
  <2>7. ASSUME NEW i \in Int PROVE i \in B <=> i + x \in A
    <3>1. i < z - x <=> i + x < z
      BY <2>5
    <3>2. i + x < z => i + x < y
      BY <1>2, <1>6, <2>2, <2>5
    <3> QED BY <1>10, <3>1, <3>2
  <2>8. IsFiniteSet(A) /\ A \in SUBSET Int /\ B \in SUBSET Int
    <3>1. A \in SUBSET cs /\ cs \in SUBSET Int
      BY <1>4
    <3>2. B \in SUBSET ct /\ ct \in SUBSET Int
      BY <1>9
    <3> HIDE DEF A, B
    <3> QED BY <1>4, <3>1, <3>2, FS_Subset
  <2>9. Cardinality(B) = c
    <3> HIDE DEF A, B
    <3> QED BY <2>4, <2>5, <2>7, <2>8, Moved
  <2>10. Rank(ct, z - x) = c
    BY <2>9 DEF Rank
  <2>11. y - x \in Nat
    BY <1>6
  <2>12. Nth(ct, c) = z - x
    BY <1>9, <2>6, <2>10, <2>11, NthMember
  <2> QED BY <2>12 DEF z
<1>14. Decoded(text) = [c \in 1 .. b - a |-> text[Nth(ct, c - 1) + 1]]
  BY <1>12 DEF Decoded, ct
<1>15. ASSUME NEW c \in 1 .. b - a
       PROVE  /\ Decoded(text)[c] = Decoded(part)[a + c]
              /\ Decoded(text)[c] \in Bytes
  <2>1. c - 1 \in 0 .. b - a - 1 /\ a + (c - 1) \in 0 .. N - 1 /\ a + c = a + (c - 1) + 1
    BY <1>1, <1>5
  <2> DEFINE z == E(a + (c - 1))
  <2>2. Nth(ct, c - 1) = z - x /\ z \in cs
    BY <1>1, <1>13, <2>1
  <2>3. z - x \in ct
    <3>1. Cardinality(ct) - 1 = b - a - 1 /\ y - x \in Nat
      BY <1>6, <1>12
    <3>2. Nth(ct, c - 1) \in ct
      BY <1>9, <1>12, <2>1, <3>1, NthMember
    <3> QED BY <2>2, <3>2
  <2>4. Decoded(part)[a + c] = part[z + 1]
    BY <1>1, <2>1
  <2>5. z \in Int
    <3>1. cs \in SUBSET Int
      BY <1>4
    <3> HIDE DEF z
    <3> QED BY <2>2, <3>1
  <2> HIDE DEF z
  <2>6. (z - x) + 1 \in 1 .. y - x /\ x + ((z - x) + 1) = z + 1
    BY <1>6, <1>9, <2>3, <2>5
  <2>7. text[(z - x) + 1] = part[z + 1] /\ text[(z - x) + 1] \in Bytes
    <3>1. text[(z - x) + 1] \in Bytes
      BY <1>7, <2>6
    <3> QED BY <1>7, <2>6, <3>1
  <2>8. Decoded(text)[c] = text[(z - x) + 1]
    BY <1>14, <2>2
  <2> QED BY <2>4, <2>7, <2>8
<1>16. Decoded(text) \in Seq(Bytes) /\ Len(Decoded(text)) = b - a
  <2>1. b - a \in Nat
    BY <1>1, <1>5
  <2>2. \A c \in 1 .. b - a : text[Nth(ct, c - 1) + 1] \in Bytes
    BY <1>14, <1>15
  <2> QED BY <1>14, <2>1, <2>2
<1>17. text # << >> /\ text[1] # "cont"
  <2>1. 1 \in 1 .. y - x /\ x \in 0 .. L - 1
    BY <1>2, <1>6
  <2>2. text[1] = part[x + 1] /\ part[x + 1] # "cont"
    BY <1>2, <1>6, <1>7, <2>1
  <2>3. Len(text) # 0
    BY <1>6, <1>7
  <2> QED BY <2>2, <2>3
<1> QED
  BY <1>7, <1>15, <1>16, <1>17 DEF text, x, y, E

\* The tokens of a part that begins at the beginning or with a token are those
\* of the text that begin in it.
LEMMA TokensOfPart ==
  ASSUME NEW chars \in Seq(Bytes), NEW sub \in Seq(Bytes),
         NEW a \in 0 .. Len(chars), NEW b \in a .. Len(chars),
         Len(sub) = b - a, \A c \in 1 .. b - a : sub[c] = chars[a + c],
         a = 0 \/ a \in TokenStarts(chars)
  PROVE  Cardinality(TokenStarts(sub))
           = Rank(TokenStarts(chars), b) - Rank(TokenStarts(chars), a)
<1> DEFINE T == TokenStarts(chars)
           K == {m \in T : a <= m /\ m < b}
           U == TokenStarts(sub)
<1>1. Len(chars) \in Nat /\ a \in Int /\ b \in Int /\ a <= b /\ b <= Len(chars)
  OBVIOUS
<1>2. T \in SUBSET (0 .. Len(chars)) /\ U \in SUBSET Int
  BY DEF TokenStarts
<1>3. IsFiniteSet(T) /\ T \in SUBSET Nat
  BY <1>1, <1>2, RankOfMember
<1>4. ASSUME NEW i \in Int PROVE i \in U <=> i + a \in K
  <2>1. CASE i \notin 0 .. b - a - 1
    <3>1. i \notin U
      BY <2>1 DEF TokenStarts
    <3>2. ~ (a <= i + a /\ i + a < b)
      BY <1>1, <2>1
    <3> QED BY <3>1, <3>2
  <2>2. CASE i \in 0 .. b - a - 1
    <3>1. /\ i + 1 \in 1 .. b - a /\ a + (i + 1) = (i + a) + 1
          /\ i + a \in 0 .. Len(chars) - 1 /\ a <= i + a /\ i + a < b
      BY <1>1, <2>2
    <3>2. sub[i + 1] = chars[(i + a) + 1]
      BY <3>1
    <3>3. i \in U <=> sub[i + 1] = "x" /\ (i > 0 => sub[i] # "x")
      BY <2>2 DEF TokenStarts
    <3>4. i + a \in K <=> chars[(i + a) + 1] = "x" /\ (i + a > 0 => chars[i + a] # "x")
      BY <3>1 DEF TokenStarts
    <3>5. CASE i > 0
      <4>1. i \in 1 .. b - a /\ i + a > 0 /\ a + i = i + a
        BY <1>1, <2>2, <3>5
      <4>2. sub[i] = chars[i + a]
        BY <4>1
      <4> QED BY <3>2, <3>3, <3>4, <3>5, <4>1, <4>2
    <3>6. CASE i = 0
      <4>1. i + a = a
        BY <1>1, <3>6
      <4>2. chars[a + 1] = "x" => (a > 0 => chars[a] # "x")
        <5>1. CASE a = 0
          BY <5>1
        <5>2. CASE a \in TokenStarts(chars)
          BY <5>2 DEF TokenStarts
        <5> QED BY <5>1, <5>2
      <4>3. ~ (i > 0)
        BY <3>6
      <4> QED BY <3>2, <3>3, <3>4, <4>1, <4>2, <4>3
    <3> QED BY <2>2, <3>5, <3>6
  <2> QED BY <2>1, <2>2
<1>5. Cardinality(K) = Rank(T, b) - Rank(T, a)
  BY <1>1, <1>3, RankBetween
<1>6. IsFiniteSet(K) /\ K \in SUBSET Int
  <2>1. K \in SUBSET T /\ T \in SUBSET Int
    BY <1>3
  <2> HIDE DEF K
  <2> QED BY <1>3, <2>1, FS_Subset
<1> HIDE DEF K, U
<1>7. Cardinality(U) = Cardinality(K)
  BY <1>1, <1>2, <1>4, <1>6, Moved
<1> QED BY <1>5, <1>7 DEF U

\* The cuts grow from the beginning to the end, each but these two is where a
\* token begins, and no more than TokenLimit tokens begin between two of them.
LEMMA Cuts ==
  ASSUME NEW chars \in Seq(Bytes), Cardinality(TokenStarts(chars)) > TokenLimit
  PROVE  LET cuts == TokenCuts(chars)
             T == TokenStarts(chars)
         IN  /\ Len(cuts) \in Nat /\ Len(cuts) >= 2
             /\ cuts[1] = 0 /\ cuts[Len(cuts)] = Len(chars)
             /\ \A k \in 1 .. Len(cuts) - 1 :
                  /\ cuts[k] \in 0 .. Len(chars) /\ cuts[k + 1] \in 0 .. Len(chars)
                  /\ cuts[k] < cuts[k + 1]
                  /\ cuts[k] = 0 \/ cuts[k] \in T
                  /\ Rank(T, cuts[k + 1]) - Rank(T, cuts[k]) <= TokenLimit
<1> DEFINE T == TokenStarts(chars)
           C == Cardinality(T)
           K == (C - 1) \div TokenLimit
           L == Len(chars)
           cuts == TokenCuts(chars)
<1>1. TokenLimit \in Nat /\ TokenLimit > 0
  BY TokenAssumption
<1>2. L \in Nat /\ T \in SUBSET (0 .. L) /\ (\A t \in T : t \in Nat /\ t < L)
  BY DEF TokenStarts
<1> HIDE DEF T, C, L
<1>3. /\ C \in Nat /\ C > TokenLimit /\ IsFiniteSet(T) /\ T \in SUBSET Nat
      /\ Rank(T, 0) = 0
  BY <1>2, RankOfMember DEF C, T
<1>4. Rank(T, L) = C
  <2>1. {m \in T : m < L} = T
    BY <1>2, Zenon
  <2> QED BY <2>1 DEF Rank, C
<1>5. K \in Nat /\ K >= 1 /\ K * TokenLimit <= C - 1 /\ C - 1 < K * TokenLimit + TokenLimit
  BY <1>1, <1>3
<1> DEFINE mid == [k \in 1 .. K |-> Nth(T, k * TokenLimit)]
<1>6. cuts = <<0>> \o mid \o <<L>>
  BY DEF TokenCuts, T, C, L
<1> HIDE DEF K, cuts
<1>7. ASSUME NEW k \in 1 .. K
      PROVE  /\ k * TokenLimit \in 1 .. C - 1
             /\ mid[k] = Nth(T, k * TokenLimit)
             /\ mid[k] \in T /\ Rank(T, mid[k]) = k * TokenLimit
             /\ mid[k] \in 1 .. L - 1
  <2>1. k * TokenLimit \in 1 .. C - 1
    <3>1. k \in Nat /\ k >= 1 /\ k <= K
      BY <1>5
    <3>2. k * TokenLimit \in Nat /\ k * TokenLimit >= TokenLimit
      BY <1>1, <3>1
    <3>3. k * TokenLimit <= K * TokenLimit
      BY <1>1, <1>5, <3>1
    <3>4. K * TokenLimit \in Int
      BY <1>1, <1>5
    <3> QED BY <1>1, <1>3, <1>5, <3>2, <3>3, <3>4
  <2>2. mid[k] = Nth(T, k * TokenLimit)
    OBVIOUS
  <2> HIDE DEF mid
  <2>3. k * TokenLimit \in 0 .. C - 1
    BY <1>3, <2>1
  <2>4. mid[k] \in T /\ Rank(T, mid[k]) = k * TokenLimit
    BY <1>2, <2>2, <2>3, NthMember, ZenonT(60) DEF C
  <2>5. mid[k] \in Nat /\ mid[k] < L
    BY <1>2, <2>4
  <2>6. mid[k] # 0
    BY <1>3, <2>1, <2>4
  <2> QED BY <1>2, <2>1, <2>2, <2>4, <2>5, <2>6
<1>8. mid \in Seq(Nat) /\ Len(mid) = K
  <2>1. \A k \in 1 .. K : Nth(T, k * TokenLimit) \in Nat
    <3>1. ASSUME NEW k \in 1 .. K PROVE Nth(T, k * TokenLimit) \in Nat
      BY <1>2, <1>7
    <3> QED BY <3>1
  <2> QED BY <1>5, <2>1
<1> HIDE DEF mid
<1>9. /\ cuts \in Seq(Nat) /\ Len(cuts) = K + 2
      /\ cuts[1] = 0 /\ cuts[K + 2] = L
      /\ \A k \in 1 .. K : cuts[k + 1] = mid[k]
  <2>1. <<0>> \in Seq(Nat) /\ Len(<<0>>) = 1 /\ <<0>>[1] = 0
    OBVIOUS
  <2>2. <<L>> \in Seq(Nat) /\ Len(<<L>>) = 1 /\ <<L>>[1] = L
    BY <1>2
  <2> DEFINE s == <<0>> \o mid
  <2>3. /\ s \in Seq(Nat) /\ Len(s) = K + 1
        /\ s[1] = 0 /\ \A k \in 1 .. K : s[k + 1] = mid[k]
    <3>1. /\ s \in Seq(Nat) /\ Len(s) = 1 + K
          /\ \A i \in 1 .. 1 + K : s[i] = IF i <= 1 THEN <<0>>[i] ELSE mid[i - 1]
      <4>1. /\ s \in Seq(Nat) /\ Len(s) = Len(<<0>>) + Len(mid)
            /\ \A i \in 1 .. Len(<<0>>) + Len(mid) :
                 s[i] = IF i <= Len(<<0>>) THEN <<0>>[i] ELSE mid[i - Len(<<0>>)]
        BY <1>8, <2>1, ConcatProperties, Zenon
      <4> HIDE DEF s
      <4> QED BY <1>8, <2>1, <4>1
    <3> HIDE DEF s
    <3>2. s[1] = 0
      BY <1>5, <2>1, <3>1
    <3>3. ASSUME NEW k \in 1 .. K PROVE s[k + 1] = mid[k]
      BY <1>5, <3>1
    <3> QED BY <1>5, <3>1, <3>2, <3>3
  <2> HIDE DEF s
  <2>4. /\ s \o <<L>> \in Seq(Nat) /\ Len(s \o <<L>>) = (K + 1) + 1
        /\ \A i \in 1 .. (K + 1) + 1 :
             (s \o <<L>>)[i] = IF i <= K + 1 THEN s[i] ELSE <<L>>[i - (K + 1)]
    <3>1. /\ s \o <<L>> \in Seq(Nat) /\ Len(s \o <<L>>) = Len(s) + Len(<<L>>)
          /\ \A i \in 1 .. Len(s) + Len(<<L>>) :
               (s \o <<L>>)[i] = IF i <= Len(s) THEN s[i] ELSE <<L>>[i - Len(s)]
      BY <2>2, <2>3, ConcatProperties, Zenon
    <3>2. Len(s) = K + 1 /\ Len(<<L>>) = 1
      BY <2>2, <2>3
    <3> QED BY <3>1, <3>2
  <2>5. cuts = s \o <<L>>
    BY <1>6 DEF s
  <2>6. /\ cuts \in Seq(Nat) /\ Len(cuts) = K + 2
        /\ \A i \in 1 .. K + 2 : cuts[i] = IF i <= K + 1 THEN s[i] ELSE <<L>>[i - (K + 1)]
    <3>1. (K + 1) + 1 = K + 2
      BY <1>5
    <3> QED BY <2>4, <2>5, <3>1, Zenon
  <2>7. cuts[1] = 0
    BY <1>5, <2>3, <2>6
  <2>8. cuts[K + 2] = L
    BY <1>5, <2>2, <2>6
  <2>9. ASSUME NEW k \in 1 .. K PROVE cuts[k + 1] = mid[k]
    BY <1>5, <2>3, <2>6
  <2> QED BY <2>6, <2>7, <2>8, <2>9
<1>10. ASSUME NEW k \in 1 .. K + 1
       PROVE  /\ cuts[k] = 0 \/ cuts[k] \in T
              /\ cuts[k] \in 0 .. L - 1
              /\ Rank(T, cuts[k]) = (k - 1) * TokenLimit
  <2>1. CASE k = 1
    <3>1. 0 \in 0 .. L - 1
      <4>1. 1 \in 1 .. K
        BY <1>5
      <4> QED BY <1>2, <1>7, <4>1
    <3>2. (k - 1) * TokenLimit = 0
      BY <1>1, <2>1
    <3> QED BY <1>3, <1>9, <2>1, <3>1, <3>2
  <2>2. CASE k # 1
    <3>1. k - 1 \in 1 .. K /\ (k - 1) + 1 = k
      BY <1>5, <2>2
    <3>2. cuts[k] = mid[k - 1]
      BY <1>9, <3>1
    <3>3. /\ mid[k - 1] \in T /\ Rank(T, mid[k - 1]) = (k - 1) * TokenLimit
          /\ mid[k - 1] \in 1 .. L - 1
      BY <1>7, <3>1
    <3> QED BY <1>2, <3>2, <3>3
  <2> QED BY <2>1, <2>2
<1>11. ASSUME NEW k \in 1 .. K + 1
       PROVE  /\ cuts[k + 1] \in 0 .. L
              /\ cuts[k] < cuts[k + 1]
              /\ Rank(T, cuts[k + 1]) - Rank(T, cuts[k]) <= TokenLimit
  <2>1. CASE k = K + 1
    <3>1. cuts[k + 1] = L
      BY <1>5, <1>9, <2>1
    <3>2. Rank(T, cuts[k]) = K * TokenLimit /\ K * TokenLimit \in Int
      BY <1>1, <1>5, <1>10, <2>1
    <3>3. cuts[k] < L
      BY <1>2, <1>10
    <3> QED BY <1>1, <1>2, <1>3, <1>4, <1>5, <3>1, <3>2, <3>3
  <2>2. CASE k # K + 1
    <3>1. k + 1 \in 1 .. K + 1 /\ k \in Nat
      BY <1>5, <2>2
    <3>2. /\ Rank(T, cuts[k + 1]) = k * TokenLimit
          /\ cuts[k + 1] \in 0 .. L - 1
      <4>1. (k + 1) - 1 = k
        BY <3>1
      <4> QED BY <1>10, <3>1, <4>1
    <3>3. Rank(T, cuts[k]) = (k - 1) * TokenLimit /\ cuts[k] \in 0 .. L - 1
      BY <1>10
    <3>4. k * TokenLimit = (k - 1) * TokenLimit + TokenLimit
          /\ (k - 1) * TokenLimit \in Int /\ k * TokenLimit \in Int
      BY <1>1, <3>1
    <3>5. cuts[k] \in Int /\ cuts[k + 1] \in Int
      BY <3>2, <3>3
    <3>6. ~ (cuts[k + 1] <= cuts[k])
      <4>1. cuts[k + 1] <= cuts[k] => Rank(T, cuts[k + 1]) <= Rank(T, cuts[k])
        BY <1>3, <3>5, RankGrows
      <4> QED BY <1>1, <3>2, <3>3, <3>4, <4>1
    <3> QED BY <1>1, <1>2, <3>2, <3>3, <3>4, <3>5, <3>6
  <2> QED BY <2>1, <2>2
<1>12. /\ Len(cuts) \in Nat /\ Len(cuts) >= 2 /\ Len(cuts) - 1 = K + 1
       /\ cuts[1] = 0 /\ cuts[Len(cuts)] = L
  BY <1>5, <1>9
<1>13. \A k \in 1 .. K + 1 : cuts[k] \in 0 .. L
  BY <1>2, <1>10
<1> QED
  BY <1>10, <1>11, <1>12, <1>13 DEF cuts, T, L

\* Ranges of bytes that a chunk may have: not empty, between characters, and
\* with no more tokens than the limit.
Fits(bytes, range) ==
    LET text == Slice(bytes, range[1], range[2])
    IN  /\ range = <<range[1], range[2]>>
        /\ range[1] \in 0 .. Len(bytes) /\ range[2] \in 0 .. Len(bytes)
        /\ range[1] < range[2]
        /\ text # << >> /\ text[1] # "cont"
        /\ Cardinality(TokenStarts(Decoded(text))) <= TokenLimit

\* A region that begins with a character is split into such ranges, from its
\* beginning to its end.
LEMMA SplitFits ==
  ASSUME NEW bytes \in Seq(Bytes), NEW region,
         region.start \in 0 .. Len(bytes), region.end \in 0 .. Len(bytes),
         region.start < region.end, AtCharacter(bytes, region.start)
  PROVE  LET r == Split(bytes, region)
         IN  /\ Len(r) \in Nat /\ Len(r) >= 1 /\ r = [k \in 1 .. Len(r) |-> r[k]]
             /\ r[1][1] = region.start /\ r[Len(r)][2] = region.end
             /\ \A k \in 1 .. Len(r) :
                  /\ Fits(bytes, r[k])
                  /\ region.start <= r[k][1] /\ r[k][2] <= region.end
                  /\ k < Len(r) => r[k][2] = r[k + 1][1]
<1> DEFINE s == region.start
           e == region.end
           part == Slice(bytes, s, e)
           chars == Decoded(part)
           T == TokenStarts(chars)
           cuts == TokenCuts(chars)
           E(c) == EncodedLength(part, c)
           r == Split(bytes, region)
<1>1. s \in Nat /\ e \in Nat /\ s < e /\ e <= Len(bytes) /\ Len(bytes) \in Nat
      /\ s \in 0 .. Len(bytes) /\ e \in 0 .. Len(bytes)
  OBVIOUS
<1>0. bytes[s + 1] # "cont"
  BY <1>1 DEF AtCharacter
<1>2. /\ r = IF Cardinality(T) <= TokenLimit THEN <<<<s, e>>>>
             ELSE [k \in 1 .. Len(cuts) - 1 |-> <<s + E(cuts[k]), s + E(cuts[k + 1])>>]
  BY DEF Split
<1> HIDE DEF s, e, r
<1>3. /\ part \in Seq(Bytes) /\ Len(part) = e - s
      /\ \A i \in 1 .. e - s : part[i] = bytes[s + i]
  <2>1. s + 1 \in Int /\ e \in Int /\ s + 1 <= e /\ e - (s + 1) + 1 = e - s
    BY <1>1
  <2>2. \A i \in s + 1 .. e : bytes[i] \in Bytes
    BY <1>1
  <2>3. \A i \in 1 .. e - s : (s + 1) + i - 1 = s + i
    BY <1>1
  <2> QED BY <2>1, <2>2, <2>3, SubSeqProperties DEF Slice
<1>4. part # << >> /\ part[1] # "cont"
  BY <1>0, <1>1, <1>3
<1> HIDE DEF part, chars, T, cuts, E
<1>5. CASE Cardinality(T) <= TokenLimit
  <2>1. r = <<<<s, e>>>>
    BY <1>2, <1>5
  <2>2. Len(r) = 1 /\ r[1] = <<s, e>> /\ r = [k \in 1 .. 1 |-> r[k]]
    BY <2>1
  <2>3. r[1][1] = s /\ r[1][2] = e
    BY <2>2
  <2>4. Fits(bytes, r[1])
    <3>1. Slice(bytes, r[1][1], r[1][2]) = part
      BY <2>3 DEF part
    <3> QED BY <1>1, <1>4, <1>5, <2>2, <2>3, <3>1 DEF Fits, T, chars
  <2> QED BY <1>1, <2>2, <2>3, <2>4 DEF r, s, e
<1>6. CASE ~ (Cardinality(T) <= TokenLimit)
  <2> DEFINE N == Cardinality(CharStarts(part))
  <2>1. /\ N \in Nat /\ chars \in Seq(Bytes) /\ Len(chars) = N
        /\ E(0) = 0 /\ E(N) = e - s
        /\ \A c \in 0 .. N : E(c) \in 0 .. e - s
        /\ \A c, d \in 0 .. N : c < d => E(c) < E(d)
    BY <1>3, <1>4, Characters DEF chars, E
  <2>2. TokenLimit \in Nat /\ Cardinality(T) \in Nat
    <3>1. T \in SUBSET (0 .. N)
      BY <2>1 DEF T, TokenStarts
    <3> HIDE DEF N
    <3> QED BY <2>1, <3>1, RankOfMember, TokenAssumption
  <2>3. Cardinality(T) > TokenLimit
    BY <1>6, <2>2
  <2>4. /\ Len(cuts) \in Nat /\ Len(cuts) >= 2
        /\ cuts[1] = 0 /\ cuts[Len(cuts)] = N
        /\ \A k \in 1 .. Len(cuts) - 1 :
             /\ cuts[k] \in 0 .. N /\ cuts[k + 1] \in 0 .. N
             /\ cuts[k] < cuts[k + 1]
             /\ cuts[k] = 0 \/ cuts[k] \in T
             /\ Rank(T, cuts[k + 1]) - Rank(T, cuts[k]) <= TokenLimit
    BY <2>1, <2>3, Cuts DEF cuts, T
  <2> HIDE DEF N
  <2> DEFINE m == Len(cuts) - 1
  <2>5. r = [k \in 1 .. m |-> <<s + E(cuts[k]), s + E(cuts[k + 1])>>]
    BY <1>2, <1>6
  <2>6. m \in Nat /\ m >= 1 /\ m + 1 = Len(cuts)
    BY <2>4
  <2> HIDE DEF m
  <2>7. Len(r) = m /\ r = [k \in 1 .. m |-> r[k]]
        /\ \A k \in 1 .. m : r[k] = <<s + E(cuts[k]), s + E(cuts[k + 1])>>
    BY <2>5, <2>6
  <2>8. ASSUME NEW k \in 1 .. m
        PROVE  /\ Fits(bytes, r[k])
               /\ s <= r[k][1] /\ r[k][2] <= e
               /\ k < m => r[k][2] = r[k + 1][1]
    <3> DEFINE a == cuts[k]
               b == cuts[k + 1]
               text == SubSeq(part, E(a) + 1, E(b))
    <3>2. /\ a \in 0 .. N /\ b \in 0 .. N /\ a < b
          /\ Rank(T, b) - Rank(T, a) <= TokenLimit
          /\ a = 0 \/ a \in T
      BY <2>4 DEF m
    <3> HIDE DEF a, b
    <3>3. E(a) \in 0 .. e - s /\ E(b) \in 0 .. e - s /\ E(a) < E(b)
      BY <2>1, <3>2
    <3>4. r[k] = <<s + E(a), s + E(b)>> /\ r[k][1] = s + E(a) /\ r[k][2] = s + E(b)
      BY <2>7 DEF a, b
    <3>5. Slice(bytes, r[k][1], r[k][2]) = text
      <4>1. /\ s + 1 \in 1 .. Len(bytes) /\ e \in 1 .. Len(bytes)
            /\ E(a) + 1 \in 1 .. e - (s + 1) + 1 /\ E(b) \in 1 .. e - (s + 1) + 1
            /\ (s + 1) + (E(a) + 1) - 1 = (s + E(a)) + 1
            /\ (s + 1) + E(b) - 1 = s + E(b)
        BY <1>1, <3>3, SMTT(30)
      <4>2. \A i, j \in 1 .. Len(bytes) : \A x, y \in 1 .. j - i + 1 :
              SubSeq(SubSeq(bytes, i, j), x, y)
                = SubSeq(bytes, i + x - 1, i + y - 1)
        BY SubSeqOfSubSeq
      <4>3. part = SubSeq(bytes, s + 1, e)
        BY DEF Slice, part
      <4>4. text = SubSeq(bytes, (s + E(a)) + 1, s + E(b))
        BY <4>1, <4>2, <4>3, Zenon
      <4> QED BY <3>4, <4>4, Zenon DEF Slice
    <3>6. /\ text \in Seq(Bytes) /\ text # << >> /\ text[1] # "cont"
          /\ Decoded(text) \in Seq(Bytes) /\ Len(Decoded(text)) = b - a
          /\ \A c \in 1 .. b - a : Decoded(text)[c] = chars[a + c]
      BY <1>3, <1>4, <3>2, SubText DEF N, E, chars
    <3> HIDE DEF text
    <3>7. Cardinality(TokenStarts(Decoded(text))) = Rank(T, b) - Rank(T, a)
      <4>1. a \in 0 .. Len(chars) /\ b \in a .. Len(chars)
        BY <2>1, <3>2
      <4>2. a = 0 \/ a \in TokenStarts(chars)
        BY <3>2 DEF T
      <4> QED BY <2>1, <3>6, <4>1, <4>2, TokensOfPart DEF T
    <3>8. /\ s + E(a) \in 0 .. Len(bytes) /\ s + E(b) \in 0 .. Len(bytes)
          /\ s + E(a) < s + E(b) /\ s <= s + E(a) /\ s + E(b) <= e
      BY <1>1, <3>3
    <3>9. Fits(bytes, r[k])
      BY <3>2, <3>4, <3>5, <3>6, <3>7, <3>8 DEF Fits
    <3>10. k < m => r[k][2] = r[k + 1][1]
      <4>1. ASSUME k < m PROVE r[k][2] = r[k + 1][1]
        <5>1. k + 1 \in 1 .. m
          BY <2>6, <4>1
        <5>2. r[k + 1] = <<s + E(b), s + E(cuts[(k + 1) + 1])>>
          BY <2>7, <5>1 DEF b
        <5> QED BY <3>4, <5>2
      <4> QED BY <4>1
    <3> QED BY <3>4, <3>8, <3>9, <3>10
  <2>9. r[1][1] = s /\ r[m][2] = e
    <3>1. 1 \in 1 .. m /\ m \in 1 .. m
      BY <2>6
    <3>2. r[1][1] = s + E(cuts[1]) /\ r[m][2] = s + E(cuts[m + 1])
      BY <2>7, <3>1
    <3>3. E(cuts[1]) = 0 /\ E(cuts[m + 1]) = e - s
      BY <2>1, <2>4, <2>6, Zenon
    <3>4. s + 0 = s /\ s + (e - s) = e
      BY <1>1
    <3> QED BY <3>2, <3>3, <3>4, Zenon
  <2> QED BY <2>6, <2>7, <2>8, <2>9 DEF r, s, e
<1> QED BY <1>5, <1>6

-----------------------------------------------------------------------------
(* Sequences of ranges.                                                    *)

\* Where what comes before place k of s ends, and where what follows begins;
\* span[x] is the range of x.
EndBefore(span, s, a, k) == IF k = 0 THEN a ELSE span[s[k]][2]
NextStart(span, s, b, k) == IF k = Len(s) THEN b ELSE span[s[k + 1]][1]

\* The ranges of s lie one behind the other from a to b, with gaps or without.
Runs(gaps, span, s, a, b) ==
    \A k \in 0 .. Len(s) :
      \/ EndBefore(span, s, a, k) = NextStart(span, s, b, k)
      \/ gaps /\ EndBefore(span, s, a, k) < NextStart(span, s, b, k)

\* Where ranges end and begin are numbers.
LEMMA RunsType ==
  ASSUME NEW S, NEW span \in [S -> Int \X Int], NEW s \in Seq(S),
         NEW a \in Int, NEW k \in 0 .. Len(s)
  PROVE  EndBefore(span, s, a, k) \in Int /\ NextStart(span, s, a, k) \in Int
<1>1. Len(s) \in Nat /\ \A i \in 1 .. Len(s) : s[i] \in S
  OBVIOUS
<1>2. \A x \in S : span[x][1] \in Int /\ span[x][2] \in Int
  OBVIOUS
<1>3. /\ k # 0 => span[s[k]][2] \in Int
      /\ k # Len(s) => span[s[k + 1]][1] \in Int
  <2>1. k # 0 => k \in 1 .. Len(s)
    BY <1>1
  <2>2. k # Len(s) => k + 1 \in 1 .. Len(s)
    BY <1>1
  <2> QED BY <1>1, <1>2, <2>1, <2>2, Zenon
<1> QED BY <1>3, Zenon DEF EndBefore, NextStart

\* What runs from a to m and what runs from m to b run from a to b.
LEMMA RunsJoin ==
  ASSUME NEW S, NEW span \in [S -> Int \X Int], NEW gaps \in BOOLEAN,
         NEW s \in Seq(S), NEW t \in Seq(S),
         NEW a \in Int, NEW m \in Int, NEW b \in Int,
         Runs(gaps, span, s, a, m), Runs(gaps, span, t, m, b)
  PROVE  s \o t \in Seq(S) /\ Runs(gaps, span, s \o t, a, b)
<1> DEFINE u == s \o t
<1>0. /\ u \in Seq(S) /\ Len(u) = Len(s) + Len(t)
      /\ \A i \in 1 .. Len(s) + Len(t) :
           u[i] = IF i <= Len(s) THEN s[i] ELSE t[i - Len(s)]
  BY ConcatProperties, Zenon
<1>2. Len(s) \in Nat /\ Len(t) \in Nat
  OBVIOUS
<1> HIDE DEF u
<1>1. /\ Len(u) = Len(s) + Len(t)
      /\ \A i \in 1 .. Len(s) : u[i] = s[i]
      /\ \A i \in 1 .. Len(t) : u[Len(s) + i] = t[i]
  <2>1. \A i \in 1 .. Len(s) : i \in 1 .. Len(s) + Len(t) /\ i <= Len(s)
    BY <1>2
  <2>2. \A i \in 1 .. Len(t) : /\ Len(s) + i \in 1 .. Len(s) + Len(t)
                               /\ ~ (Len(s) + i <= Len(s))
                               /\ (Len(s) + i) - Len(s) = i
    BY <1>2
  <2>3. \A i \in 1 .. Len(s) : u[i] = s[i]
    BY <1>0, <2>1, Zenon
  <2>4. ASSUME NEW i \in 1 .. Len(t) PROVE u[Len(s) + i] = t[i]
    <3>1. u[Len(s) + i] = t[(Len(s) + i) - Len(s)]
      BY <1>0, <2>2, Zenon
    <3> QED BY <2>2, <3>1, Zenon
  <2> QED BY <1>0, <2>3, <2>4
<1>5. ASSUME NEW k \in 0 .. Len(u)
      PROVE  \/ EndBefore(span, u, a, k) = NextStart(span, u, b, k)
             \/ gaps /\ EndBefore(span, u, a, k) < NextStart(span, u, b, k)
  <2>1. CASE k < Len(s)
    <3>1. k \in 0 .. Len(s) /\ k # Len(s) /\ k # Len(u)
      BY <1>1, <1>2, <2>1
    <3>2. EndBefore(span, u, a, k) = EndBefore(span, s, a, k)
      <4>1. k = 0 \/ k \in 1 .. Len(s)
        BY <1>2, <3>1
      <4> QED BY <1>1, <4>1, Zenon DEF EndBefore
    <3>3. NextStart(span, u, b, k) = NextStart(span, s, m, k)
      <4>1. k + 1 \in 1 .. Len(s)
        BY <1>2, <2>1
      <4> QED BY <1>1, <3>1, <4>1, Zenon DEF NextStart
    <3> QED BY <3>1, <3>2, <3>3, Zenon DEF Runs
  <2>2. CASE k > Len(s)
    <3> DEFINE l == k - Len(s)
    <3>0. Len(u) = Len(s) + Len(t)
      BY <1>1
    <3>1. l \in 1 .. Len(t) /\ l \in 0 .. Len(t) /\ l # 0 /\ k # 0 /\ Len(s) + l = k
          /\ (l = Len(t) <=> k = Len(u))
      BY <1>2, <2>2, <3>0
    <3>2. EndBefore(span, u, a, k) = EndBefore(span, t, m, l)
      <4>1. u[k] = t[l]
        BY <1>1, <3>1, Zenon
      <4> QED BY <3>1, <4>1, Zenon DEF EndBefore
    <3>3. NextStart(span, u, b, k) = NextStart(span, t, b, l)
      <4>1. k # Len(u) => l + 1 \in 1 .. Len(t) /\ Len(s) + (l + 1) = k + 1
        BY <1>2, <2>2, <3>1
      <4>2. ASSUME k # Len(u) PROVE u[k + 1] = t[l + 1]
        <5>1. u[Len(s) + (l + 1)] = t[l + 1]
          BY <1>1, <4>1, <4>2, Zenon
        <5> QED BY <4>1, <4>2, <5>1, Zenon
      <4> QED BY <3>1, <4>2, Zenon DEF NextStart
    <3> HIDE DEF l
    <3> QED BY <3>1, <3>2, <3>3, Zenon DEF Runs
  <2>3. CASE k = Len(s)
    <3>1. EndBefore(span, u, a, k) = EndBefore(span, s, a, k)
      <4>1. k = 0 \/ k \in 1 .. Len(s)
        BY <1>2, <2>3
      <4> QED BY <1>1, <4>1, Zenon DEF EndBefore
    <3>2. NextStart(span, u, b, k) = NextStart(span, t, b, 0)
      <4>0. Len(u) = Len(s) + Len(t)
        BY <1>1
      <4>1. k = Len(u) <=> 0 = Len(t)
        BY <1>2, <2>3, <4>0
      <4>2. k # Len(u) => 1 \in 1 .. Len(t) /\ Len(s) + 1 = k + 1 /\ 0 + 1 = 1
        BY <1>2, <2>3, <4>0
      <4>3. k # Len(u) => u[k + 1] = t[1]
        BY <1>1, <4>2, Zenon
      <4> QED BY <4>1, <4>2, <4>3, Zenon DEF NextStart
    <3>3. NextStart(span, s, m, k) = m /\ EndBefore(span, t, m, 0) = m
      BY <2>3 DEF NextStart, EndBefore
    <3>4. k \in 0 .. Len(s) /\ 0 \in 0 .. Len(t)
      BY <1>2, <2>3
    <3>5. /\ \/ EndBefore(span, s, a, k) = m
             \/ gaps /\ EndBefore(span, s, a, k) < m
          /\ \/ m = NextStart(span, t, b, 0)
             \/ gaps /\ m < NextStart(span, t, b, 0)
      BY <3>3, <3>4, Zenon DEF Runs
    <3>6. EndBefore(span, s, a, k) \in Int /\ NextStart(span, t, b, 0) \in Int
      BY <3>4, RunsType
    <3> QED BY <3>1, <3>2, <3>5, <3>6
  <2> QED BY <1>1, <1>2, <2>1, <2>2, <2>3
<1>6. Runs(gaps, span, u, a, b)
  BY <1>5, Zenon DEF Runs
<1> QED BY <1>0, <1>6 DEF u

\* With gaps, there may be one before and one behind.
LEMMA RunsWiden ==
  ASSUME NEW S, NEW span \in [S -> Int \X Int], NEW s \in Seq(S),
         NEW a \in Int, NEW b \in Int, NEW c \in Int, NEW d \in Int,
         Runs(TRUE, span, s, a, b), c <= a, b <= d
  PROVE  Runs(TRUE, span, s, c, d)
<1>1. \A x \in S : span[x][1] \in Int /\ span[x][2] \in Int
  OBVIOUS
<1>2. ASSUME NEW k \in 0 .. Len(s)
      PROVE  EndBefore(span, s, c, k) <= NextStart(span, s, d, k)
  <2>1. EndBefore(span, s, a, k) <= NextStart(span, s, b, k)
    <3>1. EndBefore(span, s, a, k) \in Int /\ NextStart(span, s, b, k) \in Int
      BY RunsType
    <3>2. \/ EndBefore(span, s, a, k) = NextStart(span, s, b, k)
          \/ EndBefore(span, s, a, k) < NextStart(span, s, b, k)
      BY Zenon DEF Runs
    <3> QED BY <3>1, <3>2
  <2>2. EndBefore(span, s, c, k) <= EndBefore(span, s, a, k)
        /\ EndBefore(span, s, c, k) \in Int /\ EndBefore(span, s, a, k) \in Int
    BY <1>1 DEF EndBefore
  <2>3. NextStart(span, s, b, k) <= NextStart(span, s, d, k)
        /\ NextStart(span, s, b, k) \in Int /\ NextStart(span, s, d, k) \in Int
    BY <1>1 DEF NextStart
  <2> QED BY <2>1, <2>2, <2>3
<1>3. ASSUME NEW k \in 0 .. Len(s)
      PROVE  \/ EndBefore(span, s, c, k) = NextStart(span, s, d, k)
             \/ EndBefore(span, s, c, k) < NextStart(span, s, d, k)
  <2>1. EndBefore(span, s, c, k) \in Int /\ NextStart(span, s, d, k) \in Int
    BY RunsType
  <2> QED BY <1>2, <2>1
<1> QED BY <1>3 DEF Runs

\* Sequences that run from c[k - 1] to c[k] run, joined, from first to last.
LEMMA RunsFlatten ==
  ASSUME NEW S, NEW span \in [S -> Int \X Int], NEW gaps \in BOOLEAN,
         NEW ss \in Seq(Seq(S)), NEW c \in [0 .. Len(ss) -> Int],
         \A k \in 1 .. Len(ss) : Runs(gaps, span, ss[k], c[k - 1], c[k])
  PROVE  /\ FlattenSeq(ss) \in Seq(S)
         /\ Runs(gaps, span, FlattenSeq(ss), c[0], c[Len(ss)])
<1>1. PICK f \in [0 .. Len(ss) -> Seq(S)] :
        Joins(ss, f) /\ FlattenSeq(ss) = f[Len(ss)]
  BY FlattenJoins
<1>2. Len(ss) \in Nat /\ \A k \in 1 .. Len(ss) : ss[k] \in Seq(S)
  OBVIOUS
<1> DEFINE T == {k \in 0 .. Len(ss) : ~ Runs(gaps, span, f[k], c[0], c[k])}
<1>3. T = {}
  <2> SUFFICES ASSUME T # {} PROVE FALSE
    OBVIOUS
  <2>1. PICK k \in T : \A l \in T : k <= l
    <3>1. T \in SUBSET Nat
      OBVIOUS
    <3> HIDE DEF T
    <3> QED BY <3>1, Least
  <2>2. k \in 0 .. Len(ss) /\ ~ Runs(gaps, span, f[k], c[0], c[k])
    OBVIOUS
  <2>3. CASE k = 0
    <3>1. f[0] = << >>
      BY <1>1 DEF Joins
    <3>2. Runs(gaps, span, << >>, c[0], c[0])
      BY DEF Runs, EndBefore, NextStart
    <3> QED BY <2>2, <2>3, <3>1, <3>2
  <2>4. CASE k # 0
    <3>1. k \in 1 .. Len(ss) /\ k - 1 \in 0 .. Len(ss) /\ k - 1 < k
      BY <1>2, <2>2, <2>4
    <3>2. k - 1 \notin T
      <4> HIDE DEF T
      <4> QED BY <1>2, <2>1, <2>2, <3>1
    <3>3. Runs(gaps, span, f[k - 1], c[0], c[k - 1])
      BY <3>1, <3>2
    <3>4. f[k] = f[k - 1] \o ss[k]
      BY <1>1, <3>1 DEF Joins
    <3>5. /\ f[k - 1] \in Seq(S) /\ ss[k] \in Seq(S)
          /\ c[0] \in Int /\ c[k - 1] \in Int /\ c[k] \in Int
      <4>1. 0 \in 0 .. Len(ss) /\ k \in 0 .. Len(ss) /\ k - 1 \in 0 .. Len(ss)
        BY <1>2, <3>1
      <4> HIDE DEF T
      <4> QED BY <1>2, <3>1, <4>1
    <3>6. Runs(gaps, span, f[k - 1] \o ss[k], c[0], c[k])
      <4> HIDE DEF T
      <4> QED BY <3>1, <3>3, <3>5, RunsJoin
    <3> QED BY <2>2, <3>4, <3>6
  <2> QED BY <2>3, <2>4
<1>4. Len(ss) \in 0 .. Len(ss)
  BY <1>2
<1> QED BY <1>1, <1>3, <1>4

\* Ranges that lie one behind the other are apart, and between a and b.
LEMMA RunsApart ==
  ASSUME NEW S, NEW span \in [S -> Int \X Int], NEW s \in Seq(S),
         \A x \in S : span[x][1] <= span[x][2],
         NEW a \in Int, NEW b \in Int, NEW gaps \in BOOLEAN,
         Runs(gaps, span, s, a, b)
  PROVE  /\ a <= b
         /\ \A k \in 1 .. Len(s) : a <= span[s[k]][1] /\ span[s[k]][2] <= b
         /\ \A k, l \in 1 .. Len(s) : k < l => span[s[k]][2] <= span[s[l]][1]
<1>1. Len(s) \in Nat
      /\ \A k \in 1 .. Len(s) : /\ span[s[k]][1] \in Int /\ span[s[k]][2] \in Int
                                /\ span[s[k]][1] <= span[s[k]][2]
  OBVIOUS
<1>2. ASSUME NEW k \in 0 .. Len(s)
      PROVE  EndBefore(span, s, a, k) <= NextStart(span, s, b, k)
  <2>1. EndBefore(span, s, a, k) \in Int /\ NextStart(span, s, b, k) \in Int
    BY RunsType
  <2> QED BY <2>1 DEF Runs
<1> DEFINE P(k, l) == EndBefore(span, s, a, k) <= NextStart(span, s, b, l)
<1>3. ASSUME NEW k \in 0 .. Len(s), NEW l \in k .. Len(s)
      PROVE  P(k, l)
  <2> DEFINE T == {i \in k .. Len(s) : ~ P(k, i)}
  <2> SUFFICES ASSUME T # {} PROVE FALSE
    OBVIOUS
  <2>1. PICK i \in T : \A j \in T : i <= j
    <3>1. T \in SUBSET Nat
      OBVIOUS
    <3> HIDE DEF T
    <3> QED BY <3>1, Least
  <2>2. i \in k .. Len(s) /\ ~ P(k, i)
    OBVIOUS
  <2> HIDE DEF T
  <2>3. i # k
    BY <1>2, <2>2
  <2>4. i - 1 \in k .. Len(s) /\ i - 1 \notin T /\ i - 1 # Len(s) /\ i \in 1 .. Len(s)
        /\ (i - 1) + 1 = i
    BY <1>1, <2>1, <2>2, <2>3
  <2>5. P(k, i - 1)
    BY <2>4 DEF T
  <2>6. NextStart(span, s, b, i - 1) = span[s[i]][1] /\ EndBefore(span, s, a, i) = span[s[i]][2]
    BY <2>4 DEF NextStart, EndBefore
  <2>7. span[s[i]][2] <= NextStart(span, s, b, i)
    BY <1>2, <2>4, <2>6
  <2>8. EndBefore(span, s, a, k) \in Int /\ NextStart(span, s, b, i) \in Int
    <3>1. i \in 0 .. Len(s)
      BY <1>1, <2>4
    <3> QED BY <3>1, RunsType
  <2> QED BY <1>1, <2>2, <2>4, <2>5, <2>6, <2>7, <2>8, SMTT(30)
<1> HIDE DEF P
<1>4. a <= b
  <2>1. P(0, Len(s))
    BY <1>1, <1>3
  <2> QED BY <2>1 DEF P, EndBefore, NextStart
<1>5. ASSUME NEW k \in 1 .. Len(s)
      PROVE  a <= span[s[k]][1] /\ span[s[k]][2] <= b
  <2>1. P(0, k - 1) /\ P(k, Len(s))
    BY <1>1, <1>3
  <2>2. k # 0 /\ k - 1 # Len(s) /\ (k - 1) + 1 = k
    BY <1>1
  <2> QED BY <2>1, <2>2 DEF P, EndBefore, NextStart
<1>6. ASSUME NEW k \in 1 .. Len(s), NEW l \in 1 .. Len(s), k < l
      PROVE  span[s[k]][2] <= span[s[l]][1]
  <2>1. P(k, l - 1)
    BY <1>1, <1>3, <1>6
  <2>2. k # 0 /\ l - 1 # Len(s) /\ (l - 1) + 1 = l
    BY <1>1
  <2> QED BY <2>1, <2>2 DEF P, EndBefore, NextStart
<1> QED BY <1>4, <1>5, <1>6

In(x, s) == \E k \in 1 .. Len(s) : s[k] = x

\* A member of the joined sequences is a member of one.
LEMMA FlattenMembers ==
  ASSUME NEW S, NEW ss \in Seq(Seq(S)), NEW x
  PROVE  In(x, FlattenSeq(ss)) <=> \E k \in 1 .. Len(ss) : In(x, ss[k])
<1>1. PICK f \in [0 .. Len(ss) -> Seq(S)] :
        Joins(ss, f) /\ FlattenSeq(ss) = f[Len(ss)]
  BY FlattenJoins
<1>2. Len(ss) \in Nat /\ \A k \in 1 .. Len(ss) : ss[k] \in Seq(S)
  OBVIOUS
<1> DEFINE P(n) == In(x, f[n]) <=> \E k \in 1 .. n : In(x, ss[k])
           T == {n \in 0 .. Len(ss) : ~ P(n)}
<1>3. T = {}
  <2> SUFFICES ASSUME T # {} PROVE FALSE
    OBVIOUS
  <2>1. PICK n \in T : \A l \in T : n <= l
    <3>1. T \in SUBSET Nat
      OBVIOUS
    <3> HIDE DEF T
    <3> QED BY <3>1, Least
  <2>2. n \in 0 .. Len(ss) /\ ~ P(n)
    OBVIOUS
  <2> HIDE DEF T
  <2>3. CASE n = 0
    <3>1. f[0] = << >>
      BY <1>1 DEF Joins
    <3>2. ~ In(x, << >>)
      BY DEF In
    <3>3. ~ \E k \in 1 .. 0 : In(x, ss[k])
      OBVIOUS
    <3> QED BY <2>2, <2>3, <3>1, <3>2, <3>3
  <2>4. CASE n # 0
    <3>1. n \in 1 .. Len(ss) /\ n - 1 \in 0 .. Len(ss) /\ n - 1 \notin T
      BY <1>2, <2>1, <2>2, <2>4
    <3>2. P(n - 1)
      BY <3>1 DEF T
    <3>3. f[n] = f[n - 1] \o ss[n] /\ f[n - 1] \in Seq(S) /\ ss[n] \in Seq(S)
      BY <1>1, <1>2, <3>1 DEF Joins
    <3>4. In(x, f[n]) <=> In(x, f[n - 1]) \/ In(x, ss[n])
      <4> DEFINE s == f[n - 1]
                 t == ss[n]
      <4>1. /\ Len(s \o t) = Len(s) + Len(t)
            /\ \A i \in 1 .. Len(s) + Len(t) :
                 (s \o t)[i] = IF i <= Len(s) THEN s[i] ELSE t[i - Len(s)]
        BY <3>3, ConcatProperties, Zenon
      <4>2. Len(s) \in Nat /\ Len(t) \in Nat
        BY <3>3
      <4> HIDE DEF s, t
      <4>3. ASSUME In(x, s \o t) PROVE In(x, s) \/ In(x, t)
        <5>1. PICK i \in 1 .. Len(s) + Len(t) : (s \o t)[i] = x
          BY <4>1, <4>3 DEF In
        <5>2. CASE i <= Len(s)
          BY <4>1, <4>2, <5>1, <5>2 DEF In
        <5>3. CASE ~ (i <= Len(s))
          <6>1. i - Len(s) \in 1 .. Len(t) /\ t[i - Len(s)] = x
            BY <4>1, <4>2, <5>1, <5>3
          <6> QED BY <6>1 DEF In
        <5> QED BY <5>2, <5>3
      <4>4. ASSUME In(x, s) PROVE In(x, s \o t)
        <5>1. PICK i \in 1 .. Len(s) : s[i] = x
          BY <4>4 DEF In
        <5>2. i \in 1 .. Len(s \o t) /\ (s \o t)[i] = x
          BY <4>1, <4>2, <5>1
        <5> QED BY <5>2 DEF In
      <4>5. ASSUME In(x, t) PROVE In(x, s \o t)
        <5>1. PICK i \in 1 .. Len(t) : t[i] = x
          BY <4>5 DEF In
        <5>2. i + Len(s) \in 1 .. Len(s \o t) /\ (s \o t)[i + Len(s)] = x
          BY <4>1, <4>2, <5>1
        <5> QED BY <5>2 DEF In
      <4> QED BY <3>3, <4>3, <4>4, <4>5 DEF s, t
    <3>5. (\E k \in 1 .. n : In(x, ss[k]))
            <=> In(x, ss[n]) \/ \E k \in 1 .. n - 1 : In(x, ss[k])
      <4>1. \A k \in 1 .. n : k = n \/ k \in 1 .. n - 1
        BY <3>1
      <4>2. n \in 1 .. n /\ \A k \in 1 .. n - 1 : k \in 1 .. n
        BY <3>1
      <4> QED BY <4>1, <4>2, Zenon
    <3> QED BY <2>2, <3>2, <3>4, <3>5
  <2> QED BY <2>3, <2>4
<1>4. Len(ss) \in 0 .. Len(ss)
  BY <1>2
<1>5. P(Len(ss))
  BY <1>3, <1>4
<1> QED BY <1>1, <1>5

-----------------------------------------------------------------------------
(* Symbols.                                                                *)

Symbols(nodes) == {x \in 1 .. Len(nodes) : nodes[x].type \in SymbolTypes}

SymbolSpan(nodes) == [x \in Symbols(nodes) |-> <<nodes[x].start, nodes[x].end>>]

\* What a child hands up to its parent, with f for what is below it.
Handed(f, nodes, child) ==
    IF nodes[child].type \in SymbolTypes THEN <<child>> ELSE f[child]

\* The body of the recursive function in CollectSymbols.
Gathered(f, nodes, n) ==
    FlattenSeq([k \in DOMAIN nodes[n].children |->
                  Handed(f, nodes, nodes[n].children[k])])

\* The types of a syntax tree.
LEMMA TreeType ==
  ASSUME NEW bytes, NEW nodes, IsSyntaxTree(nodes, bytes)
  PROVE  /\ Len(nodes) \in Nat /\ Len(nodes) >= 1 /\ DOMAIN nodes = 1 .. Len(nodes)
         /\ \A n \in 1 .. Len(nodes) :
              /\ nodes[n].start \in Nat /\ nodes[n].end \in Nat
              /\ nodes[n].type \in SymbolTypes \cup {"root", "other"}
              /\ nodes[n].name \in STRING /\ nodes[n].receiver \in STRING
              /\ Len(nodes[n].children) \in Nat
              /\ DOMAIN nodes[n].children = 1 .. Len(nodes[n].children)
<1>1. nodes \in Seq(Nodes) /\ nodes # << >>
  BY DEF IsSyntaxTree
<1>2. Len(nodes) \in Nat /\ Len(nodes) >= 1 /\ DOMAIN nodes = 1 .. Len(nodes)
  BY <1>1, EmptySeq
<1>3. ASSUME NEW n \in 1 .. Len(nodes)
      PROVE  /\ nodes[n].start \in Nat /\ nodes[n].end \in Nat
             /\ nodes[n].type \in SymbolTypes \cup {"root", "other"}
             /\ nodes[n].name \in STRING /\ nodes[n].receiver \in STRING
             /\ nodes[n].children \in Seq(Nat)
  <2>1. nodes[n] \in Nodes
    BY <1>1
  <2> QED BY <2>1 DEF Nodes
<1>4. ASSUME NEW n \in 1 .. Len(nodes)
      PROVE  /\ Len(nodes[n].children) \in Nat
             /\ DOMAIN nodes[n].children = 1 .. Len(nodes[n].children)
  BY <1>3
<1> QED BY <1>2, <1>3, <1>4

\* What holds of each of its nodes.
LEMMA TreeNodes ==
  ASSUME NEW bytes, NEW nodes, IsSyntaxTree(nodes, bytes), NEW n \in 1 .. Len(nodes)
  PROVE  /\ nodes[n].type = "root" <=> n = 1
         /\ nodes[n].start <= nodes[n].end /\ nodes[n].end <= Len(bytes)
         /\ nodes[n].type \in SymbolTypes => nodes[n].start < nodes[n].end
         /\ AtCharacter(bytes, nodes[n].start) /\ AtCharacter(bytes, nodes[n].end)
BY TreeType DEF IsSyntaxTree

\* The children of a node.
LEMMA TreeChildren ==
  ASSUME NEW bytes, NEW nodes, IsSyntaxTree(nodes, bytes), NEW n \in 1 .. Len(nodes),
         NEW k \in 1 .. Len(nodes[n].children)
  PROVE  LET c == nodes[n].children[k]
         IN  /\ c \in 1 .. Len(nodes) /\ n < c
             /\ nodes[n].start <= nodes[c].start /\ nodes[c].end <= nodes[n].end
             /\ \A l \in k + 1 .. Len(nodes[n].children) :
                  nodes[c].end <= nodes[nodes[n].children[l]].start
<1>1. /\ Len(nodes) \in Nat /\ DOMAIN nodes = 1 .. Len(nodes)
      /\ DOMAIN nodes[n].children = 1 .. Len(nodes[n].children)
  BY TreeType
<1>2. LET c == nodes[n].children[k]
      IN  /\ c \in n + 1 .. Len(nodes)
          /\ nodes[n].start <= nodes[c].start /\ nodes[c].end <= nodes[n].end
          /\ \A l \in k + 1 .. Len(nodes[n].children) :
               nodes[c].end <= nodes[nodes[n].children[l]].start
  BY <1>1 DEF IsSyntaxTree
<1>3. \A c \in n + 1 .. Len(nodes) : c \in 1 .. Len(nodes) /\ n < c
  BY <1>1
<1> QED BY <1>2, <1>3, Zenon

\* The parent of a node.
LEMMA TreeParent ==
  ASSUME NEW bytes, NEW nodes, IsSyntaxTree(nodes, bytes),
         NEW x \in 1 .. Len(nodes), x # 1
  PROVE  \E p \in 1 .. Len(nodes) :
           /\ In(x, nodes[p].children)
           /\ \A q \in 1 .. Len(nodes) : In(x, nodes[q].children) => q = p
<1>1. /\ Len(nodes) \in Nat /\ DOMAIN nodes = 1 .. Len(nodes)
      /\ \A p \in 1 .. Len(nodes) : DOMAIN nodes[p].children = 1 .. Len(nodes[p].children)
  BY TreeType
<1>2. x \in 2 .. Len(nodes)
  BY <1>1
<1>3. /\ \E p \in DOMAIN nodes : \E k \in DOMAIN nodes[p].children :
           nodes[p].children[k] = x
      /\ \A p, q \in DOMAIN nodes :
           /\ \E k \in DOMAIN nodes[p].children : nodes[p].children[k] = x
           /\ \E k \in DOMAIN nodes[q].children : nodes[q].children[k] = x
           => p = q
  BY <1>2, Zenon DEF IsSyntaxTree
<1>4. \A p \in DOMAIN nodes :
        In(x, nodes[p].children) <=>
          \E k \in DOMAIN nodes[p].children : nodes[p].children[k] = x
  BY <1>1, Zenon DEF In
<1>5. PICK p \in DOMAIN nodes :
        \E k \in DOMAIN nodes[p].children : nodes[p].children[k] = x
  BY <1>3
<1>6. In(x, nodes[p].children)
  BY <1>4, <1>5
<1>7. ASSUME NEW q \in 1 .. Len(nodes), In(x, nodes[q].children) PROVE q = p
  <2>1. \E k \in DOMAIN nodes[q].children : nodes[q].children[k] = x
    BY <1>1, <1>4, <1>7
  <2> QED BY <1>1, <1>3, <1>5, <2>1, Zenon
<1> QED BY <1>1, <1>5, <1>6, <1>7

\* The recursive function in CollectSymbols exists, and is as its body says.
LEMMA Collected ==
  ASSUME NEW bytes, NEW nodes, IsSyntaxTree(nodes, bytes)
  PROVE  LET C == CollectSymbols(nodes)
         IN  C = [n \in 1 .. Len(nodes) |-> Gathered(C, nodes, n)]
<1> DEFINE N == Len(nodes)
           P(i) == \E g : g = [n \in N + 1 - i .. N |-> Gathered(g, nodes, n)]
           T == {i \in 0 .. N : ~ P(i)}
<1>1. N \in Nat /\ DOMAIN nodes = 1 .. N
  BY TreeType
<1>2. P(0)
  <2> DEFINE g == [n \in N + 1 - 0 .. N |-> 0]
  <2>1. N + 1 - 0 .. N = {}
    BY <1>1
  <2>2. g = [n \in N + 1 - 0 .. N |-> Gathered(g, nodes, n)]
    BY <2>1
  <2> QED BY <2>2
<1>3. ASSUME NEW i \in 1 .. N, P(i - 1) PROVE P(i)
  <2>0. PICK m : m = N + 1 - i
    OBVIOUS
  <2>1. m \in 1 .. N /\ N + 1 - (i - 1) = m + 1
    BY <1>1, <2>0
  <2>2. PICK g : g = [n \in m + 1 .. N |-> Gathered(g, nodes, n)]
    BY <1>3, <2>1
  <2> DEFINE h == [n \in m .. N |-> Gathered(g, nodes, n)]
  <2>3. \A n \in m + 1 .. N : h[n] = g[n]
    <3>1. \A n \in m + 1 .. N : g[n] = Gathered(g, nodes, n)
      BY <2>2
    <3>2. \A n \in m + 1 .. N : n \in m .. N
      BY <1>1, <2>1
    <3> QED BY <3>1, <3>2
  <2> HIDE DEF h
  <2>4. ASSUME NEW n \in m .. N PROVE Gathered(h, nodes, n) = Gathered(g, nodes, n)
    <3>1. n \in 1 .. N /\ DOMAIN nodes[n].children = 1 .. Len(nodes[n].children)
      <4>1. n \in 1 .. N
        BY <1>1, <2>1
      <4> QED BY <4>1, TreeType
    <3>2. ASSUME NEW k \in 1 .. Len(nodes[n].children)
          PROVE  Handed(h, nodes, nodes[n].children[k])
                   = Handed(g, nodes, nodes[n].children[k])
      <4>1. nodes[n].children[k] \in 1 .. N /\ n < nodes[n].children[k]
        BY <3>1, TreeChildren
      <4>2. nodes[n].children[k] \in m + 1 .. N
        BY <1>1, <2>1, <4>1
      <4> QED BY <2>3, <4>2, Zenon DEF Handed
    <3>3. [k \in DOMAIN nodes[n].children |-> Handed(h, nodes, nodes[n].children[k])]
            = [k \in DOMAIN nodes[n].children |-> Handed(g, nodes, nodes[n].children[k])]
      BY <3>1, <3>2
    <3> QED BY <3>3 DEF Gathered
  <2>5. h = [n \in m .. N |-> Gathered(h, nodes, n)]
    BY <2>4 DEF h
  <2> QED BY <2>0, <2>5
<1> HIDE DEF P
<1>4. T = {}
  <2> SUFFICES ASSUME T # {} PROVE FALSE
    OBVIOUS
  <2>1. PICK i \in T : \A j \in T : i <= j
    <3>1. T \in SUBSET Nat
      OBVIOUS
    <3> HIDE DEF T
    <3> QED BY <3>1, Least
  <2>2. i \in 0 .. N /\ ~ P(i)
    OBVIOUS
  <2>3. i \in 1 .. N /\ i - 1 \in 0 .. N /\ i - 1 < i
    BY <1>1, <1>2, <2>2
  <2>4. i - 1 \notin T
    <3> HIDE DEF T
    <3> QED BY <1>1, <2>1, <2>3
  <2> QED BY <1>3, <2>2, <2>3, <2>4
<1>5. P(N)
  BY <1>1, <1>4
<1>6. \E g : g = [n \in 1 .. N |-> Gathered(g, nodes, n)]
  <2>1. N + 1 - N = 1
    BY <1>1
  <2> QED BY <1>5, <2>1 DEF P
<1>7. CollectSymbols(nodes)
        = CHOOSE g : g = [n \in 1 .. N |-> Gathered(g, nodes, n)]
  BY <1>1 DEF CollectSymbols, Gathered, Handed
<1> QED BY <1>6, <1>7

\* What CollectSymbols gives for a node: symbols, in their order in the file
\* and without overlap, within the node's bytes.
LEMMA CollectedRuns ==
  ASSUME NEW bytes, NEW nodes, IsSyntaxTree(nodes, bytes), NEW n \in 1 .. Len(nodes)
  PROVE  LET C == CollectSymbols(nodes)
         IN  /\ C[n] \in Seq(Symbols(nodes))
             /\ Runs(TRUE, SymbolSpan(nodes), C[n], nodes[n].start, nodes[n].end)
<1> DEFINE N == Len(nodes)
           C == CollectSymbols(nodes)
           S == Symbols(nodes)
           span == SymbolSpan(nodes)
           P(m) == /\ C[m] \in Seq(S)
                   /\ Runs(TRUE, span, C[m], nodes[m].start, nodes[m].end)
           T == {m \in 1 .. N : ~ P(m)}
<1>1. N \in Nat
  BY TreeType
<1>2. C = [m \in 1 .. N |-> Gathered(C, nodes, m)]
  BY Collected
<1>3. S \in SUBSET (1 .. N) /\ \A x \in 1 .. N : x \in S <=> nodes[x].type \in SymbolTypes
  BY DEF Symbols
<1>4. /\ span \in [S -> Int \X Int]
      /\ \A x \in S : span[x][1] = nodes[x].start /\ span[x][2] = nodes[x].end
  <2>1. \A x \in S : <<nodes[x].start, nodes[x].end>> \in Int \X Int
    BY <1>3, TreeType
  <2>2. span = [x \in S |-> <<nodes[x].start, nodes[x].end>>]
    BY DEF SymbolSpan
  <2> HIDE DEF span, S
  <2> QED BY <2>1, <2>2
<1> SUFFICES ASSUME T # {} PROVE FALSE
  OBVIOUS
<1> HIDE DEF C, S, span, P
<1>5. PICK m \in T : \A l \in T : l <= m
  <2>1. T \in SUBSET Nat /\ \A l \in T : l <= N
    BY <1>1
  <2> HIDE DEF T
  <2> QED BY <1>1, <2>1, Greatest
<1>6. m \in 1 .. N /\ ~ P(m)
  OBVIOUS
<1>7. ASSUME NEW l \in 1 .. N, m < l PROVE P(l)
  <2>1. ~ (l <= m)
    BY <1>1, <1>6, <1>7
  <2>2. l \notin T
    <3> HIDE DEF T
    <3> QED BY <1>5, <2>1
  <2> QED BY <2>2
<1> HIDE DEF T
<1> DEFINE kids == nodes[m].children
           K == Len(kids)
           ss == [k \in 1 .. K |-> Handed(C, nodes, kids[k])]
           c == [k \in 0 .. K |-> IF k = 0 THEN nodes[m].start ELSE nodes[kids[k]].end]
<1>8. /\ K \in Nat /\ DOMAIN kids = 1 .. K
      /\ nodes[m].start \in Int /\ nodes[m].end \in Int /\ nodes[m].start <= nodes[m].end
  BY <1>6, TreeType, TreeNodes
<1>9. ASSUME NEW k \in 1 .. K
      PROVE  /\ kids[k] \in 1 .. N /\ m < kids[k]
             /\ nodes[kids[k]].start \in Int /\ nodes[kids[k]].end \in Int
             /\ nodes[kids[k]].start <= nodes[kids[k]].end
             /\ nodes[m].start <= nodes[kids[k]].start
             /\ nodes[kids[k]].end <= nodes[m].end
             /\ \A l \in k + 1 .. K : nodes[kids[k]].end <= nodes[kids[l]].start
  BY <1>6, TreeChildren, TreeType, TreeNodes
<1> HIDE DEF kids, K
<1>10. C[m] = FlattenSeq(ss)
  BY <1>2, <1>6, <1>8 DEF Gathered, kids
<1>11. ASSUME NEW k \in 1 .. K
       PROVE  /\ ss[k] \in Seq(S)
              /\ Runs(TRUE, span, ss[k], nodes[kids[k]].start, nodes[kids[k]].end)
  <2>1. CASE kids[k] \in S
    <3>1. ss[k] = <<kids[k]>>
      BY <1>3, <2>1 DEF Handed
    <3>2. <<kids[k]>> \in Seq(S) /\ Len(<<kids[k]>>) = 1 /\ <<kids[k]>>[1] = kids[k]
      BY <2>1
    <3>3. Runs(TRUE, span, <<kids[k]>>, nodes[kids[k]].start, nodes[kids[k]].end)
      <4>1. \A i \in 0 .. 1 : i = 0 \/ i = 1
        OBVIOUS
      <4>2. /\ span[kids[k]][1] = nodes[kids[k]].start
            /\ span[kids[k]][2] = nodes[kids[k]].end
        BY <1>4, <2>1
      <4>3. 0 # 1 /\ 0 + 1 = 1
        OBVIOUS
      <4> QED BY <3>2, <4>1, <4>2, <4>3, Zenon DEF Runs, EndBefore, NextStart
    <3> QED BY <3>1, <3>2, <3>3
  <2>2. CASE kids[k] \notin S
    <3>1. ss[k] = C[kids[k]]
      BY <1>3, <1>9, <2>2 DEF Handed
    <3> QED BY <1>7, <1>9, <3>1 DEF P
  <2> QED BY <2>1, <2>2
<1>12. /\ c \in [0 .. K -> Int] /\ c[0] = nodes[m].start
       /\ \A k \in 1 .. K : c[k] = nodes[kids[k]].end
  BY <1>8, <1>9
<1>13. ss \in Seq(Seq(S)) /\ Len(ss) = K
  <2>1. \A k \in 1 .. K : Handed(C, nodes, kids[k]) \in Seq(S)
    BY <1>11
  <2> QED BY <1>8, <2>1
<1> HIDE DEF ss, c
<1>14. ASSUME NEW k \in 1 .. K PROVE Runs(TRUE, span, ss[k], c[k - 1], c[k])
  <2>1. c[k - 1] <= nodes[kids[k]].start /\ c[k - 1] \in Int
    <3>1. CASE k = 1
      <4>1. k - 1 = 0
        BY <3>1
      <4> QED BY <1>8, <1>9, <1>12, <4>1
    <3>2. CASE k # 1
      <4>1. k - 1 \in 1 .. K /\ k \in (k - 1) + 1 .. K
        BY <1>8, <3>2
      <4>2. c[k - 1] = nodes[kids[k - 1]].end
        BY <1>12, <4>1
      <4>3. nodes[kids[k - 1]].end <= nodes[kids[k]].start
            /\ nodes[kids[k - 1]].end \in Int
        BY <1>9, <4>1
      <4> QED BY <4>2, <4>3
    <3> QED BY <3>1, <3>2
  <2>2. c[k] = nodes[kids[k]].end
    BY <1>12
  <2>3. /\ nodes[kids[k]].start \in Int /\ nodes[kids[k]].end \in Int
        /\ nodes[kids[k]].end <= nodes[kids[k]].end
    BY <1>9
  <2>4. PICK a, b, d, s :
          /\ a = nodes[kids[k]].start /\ b = nodes[kids[k]].end
          /\ d = c[k - 1] /\ s = ss[k]
    OBVIOUS
  <2>5. /\ a \in Int /\ b \in Int /\ d \in Int /\ s \in Seq(S)
        /\ d <= a /\ b <= b /\ Runs(TRUE, span, s, a, b)
    BY <1>11, <2>1, <2>3, <2>4
  <2>6. Runs(TRUE, span, s, d, b)
    BY <1>4, <2>5, RunsWiden
  <2> QED BY <2>2, <2>4, <2>6
<1>15. /\ FlattenSeq(ss) \in Seq(S)
       /\ Runs(TRUE, span, FlattenSeq(ss), c[0], c[K])
  BY <1>4, <1>12, <1>13, <1>14, RunsFlatten
<1>16. c[K] <= nodes[m].end /\ c[K] \in Int
  <2>1. CASE K = 0
    BY <1>8, <1>12, <2>1
  <2>2. CASE K # 0
    <3>1. K \in 1 .. K
      BY <1>8, <2>2
    <3> QED BY <1>9, <1>12, <3>1
  <2> QED BY <2>1, <2>2
<1>17. Runs(TRUE, span, FlattenSeq(ss), nodes[m].start, nodes[m].end)
  <2>1. nodes[m].start <= c[0] /\ c[0] \in Int
    BY <1>8, <1>12
  <2> QED BY <1>4, <1>8, <1>15, <1>16, <2>1, RunsWiden
<1> QED BY <1>6, <1>10, <1>15, <1>17 DEF P

\* Each is a child, or handed up by a child that is no symbol.
LEMMA CollectedMembers ==
  ASSUME NEW bytes, NEW nodes, IsSyntaxTree(nodes, bytes), NEW n \in 1 .. Len(nodes),
         NEW x
  PROVE  LET C == CollectSymbols(nodes)
         IN  In(x, C[n]) <=>
               \E c \in 1 .. Len(nodes) :
                 /\ In(c, nodes[n].children)
                 /\ IF c \in Symbols(nodes) THEN x = c ELSE In(x, C[c])
<1> DEFINE C == CollectSymbols(nodes)
           S == Symbols(nodes)
           kids == nodes[n].children
           K == Len(kids)
           ss == [k \in 1 .. K |-> Handed(C, nodes, kids[k])]
<1>1. K \in Nat /\ DOMAIN kids = 1 .. K
  BY TreeType
<1>2. C[n] = FlattenSeq(ss)
  <2>1. C[n] = Gathered(C, nodes, n)
    <3>1. C = [m \in 1 .. Len(nodes) |-> Gathered(C, nodes, m)]
      BY Collected
    <3> HIDE DEF C
    <3> QED BY <3>1
  <2> QED BY <1>1, <2>1 DEF Gathered
<1>3. \A k \in 1 .. K : kids[k] \in 1 .. Len(nodes)
  BY TreeChildren
<1>4. \A c \in 1 .. Len(nodes) : c \in S <=> nodes[c].type \in SymbolTypes
  BY DEF Symbols
<1>5. \A c \in 1 .. Len(nodes) : C[c] \in Seq(S)
  BY CollectedRuns
<1> HIDE DEF C, S, kids, K
<1>6. ASSUME NEW k \in 1 .. K
      PROVE  ss[k] = IF kids[k] \in S THEN <<kids[k]>> ELSE C[kids[k]]
  BY <1>3, <1>4 DEF Handed
<1>7. ss \in Seq(Seq(S)) /\ Len(ss) = K
  <2>1. \A k \in 1 .. K : Handed(C, nodes, kids[k]) \in Seq(S)
    <3>1. ASSUME NEW k \in 1 .. K PROVE ss[k] \in Seq(S)
      <4>1. CASE kids[k] \in S
        <5>1. ss[k] = <<kids[k]>>
          BY <1>6, <4>1, Zenon
        <5>2. <<kids[k]>> \in Seq(S)
          BY <4>1
        <5> QED BY <5>1, <5>2, Zenon
      <4>2. CASE kids[k] \notin S
        BY <1>3, <1>5, <1>6, <4>2, Zenon
      <4> QED BY <4>1, <4>2
    <3> QED BY <3>1
  <2> QED BY <1>1, <2>1
<1> HIDE DEF ss
<1>8. In(x, FlattenSeq(ss)) <=> \E k \in 1 .. K : In(x, ss[k])
  BY <1>7, FlattenMembers
<1>9. ASSUME NEW k \in 1 .. K
      PROVE  In(x, ss[k]) <=> IF kids[k] \in S THEN x = kids[k] ELSE In(x, C[kids[k]])
  <2>1. In(x, <<kids[k]>>) <=> x = kids[k]
    BY DEF In
  <2> QED BY <1>6, <2>1
<1> QED BY <1>2, <1>3, <1>8, <1>9, Zenon DEF In, C, S, kids, K

\* Each comes after the node.
LEMMA CollectedAfter ==
  ASSUME NEW bytes, NEW nodes, IsSyntaxTree(nodes, bytes),
         NEW n \in 1 .. Len(nodes), NEW x, In(x, CollectSymbols(nodes)[n])
  PROVE  x \in Symbols(nodes) /\ x \in 1 .. Len(nodes) /\ n < x
<1> DEFINE N == Len(nodes)
           C == CollectSymbols(nodes)
           T == {m \in 1 .. N : In(x, C[m]) /\ ~ (m < x)}
<1>1. N \in Nat
  BY TreeType
<1>2. x \in Symbols(nodes)
  <2>1. C[n] \in Seq(Symbols(nodes))
    BY CollectedRuns
  <2> QED BY <2>1 DEF In
<1>3. x \in 1 .. N
  BY <1>2 DEF Symbols
<1>4. T = {}
  <2> SUFFICES ASSUME T # {} PROVE FALSE
    OBVIOUS
  <2>1. PICK m \in T : \A l \in T : l <= m
    <3>1. T \in SUBSET Nat /\ \A l \in T : l <= N
      BY <1>1
    <3> HIDE DEF T
    <3> QED BY <1>1, <3>1, Greatest
  <2>2. m \in 1 .. N /\ In(x, C[m]) /\ ~ (m < x)
    OBVIOUS
  <2>3. PICK c \in 1 .. N : /\ In(c, nodes[m].children)
                            /\ IF c \in Symbols(nodes) THEN x = c ELSE In(x, C[c])
    BY <2>2, CollectedMembers
  <2>4. m < c
    BY <2>2, <2>3, TreeChildren, SMTT(30) DEF In
  <2>5. c \notin T
    <3>1. ~ (c <= m)
      BY <1>1, <2>2, <2>4
    <3> HIDE DEF T
    <3> QED BY <2>1, <3>1
  <2>6. x = c \/ (In(x, C[c]) /\ c < x)
    BY <2>3, <2>5
  <2> HIDE DEF T, C
  <2> QED BY <1>3, <2>2, <2>4, <2>6
<1> QED BY <1>2, <1>3, <1>4

\* Two symbols that are collected for a node lie within it and apart.
LEMMA CollectedApart ==
  ASSUME NEW bytes, NEW nodes, IsSyntaxTree(nodes, bytes), NEW n \in 1 .. Len(nodes),
         NEW x, In(x, CollectSymbols(nodes)[n])
  PROVE  /\ nodes[n].start <= nodes[x].start /\ nodes[x].end <= nodes[n].end
         /\ \A y : In(y, CollectSymbols(nodes)[n]) /\ x # y =>
              nodes[x].end <= nodes[y].start \/ nodes[y].end <= nodes[x].start
<1> DEFINE s == CollectSymbols(nodes)[n]
           S == Symbols(nodes)
           span == SymbolSpan(nodes)
           a == nodes[n].start
           b == nodes[n].end
<1>1. s \in Seq(S) /\ Runs(TRUE, span, s, a, b)
  BY CollectedRuns
<1>2. S \in SUBSET (1 .. Len(nodes)) /\ \A y \in S : nodes[y].type \in SymbolTypes
  BY DEF Symbols
<1>3. /\ span \in [S -> Int \X Int]
      /\ \A y \in S : span[y][1] = nodes[y].start /\ span[y][2] = nodes[y].end
  <2>1. \A y \in S : <<nodes[y].start, nodes[y].end>> \in Int \X Int
    BY <1>2, TreeType
  <2>2. span = [y \in S |-> <<nodes[y].start, nodes[y].end>>]
    BY DEF SymbolSpan
  <2> HIDE DEF span, S
  <2> QED BY <2>1, <2>2
<1>4. a \in Int /\ b \in Int
  BY TreeType
<1>5. \A y \in S : span[y][1] <= span[y][2]
  BY <1>2, <1>3, TreeNodes
<1> HIDE DEF S, span, a, b
<1>6. /\ \A k \in 1 .. Len(s) : a <= span[s[k]][1] /\ span[s[k]][2] <= b
      /\ \A k, l \in 1 .. Len(s) : k < l => span[s[k]][2] <= span[s[l]][1]
  <2> HIDE DEF s
  <2> QED BY <1>1, <1>3, <1>4, <1>5, RunsApart
<1>7. PICK k \in 1 .. Len(s) : s[k] = x
  BY DEF In
<1>8. x \in S
  BY <1>1, <1>7
<1>9. ASSUME NEW y, In(y, s), x # y
      PROVE  nodes[x].end <= nodes[y].start \/ nodes[y].end <= nodes[x].start
  <2>1. PICK l \in 1 .. Len(s) : s[l] = y
    BY <1>9 DEF In
  <2>2. y \in S
    BY <1>1, <2>1
  <2>3. k < l \/ l < k
    BY <1>7, <1>9, <2>1
  <2>4. /\ span[x][1] = nodes[x].start /\ span[x][2] = nodes[x].end
        /\ span[y][1] = nodes[y].start /\ span[y][2] = nodes[y].end
    BY <1>3, <1>8, <2>2
  <2>5. k < l => span[s[k]][2] <= span[s[l]][1]
    BY <1>6
  <2>6. l < k => span[s[l]][2] <= span[s[k]][1]
    BY <1>6
  <2> QED BY <1>7, <2>1, <2>3, <2>4, <2>5, <2>6
<1>10. a <= nodes[x].start /\ nodes[x].end <= b
  BY <1>3, <1>6, <1>7, <1>8
<1> QED BY <1>9, <1>10 DEF a, b

\* A symbol is collected for one node that is a symbol or the root.
LEMMA OuterSymbol ==
  ASSUME NEW bytes, NEW nodes, IsSyntaxTree(nodes, bytes), NEW x \in Symbols(nodes)
  PROVE  LET C == CollectSymbols(nodes)
             p == Outer(nodes, x)
         IN  /\ p \in 1 .. Len(nodes) /\ p < x /\ In(x, C[p])
             /\ p # 1 => p \in Symbols(nodes)
             /\ \A q \in 1 .. Len(nodes) :
                  /\ In(x, C[q])
                  /\ q # 1 => q \in Symbols(nodes)
                  => q = p
<1> DEFINE N == Len(nodes)
           C == CollectSymbols(nodes)
           S == Symbols(nodes)
           Q == {q \in 1 .. N : In(x, C[q])}
           inner(q) == nodes[q].type # "other"
<1>1. N \in Nat /\ DOMAIN nodes = 1 .. N
  BY TreeType
<1>2. x \in 1 .. N /\ x # 1
  <2>1. x \in 1 .. N /\ nodes[x].type \in SymbolTypes
    BY DEF Symbols
  <2>2. "root" \notin SymbolTypes
    BY DEF SymbolTypes
  <2> QED BY <2>1, <2>2, TreeNodes
<1>3. \A q \in 1 .. N : inner(q) <=> (q # 1 => q \in S)
  <2>1. ASSUME NEW q \in 1 .. N PROVE inner(q) <=> (q # 1 => q \in S)
    <3>1. nodes[q].type \in SymbolTypes \cup {"root", "other"}
      BY TreeType
    <3>2. nodes[q].type = "root" <=> q = 1
      BY TreeNodes
    <3>3. q \in S <=> nodes[q].type \in SymbolTypes
      BY DEF Symbols
    <3>4. "other" \notin SymbolTypes /\ "root" \notin SymbolTypes /\ "other" # "root"
      BY DEF SymbolTypes
    <3> QED BY <3>1, <3>2, <3>3, <3>4
  <2> QED BY <2>1
<1>4. \A q, c \in 1 .. N : In(c, nodes[q].children) => q < c
  BY TreeChildren DEF In
<1>5. \A q \in 1 .. N :
        In(x, C[q]) <=> \E c \in 1 .. N : /\ In(c, nodes[q].children)
                                          /\ IF c \in S THEN x = c ELSE In(x, C[c])
  BY CollectedMembers
<1>6. \A c \in 1 .. N : c # 1 =>
        \E q \in 1 .. N : /\ In(c, nodes[q].children)
                          /\ \A r \in 1 .. N : In(c, nodes[r].children) => r = q
  BY TreeParent
<1>7. Outer(nodes, x) = CHOOSE q \in 1 .. N : inner(q) /\ In(x, C[q])
  <2>1. ASSUME NEW q \in 1 .. N PROVE DOMAIN C[q] = 1 .. Len(C[q])
    <3>1. C[q] \in Seq(S)
      BY CollectedRuns
    <3> HIDE DEF C
    <3> QED BY <3>1
  <2>2. \A q \in 1 .. N : In(x, C[q]) <=> \E k \in DOMAIN C[q] : C[q][k] = x
    BY <2>1 DEF In
  <2> QED BY <1>1, <2>2 DEF Outer
<1> HIDE DEF N, C, S, inner
<1>8. PICK g \in 1 .. N : /\ In(x, nodes[g].children)
                          /\ \A r \in 1 .. N : In(x, nodes[r].children) => r = g
  BY <1>2, <1>6
<1>9. g \in Q
  <2>1. In(x, C[g])
    BY <1>2, <1>5, <1>8 DEF S
  <2> QED BY <2>1
<1>10. \E p \in Q : inner(p)
  <2>1. PICK p \in Q : \A q \in Q : p <= q
    <3>1. Q \in SUBSET Nat /\ Q # {}
      BY <1>1, <1>9
    <3> HIDE DEF Q
    <3> QED BY <3>1, Least
  <2>2. p \in 1 .. N /\ In(x, C[p])
    OBVIOUS
  <2>3. ASSUME ~ inner(p) PROVE FALSE
    <3>1. p # 1 /\ p \notin S
      BY <1>3, <2>2, <2>3
    <3>2. PICK q \in 1 .. N : In(p, nodes[q].children)
      BY <1>6, <2>2, <3>1
    <3>3. In(x, C[q]) /\ q < p
      BY <1>4, <1>5, <2>2, <3>1, <3>2
    <3>4. q \in Q /\ ~ (p <= q)
      BY <1>1, <2>2, <3>3
    <3> HIDE DEF Q
    <3> QED BY <2>1, <3>4
  <2> QED BY <2>3
\* Every node that it is collected for but the parent has a child that handed
\* it up, and these differ, so that no two can lack a parent that it is
\* collected for.
<1>11. ASSUME NEW p \in Q, NEW q \in Q, inner(p), inner(q), p # q PROVE FALSE
  <2> DEFINE Step(r, c) == In(c, nodes[r].children) /\ c \notin S /\ c \in Q
             A == Q \ {g}
             B == (Q \ {p}) \ {q}
             f == [r \in A |-> CHOOSE c \in Q : Step(r, c)]
  <2>1. ASSUME NEW r \in A PROVE f[r] \in Q /\ Step(r, f[r])
    <3>1. r \in 1 .. N /\ In(x, C[r]) /\ r # g
      OBVIOUS
    <3>2. PICK c \in 1 .. N : /\ In(c, nodes[r].children)
                              /\ IF c \in S THEN x = c ELSE In(x, C[c])
      BY <1>5, <3>1
    <3>3. c \notin S
      BY <1>8, <3>1, <3>2
    <3>4. c \in Q /\ Step(r, c)
      BY <3>2, <3>3
    <3>5. f[r] = CHOOSE d \in Q : Step(r, d)
      OBVIOUS
    <3> HIDE DEF f, Q, Step
    <3> QED BY <3>4, <3>5
  <2> HIDE DEF f
  <2>2. ASSUME NEW r \in A PROVE f[r] \in B /\ f[r] \in 1 .. N /\ f[r] # 1
    <3>1. f[r] \in 1 .. N /\ r \in 1 .. N /\ f[r] \in Q
      BY <2>1
    <3>2. r < f[r]
      BY <1>4, <2>1, <3>1
    <3>3. f[r] # 1
      BY <1>1, <3>1, <3>2
    <3>4. ~ inner(f[r])
      BY <1>3, <2>1, <3>1, <3>3
    <3>5. f[r] # p /\ f[r] # q
      BY <1>11, <3>4
    <3> QED BY <3>1, <3>3, <3>5
  <2>3. ASSUME NEW r \in A, NEW t \in A, f[r] = f[t] PROVE r = t
    <3>1. r \in 1 .. N /\ t \in 1 .. N
      OBVIOUS
    <3>2. In(f[r], nodes[r].children) /\ In(f[r], nodes[t].children)
      BY <2>1, <2>3
    <3>3. f[r] \in 1 .. N /\ f[r] # 1
      BY <2>2
    <3> QED BY <1>6, <3>1, <3>2, <3>3
  <2>4. f \in Injection(A, B)
    <3>1. f \in [A -> B]
      <4>1. f = [r \in A |-> f[r]]
        BY DEF f
      <4>2. \A r \in A : f[r] \in B
        BY <2>2
      <4> HIDE DEF A, B
      <4> QED BY <4>1, <4>2
    <3>2. DOMAIN f = A
      BY DEF f
    <3> HIDE DEF A, B
    <3> QED BY <2>3, <3>1, <3>2 DEF Injection, IsInjective
  <2>5. IsFiniteSet(Q) /\ IsFiniteSet(Q \ {p})
    <3>1. Q \in SUBSET (0 .. N)
      BY <1>1
    <3> HIDE DEF Q
    <3>2. IsFiniteSet(Q)
      BY <1>1, <3>1, RankOfMember
    <3> QED BY <3>2, FS_RemoveElement
  <2>6. q \in Q \ {p}
    BY <1>11
  <2> HIDE DEF Q
  <2>7. /\ Cardinality(A) = Cardinality(Q) - 1
        /\ Cardinality(Q \ {p}) = Cardinality(Q) - 1
        /\ IsFiniteSet(B) /\ Cardinality(B) = Cardinality(Q \ {p}) - 1
    BY <1>9, <2>5, <2>6, FS_RemoveElement
  <2>8. Cardinality(Q) \in Nat
    BY <2>5, FS_CardinalityType
  <2> HIDE DEF A, B
  <2>9. Cardinality(A) <= Cardinality(B)
    BY <2>4, <2>7, FS_Injection
  <2> QED BY <2>7, <2>8, <2>9
<1> DEFINE o == CHOOSE q \in 1 .. N : inner(q) /\ In(x, C[q])
<1>12. o \in 1 .. N /\ inner(o) /\ In(x, C[o])
  <2>1. \E q \in 1 .. N : inner(q) /\ In(x, C[q])
    BY <1>10
  <2> QED BY <2>1
<1>13. o = Outer(nodes, x)
  BY <1>7
<1> HIDE DEF o
<1>14. o < x
  BY <1>12, CollectedAfter DEF C, N
<1>15. ASSUME NEW q \in 1 .. N, In(x, C[q]), inner(q) PROVE q = o
  BY <1>11, <1>12, <1>15
<1> QED BY <1>3, <1>12, <1>13, <1>14, <1>15 DEF N, C, S

-----------------------------------------------------------------------------
(* The symbols around a byte.                                              *)

SymbolsAround(nodes, o) ==
    {x \in Symbols(nodes) : nodes[x].start <= o /\ o < nodes[x].end}

\* The symbol outside a symbol around o is around it too, or the root.
LEMMA OuterAround ==
  ASSUME NEW bytes, NEW nodes, IsSyntaxTree(nodes, bytes), NEW o \in Nat,
         NEW x \in SymbolsAround(nodes, o)
  PROVE  LET p == Outer(nodes, x)
         IN  /\ p \in 1 .. Len(nodes) /\ p < x /\ x \in 1 .. Len(nodes)
             /\ p # 1 => p \in SymbolsAround(nodes, o)
<1> DEFINE p == Outer(nodes, x)
<1>1. /\ p \in 1 .. Len(nodes) /\ p < x /\ In(x, CollectSymbols(nodes)[p])
      /\ p # 1 => p \in Symbols(nodes)
  BY OuterSymbol DEF SymbolsAround
<1>2. x \in 1 .. Len(nodes) /\ nodes[x].start <= o /\ o < nodes[x].end
  BY DEF SymbolsAround, Symbols
<1> HIDE DEF p
<1>3. nodes[p].start <= nodes[x].start /\ nodes[x].end <= nodes[p].end
  BY <1>1, CollectedApart
<1>4. /\ nodes[p].start \in Int /\ nodes[p].end \in Int
      /\ nodes[x].start \in Int /\ nodes[x].end \in Int
  BY <1>1, <1>2, TreeType
<1>5. nodes[p].start <= o /\ o < nodes[p].end
  BY <1>2, <1>3, <1>4
<1> QED BY <1>1, <1>2, <1>5 DEF p, SymbolsAround

\* They are a chain: each is collected for one that is not before another.
LEMMA AroundChain ==
  ASSUME NEW bytes, NEW nodes, IsSyntaxTree(nodes, bytes), NEW o \in Nat,
         NEW x \in {1} \cup SymbolsAround(nodes, o), NEW y \in SymbolsAround(nodes, o),
         x < y
  PROVE  x <= Outer(nodes, y)
<1> DEFINE A == SymbolsAround(nodes, o)
           N == Len(nodes)
           O(z) == Outer(nodes, z)
           P(u, v) == u < v => u <= O(v)
           T == {s \in Nat : \E u \in {1} \cup A, v \in A : s = u + v /\ ~ P(u, v)}
<1>1. N \in Nat /\ N >= 1
  BY TreeType
<1>2. \A z \in A : /\ O(z) \in 1 .. N /\ O(z) < z /\ z \in 1 .. N
                   /\ O(z) # 1 => O(z) \in A
  BY OuterAround
<1>3. ASSUME NEW u \in A, NEW v \in A, u < v PROVE O(u) # O(v)
  <2> SUFFICES ASSUME O(u) = O(v) PROVE FALSE
    OBVIOUS
  <2>1. /\ In(u, CollectSymbols(nodes)[O(u)]) /\ In(v, CollectSymbols(nodes)[O(u)])
        /\ O(u) \in 1 .. N
    BY OuterSymbol DEF SymbolsAround
  <2>2. u # v
    <3>1. u \in 1 .. N /\ v \in 1 .. N
      BY <1>2
    <3> QED BY <1>1, <1>3, <3>1
  <2> HIDE DEF O
  <2>3. nodes[u].end <= nodes[v].start \/ nodes[v].end <= nodes[u].start
    BY <2>1, <2>2, CollectedApart
  <2>4. nodes[u].start <= o /\ o < nodes[u].end /\ nodes[v].start <= o /\ o < nodes[v].end
    BY DEF SymbolsAround
  <2>5. /\ nodes[u].start \in Int /\ nodes[u].end \in Int
        /\ nodes[v].start \in Int /\ nodes[v].end \in Int
    BY <1>2, TreeType
  <2> QED BY <2>3, <2>4, <2>5
<1> HIDE DEF A, O, N
<1>4. T = {}
  <2> SUFFICES ASSUME T # {} PROVE FALSE
    OBVIOUS
  <2>1. PICK s \in T : \A t \in T : s <= t
    <3>1. T \in SUBSET Nat
      OBVIOUS
    <3> HIDE DEF T
    <3> QED BY <3>1, Least
  <2>2. PICK u \in {1} \cup A, v \in A : s = u + v /\ ~ P(u, v)
    OBVIOUS
  <2>3. ASSUME NEW w \in {1} \cup A, NEW z \in A, w + z < u + v PROVE P(w, z)
    <3>0. w \in Nat /\ z \in Nat /\ u \in Nat /\ v \in Nat
      <4>1. \A t \in {1} \cup A : t \in Nat
        BY <1>1, <1>2
      <4> QED BY <4>1
    <3>1. w + z \in Nat /\ s \in Nat /\ ~ (s <= w + z)
      BY <2>2, <2>3, <3>0
    <3>2. w + z \notin T
      <4> HIDE DEF T
      <4> QED BY <2>1, <3>1
    <3> HIDE DEF P
    <3> QED BY <3>1, <3>2
  <2>4. /\ u < v /\ O(v) < u /\ O(v) \in 1 .. N /\ v \in 1 .. N /\ u \in 1 .. N
        /\ O(v) # 1 => O(v) \in A
    BY <1>1, <1>2, <2>2
  <2>5. u \in A
    BY <2>2, <2>4
  <2>6. O(u) \in 1 .. N /\ O(u) < u /\ (O(u) # 1 => O(u) \in A) /\ O(u) # O(v)
    BY <1>2, <1>3, <2>4, <2>5
  <2>7. CASE O(u) < O(v)
    <3>1. O(v) \in {1} \cup A /\ O(v) + u < u + v
      BY <2>4
    <3>2. P(O(v), u)
      BY <2>3, <2>5, <3>1
    <3> QED BY <2>4, <2>6, <2>7, <3>2
  <2>8. CASE O(v) < O(u)
    <3>1. O(u) \in {1} \cup A /\ O(u) + v < u + v
      BY <2>4, <2>6
    <3>2. P(O(u), v)
      BY <2>3, <2>2, <3>1
    <3> QED BY <2>4, <2>6, <2>8, <3>2
  <2> QED BY <2>4, <2>6, <2>7, <2>8
<1>5. x + y \in Nat /\ x \in Nat /\ y \in Nat /\ O(y) \in Nat
  <2>1. \A z \in A : z \in Nat /\ O(z) \in Nat
    BY <1>1, <1>2
  <2>2. y \in A /\ (x = 1 \/ x \in A)
    BY DEF A
  <2> QED BY <2>1, <2>2
<1>6. P(x, y)
  <2> HIDE DEF P
  <2>1. x \in {1} \cup A /\ y \in A
    BY DEF A
  <2> QED BY <1>4, <1>5, <2>1
<1> QED BY <1>6 DEF O

\* A symbol around o, or the root, that has no symbol around o collected for
\* it is the last of those around o, and the one it is collected for is the
\* last of the others.
LEMMA Innermost ==
  ASSUME NEW bytes, NEW nodes, IsSyntaxTree(nodes, bytes), NEW o \in Nat,
         NEW m \in {1} \cup SymbolsAround(nodes, o),
         \A y \in SymbolsAround(nodes, o) : ~ In(y, CollectSymbols(nodes)[m])
  PROVE  LET A == SymbolsAround(nodes, o)
         IN  /\ \A y \in A : y <= m
             /\ m # 1 => \A y \in A \ {m} :
                  y <= Outer(nodes, m) /\ Outer(nodes, m) \in A \ {m}
<1> DEFINE A == SymbolsAround(nodes, o)
           N == Len(nodes)
           O(z) == Outer(nodes, z)
           T == {y \in A : ~ (y <= m)}
<1>1. N \in Nat /\ N >= 1
  BY TreeType
<1>2. \A z \in A : /\ O(z) \in 1 .. N /\ O(z) < z /\ z \in 1 .. N
                   /\ O(z) # 1 => O(z) \in A
  BY OuterAround
<1>3. \A u \in {1} \cup A, v \in A : u < v => u <= O(v)
  BY AroundChain
<1>4. \A y \in A : In(y, CollectSymbols(nodes)[O(y)])
  BY OuterSymbol DEF SymbolsAround
<1>5. m \in {1} \cup A /\ \A y \in A : ~ In(y, CollectSymbols(nodes)[m])
  OBVIOUS
<1> HIDE DEF A, O, N
<1>6. m \in 1 .. N /\ 1 \notin A
  BY <1>1, <1>2, <1>5
<1>7. T = {}
  <2> SUFFICES ASSUME T # {} PROVE FALSE
    OBVIOUS
  <2>1. PICK y \in T : \A t \in T : y <= t
    <3>1. T \in SUBSET Nat
      BY <1>1, <1>2
    <3> HIDE DEF T
    <3> QED BY <3>1, Least
  <2>2. y \in A /\ ~ (y <= m)
    OBVIOUS
  <2>3. O(y) \in 1 .. N /\ O(y) < y /\ y \in 1 .. N /\ (O(y) # 1 => O(y) \in A)
    BY <1>2, <2>2
  <2>4. m <= O(y)
    BY <1>3, <1>5, <1>6, <2>2, <2>3
  <2>5. O(y) # m
    BY <1>4, <1>5, <2>2
  <2>6. O(y) \in T
    BY <1>1, <1>6, <2>3, <2>4, <2>5
  <2> HIDE DEF T
  <2> QED BY <2>1, <2>3, <2>6
<1>8. ASSUME m # 1, NEW y \in A \ {m}
      PROVE  y <= O(m) /\ O(m) \in A \ {m}
  <2>1. m \in A /\ y \in A /\ y # m
    BY <1>5, <1>8
  <2>2. /\ O(m) \in 1 .. N /\ O(m) < m /\ m \in 1 .. N /\ y \in 1 .. N
        /\ O(m) # 1 => O(m) \in A
    BY <1>2, <2>1
  <2>3. y < m
    <3>1. y <= m
      BY <1>7, <2>1
    <3> QED BY <2>1, <2>2, <3>1
  <2>4. y <= O(m)
    BY <1>3, <2>1, <2>3
  <2>5. y # 1
    BY <1>6, <2>1
  <2>6. O(m) # 1
    BY <2>2, <2>4, <2>5
  <2> QED BY <2>2, <2>4, <2>6
<1>9. \A y \in A : y <= m
  BY <1>7
<1> QED BY <1>8, <1>9 DEF A, O

-----------------------------------------------------------------------------
(* Regions.                                                                *)

\* A file that SemanticChunks is for.
IsParsed(file) ==
    /\ file.bytes \in Seq(Bytes)
    /\ IsSyntaxTree(file.nodes, file.bytes)

Owners(file) == {1} \cup Symbols(file.nodes)

\* A range that may be a region of symbol m: within it, and apart from the
\* symbols inside it.
Owned(file, m, s, e) ==
    /\ m \in Owners(file)
    /\ s \in 0 .. Len(file.bytes) /\ e \in 0 .. Len(file.bytes)
    /\ StartByte(file, m) <= s /\ e <= EndByte(file, m)
    /\ s < e \/ file.bytes = << >>
    /\ AtCharacter(file.bytes, s)
    /\ \A y : In(y, CollectSymbols(file.nodes)[m]) =>
         e <= file.nodes[y].start \/ file.nodes[y].end <= s

Regions(file) ==
    {Region(file.nodes, t[1], t[2], t[3]) :
       t \in {u \in Owners(file) \X (0 .. Len(file.bytes)) \X (0 .. Len(file.bytes)) :
                Owned(file, u[1], u[2], u[3])}}

RegionSpan(file) == [r \in Regions(file) |-> <<r.start, r.end>>]

\* Regions(file) and RegionSpan(file), by the symbol and the range.
LEMMA RegionsType ==
  ASSUME NEW file
  PROVE  /\ \A m, s, e : Owned(file, m, s, e) =>
              /\ Region(file.nodes, m, s, e) \in Regions(file)
              /\ RegionSpan(file)[Region(file.nodes, m, s, e)] = <<s, e>>
         /\ \A r \in Regions(file) : \E m, s, e :
              Owned(file, m, s, e) /\ r = Region(file.nodes, m, s, e)
         /\ RegionSpan(file) \in [Regions(file) -> Int \X Int]
         /\ \A r \in Regions(file) : RegionSpan(file)[r] = <<r.start, r.end>>
<1>1. ASSUME NEW m, NEW s, NEW e, Owned(file, m, s, e)
      PROVE  Region(file.nodes, m, s, e) \in Regions(file)
  <2> DEFINE t == <<m, s, e>>
  <2>1. /\ t \in Owners(file) \X (0 .. Len(file.bytes)) \X (0 .. Len(file.bytes))
        /\ t[1] = m /\ t[2] = s /\ t[3] = e
    BY <1>1 DEF Owned
  <2> HIDE DEF t
  <2> QED BY <1>1, <2>1 DEF Regions
<1>2. ASSUME NEW r \in Regions(file)
      PROVE  \E m, s, e : Owned(file, m, s, e) /\ r = Region(file.nodes, m, s, e)
  BY DEF Regions
<1>3. ASSUME NEW r \in Regions(file) PROVE <<r.start, r.end>> \in Int \X Int
  <2>1. PICK m, s, e : Owned(file, m, s, e) /\ r = Region(file.nodes, m, s, e)
    BY <1>2
  <2>2. r.start = s /\ r.end = e
    BY <2>1 DEF Region
  <2> QED BY <2>1, <2>2 DEF Owned
<1>4. /\ RegionSpan(file) \in [Regions(file) -> Int \X Int]
      /\ \A r \in Regions(file) : RegionSpan(file)[r] = <<r.start, r.end>>
  BY <1>3 DEF RegionSpan
<1>5. ASSUME NEW m, NEW s, NEW e, Owned(file, m, s, e)
      PROVE  RegionSpan(file)[Region(file.nodes, m, s, e)] = <<s, e>>
  <2>1. Region(file.nodes, m, s, e).start = s /\ Region(file.nodes, m, s, e).end = e
    BY DEF Region
  <2> QED BY <1>1, <1>4, <1>5, <2>1
<1> QED BY <1>1, <1>2, <1>4, <1>5

\* Symbols and the module, with their ranges.
LEMMA OwnersType ==
  ASSUME NEW file, IsParsed(file)
  PROVE  /\ Len(file.bytes) \in Nat /\ Len(file.nodes) \in Nat
         /\ Owners(file) \in SUBSET (1 .. Len(file.nodes))
         /\ 1 \notin Symbols(file.nodes)
         /\ SymbolSpan(file.nodes) \in [Symbols(file.nodes) -> Int \X Int]
         /\ \A x \in Symbols(file.nodes) :
              /\ SymbolSpan(file.nodes)[x] = <<StartByte(file, x), EndByte(file, x)>>
              /\ StartByte(file, x) = file.nodes[x].start
              /\ EndByte(file, x) = file.nodes[x].end
              /\ StartByte(file, x) < EndByte(file, x)
         /\ \A m \in Owners(file) :
              /\ StartByte(file, m) \in 0 .. Len(file.bytes)
              /\ EndByte(file, m) \in 0 .. Len(file.bytes)
              /\ StartByte(file, m) <= EndByte(file, m)
              /\ AtCharacter(file.bytes, StartByte(file, m))
              /\ AtCharacter(file.bytes, EndByte(file, m))
<1> DEFINE nodes == file.nodes
           bytes == file.bytes
           S == Symbols(nodes)
<1>1. bytes \in Seq(Bytes) /\ IsSyntaxTree(nodes, bytes) /\ Len(bytes) \in Nat
  BY DEF IsParsed
<1>2. Len(nodes) \in Nat /\ Len(nodes) >= 1
  BY <1>1, TreeType
<1>3. \A x \in S : x \in 1 .. Len(nodes) /\ nodes[x].type \in SymbolTypes
  BY DEF Symbols
<1>4. 1 \notin S
  <2>1. nodes[1].type = "root"
    BY <1>1, <1>2, TreeNodes
  <2> QED BY <1>3, <2>1 DEF SymbolTypes
<1> HIDE DEF nodes, bytes
<1>5. ASSUME NEW x \in S
      PROVE  /\ nodes[x].start \in 0 .. Len(bytes) /\ nodes[x].end \in 0 .. Len(bytes)
             /\ nodes[x].start < nodes[x].end
             /\ AtCharacter(bytes, nodes[x].start) /\ AtCharacter(bytes, nodes[x].end)
  <2>1. /\ nodes[x].start \in Nat /\ nodes[x].end \in Nat
        /\ nodes[x].end <= Len(bytes) /\ nodes[x].start < nodes[x].end
        /\ AtCharacter(bytes, nodes[x].start) /\ AtCharacter(bytes, nodes[x].end)
    BY <1>1, <1>3, TreeType, TreeNodes
  <2> QED BY <1>1, <2>1
<1>6. \A x \in S : StartByte(file, x) = nodes[x].start /\ EndByte(file, x) = nodes[x].end
  BY <1>4 DEF StartByte, EndByte, nodes
<1>7. /\ StartByte(file, 1) = 0 /\ EndByte(file, 1) = Len(bytes)
      /\ AtCharacter(bytes, 0) /\ AtCharacter(bytes, Len(bytes))
  BY <1>1 DEF StartByte, EndByte, IsSyntaxTree, AtCharacter, bytes
<1> HIDE DEF S
<1>8. /\ SymbolSpan(nodes) \in [S -> Int \X Int]
      /\ \A x \in S : SymbolSpan(nodes)[x] = <<nodes[x].start, nodes[x].end>>
  <2>1. \A x \in S : <<nodes[x].start, nodes[x].end>> \in Int \X Int
    BY <1>5
  <2> QED BY <2>1 DEF SymbolSpan, S
<1>9. Owners(file) = {1} \cup S
  BY DEF Owners, S, nodes
<1>10. ASSUME NEW m \in Owners(file)
       PROVE  /\ StartByte(file, m) \in 0 .. Len(bytes)
              /\ EndByte(file, m) \in 0 .. Len(bytes)
              /\ StartByte(file, m) <= EndByte(file, m)
              /\ AtCharacter(bytes, StartByte(file, m))
              /\ AtCharacter(bytes, EndByte(file, m))
  <2>1. CASE m = 1
    BY <1>1, <1>7, <2>1
  <2>2. CASE m \in S
    BY <1>5, <1>6, <2>2
  <2> QED BY <1>9, <2>1, <2>2
<1>11. Owners(file) \in SUBSET (1 .. Len(nodes))
  BY <1>2, <1>3, <1>9
<1> QED
  BY <1>1, <1>2, <1>4, <1>5, <1>6, <1>8, <1>10, <1>11 DEF nodes, bytes, S

\* The symbols inside a symbol, and the gaps before, between and after them.
LEMMA Gaps ==
  ASSUME NEW file, IsParsed(file), NEW m \in Owners(file)
  PROVE  LET kids == CollectSymbols(file.nodes)[m]
             span == SymbolSpan(file.nodes)
         IN  /\ kids \in Seq(Symbols(file.nodes))
             /\ \A k \in 1 .. Len(kids) : m < kids[k]
             /\ \A i \in 0 .. Len(kids) :
                  LET s == EndBefore(span, kids, StartByte(file, m), i)
                      e == NextStart(span, kids, EndByte(file, m), i)
                  IN  /\ s \in Int /\ e \in Int /\ s <= e
                      /\ s < e => Owned(file, m, s, e)
<1> DEFINE nodes == file.nodes
           bytes == file.bytes
           S == Symbols(nodes)
           kids == CollectSymbols(nodes)[m]
           span == SymbolSpan(nodes)
           a == StartByte(file, m)
           b == EndByte(file, m)
           s(i) == EndBefore(span, kids, a, i)
           e(i) == NextStart(span, kids, b, i)
<1>1. bytes \in Seq(Bytes) /\ IsSyntaxTree(nodes, bytes) /\ Len(bytes) \in Nat
  BY DEF IsParsed
<1>2. m \in 1 .. Len(nodes) /\ (m # 1 => m \in S)
  BY OwnersType DEF Owners
<1>3. /\ span \in [S -> Int \X Int]
      /\ \A x \in S : /\ span[x] = <<nodes[x].start, nodes[x].end>>
                      /\ span[x][1] = nodes[x].start /\ span[x][2] = nodes[x].end
                      /\ nodes[x].start < nodes[x].end
                      /\ nodes[x].start \in 0 .. Len(bytes)
                      /\ nodes[x].end \in 0 .. Len(bytes)
                      /\ AtCharacter(bytes, nodes[x].end)
  <2>1. ASSUME NEW x \in S
        PROVE  /\ span[x] = <<nodes[x].start, nodes[x].end>>
               /\ nodes[x].start < nodes[x].end
               /\ nodes[x].start \in 0 .. Len(bytes)
               /\ nodes[x].end \in 0 .. Len(bytes)
               /\ AtCharacter(bytes, nodes[x].end)
    <3>1. x \in Owners(file)
      BY DEF Owners
    <3> QED BY <3>1, OwnersType
  <2> QED BY <2>1, OwnersType
<1>4. /\ a \in 0 .. Len(bytes) /\ b \in 0 .. Len(bytes) /\ a <= b
      /\ AtCharacter(bytes, a)
  BY OwnersType
<1>5. kids \in Seq(S) /\ Runs(TRUE, span, kids, nodes[m].start, nodes[m].end)
  BY <1>1, <1>2, CollectedRuns
<1>6. \A k \in 1 .. Len(kids) : m < kids[k]
  BY <1>1, <1>2, CollectedAfter DEF In
<1>7. /\ nodes[m].start \in Int /\ nodes[m].end \in Int
      /\ a <= nodes[m].start /\ nodes[m].end <= b
  <2>1. /\ nodes[m].start \in Nat /\ nodes[m].end \in Nat /\ nodes[m].end <= Len(bytes)
    BY <1>1, <1>2, TreeType, TreeNodes
  <2>2. IF m = 1 THEN a = 0 /\ b = Len(bytes) ELSE a = nodes[m].start /\ b = nodes[m].end
    BY DEF StartByte, EndByte
  <2> HIDE DEF a, b, nodes
  <2> QED BY <2>1, <2>2
<1> HIDE DEF nodes, bytes, S, kids, span, a, b
<1>8. Runs(TRUE, span, kids, a, b) /\ a \in Int /\ b \in Int
  <2>1. a \in Int /\ b \in Int
    BY <1>1, <1>4
  <2>2. PICK c, d : c = nodes[m].start /\ d = nodes[m].end
    OBVIOUS
  <2>3. /\ c \in Int /\ d \in Int /\ a <= c /\ d <= b
        /\ Runs(TRUE, span, kids, c, d)
    BY <1>5, <1>7, <2>2
  <2>4. span \in [S -> Int \X Int] /\ kids \in Seq(S)
    BY <1>3, <1>5
  <2> QED BY <2>1, <2>3, <2>4, RunsWiden
<1>9. Len(kids) \in Nat /\ \A k \in 1 .. Len(kids) : kids[k] \in S
  BY <1>5
<1>10. \A x \in S : span[x][1] <= span[x][2]
  BY <1>3
<1>11. /\ \A k \in 1 .. Len(kids) : a <= span[kids[k]][1] /\ span[kids[k]][2] <= b
       /\ \A k, l \in 1 .. Len(kids) : k < l => span[kids[k]][2] <= span[kids[l]][1]
  BY <1>3, <1>5, <1>8, <1>10, RunsApart
<1>12. ASSUME NEW i \in 0 .. Len(kids)
       PROVE  s(i) \in Int /\ e(i) \in Int /\ s(i) <= e(i)
  <2>1. s(i) \in Int /\ e(i) \in Int
    BY <1>3, <1>5, <1>8, RunsType
  <2> QED BY <1>8, <2>1 DEF Runs
<1>13. ASSUME NEW i \in 0 .. Len(kids), s(i) < e(i)
       PROVE  Owned(file, m, s(i), e(i))
  <2>1. /\ i # 0 => i \in 1 .. Len(kids)
        /\ i # Len(kids) => i + 1 \in 1 .. Len(kids)
    BY <1>9
  <2>2. s(i) = IF i = 0 THEN a ELSE span[kids[i]][2]
    BY DEF EndBefore
  <2>3. e(i) = IF i = Len(kids) THEN b ELSE span[kids[i + 1]][1]
    BY DEF NextStart
  <2>4. s(i) \in 0 .. Len(bytes) /\ a <= s(i) /\ AtCharacter(bytes, s(i))
    <3>1. CASE i = 0
      BY <1>4, <2>2, <3>1
    <3>2. CASE i # 0
      <4>1. kids[i] \in S /\ s(i) = nodes[kids[i]].end /\ a <= nodes[kids[i]].start
        BY <1>3, <1>9, <1>11, <2>1, <2>2, <3>2
      <4>2. /\ nodes[kids[i]].start < nodes[kids[i]].end
            /\ nodes[kids[i]].start \in 0 .. Len(bytes)
            /\ nodes[kids[i]].end \in 0 .. Len(bytes)
            /\ AtCharacter(bytes, nodes[kids[i]].end)
        BY <1>3, <4>1
      <4> QED BY <1>4, <4>1, <4>2
    <3> QED BY <3>1, <3>2
  <2>5. e(i) \in 0 .. Len(bytes) /\ e(i) <= b
    <3>1. CASE i = Len(kids)
      BY <1>4, <2>3, <3>1
    <3>2. CASE i # Len(kids)
      <4>1. /\ kids[i + 1] \in S /\ e(i) = nodes[kids[i + 1]].start
            /\ nodes[kids[i + 1]].end <= b
        BY <1>3, <1>9, <1>11, <2>1, <2>3, <3>2
      <4>2. /\ nodes[kids[i + 1]].start < nodes[kids[i + 1]].end
            /\ nodes[kids[i + 1]].start \in 0 .. Len(bytes)
            /\ nodes[kids[i + 1]].end \in 0 .. Len(bytes)
        BY <1>3, <4>1
      <4> QED BY <1>4, <4>1, <4>2
    <3> QED BY <3>1, <3>2
  <2>6. ASSUME NEW k \in 1 .. Len(kids)
        PROVE  e(i) <= nodes[kids[k]].start \/ nodes[kids[k]].end <= s(i)
    <3>1. /\ kids[k] \in S /\ span[kids[k]][1] = nodes[kids[k]].start
          /\ span[kids[k]][2] = nodes[kids[k]].end
          /\ span[kids[k]][1] \in Int /\ span[kids[k]][2] \in Int
      BY <1>3, <1>9
    <3>2. CASE k <= i
      <4>1. i # 0 /\ i \in 1 .. Len(kids) /\ s(i) = span[kids[i]][2] /\ kids[i] \in S
        BY <1>9, <2>1, <2>2, <3>2
      <4>2. span[kids[i]][1] <= span[kids[i]][2]
            /\ span[kids[i]][1] \in Int /\ span[kids[i]][2] \in Int
        BY <1>3, <4>1
      <4>3. CASE k = i
        BY <3>1, <4>1, <4>2, <4>3
      <4>4. CASE k < i
        <5>1. span[kids[k]][2] <= span[kids[i]][1]
          BY <1>11, <4>1, <4>4
        <5> QED BY <3>1, <4>1, <4>2, <5>1
      <4> QED BY <3>2, <4>3, <4>4
    <3>3. CASE i < k
      <4>1. i # Len(kids) /\ i + 1 \in 1 .. Len(kids) /\ e(i) = span[kids[i + 1]][1]
            /\ kids[i + 1] \in S
        BY <1>9, <2>1, <2>3, <3>3
      <4>2. span[kids[i + 1]][1] <= span[kids[i + 1]][2]
            /\ span[kids[i + 1]][1] \in Int /\ span[kids[i + 1]][2] \in Int
        BY <1>3, <4>1
      <4>3. CASE k = i + 1
        BY <3>1, <4>1, <4>2, <4>3
      <4>4. CASE i + 1 < k
        <5>1. span[kids[i + 1]][2] <= span[kids[k]][1]
          BY <1>11, <4>1, <4>4
        <5> QED BY <3>1, <4>1, <4>2, <5>1
      <4> QED BY <3>3, <4>3, <4>4
    <3> QED BY <3>2, <3>3
  <2>7. \A y : In(y, kids) => e(i) <= nodes[y].start \/ nodes[y].end <= s(i)
    BY <2>6 DEF In
  <2> HIDE DEF s, e
  <2> QED BY <1>13, <2>4, <2>5, <2>7 DEF Owned, nodes, bytes, kids, a, b
<1> QED
  BY <1>5, <1>6, <1>12, <1>13 DEF nodes, S, kids, span, a, b

\* The body of the recursive function in Partition, in parts: where the next
\* region begins, the gap before child k, what comes before the rest, and all.
Cursor(file, n, k) ==
    IF k = 1 THEN StartByte(file, n)
    ELSE EndByte(file, CollectSymbols(file.nodes)[n][k - 1])

Gap(file, n, k) ==
    LET kid == CollectSymbols(file.nodes)[n][k]
    IN  IF Cursor(file, n, k) < StartByte(file, kid)
        THEN <<Region(file.nodes, n, Cursor(file, n, k), StartByte(file, kid))>>
        ELSE << >>

Parts(g, file, n) ==
    [k \in DOMAIN CollectSymbols(file.nodes)[n] |->
       Gap(file, n, k) \o g[CollectSymbols(file.nodes)[n][k]]]

Rest(file, n) == Cursor(file, n, Len(CollectSymbols(file.nodes)[n]) + 1)

WithRest(before, file, n) ==
    IF \/ Rest(file, n) < EndByte(file, n)
       \/ before = << >> /\ StartByte(file, n) = EndByte(file, n)
    THEN Append(before, Region(file.nodes, n, Rest(file, n), EndByte(file, n)))
    ELSE before

Parted(g, file, n) == WithRest(FlattenSeq(Parts(g, file, n)), file, n)

\* That function exists.
LEMMA PartitionUnfolds ==
  ASSUME NEW file, IsParsed(file)
  PROVE  \E R : /\ R = [n \in 1 .. Len(file.nodes) |-> Parted(R, file, n)]
                /\ Partition(file) = R[1]
<1> DEFINE nodes == file.nodes
           C == CollectSymbols(nodes)
           N == Len(nodes)
           P(i) == \E g : g = [n \in N + 1 - i .. N |-> Parted(g, file, n)]
           T == {i \in 0 .. N : ~ P(i)}
<1>1. N \in Nat /\ DOMAIN nodes = 1 .. N /\ IsSyntaxTree(nodes, file.bytes)
  BY TreeType DEF IsParsed
<1>2. P(0)
  <2> DEFINE g == [n \in N + 1 - 0 .. N |-> 0]
  <2>1. N + 1 - 0 .. N = {}
    BY <1>1
  <2>2. g = [n \in N + 1 - 0 .. N |-> Parted(g, file, n)]
    BY <2>1
  <2> QED BY <2>2
<1>3. ASSUME NEW i \in 1 .. N, P(i - 1) PROVE P(i)
  <2>0. PICK m : m = N + 1 - i
    OBVIOUS
  <2>1. m \in 1 .. N /\ N + 1 - (i - 1) = m + 1
    BY <1>1, <2>0
  <2>2. PICK g : g = [n \in m + 1 .. N |-> Parted(g, file, n)]
    BY <1>3, <2>1
  <2> DEFINE h == [n \in m .. N |-> Parted(g, file, n)]
  <2>3. \A n \in m + 1 .. N : h[n] = g[n]
    <3>1. \A n \in m + 1 .. N : g[n] = Parted(g, file, n)
      BY <2>2
    <3>2. \A n \in m + 1 .. N : n \in m .. N
      BY <1>1, <2>1
    <3> QED BY <3>1, <3>2
  <2> HIDE DEF h
  <2>4. ASSUME NEW n \in m .. N PROVE Parted(h, file, n) = Parted(g, file, n)
    <3>1. n \in 1 .. N /\ DOMAIN C[n] = 1 .. Len(C[n])
      <4>1. n \in 1 .. N
        BY <1>1, <2>1
      <4>2. C[n] \in Seq(Symbols(nodes))
        BY <1>1, <4>1, CollectedRuns
      <4> QED BY <4>1, <4>2
    <3>2. ASSUME NEW k \in 1 .. Len(C[n]) PROVE h[C[n][k]] = g[C[n][k]]
      <4>1. C[n][k] \in 1 .. N /\ n < C[n][k]
        BY <1>1, <3>1, CollectedAfter DEF In
      <4>2. C[n][k] \in m + 1 .. N
        BY <1>1, <2>1, <4>1
      <4> QED BY <2>3, <4>2, Zenon
    <3>3. Parts(h, file, n) = Parts(g, file, n)
      BY <3>1, <3>2 DEF Parts
    <3> QED BY <3>3 DEF Parted
  <2>5. h = [n \in m .. N |-> Parted(h, file, n)]
    BY <2>4 DEF h
  <2> QED BY <2>0, <2>5
<1> HIDE DEF P
<1>4. T = {}
  <2> SUFFICES ASSUME T # {} PROVE FALSE
    OBVIOUS
  <2>1. PICK i \in T : \A j \in T : i <= j
    <3>1. T \in SUBSET Nat
      OBVIOUS
    <3> HIDE DEF T
    <3> QED BY <3>1, Least
  <2>2. i \in 0 .. N /\ ~ P(i)
    OBVIOUS
  <2>3. i \in 1 .. N /\ i - 1 \in 0 .. N /\ i - 1 < i
    BY <1>1, <1>2, <2>2
  <2>4. i - 1 \notin T
    <3> HIDE DEF T
    <3> QED BY <1>1, <2>1, <2>3
  <2> QED BY <1>3, <2>2, <2>3, <2>4
<1>5. P(N)
  BY <1>1, <1>4
<1> DEFINE R == CHOOSE g : g = [n \in 1 .. N |-> Parted(g, file, n)]
<1>6. R = [n \in 1 .. N |-> Parted(R, file, n)]
  <2>1. N + 1 - N = 1
    BY <1>1
  <2>2. \E g : g = [n \in 1 .. N |-> Parted(g, file, n)]
    BY <1>5, <2>1 DEF P
  <2> QED BY <2>2
<1>7. Partition(file) = R[1]
  BY <1>1 DEF Partition, Parted, WithRest, Rest, Parts, Gap, Cursor
<1> HIDE DEF R
<1> QED BY <1>6, <1>7

\* A single range runs from its start to its end.
LEMMA OneRange ==
  ASSUME NEW S, NEW span \in [S -> Int \X Int], NEW x \in S,
         NEW a, NEW b, span[x] = <<a, b>>
  PROVE  <<x>> \in Seq(S) /\ Runs(FALSE, span, <<x>>, a, b)
<1>1. <<x>> \in Seq(S) /\ Len(<<x>>) = 1 /\ <<x>>[1] = x
  OBVIOUS
<1>2. \A i \in 0 .. 1 : i = 0 \/ i = 1
  OBVIOUS
<1>3. span[x][1] = a /\ span[x][2] = b
  OBVIOUS
<1>4. 0 # 1 /\ 0 + 1 = 1
  OBVIOUS
<1> QED BY <1>1, <1>2, <1>3, <1>4, Zenon DEF Runs, EndBefore, NextStart

\* The regions of a symbol follow each other from its first byte to its last.
LEMMA PartitionRuns ==
  ASSUME NEW file, IsParsed(file),
         NEW R, R = [n \in 1 .. Len(file.nodes) |-> Parted(R, file, n)],
         NEW n \in Owners(file)
  PROVE  /\ R[n] \in Seq(Regions(file))
         /\ Runs(FALSE, RegionSpan(file), R[n], StartByte(file, n), EndByte(file, n))
<1> DEFINE nodes == file.nodes
           N == Len(nodes)
           S == Symbols(nodes)
           G == Regions(file)
           span == RegionSpan(file)
           P(m) == /\ R[m] \in Seq(G)
                   /\ Runs(FALSE, span, R[m], StartByte(file, m), EndByte(file, m))
           T == {m \in Owners(file) : ~ P(m)}
<1>1. N \in Nat /\ Owners(file) \in SUBSET (1 .. N) /\ Owners(file) = {1} \cup S
      /\ Len(file.bytes) \in Nat
  BY OwnersType DEF Owners
<1>2. \A m \in 1 .. N : R[m] = Parted(R, file, m)
  OBVIOUS
<1>3. span \in [G -> Int \X Int]
  BY RegionsType
<1>4. \A m, s, e : Owned(file, m, s, e) =>
        Region(nodes, m, s, e) \in G /\ span[Region(nodes, m, s, e)] = <<s, e>>
  BY RegionsType
<1> SUFFICES ASSUME T # {} PROVE FALSE
  OBVIOUS
<1> HIDE DEF P
<1>5. PICK m \in T : \A l \in T : l <= m
  <2>1. T \in SUBSET Nat /\ \A l \in T : l <= N
    BY <1>1
  <2> HIDE DEF T
  <2> QED BY <1>1, <2>1, Greatest
<1>6. m \in Owners(file) /\ m \in 1 .. N /\ ~ P(m)
  BY <1>1
<1>7. ASSUME NEW l \in Owners(file), m < l PROVE P(l)
  <2>1. ~ (l <= m)
    BY <1>1, <1>6, <1>7
  <2>2. l \notin T
    <3> HIDE DEF T
    <3> QED BY <1>5, <2>1
  <2> QED BY <2>2
<1> HIDE DEF T
<1> DEFINE kids == CollectSymbols(nodes)[m]
           K == Len(kids)
           a == StartByte(file, m)
           b == EndByte(file, m)
           c == [k \in 0 .. K |-> Cursor(file, m, k + 1)]
           ss == Parts(R, file, m)
           ks == SymbolSpan(nodes)
<1>8. /\ kids \in Seq(S)
      /\ \A k \in 1 .. K : m < kids[k]
      /\ \A i \in 0 .. K :
           LET s == EndBefore(ks, kids, a, i)
               e == NextStart(ks, kids, b, i)
           IN  /\ s \in Int /\ e \in Int /\ s <= e
               /\ s < e => Owned(file, m, s, e)
  BY <1>6, Gaps
<1>9. /\ a \in 0 .. Len(file.bytes) /\ b \in 0 .. Len(file.bytes) /\ a <= b
      /\ \A x \in S : /\ ks[x][1] = StartByte(file, x) /\ ks[x][2] = EndByte(file, x)
                      /\ StartByte(file, x) \in Int /\ EndByte(file, x) \in Int
  <2>1. a \in 0 .. Len(file.bytes) /\ b \in 0 .. Len(file.bytes) /\ a <= b
    BY <1>6, OwnersType
  <2>2. ASSUME NEW x \in S
        PROVE  /\ ks[x] = <<StartByte(file, x), EndByte(file, x)>>
               /\ StartByte(file, x) \in Int /\ EndByte(file, x) \in Int
    <3>1. x \in Owners(file)
      BY <1>1
    <3>2. /\ StartByte(file, x) \in 0 .. Len(file.bytes)
          /\ EndByte(file, x) \in 0 .. Len(file.bytes)
      BY <3>1, OwnersType
    <3>3. ks[x] = <<StartByte(file, x), EndByte(file, x)>>
      BY OwnersType
    <3> QED BY <1>1, <3>2, <3>3
  <2> HIDE DEF ks, S
  <2> QED BY <2>1, <2>2
<1>10. ss = [k \in 1 .. K |-> Gap(file, m, k) \o R[kids[k]]]
  <2>1. DOMAIN kids = 1 .. K
    BY <1>8
  <2> QED BY <2>1 DEF Parts
<1>11. R[m] = WithRest(FlattenSeq(ss), file, m)
  BY <1>2, <1>6 DEF Parted
<1>12. Rest(file, m) = Cursor(file, m, K + 1)
  BY DEF Rest
<1> HIDE DEF S, G, span, ks, a, b, c, ss, K
<1>13. K \in Nat /\ \A k \in 1 .. K : kids[k] \in S
  BY <1>8 DEF K
<1>14. ASSUME NEW i \in 0 .. K
       PROVE  /\ Cursor(file, m, i + 1) = EndBefore(ks, kids, a, i)
              /\ NextStart(ks, kids, b, i)
                   = IF i = K THEN b ELSE StartByte(file, kids[i + 1])
  <2>1. (i + 1 = 1 <=> i = 0) /\ (i + 1) - 1 = i /\ (i # 0 => i \in 1 .. K)
        /\ (i # K => i + 1 \in 1 .. K)
    BY <1>13
  <2>2. i # 0 => ks[kids[i]][2] = EndByte(file, kids[i])
    BY <1>9, <1>13, <2>1
  <2>3. i # K => ks[kids[i + 1]][1] = StartByte(file, kids[i + 1])
    BY <1>9, <1>13, <2>1
  <2>4. Cursor(file, m, i + 1) = EndBefore(ks, kids, a, i)
    BY <2>1, <2>2, Zenon DEF Cursor, EndBefore, a, kids
  <2>5. NextStart(ks, kids, b, i) = IF i = K THEN b ELSE StartByte(file, kids[i + 1])
    BY <2>1, <2>3 DEF NextStart, K
  <2> QED BY <2>4, <2>5
<1>15. ASSUME NEW k \in 1 .. K
       PROVE  /\ Cursor(file, m, k) \in Int /\ StartByte(file, kids[k]) \in Int
              /\ Cursor(file, m, k) <= StartByte(file, kids[k])
              /\ Cursor(file, m, k) < StartByte(file, kids[k])
                 => Owned(file, m, Cursor(file, m, k), StartByte(file, kids[k]))
              /\ Cursor(file, m, k + 1) = EndByte(file, kids[k])
  <2>1. k - 1 \in 0 .. K /\ (k - 1) + 1 = k /\ k - 1 # K /\ k \in 0 .. K /\ k # 0
    BY <1>13
  <2>2. /\ Cursor(file, m, k) = EndBefore(ks, kids, a, k - 1)
        /\ NextStart(ks, kids, b, k - 1) = StartByte(file, kids[k])
    BY <1>14, <2>1
  <2>3. Cursor(file, m, k + 1) = EndByte(file, kids[k])
    <3>1. Cursor(file, m, k + 1) = EndBefore(ks, kids, a, k)
      BY <1>14, <2>1
    <3> QED BY <1>9, <1>13, <2>1, <3>1 DEF EndBefore
  <2> QED BY <1>8, <2>1, <2>2, <2>3 DEF K
<1>16. /\ Cursor(file, m, K + 1) \in Int /\ Cursor(file, m, K + 1) <= b
       /\ Cursor(file, m, K + 1) < b => Owned(file, m, Cursor(file, m, K + 1), b)
  <2>1. K \in 0 .. K
    BY <1>13
  <2>2. /\ Cursor(file, m, K + 1) = EndBefore(ks, kids, a, K)
        /\ NextStart(ks, kids, b, K) = b
    BY <1>14, <2>1
  <2> QED BY <1>8, <2>1, <2>2 DEF K
<1>17. Cursor(file, m, 1) = a
  BY DEF Cursor, a
<1> HIDE DEF kids
<1>18. ASSUME NEW k \in 1 .. K
       PROVE  /\ ss[k] \in Seq(G)
              /\ Runs(FALSE, span, ss[k], Cursor(file, m, k), Cursor(file, m, k + 1))
  <2>1. PICK x, y, z : /\ x = Cursor(file, m, k) /\ y = StartByte(file, kids[k])
                       /\ z = EndByte(file, kids[k])
    OBVIOUS
  <2>2. x \in Int /\ y \in Int /\ z \in Int /\ x <= y /\ (x < y => Owned(file, m, x, y))
    BY <1>9, <1>13, <1>15, <2>1
  <2>3. R[kids[k]] \in Seq(G) /\ Runs(FALSE, span, R[kids[k]], y, z)
    <3>1. kids[k] \in Owners(file) /\ m < kids[k]
      BY <1>1, <1>8, <1>13 DEF K
    <3> QED BY <1>7, <2>1, <3>1 DEF P
  <2>4. Gap(file, m, k) \in Seq(G) /\ Runs(FALSE, span, Gap(file, m, k), x, y)
    <3>1. CASE x < y
      <4>1. Gap(file, m, k) = <<Region(nodes, m, x, y)>>
        BY <2>1, <3>1 DEF Gap, kids
      <4>2. PICK r : r = Region(nodes, m, x, y)
        OBVIOUS
      <4>3. r \in G /\ span[r] = <<x, y>>
        BY <1>4, <2>2, <3>1, <4>2
      <4>4. <<r>> \in Seq(G) /\ Runs(FALSE, span, <<r>>, x, y)
        BY <1>3, <4>3, OneRange
      <4> QED BY <4>1, <4>2, <4>4
    <3>2. CASE ~ (x < y)
      <4>1. Gap(file, m, k) = << >> /\ x = y
        BY <2>1, <2>2, <3>2 DEF Gap, kids
      <4>2. << >> \in Seq(G) /\ Runs(FALSE, span, << >>, x, x)
        BY DEF Runs, EndBefore, NextStart
      <4> QED BY <4>1, <4>2
    <3> QED BY <3>1, <3>2
  <2>5. ss[k] = Gap(file, m, k) \o R[kids[k]]
    BY <1>10
  <2>6. ss[k] \in Seq(G) /\ Runs(FALSE, span, ss[k], x, z)
    <3>1. PICK s, t : s = Gap(file, m, k) /\ t = R[kids[k]]
      OBVIOUS
    <3>2. s \in Seq(G) /\ t \in Seq(G) /\ Runs(FALSE, span, s, x, y)
          /\ Runs(FALSE, span, t, y, z)
      BY <2>3, <2>4, <3>1
    <3>3. x \in Int /\ y \in Int /\ z \in Int
      BY <2>2
    <3>4. s \o t \in Seq(G) /\ Runs(FALSE, span, s \o t, x, z)
      BY <1>3, <3>2, <3>3, RunsJoin
    <3> QED BY <2>5, <3>1, <3>4
  <2> QED BY <1>15, <2>1, <2>6
<1>19. ss \in Seq(Seq(G)) /\ Len(ss) = K
  <2>1. \A k \in 1 .. K : Gap(file, m, k) \o R[kids[k]] \in Seq(G)
    BY <1>10, <1>18
  <2> QED BY <1>10, <1>13, <2>1
<1>20. /\ c \in [0 .. K -> Int] /\ c[0] = a /\ c[K] = Rest(file, m)
       /\ \A k \in 1 .. K : c[k - 1] = Cursor(file, m, k) /\ c[k] = Cursor(file, m, k + 1)
  <2>1. \A i \in 0 .. K : Cursor(file, m, i + 1) \in Int
    <3>1. ASSUME NEW i \in 0 .. K PROVE Cursor(file, m, i + 1) \in Int
      <4>1. CASE i = K
        BY <1>16, <4>1
      <4>2. CASE i # K
        <5>1. i + 1 \in 1 .. K
          BY <1>13, <4>2
        <5> QED BY <1>15, <5>1
      <4> QED BY <4>1, <4>2
    <3> QED BY <3>1
  <2>2. c \in [0 .. K -> Int] /\ \A i \in 0 .. K : c[i] = Cursor(file, m, i + 1)
    BY <2>1 DEF c
  <2>3. \A k \in 1 .. K : k - 1 \in 0 .. K /\ k \in 0 .. K /\ (k - 1) + 1 = k
    BY <1>13
  <2>4. 0 \in 0 .. K /\ K \in 0 .. K /\ 0 + 1 = 1
    BY <1>13
  <2> QED BY <1>12, <1>17, <2>2, <2>3, <2>4
<1> DEFINE before == FlattenSeq(ss)
<1>21. before \in Seq(G) /\ Runs(FALSE, span, before, a, Rest(file, m))
  <2>1. \A k \in 1 .. K : Runs(FALSE, span, ss[k], c[k - 1], c[k])
    BY <1>18, <1>20
  <2>2. /\ ss \in Seq(Seq(G)) /\ c \in [0 .. Len(ss) -> Int]
        /\ \A k \in 1 .. Len(ss) : Runs(FALSE, span, ss[k], c[k - 1], c[k])
    BY <1>19, <1>20, <2>1
  <2>3. /\ FlattenSeq(ss) \in Seq(G)
        /\ Runs(FALSE, span, FlattenSeq(ss), c[0], c[Len(ss)])
    BY <1>3, <2>2, RunsFlatten
  <2> QED BY <1>19, <1>20, <2>3
<1> HIDE DEF before
<1>22. ASSUME Owned(file, m, Rest(file, m), b)
       PROVE  LET r == Region(nodes, m, Rest(file, m), b)
              IN  /\ Append(before, r) \in Seq(G)
                  /\ Runs(FALSE, span, Append(before, r), a, b)
  <2> DEFINE r == Region(nodes, m, Rest(file, m), b)
  <2>1. r \in G /\ span[r] = <<Rest(file, m), b>>
    BY <1>4, <1>22
  <2> HIDE DEF r
  <2>2. <<r>> \in Seq(G) /\ Runs(FALSE, span, <<r>>, Rest(file, m), b)
    BY <1>3, <2>1, OneRange
  <2>3. Append(before, r) = before \o <<r>>
    BY <1>21, <2>1, AppendIsConcat
  <2>4. a \in Int /\ b \in Int /\ Rest(file, m) \in Int
    BY <1>1, <1>9, <1>12, <1>16
  <2>5. before \o <<r>> \in Seq(G) /\ Runs(FALSE, span, before \o <<r>>, a, b)
    BY <1>3, <1>21, <2>2, <2>4, RunsJoin
  <2> QED BY <2>3, <2>5 DEF r
<1>23. CASE Rest(file, m) < b
  BY <1>6, <1>11, <1>12, <1>16, <1>22, <1>23 DEF WithRest, P, before, a, b
<1>24. CASE ~ (Rest(file, m) < b)
  <2>1. Rest(file, m) = b
    BY <1>1, <1>9, <1>12, <1>16, <1>24
  <2>2. CASE before = << >> /\ a = b
    <3>1. m = 1
      <4>1. m \in S => a < b
        BY <1>6, OwnersType DEF S, a, b
      <4> QED BY <1>1, <1>6, <1>9, <2>2, <4>1
    <3>2. Len(file.bytes) = 0 /\ b = 0
      BY <1>9, <2>2, <3>1 DEF a, b, StartByte, EndByte
    <3>3. file.bytes = << >> /\ AtCharacter(file.bytes, 0)
      <4>1. file.bytes \in Seq(Bytes)
        BY DEF IsParsed
      <4> QED BY <3>2, <4>1, EmptySeq DEF AtCharacter
    <3>4. \A y : In(y, kids) => 0 <= nodes[y].start
      <4>1. ASSUME NEW k \in 1 .. K PROVE 0 <= nodes[kids[k]].start
        <5>1. kids[k] \in Owners(file) /\ kids[k] \in S
          BY <1>1, <1>13
        <5>2. nodes[kids[k]].start \in 0 .. Len(file.bytes)
          BY <5>1, OwnersType DEF S
        <5> QED BY <1>1, <5>2
      <4> QED BY <4>1 DEF In, K
    <3>5. Owned(file, m, Rest(file, m), b)
      <4>1. /\ 0 \in 0 .. Len(file.bytes) /\ StartByte(file, m) <= 0
            /\ 0 <= EndByte(file, m)
        BY <1>1, <1>9, <2>2, <3>2 DEF a, b
      <4> QED BY <1>6, <2>1, <3>2, <3>3, <3>4, <4>1 DEF Owned, kids
    <3>6. R[m] = Append(before, Region(nodes, m, Rest(file, m), b))
      BY <1>11, <2>2 DEF WithRest, before, a, b
    <3> QED BY <1>6, <1>22, <3>5, <3>6 DEF P, a, b
  <2>3. CASE ~ (before = << >> /\ a = b)
    <3>1. R[m] = before
      BY <1>11, <1>24, <2>3 DEF WithRest, before, a, b
    <3> QED BY <1>6, <1>21, <2>1, <3>1 DEF P, a, b
  <2> QED BY <2>2, <2>3
<1> QED BY <1>23, <1>24

-----------------------------------------------------------------------------
(* Chunks.                                                                 *)

\* A range that may be a chunk of symbol m.
Cut(file, m, i, j) ==
    /\ Owned(file, m, i, j)
    /\ file.bytes # << >> => Fits(file.bytes, <<i, j>>)

CutChunk(file, m, i, j) ==
    Chunk(file.bytes, Region(file.nodes, m, i, j), <<i, j>>)

Chunks(file) ==
    {CutChunk(file, t[1], t[2], t[3]) :
       t \in {u \in Owners(file) \X (0 .. Len(file.bytes)) \X (0 .. Len(file.bytes)) :
                Cut(file, u[1], u[2], u[3])}}

ChunkSpan(file) == [c \in Chunks(file) |-> <<c.start, c.start + Len(c.text)>>]

\* A slice is a text of the length that its range has.
LEMMA SliceType ==
  ASSUME NEW bytes \in Seq(Bytes),
         NEW i \in 0 .. Len(bytes), NEW j \in 0 .. Len(bytes), i <= j
  PROVE  Slice(bytes, i, j) \in Seq(Bytes) /\ Len(Slice(bytes, i, j)) = j - i
<1>1. Len(bytes) \in Nat /\ i + 1 \in Int /\ j \in Int
  OBVIOUS
<1>2. \A n \in i + 1 .. j : bytes[n] \in Bytes
  BY <1>1
<1>3. IF i + 1 <= j THEN j - (i + 1) + 1 = j - i ELSE j - i = 0
  BY <1>1
<1>4. /\ SubSeq(bytes, i + 1, j) \in Seq(Bytes)
      /\ Len(SubSeq(bytes, i + 1, j)) = IF i + 1 <= j THEN j - (i + 1) + 1 ELSE 0
  BY <1>1, <1>2, SubSeqProperties
<1> QED BY <1>3, <1>4 DEF Slice

\* Chunks(file) and ChunkSpan(file), by the symbol and the range.
LEMMA ChunksType ==
  ASSUME NEW file, IsParsed(file)
  PROVE  /\ \A m, i, j : Cut(file, m, i, j) =>
              /\ CutChunk(file, m, i, j) \in Chunks(file)
              /\ ChunkSpan(file)[CutChunk(file, m, i, j)] = <<i, j>>
              /\ CutChunk(file, m, i, j).start = i
              /\ CutChunk(file, m, i, j).text = Slice(file.bytes, i, j)
              /\ i \in 0 .. Len(file.bytes) /\ j \in 0 .. Len(file.bytes) /\ i <= j
         /\ \A c \in Chunks(file) : \E m, i, j :
              Cut(file, m, i, j) /\ c = CutChunk(file, m, i, j)
         /\ ChunkSpan(file) \in [Chunks(file) -> Int \X Int]
<1>0. file.bytes \in Seq(Bytes) /\ Len(file.bytes) \in Nat
  BY DEF IsParsed
<1>1. ASSUME NEW m, NEW i, NEW j, Cut(file, m, i, j)
      PROVE  CutChunk(file, m, i, j) \in Chunks(file)
  <2> DEFINE t == <<m, i, j>>
  <2>1. /\ t \in Owners(file) \X (0 .. Len(file.bytes)) \X (0 .. Len(file.bytes))
        /\ t[1] = m /\ t[2] = i /\ t[3] = j
    BY <1>1 DEF Cut, Owned
  <2> HIDE DEF t
  <2> QED BY <1>1, <2>1 DEF Chunks
<1>2. ASSUME NEW c \in Chunks(file)
      PROVE  \E m, i, j : Cut(file, m, i, j) /\ c = CutChunk(file, m, i, j)
  BY DEF Chunks
<1>3. ASSUME NEW m, NEW i, NEW j, Cut(file, m, i, j)
      PROVE  /\ i \in 0 .. Len(file.bytes) /\ j \in 0 .. Len(file.bytes) /\ i <= j
             /\ CutChunk(file, m, i, j).start = i
             /\ CutChunk(file, m, i, j).text = Slice(file.bytes, i, j)
             /\ Len(Slice(file.bytes, i, j)) = j - i
  <2>1. /\ i \in 0 .. Len(file.bytes) /\ j \in 0 .. Len(file.bytes)
        /\ i < j \/ file.bytes = << >>
    BY <1>3 DEF Cut, Owned
  <2>2. i <= j
    <3>1. file.bytes = << >> => Len(file.bytes) = 0
      BY <1>0, EmptySeq
    <3> QED BY <1>0, <2>1, <3>1
  <2>3. /\ CutChunk(file, m, i, j).start = i
        /\ CutChunk(file, m, i, j).text = Slice(file.bytes, i, j)
    BY DEF CutChunk, Chunk
  <2> QED BY <1>0, <2>1, <2>2, <2>3, SliceType
<1>4. ASSUME NEW m, NEW i, NEW j, Cut(file, m, i, j), NEW c, c = CutChunk(file, m, i, j)
      PROVE  <<c.start, c.start + Len(c.text)>> = <<i, j>>
  <2>1. c.start = i /\ c.text = Slice(file.bytes, i, j) /\ Len(Slice(file.bytes, i, j)) = j - i
    BY <1>3, <1>4
  <2>2. i \in Int /\ j \in Int
    BY <1>0, <1>3, <1>4
  <2>3. c.start + Len(c.text) = j
    BY <2>1, <2>2
  <2> QED BY <2>1, <2>3
<1>5. ASSUME NEW c \in Chunks(file)
      PROVE  <<c.start, c.start + Len(c.text)>> \in Int \X Int
  <2>1. PICK m, i, j : Cut(file, m, i, j) /\ c = CutChunk(file, m, i, j)
    BY <1>2
  <2>2. <<c.start, c.start + Len(c.text)>> = <<i, j>>
    BY <1>4, <2>1
  <2>3. i \in Int /\ j \in Int
    BY <1>0, <1>3, <2>1
  <2> QED BY <2>2, <2>3
<1>6. /\ ChunkSpan(file) \in [Chunks(file) -> Int \X Int]
      /\ \A c \in Chunks(file) : ChunkSpan(file)[c] = <<c.start, c.start + Len(c.text)>>
  BY <1>5 DEF ChunkSpan
<1>7. ASSUME NEW m, NEW i, NEW j, Cut(file, m, i, j)
      PROVE  ChunkSpan(file)[CutChunk(file, m, i, j)] = <<i, j>>
  <2> DEFINE c == CutChunk(file, m, i, j)
  <2>1. c \in Chunks(file)
    BY <1>1, <1>7
  <2>2. <<c.start, c.start + Len(c.text)>> = <<i, j>>
    BY <1>4, <1>7
  <2> HIDE DEF c
  <2>3. ChunkSpan(file)[c] = <<i, j>>
    BY <1>6, <2>1, <2>2
  <2> QED BY <2>3 DEF c
<1> QED BY <1>1, <1>2, <1>3, <1>6, <1>7

\* Part of what a symbol owns is its own too, and is attributed in the same way.
LEMMA CutWithin ==
  ASSUME NEW file, IsParsed(file), NEW m, NEW s, NEW e, Owned(file, m, s, e),
         NEW i, NEW j, Fits(file.bytes, <<i, j>>), s <= i, j <= e
  PROVE  /\ Cut(file, m, i, j)
         /\ Chunk(file.bytes, Region(file.nodes, m, s, e), <<i, j>>)
              = CutChunk(file, m, i, j)
<1> DEFINE L == Len(file.bytes)
<1>1. L \in Nat /\ file.bytes \in Seq(Bytes)
  BY DEF IsParsed
<1>2. /\ i \in 0 .. L /\ j \in 0 .. L /\ i < j
      /\ Slice(file.bytes, i, j)[1] # "cont"
  BY DEF Fits
<1>3. /\ m \in Owners(file) /\ s \in 0 .. L /\ e \in 0 .. L
      /\ StartByte(file, m) <= s /\ e <= EndByte(file, m)
      /\ \A y : In(y, CollectSymbols(file.nodes)[m]) =>
           e <= file.nodes[y].start \/ file.nodes[y].end <= s
  BY DEF Owned
<1> HIDE DEF L
<1>4. StartByte(file, m) <= i /\ j <= EndByte(file, m)
  <2>1. /\ StartByte(file, m) \in 0 .. L /\ EndByte(file, m) \in 0 .. L
    BY <1>3, OwnersType DEF L
  <2> QED BY <1>1, <1>2, <1>3, <2>1
<1>5. AtCharacter(file.bytes, i)
  <2>1. i + 1 \in Int /\ j \in Int /\ 1 \in 1 .. j - (i + 1) + 1 /\ (i + 1) + 1 - 1 = i + 1
    BY <1>1, <1>2
  <2>2. \A n \in i + 1 .. j : file.bytes[n] \in Bytes
    BY <1>1, <1>2 DEF L
  <2>3. \A n \in 1 .. j - (i + 1) + 1 :
          SubSeq(file.bytes, i + 1, j)[n] = file.bytes[(i + 1) + n - 1]
    BY <2>1, <2>2, SubSeqProperties
  <2>4. SubSeq(file.bytes, i + 1, j)[1] = file.bytes[i + 1]
    BY <2>1, <2>3
  <2> QED BY <1>2, <2>4 DEF Slice, AtCharacter
<1>6. ASSUME NEW y, In(y, CollectSymbols(file.nodes)[m])
      PROVE  j <= file.nodes[y].start \/ file.nodes[y].end <= i
  <2>1. y \in Symbols(file.nodes)
    <3>1. m \in 1 .. Len(file.nodes)
      BY <1>3, OwnersType
    <3> QED BY <1>6, <3>1, CollectedAfter DEF IsParsed
  <2>2. file.nodes[y].start \in 0 .. L /\ file.nodes[y].end \in 0 .. L
    <3>1. y \in Owners(file)
      BY <2>1 DEF Owners
    <3>2. /\ StartByte(file, y) \in 0 .. L /\ EndByte(file, y) \in 0 .. L
          /\ StartByte(file, y) = file.nodes[y].start /\ EndByte(file, y) = file.nodes[y].end
      BY <2>1, <3>1, OwnersType DEF L
    <3> QED BY <3>2
  <2>3. e <= file.nodes[y].start \/ file.nodes[y].end <= s
    BY <1>3, <1>6
  <2> QED BY <1>1, <1>2, <1>3, <2>2, <2>3
<1>7. Owned(file, m, i, j)
  BY <1>2, <1>3, <1>4, <1>5, <1>6 DEF Owned, L
<1>8. Chunk(file.bytes, Region(file.nodes, m, s, e), <<i, j>>) = CutChunk(file, m, i, j)
  BY DEF CutChunk, Chunk, Region
<1> QED BY <1>7, <1>8 DEF Cut

\* The chunks of a region.
ChunksOf(file, region) ==
    [k \in DOMAIN Split(file.bytes, region) |->
       Chunk(file.bytes, region, Split(file.bytes, region)[k])]

\* The chunks of a region follow each other from its start to its end.
LEMMA RegionChunks ==
  ASSUME NEW file, IsParsed(file), NEW region \in Regions(file)
  PROVE  /\ ChunksOf(file, region) \in Seq(Chunks(file))
         /\ Runs(FALSE, ChunkSpan(file), ChunksOf(file, region), region.start, region.end)
<1>1. PICK m, s, e : Owned(file, m, s, e) /\ region = Region(file.nodes, m, s, e)
  BY RegionsType
<1>2. region.start = s /\ region.end = e
  BY <1>1 DEF Region
<1>3. /\ file.bytes \in Seq(Bytes) /\ Len(file.bytes) \in Nat
      /\ s \in 0 .. Len(file.bytes) /\ e \in 0 .. Len(file.bytes)
      /\ s < e \/ file.bytes = << >>
      /\ AtCharacter(file.bytes, s)
  BY <1>1 DEF Owned, IsParsed
<1> DEFINE r == Split(file.bytes, region)
           cs == ChunksOf(file, region)
           span == ChunkSpan(file)
<1>4. CASE s < e
  <2>1. /\ Len(r) \in Nat /\ Len(r) >= 1 /\ r = [k \in 1 .. Len(r) |-> r[k]]
        /\ r[1][1] = s /\ r[Len(r)][2] = e
        /\ \A k \in 1 .. Len(r) :
             /\ Fits(file.bytes, r[k]) /\ s <= r[k][1] /\ r[k][2] <= e
             /\ k < Len(r) => r[k][2] = r[k + 1][1]
    BY <1>2, <1>3, <1>4, SplitFits
  <2>2. cs = [k \in 1 .. Len(r) |-> Chunk(file.bytes, region, r[k])]
    <3>1. DOMAIN r = 1 .. Len(r)
      BY <2>1
    <3> QED BY <3>1 DEF ChunksOf
  <2> HIDE DEF r, cs, span
  <2>3. ASSUME NEW k \in 1 .. Len(r)
        PROVE  /\ Chunk(file.bytes, region, r[k]) \in Chunks(file)
               /\ span[Chunk(file.bytes, region, r[k])] = r[k]
    <3>1. PICK i, j : i = r[k][1] /\ j = r[k][2]
      OBVIOUS
    <3>2. r[k] = <<i, j>> /\ Fits(file.bytes, <<i, j>>) /\ s <= i /\ j <= e
      BY <2>1, <3>1 DEF Fits
    <3>3. Cut(file, m, i, j) /\ Chunk(file.bytes, region, <<i, j>>) = CutChunk(file, m, i, j)
      BY <1>1, <3>2, CutWithin
    <3>4. CutChunk(file, m, i, j) \in Chunks(file) /\ span[CutChunk(file, m, i, j)] = <<i, j>>
      BY <3>3, ChunksType DEF span
    <3> QED BY <3>2, <3>3, <3>4, Zenon
  <2>4. cs \in Seq(Chunks(file)) /\ Len(cs) = Len(r)
    BY <2>1, <2>2, <2>3
  <2>5. \A k \in 1 .. Len(r) : span[cs[k]] = r[k]
    BY <2>2, <2>3
  <2>6. ASSUME NEW k \in 0 .. Len(r)
        PROVE  EndBefore(span, cs, s, k) = NextStart(span, cs, e, k)
    <3>1. /\ k # 0 => k \in 1 .. Len(r)
          /\ k # Len(r) => k + 1 \in 1 .. Len(r)
          /\ k # 0 /\ k # Len(r) => k < Len(r)
      BY <2>1
    <3>2. /\ k # 0 => span[cs[k]][2] = r[k][2]
          /\ k # Len(r) => span[cs[k + 1]][1] = r[k + 1][1]
      BY <2>5, <3>1
    <3>3. CASE k = 0
      <4>1. k # Len(r) /\ k + 1 = 1
        BY <2>1, <3>3
      <4> QED BY <2>1, <2>4, <3>2, <3>3, <4>1 DEF EndBefore, NextStart
    <3>4. CASE k = Len(r)
      <4>1. k # 0
        BY <2>1, <3>4
      <4> QED BY <2>1, <2>4, <3>2, <3>4, <4>1 DEF EndBefore, NextStart
    <3>5. CASE k # 0 /\ k # Len(r)
      <4>1. r[k][2] = r[k + 1][1]
        BY <2>1, <3>1, <3>5
      <4> QED BY <2>4, <3>2, <3>5, <4>1 DEF EndBefore, NextStart
    <3> QED BY <3>3, <3>4, <3>5
  <2> QED BY <1>2, <2>4, <2>6 DEF Runs, cs, span
<1>5. CASE file.bytes = << >>
  <2>1. Len(file.bytes) = 0 /\ s = 0 /\ e = 0
    BY <1>3, <1>5, EmptySeq
  <2> DEFINE part == Slice(file.bytes, s, e)
  <2>2. part \in Seq(Bytes) /\ Len(part) = 0
    BY <1>3, <2>1, SliceType
  <2> HIDE DEF part
  <2>3. CharStarts(part) = {}
    BY <2>2 DEF CharStarts
  <2>4. Decoded(part) = << >>
    <3>1. Cardinality(CharStarts(part)) = 0
      BY <2>3, FS_EmptySet
    <3> QED BY <3>1 DEF Decoded
  <2>5. Cardinality(TokenStarts(Decoded(part))) <= TokenLimit
    <3>1. TokenStarts(Decoded(part)) = {}
      BY <2>4 DEF TokenStarts
    <3> QED BY <3>1, FS_EmptySet, TokenAssumption
  <2>6. r = <<<<0, 0>>>>
    BY <1>2, <2>1, <2>5 DEF Split, part
  <2>7. Cut(file, m, 0, 0)
    BY <1>1, <1>5, <2>1 DEF Cut
  <2>8. Chunk(file.bytes, region, <<0, 0>>) = CutChunk(file, m, 0, 0)
    BY <1>1 DEF CutChunk, Chunk, Region
  <2>9. cs = <<CutChunk(file, m, 0, 0)>>
    <3>1. DOMAIN r = 1 .. 1 /\ r[1] = <<0, 0>>
      BY <2>6
    <3> HIDE DEF r
    <3> QED BY <2>8, <3>1 DEF ChunksOf, r
  <2> HIDE DEF r, cs, span
  <2>10. PICK c : c = CutChunk(file, m, 0, 0)
    OBVIOUS
  <2>11. c \in Chunks(file) /\ span[c] = <<0, 0>> /\ span \in [Chunks(file) -> Int \X Int]
    BY <2>7, <2>10, ChunksType DEF span
  <2>12. <<c>> \in Seq(Chunks(file)) /\ Runs(FALSE, span, <<c>>, 0, 0)
    BY <2>11, OneRange
  <2> QED BY <1>2, <2>1, <2>9, <2>10, <2>12 DEF cs, span
<1> QED BY <1>3, <1>4, <1>5

\* The chunks of a file follow each other from its first byte to its last.
LEMMA SemanticRuns ==
  ASSUME NEW file, IsParsed(file)
  PROVE  /\ SemanticChunks(file) \in Seq(Chunks(file))
         /\ Runs(FALSE, ChunkSpan(file), SemanticChunks(file), 0, Len(file.bytes))
<1> DEFINE G == Chunks(file)
           span == ChunkSpan(file)
           rs == Partition(file)
           K == Len(rs)
           L == Len(file.bytes)
           ss == [k \in 1 .. K |-> ChunksOf(file, rs[k])]
           c == [k \in 0 .. K |-> EndBefore(RegionSpan(file), rs, 0, k)]
<1>1. /\ rs \in Seq(Regions(file))
      /\ Runs(FALSE, RegionSpan(file), rs, 0, L)
  <2>1. PICK R : /\ R = [n \in 1 .. Len(file.nodes) |-> Parted(R, file, n)]
                 /\ Partition(file) = R[1]
    BY PartitionUnfolds
  <2>2. 1 \in Owners(file) /\ StartByte(file, 1) = 0 /\ EndByte(file, 1) = L
    BY DEF Owners, StartByte, EndByte
  <2> HIDE DEF L
  <2> QED BY <2>1, <2>2, PartitionRuns, ZenonT(60)
<1>2. SemanticChunks(file) = FlattenSeq(ss)
  <2>1. DOMAIN rs = 1 .. K
    BY <1>1
  <2> QED BY <2>1 DEF SemanticChunks, ChunksOf
<1>3. span \in [G -> Int \X Int]
  BY ChunksType
<1>4. L \in Int
  BY OwnersType
<1> HIDE DEF G, span, rs, L
<1>5. K \in Nat /\ \A k \in 1 .. K : rs[k] \in Regions(file)
  BY <1>1
<1>6. ASSUME NEW k \in 1 .. K
      PROVE  /\ ss[k] \in Seq(G)
             /\ Runs(FALSE, span, ss[k], rs[k].start, rs[k].end)
  <2>1. PICK r : r = rs[k] /\ r \in Regions(file)
    BY <1>5
  <2>2. ss[k] = ChunksOf(file, r)
    BY <2>1
  <2> QED BY <2>1, <2>2, RegionChunks DEF G, span
<1>7. \A k \in 1 .. K : RegionSpan(file)[rs[k]] = <<rs[k].start, rs[k].end>>
  BY <1>5, RegionsType
<1>8. /\ c \in [0 .. K -> Int] /\ c[0] = 0 /\ c[K] = L
      /\ \A k \in 1 .. K : c[k - 1] = rs[k].start /\ c[k] = rs[k].end
  <2>1. ASSUME NEW k \in 0 .. K PROVE EndBefore(RegionSpan(file), rs, 0, k) \in Int
    BY <1>1, RegionsType, RunsType
  <2>2. c \in [0 .. K -> Int] /\ \A k \in 0 .. K : c[k] = EndBefore(RegionSpan(file), rs, 0, k)
    BY <2>1
  <2> HIDE DEF c
  <2>3. \A k \in 0 .. K : c[k] = NextStart(RegionSpan(file), rs, L, k)
    BY <1>1, <2>2 DEF Runs
  <2>4. c[0] = 0 /\ c[K] = L
    <3>1. 0 \in 0 .. K /\ K \in 0 .. K
      BY <1>5
    <3> QED BY <2>2, <2>3, <3>1 DEF EndBefore, NextStart
  <2>5. ASSUME NEW k \in 1 .. K PROVE c[k - 1] = rs[k].start /\ c[k] = rs[k].end
    <3>1. k - 1 \in 0 .. K /\ k \in 0 .. K /\ k # 0 /\ k - 1 # K /\ (k - 1) + 1 = k
      BY <1>5
    <3>2. c[k - 1] = RegionSpan(file)[rs[k]][1]
      BY <2>3, <3>1 DEF NextStart
    <3>3. c[k] = RegionSpan(file)[rs[k]][2]
      BY <2>2, <3>1 DEF EndBefore
    <3> QED BY <1>7, <3>2, <3>3
  <2> QED BY <2>2, <2>4, <2>5
<1>9. ss \in Seq(Seq(G)) /\ Len(ss) = K
  <2>1. \A k \in 1 .. K : ChunksOf(file, rs[k]) \in Seq(G)
    BY <1>6
  <2> HIDE DEF K
  <2> QED BY <1>5, <2>1
<1> HIDE DEF K, ss, c
<1>10. \A k \in 1 .. Len(ss) : Runs(FALSE, span, ss[k], c[k - 1], c[k])
  BY <1>6, <1>8, <1>9
<1>11. c \in [0 .. Len(ss) -> Int]
  BY <1>8, <1>9
<1>12. /\ FlattenSeq(ss) \in Seq(G)
       /\ Runs(FALSE, span, FlattenSeq(ss), c[0], c[Len(ss)])
  BY <1>3, <1>9, <1>10, <1>11, RunsFlatten
<1> QED BY <1>2, <1>8, <1>9, <1>12 DEF G, span, L

\* Chunks that follow each other have the text from the first to the last.
LEMMA RunsText ==
  ASSUME NEW file, IsParsed(file), NEW cs \in Seq(Chunks(file)),
         Runs(FALSE, ChunkSpan(file), cs, 0, Len(file.bytes))
  PROVE  FlattenSeq([k \in DOMAIN cs |-> cs[k].text]) = file.bytes
<1> DEFINE bytes == file.bytes
           L == Len(bytes)
           K == Len(cs)
           ss == [k \in 1 .. K |-> cs[k].text]
           c(k) == EndBefore(ChunkSpan(file), cs, 0, k)
<1>1. bytes \in Seq(Bytes) /\ L \in Nat /\ K \in Nat /\ DOMAIN cs = 1 .. K
  BY DEF IsParsed
<1>2. ASSUME NEW k \in 1 .. K
      PROVE  /\ c(k - 1) \in 0 .. L /\ c(k) \in 0 .. L /\ c(k - 1) <= c(k)
             /\ cs[k].text = Slice(bytes, c(k - 1), c(k))
             /\ cs[k].text \in Seq(Bytes)
  <2>1. PICK m, i, j : Cut(file, m, i, j) /\ cs[k] = CutChunk(file, m, i, j)
    BY ChunksType
  <2>2. /\ ChunkSpan(file)[cs[k]] = <<i, j>> /\ cs[k].text = Slice(bytes, i, j)
        /\ i \in 0 .. L /\ j \in 0 .. L /\ i <= j
    BY <2>1, ChunksType
  <2>3. k - 1 \in 0 .. K /\ k # 0 /\ k - 1 # K /\ (k - 1) + 1 = k
    BY <1>1
  <2>4. c(k - 1) = NextStart(ChunkSpan(file), cs, L, k - 1)
    BY <2>3 DEF Runs
  <2>5. c(k - 1) = i /\ c(k) = j
    BY <2>2, <2>3, <2>4 DEF EndBefore, NextStart
  <2> HIDE DEF c, L
  <2>6. cs[k].text \in Seq(Bytes)
    BY <1>1, <2>2, SliceType DEF L
  <2> QED BY <2>2, <2>5, <2>6
<1>3. c(0) = 0 /\ c(K) = L
  <2>1. K \in 0 .. K
    BY <1>1
  <2>2. c(K) = NextStart(ChunkSpan(file), cs, L, K)
    BY <2>1 DEF Runs
  <2> QED BY <2>2 DEF EndBefore, NextStart
<1> HIDE DEF c, L, K, bytes
<1>4. ss \in Seq(Seq(Bytes)) /\ Len(ss) = K /\ \A k \in 1 .. K : ss[k] = cs[k].text
  <2>1. \A k \in 1 .. K : cs[k].text \in Seq(Bytes)
    BY <1>2
  <2> QED BY <1>1, <2>1
<1> HIDE DEF ss
<1>5. PICK f \in [0 .. Len(ss) -> Seq(Bytes)] :
        Joins(ss, f) /\ FlattenSeq(ss) = f[Len(ss)]
  BY <1>4, FlattenJoins
<1> DEFINE P(k) == f[k] = SubSeq(bytes, 1, c(k))
           T == {k \in 0 .. K : ~ P(k)}
<1>6. T = {}
  <2> SUFFICES ASSUME T # {} PROVE FALSE
    OBVIOUS
  <2>1. PICK k \in T : \A l \in T : k <= l
    <3>1. T \in SUBSET Nat
      OBVIOUS
    <3> HIDE DEF T
    <3> QED BY <3>1, Least
  <2>2. k \in 0 .. K /\ ~ P(k)
    OBVIOUS
  <2> HIDE DEF T
  <2>3. CASE k = 0
    <3>1. f[0] = << >>
      BY <1>5 DEF Joins
    <3>2. SubSeq(bytes, 1, 0) = << >>
      BY <1>1, SubSeqEmpty
    <3> QED BY <1>3, <2>2, <2>3, <3>1, <3>2
  <2>4. CASE k # 0
    <3>1. k \in 1 .. K /\ k - 1 \in 0 .. K /\ k - 1 \notin T
      BY <1>1, <2>1, <2>2, <2>4
    <3>2. P(k - 1)
      BY <3>1 DEF T
    <3>3. f[k] = f[k - 1] \o ss[k]
      BY <1>4, <1>5, <3>1 DEF Joins
    <3>4. PICK i, j : i = c(k - 1) /\ j = c(k)
      OBVIOUS
    <3>5. i \in 0 .. L /\ j \in 0 .. L /\ i <= j /\ ss[k] = SubSeq(bytes, i + 1, j)
      BY <1>2, <1>4, <3>1, <3>4 DEF Slice
    <3>6. SubSeq(bytes, 1, i) \o SubSeq(bytes, i + 1, j) = SubSeq(bytes, 1, j)
      <4>1. 1 \in 1 .. Len(bytes) + 1 /\ i \in 1 - 1 .. Len(bytes) /\ j \in i .. Len(bytes)
        BY <1>1, <3>5 DEF L
      <4> QED BY <1>1, <4>1, ConcatAdjacentSubSeq
    <3>7. f[k - 1] = SubSeq(bytes, 1, i)
      BY <3>2, <3>4
    <3>8. f[k] = SubSeq(bytes, 1, j)
      BY <3>3, <3>5, <3>6, <3>7, Zenon
    <3> QED BY <2>2, <3>4, <3>8
  <2> QED BY <2>3, <2>4
<1>7. f[K] = SubSeq(bytes, 1, L)
  <2>1. K \in 0 .. K
    BY <1>1
  <2> QED BY <1>3, <1>6, <2>1
<1>8. SubSeq(bytes, 1, L) = bytes
  BY <1>1, SubSeqFull DEF L
<1> QED BY <1>1, <1>4, <1>5, <1>7, <1>8 DEF ss, K, bytes

-----------------------------------------------------------------------------
(* What a parse is.                                                        *)

\* Lines are counted from 1.
LEMMA LineType ==
  ASSUME NEW bytes, NEW offset \in Int
  PROVE  LineAt(bytes, offset) \in Nat
<1> DEFINE lines == {i \in 1 .. offset : bytes[i] = "nl"}
<1>1. IsFiniteSet(1 .. offset)
  BY FS_Interval
<1>2. IsFiniteSet(lines)
  <2>1. lines \subseteq 1 .. offset
    OBVIOUS
  <2> HIDE DEF lines
  <2> QED BY <1>1, <2>1, FS_Subset
<1>3. Cardinality(lines) \in Nat
  <2> HIDE DEF lines
  <2> QED BY <1>2, FS_CardinalityType
<1> HIDE DEF lines
<1>4. Cardinality(lines) + 1 \in Nat
  BY <1>3
<1> QED BY <1>4 DEF LineAt, lines

\* What a region says of its symbol are names.
LEMMA RegionNames ==
  ASSUME NEW file, IsParsed(file), NEW m \in Owners(file)
  PROVE  /\ SymbolName(file.nodes, m) \in Names
         /\ SymbolType(file.nodes, m) \in {"", "module", "class", "method", "function"}
         /\ ParentSymbol(file.nodes, m) \in Names
<1> DEFINE nodes == file.nodes
<1>1. IsSyntaxTree(nodes, file.bytes)
  BY DEF IsParsed
<1>2. \A n \in 1 .. Len(nodes) : nodes[n].name \in Names /\ nodes[n].receiver \in Names
  BY <1>1, TreeType DEF Names
<1>3. m \in 1 .. Len(nodes)
  BY OwnersType
<1>4. m # 1 => Outer(nodes, m) \in 1 .. Len(nodes)
  BY <1>1, OuterSymbol DEF Owners
<1> HIDE DEF nodes
<1>5. \A n \in 1 .. Len(nodes) : SymbolName(nodes, n) \in Names
  BY <1>2 DEF Names, SymbolName
<1>6. ParentSymbol(nodes, m) \in Names
  <2> DEFINE parent == IF m = 1 THEN "" ELSE SymbolName(nodes, Outer(nodes, m))
  <2>1. parent \in Names
    BY <1>4, <1>5 DEF Names
  <2> HIDE DEF parent
  <2>2. (IF nodes[m].type = "receiver" /\ parent = "" THEN nodes[m].receiver ELSE parent)
          \in Names
    BY <1>2, <1>3, <2>1
  <2> QED BY <2>2 DEF ParentSymbol, parent
<1>7. SymbolType(nodes, m) \in {"", "module", "class", "method", "function"}
  BY DEF SymbolType
<1> QED BY <1>3, <1>5, <1>6, <1>7 DEF nodes

\* A chunk of a file is one that knows its lines.
LEMMA ChunkTyped ==
  ASSUME NEW file, IsParsed(file), NEW c \in Chunks(file)
  PROVE  /\ c \in ParsedChunks
         /\ \E i \in 0 .. Len(file.bytes) : \E j \in i .. Len(file.bytes) :
              c = Chunk(file.bytes, c, <<i, j>>)
<1>1. PICK m, i, j : Cut(file, m, i, j) /\ c = CutChunk(file, m, i, j)
  BY ChunksType
<1>2. file.bytes \in Seq(Bytes) /\ Len(file.bytes) \in Nat
  BY DEF IsParsed
<1>3. i \in 0 .. Len(file.bytes) /\ j \in 0 .. Len(file.bytes) /\ i <= j
  BY <1>1, ChunksType
<1>4. Slice(file.bytes, i, j) \in Seq(Bytes)
  BY <1>2, <1>3, SliceType
<1> DEFINE l == IF i < j THEN j - 1 ELSE i
           r == Region(file.nodes, m, i, j)
<1>5. l \in Int /\ i \in Int /\ i \in Nat
  BY <1>2, <1>3
<1>6. LineAt(file.bytes, i) \in Nat /\ LineAt(file.bytes, l) \in Nat
  <2> HIDE DEF l
  <2> QED BY <1>5, LineType
<1>7. /\ r.symbol \in Names /\ r.parent \in Names
      /\ r.type \in {"", "module", "class", "method", "function"}
  <2>1. m \in Owners(file)
    BY <1>1 DEF Cut, Owned
  <2> QED BY <2>1, RegionNames DEF Region
<1>8. c = [text |-> Slice(file.bytes, i, j), start |-> i,
           symbol |-> r.symbol, type |-> r.type, parent |-> r.parent,
           first |-> LineAt(file.bytes, i), last |-> LineAt(file.bytes, l)]
  BY <1>1 DEF CutChunk, Chunk
<1> HIDE DEF l, r
<1>9. c \in ParsedChunks
  BY <1>4, <1>5, <1>6, <1>7, <1>8 DEF ParsedChunks
<1>10. c = Chunk(file.bytes, c, <<i, j>>)
  <2>1. c.symbol = r.symbol /\ c.type = r.type /\ c.parent = r.parent
    BY <1>8
  <2> QED BY <1>8, <2>1 DEF Chunk, l
<1>11. j \in i .. Len(file.bytes)
  BY <1>2, <1>3
<1> QED BY <1>3, <1>9, <1>10, <1>11

\* The three ways a file is parsed.
LEMMA ParseIs ==
  ASSUME NEW file, IsSource(file)
  PROVE  /\ Parse(file).code = file.code /\ Parse(file).bytes = file.bytes
         /\ Parse(file) \in [code : BOOLEAN, bytes : Seq(Bytes), chunks : {Parse(file).chunks}]
         /\ ~file.code => Parse(file).chunks = << >>
         /\ file.code /\ file.error => Parse(file).chunks = <<FallbackChunk(file)>>
         /\ file.code /\ ~file.error
            => /\ IsParsed(file)
               /\ Parse(file).chunks = SemanticChunks(file)
               /\ Parse(file).chunks \in Seq(Chunks(file))
               /\ Runs(FALSE, ChunkSpan(file), Parse(file).chunks, 0, Len(file.bytes))
<1>1. file.code \in BOOLEAN /\ file.bytes \in Seq(Bytes)
  BY DEF IsSource
<1>2. Parse(file) =
        [code |-> file.code, bytes |-> file.bytes,
         chunks |-> IF ~file.code THEN << >>
                    ELSE IF file.error THEN <<FallbackChunk(file)>>
                    ELSE SemanticChunks(file)]
  BY DEF Parse
<1>3. /\ ~file.code => Parse(file).chunks = << >>
      /\ file.code /\ file.error => Parse(file).chunks = <<FallbackChunk(file)>>
      /\ file.code /\ ~file.error => Parse(file).chunks = SemanticChunks(file)
      /\ Parse(file).code = file.code /\ Parse(file).bytes = file.bytes
  BY <1>2
<1>4. file.code /\ ~file.error => IsParsed(file)
  BY DEF IsSource, IsParsed
<1>5. Parse(file) \in [code : BOOLEAN, bytes : Seq(Bytes), chunks : {Parse(file).chunks}]
  BY <1>1, <1>2
<1> QED BY <1>3, <1>4, <1>5, SemanticRuns

\* What CodeChunks assumes of a parser.
THEOREM ParserFits ==
  ASSUME NEW file, IsSource(file)
  PROVE  ParseFits(file, Parse(file))
<1> DEFINE chunks == Parse(file).chunks
           L == Len(file.bytes)
           Lined(c) == \E i \in 0 .. L : \E j \in i .. L : c = Chunk(file.bytes, c, <<i, j>>)
<1>1. chunks \in Seq(ParsedChunks) /\ \A k \in DOMAIN chunks : chunks[k].first = 0 \/ Lined(chunks[k])
  <2>1. CASE ~file.code
    <3>1. chunks = << >>
      BY <2>1, ParseIs
    <3> HIDE DEF chunks, Lined
    <3> QED BY <3>1
  <2>2. CASE file.code /\ file.error
    <3>1. chunks = <<FallbackChunk(file)>>
      BY <2>2, ParseIs
    <3>2. FallbackChunk(file) \in ParsedChunks /\ FallbackChunk(file).first = 0
      BY DEF FallbackChunk, ParsedChunks, Names, IsSource
    <3>3. PICK c : c = FallbackChunk(file)
      OBVIOUS
    <3> HIDE DEF chunks, Lined
    <3> QED BY <3>1, <3>2, <3>3
  <2>3. CASE file.code /\ ~file.error
    <3>1. IsParsed(file) /\ chunks \in Seq(Chunks(file))
      BY <2>3, ParseIs
    <3>2. \A c \in Chunks(file) : c \in ParsedChunks /\ Lined(c)
      BY <3>1, ChunkTyped
    <3> HIDE DEF chunks, Lined
    <3>3. DOMAIN chunks = 1 .. Len(chunks) /\ \A k \in 1 .. Len(chunks) : chunks[k] \in Chunks(file)
      BY <3>1
    <3>4. \A k \in 1 .. Len(chunks) : chunks[k] \in ParsedChunks /\ Lined(chunks[k])
      BY <3>2, <3>3
    <3>5. chunks = [k \in 1 .. Len(chunks) |-> chunks[k]] /\ Len(chunks) \in Nat
      BY <3>1
    <3>6. chunks \in Seq(ParsedChunks)
      BY <3>4, <3>5
    <3> QED BY <3>3, <3>4, <3>6
  <2>4. file.code \in BOOLEAN /\ file.error \in BOOLEAN
    BY DEF IsSource
  <2> QED BY <2>1, <2>2, <2>3, <2>4
<1>2. Parse(file) \in ParsedDocuments
  <2>1. Parse(file).chunks \in Seq(ParsedChunks)
    BY <1>1
  <2> QED BY <2>1, ParseIs DEF ParsedDocuments
<1> QED BY <1>1, <1>2, ParseIs DEF ParseFits

\* A single text, joined, is itself.
LEMMA FlattenOne ==
  ASSUME NEW s \in Seq(Bytes)
  PROVE  FlattenSeq(<<s>>) = s
<1> DEFINE ss == <<s>>
<1>1. ss \in Seq(Seq(Bytes)) /\ Len(ss) = 1 /\ ss[1] = s
  OBVIOUS
<1> HIDE DEF ss
<1>2. PICK f \in [0 .. Len(ss) -> Seq(Bytes)] : Joins(ss, f) /\ FlattenSeq(ss) = f[Len(ss)]
  BY <1>1, FlattenJoins
<1>3. f[0] = << >> /\ f[1] = f[0] \o ss[1]
  <2>1. 1 \in 1 .. Len(ss) /\ 1 - 1 = 0
    BY <1>1
  <2> QED BY <1>2, <2>1, Zenon DEF Joins
<1>4. << >> \o s = s
  BY ConcatEmptySeq
<1> QED BY <1>1, <1>2, <1>3, <1>4 DEF ss

\* The chunk of an empty file.
LEMMA EmptyWithinLimit ==
  WithinLimit(<< >>)
<1>1. CharStarts(<< >>) = {}
  <2>1. 0 .. 0 - 1 = {}
    OBVIOUS
  <2>2. Len(<< >>) = 0
    OBVIOUS
  <2> QED BY <2>1, <2>2 DEF CharStarts
<1>2. Cardinality({}) = 0
  BY FS_EmptySet
<1>3. Decoded(<< >>) = << >>
  <2>1. 1 .. 0 = {}
    OBVIOUS
  <2> DEFINE F(c) == << >>[Nth(CharStarts(<< >>), c - 1) + 1]
  <2>2. Decoded(<< >>) = [c \in 1 .. 0 |-> F(c)]
    BY <1>1, <1>2 DEF Decoded
  <2> HIDE DEF F
  <2> QED BY <2>1, <2>2
<1>4. TokenStarts(<< >>) = {}
  <2>1. 0 .. 0 - 1 = {}
    OBVIOUS
  <2>2. Len(<< >>) = 0
    OBVIOUS
  <2> QED BY <2>1, <2>2 DEF TokenStarts
<1>5. Cardinality(TokenStarts(Decoded(<< >>))) = 0
  BY <1>2, <1>3, <1>4, Zenon
<1>6. Cardinality(TokenStarts(Decoded(<< >>))) <= TokenLimit
  <2> DEFINE n == Cardinality(TokenStarts(Decoded(<< >>)))
  <2> HIDE DEF n
  <2>1. n = 0 => n <= TokenLimit
    BY TokenAssumption
  <2> QED BY <1>5, <2>1 DEF n
<1> QED BY <1>6, Zenon DEF WithinLimit

\* The chunks of a source file are its whole text, none too large.
LEMMA ParsePartitions ==
  ASSUME NEW file, IsSource(file), file.code
  PROVE  LET chunks == Parse(file).chunks
         IN  /\ FlattenSeq([k \in DOMAIN chunks |-> chunks[k].text]) = file.bytes
             /\ \A k \in DOMAIN chunks :
                  /\ file.bytes # << >> => chunks[k].text # << >>
                  /\ ~file.error => WithinLimit(chunks[k].text)
<1> DEFINE chunks == Parse(file).chunks
<1>1. CASE file.error
  <2>1. PICK c : c = FallbackChunk(file)
    OBVIOUS
  <2>2. chunks = <<c>>
    BY <1>1, <2>1, ParseIs
  <2>3. c.text = file.bytes /\ file.bytes \in Seq(Bytes)
    BY <2>1 DEF FallbackChunk, IsSource
  <2>4. DOMAIN <<c>> = {1} /\ <<c>>[1] = c
    OBVIOUS
  <2>5. [k \in DOMAIN <<c>> |-> <<c>>[k].text] = <<c.text>>
    BY <2>4
  <2> HIDE DEF chunks
  <2>6. FlattenSeq([k \in DOMAIN chunks |-> chunks[k].text]) = file.bytes
    BY <2>2, <2>3, <2>5, FlattenOne
  <2>7. \A k \in DOMAIN chunks : chunks[k].text = file.bytes
    BY <2>2, <2>3, <2>4
  <2> QED BY <1>1, <2>6, <2>7 DEF chunks
<1>2. CASE ~file.error
  <2>1. /\ IsParsed(file)
        /\ chunks \in Seq(Chunks(file))
        /\ Runs(FALSE, ChunkSpan(file), chunks, 0, Len(file.bytes))
    BY <1>2, ParseIs
  <2> HIDE DEF chunks
  <2>2. FlattenSeq([k \in DOMAIN chunks |-> chunks[k].text]) = file.bytes
    BY <2>1, RunsText
  <2>3. ASSUME NEW k \in DOMAIN chunks
        PROVE  /\ file.bytes # << >> => chunks[k].text # << >>
               /\ WithinLimit(chunks[k].text)
    <3>1. chunks[k] \in Chunks(file)
      BY <2>1
    <3>2. PICK m, i, j : Cut(file, m, i, j) /\ chunks[k] = CutChunk(file, m, i, j)
      BY <2>1, <3>1, ChunksType
    <3>3. /\ chunks[k].text = Slice(file.bytes, i, j)
          /\ i \in 0 .. Len(file.bytes) /\ j \in 0 .. Len(file.bytes) /\ i <= j
      BY <2>1, <3>2, ChunksType
    <3>4. CASE file.bytes = << >>
      <4>1. i = 0 /\ j = 0
        BY <3>3, <3>4
      <4>2. Slice(file.bytes, i, j) = << >>
        BY <3>4, <4>1, SubSeqEmpty DEF Slice
      <4> QED BY <3>3, <3>4, <4>2, EmptyWithinLimit
    <3>5. CASE file.bytes # << >>
      <4>1. Fits(file.bytes, <<i, j>>)
        BY <3>2, <3>5 DEF Cut
      <4>2. /\ chunks[k].text # << >> /\ chunks[k].text[1] # "cont"
            /\ Cardinality(TokenStarts(Decoded(chunks[k].text))) <= TokenLimit
        BY <3>3, <4>1 DEF Fits
      <4> QED BY <4>2 DEF WithinLimit
    <3> QED BY <3>4, <3>5
  <2> QED BY <2>2, <2>3 DEF chunks
<1> QED BY <1>1, <1>2

-----------------------------------------------------------------------------
(* What a chunk is attributed to.                                          *)

\* Max by what it is.
LEMMA LastIsMax ==
  ASSUME NEW S \in SUBSET Int, NEW x \in S, \A y \in S : y <= x
  PROVE  Max(S) = x
<1>1. \E z \in S : \A y \in S : z >= y
  BY Zenon
<1>2. Max(S) \in S /\ \A y \in S : Max(S) >= y
  BY <1>1, Zenon DEF Max
<1>3. PICK z : z = Max(S)
  OBVIOUS
<1>4. z \in Int /\ x \in Int /\ z <= x /\ z >= x
  BY <1>2, <1>3
<1> QED BY <1>3, <1>4

\* A byte that a symbol owns is in none that is collected for it.
LEMMA OwnedAround ==
  ASSUME NEW file, IsParsed(file), NEW m, NEW i, NEW j, Owned(file, m, i, j),
         NEW o \in Nat, i <= o, o < j
  PROVE  LET A == SymbolsAround(file.nodes, o)
         IN  /\ m \in {1} \cup A
             /\ \A y \in A : ~ In(y, CollectSymbols(file.nodes)[m])
<1> DEFINE A == SymbolsAround(file.nodes, o)
<1>1. IsSyntaxTree(file.nodes, file.bytes) /\ file.bytes \in Seq(Bytes)
  BY DEF IsParsed
<1>2. /\ m \in Owners(file)
      /\ i \in Int /\ j \in Int
      /\ StartByte(file, m) <= i /\ j <= EndByte(file, m)
      /\ \A y : In(y, CollectSymbols(file.nodes)[m]) =>
           j <= file.nodes[y].start \/ file.nodes[y].end <= i
  BY DEF Owned
<1>3. \A n \in 1 .. Len(file.nodes) : file.nodes[n].start \in Nat /\ file.nodes[n].end \in Nat
  BY <1>1, TreeType
<1>4. m \in {1} \cup A
  <2> SUFFICES ASSUME m # 1 PROVE m \in A
    OBVIOUS
  <2>1. m \in Symbols(file.nodes) /\ m \in 1 .. Len(file.nodes)
    BY <1>2 DEF Owners, Symbols
  <2>2. StartByte(file, m) = file.nodes[m].start /\ EndByte(file, m) = file.nodes[m].end
    BY DEF StartByte, EndByte
  <2>3. file.nodes[m].start <= o /\ o < file.nodes[m].end
    BY <1>2, <1>3, <2>1, <2>2
  <2> QED BY <2>1, <2>3 DEF SymbolsAround
<1>5. ASSUME NEW y \in A, In(y, CollectSymbols(file.nodes)[m]) PROVE FALSE
  <2>1. y \in 1 .. Len(file.nodes) /\ file.nodes[y].start <= o /\ o < file.nodes[y].end
    BY DEF SymbolsAround, Symbols
  <2>2. j <= file.nodes[y].start \/ file.nodes[y].end <= i
    BY <1>2, <1>5
  <2> QED BY <1>2, <1>3, <2>1, <2>2
<1> QED BY <1>4, <1>5

\* A chunk of symbol m is attributed to it, and m is the innermost around o.
LEMMA ByteAttributed ==
  ASSUME NEW file, IsParsed(file), NEW m, NEW i, NEW j, Cut(file, m, i, j),
         NEW c, c = CutChunk(file, m, i, j), NEW o \in Nat, i <= o, o < j
  PROVE  AttributedAt(file, c, o)
<1> DEFINE nodes == file.nodes
           A == SymbolsAround(nodes, o)
           B == A \ {m}
<1>1. IsSyntaxTree(nodes, file.bytes)
  BY DEF IsParsed
<1>2. Around(file, o) = A
  <2>1. DOMAIN nodes = 1 .. Len(nodes)
        /\ \A n \in 1 .. Len(nodes) : nodes[n].type \in SymbolTypes \cup {"root", "other"}
    BY <1>1, TreeType
  <2>2. \A n \in 1 .. Len(nodes) :
          nodes[n].type \notin {"root", "other"} <=> nodes[n].type \in SymbolTypes
    BY <2>1 DEF SymbolTypes
  <2>3. \A n : n \in Around(file, o) <=> n \in A
    BY <2>1, <2>2 DEF Around, SymbolsAround, Symbols
  <2> QED BY <2>3
<1>3. m \in {1} \cup A /\ \A y \in A : ~ In(y, CollectSymbols(nodes)[m])
  BY OwnedAround DEF Cut
<1>4. /\ \A y \in A : y <= m
      /\ m # 1 => \A y \in B : y <= Outer(nodes, m) /\ Outer(nodes, m) \in B
  BY <1>1, <1>3, Innermost
<1>5. /\ c.symbol = SymbolName(nodes, m)
      /\ c.type = SymbolType(nodes, m)
      /\ c.parent = ParentSymbol(nodes, m)
  BY DEF CutChunk, Chunk, Region
<1>6. A \in SUBSET (1 .. Len(nodes)) /\ 1 \notin A /\ Len(nodes) \in Nat
  <2>1. 1 \notin Symbols(nodes) /\ Len(nodes) \in Nat
    BY OwnersType
  <2> QED BY <2>1 DEF SymbolsAround, Symbols
<1>7. \A n \in 1 .. Len(nodes) :
        /\ nodes[n].type = "root" <=> n = 1
        /\ nodes[n].type \in SymbolTypes \cup {"root", "other"}
  BY <1>1, TreeType, TreeNodes
<1>8. \A n \in A : nodes[n].type \in SymbolTypes
  BY DEF SymbolsAround, Symbols
<1>9. nodes[1].type = "root" /\ 1 \in 1 .. Len(nodes)
  BY <1>1, TreeType, TreeNodes
<1>10. m # 1 => /\ Outer(nodes, m) \in 1 .. Len(nodes)
                /\ Outer(nodes, m) # 1 => Outer(nodes, m) \in A
                /\ Outer(nodes, m) < m
  BY <1>1, <1>3, OuterAround
<1> HIDE DEF A, B, nodes
<1>11. CASE m = 1
  <2>1. A = {}
    <3> SUFFICES ASSUME NEW y \in A PROVE FALSE
      OBVIOUS
    <3> QED BY <1>4, <1>6, <1>11
  <2>2. SymbolName(nodes, m) = "" /\ SymbolType(nodes, m) = "module"
    BY <1>9, <1>11 DEF SymbolName, SymbolType
  <2> QED BY <1>2, <1>5, <2>1, <2>2 DEF AttributedAt, nodes
<1>12. CASE m # 1
  <2> DEFINE p == Outer(nodes, m)
  <2>1. m \in A /\ A \in SUBSET Int
    BY <1>3, <1>6, <1>12
  <2>2. Max(A) = m
    BY <1>4, <2>1, LastIsMax
  <2>3. B # {} => p \in B /\ Max(B) = p
    <3> SUFFICES ASSUME B # {} PROVE p \in B /\ Max(B) = p
      OBVIOUS
    <3>1. p \in B /\ \A y \in B : y <= p
      BY <1>4, <1>12
    <3>2. B \in SUBSET Int
      BY <2>1 DEF B
    <3> HIDE DEF p
    <3> QED BY <3>1, <3>2, LastIsMax
  <2>4. B = {} => p = 1
    <3>1. p # 1 => p \in A /\ p # m
      BY <1>6, <1>10, <1>12, <2>1
    <3> QED BY <3>1 DEF B
  <2>5. SymbolName(nodes, m) = nodes[m].name
    BY <1>12 DEF SymbolName
  <2>6. B # {} => ParentSymbol(nodes, m) \in {nodes[p].name, nodes[m].receiver}
    <3> SUFFICES ASSUME B # {} PROVE ParentSymbol(nodes, m) \in {nodes[p].name, nodes[m].receiver}
      OBVIOUS
    <3>1. p # 1
      BY <1>6, <2>3 DEF B
    <3>2. SymbolName(nodes, p) = nodes[p].name
      BY <3>1 DEF SymbolName
    <3> QED BY <1>12, <3>2 DEF ParentSymbol
  <2>7. nodes[m].type = "function"
        => (SymbolType(nodes, m) = "method") <=> (B # {} /\ nodes[p].type = "class")
    <3> SUFFICES ASSUME nodes[m].type = "function"
                 PROVE  (SymbolType(nodes, m) = "method") <=> (B # {} /\ nodes[p].type = "class")
      OBVIOUS
    <3>1. SymbolType(nodes, m) = IF nodes[p].type = "class" THEN "method" ELSE "function"
      BY DEF SymbolType
    <3>2. B = {} => nodes[p].type # "class"
      BY <1>9, <2>4
    <3> HIDE DEF p
    <3> QED BY <3>1, <3>2
  <2>8. A # {}
    BY <2>1
  <2> HIDE DEF p
  <2>9. B # {} => Max(B) = p
    BY <2>3
  <2> QED BY <1>2, <1>5, <2>2, <2>5, <2>6, <2>7, <2>8, <2>9 DEF AttributedAt, B, nodes
<1> QED BY <1>11, <1>12

\* Byte x of a chunk of a source file, as AttributedToInnermost has it.
LEMMA ParseAttributes ==
  ASSUME NEW file, IsSource(file), file.code, ~file.error,
         NEW k \in DOMAIN Parse(file).chunks,
         NEW x \in 0 .. Len(Parse(file).chunks[k].text) - 1
  PROVE  LET chunk == Parse(file).chunks[k]
         IN  AttributedAt(file, chunk, chunk.start + x)
<1>1. IsParsed(file) /\ Parse(file).chunks \in Seq(Chunks(file))
  BY ParseIs
<1>2. PICK c : c = Parse(file).chunks[k]
  OBVIOUS
<1>3. c \in Chunks(file)
  BY <1>1, <1>2
<1>4. PICK m, i, j : Cut(file, m, i, j) /\ c = CutChunk(file, m, i, j)
  BY <1>1, <1>3, ChunksType
<1>5. /\ c.start = i /\ c.text = Slice(file.bytes, i, j)
      /\ i \in 0 .. Len(file.bytes) /\ j \in 0 .. Len(file.bytes) /\ i <= j
  BY <1>1, <1>4, ChunksType
<1>6. file.bytes \in Seq(Bytes) /\ Len(file.bytes) \in Nat
  BY <1>1 DEF IsParsed
<1>7. Len(c.text) = j - i
  BY <1>5, <1>6, SliceType
<1>8. PICK o : o = c.start + x
  OBVIOUS
<1>9. x \in 0 .. (j - i) - 1
  BY <1>2, <1>7
<1>10. o \in Nat /\ i <= o /\ o < j
  BY <1>5, <1>6, <1>8, <1>9
<1>11. AttributedAt(file, c, o)
  BY <1>1, <1>4, <1>10, ByteAttributed
<1> QED
  BY <1>2, <1>8, <1>11

-----------------------------------------------------------------------------
(* The executions.                                                         *)

\* What an execution has made is the parse of a source file.
LEMMA ParsedIs ==
  ASSUME ChunkInv, NEW p \in Parsed
  PROVE  /\ p.file \in Files /\ IsSource(p.file) /\ p.file.code
         /\ p.chunks = Parse(p.file).chunks
<1>1. PICK d \in {e \in Docs : proc[e].new.code} :
        p = [file   |-> docs[d].revs[IF proc[d].rev = 0 THEN 1 ELSE proc[d].rev],
             chunks |-> proc[d].new.chunks]
  BY DEF Parsed
<1> DEFINE r == IF proc[d].rev = 0 THEN 1 ELSE proc[d].rev
           f == docs[d].revs[r]
<1>2. d \in Docs /\ proc[d].new.code /\ p.file = f /\ p.chunks = proc[d].new.chunks
  BY <1>1
<1>3. /\ docs[d] \in Document /\ Len(docs[d].revs) \in Nat
      /\ DocFits(docs[d]) /\ ExecutionFits(docs[d], proc[d])
  BY <1>2 DEF ChunkInv, TypeOK, DocInv, Document
<1>4. ~ NoParse.code /\ ~ Out.new.code
  BY DEF NoParse, Out
<1>5. r \in 1 .. Len(docs[d].revs) /\ proc[d].new = ParseOf[f]
  <2>1. CASE proc[d] = Out
    BY <1>2, <1>4, <2>1
  <2>2. CASE /\ docs[d].job = "INDEX" /\ docs[d].status = "INDEXING"
             /\ proc[d].rev = 0 /\ proc[d].new = ParseOf[docs[d].revs[1]]
    BY <1>3, <2>2 DEF DocFits
  <2>3. CASE /\ docs[d].job = "INDEX" /\ docs[d].status = "UPDATING"
             /\ proc[d].rev = Len(docs[d].revs)
             /\ proc[d].new = ParseOf[docs[d].revs[proc[d].rev]]
    <3>1. docs[d].active \in Nat /\ docs[d].active # 0 /\ docs[d].active + 1 = Len(docs[d].revs)
      BY <1>3, <2>3 DEF DocFits, Document
    <3> QED BY <1>3, <2>3, <3>1
  <2>4. CASE /\ docs[d].job = "REINDEX"
             /\ proc[d].rev = docs[d].active
             /\ proc[d].new = ParseOf[docs[d].revs[proc[d].rev]]
    <3>1. docs[d].active = Len(docs[d].revs) /\ docs[d].active # 0
      BY <1>3, <2>4 DEF DocFits
    <3> QED BY <1>3, <2>4, <3>1
  <2>5. CASE proc[d].new = NoParse
    BY <1>2, <1>4, <2>5
  <2> QED BY <1>3, <2>1, <2>2, <2>3, <2>4, <2>5 DEF ExecutionFits
<1>6. f \in Files
  <2>1. docs[d].revs \in Seq(Files)
    BY <1>3 DEF Document
  <2> HIDE DEF r
  <2> QED BY <1>5, <2>1
<1> HIDE DEF f
<1>7. IsSource(f) /\ ParseOf[f] = Parse(f)
  BY <1>6, ParserIsCodeParser
<1>8. f.code
  <2>1. Parse(f).code = f.code
    BY <1>7, ParseIs
  <2> QED BY <1>2, <1>5, <1>7, <2>1
<1> QED BY <1>2, <1>5, <1>6, <1>7, <1>8

\* parsers/tree_sitter.py: whatever the file, its syntax tree and the token
\* limit, the chunks that an execution has made of it are the whole file, in
\* order, and none is empty, too large or begins within a character.
THEOREM ChunksPartition ==
  Spec => []ChunksPartitionFile
<1>1. ChunkInv => ChunksPartitionFile
  <2> SUFFICES ASSUME ChunkInv, NEW p \in Parsed
               PROVE  /\ FlattenSeq([k \in DOMAIN p.chunks |-> p.chunks[k].text]) = p.file.bytes
                      /\ \A k \in DOMAIN p.chunks :
                           /\ p.file.bytes # << >> => p.chunks[k].text # << >>
                           /\ ~p.file.error => WithinLimit(p.chunks[k].text)
    BY DEF ChunksPartitionFile
  <2>1. PICK f : f = p.file
    OBVIOUS
  <2>2. IsSource(f) /\ f.code /\ p.chunks = Parse(f).chunks
    BY <2>1, ParsedIs
  <2> QED BY <2>1, <2>2, ParsePartitions
<1> QED
  BY <1>1, ChunkInvHolds, PTL

\* parsers/tree_sitter.py: every byte of a chunk is in the symbol that the
\* chunk is attributed to and in none inside that, however deep they nest.
THEOREM InnermostAttributed ==
  Spec => []AttributedToInnermost
<1>1. ChunkInv => AttributedToInnermost
  <2> SUFFICES ASSUME ChunkInv PROVE AttributedToInnermost
    OBVIOUS
  <2>1. ASSUME NEW p \in Parsed
        PROVE  /\ p.file \in Files /\ IsSource(p.file) /\ p.file.code
               /\ p.chunks = Parse(p.file).chunks
    BY ParsedIs
  <2> QED BY <2>1, ParseAttributes DEF AttributedToInnermost
<1> QED
  BY <1>1, ChunkInvHolds, PTL
==============================================================================
