------------------------------ MODULE ChatProofs ------------------------------
(***************************************************************************)
(* Proofs about the chat loop, for any models, vocabulary, limits and      *)
(* number of turns: the cache is the conversation, a reply is printed once,*)
(* a think block keeps to its budget, and the replies that call for tools  *)
(* are answered.                                                           *)
(***************************************************************************)
EXTENDS Chat, FiniteSetTheorems, SequenceTheorems, WellFoundedInduction, TLAPS

---------------------------------------------------------------------------
(* Induction over the natural numbers, for a set instead of a predicate: the
   library's theorem takes the predicate as a parameter *)

Smaller == {p \in Nat \X Nat : p[1] < p[2]}

\* A set with 0 that has with every number the next one has them all: no number is
\* the smallest that is missing.
LEMMA SetInduction ==
    ASSUME NEW S, 0 \in S, \A n \in Nat : n \in S => n + 1 \in S
    PROVE  \A n \in Nat : n \in S
<1> DEFINE T == {n \in Nat : n \notin S}
<1> SUFFICES ASSUME T # {} PROVE FALSE
  OBVIOUS
<1>1. IsWellFoundedOn(Smaller, Nat)
  BY NatLessThanWellFounded DEF OpToRel, Smaller
<1>2. PICK n \in T : \A k \in T : ~(<<k, n>> \in Smaller)
  BY <1>1, WFMin
<1>3. n # 0 /\ n - 1 \in T
  OBVIOUS
<1>4. <<n - 1, n>> \in Smaller
  BY <1>3 DEF Smaller
<1>. QED
  BY <1>2, <1>3, <1>4

---------------------------------------------------------------------------
(* FlattenSeq, piece after piece *)

\* The sequences put together so far.
IsFlat(f, s, n) == f = [i \in 1 .. n |-> IF i = 1 THEN s[i] ELSE f[i - 1] \o s[i]]

\* There is such a function, for any number of sequences.
LEMMA FlatExists ==
    ASSUME NEW s
    PROVE  \A n \in Nat : \E f : IsFlat(f, s, n)
<1> DEFINE S == {n \in Nat : \E f : IsFlat(f, s, n)}
<1>1. 0 \in S
  <2> DEFINE f == [i \in 1 .. 0 |-> s]
  <2>1. f = [i \in 1 .. 0 |-> IF i = 1 THEN s[i] ELSE f[i - 1] \o s[i]]
    OBVIOUS
  <2> HIDE DEF f
  <2>2. IsFlat(f, s, 0)
    BY <2>1 DEF IsFlat
  <2>. QED
    BY <2>2
<1>2. ASSUME NEW n \in Nat, n \in S PROVE n + 1 \in S
  <2>1. PICK f : IsFlat(f, s, n)
    BY <1>2
  <2> DEFINE g == [i \in 1 .. n + 1 |-> IF i \in 1 .. n THEN f[i]
                                        ELSE IF i = 1 THEN s[i] ELSE f[n] \o s[i]]
  <2>2. ASSUME NEW i \in 1 .. n + 1
        PROVE  g[i] = IF i = 1 THEN s[i] ELSE g[i - 1] \o s[i]
    <3>1. CASE i = n + 1 /\ i = 1
      BY <3>1
    <3>2. CASE i = n + 1 /\ i # 1
      <4>1. i - 1 = n /\ n \in 1 .. n /\ n \in 1 .. n + 1 /\ i \notin 1 .. n
        BY <3>2
      <4>2. g[i] = f[n] \o s[i] /\ g[i - 1] = f[n]
        BY <3>2, <4>1
      <4>. QED
        BY <3>2, <4>2
    <3>3. CASE i \in 1 .. n
      <4>1. /\ g[i] = f[i]
            /\ i # 1 => i - 1 \in 1 .. n /\ i - 1 \in 1 .. n + 1 /\ g[i - 1] = f[i - 1]
        BY <3>3
      <4>2. f[i] = IF i = 1 THEN s[i] ELSE f[i - 1] \o s[i]
        BY <2>1, <3>3 DEF IsFlat
      <4>. QED
        BY <4>1, <4>2
    <3>. QED
      BY <3>1, <3>2, <3>3
  <2>3. g = [i \in 1 .. n + 1 |-> g[i]]
    OBVIOUS
  <2> HIDE DEF g
  <2>4. IsFlat(g, s, n + 1)
    BY <2>2, <2>3 DEF IsFlat
  <2>. QED
    BY <2>4
<1> HIDE DEF S
<1>3. \A n \in Nat : n \in S
  BY <1>1, <1>2, SetInduction
<1>. QED
  BY <1>3 DEF S

\* One step of it.
Joins(f, s, i) == IF i = 0 THEN f[i + 1] = s[i + 1] ELSE f[i + 1] = f[i] \o s[i + 1]

\* Its values, one by one.
LEMMA FlatStep ==
    ASSUME NEW s, NEW n \in Nat, NEW f, IsFlat(f, s, n)
    PROVE  \A i \in Nat : i + 1 \in 1 .. n => Joins(f, s, i)
<1> SUFFICES ASSUME NEW i \in Nat, i + 1 \in 1 .. n PROVE Joins(f, s, i)
  OBVIOUS
<1> DEFINE F(j) == IF j = 1 THEN s[j] ELSE f[j - 1] \o s[j]
           k == i + 1
<1>1. f = [j \in 1 .. n |-> F(j)]
  BY DEF IsFlat
<1>2. k - 1 = i /\ (k = 1 <=> i = 0) /\ k \in 1 .. n
  OBVIOUS
<1> HIDE DEF F, k
<1>3. f[k] = F(k)
  BY <1>1, <1>2
<1>4. f[k] = IF k = 1 THEN s[k] ELSE f[k - 1] \o s[k]
  BY <1>3 DEF F
<1>5. f[k] = IF i = 0 THEN s[k] ELSE f[i] \o s[k]
  BY <1>2, <1>4
<1>6. IF i = 0 THEN f[k] = s[k] ELSE f[k] = f[i] \o s[k]
  BY <1>5
<1>. QED
  BY <1>6 DEF k, Joins

\* FlattenSeq is the last value of one of them.
LEMMA FlattenRun ==
    ASSUME NEW s, Len(s) \in Nat \ {0}
    PROVE  \E f : IsFlat(f, s, Len(s)) /\ FlattenSeq(s) = f[Len(s)]
<1> DEFINE g == CHOOSE f : f = [i \in 1 .. Len(s) |-> IF i = 1 THEN s[i] ELSE f[i - 1] \o s[i]]
<1>1. PICK h : h = [i \in 1 .. Len(s) |-> IF i = 1 THEN s[i] ELSE h[i - 1] \o s[i]]
  <2>1. PICK h : IsFlat(h, s, Len(s))
    BY FlatExists
  <2>. QED
    BY <2>1 DEF IsFlat
<1>2. g = [i \in 1 .. Len(s) |-> IF i = 1 THEN s[i] ELSE g[i - 1] \o s[i]]
  BY <1>1
<1>3. FlattenSeq(s) = g[Len(s)]
  BY DEF FlattenSeq
<1>. QED
  BY <1>2, <1>3 DEF IsFlat

\* What is put together is a sequence of the same elements.
LEMMA FlatType ==
    ASSUME NEW P, NEW s, NEW n \in Nat, NEW f, IsFlat(f, s, n), \A i \in 1 .. n : s[i] \in Seq(P)
    PROVE  \A i \in 1 .. n : f[i] \in Seq(P)
<1> DEFINE S == {i \in Nat : i \in 1 .. n => f[i] \in Seq(P)}
<1>1. 0 \in S
  OBVIOUS
<1>2. \A i \in Nat : i + 1 \in 1 .. n => Joins(f, s, i)
  BY FlatStep
<1>3. ASSUME NEW i \in Nat, i \in S PROVE i + 1 \in S
  <2>1. CASE i + 1 \in 1 .. n
    <3>1. s[i + 1] \in Seq(P) /\ Joins(f, s, i)
      BY <1>2, <2>1
    <3>2. CASE i = 0
      BY <3>1, <3>2 DEF Joins
    <3>3. CASE i # 0
      <4>1. f[i] \in Seq(P)
        BY <1>3, <2>1, <3>3
      <4>2. f[i] \o s[i + 1] \in Seq(P)
        BY <3>1, <4>1, ConcatProperties
      <4>3. f[i + 1] = f[i] \o s[i + 1]
        BY <3>1, <3>3 DEF Joins
      <4>4. f[i + 1] \in Seq(P)
        BY <4>2, <4>3
      <4>. QED
        BY <4>4
    <3>. QED
      BY <3>2, <3>3
  <2>2. CASE i + 1 \notin 1 .. n
    BY <2>2
  <2>. QED
    BY <2>1, <2>2
<1> HIDE DEF S
<1>4. \A i \in Nat : i \in S
  BY <1>1, <1>3, SetInduction
<1>. QED
  BY <1>4 DEF S

\* Nothing put together.
LEMMA FlattenNone == FlattenSeq(<<>>) = <<>>
BY DEF FlattenSeq

\* Sequences put together are one of the same elements.
LEMMA FlattenType ==
    ASSUME NEW P, NEW s \in Seq(Seq(P))
    PROVE  FlattenSeq(s) \in Seq(P)
<1>1. CASE s = <<>>
  <2>1. FlattenSeq(s) = <<>>
    BY <1>1, FlattenNone
  <2>. QED
    BY <2>1
<1>2. CASE s # <<>>
  <2> DEFINE n == Len(s)
  <2>1. n \in Nat \ {0} /\ n \in 1 .. n /\ \A i \in 1 .. n : s[i] \in Seq(P)
    BY <1>2, EmptySeq, LenProperties, ElementOfSeq
  <2>2. PICK f : IsFlat(f, s, n) /\ FlattenSeq(s) = f[n]
    BY <2>1, FlattenRun
  <2> HIDE DEF n
  <2>3. \A i \in 1 .. n : f[i] \in Seq(P)
    BY <2>1, <2>2, FlatType
  <2>. QED
    BY <2>1, <2>2, <2>3
<1>. QED
  BY <1>1, <1>2

\* The same sequences are put together in the same way.
LEMMA FlatUnique ==
    ASSUME NEW s, NEW d, NEW n \in Nat, NEW p \in Nat, NEW f, NEW g, n <= p,
           IsFlat(f, s, n), IsFlat(g, d, p), \A i \in 1 .. n : s[i] = d[i]
    PROVE  \A i \in 1 .. n : f[i] = g[i]
<1> DEFINE S == {i \in Nat : i \in 1 .. n => f[i] = g[i]}
<1>1. 0 \in S
  OBVIOUS
<1>2. \A i \in Nat : i + 1 \in 1 .. n => Joins(f, s, i)
  BY FlatStep
<1>3. \A i \in Nat : i + 1 \in 1 .. p => Joins(g, d, i)
  BY FlatStep
<1>4. ASSUME NEW i \in Nat, i \in S PROVE i + 1 \in S
  <2>1. CASE i + 1 \in 1 .. n
    <3>1. Joins(f, s, i) /\ Joins(g, d, i)
      BY <1>2, <1>3, <2>1
    <3>2. s[i + 1] = d[i + 1]
      BY <2>1
    <3>3. i # 0 => f[i] = g[i]
      BY <1>4, <2>1
    <3>4. f[i + 1] = g[i + 1]
      BY <3>1, <3>2, <3>3 DEF Joins
    <3>. QED
      BY <3>4
  <2>2. CASE i + 1 \notin 1 .. n
    BY <2>2
  <2>. QED
    BY <2>1, <2>2
<1> HIDE DEF S
<1>5. \A i \in Nat : i \in S
  BY <1>1, <1>4, SetInduction
<1>. QED
  BY <1>5 DEF S

\* One more at the end.
LEMMA FlattenAppend ==
    ASSUME NEW P, NEW s \in Seq(Seq(P)), NEW x \in Seq(P)
    PROVE  FlattenSeq(Append(s, x)) = FlattenSeq(s) \o x
<1> DEFINE n == Len(s)
           p == n + 1
           d == Append(s, x)
<1>1. /\ n \in Nat /\ Len(d) = p /\ d[p] = x
      /\ \A i \in 1 .. n : s[i] = d[i]
  BY AppendProperties, LenProperties
<1>2. /\ p \in Nat \ {0} /\ p \in 1 .. p /\ n <= p
      /\ n # 0 => n \in 1 .. n
  BY <1>1
<1> HIDE DEF d
<1>3. PICK g : IsFlat(g, d, p) /\ FlattenSeq(d) = g[p]
  BY <1>1, <1>2, FlattenRun
<1>4. Joins(g, d, n)
  <2>1. p \in Nat /\ n \in Nat /\ n + 1 \in 1 .. p
    BY <1>1, <1>2
  <2> HIDE DEF n, p
  <2>. QED
    BY <1>3, <2>1, FlatStep
<1>5. CASE n = 0
  <2>1. s = <<>>
    BY <1>5, EmptySeq
  <2>2. FlattenSeq(s) = <<>> /\ <<>> \o x = x
    BY <2>1, FlattenNone, ConcatEmptySeq
  <2>. QED
    BY <1>1, <1>3, <1>4, <1>5, <2>2 DEF d, Joins
<1>6. CASE n # 0
  <2>1. PICK f : IsFlat(f, s, n) /\ FlattenSeq(s) = f[n]
    <3>1. Len(s) \in Nat \ {0}
      BY <1>1, <1>6
    <3>. QED
      BY <3>1, FlattenRun
  <2>2. \A i \in 1 .. n : f[i] = g[i]
    <3>1. \A i \in 1 .. n : s[i] = d[i]
      BY <1>1
    <3>2. n \in Nat /\ p \in Nat /\ n <= p
      BY <1>1, <1>2
    <3>3. IsFlat(f, s, n) /\ IsFlat(g, d, p)
      BY <1>3, <2>1
    <3> HIDE DEF n, p
    <3>. QED
      BY <3>1, <3>2, <3>3, FlatUnique
  <2>3. f[n] = g[n]
    BY <1>2, <1>6, <2>2
  <2>4. g[p] = g[n] \o x
    BY <1>1, <1>4, <1>6 DEF Joins
  <2>. QED
    BY <1>3, <2>1, <2>3, <2>4 DEF d
<1>. QED
  BY <1>5, <1>6

---------------------------------------------------------------------------
(* What a reply calls for *)

\* A set of numbers that is not empty has a smallest one.
LEMMA MinIn ==
    ASSUME NEW I \in SUBSET Nat, I # {}
    PROVE  Min(I) \in I /\ \A y \in I : Min(I) <= y
<1>1. \E x \in I : \A y \in I : x <= y
  <2> SUFFICES ASSUME \A x \in I : \E y \in I : ~(x <= y) PROVE FALSE
    OBVIOUS
  <2> DEFINE S == {n \in Nat : \A k \in 0 .. n : k \notin I}
  <2>1. 0 \in S
    OBVIOUS
  <2>2. \A n \in Nat : n \in S => n + 1 \in S
    OBVIOUS
  <2> HIDE DEF S
  <2>3. \A n \in Nat : n \in S
    BY <2>1, <2>2, SetInduction
  <2>4. ASSUME NEW n \in Nat PROVE n \notin I
    <3>1. n \in 0 .. n /\ \A k \in 0 .. n : k \notin I
      BY <2>3 DEF S
    <3>. QED
      BY <3>1
  <2>. QED
    BY <2>4
<1>. QED
  BY <1>1 DEF Min

\* There is no other.
LEMMA MinIs ==
    ASSUME NEW I \in SUBSET Nat, NEW m \in I, \A y \in I : m <= y
    PROVE  Min(I) = m
<1>1. \A x \in I : (\A y \in I : x <= y) => x = m
  OBVIOUS
<1>. QED
  BY <1>1 DEF Min

\* From a place on: nothing after the end or where no tag closes, else what is
\* here, if anything is, and what there is further on.
IsCount(f, a, n, next, skip, here) ==
    f = [i \in a .. n + 1 |-> IF i > n \/ next[i] = 0 THEN 0
                              ELSE IF i \in skip THEN f[next[i]] ELSE here[i] + f[next[i]]]

\* There is such a function from any place on.
LEMMA CountExists ==
    ASSUME NEW n \in Nat, NEW next, NEW skip, NEW here,
           \A i \in 1 .. n : next[i] \in {0} \cup i + 1 .. n + 1
    PROVE  \E f : IsCount(f, 1, n, next, skip, here)
<1> DEFINE S == {k \in Nat : k <= n => \E f : IsCount(f, n + 1 - k, n, next, skip, here)}
<1>1. 0 \in S
  <2> DEFINE f == [i \in n + 1 .. n + 1 |-> 0]
  <2>1. f = [i \in n + 1 .. n + 1 |-> IF i > n \/ next[i] = 0 THEN 0
                                      ELSE IF i \in skip THEN f[next[i]] ELSE here[i] + f[next[i]]]
    OBVIOUS
  <2> HIDE DEF f
  <2>2. IsCount(f, n + 1, n, next, skip, here) /\ n + 1 - 0 = n + 1
    BY <2>1 DEF IsCount
  <2>. QED
    BY <2>2
<1>2. ASSUME NEW k \in Nat, k \in S PROVE k + 1 \in S
  <2>1. SUFFICES ASSUME k + 1 <= n PROVE \E g : IsCount(g, n + 1 - (k + 1), n, next, skip, here)
    OBVIOUS
  <2>2. PICK f : IsCount(f, n + 1 - k, n, next, skip, here)
    BY <1>2, <2>1
  <2> DEFINE a == n - k
             g == [i \in a .. n + 1 |->
                      IF i # a THEN f[i] ELSE IF next[a] = 0 THEN 0
                      ELSE IF a \in skip THEN f[next[a]] ELSE here[a] + f[next[a]]]
  <2>3. /\ a \in 1 .. n /\ n + 1 - k = a + 1 /\ n + 1 - (k + 1) = a
        /\ next[a] \in {0} \cup a + 1 .. n + 1
    BY <2>1
  <2>4. f = [i \in a + 1 .. n + 1 |-> IF i > n \/ next[i] = 0 THEN 0
                                      ELSE IF i \in skip THEN f[next[i]] ELSE here[i] + f[next[i]]]
    BY <2>2, <2>3 DEF IsCount
  <2> HIDE DEF a
  <2>5. ASSUME NEW i \in a .. n + 1
        PROVE  g[i] = IF i > n \/ next[i] = 0 THEN 0
                      ELSE IF i \in skip THEN g[next[i]] ELSE here[i] + g[next[i]]
    <3>1. \A j \in a + 1 .. n + 1 : g[j] = f[j]
      BY <2>3
    <3>2. CASE i = a
      BY <2>3, <3>1, <3>2
    <3>3. CASE i # a
      <4>1. i \in a + 1 .. n + 1
        BY <2>3, <3>3
      <4>2. f[i] = IF i > n \/ next[i] = 0 THEN 0
                   ELSE IF i \in skip THEN f[next[i]] ELSE here[i] + f[next[i]]
        BY <2>4, <4>1
      <4>3. i <= n => next[i] \in {0} \cup a + 1 .. n + 1
        BY <2>3, <4>1
      <4>. QED
        BY <3>1, <4>1, <4>2, <4>3
    <3>. QED
      BY <3>2, <3>3
  <2>6. g = [i \in a .. n + 1 |-> g[i]]
    OBVIOUS
  <2> HIDE DEF g
  <2>7. IsCount(g, a, n, next, skip, here)
    BY <2>5, <2>6 DEF IsCount
  <2>. QED
    BY <2>3, <2>7
<1> HIDE DEF S
<1>3. \A k \in Nat : k \in S
  BY <1>1, <1>2, SetInduction
<1>4. \E f : IsCount(f, n + 1 - n, n, next, skip, here) /\ n + 1 - n = 1
  BY <1>3 DEF S
<1>. QED
  BY <1>4

\* Its values are numbers.
LEMMA CountType ==
    ASSUME NEW n \in Nat, NEW next, NEW skip, NEW here, NEW f, IsCount(f, 1, n, next, skip, here),
           \A i \in 1 .. n : next[i] \in {0} \cup i + 1 .. n + 1,
           \A i \in 1 .. n : here[i] \in Nat
    PROVE  f[1] \in Nat
<1> DEFINE S == {k \in Nat : k <= n => \A i \in n + 1 - k .. n + 1 : f[i] \in Nat}
<1>1. f = [i \in 1 .. n + 1 |-> IF i > n \/ next[i] = 0 THEN 0
                                ELSE IF i \in skip THEN f[next[i]] ELSE here[i] + f[next[i]]]
  BY DEF IsCount
<1>2. 0 \in S
  <2>1. f[n + 1] = 0
    BY <1>1
  <2>. QED
    BY <2>1
<1>3. ASSUME NEW k \in Nat, k \in S PROVE k + 1 \in S
  <2> SUFFICES ASSUME k + 1 <= n, NEW i \in n - k .. n + 1 PROVE f[i] \in Nat
    OBVIOUS
  <2>1. \A j \in n - k + 1 .. n + 1 : f[j] \in Nat
    BY <1>3
  <2>2. CASE i \in n - k + 1 .. n + 1
    BY <2>1, <2>2
  <2>3. CASE i = n - k
    <3>1. i \in 1 .. n /\ next[i] \in {0} \cup i + 1 .. n + 1 /\ here[i] \in Nat
      BY <2>3
    <3>2. f[i] = IF next[i] = 0 THEN 0 ELSE IF i \in skip THEN f[next[i]] ELSE here[i] + f[next[i]]
      BY <1>1, <3>1
    <3>3. next[i] # 0 => f[next[i]] \in Nat
      BY <2>1, <2>3, <3>1
    <3>. QED
      BY <3>1, <3>2, <3>3
  <2>. QED
    BY <2>2, <2>3
<1> HIDE DEF S
<1>4. \A k \in Nat : k \in S
  BY <1>2, <1>3, SetInduction
<1>5. \A i \in n + 1 - n .. n + 1 : f[i] \in Nat
  <2>1. n \in S
    BY <1>4
  <2>. QED
    BY <2>1 DEF S
<1>. QED
  BY <1>5

\* The calls between tags are a number of calls.
LEMMA BetweenType ==
    ASSUME NEW V, NEW toks \in Seq(V), NEW open, NEW close
    PROVE  Between(toks, open, close) \in Nat
<1> DEFINE n == Len(toks)
           Close(i) == SelectInSubSeq(toks, i + 1, Len(toks), LAMBDA t : t = close)
           One(i) == IF SubSeq(toks, i + 1, Close(i) - 1) = <<Json>> THEN 1 ELSE 0
           next == [i \in 1 .. n |-> IF toks[i] # open THEN i + 1
                                     ELSE IF Close(i) = 0 THEN 0 ELSE Close(i) + 1]
           skip == {i \in 1 .. n : toks[i] # open}
           here == [i \in 1 .. n |-> One(i)]
           Body(f) == [i \in 1 .. n + 1 |->
                          IF i > n THEN 0
                          ELSE IF toks[i] # open THEN f[i + 1]
                          ELSE IF Close(i) = 0 THEN 0
                          ELSE One(i) + f[Close(i) + 1]]
           g == CHOOSE f : f = Body(f)
<1>1. n \in Nat
  BY LenProperties
<1>2. ASSUME NEW i \in 1 .. n PROVE Close(i) \in {0} \cup i + 1 .. n
  <2> DEFINE I == {j \in i + 1 .. Len(toks) : toks[j] = close}
  <2>1. Close(i) = IF I # {} THEN Min(I) ELSE 0
    BY DEF SelectInSubSeq
  <2>2. I \in SUBSET Nat
    BY <1>1
  <2>3. I # {} => Min(I) \in i + 1 .. n
    BY <2>2, MinIn
  <2>. QED
    BY <2>1, <2>3
<1>3. \A i \in 1 .. n : One(i) \in Nat
  OBVIOUS
<1>4. Between(toks, open, close) = g[1]
  BY DEF Between
<1> HIDE DEF Close, One
<1>5. \A i \in 1 .. n : next[i] \in {0} \cup i + 1 .. n + 1 /\ here[i] \in Nat
  BY <1>1, <1>2, <1>3
<1>6. ASSUME NEW f PROVE f = Body(f) <=> IsCount(f, 1, n, next, skip, here)
  <2>1. ASSUME NEW i \in 1 .. n + 1
        PROVE  Body(f)[i] = IF i > n \/ next[i] = 0 THEN 0
                            ELSE IF i \in skip THEN f[next[i]] ELSE here[i] + f[next[i]]
    <3>1. CASE i > n
      BY <3>1
    <3>2. CASE i \in 1 .. n /\ toks[i] # open
      <4>1. next[i] = i + 1 /\ i + 1 # 0 /\ i \in skip /\ ~(i > n)
        BY <1>1, <3>2
      <4>2. Body(f)[i] = f[i + 1]
        BY <1>1, <3>2
      <4>. QED
        BY <4>1, <4>2
    <3>3. CASE i \in 1 .. n /\ toks[i] = open
      <4>1. next[i] = (IF Close(i) = 0 THEN 0 ELSE Close(i) + 1) /\ i \notin skip /\ ~(i > n)
        BY <1>1, <3>3
      <4>2. Close(i) # 0 => Close(i) + 1 # 0
        BY <1>1, <1>2, <3>3
      <4>3. Body(f)[i] = (IF Close(i) = 0 THEN 0 ELSE One(i) + f[Close(i) + 1]) /\ here[i] = One(i)
        BY <1>1, <3>3
      <4>. QED
        BY <4>1, <4>2, <4>3
    <3>. QED
      BY <1>1, <3>1, <3>2, <3>3
  <2>2. Body(f) = [i \in 1 .. n + 1 |-> Body(f)[i]]
    OBVIOUS
  <2> HIDE DEF Body
  <2>3. Body(f) = [i \in 1 .. n + 1 |->
                      IF i > n \/ next[i] = 0 THEN 0
                      ELSE IF i \in skip THEN f[next[i]] ELSE here[i] + f[next[i]]]
    BY <2>1, <2>2
  <2>. QED
    BY <2>3 DEF IsCount
<1> HIDE DEF n, next, skip, here, Body
<1>7. \E f : IsCount(f, 1, n, next, skip, here)
  BY <1>1, <1>5, CountExists
<1>8. \E f : f = Body(f)
  BY <1>6, <1>7
<1>9. g = Body(g)
  BY <1>8
<1> HIDE DEF g
<1>10. IsCount(g, 1, n, next, skip, here)
  BY <1>6, <1>9
<1>11. g[1] \in Nat
  BY <1>1, <1>5, <1>10, CountType
<1>. QED
  BY <1>4, <1>11

\* So are the calls of a reply, however they are written.
LEMMA CallsType ==
    ASSUME NEW V, NEW toks \in Seq(V)
    PROVE  Calls(toks) \in Nat
<1>1. ParseRawToolCall(toks) \in Nat
  <2> DEFINE I == {i \in DOMAIN toks : toks[i] = Json}
  <2>1. I \subseteq 1 .. Len(toks) /\ Len(toks) \in Nat
    BY LenProperties
  <2>2. IsFiniteSet(I)
    BY <2>1, FS_Interval, FS_Subset
  <2>3. Cardinality(I) \in Nat
    BY <2>2, FS_CardinalityType
  <2>. QED
    BY <2>3 DEF ParseRawToolCall
<1>2. ParseToolCalls(toks) \in Nat
  BY BetweenType DEF ParseToolCalls
<1>3. ExtractToolCallsFromTokens(toks) \in Nat
  BY BetweenType DEF ExtractToolCallsFromTokens
<1>. QED
  BY <1>1, <1>2, <1>3 DEF Calls

---------------------------------------------------------------------------
(* The text of a reply *)

\* Bytes, what is replaced among them, and the characters that start at them.
Byte == 0 .. 4
BytesOf(toks) == FlattenSeq([i \in DOMAIN toks |-> Spelling[toks[i]]])
ContinuesAt(b, i) == b[i] = 0 /\ \E j \in 1 .. i - 1 : /\ i - j < b[j]
                                                      /\ \A k \in j + 1 .. i : b[k] = 0
WholeAt(b, i) == i + b[i] - 1 <= Len(b) /\ \A k \in 1 .. b[i] - 1 : b[i + k] = 0
CharAt(b, i) == IF WholeAt(b, i) THEN b[i] ELSE Replacement
PieceAt(b, i) == IF ContinuesAt(b, i) THEN <<>> ELSE <<CharAt(b, i)>>
Chars(b) == [i \in DOMAIN b |-> PieceAt(b, i)]

\* A text is its characters put together.
LEMMA DecodeIs == ASSUME NEW toks PROVE Decode(toks) = FlattenSeq(Chars(BytesOf(toks)))
BY DEF Decode, BytesOf, Chars, PieceAt, CharAt, ContinuesAt, WholeAt

\* A character is a byte, or stands for one that is replaced.
LEMMA PieceType ==
    ASSUME NEW b \in Seq(Byte), NEW i \in 1 .. Len(b)
    PROVE  PieceAt(b, i) \in Seq(Byte) /\ CharAt(b, i) \in Byte
<1>1. CharAt(b, i) \in Byte
  BY ElementOfSeq DEF CharAt, Replacement, Byte
<1>2. <<>> \in Seq(Byte)
  BY EmptySeq
<1>. QED
  BY <1>1, <1>2 DEF PieceAt

\* The pieces of a text are sequences of characters.
LEMMA CharsType ==
    ASSUME NEW b \in Seq(Byte)
    PROVE  Chars(b) \in Seq(Seq(Byte)) /\ Len(Chars(b)) = Len(b)
<1>1. DOMAIN b = 1 .. Len(b) /\ Len(b) \in Nat
  BY LenProperties
<1>2. \A i \in 1 .. Len(b) : PieceAt(b, i) \in Seq(Byte)
  BY PieceType
<1>3. Chars(b) = [i \in 1 .. Len(b) |-> PieceAt(b, i)]
  BY <1>1 DEF Chars
<1>. QED
  BY <1>1, <1>2, <1>3

\* One byte string begins another.
Begins(b, d) == Len(b) <= Len(d) /\ \A i \in 1 .. Len(b) : d[i] = b[i]

\* What continues a character depends on the bytes before it alone.
LEMMA ContinuesSame ==
    ASSUME NEW b \in Seq(Byte), NEW d \in Seq(Byte), Begins(b, d), NEW i \in 1 .. Len(b)
    PROVE  ContinuesAt(d, i) <=> ContinuesAt(b, i)
<1>1. Len(b) \in Nat
  BY LenProperties
<1>2. \A j \in 1 .. i : d[j] = b[j]
  BY <1>1 DEF Begins
<1>3. \A j \in 1 .. i - 1 : \A k \in j + 1 .. i : d[k] = b[k]
  BY <1>1, <1>2
<1>. QED
  BY <1>1, <1>2, <1>3 DEF ContinuesAt

\* A character that more bytes change was replaced, for its bytes were not all
\* there, and nothing starts after it.
LEMMA CharSame ==
    ASSUME NEW b \in Seq(Byte), NEW d \in Seq(Byte), Begins(b, d), NEW i \in 1 .. Len(b),
           CharAt(d, i) # CharAt(b, i)
    PROVE  CharAt(b, i) = 0 /\ \A j \in i + 1 .. Len(b) : ContinuesAt(b, j)
<1>1. /\ Len(b) \in Nat /\ Len(d) \in Nat /\ Len(b) <= Len(d) /\ d[i] = b[i] /\ b[i] \in 0 .. 4
      /\ i \in Nat
  BY LenProperties, ElementOfSeq DEF Begins, Byte
<1>2. \A j \in 1 .. Len(b) : d[j] = b[j]
  BY DEF Begins
<1>3. ~WholeAt(b, i) /\ WholeAt(d, i)
  <2>1. ASSUME WholeAt(b, i) PROVE WholeAt(d, i)
    <3>1. i + b[i] - 1 <= Len(b) /\ \A k \in 1 .. b[i] - 1 : b[i + k] = 0
      BY <2>1 DEF WholeAt
    <3>2. \A k \in 1 .. b[i] - 1 : i + k \in 1 .. Len(b)
      BY <1>1, <3>1
    <3>3. \A k \in 1 .. d[i] - 1 : d[i + k] = 0
      BY <1>1, <1>2, <3>1, <3>2
    <3>. QED
      BY <1>1, <3>1, <3>3 DEF WholeAt
  <2>2. WholeAt(d, i) \/ WholeAt(b, i)
    BY DEF CharAt
  <2>. QED
    BY <1>1, <2>1, <2>2 DEF CharAt
<1>4. CharAt(b, i) = 0
  BY <1>3 DEF CharAt, Replacement
<1>5. i + b[i] - 1 > Len(b)
  <2> SUFFICES ASSUME i + b[i] - 1 <= Len(b) PROVE WholeAt(b, i)
    BY <1>1, <1>3
  <2>1. \A k \in 1 .. b[i] - 1 : d[i + k] = 0 /\ i + k \in 1 .. Len(b)
    BY <1>1, <1>3 DEF WholeAt
  <2>2. \A k \in 1 .. b[i] - 1 : b[i + k] = 0
    BY <1>2, <2>1
  <2>. QED
    BY <2>2 DEF WholeAt
<1>6. ASSUME NEW k \in i + 1 .. Len(b) PROVE b[k] = 0
  <2>1. k - i \in 1 .. d[i] - 1 /\ i + (k - i) = k /\ k \in 1 .. Len(b)
    BY <1>1, <1>5
  <2>2. d[i + (k - i)] = 0
    BY <1>3, <2>1 DEF WholeAt
  <2>. QED
    BY <1>2, <2>1, <2>2
<1>7. ASSUME NEW j \in i + 1 .. Len(b) PROVE ContinuesAt(b, j)
  <2>1. i \in 1 .. j - 1 /\ j - i < b[i]
    BY <1>1, <1>5
  <2>2. \A k \in i + 1 .. j : b[k] = 0
    BY <1>1, <1>6
  <2>. QED
    BY <1>6, <2>1, <2>2 DEF ContinuesAt
<1>. QED
  BY <1>4, <1>7

\* One more element.
LEMMA PutOne ==
    ASSUME NEW P, NEW s \in Seq(P), NEW x \in P
    PROVE  /\ s \o <<x>> \in Seq(P) /\ Len(s \o <<x>>) = Len(s) + 1
           /\ (s \o <<x>>)[Len(s) + 1] = x /\ \A k \in 1 .. Len(s) : (s \o <<x>>)[k] = s[k]
<1>1. <<x>> \in Seq(P) /\ Len(<<x>>) = 1 /\ <<x>>[1] = x
  OBVIOUS
<1>2. Len(s) \in Nat
  BY LenProperties
<1>. QED
  BY <1>1, <1>2, ConcatProperties

\* Two texts are the same but for the last character of the first.
Near(s, t) ==
    \A k \in 1 .. Len(s) : t[k] = s[k] \/ (k = Len(s) /\ s[k] = 0)

\* The first n bytes of both, decoded; a character may differ if no other follows.
LEMMA NearUpTo ==
    ASSUME NEW b \in Seq(Byte), NEW d \in Seq(Byte), Begins(b, d), NEW f, NEW g,
           IsFlat(f, Chars(b), Len(b)), IsFlat(g, Chars(d), Len(d))
    PROVE  \A n \in 1 .. Len(b) :
               /\ f[n] \in Seq(Byte) /\ g[n] \in Seq(Byte) /\ Len(g[n]) = Len(f[n])
               /\ \A k \in 1 .. Len(f[n]) :
                      g[n][k] = f[n][k] \/ (/\ k = Len(f[n]) /\ f[n][k] = 0
                                            /\ \A j \in n + 1 .. Len(b) : ContinuesAt(b, j))
<1> DEFINE L == Len(b)
           Same(n) ==
               /\ f[n] \in Seq(Byte) /\ g[n] \in Seq(Byte) /\ Len(g[n]) = Len(f[n])
               /\ \A k \in 1 .. Len(f[n]) :
                      g[n][k] = f[n][k] \/ (/\ k = Len(f[n]) /\ f[n][k] = 0
                                            /\ \A j \in n + 1 .. Len(b) : ContinuesAt(b, j))
           S == {n \in Nat : n \in 1 .. L => Same(n)}
<1>1. /\ L \in Nat /\ Len(d) \in Nat /\ L <= Len(d)
      /\ DOMAIN b = 1 .. L /\ DOMAIN d = 1 .. Len(d)
  BY LenProperties DEF Begins
<1>2. 0 \in S
  OBVIOUS
<1>3. \A i \in Nat : i + 1 \in 1 .. L => Joins(f, Chars(b), i)
  BY <1>1, FlatStep
<1>4. \A i \in Nat : i + 1 \in 1 .. Len(d) => Joins(g, Chars(d), i)
  BY <1>1, FlatStep
<1>5. ASSUME NEW n \in Nat, n \in S PROVE n + 1 \in S
  <2> SUFFICES ASSUME n + 1 \in 1 .. L PROVE Same(n + 1)
    OBVIOUS
  <2> DEFINE p == PieceAt(b, n + 1)
             q == PieceAt(d, n + 1)
             s == IF n = 0 THEN <<>> ELSE f[n]
             t == IF n = 0 THEN <<>> ELSE g[n]
  <2>1. Chars(b)[n + 1] = p /\ Chars(d)[n + 1] = q
    BY <1>1 DEF Chars
  <2>2. Joins(f, Chars(b), n) /\ Joins(g, Chars(d), n)
    BY <1>1, <1>3, <1>4
  <2>3. /\ p \in Seq(Byte) /\ q \in Seq(Byte)
        /\ CharAt(b, n + 1) \in Byte /\ CharAt(d, n + 1) \in Byte
    BY <1>1, PieceType
  <2>4. n # 0 => Same(n)
    BY <1>1, <1>5
  <2>5. s \in Seq(Byte) /\ t \in Seq(Byte) /\ Len(t) = Len(s) /\ Len(s) \in Nat
    BY <2>4, EmptySeq, LenProperties
  <2>6. f[n + 1] = s \o p /\ g[n + 1] = t \o q
    <3>1. CASE n = 0
      <4>1. f[n + 1] = p /\ g[n + 1] = q
        BY <2>1, <2>2, <3>1 DEF Joins
      <4>2. <<>> \o p = p /\ <<>> \o q = q
        BY <2>3, ConcatEmptySeq
      <4>. QED
        BY <3>1, <4>1, <4>2
    <3>2. CASE n # 0
      BY <2>1, <2>2, <3>2 DEF Joins
    <3>. QED
      BY <3>1, <3>2
  <2>7. ContinuesAt(d, n + 1) <=> ContinuesAt(b, n + 1)
    BY <1>1, ContinuesSame
  <2>8. \A k \in 1 .. Len(s) :
            t[k] = s[k] \/ (/\ k = Len(s) /\ s[k] = 0
                            /\ \A j \in n + 1 .. L : ContinuesAt(b, j))
    <3>1. CASE n = 0
      <4>1. Len(s) = 0
        BY <3>1
      <4>. QED
        BY <4>1
    <3>2. CASE n # 0
      BY <2>4, <3>2
    <3>. QED
      BY <3>1, <3>2
  <2>9. n + 1 \in n + 1 .. L
    BY <1>1
  <2> HIDE DEF L, s, t
  <2>10. CASE ContinuesAt(b, n + 1)
    <3>1. p = <<>> /\ q = <<>>
      BY <2>7, <2>10 DEF PieceAt
    <3>2. f[n + 1] = s /\ g[n + 1] = t
      <4>1. s \o <<>> = s /\ t \o <<>> = t
        BY <2>5, ConcatEmptySeq
      <4>. QED
        BY <2>6, <3>1, <4>1
    <3>3. \A j \in n + 1 + 1 .. L : j \in n + 1 .. L
      BY <1>1
    <3>. QED
      BY <2>5, <2>8, <3>2, <3>3 DEF L
  <2>11. CASE ~ContinuesAt(b, n + 1)
    <3> DEFINE x == CharAt(b, n + 1)
               y == CharAt(d, n + 1)
    <3>1. p = <<x>> /\ q = <<y>>
      BY <2>7, <2>11 DEF PieceAt
    <3>2. \A k \in 1 .. Len(s) : t[k] = s[k]
      BY <2>8, <2>9, <2>11
    <3>3. f[n + 1] = s \o <<x>> /\ g[n + 1] = t \o <<y>>
      BY <2>6, <3>1
    <3>4. y = x \/ (x = 0 /\ \A j \in n + 1 + 1 .. L : ContinuesAt(b, j))
      BY CharSame DEF L
    <3>5. x \in Byte /\ y \in Byte
      BY <2>3
    <3> HIDE DEF x, y
    <3>6. /\ f[n + 1] \in Seq(Byte) /\ g[n + 1] \in Seq(Byte)
          /\ Len(f[n + 1]) = Len(s) + 1 /\ Len(g[n + 1]) = Len(s) + 1
          /\ f[n + 1][Len(s) + 1] = x /\ g[n + 1][Len(s) + 1] = y
          /\ \A k \in 1 .. Len(s) : f[n + 1][k] = s[k] /\ g[n + 1][k] = t[k]
      <4>1. /\ s \o <<x>> \in Seq(Byte) /\ Len(s \o <<x>>) = Len(s) + 1
            /\ (s \o <<x>>)[Len(s) + 1] = x /\ \A k \in 1 .. Len(s) : (s \o <<x>>)[k] = s[k]
        BY <2>5, <3>5, PutOne
      <4>2. /\ t \o <<y>> \in Seq(Byte) /\ Len(t \o <<y>>) = Len(t) + 1
            /\ (t \o <<y>>)[Len(t) + 1] = y /\ \A k \in 1 .. Len(t) : (t \o <<y>>)[k] = t[k]
        BY <2>5, <3>5, PutOne
      <4>. QED
        BY <2>5, <3>3, <4>1, <4>2
    <3>7. ASSUME NEW k \in 1 .. Len(s) + 1
          PROVE  \/ g[n + 1][k] = f[n + 1][k]
                 \/ /\ k = Len(s) + 1 /\ f[n + 1][k] = 0
                    /\ \A j \in n + 1 + 1 .. L : ContinuesAt(b, j)
      <4>1. CASE k \in 1 .. Len(s)
        BY <3>2, <3>6, <4>1
      <4>2. CASE k = Len(s) + 1
        BY <3>4, <3>6, <4>2
      <4>. QED
        BY <2>5, <4>1, <4>2
    <3>. QED
      BY <3>6, <3>7 DEF L
  <2>. QED
    BY <2>10, <2>11
<1> HIDE DEF S, Same, L
<1>6. \A n \in Nat : n \in S
  BY <1>2, <1>5, SetInduction
<1>. QED
  BY <1>1, <1>6 DEF S, Same, L

\* What comes after a sequence changes nothing of it.
LEMMA PutAfter ==
    ASSUME NEW P, NEW s \in Seq(P), NEW t \in Seq(P)
    PROVE  /\ Len(s \o t) >= Len(s) /\ Len(s \o t) \in Nat
           /\ \A k \in 1 .. Len(s) : (s \o t)[k] = s[k]
<1>1. Len(s) \in Nat /\ Len(t) \in Nat
  BY LenProperties
<1>. QED
  BY <1>1, ConcatProperties

\* What is put together stays where it is when more is.
LEMMA FlatGrows ==
    ASSUME NEW P, NEW s, NEW p \in Nat, NEW g, IsFlat(g, s, p), \A i \in 1 .. p : s[i] \in Seq(P),
           NEW n \in 1 .. p
    PROVE  /\ Len(g[n]) <= Len(g[p])
           /\ \A k \in 1 .. Len(g[n]) : g[p][k] = g[n][k]
<1> DEFINE Grown(m) == /\ Len(g[n]) <= Len(g[m])
                       /\ \A k \in 1 .. Len(g[n]) : g[m][k] = g[n][k]
           S == {m \in Nat : m \in n .. p => Grown(m)}
<1>1. \A i \in 1 .. p : g[i] \in Seq(P) /\ Len(g[i]) \in Nat
  BY FlatType, LenProperties
<1>2. \A i \in Nat : i + 1 \in 1 .. p => Joins(g, s, i)
  BY FlatStep
<1>3. 0 \in S
  OBVIOUS
<1>4. ASSUME NEW m \in Nat, m \in S PROVE m + 1 \in S
  <2> SUFFICES ASSUME m + 1 \in n .. p PROVE Grown(m + 1)
    OBVIOUS
  <2>1. CASE m + 1 = n
    BY <1>1, <2>1
  <2>2. CASE m + 1 # n
    <3>1. m \in n .. p /\ m # 0 /\ m \in 1 .. p /\ m + 1 \in 1 .. p
      BY <2>2
    <3>2. Grown(m)
      BY <1>4, <3>1
    <3>3. g[m + 1] = g[m] \o s[m + 1]
      BY <1>2, <3>1 DEF Joins
    <3>4. /\ g[m] \in Seq(P) /\ s[m + 1] \in Seq(P)
          /\ Len(g[m]) \in Nat /\ Len(s[m + 1]) \in Nat /\ Len(g[n]) \in Nat
      BY <1>1, <3>1, LenProperties
    <3>5. /\ Len(g[m] \o s[m + 1]) >= Len(g[m]) /\ Len(g[m] \o s[m + 1]) \in Nat
          /\ \A k \in 1 .. Len(g[m]) : (g[m] \o s[m + 1])[k] = g[m][k]
      BY <3>4, PutAfter
    <3> DEFINE x == g[n]
               y == g[m]
               z == g[m + 1]
    <3>6. /\ Len(z) >= Len(y) /\ Len(y) >= Len(x)
          /\ Len(x) \in Nat /\ Len(y) \in Nat /\ Len(z) \in Nat
      BY <3>2, <3>3, <3>4, <3>5
    <3>7. ASSUME NEW k \in 1 .. Len(x) PROVE z[k] = x[k]
      <4>1. k \in 1 .. Len(y)
        BY <3>6
      <4>. QED
        BY <3>2, <3>3, <3>5, <4>1
    <3> HIDE DEF x, y, z
    <3>8. Len(x) <= Len(z)
      BY <3>6
    <3>. QED
      BY <3>7, <3>8 DEF x, z
  <2>. QED
    BY <2>1, <2>2
<1> HIDE DEF S, Grown
<1>5. p \in S
  BY <1>3, <1>4, SetInduction
<1>. QED
  BY <1>5 DEF S, Grown

\* More bytes: the text goes on, and of what was there only the last character may
\* change, if its bytes had not all come.
LEMMA TextGrows ==
    ASSUME NEW b \in Seq(Byte), NEW d \in Seq(Byte), Begins(b, d),
           NEW s, s = FlattenSeq(Chars(b)), NEW t, t = FlattenSeq(Chars(d))
    PROVE  /\ s \in Seq(Byte) /\ t \in Seq(Byte)
           /\ Len(s) <= Len(t) /\ Near(s, t)
<1>1. /\ Chars(b) \in Seq(Seq(Byte)) /\ Len(Chars(b)) = Len(b)
      /\ Chars(d) \in Seq(Seq(Byte)) /\ Len(Chars(d)) = Len(d)
  BY CharsType
<1>2. s \in Seq(Byte) /\ t \in Seq(Byte) /\ Len(s) \in Nat /\ Len(t) \in Nat
  BY <1>1, FlattenType, LenProperties
<1>3. Len(b) \in Nat /\ Len(d) \in Nat /\ Len(b) <= Len(d)
  BY LenProperties DEF Begins
<1>4. CASE Len(b) = 0
  <2>1. Chars(b) = <<>>
    BY <1>1, <1>4, EmptySeq
  <2>2. s = <<>> /\ Len(s) = 0
    BY <2>1, FlattenNone
  <2>. QED
    BY <1>2, <2>2 DEF Near
<1>5. CASE Len(b) # 0
  <2>1. Len(b) \in Nat \ {0} /\ Len(d) \in Nat \ {0}
    BY <1>3, <1>5
  <2>2. PICK f : IsFlat(f, Chars(b), Len(b)) /\ s = f[Len(b)]
    BY <1>1, <2>1, FlattenRun
  <2>3. PICK g : IsFlat(g, Chars(d), Len(d)) /\ t = g[Len(d)]
    BY <1>1, <2>1, FlattenRun
  <2> DEFINE n == Len(b)
             u == g[n]
  <2>4. n \in 1 .. n /\ n \in 1 .. Len(d)
    BY <1>3, <2>1
  <2>5. /\ u \in Seq(Byte) /\ Len(u) = Len(s)
        /\ \A k \in 1 .. Len(s) : u[k] = s[k] \/ (k = Len(s) /\ s[k] = 0)
    BY <2>2, <2>3, <2>4, NearUpTo
  <2>6. /\ Len(u) <= Len(t)
        /\ \A k \in 1 .. Len(u) : t[k] = u[k]
    <3>1. \A i \in 1 .. Len(d) : Chars(d)[i] \in Seq(Byte)
      BY <1>1, ElementOfSeq
    <3>. QED
      BY <1>3, <2>3, <2>4, <3>1, FlatGrows
  <2> HIDE DEF u
  <2>. QED
    BY <1>2, <2>5, <2>6 DEF Near
<1>. QED
  BY <1>4, <1>5

\* What of a text may be printed: up to the last character that is not replaced.
LEMMA SafeFacts ==
    ASSUME NEW s \in Seq(Byte)
    PROVE  /\ SafeLen(s) \in 0 .. Len(s)
           /\ SafeLen(s) # 0 => s[SafeLen(s)] # 0
           /\ \A k \in 1 .. Len(s) : s[k] # 0 => k <= SafeLen(s)
<1> DEFINE n == Len(s)
           I == {0} \cup {i \in DOMAIN s : s[i] # Replacement}
           T == {k \in Nat : k <= n => \/ \E x \in I : \A y \in I : x >= y
                                       \/ \A y \in I : y <= n - k}
<1>1. n \in Nat /\ DOMAIN s = 1 .. n
  BY LenProperties
<1>2. I \subseteq 0 .. n /\ 0 \in I
  BY <1>1
<1>3. \E x \in I : \A y \in I : x >= y
  <2>1. 0 \in T
    BY <1>1, <1>2
  <2>2. ASSUME NEW k \in Nat, k \in T PROVE k + 1 \in T
    <3> SUFFICES ASSUME k + 1 <= n, ~(\E x \in I : \A y \in I : x >= y)
                 PROVE  \A y \in I : y <= n - (k + 1)
      OBVIOUS
    <3>1. \A y \in I : y <= n - k
      BY <1>1, <2>2
    <3>2. n - k \notin I
      BY <1>1, <1>2, <3>1
    <3> HIDE DEF I
    <3>. QED
      BY <1>1, <1>2, <3>1, <3>2
  <2> HIDE DEF T
  <2>3. n \in T
    BY <1>1, <2>1, <2>2, SetInduction
  <2>4. (\E x \in I : \A y \in I : x >= y) \/ \A y \in I : y <= n - n
    BY <1>1, <2>3 DEF T
  <2>. QED
    BY <1>1, <1>2, <2>4
<1>4. SafeLen(s) = CHOOSE x \in I : \A y \in I : x >= y
  BY DEF SafeLen, Max
<1>5. SafeLen(s) \in I /\ \A y \in I : SafeLen(s) >= y
  BY <1>3, <1>4
<1>. QED
  BY <1>1, <1>2, <1>5 DEF Replacement

\* A part of a sequence.
LEMMA PartOf ==
    ASSUME NEW s \in Seq(Byte), NEW m \in Nat, NEW n \in 0 .. Len(s), m <= n
    PROVE  /\ SubSeq(s, m + 1, n) \in Seq(Byte) /\ Len(SubSeq(s, m + 1, n)) = n - m
           /\ \A k \in 1 .. n - m : SubSeq(s, m + 1, n)[k] = s[m + k]
<1>1. Len(s) \in Nat /\ \A k \in 1 .. Len(s) : s[k] \in Byte
  BY LenProperties, ElementOfSeq
<1>2. m + 1 \in Int /\ n \in Int /\ \A k \in m + 1 .. n : s[k] \in Byte
  BY <1>1
<1>3. /\ SubSeq(s, m + 1, n) \in Seq(Byte)
      /\ Len(SubSeq(s, m + 1, n)) = IF m + 1 <= n THEN n - (m + 1) + 1 ELSE 0
      /\ \A k \in 1 .. n - (m + 1) + 1 : SubSeq(s, m + 1, n)[k] = s[m + 1 + k - 1]
  BY <1>2, SubSeqProperties
<1>4. /\ n - (m + 1) + 1 = n - m /\ (IF m + 1 <= n THEN n - (m + 1) + 1 ELSE 0) = n - m
      /\ \A k \in 1 .. n - m : m + 1 + k - 1 = m + k
  BY <1>1
<1>. QED
  BY <1>3, <1>4

\* Two parts one after the other.
LEMMA PartsJoin ==
    ASSUME NEW s \in Seq(Byte), NEW t \in Seq(Byte), NEW m \in 0 .. Len(s), NEW n \in 0 .. Len(t),
           m <= n, \A k \in 1 .. m : t[k] = s[k]
    PROVE  SubSeq(s, 1, m) \o SubSeq(t, m + 1, n) = SubSeq(t, 1, n)
<1> DEFINE x == SubSeq(s, 1, m)
           y == SubSeq(t, m + 1, n)
           z == SubSeq(t, 1, n)
<1>1. Len(s) \in Nat /\ Len(t) \in Nat /\ m \in Nat /\ n \in Nat
  BY LenProperties
<1>2. x \in Seq(Byte) /\ Len(x) = m /\ \A k \in 1 .. m : x[k] = s[k]
  <2>1. 0 + 1 = 1 /\ m - 0 = m /\ \A k \in 1 .. m : 0 + k = k
    BY <1>1
  <2>2. /\ SubSeq(s, 0 + 1, m) \in Seq(Byte) /\ Len(SubSeq(s, 0 + 1, m)) = m - 0
        /\ \A k \in 1 .. m - 0 : SubSeq(s, 0 + 1, m)[k] = s[0 + k]
    BY <1>1, PartOf
  <2>. QED
    BY <2>1, <2>2
<1>3. y \in Seq(Byte) /\ Len(y) = n - m /\ \A k \in 1 .. n - m : y[k] = t[m + k]
  BY <1>1, PartOf
<1>4. z \in Seq(Byte) /\ Len(z) = n /\ \A k \in 1 .. n : z[k] = t[k]
  <2>1. 0 + 1 = 1 /\ n - 0 = n /\ \A k \in 1 .. n : 0 + k = k
    BY <1>1
  <2>2. /\ SubSeq(t, 0 + 1, n) \in Seq(Byte) /\ Len(SubSeq(t, 0 + 1, n)) = n - 0
        /\ \A k \in 1 .. n - 0 : SubSeq(t, 0 + 1, n)[k] = t[0 + k]
    BY <1>1, PartOf
  <2>. QED
    BY <2>1, <2>2
<1> HIDE DEF x, y, z
<1>5. /\ x \o y \in Seq(Byte) /\ Len(x \o y) = n
      /\ \A k \in 1 .. n : (x \o y)[k] = IF k <= m THEN x[k] ELSE y[k - m]
  BY <1>1, <1>2, <1>3, ConcatProperties
<1>6. ASSUME NEW k \in 1 .. n PROVE (x \o y)[k] = z[k]
  <2>1. CASE k <= m
    <3>1. k \in 1 .. m
      BY <1>1, <2>1
    <3>. QED
      BY <1>2, <1>4, <1>5, <2>1, <3>1
  <2>2. CASE ~(k <= m)
    <3>1. k - m \in 1 .. n - m /\ m + (k - m) = k
      BY <1>1, <2>2
    <3>. QED
      BY <1>3, <1>4, <1>5, <2>2, <3>1
  <2>. QED
    BY <2>1, <2>2
<1>7. x \o y = z
  BY <1>1, <1>4, <1>5, <1>6, SeqEqual
<1>. QED
  BY <1>7 DEF x, y, z

---------------------------------------------------------------------------
(* The invariant *)

Vocabulary == {Unthink, Newline} \cup DOMAIN Spelling
Stops == {"Eos", "ImEnd", "RepetitionLoop", "MaxTokens", None}
Messages == [role : {"user", "image", "tools", "reply"}, n : Nat, stop : Stops, calls : Nat,
              mistral : BOOLEAN, nothink : BOOLEAN]

TypeOK ==
    /\ cfg \in Models
    /\ pc \in {"input", "reply", "decoded", "ended"}
    /\ kv \in {None} \cup Seq(Pieces)
    /\ think \in [max_tokens : Nat, in_think : BOOLEAN, count : Nat]
    /\ nothink \in BOOLEAN
    /\ DOMAIN reply = DOMAIN NoReply /\ reply.toks \in Seq(Vocabulary)
    /\ round \in Nat
    /\ conv \in Seq(Messages)

\* What the last message is, place by place in the program; how it ended is what
\* the next one asks (last_stop), and what it calls for is answered before the
\* program is back at the user.
LastMessage ==
    /\ pc = "ended" => conv = <<>>
    /\ pc \in {"input", "ended"} => reply.toks = <<>>
    /\ pc = "input" /\ conv # <<>> =>
           /\ conv[Len(conv)].role = "reply" /\ conv[Len(conv)].stop = last_stop
           /\ ~Answered(Len(conv))
    /\ pc = "reply" => conv # <<>> /\ conv[Len(conv)].role # "reply" /\ reply.toks # <<>>
    /\ pc = "decoded" => conv # <<>> /\ conv[Len(conv)] = Reply(reply, last_stop)
    /\ pc \in {"reply", "decoded"} => round = Rounds(Len(conv))

\* The budget is in a block when the reply is, and has counted its tokens.
InBlock ==
    /\ pc \in {"reply", "decoded"} => (think.in_think <=> \E i \in DOMAIN reply.toks : Open(i))
    /\ think.in_think =>
           \A i \in DOMAIN reply.toks : Open(i) => think.count = Len(reply.toks) - i

\* The cache holds every message as it is rendered, with thinking disabled or not.
Remembers ==
    /\ (kv = None) <=> (conv = <<>>)
    /\ kv # None => kv = FlattenSeq([i \in DOMAIN conv |-> Rendered(i)]) \o Fed

\* After a reply comes what answers the calls that were found in it, of any model.
AllAnswered ==
    \A i \in 1 .. Len(conv) - 1 :
        conv[i].role = "reply" =>
            IF Answered(i) THEN conv[i + 1].role = "tools" /\ conv[i + 1].n = conv[i].calls
            ELSE conv[i + 1].role = "user"

IInv == /\ TypeOK /\ LastMessage /\ InBlock
        /\ Remembers /\ ThinkBounded /\ AllAnswered

---------------------------------------------------------------------------
(* Replies *)

\* The tokens of a model are in the vocabulary, and so is what the budget forces.
LEMMA DrawnType == ASSUME TypeOK, NEW b, NEW t \in ApplyToLogits(b) PROVE t \in Vocabulary
<1>1. cfg.vocab \subseteq DOMAIN Spelling
  BY ChatAssumption DEF ChatAssumption, TypeOK
<1>. QED
  BY <1>1 DEF ApplyToLogits, Vocabulary

\* Printing changes no token of the reply.
LEMMA Shown ==
    ASSUME NEW r, NEW text, DOMAIN r = DOMAIN NoReply
    PROVE  DOMAIN Show(r, text) = DOMAIN NoReply /\ Show(r, text).toks = r.toks
BY DEF Show, NoReply

\* A reply has its fields.
LEMMA ReplyFields ==
    DOMAIN NoReply = {"toks", "muted", "text", "printed_len", "out"} /\ NoReply.toks = <<>>
BY DEF NoReply

\* A reply begins with one token, and the budget anew.
LEMMA Started ==
    ASSUME TypeOK, StartReply
    PROVE  /\ pc' = "reply" /\ DOMAIN reply' = DOMAIN NoReply
           /\ reply'.toks \in Seq(Vocabulary) /\ reply'.toks # <<>>
           /\ think' \in [max_tokens : Nat, in_think : BOOLEAN, count : Nat]
           /\ \E t \in Vocabulary : /\ reply'.toks = <<t>>
                                    /\ think'.in_think = (t = Think) /\ think'.count = 0
<1>1. pc' = "reply"
  BY DEF StartReply
<1>2. PICK t \in ApplyToLogits(Reset(think)) : /\ think' = Track(Reset(think), t)
                                               /\ reply' = FirstToken(t)
  BY DEF StartReply
<1>3. t \in Vocabulary
  BY DrawnType
<1>4. DOMAIN reply' = DOMAIN NoReply /\ reply'.toks = <<t>>
  <2> DEFINE r == [NoReply EXCEPT !.toks = <<t>>, !.muted = Mutes(t)]
  <2>1. DOMAIN r = DOMAIN NoReply /\ r.toks = <<t>>
    BY ReplyFields
  <2>2. reply' = IF r.muted THEN r ELSE Show(r, Decode(<<t>>))
    BY <1>2 DEF FirstToken
  <2> HIDE DEF r
  <2>3. DOMAIN Show(r, Decode(<<t>>)) = DOMAIN NoReply /\ Show(r, Decode(<<t>>)).toks = r.toks
    BY <2>1, Shown
  <2>. QED
    BY <2>1, <2>2, <2>3
<1>5. /\ think' \in [max_tokens : Nat, in_think : BOOLEAN, count : Nat]
      /\ think'.in_think = (t = Think) /\ think'.count = 0
  BY <1>2 DEF TypeOK, Track, Reset, Think, Unthink
<1>6. <<t>> \in Seq(Vocabulary) /\ <<t>> # <<>>
  BY <1>3
<1>. QED
  BY <1>1, <1>3, <1>4, <1>5, <1>6

\* One token more, which the budget counts; past the budget it is the end of the
\* block.
LEMMA Drawn ==
    ASSUME TypeOK, DecodeStep
    PROVE  /\ DOMAIN reply' = DOMAIN NoReply
           /\ reply'.toks \in Seq(Vocabulary) /\ reply'.toks # <<>>
           /\ think' \in [max_tokens : Nat, in_think : BOOLEAN, count : Nat]
           /\ think'.max_tokens = think.max_tokens
           /\ \E t \in Vocabulary :
                  /\ reply'.toks = Append(reply.toks, t)
                  /\ t \in {Think, Unthink} => think'.in_think = (t = Think) /\ think'.count = 0
                  /\ t \notin {Think, Unthink} =>
                        /\ think'.in_think = think.in_think
                        /\ think'.count = IF think.in_think THEN think.count + 1 ELSE think.count
                        /\ think.in_think /\ think.max_tokens > 0 =>
                              think.count + 1 <= think.max_tokens
<1>1. PICK t \in ApplyToLogits(think) : think' = Track(think, t) /\ reply' = NextToken(t)
  BY DEF DecodeStep
<1>2. t \in Vocabulary
  BY DrawnType
<1>3. DOMAIN reply' = DOMAIN NoReply /\ reply'.toks = Append(reply.toks, t)
  <2> DEFINE r == [reply EXCEPT !.toks = Append(@, t), !.muted = @ \/ Mutes(t)]
  <2>1. DOMAIN r = DOMAIN NoReply /\ r.toks = Append(reply.toks, t)
    BY ReplyFields DEF TypeOK
  <2>2. reply' = IF r.muted THEN r ELSE Show(r, Decode(r.toks))
    BY <1>1 DEF NextToken
  <2> HIDE DEF r
  <2>3. DOMAIN Show(r, Decode(r.toks)) = DOMAIN NoReply /\ Show(r, Decode(r.toks)).toks = r.toks
    BY <2>1, Shown
  <2>. QED
    BY <2>1, <2>2, <2>3
<1>4. /\ think' \in [max_tokens : Nat, in_think : BOOLEAN, count : Nat]
      /\ think'.max_tokens = think.max_tokens
      /\ t \in {Think, Unthink} => think'.in_think = (t = Think) /\ think'.count = 0
      /\ t \notin {Think, Unthink} =>
            /\ think'.in_think = think.in_think
            /\ think'.count = IF think.in_think THEN think.count + 1 ELSE think.count
  <2>1. CASE t \in {Think, Unthink}
    <3>1. think' = [think EXCEPT !.in_think = (t = Think), !.count = 0]
      BY <1>1, <2>1 DEF Track
    <3>. QED
      BY <2>1, <3>1 DEF TypeOK
  <2>2. CASE t \notin {Think, Unthink} /\ think.in_think
    <3>1. think' = [think EXCEPT !.count = @ + 1]
      BY <1>1, <2>2 DEF Track
    <3>2. think' \in [max_tokens : Nat, in_think : BOOLEAN, count : Nat]
      BY <3>1 DEF TypeOK
    <3>3. /\ think'.max_tokens = think.max_tokens /\ think'.count = think.count + 1
          /\ think'.in_think = think.in_think
      BY <3>1 DEF TypeOK
    <3>. QED
      BY <2>2, <3>2, <3>3
  <2>3. CASE t \notin {Think, Unthink} /\ ~think.in_think
    <3>1. think' = think
      BY <1>1, <2>3 DEF Track
    <3>. QED
      BY <2>3, <3>1 DEF TypeOK
  <2>. QED
    BY <2>1, <2>2, <2>3
<1>5. t \notin {Think, Unthink} /\ think.in_think /\ think.max_tokens > 0 =>
          think.count + 1 <= think.max_tokens
  BY DEF ApplyToLogits, TypeOK
<1>6. Append(reply.toks, t) \in Seq(Vocabulary) /\ Append(reply.toks, t) # <<>>
  BY <1>2, AppendProperties DEF TypeOK
<1>. QED
  BY <1>1, <1>2, <1>3, <1>4, <1>5, <1>6

\* The end of a reply changes no token of it.
LEMMA Ended ==
    ASSUME TypeOK, EndReply
    PROVE  DOMAIN reply' = DOMAIN NoReply /\ reply'.toks = reply.toks
<1>1. DOMAIN Flush(reply) = DOMAIN NoReply /\ Flush(reply).toks = reply.toks
  BY DEF Flush, TypeOK, NoReply
<1>2. reply' = reply \/ reply' = Flush(reply)
  BY DEF EndReply
<1>. QED
  BY <1>1, <1>2 DEF TypeOK

\* Why a reply ends.
LEMMA StopType == ASSUME NEW toks PROVE StopReason(toks) \in Stops
BY Zenon DEF StopReason, Stops

\* A reply as a message.
LEMMA ReplyType ==
    ASSUME TypeOK, NEW stop \in Stops
    PROVE  /\ Reply(reply, stop) \in Messages
           /\ Reply(reply, stop).role = "reply" /\ Reply(reply, stop).stop = stop
           /\ Reply(reply, stop).n = Len(reply.toks)
           /\ Reply(reply, stop).calls = Calls(reply.toks)
<1>1. Len(reply.toks) \in Nat /\ Calls(reply.toks) \in Nat
  BY LenProperties, CallsType DEF TypeOK
<1>2. nothink \in BOOLEAN /\ (cfg.mistral \in ToSet(reply.toks)) \in BOOLEAN
  BY DEF TypeOK
<1>. QED
  BY <1>1, <1>2 DEF Reply, Messages

\* The other messages.
LEMMA MessageType ==
    ASSUME TypeOK, NEW role \in {"user", "image", "tools"}, NEW n \in Nat
    PROVE  /\ Message(role, n) \in Messages
           /\ Message(role, n).role = role /\ Message(role, n).n = n
BY DEF Message, Messages, Stops, TypeOK

---------------------------------------------------------------------------
(* The pieces of a cache *)

\* A piece many times.
LEMMA Repeated ==
    ASSUME NEW n \in Nat, NEW x \in Pieces
    PROVE  [i \in 1 .. n |-> x] \in Seq(Pieces)
OBVIOUS

\* Places of a reply.
LEMMA Placed ==
    ASSUME NEW n \in Nat
    PROVE  [i \in 1 .. n - 1 |-> i] \in Seq(Pieces)
<1>1. CASE n = 0
  <2>1. [i \in 1 .. n - 1 |-> i] = <<>>
    BY <1>1
  <2>. QED
    BY <2>1, EmptySeq
<1>2. CASE n # 0
  BY <1>2 DEF Pieces
<1>. QED
  BY <1>1, <1>2

\* A prompt.
LEMMA BuildPromptType ==
    ASSUME NEW images \in Nat
    PROVE  BuildPrompt(images) \in Seq(Pieces)
<1>1. /\ <<>> \in Seq(Pieces) /\ <<"<s>">> \in Seq(Pieces) /\ <<"system">> \in Seq(Pieces)
      /\ <<"[INST]">> \in Seq(Pieces) /\ <<"user", "assistant">> \in Seq(Pieces)
  BY DEF Pieces
<1>2. /\ [i \in 1 .. images |-> "[IMG]"] \in Seq(Pieces)
      /\ [i \in 1 .. images |-> "vision"] \in Seq(Pieces)
  BY Repeated DEF Pieces
<1>. QED
  BY <1>1, <1>2, ConcatProperties DEF BuildPrompt

\* A turn.
LEMMA FormatTurnType ==
    ASSUME NEW b
    PROVE  FormatTurnTokens(b) \in Seq(Pieces)
<1>1. <<>> \in Seq(Pieces) /\ <<ImEnd>> \in Seq(Pieces) /\ <<"user", "assistant">> \in Seq(Pieces)
  BY DEF Pieces, ImEnd
<1>. QED
  BY <1>1, ConcatProperties DEF FormatTurnTokens

\* The results of tools.
LEMMA FormatToolType ==
    ASSUME NEW n \in Nat
    PROVE  FormatToolResponse(n) \in Seq(Pieces)
<1>1. <<ImEnd>> \in Seq(Pieces) /\ <<"assistant">> \in Seq(Pieces)
  BY DEF Pieces, ImEnd
<1>2. [i \in 1 .. n |-> "tool_response"] \in Seq(Pieces)
  BY Repeated DEF Pieces
<1>. QED
  BY <1>1, <1>2, ConcatProperties DEF FormatToolResponse

\* Any message is rendered to pieces.
LEMMA RenderedType ==
    ASSUME TypeOK, NEW i \in 1 .. Len(conv)
    PROVE  Rendered(i) \in Seq(Pieces)
<1>1. conv[i].n \in Nat
  <2>1. conv \in Seq(Messages)
    BY DEF TypeOK
  <2>2. conv[i] \in Messages
    BY <2>1, ElementOfSeq
  <2>. QED
    BY <2>2 DEF Messages
<1>2. [j \in 1 .. conv[i].n - 1 |-> j] \in Seq(Pieces)
  BY <1>1, Placed
<1>3. /\ BuildPrompt(1) \in Seq(Pieces) /\ BuildPrompt(0) \in Seq(Pieces)
      /\ FormatToolResponse(conv[i].n) \in Seq(Pieces)
      /\ FormatTurnTokens(conv[i - 1].stop \in {"MaxTokens", "RepetitionLoop"}) \in Seq(Pieces)
  BY <1>1, BuildPromptType, FormatToolType, FormatTurnType
<1>. QED
  BY <1>2, <1>3 DEF Rendered

---------------------------------------------------------------------------
(* Rounds of tools, and blocks *)

\* Rounds, of any messages.
RoundsIn(c, i) == Cardinality({j \in 1 .. i : /\ c[j].role = "tools"
                                             /\ \A k \in j .. i : c[k].role # "user"})

\* The rounds as of a message depend on no later one.
LEMMA RoundsSame ==
    ASSUME NEW c, NEW d, NEW i, \A j \in 1 .. i : c[j] = d[j]
    PROVE  RoundsIn(c, i) = RoundsIn(d, i)
<1> DEFINE T(b) == {j \in 1 .. i : b[j].role = "tools" /\ \A k \in j .. i : b[k].role # "user"}
<1>1. ASSUME NEW j \in 1 .. i PROVE j .. i \subseteq 1 .. i
  OBVIOUS
<1>2. T(c) = T(d)
  BY <1>1
<1>. QED
  BY <1>2 DEF RoundsIn

\* The user begins them anew.
LEMMA RoundsUser ==
    ASSUME NEW c, NEW i \in Nat, c[i].role = "user"
    PROVE  RoundsIn(c, i) = 0
<1> DEFINE T == {j \in 1 .. i : c[j].role = "tools" /\ \A k \in j .. i : c[k].role # "user"}
<1>1. T = {}
  <2>1. \A j \in 1 .. i : i \in j .. i
    OBVIOUS
  <2>. QED
    BY <2>1
<1>. QED
  BY <1>1, FS_EmptySet DEF RoundsIn

\* Results are one more; what is neither does not count.
LEMMA RoundsNext ==
    ASSUME NEW c, NEW i \in Nat
    PROVE  /\ RoundsIn(c, i) \in Nat
           /\ c[i + 1].role = "tools" => RoundsIn(c, i + 1) = RoundsIn(c, i) + 1
           /\ c[i + 1].role \in {"reply", "image"} => RoundsIn(c, i + 1) = RoundsIn(c, i)
<1> DEFINE T(n) == {j \in 1 .. n : c[j].role = "tools" /\ \A k \in j .. n : c[k].role # "user"}
<1>1. IsFiniteSet(T(i)) /\ i + 1 \notin T(i)
  <2>1. T(i) \subseteq 1 .. i /\ IsFiniteSet(1 .. i)
    BY FS_Interval
  <2>. QED
    BY <2>1, FS_Subset
<1>2. RoundsIn(c, i) = Cardinality(T(i)) /\ RoundsIn(c, i + 1) = Cardinality(T(i + 1))
  BY DEF RoundsIn
<1>3. c[i + 1].role # "user" =>
          \A j \in 1 .. i : (\A k \in j .. i + 1 : c[k].role # "user")
                         <=> (\A k \in j .. i : c[k].role # "user")
  <2>1. \A j \in 1 .. i : j .. i + 1 = (j .. i) \cup {i + 1}
    OBVIOUS
  <2>. QED
    BY <2>1
<1>4. 1 .. i + 1 = (1 .. i) \cup {i + 1} /\ i + 1 .. i + 1 = {i + 1} /\ i + 1 \notin 1 .. i
  OBVIOUS
<1>5. ASSUME c[i + 1].role = "tools" PROVE T(i + 1) = T(i) \cup {i + 1}
  BY <1>3, <1>4, <1>5
<1>6. ASSUME c[i + 1].role \in {"reply", "image"} PROVE T(i + 1) = T(i)
  BY <1>3, <1>4, <1>6
<1> HIDE DEF T
<1>7. Cardinality(T(i)) \in Nat /\ Cardinality(T(i) \cup {i + 1}) = Cardinality(T(i)) + 1
  BY <1>1, FS_CardinalityType, FS_AddElement
<1>. QED
  BY <1>2, <1>5, <1>6, <1>7

\* Open, of any tokens.
OpenIn(toks, i) == /\ toks[i] = Think
                   /\ \A j \in i + 1 .. Len(toks) : toks[j] \notin {Think, Unthink}

\* What one token more does to the blocks.
LEMMA OpenNext ==
    ASSUME NEW V, NEW toks \in Seq(V), NEW t \in V, NEW i \in 1 .. Len(toks) + 1
    PROVE  /\ t = Think => (OpenIn(Append(toks, t), i) <=> i = Len(toks) + 1)
           /\ t = Unthink => ~OpenIn(Append(toks, t), i)
           /\ t \notin {Think, Unthink} =>
                 (OpenIn(Append(toks, t), i) <=> i \in 1 .. Len(toks) /\ OpenIn(toks, i))
<1> DEFINE d == Append(toks, t)
           n == Len(toks)
<1>1. n \in Nat /\ Len(d) = n + 1 /\ d[n + 1] = t /\ \A j \in 1 .. n : d[j] = toks[j]
  BY AppendProperties, LenProperties
<1> HIDE DEF d, n
<1>2. CASE i = n + 1
  <2>1. OpenIn(d, i) <=> t = Think
    BY <1>1, <1>2 DEF OpenIn
  <2>2. Think # Unthink /\ i \notin 1 .. n
    BY <1>1, <1>2 DEF Think, Unthink
  <2>. QED
    BY <1>2, <2>1, <2>2 DEF d, n
<1>3. CASE i # n + 1
  <2>1. i \in 1 .. n /\ i + 1 .. n + 1 = (i + 1 .. n) \cup {n + 1}
    BY <1>1, <1>3 DEF n
  <2>2. OpenIn(d, i) <=> OpenIn(toks, i) /\ t \notin {Think, Unthink}
    <3>1. \A j \in i + 1 .. n : d[j] = toks[j]
      BY <1>1, <2>1
    <3>2. d[i] = toks[i]
      BY <1>1, <2>1
    <3>3. (\A j \in i + 1 .. n + 1 : d[j] \notin {Think, Unthink})
             <=> /\ \A j \in i + 1 .. n : toks[j] \notin {Think, Unthink}
                 /\ t \notin {Think, Unthink}
      BY <1>1, <2>1, <3>1
    <3>. QED
      BY <1>1, <3>2, <3>3 DEF OpenIn, n
  <2>. QED
    BY <1>3, <2>1, <2>2 DEF d, n
<1>. QED
  BY <1>2, <1>3

---------------------------------------------------------------------------
(* The initial states *)

\* Nothing is in the cache, and nothing has been said.
THEOREM InitIInv == Init => IInv
<1> SUFFICES ASSUME Init PROVE IInv
  OBVIOUS
<1>1. conv = <<>> /\ kv = None /\ pc = "input" /\ reply.toks = <<>> /\ Len(<<>>) = 0
  BY ReplyFields DEF Init
<1>2. TypeOK
  <2>1. think \in [max_tokens : Nat, in_think : BOOLEAN, count : Nat] /\ ~think.in_think
    BY ChatAssumption DEF ChatAssumption, Init
  <2>2. <<>> \in Seq(Vocabulary) /\ <<>> \in Seq(Messages)
    BY EmptySeq
  <2>. QED
    BY <1>1, <2>1, <2>2 DEF TypeOK, Init
<1>3. LastMessage
  BY <1>1 DEF LastMessage
<1>4. InBlock
  <2>1. ~think.in_think
    BY DEF Init
  <2>. QED
    BY <1>1, <2>1 DEF InBlock
<1>5. Remembers
  BY <1>1 DEF Remembers
<1>6. ThinkBounded
  BY <1>1 DEF ThinkBounded
<1>7. AllAnswered
  BY <1>1 DEF AllAnswered
<1>. QED
  BY <1>2, <1>3, <1>4, <1>5, <1>6, <1>7 DEF IInv

---------------------------------------------------------------------------
(* What the actions have in common *)

\* Commands that change neither the cache nor the conversation.
Settings == ThinkCommand \/ NoThink \/ ImageCommand

\* They are given while no reply is under way, and leave the budget where it was.
LEMMA SettingsIs ==
    ASSUME TypeOK, Settings
    PROVE  /\ pc = "input" /\ UNCHANGED <<cfg, pc, kv, last_stop, reply, round, conv>>
           /\ think' \in [max_tokens : Nat, in_think : BOOLEAN, count : Nat]
           /\ nothink' \in BOOLEAN
           /\ think'.in_think = think.in_think /\ think'.count = think.count
<1>1. CASE ThinkCommand
  <2>1. cfg.budgets \subseteq Nat
    BY ChatAssumption DEF ChatAssumption, TypeOK
  <2>2. PICK n \in cfg.budgets : think' = SetMaxTokens(think, n)
    BY <1>1 DEF ThinkCommand
  <2>. QED
    BY <1>1, <2>1, <2>2 DEF ThinkCommand, SetMaxTokens, TypeOK
<1>2. CASE NoThink
  BY <1>2 DEF NoThink, SetMaxTokens, TypeOK
<1>3. CASE ImageCommand
  BY <1>3 DEF ImageCommand, TypeOK
<1>. QED
  BY <1>1, <1>2, <1>3 DEF Settings

\* Every step, with the ends together.
LEMMA Steps ==
    ASSUME [Next]_vars
    PROVE  \/ Clear \/ Settings \/ AskVision \/ AskText \/ DecodeStep \/ EndReply
           \/ ToolRound \/ NextInput \/ End \/ UNCHANGED vars
BY DEF Next, Settings, AskVisionFails, ToolPanics, Ends

\* While a conversation is on there is a cache.
LEMMA CacheThere ==
    ASSUME IInv, conv # <<>>
    PROVE  kv \in Seq(Pieces)
BY DEF IInv, TypeOK, Remembers

\* What a step leaves has its types: one case per action.
LEMMA TypeStep ==
    ASSUME IInv, [Next]_vars
    PROVE  TypeOK'
<1> USE DEF IInv
<1>1. CASE Clear
  BY <1>1, EmptySeq DEF Clear, TypeOK
<1>2. CASE Settings
  BY <1>2, SettingsIs DEF TypeOK
<1>3. CASE AskVision
  <2>1. kv' \in Seq(Pieces)
    BY <1>3, BuildPromptType DEF AskVision
  <2>2. conv' \in Seq(Messages)
    BY <1>3, MessageType DEF AskVision
  <2>3. reply'.toks \in Seq(Vocabulary)
    BY <1>3, Started DEF AskVision
  <2>. QED
    BY <1>3, <2>1, <2>2, <2>3, Started DEF AskVision, TypeOK
<1>4. CASE AskText
  <2>1. kv' \in Seq(Pieces)
    <3>1. CASE kv = None
      BY <1>4, <3>1, BuildPromptType DEF AskText
    <3>2. CASE kv # None
      BY <1>4, <3>2, FormatTurnType, ConcatProperties DEF AskText, TypeOK
    <3>. QED
      BY <3>1, <3>2
  <2>2. conv' \in Seq(Messages)
    BY <1>4, MessageType, AppendProperties DEF AskText, TypeOK
  <2>3. reply'.toks \in Seq(Vocabulary)
    BY <1>4, Started DEF AskText
  <2>. QED
    BY <1>4, <2>1, <2>2, <2>3, Started DEF AskText, TypeOK
<1>5. CASE DecodeStep
  <2>1. kv' \in Seq(Pieces)
    <3>1. kv \in Seq(Pieces)
      BY <1>5, CacheThere DEF DecodeStep, LastMessage
    <3>2. Len(reply.toks) \in Pieces
      BY LenProperties DEF TypeOK, Pieces
    <3>. QED
      BY <1>5, <3>1, <3>2, AppendProperties DEF DecodeStep
  <2>2. reply'.toks \in Seq(Vocabulary)
    BY <1>5, Drawn
  <2>. QED
    BY <1>5, <2>1, <2>2, Drawn DEF DecodeStep, TypeOK
<1>6. CASE EndReply
  <2>1. conv' \in Seq(Messages)
    BY <1>6, StopType, ReplyType, AppendProperties DEF EndReply, TypeOK
  <2>. QED
    BY <1>6, <2>1, Ended DEF EndReply, TypeOK
<1>7. CASE ToolRound
  <2>1. Calls(reply.toks) \in Nat
    BY CallsType DEF TypeOK
  <2>2. kv' \in Seq(Pieces)
    <3>1. kv \in Seq(Pieces)
      BY <1>7, CacheThere DEF ToolRound, WantsTools, LastMessage
    <3>. QED
      BY <1>7, <2>1, <3>1, FormatToolType, ConcatProperties DEF ToolRound
  <2>3. conv' \in Seq(Messages)
    BY <1>7, <2>1, MessageType, AppendProperties DEF ToolRound, TypeOK
  <2>4. reply'.toks \in Seq(Vocabulary)
    BY <1>7, Started DEF ToolRound
  <2>. QED
    BY <1>7, <2>2, <2>3, <2>4, Started DEF ToolRound, TypeOK
<1>8. CASE NextInput
  BY <1>8, ReplyFields, EmptySeq DEF NextInput, TypeOK
<1>9. CASE End
  BY <1>9, ReplyFields, EmptySeq DEF End, TypeOK
<1>10. CASE UNCHANGED vars
  BY <1>10 DEF vars, TypeOK
<1>. QED
  BY <1>1, <1>2, <1>3, <1>4, <1>5, <1>6, <1>7, <1>8, <1>9, <1>10, Steps

---------------------------------------------------------------------------
(* The conversation *)

\* A message at the end of the conversation leaves the others as they were.
LEMMA ConvAppend ==
    ASSUME TypeOK, NEW x \in Messages, conv' = Append(conv, x), cfg' = cfg
    PROVE  /\ Len(conv) \in Nat /\ Len(conv') = Len(conv) + 1 /\ conv'[Len(conv) + 1] = x
           /\ conv' # <<>>
           /\ \A i \in 1 .. Len(conv) : conv'[i] = conv[i] /\ (Answered(i)' <=> Answered(i))
           /\ \A i \in 1 .. Len(conv) : Rounds(i)' = Rounds(i)
<1>1. /\ Len(conv) \in Nat /\ Len(conv') = Len(conv) + 1 /\ conv'[Len(conv) + 1] = x
      /\ \A i \in 1 .. Len(conv) : conv'[i] = conv[i]
  BY AppendProperties, LenProperties DEF TypeOK
<1>2. ASSUME NEW i \in 1 .. Len(conv) PROVE Rounds(i)' = Rounds(i)
  <2>1. RoundsIn(conv', i) = RoundsIn(conv, i)
    <3>1. \A j \in 1 .. i : conv'[j] = conv[j]
      BY <1>1
    <3>. QED
      BY <3>1, RoundsSame
  <2>. QED
    BY <2>1 DEF Rounds, RoundsIn
<1>3. ASSUME NEW i \in 1 .. Len(conv) PROVE Answered(i)' <=> Answered(i)
  BY <1>1, <1>2 DEF Answered
<1>4. conv' # <<>>
  BY <1>1
<1>. QED
  BY <1>1, <1>2, <1>3, <1>4

\* A reply as a message, before and after a step.
LEMMA ReplySame ==
    ASSUME cfg' = cfg, nothink' = nothink, reply'.toks = reply.toks
    PROVE  Reply(reply, last_stop)' = Reply(reply, last_stop')
<1>1. Calls(reply.toks)' = Calls(reply.toks)
  <2>1. ExtractToolCallsFromTokens(reply.toks)' = ExtractToolCallsFromTokens(reply.toks)
    BY DEF ExtractToolCallsFromTokens
  <2>. QED
    BY <2>1 DEF Calls
<1>. QED
  BY <1>1 DEF Reply

\* Rounds as of the last message, before and after a step.
LEMMA RoundsIs ==
    /\ Rounds(Len(conv)) = RoundsIn(conv, Len(conv))
    /\ Rounds(Len(conv))' = RoundsIn(conv', Len(conv'))
BY DEF Rounds, RoundsIn

\* The last message, after a step.
LEMMA LastStep ==
    ASSUME IInv, [Next]_vars
    PROVE  LastMessage'
<1> USE DEF IInv
<1>1. CASE Clear
  BY <1>1 DEF Clear, LastMessage
<1>2. CASE Settings
  BY <1>2, SettingsIs DEF LastMessage, Answered, Rounds
<1>3. CASE AskVision
  <2>1. /\ pc' = "reply" /\ conv' = <<Message("image", 0)>> /\ round' = 0 /\ reply'.toks # <<>>
    BY <1>3, Started DEF AskVision
  <2>2. Len(conv') = 1 /\ conv'[1].role = "image" /\ conv' # <<>>
    BY <2>1, MessageType
  <2>3. Rounds(Len(conv))' = 0
    <3>1. RoundsIn(conv', 0 + 1) = RoundsIn(conv', 0)
      BY <2>2, RoundsNext
    <3>2. RoundsIn(conv', 0) = 0
      BY FS_EmptySet DEF RoundsIn
    <3>. QED
      BY <2>2, <3>1, <3>2, RoundsIs
  <2>. QED
    BY <2>1, <2>2, <2>3 DEF LastMessage
<1>4. CASE AskText
  <2>1. /\ pc' = "reply" /\ conv' = Append(conv, Message("user", 0)) /\ round' = 0
        /\ reply'.toks # <<>> /\ cfg' = cfg
    BY <1>4, Started DEF AskText
  <2>2. /\ Len(conv) \in Nat /\ Len(conv') = Len(conv) + 1 /\ conv'[Len(conv) + 1].role = "user"
        /\ conv' # <<>>
    BY <2>1, MessageType, ConvAppend
  <2>3. Rounds(Len(conv))' = 0
    <3>1. RoundsIn(conv', Len(conv) + 1) = 0
      BY <2>2, RoundsUser
    <3>. QED
      BY <2>2, <3>1, RoundsIs
  <2>. QED
    BY <2>1, <2>2, <2>3 DEF LastMessage
<1>5. CASE DecodeStep
  <2>1. reply'.toks # <<>>
    BY <1>5, Drawn
  <2>. QED
    BY <1>5, <2>1 DEF DecodeStep, LastMessage, Rounds
<1>6. CASE EndReply
  <2> DEFINE x == Reply(reply, StopReason(reply.toks))
  <2>1. /\ pc = "reply" /\ pc' = "decoded" /\ conv' = Append(conv, x)
        /\ round' = round /\ cfg' = cfg /\ nothink' = nothink
        /\ last_stop' = StopReason(reply.toks) /\ reply'.toks = reply.toks
    BY <1>6, Ended DEF EndReply
  <2>2. x \in Messages /\ x.role = "reply"
    BY StopType, ReplyType
  <2>3. x = Reply(reply, last_stop)'
    BY <2>1, ReplySame
  <2> HIDE DEF x
  <2>4. /\ Len(conv) \in Nat /\ Len(conv') = Len(conv) + 1 /\ conv'[Len(conv) + 1] = x
        /\ conv' # <<>> /\ \A i \in 1 .. Len(conv) : Rounds(i)' = Rounds(i)
    BY <2>1, <2>2, ConvAppend
  <2>5. Rounds(Len(conv))' = Rounds(Len(conv))
    <3>1. RoundsIn(conv', Len(conv) + 1) = RoundsIn(conv', Len(conv))
      BY <2>2, <2>4, RoundsNext
    <3>2. \A j \in 1 .. Len(conv) : conv'[j] = conv[j]
      BY <2>1, <2>2, ConvAppend
    <3>3. RoundsIn(conv', Len(conv)) = RoundsIn(conv, Len(conv))
      BY <3>2, RoundsSame
    <3>. QED
      BY <2>4, <3>1, <3>3, RoundsIs
  <2>6. round' = Rounds(Len(conv))' /\ conv'[Len(conv')] = Reply(reply, last_stop)'
    BY <2>1, <2>3, <2>4, <2>5 DEF LastMessage
  <2>. QED
    BY <2>1, <2>4, <2>6 DEF LastMessage
<1>7. CASE ToolRound
  <2> DEFINE x == Message("tools", Calls(reply.toks))
  <2>1. /\ pc = "decoded" /\ pc' = "reply" /\ conv' = Append(conv, x) /\ round' = round + 1
        /\ reply'.toks # <<>> /\ cfg' = cfg
    BY <1>7, Started DEF ToolRound, WantsTools
  <2>2. x \in Messages /\ x.role = "tools"
    BY CallsType, MessageType DEF TypeOK
  <2> HIDE DEF x
  <2>3. /\ Len(conv) \in Nat /\ Len(conv') = Len(conv) + 1 /\ conv'[Len(conv) + 1] = x
        /\ conv' # <<>>
    BY <2>1, <2>2, ConvAppend
  <2>4. Rounds(Len(conv))' = Rounds(Len(conv)) + 1
    <3>1. RoundsIn(conv', Len(conv) + 1) = RoundsIn(conv', Len(conv)) + 1
      BY <2>2, <2>3, RoundsNext
    <3>2. \A j \in 1 .. Len(conv) : conv'[j] = conv[j]
      BY <2>1, <2>2, ConvAppend
    <3>3. RoundsIn(conv', Len(conv)) = RoundsIn(conv, Len(conv))
      BY <3>2, RoundsSame
    <3>. QED
      BY <2>3, <3>1, <3>3, RoundsIs
  <2>5. round = Rounds(Len(conv))
    BY <2>1 DEF LastMessage
  <2>. QED
    BY <2>1, <2>2, <2>3, <2>4, <2>5 DEF LastMessage
<1>8. CASE NextInput
  <2>1. /\ pc = "decoded" /\ pc' = "input" /\ ~WantsTools /\ reply'.toks = <<>>
        /\ UNCHANGED <<cfg, last_stop, round, conv>>
    BY <1>8, ReplyFields DEF NextInput
  <2>2. /\ conv[Len(conv)] = Reply(reply, last_stop) /\ round = Rounds(Len(conv))
    BY <2>1 DEF LastMessage
  <2>3. /\ conv[Len(conv)].role = "reply" /\ conv[Len(conv)].stop = last_stop
        /\ conv[Len(conv)].calls = Calls(reply.toks)
    BY <2>2 DEF Reply
  <2>4. ~Answered(Len(conv))
    BY <2>1, <2>2, <2>3 DEF Answered, WantsTools
  <2>5. ~Answered(Len(conv))'
    BY <2>1, <2>4 DEF Answered, Rounds
  <2>. QED
    BY <2>1, <2>3, <2>5 DEF LastMessage
<1>9. CASE End
  BY <1>9, ReplyFields DEF End, LastMessage
<1>10. CASE UNCHANGED vars
  <2>1. UNCHANGED <<cfg, pc, last_stop, nothink, reply, round, conv>>
    BY <1>10 DEF vars
  <2>2. (Answered(Len(conv))' <=> Answered(Len(conv))) /\ Rounds(Len(conv))' = Rounds(Len(conv))
    BY <2>1 DEF Answered, Rounds
  <2>3. pc' = "decoded" => conv'[Len(conv')] = Reply(reply, last_stop)'
    BY <2>1, ReplySame DEF LastMessage
  <2>. QED
    BY <2>1, <2>2, <2>3 DEF LastMessage
<1>. QED
  BY <1>1, <1>2, <1>3, <1>4, <1>5, <1>6, <1>7, <1>8, <1>9, <1>10, Steps

\* A message that is the answer to the last one, if that was a reply.
LEMMA AnswerAppend ==
    ASSUME TypeOK, AllAnswered, NEW x \in Messages, conv' = Append(conv, x), cfg' = cfg,
           conv # <<>> /\ conv[Len(conv)].role = "reply" =>
               IF Answered(Len(conv)) THEN x.role = "tools" /\ x.n = conv[Len(conv)].calls
               ELSE x.role = "user"
    PROVE  AllAnswered'
<1> SUFFICES ASSUME NEW i \in 1 .. Len(conv') - 1, conv'[i].role = "reply"
             PROVE  IF Answered(i)' THEN /\ conv'[i + 1].role = "tools"
                                         /\ conv'[i + 1].n = conv'[i].calls
                    ELSE conv'[i + 1].role = "user"
  BY DEF AllAnswered
<1>1. /\ Len(conv) \in Nat /\ Len(conv') = Len(conv) + 1 /\ conv'[Len(conv) + 1] = x
      /\ \A j \in 1 .. Len(conv) : conv'[j] = conv[j] /\ (Answered(j)' <=> Answered(j))
  BY ConvAppend
<1>2. i \in 1 .. Len(conv) /\ conv'[i] = conv[i] /\ (Answered(i)' <=> Answered(i))
  BY <1>1
<1>3. CASE i = Len(conv)
  <2>1. conv # <<>> /\ conv[Len(conv)].role = "reply"
    BY <1>1, <1>2, <1>3
  <2>. QED
    BY <1>1, <1>2, <1>3, <2>1
<1>4. CASE i # Len(conv)
  <2>1. i \in 1 .. Len(conv) - 1 /\ conv'[i + 1] = conv[i + 1] /\ conv[i].role = "reply"
    BY <1>1, <1>2, <1>4
  <2>2. IF Answered(i) THEN conv[i + 1].role = "tools" /\ conv[i + 1].n = conv[i].calls
        ELSE conv[i + 1].role = "user"
    BY <2>1 DEF AllAnswered
  <2>. QED
    BY <1>2, <2>1, <2>2
<1>. QED
  BY <1>3, <1>4

\* Nothing to answer.
LEMMA AnswerSame ==
    ASSUME AllAnswered, conv' = conv, cfg' = cfg
    PROVE  AllAnswered'
<1>1. \A i : Rounds(i)' = Rounds(i)
  BY DEF Rounds
<1>2. \A i : Answered(i)' <=> Answered(i)
  BY <1>1 DEF Answered
<1>. QED
  BY <1>2 DEF AllAnswered

\* Only the user and the tools speak after a reply, and each when it is their turn.
LEMMA AnswerStep ==
    ASSUME IInv, [Next]_vars
    PROVE  AllAnswered'
<1> USE DEF IInv
<1>1. CASE Clear \/ End
  <2>1. conv' = <<>>
    BY <1>1 DEF Clear, End
  <2>. QED
    BY <2>1 DEF AllAnswered
<1>2. CASE Settings \/ DecodeStep \/ NextInput \/ UNCHANGED vars
  <2>1. conv' = conv /\ cfg' = cfg
    BY <1>2, SettingsIs DEF DecodeStep, NextInput, vars
  <2>. QED
    BY <2>1, AnswerSame
<1>3. CASE AskVision
  <2>1. Len(conv') = 1
    BY <1>3 DEF AskVision
  <2>. QED
    BY <2>1 DEF AllAnswered
<1>4. CASE AskText
  <2>1. conv # <<>> => ~Answered(Len(conv))
    BY <1>4 DEF AskText, LastMessage
  <2>2. /\ conv' = Append(conv, Message("user", 0)) /\ cfg' = cfg
        /\ Message("user", 0) \in Messages /\ Message("user", 0).role = "user"
    BY <1>4, MessageType DEF AskText
  <2>. QED
    BY <2>1, <2>2, AnswerAppend
<1>5. CASE EndReply
  <2> DEFINE x == Reply(reply, StopReason(reply.toks))
  <2>1. conv' = Append(conv, x) /\ cfg' = cfg /\ conv[Len(conv)].role # "reply"
    BY <1>5 DEF EndReply, LastMessage
  <2>2. x \in Messages
    BY StopType, ReplyType
  <2> HIDE DEF x
  <2>. QED
    BY <2>1, <2>2, AnswerAppend
<1>6. CASE ToolRound
  <2> DEFINE x == Message("tools", Calls(reply.toks))
  <2>1. /\ conv' = Append(conv, x) /\ cfg' = cfg /\ WantsTools
    BY <1>6 DEF ToolRound
  <2>2. x \in Messages /\ x.role = "tools" /\ x.n = Calls(reply.toks)
    BY CallsType, MessageType DEF TypeOK
  <2>3. conv[Len(conv)] = Reply(reply, last_stop) /\ round = Rounds(Len(conv))
    BY <2>1 DEF WantsTools, LastMessage
  <2>4. conv[Len(conv)].stop = last_stop /\ conv[Len(conv)].calls = Calls(reply.toks)
    BY <2>3 DEF Reply
  <2>5. Answered(Len(conv)) /\ x.role = "tools" /\ x.n = conv[Len(conv)].calls
    BY <2>1, <2>2, <2>3, <2>4 DEF Answered, WantsTools
  <2> HIDE DEF x
  <2>. QED
    BY <2>1, <2>2, <2>5, AnswerAppend
<1>. QED
  BY <1>1, <1>2, <1>3, <1>4, <1>5, <1>6, Steps

---------------------------------------------------------------------------
(* The budget *)

\* No token, no block.
LEMMA NoBlock ==
    ASSUME reply'.toks = <<>>, pc' \notin {"reply", "decoded"}
    PROVE  InBlock' /\ ThinkBounded'
BY DEF InBlock, ThinkBounded

\* The first token.
LEMMA BlockStart ==
    ASSUME TypeOK, StartReply
    PROVE  InBlock' /\ ThinkBounded'
<1>1. /\ pc' = "reply" /\ think' \in [max_tokens : Nat, in_think : BOOLEAN, count : Nat]
  BY Started
<1>2. PICK t \in Vocabulary : /\ reply'.toks = <<t>>
                              /\ think'.in_think = (t = Think) /\ think'.count = 0
  BY Started
<1>3. DOMAIN reply'.toks = {1} /\ Len(reply'.toks) = 1 /\ reply'.toks[1] = t
  BY <1>2
<1>4. Open(1)' <=> t = Think
  BY <1>3 DEF Open
<1>5. InBlock'
  BY <1>1, <1>2, <1>3, <1>4 DEF InBlock
<1>6. ThinkBounded'
  BY <1>1, <1>3 DEF ThinkBounded
<1>. QED
  BY <1>5, <1>6

\* Another token: inside the block it counts, and there was room for it.
LEMMA BlockNext ==
    ASSUME IInv, DecodeStep
    PROVE  InBlock' /\ ThinkBounded'
<1> DEFINE n == Len(reply.toks)
<1>1. pc = "reply" /\ pc' = "reply"
  BY DEF DecodeStep
<1>2. PICK t \in Vocabulary :
          /\ reply'.toks = Append(reply.toks, t)
          /\ t \in {Think, Unthink} => think'.in_think = (t = Think) /\ think'.count = 0
          /\ t \notin {Think, Unthink} =>
                /\ think'.in_think = think.in_think
                /\ think'.count = IF think.in_think THEN think.count + 1 ELSE think.count
                /\ think.in_think /\ think.max_tokens > 0 =>
                      think.count + 1 <= think.max_tokens
  BY Drawn DEF IInv
<1>3. /\ think \in [max_tokens : Nat, in_think : BOOLEAN, count : Nat]
      /\ think' \in [max_tokens : Nat, in_think : BOOLEAN, count : Nat]
      /\ think'.max_tokens = think.max_tokens
  BY Drawn DEF IInv, TypeOK
<1>4. /\ n \in Nat /\ DOMAIN reply.toks = 1 .. n
      /\ DOMAIN reply'.toks = 1 .. n + 1 /\ Len(reply'.toks) = n + 1
  BY <1>2, AppendProperties, LenProperties DEF IInv, TypeOK
<1>5. /\ think.in_think <=> \E i \in 1 .. n : Open(i)
      /\ think.in_think => \A i \in 1 .. n : Open(i) => think.count = n - i
  BY <1>1, <1>4 DEF IInv, InBlock
<1>6. ASSUME NEW i \in 1 .. n + 1
      PROVE  /\ t = Think => (Open(i)' <=> i = n + 1)
             /\ t = Unthink => ~Open(i)'
             /\ t \notin {Think, Unthink} => (Open(i)' <=> i \in 1 .. n /\ Open(i))
  <2>1. /\ t = Think => (OpenIn(Append(reply.toks, t), i) <=> i = n + 1)
        /\ t = Unthink => ~OpenIn(Append(reply.toks, t), i)
        /\ t \notin {Think, Unthink} =>
              (OpenIn(Append(reply.toks, t), i) <=> i \in 1 .. n /\ OpenIn(reply.toks, i))
    BY OpenNext DEF IInv, TypeOK
  <2>2. (Open(i) <=> OpenIn(reply.toks, i)) /\ (Open(i)' <=> OpenIn(Append(reply.toks, t), i))
    BY <1>2 DEF Open, OpenIn
  <2>. QED
    BY <2>1, <2>2
<1> HIDE DEF n
<1>7. Think # Unthink
  BY DEF Think, Unthink
<1>8. CASE t = Think
  <2>1. think'.in_think /\ think'.count = 0 /\ \E i \in 1 .. n + 1 : Open(i)'
    <3>1. n + 1 \in 1 .. n + 1
      BY <1>4
    <3>2. \A i \in 1 .. n + 1 : Open(i)' <=> i = n + 1
      BY <1>6, <1>8
    <3>3. \E i \in 1 .. n + 1 : Open(i)'
      BY <3>1, <3>2
    <3>. QED
      BY <1>2, <1>8, <3>3
  <2>2. \A i \in 1 .. n + 1 : Open(i)' => n + 1 - i = 0
    BY <1>4, <1>6, <1>8
  <2>3. InBlock'
    BY <1>4, <2>1, <2>2 DEF InBlock
  <2>4. ThinkBounded'
    BY <1>3, <1>4, <2>2 DEF ThinkBounded
  <2>. QED
    BY <2>3, <2>4
<1>9. CASE t = Unthink
  <2>1. ~think'.in_think /\ \A i \in 1 .. n + 1 : ~Open(i)'
    BY <1>2, <1>6, <1>7, <1>9
  <2>2. InBlock'
    BY <1>4, <2>1 DEF InBlock
  <2>3. ThinkBounded'
    BY <1>4, <2>1 DEF ThinkBounded
  <2>. QED
    BY <2>2, <2>3
<1>10. CASE t \notin {Think, Unthink}
  <2>1. \A i \in 1 .. n + 1 : Open(i)' <=> i \in 1 .. n /\ Open(i)
    BY <1>6, <1>10
  <2>2. think'.in_think <=> \E i \in 1 .. n + 1 : Open(i)'
    BY <1>2, <1>4, <1>5, <1>10, <2>1
  <2>3. \A i \in 1 .. n + 1 : Open(i)' =>
            /\ think.in_think /\ think.count = n - i /\ think'.count = think.count + 1
            /\ think.max_tokens > 0 => think.count + 1 <= think.max_tokens
    BY <1>2, <1>5, <1>10, <2>1
  <2>4. \A i \in 1 .. n + 1 : Open(i)' => think'.count = n + 1 - i
    BY <1>4, <2>3
  <2>5. InBlock'
    BY <1>4, <2>2, <2>4 DEF InBlock
  <2>6. \A i \in 1 .. n + 1 : Open(i)' /\ think'.max_tokens > 0 => n + 1 - i <= think'.max_tokens
    BY <1>3, <1>4, <2>3
  <2>7. ThinkBounded'
    BY <1>4, <2>6 DEF ThinkBounded
  <2>. QED
    BY <2>5, <2>7
<1>. QED
  BY <1>8, <1>9, <1>10

\* The same tokens.
LEMMA BlockSame ==
    ASSUME IInv, reply'.toks = reply.toks, think' = think, pc \in {"reply", "decoded"} \/ pc' = pc
    PROVE  InBlock' /\ ThinkBounded'
<1>1. \A i : Open(i)' <=> Open(i)
  BY DEF Open
<1>. QED
  BY <1>1 DEF IInv, InBlock, ThinkBounded

\* The budget and the block, after a step.
LEMMA BlockStep ==
    ASSUME IInv, [Next]_vars
    PROVE  InBlock' /\ ThinkBounded'
<1> USE DEF IInv
<1>1. CASE Clear \/ Settings \/ NextInput \/ End
  <2>1. reply'.toks = <<>> /\ pc' \notin {"reply", "decoded"}
    BY <1>1, SettingsIs, ReplyFields DEF Clear, NextInput, End, LastMessage
  <2>. QED
    BY <2>1, NoBlock
<1>2. CASE AskVision \/ AskText \/ ToolRound
  BY <1>2, BlockStart DEF AskVision, AskText, ToolRound
<1>3. CASE DecodeStep
  BY <1>3, BlockNext
<1>4. CASE EndReply
  <2>1. reply'.toks = reply.toks /\ think' = think /\ pc = "reply"
    BY <1>4, Ended DEF EndReply
  <2>. QED
    BY <2>1, BlockSame
<1>5. CASE UNCHANGED vars
  <2>1. reply'.toks = reply.toks /\ think' = think /\ pc' = pc
    BY <1>5 DEF vars
  <2>. QED
    BY <2>1, BlockSame
<1>. QED
  BY <1>1, <1>2, <1>3, <1>4, <1>5, Steps

---------------------------------------------------------------------------
(* The cache *)

\* The messages as they are rendered.
Whole == [i \in DOMAIN conv |-> Rendered(i)]

\* They are sequences of pieces.
LEMMA WholeType == ASSUME TypeOK PROVE Whole \in Seq(Seq(Pieces))
<1>1. DOMAIN conv = 1 .. Len(conv) /\ Len(conv) \in Nat
  BY LenProperties DEF TypeOK
<1>2. \A i \in 1 .. Len(conv) : Rendered(i) \in Seq(Pieces)
  BY RenderedType
<1>. QED
  BY <1>1, <1>2 DEF Whole

\* No message, nothing.
LEMMA WholeNone == ASSUME conv = <<>> PROVE Whole = <<>> /\ FlattenSeq(Whole) = <<>>
<1>1. Whole = <<>>
  BY DEF Whole
<1>. QED
  BY <1>1, FlattenNone

\* A message at the end is rendered at the end.
LEMMA WholeAppend ==
    ASSUME TypeOK, NEW x \in Messages, conv' = Append(conv, x), cfg' = cfg,
           NEW X \in Seq(Pieces), NEW n \in Nat, n = Len(conv), Rendered(n + 1)' = X
    PROVE  FlattenSeq(Whole') = FlattenSeq(Whole) \o X
<1>1. /\ n \in Nat /\ DOMAIN conv = 1 .. n
      /\ DOMAIN conv' = 1 .. n + 1 /\ \A i \in 1 .. n : conv'[i] = conv[i]
  BY AppendProperties, LenProperties DEF TypeOK
<1>2. ASSUME NEW i \in 1 .. n PROVE Rendered(i)' = Rendered(i)
  <2>1. BuildPrompt(0)' = BuildPrompt(0) /\ BuildPrompt(1)' = BuildPrompt(1)
    BY DEF BuildPrompt
  <2>2. conv'[i] = conv[i] /\ (i # 1 => conv'[i - 1] = conv[i - 1])
    BY <1>1
  <2>. QED
    BY <2>1, <2>2 DEF Rendered
<1>3. Whole \in Seq(Seq(Pieces))
  BY WholeType
<1>4. DOMAIN Whole = 1 .. n /\ Len(Whole) = n /\ \A i \in 1 .. n : Whole[i] = Rendered(i)
  BY <1>1, <1>3, LenProperties DEF Whole
<1>5. Whole' = [i \in 1 .. n + 1 |-> Rendered(i)']
  BY <1>1 DEF Whole
<1>6. ASSUME NEW i \in 1 .. n + 1 PROVE Whole'[i] = Append(Whole, X)[i]
  <2>1. CASE i = n + 1
    <3>1. Whole'[i] = X
      BY <1>5, <2>1
    <3>2. Append(Whole, X)[i] = X
      BY <1>3, <1>4, <2>1, AppendProperties
    <3>. QED
      BY <3>1, <3>2
  <2>2. CASE i # n + 1
    <3>1. i \in 1 .. n
      BY <1>1, <2>2
    <3>2. Whole'[i] = Whole[i]
      BY <1>2, <1>4, <1>5, <3>1
    <3>3. Append(Whole, X)[i] = Whole[i]
      BY <1>3, <1>4, <3>1, AppendProperties
    <3>. QED
      BY <3>2, <3>3
  <2>. QED
    BY <2>1, <2>2
<1>7. Whole' = Append(Whole, X)
  <2>1. /\ Append(Whole, X) \in Seq(Seq(Pieces)) /\ Len(Append(Whole, X)) = n + 1
    BY <1>3, <1>4, AppendProperties
  <2>2. Append(Whole, X) = [i \in 1 .. n + 1 |-> Append(Whole, X)[i]]
    BY <2>1, LenProperties
  <2>3. Whole' = [i \in 1 .. n + 1 |-> Whole'[i]]
    BY <1>5
  <2>. QED
    BY <1>6, <2>2, <2>3
<1>. QED
  BY <1>3, <1>7, FlattenAppend

\* What the property says, of a conversation that is on.
LEMMA CacheIs ==
    ASSUME IInv, conv # <<>>
    PROVE  /\ kv \in Seq(Pieces) /\ kv = FlattenSeq(Whole) \o Fed
           /\ FlattenSeq(Whole) \in Seq(Pieces)
           /\ pc # "reply" => Fed = <<>> /\ kv = FlattenSeq(Whole)
<1>1. kv \in Seq(Pieces)
  BY CacheThere
<1>2. kv = FlattenSeq(Whole) \o Fed
  BY <1>1, ChatAssumption DEF IInv, Remembers, ChatAssumption, Whole
<1>3. FlattenSeq(Whole) \in Seq(Pieces)
  BY WholeType, FlattenType DEF IInv
<1>4. pc # "reply" => Fed = <<>>
  BY DEF Fed
<1>. QED
  BY <1>1, <1>2, <1>3, <1>4, ConcatEmptySeq

\* And how it is shown after a step.
LEMMA CacheIsNext ==
    ASSUME conv' # <<>>, kv' \in Seq(Pieces), kv' = FlattenSeq(Whole') \o Fed'
    PROVE  Remembers'
BY ChatAssumption DEF Remembers, ChatAssumption, Whole

\* A reply that begins has fed nothing of its own yet.
LEMMA FedNothing ==
    ASSUME TypeOK, StartReply
    PROVE  Fed' = <<>>
<1>1. Len(reply'.toks) = 1 /\ pc' = "reply"
  BY Started
<1>. QED
  BY <1>1 DEF Fed

\* A message with its prefill at the end of the cache.
LEMMA CacheAppend ==
    ASSUME IInv, NEW x \in Messages, conv' = Append(conv, x), cfg' = cfg, Fed' = <<>>,
           NEW X \in Seq(Pieces), NEW n \in Nat, n = Len(conv), Rendered(n + 1)' = X,
           kv' = FlattenSeq(Whole) \o X
    PROVE  Remembers'
<1>1. FlattenSeq(Whole') = FlattenSeq(Whole) \o X
  BY WholeAppend DEF IInv
<1>2. FlattenSeq(Whole) \in Seq(Pieces)
  BY WholeType, FlattenType DEF IInv
<1>3. FlattenSeq(Whole) \o X \in Seq(Pieces)
  BY <1>2, ConcatProperties
<1>4. kv' = FlattenSeq(Whole') \o Fed' /\ kv' \in Seq(Pieces)
  BY <1>1, <1>3, ConcatEmptySeq
<1>5. conv' # <<>>
  BY ConvAppend DEF IInv
<1>. QED
  BY <1>4, <1>5, CacheIsNext

\* The same messages.
LEMMA WholeSame == ASSUME conv' = conv, cfg' = cfg PROVE Whole' = Whole
<1>1. BuildPrompt(0)' = BuildPrompt(0) /\ BuildPrompt(1)' = BuildPrompt(1)
  BY DEF BuildPrompt
<1>2. \A i : Rendered(i)' = Rendered(i)
  BY <1>1 DEF Rendered
<1>. QED
  BY <1>2 DEF Whole

\* What a step appends to the cache is what it appends to the conversation.
LEMMA CacheStep ==
    ASSUME IInv, [Next]_vars
    PROVE  Remembers'
<1>1. PICK n \in Nat : n = Len(conv) /\ TypeOK
  BY LenProperties DEF IInv, TypeOK
<1>2. CASE Clear \/ End
  BY <1>2 DEF Clear, End, Remembers
<1>3. CASE Settings \/ NextInput \/ UNCHANGED vars
  <2>1. /\ conv' = conv /\ cfg' = cfg /\ kv' = kv
        /\ \/ pc' = pc /\ reply' = reply
           \/ pc # "reply" /\ pc' # "reply"
    BY <1>1, <1>3, SettingsIs DEF NextInput, vars
  <2>2. Whole' = Whole /\ Fed' = Fed
    BY <2>1, WholeSame DEF Fed
  <2>. QED
    BY <2>1, <2>2 DEF IInv, Remembers, Whole
<1>4. CASE AskVision
  <2>1. /\ conv' = <<Message("image", 0)>> /\ kv' = BuildPrompt(1) /\ cfg' = cfg /\ Fed' = <<>>
    BY <1>1, <1>4, FedNothing DEF AskVision
  <2>2. BuildPrompt(1) \in Seq(Pieces)
    BY BuildPromptType
  <2>3. Whole' = <<BuildPrompt(1)>>
    <3>1. DOMAIN conv' = {1} /\ conv'[1].role = "image"
      BY <1>1, <2>1, MessageType
    <3>2. BuildPrompt(1)' = BuildPrompt(1)
      BY <2>1 DEF BuildPrompt
    <3>3. Rendered(1)' = BuildPrompt(1)
      BY <3>1, <3>2 DEF Rendered
    <3>. QED
      BY <3>1, <3>3 DEF Whole
  <2>4. FlattenSeq(Whole') = BuildPrompt(1)
    <3>1. <<>> \in Seq(Seq(Pieces)) /\ Append(<<>>, BuildPrompt(1)) = <<BuildPrompt(1)>>
      BY EmptySeq
    <3>2. FlattenSeq(Append(<<>>, BuildPrompt(1))) = FlattenSeq(<<>>) \o BuildPrompt(1)
      BY <2>2, <3>1, FlattenAppend
    <3>. QED
      BY <2>2, <2>3, <3>1, <3>2, FlattenNone, ConcatEmptySeq
  <2>5. kv' = FlattenSeq(Whole') \o Fed' /\ conv' # <<>>
    BY <2>1, <2>2, <2>4, ConcatEmptySeq
  <2>. QED
    BY <2>1, <2>2, <2>5, CacheIsNext
<1>5. CASE AskText
  <2> DEFINE x == Message("user", 0)
             X == IF kv = None THEN BuildPrompt(0) ELSE FormatTurnTokens(NeedsImEndPrefix)
  <2>1. /\ pc = "input" /\ conv' = Append(conv, x) /\ cfg' = cfg /\ Fed' = <<>>
    BY <1>1, <1>5, FedNothing DEF AskText
  <2>2. x \in Messages /\ x.role = "user" /\ X \in Seq(Pieces)
    BY <1>1, MessageType, BuildPromptType, FormatTurnType
  <2>3. (kv = None) <=> (conv = <<>>)
    BY DEF IInv, Remembers
  <2>4. Rendered(n + 1)' = X /\ kv' = FlattenSeq(Whole) \o X
    <3> HIDE DEF x
    <3>1. conv'[n + 1] = x /\ \A i \in 1 .. n : conv'[i] = conv[i]
      BY <1>1, <2>1, <2>2, ConvAppend
    <3>2. CASE kv = None
      <4>1. n = 0 /\ FlattenSeq(Whole) = <<>>
        BY <1>1, <2>3, <3>2, WholeNone
      <4>2. BuildPrompt(0)' = BuildPrompt(0)
        BY <2>1 DEF BuildPrompt
      <4>3. kv' = X /\ X = BuildPrompt(0)
        BY <1>5, <3>2 DEF AskText
      <4>. QED
        BY <2>2, <3>1, <4>1, <4>2, <4>3, ConcatEmptySeq DEF Rendered
    <3>3. CASE kv # None
      <4>1. conv # <<>> /\ n \in 1 .. n /\ n + 1 # 1 /\ n + 1 - 1 = n
        BY <1>1, <2>3, <3>3, EmptySeq DEF TypeOK
      <4>2. conv'[n].stop = last_stop
        BY <1>1, <2>1, <3>1, <4>1 DEF IInv, LastMessage
      <4>3. Rendered(n + 1)' = FormatTurnTokens(conv'[n].stop \in {"MaxTokens", "RepetitionLoop"})
        BY <2>2, <3>1, <4>1 DEF Rendered
      <4>4. Rendered(n + 1)' = FormatTurnTokens(NeedsImEndPrefix)
        BY <4>2, <4>3 DEF NeedsImEndPrefix, FormatTurnTokens
      <4>5. kv' = kv \o FormatTurnTokens(NeedsImEndPrefix) /\ kv = FlattenSeq(Whole)
        BY <1>5, <2>1, <3>3, <4>1, CacheIs DEF AskText
      <4>. QED
        BY <3>3, <4>4, <4>5
    <3>. QED
      BY <3>2, <3>3
  <2> HIDE DEF x, X
  <2>. QED
    BY <1>1, <2>1, <2>2, <2>4, CacheAppend
<1>6. CASE DecodeStep
  <2> DEFINE k == Len(reply.toks)
  <2>1. /\ pc = "reply" /\ pc' = "reply" /\ conv' = conv /\ cfg' = cfg /\ kv' = Append(kv, k)
        /\ conv # <<>>
    BY <1>6 DEF DecodeStep, IInv, LastMessage
  <2>2. k \in Nat /\ Len(reply'.toks) = k + 1
    BY <1>1, <1>6, Drawn, AppendProperties, LenProperties DEF TypeOK
  <2> HIDE DEF k
  <2>3. Fed = [j \in 1 .. k - 1 |-> j] /\ Fed' = [j \in 1 .. k |-> j]
    BY <2>1, <2>2 DEF Fed, k
  <2>4. k # 0
    BY <2>1, EmptySeq DEF k, IInv, LastMessage, TypeOK
  <2>5. Fed \in Seq(Pieces) /\ k \in Pieces /\ Fed' = Append(Fed, k)
    <3>1. Fed \in Seq(Pieces) /\ k \in Pieces /\ Len(Fed) = k - 1
      BY <2>2, <2>3, <2>4, Placed DEF Pieces
    <3>2. Append(Fed, k) = [j \in 1 .. k |-> j]
      BY <2>2, <2>3, <2>4
    <3>. QED
      BY <2>3, <3>1, <3>2
  <2>6. kv = FlattenSeq(Whole) \o Fed /\ FlattenSeq(Whole) \in Seq(Pieces) /\ kv \in Seq(Pieces)
    BY <2>1, CacheIs
  <2>7. Append(FlattenSeq(Whole) \o Fed, k) = FlattenSeq(Whole) \o Append(Fed, k)
    <3>1. /\ \A y \in Seq(Pieces) : Append(y, k) = y \o <<k>>
          /\ <<k>> \in Seq(Pieces)
      BY <2>5
    <3>2. FlattenSeq(Whole) \o Fed \in Seq(Pieces)
      BY <2>5, <2>6, ConcatProperties
    <3>3. (FlattenSeq(Whole) \o Fed) \o <<k>> = FlattenSeq(Whole) \o (Fed \o <<k>>)
      BY <2>5, <2>6, <3>1, ConcatAssociative
    <3>. QED
      BY <2>5, <3>1, <3>2, <3>3
  <2>8. Whole' = Whole
    BY <2>1, WholeSame
  <2>9. kv' = FlattenSeq(Whole') \o Fed' /\ kv' \in Seq(Pieces)
    BY <2>1, <2>5, <2>6, <2>7, <2>8, AppendProperties
  <2>. QED
    BY <2>1, <2>9, CacheIsNext
<1>7. CASE EndReply
  <2> DEFINE x == Reply(reply, StopReason(reply.toks))
  <2>1. /\ pc = "reply" /\ pc' = "decoded" /\ conv' = Append(conv, x) /\ cfg' = cfg /\ kv' = kv
        /\ conv # <<>>
    BY <1>7 DEF EndReply, IInv, LastMessage
  <2>2. x \in Messages /\ x.role = "reply" /\ x.n = Len(reply.toks) /\ Len(reply.toks) \in Nat
    BY <1>1, StopType, ReplyType, LenProperties DEF TypeOK
  <2>3. Fed' = <<>> /\ Fed = [j \in 1 .. Len(reply.toks) - 1 |-> j]
    BY <2>1 DEF Fed
  <2>4. Fed \in Seq(Pieces)
    BY <2>2, <2>3, Placed
  <2>5. kv' = FlattenSeq(Whole) \o Fed
    BY <2>1, CacheIs
  <2> HIDE DEF x
  <2>6. Rendered(n + 1)' = Fed
    <3>1. conv'[n + 1] = x
      BY <1>1, <2>1, <2>2, ConvAppend
    <3>. QED
      BY <2>2, <2>3, <3>1 DEF Rendered
  <2>. QED
    BY <1>1, <2>1, <2>2, <2>3, <2>4, <2>5, <2>6, CacheAppend
<1>8. CASE ToolRound
  <2> DEFINE c == Calls(reply.toks)
             x == Message("tools", c)
             X == FormatToolResponse(c)
  <2>1. /\ pc = "decoded" /\ conv' = Append(conv, x) /\ cfg' = cfg /\ Fed' = <<>>
        /\ kv' = kv \o X /\ conv # <<>>
    BY <1>1, <1>8, FedNothing DEF ToolRound, WantsTools, IInv, LastMessage
  <2>2. c \in Nat
    BY <1>1, CallsType DEF TypeOK
  <2> HIDE DEF c
  <2>3. x \in Messages /\ x.role = "tools" /\ x.n = c /\ X \in Seq(Pieces)
    BY <1>1, <2>2, MessageType, FormatToolType
  <2>4. kv' = FlattenSeq(Whole) \o X
    BY <2>1, CacheIs
  <2> HIDE DEF x
  <2>5. Rendered(n + 1)' = X
    <3>1. conv'[n + 1] = x
      BY <1>1, <2>1, <2>3, ConvAppend
    <3>. QED
      BY <2>3, <3>1 DEF Rendered
  <2> HIDE DEF X
  <2>. QED
    BY <1>1, <2>1, <2>3, <2>4, <2>5, CacheAppend
<1>. QED
  BY <1>2, <1>3, <1>4, <1>5, <1>6, <1>7, <1>8, Steps

---------------------------------------------------------------------------
(* What is printed *)

\* The tokens of a reply up to the call of a tool.
Muting(toks) == {i \in DOMAIN toks : Mutes(toks[i])}
Heard(toks) == IF Muting(toks) = {} THEN toks ELSE SubSeq(toks, 1, Min(Muting(toks)) - 1)

\* A reply under way is silent after such a call, has the text before it, and has
\* printed what is safe of that.
Printed(r, s) == /\ r.text = s /\ r.printed_len = SafeLen(s)
                 /\ r.out = SubSeq(s, 1, SafeLen(s))
Sounds(r) == /\ r.muted <=> Muting(r.toks) # {}
             /\ Printed(r, Decode(Heard(r.toks)))

Printing == (pc = "reply" => Sounds(reply)) /\ PrintedOnce

\* Every token has its bytes, and one token more has more of them.
LEMMA BytesGrow ==
    ASSUME NEW toks \in Seq(Vocabulary), NEW t \in Vocabulary
    PROVE  /\ BytesOf(toks) \in Seq(Byte) /\ BytesOf(Append(toks, t)) \in Seq(Byte)
           /\ Begins(BytesOf(toks), BytesOf(Append(toks, t)))
<1> DEFINE s == [i \in DOMAIN toks |-> Spelling[toks[i]]]
           d == [i \in DOMAIN Append(toks, t) |-> Spelling[Append(toks, t)[i]]]
           n == Len(toks)
<1>1. \A x \in Vocabulary : Spelling[x] \in Seq(Byte)
  BY ChatAssumption DEF ChatAssumption, Vocabulary, Byte
<1>2. n \in Nat /\ DOMAIN toks = 1 .. n /\ \A i \in 1 .. n : toks[i] \in Vocabulary
  BY LenProperties, ElementOfSeq
<1>3. s \in Seq(Seq(Byte)) /\ Len(s) = n
  BY <1>1, <1>2
<1>4. /\ Append(toks, t) \in Seq(Vocabulary) /\ Len(Append(toks, t)) = n + 1
      /\ DOMAIN Append(toks, t) = 1 .. n + 1
      /\ Append(toks, t)[n + 1] = t /\ \A i \in 1 .. n : Append(toks, t)[i] = toks[i]
  BY <1>2, AppendProperties, LenProperties
<1>5. d \in Seq(Seq(Byte)) /\ Len(d) = n + 1
  <2>1. \A i \in 1 .. n + 1 : Append(toks, t)[i] \in Vocabulary
    BY <1>4, ElementOfSeq
  <2>2. \A i \in 1 .. n + 1 : Spelling[Append(toks, t)[i]] \in Seq(Byte)
    BY <1>1, <2>1
  <2>3. d = [i \in 1 .. n + 1 |-> Spelling[Append(toks, t)[i]]] /\ n + 1 \in Nat
    BY <1>2, <1>4
  <2>. QED
    BY <2>2, <2>3
<1>6. d = Append(s, Spelling[t])
  <2>1. Spelling[t] \in Seq(Byte)
    BY <1>1
  <2>2. /\ Append(s, Spelling[t]) \in Seq(Seq(Byte)) /\ Len(Append(s, Spelling[t])) = n + 1
        /\ Append(s, Spelling[t])[n + 1] = Spelling[t]
        /\ \A i \in 1 .. n : Append(s, Spelling[t])[i] = s[i]
    BY <1>3, <2>1, AppendProperties
  <2>3. ASSUME NEW i \in 1 .. n + 1 PROVE d[i] = Append(s, Spelling[t])[i]
    <3>1. CASE i \in 1 .. n
      BY <1>2, <1>4, <2>2, <3>1
    <3>2. CASE i = n + 1
      BY <1>2, <1>4, <2>2, <3>2
    <3>. QED
      BY <1>2, <3>1, <3>2
  <2> HIDE DEF d, s
  <2>. QED
    BY <1>5, <2>2, <2>3, SeqEqual
<1>7. BytesOf(toks) = FlattenSeq(s) /\ BytesOf(Append(toks, t)) = FlattenSeq(d)
  BY DEF BytesOf
<1> HIDE DEF d, s
<1>8. /\ FlattenSeq(s) \in Seq(Byte) /\ FlattenSeq(d) \in Seq(Byte)
      /\ FlattenSeq(d) = FlattenSeq(s) \o Spelling[t]
  BY <1>1, <1>3, <1>5, <1>6, FlattenType, FlattenAppend
<1>9. /\ Len(FlattenSeq(d)) >= Len(FlattenSeq(s))
      /\ \A k \in 1 .. Len(FlattenSeq(s)) : FlattenSeq(d)[k] = FlattenSeq(s)[k]
  <2>1. Spelling[t] \in Seq(Byte)
    BY <1>1
  <2>. QED
    BY <1>8, <2>1, PutAfter
<1>10. Len(FlattenSeq(s)) \in Nat /\ Len(FlattenSeq(d)) \in Nat
  BY <1>8, LenProperties
<1>. QED
  BY <1>7, <1>8, <1>9, <1>10 DEF Begins

\* Nothing is no text.
LEMMA DecodeNothing == Decode(<<>>) = <<>> /\ <<>> \in Seq(Byte) /\ SafeLen(<<>>) = 0
<1>1. BytesOf(<<>>) = <<>>
  <2>1. [i \in DOMAIN <<>> |-> Spelling[<<>>[i]]] = <<>>
    OBVIOUS
  <2>. QED
    BY <2>1, FlattenNone DEF BytesOf
<1>2. Chars(<<>>) = <<>>
  BY DEF Chars
<1>3. <<>> \in Seq(Byte) /\ Len(<<>>) = 0
  BY EmptySeq
<1>4. SafeLen(<<>>) \in 0 .. 0
  BY <1>3, SafeFacts
<1>. QED
  BY <1>1, <1>2, <1>3, <1>4, DecodeIs, FlattenNone

\* One token more is heard, unless a tool was called before it or it is a call.
LEMMA HeardNext ==
    ASSUME NEW V, NEW toks \in Seq(V), NEW t \in V
    PROVE  /\ Muting(toks) # {} => /\ Muting(Append(toks, t)) # {}
                                   /\ Heard(Append(toks, t)) = Heard(toks)
           /\ Muting(toks) = {} /\ Mutes(t) => /\ Muting(Append(toks, t)) # {}
                                               /\ Heard(Append(toks, t)) = toks
           /\ Muting(toks) = {} /\ ~Mutes(t) => /\ Muting(Append(toks, t)) = {}
                                                /\ Heard(Append(toks, t)) = Append(toks, t)
<1> DEFINE d == Append(toks, t)
           n == Len(toks)
<1>1. /\ n \in Nat /\ DOMAIN toks = 1 .. n /\ DOMAIN d = 1 .. n + 1
      /\ d \in Seq(V) /\ Len(d) = n + 1
      /\ d[n + 1] = t /\ \A i \in 1 .. n : d[i] = toks[i]
  BY AppendProperties, LenProperties
<1> HIDE DEF d
<1>2. Muting(d) = IF Mutes(t) THEN Muting(toks) \cup {n + 1} ELSE Muting(toks)
  BY <1>1 DEF Muting
<1>3. Muting(toks) \subseteq 1 .. n
  BY <1>1 DEF Muting
<1>4. ASSUME NEW m \in 0 .. n PROVE SubSeq(d, 1, m) = SubSeq(toks, 1, m)
  <2>1. \A i \in 1 .. m : d[i] = toks[i]
    BY <1>1
  <2>2. SubSeq(d, 1, m) = [i \in 1 .. m |-> d[i]] /\ SubSeq(toks, 1, m) = [i \in 1 .. m |-> toks[i]]
    BY <1>1
  <2>. QED
    BY <2>1, <2>2
<1>5. ASSUME Muting(toks) # {} PROVE Muting(d) # {} /\ Heard(d) = Heard(toks)
  <2>1. Muting(toks) \in SUBSET Nat /\ Min(Muting(toks)) \in Muting(toks)
    BY <1>1, <1>3, <1>5, MinIn
  <2>2. \A y \in Muting(toks) : Min(Muting(toks)) <= y
    BY <1>5, <2>1, MinIn
  <2>3. \A y \in Muting(d) : Min(Muting(toks)) <= y
    BY <1>1, <1>2, <1>3, <2>1, <2>2
  <2>4. Min(Muting(toks)) \in Muting(d) /\ Muting(d) \subseteq Nat
    BY <1>1, <1>2, <1>3, <2>1
  <2>5. Min(Muting(d)) = Min(Muting(toks))
    BY <2>3, <2>4, MinIs
  <2>6. Min(Muting(toks)) - 1 \in 0 .. n
    BY <1>1, <1>3, <2>1
  <2>7. SubSeq(d, 1, Min(Muting(toks)) - 1) = SubSeq(toks, 1, Min(Muting(toks)) - 1)
    BY <1>4, <2>6
  <2>. QED
    BY <1>5, <2>4, <2>5, <2>7 DEF Heard
<1>6. ASSUME Muting(toks) = {}, Mutes(t) PROVE Muting(d) # {} /\ Heard(d) = toks
  <2>1. Muting(d) = {n + 1}
    BY <1>2, <1>6
  <2>2. Min({n + 1}) = n + 1
    BY <1>1, MinIs
  <2>3. SubSeq(d, 1, n + 1 - 1) = SubSeq(toks, 1, n) /\ SubSeq(toks, 1, n) = toks
    <3>1. n \in 0 .. n /\ n + 1 - 1 = n
      BY <1>1
    <3>2. SubSeq(d, 1, n) = SubSeq(toks, 1, n)
      BY <1>4, <3>1
    <3>. QED
      BY <3>1, <3>2, SubSeqFull
  <2>4. Muting(d) # {} /\ Min(Muting(d)) = n + 1
    BY <2>1, <2>2
  <2>5. Heard(d) = SubSeq(d, 1, Min(Muting(d)) - 1)
    BY <2>4 DEF Heard
  <2>6. Heard(d) = SubSeq(d, 1, n + 1 - 1)
    BY <2>4, <2>5
  <2>7. Heard(d) = toks
    BY <2>3, <2>6
  <2>. QED
    BY <2>4, <2>7
<1>7. ASSUME Muting(toks) = {}, ~Mutes(t) PROVE Muting(d) = {} /\ Heard(d) = d
  BY <1>2, <1>7 DEF Heard
<1>. QED
  BY <1>5, <1>6, <1>7 DEF d

\* A text that goes on is shown from where it was left.
LEMMA ShowNext ==
    ASSUME NEW r, DOMAIN r = DOMAIN NoReply, NEW s \in Seq(Byte), NEW t \in Seq(Byte),
           Printed(r, s), Len(s) <= Len(t), Near(s, t)
    PROVE  Printed(Show(r, t), t) /\ Show(r, t).muted = r.muted
<1> DEFINE m == SafeLen(s)
           n == SafeLen(t)
           common == {k \in 0 .. Min({r.printed_len, Len(t)}) : SubSeq(t, 1, k) = SubSeq(r.text, 1, k)}
<1>1. Len(s) \in Nat /\ Len(t) \in Nat
  BY LenProperties
<1>2. m \in 0 .. Len(s) /\ n \in 0 .. Len(t) /\ (m # 0 => s[m] # 0)
      /\ \A k \in 1 .. Len(t) : t[k] # 0 => k <= n
  BY SafeFacts
<1> HIDE DEF m, n
<1>3. r.text = s /\ r.printed_len = m /\ r.out = SubSeq(s, 1, m)
  BY DEF Printed, m
<1>4. \A k \in 1 .. m : t[k] = s[k]
  <2> SUFFICES ASSUME NEW k \in 1 .. m, t[k] # s[k] PROVE FALSE
    OBVIOUS
  <2>1. k \in 1 .. Len(s)
    BY <1>1, <1>2
  <2>2. k = Len(s) /\ s[k] = 0
    BY <2>1 DEF Near
  <2>3. m = k
    BY <1>1, <1>2, <2>2
  <2>. QED
    BY <1>2, <2>1, <2>2, <2>3
<1>5. m <= n
  <2>1. CASE m = 0
    BY <1>1, <1>2, <2>1
  <2>2. CASE m # 0
    <3>1. m \in 1 .. m /\ m \in 1 .. Len(t)
      BY <1>1, <1>2, <2>2
    <3>2. t[m] # 0
      BY <1>2, <1>4, <2>2, <3>1
    <3>. QED
      BY <1>2, <3>1, <3>2
  <2>. QED
    BY <2>1, <2>2
<1>6. Max(common) = m
  <2>1. Min({m, Len(t)}) = m
    <3>1. m \in {m, Len(t)} /\ {m, Len(t)} \subseteq Nat /\ \A y \in {m, Len(t)} : m <= y
      BY <1>1, <1>2
    <3>. QED
      BY <3>1, MinIs
  <2>2. SubSeq(t, 1, m) = SubSeq(s, 1, m)
    <3>1. SubSeq(t, 1, m) = [i \in 1 .. m |-> t[i]] /\ SubSeq(s, 1, m) = [i \in 1 .. m |-> s[i]]
      BY <1>1, <1>2
    <3>. QED
      BY <1>4, <3>1
  <2>3. m \in common /\ \A k \in common : k \in Nat /\ m >= k
    <3>1. common = {k \in 0 .. m : SubSeq(t, 1, k) = SubSeq(s, 1, k)}
      BY <1>3, <2>1
    <3>2. m \in Nat /\ m \in 0 .. m /\ \A k \in 0 .. m : k \in Nat /\ m >= k
      BY <1>1, <1>2
    <3> HIDE DEF common
    <3>3. m \in common
      BY <2>2, <3>1, <3>2
    <3>. QED
      BY <3>1, <3>2, <3>3
  <2> HIDE DEF common
  <2>4. m \in Nat
    BY <1>1, <1>2
  <2>5. \A x \in common : (\A k \in common : x >= k) => x = m
    BY <2>3, <2>4
  <2>. QED
    BY <2>3, <2>5 DEF Max
<1>7. Show(r, t) = [r EXCEPT !.out = @ \o SubSeq(t, m + 1, n), !.printed_len = n, !.text = t]
  BY <1>6 DEF Show, n
<1>8. SubSeq(s, 1, m) \o SubSeq(t, m + 1, n) = SubSeq(t, 1, n)
  BY <1>2, <1>4, <1>5, PartsJoin
<1>9. /\ Show(r, t).text = t /\ Show(r, t).printed_len = n
      /\ Show(r, t).out = r.out \o SubSeq(t, m + 1, n) /\ Show(r, t).muted = r.muted
  BY <1>7, ReplyFields
<1>. QED
  BY <1>3, <1>8, <1>9 DEF Printed, n

\* One token more, and what there is of its text is shown.
LEMMA TokenSounds ==
    ASSUME NEW r, DOMAIN r = DOMAIN NoReply, r.toks \in Seq(Vocabulary), Sounds(r),
           NEW t \in Vocabulary, NEW q, DOMAIN q = DOMAIN NoReply,
           q.toks = Append(r.toks, t), q.muted <=> r.muted \/ Mutes(t),
           q.text = r.text, q.printed_len = r.printed_len, q.out = r.out
    PROVE  Sounds(IF q.muted THEN q ELSE Show(q, Decode(q.toks)))
<1> DEFINE toks == r.toks
           all == Append(toks, t)
<1>1. Printed(q, Decode(Heard(toks))) /\ (r.muted <=> Muting(toks) # {})
  BY DEF Sounds, Printed
<1>2. /\ Muting(toks) # {} => Muting(all) # {} /\ Heard(all) = Heard(toks)
      /\ Muting(toks) = {} /\ Mutes(t) => Muting(all) # {} /\ Heard(all) = toks
      /\ Muting(toks) = {} /\ ~Mutes(t) => Muting(all) = {} /\ Heard(all) = all
  BY HeardNext
<1>3. Muting(toks) = {} => Heard(toks) = toks
  BY DEF Heard
<1>4. q.toks = all
  OBVIOUS
<1>5. CASE q.muted
  <2>1. Muting(all) # {} /\ Heard(all) = Heard(toks)
    BY <1>1, <1>2, <1>3, <1>5
  <2> HIDE DEF all, toks
  <2>2. Sounds(q)
    BY <1>1, <1>4, <1>5, <2>1 DEF Sounds
  <2>. QED
    BY <1>5, <2>2
<1>6. CASE ~q.muted
  <2>1. Muting(toks) = {} /\ ~Mutes(t)
    BY <1>1, <1>6
  <2>2. Muting(all) = {} /\ Heard(all) = all /\ Heard(toks) = toks
    BY <1>2, <1>3, <2>1
  <2>3. /\ BytesOf(toks) \in Seq(Byte) /\ BytesOf(all) \in Seq(Byte)
        /\ Begins(BytesOf(toks), BytesOf(all))
    BY BytesGrow
  <2> HIDE DEF all, toks
  <2>4. Decode(toks) = FlattenSeq(Chars(BytesOf(toks))) /\ Decode(all) = FlattenSeq(Chars(BytesOf(all)))
    BY DecodeIs
  <2>5. /\ Decode(toks) \in Seq(Byte) /\ Decode(all) \in Seq(Byte)
        /\ Len(Decode(toks)) <= Len(Decode(all)) /\ Near(Decode(toks), Decode(all))
    BY <2>3, <2>4, TextGrows
  <2>6. Printed(q, Decode(toks))
    BY <1>1, <2>2
  <2>7. Printed(Show(q, Decode(all)), Decode(all)) /\ Show(q, Decode(all)).muted = q.muted
    BY <2>5, <2>6, ShowNext
  <2>8. Show(q, Decode(all)).toks = all
    BY <1>4, Shown
  <2>9. Sounds(Show(q, Decode(all)))
    BY <1>6, <2>2, <2>7, <2>8 DEF Sounds
  <2>. QED
    BY <1>4, <1>6, <2>9
<1>. QED
  BY <1>5, <1>6

\* A reply that makes its sounds has printed its text once.
LEMMA PrintedNext ==
    ASSUME cfg' = cfg, NEW r, reply' = r, pc' = "reply", Sounds(r)
    PROVE  Printing'
<1>1. Sounds(reply)'
  BY DEF Sounds, Printed, Heard, Muting, Mutes
<1>2. PrintedOnce'
  <2>1. reply'.out = SubSeq(Decode(Heard(r.toks)), 1, SafeLen(Decode(Heard(r.toks))))
    BY DEF Sounds, Printed
  <2>. QED
    BY <2>1 DEF PrintedOnce, Heard, Muting, Mutes
<1>. QED
  BY <1>1, <1>2 DEF Printing

\* The first token, and every other one.
LEMMA PrintStart ==
    ASSUME TypeOK, StartReply, cfg' = cfg
    PROVE  Printing'
<1>1. PICK t \in ApplyToLogits(Reset(think)) : reply' = FirstToken(t)
  BY DEF StartReply
<1>2. t \in Vocabulary
  BY DrawnType
<1> DEFINE r == NoReply
           q == [NoReply EXCEPT !.toks = <<t>>, !.muted = Mutes(t)]
<1>3. /\ DOMAIN r = DOMAIN NoReply /\ r.toks = <<>> /\ r.toks \in Seq(Vocabulary)
      /\ r.muted = FALSE /\ r.text = <<>> /\ r.printed_len = 0 /\ r.out = <<>>
  BY EmptySeq DEF NoReply
<1>4. Sounds(r)
  <2>1. Muting(<<>>) = {}
    BY DEF Muting
  <2>2. Heard(<<>>) = <<>>
    BY <2>1 DEF Heard
  <2>3. SubSeq(<<>>, 1, 0) = <<>>
    BY SubSeqEmpty
  <2>4. Printed(r, <<>>)
    BY <1>3, <2>3, DecodeNothing DEF Printed
  <2> HIDE DEF r
  <2>. QED
    BY <1>3, <2>1, <2>2, <2>4, DecodeNothing DEF Sounds
<1>5. /\ DOMAIN q = DOMAIN NoReply /\ q.toks = <<t>> /\ (q.muted <=> Mutes(t))
      /\ q.text = r.text /\ q.printed_len = r.printed_len /\ q.out = r.out
  BY ReplyFields
<1>6. Append(r.toks, t) = <<t>>
  BY <1>3
<1>7. FirstToken(t) = IF q.muted THEN q ELSE Show(q, Decode(<<t>>))
  BY DEF FirstToken
<1> HIDE DEF r, q
<1>8. q.toks = Append(r.toks, t) /\ (q.muted <=> r.muted \/ Mutes(t))
  BY <1>3, <1>5, <1>6
<1>9. Sounds(IF q.muted THEN q ELSE Show(q, Decode(q.toks)))
  BY <1>2, <1>3, <1>4, <1>5, <1>8, TokenSounds
<1>10. Sounds(FirstToken(t))
  BY <1>5, <1>7, <1>9
<1>11. pc' = "reply"
  BY DEF StartReply
<1>. QED
  BY <1>1, <1>10, <1>11, PrintedNext

\* The end of a reply: what was held back is printed, unless a tool was called. A
\* reply that is an end mark has no text.
LEMMA PrintEnd ==
    ASSUME TypeOK, Printing, EndReply
    PROVE  Printing'
<1> DEFINE toks == reply.toks
           text == Decode(Heard(toks))
<1>1. /\ Sounds(reply) /\ pc' = "decoded" /\ cfg' = cfg
      /\ reply' = IF Len(toks) = 1 /\ toks[1] \in {Eos, ImEnd} THEN reply ELSE Flush(reply)
  BY DEF Printing, EndReply
<1>2. toks \in Seq(Vocabulary) /\ DOMAIN reply = DOMAIN NoReply
  BY DEF TypeOK
<1>3. /\ reply.muted <=> Muting(toks) # {}
      /\ reply.text = text /\ reply.printed_len = SafeLen(text)
      /\ reply.out = SubSeq(text, 1, SafeLen(text))
  BY <1>1 DEF Sounds, Printed
<1>4. BytesOf(Heard(toks)) \in Seq(Byte) /\ text \in Seq(Byte)
  <2>1. Heard(toks) \in Seq(Vocabulary)
    <3>1. CASE Muting(toks) = {}
      BY <1>2, <3>1 DEF Heard
    <3>2. CASE Muting(toks) # {}
      <4>1. Muting(toks) \subseteq 1 .. Len(toks) /\ Len(toks) \in Nat
        BY <1>2, LenProperties DEF Muting
      <4>2. Min(Muting(toks)) \in 1 .. Len(toks)
        BY <3>2, <4>1, MinIn
      <4>3. \A i \in 1 .. Min(Muting(toks)) - 1 : toks[i] \in Vocabulary
        BY <1>2, <4>1, <4>2, ElementOfSeq
      <4>4. SubSeq(toks, 1, Min(Muting(toks)) - 1) \in Seq(Vocabulary)
        BY <4>1, <4>2, <4>3, SubSeqProperties
      <4>. QED
        BY <3>2, <4>4 DEF Heard
    <3>. QED
      BY <3>1, <3>2
  <2>2. Unthink \in Vocabulary
    BY DEF Vocabulary
  <2>3. BytesOf(Heard(toks)) \in Seq(Byte)
    BY <2>1, <2>2, BytesGrow
  <2>4. Chars(BytesOf(Heard(toks))) \in Seq(Seq(Byte))
    BY <2>3, CharsType
  <2>. QED
    BY <2>3, <2>4, DecodeIs, FlattenType
<1>5. reply'.toks = toks
  BY Ended
<1>6. CASE reply.muted
  <2>1. reply' = reply
    BY <1>1, <1>6 DEF Flush
  <2>2. Muting(toks) # {}
    BY <1>3, <1>6
  <2>3. reply'.out = SubSeq(text, 1, SafeLen(text))
    BY <1>3, <2>1
  <2>. QED
    BY <1>1, <1>5, <2>2, <2>3 DEF Printing, PrintedOnce, Heard, Muting, Mutes
<1>7. CASE ~reply.muted
  <2>1. Muting(toks) = {} /\ Heard(toks) = toks
    BY <1>3, <1>7 DEF Heard
  <2>2. reply'.out = text
    <3>1. CASE Len(toks) = 1 /\ toks[1] \in {Eos, ImEnd}
      <4>1. /\ Spelling[toks[1]] = <<>>
        BY <3>1, ChatAssumption DEF ChatAssumption
      <4>2. [i \in DOMAIN toks |-> Spelling[toks[i]]] = Append(<<>>, <<>>)
        <5>1. DOMAIN toks = {1}
          BY <1>2, <3>1, LenProperties
        <5>2. Append(<<>>, <<>>) = [i \in {1} |-> <<>>]
          OBVIOUS
        <5>. QED
          BY <4>1, <5>1, <5>2
      <4>3. /\ <<>> \in Seq(Seq(Byte)) /\ <<>> \in Seq(Byte)
            /\ FlattenSeq(Append(<<>>, <<>>)) = FlattenSeq(<<>>) \o <<>>
        BY FlattenAppend, EmptySeq
      <4>4. BytesOf(toks) = <<>>
        BY <4>2, <4>3, FlattenNone, ConcatEmptySeq DEF BytesOf
      <4>5. Chars(<<>>) = <<>>
        BY DEF Chars
      <4>6. text = <<>>
        BY <2>1, <4>4, <4>5, DecodeIs, FlattenNone
      <4>7. reply.out = <<>>
        BY <1>3, <4>6, DecodeNothing, SubSeqEmpty
      <4>. QED
        BY <1>1, <3>1, <4>6, <4>7
    <3>2. CASE ~(Len(toks) = 1 /\ toks[1] \in {Eos, ImEnd})
      <4>1. reply' = [reply EXCEPT !.out = @ \o SubSeq(reply.text, reply.printed_len + 1, Len(reply.text))]
        BY <1>1, <1>7, <3>2 DEF Flush
      <4>2. reply'.out = SubSeq(text, 1, SafeLen(text)) \o SubSeq(text, SafeLen(text) + 1, Len(text))
        BY <1>2, <1>3, <4>1, ReplyFields
      <4> HIDE DEF text
      <4>3. SafeLen(text) \in 0 .. Len(text) /\ Len(text) \in Nat
        BY <1>4, SafeFacts, LenProperties
      <4>4. Len(text) \in 0 .. Len(text) /\ SafeLen(text) <= Len(text)
        BY <4>3
      <4>5. SubSeq(text, 1, SafeLen(text)) \o SubSeq(text, SafeLen(text) + 1, Len(text))
              = SubSeq(text, 1, Len(text))
        BY <1>4, <4>3, <4>4, PartsJoin
      <4>6. SubSeq(text, 1, Len(text)) = text
        BY <1>4, SubSeqFull
      <4>. QED
        BY <4>2, <4>5, <4>6
    <3>. QED
      BY <3>1, <3>2
  <2>3. reply'.out = Decode(toks)
    BY <2>1, <2>2
  <2>. QED
    BY <1>1, <1>5, <2>1, <2>3 DEF Printing, PrintedOnce, Muting, Mutes
<1>. QED
  BY <1>6, <1>7

\* No step prints a character twice, or leaves one out: one case per action.
LEMMA PrintStep ==
    ASSUME TypeOK, Printing, [Next]_vars
    PROVE  Printing'
<1>1. ASSUME pc' \notin {"reply", "decoded"} PROVE Printing'
  BY <1>1 DEF Printing, PrintedOnce
<1>2. CASE Clear
  BY <1>1, <1>2 DEF Clear
<1>3. CASE Settings
  BY <1>1, <1>3, SettingsIs
<1>4. CASE AskVision
  BY <1>4, PrintStart DEF AskVision
<1>5. CASE AskText
  BY <1>5, PrintStart DEF AskText
<1>6. CASE DecodeStep
  <2>1. PICK t \in ApplyToLogits(think) : reply' = NextToken(t)
    BY <1>6 DEF DecodeStep
  <2>2. t \in Vocabulary
    BY DrawnType
  <2> DEFINE q == [reply EXCEPT !.toks = Append(@, t), !.muted = @ \/ Mutes(t)]
  <2>3. pc = "reply" /\ pc' = "reply" /\ cfg' = cfg
    BY <1>6 DEF DecodeStep
  <2>4. Sounds(reply) /\ DOMAIN reply = DOMAIN NoReply /\ reply.toks \in Seq(Vocabulary)
    BY <2>3 DEF Printing, TypeOK
  <2>5. /\ DOMAIN q = DOMAIN NoReply /\ q.toks = Append(reply.toks, t)
        /\ q.muted <=> reply.muted \/ Mutes(t)
        /\ q.text = reply.text /\ q.printed_len = reply.printed_len /\ q.out = reply.out
    BY <2>4, ReplyFields
  <2>6. NextToken(t) = IF q.muted THEN q ELSE Show(q, Decode(q.toks))
    BY DEF NextToken
  <2> HIDE DEF q
  <2>7. Sounds(IF q.muted THEN q ELSE Show(q, Decode(q.toks)))
    BY <2>2, <2>4, <2>5, TokenSounds
  <2>8. Sounds(NextToken(t))
    BY <2>6, <2>7
  <2>. QED
    BY <2>1, <2>3, <2>8, PrintedNext
<1>7. CASE EndReply
  BY <1>7, PrintEnd
<1>8. CASE ToolRound
  BY <1>8, PrintStart DEF ToolRound
<1>9. CASE NextInput
  BY <1>1, <1>9 DEF NextInput
<1>10. CASE End
  BY <1>1, <1>10 DEF End
<1>11. CASE UNCHANGED vars
  BY <1>11 DEF vars, Printing, PrintedOnce, Sounds, Printed, Heard, Muting, Mutes
<1>. QED
  BY <1>2, <1>3, <1>4, <1>5, <1>6, <1>7, <1>8, <1>9, <1>10, <1>11, Steps

---------------------------------------------------------------------------
(* Theorems *)

\* No step of the chat breaks the invariant.
THEOREM StepIInv == IInv /\ [Next]_vars => IInv'
BY TypeStep, LastStep, AnswerStep, BlockStep, CacheStep DEF IInv

\* So it holds in every state of every chat.
THEOREM Inductive == Spec => []IInv
<1>. QED
  BY InitIInv, StepIInv, PTL DEF Spec

\* Turn after turn the cache holds the conversation and nothing else, as long as
\* thinking was not disabled in it: every message once, in order, each reply but
\* for its last token, with the end marks it needs (run_chat).
THEOREM ChatRemembers == Spec => []CacheIsConversation
<1>1. IInv => CacheIsConversation
  BY DEF IInv, Remembers, CacheIsConversation
<1>. QED
  BY <1>1, Inductive, PTL

\* A think block never holds more tokens than ThinkBudget allows, whenever it opens.
THEOREM ThinkIsBounded == Spec => []ThinkBounded
<1>1. IInv => ThinkBounded
  BY DEF IInv
<1>. QED
  BY <1>1, Inductive, PTL

\* The replies that call for tools are answered before the user is, while the turn
\* has rounds left, and no others (run_chat); but for those of a Mistral model.
THEOREM ToolsAreAnswered == Spec => []ToolsAnswered
<1>1. IInv => ToolsAnswered
  BY DEF IInv, AllAnswered, ToolsAnswered
<1>. QED
  BY <1>1, Inductive, PTL

\* While a reply comes token by token, its text is printed once and whole, up to the
\* call of a tool: nothing twice, nothing left out, no character before its bytes
\* are all there, and at the end of the reply what was held back.
THEOREM RepliesArePrinted == Spec => []PrintedOnce
<1>1. Init => Printing
  BY DEF Init, Printing, PrintedOnce
<1>2. IInv /\ Printing /\ [Next]_vars => Printing'
  BY PrintStep DEF IInv
<1>3. Printing => PrintedOnce
  BY DEF Printing
<1>. QED
  BY <1>1, <1>2, <1>3, Inductive, PTL DEF Spec
=============================================================================
