--------------------------- MODULE ForwardPassProofs ---------------------------
(***************************************************************************)
(* Proofs about forward passes, for any network, prompt, chunk and text:   *)
(* what passes do to the caches of all layers is what KvCache does to one, *)
(* and the rows they give are those of a computation from scratch.         *)
(***************************************************************************)
EXTENDS ForwardPass, FiniteSetTheorems, FunctionTheorems, SequenceTheorems, WellFoundedInduction, TLAPS

---------------------------------------------------------------------------
(* Induction over the natural numbers, for a set instead of a predicate *)

Smaller == {p \in Nat \X Nat : p[1] < p[2]}

\* A set with 0 that has with every number the next one has them all: no number is
\* the smallest that is missing.
LEMMA SetInduction ==
    ASSUME NEW S, 0 \in S, \A n \in Nat : n \in S => n + 1 \in S
    PROVE  \A n \in Nat : n \in S
<1> DEFINE T == {n \in Nat : n \notin S}
<1> SUFFICES ASSUME T # {} PROVE FALSE
  OBVIOUS
<1>1. IsWellFoundedOn(Smaller, Nat)
  BY NatLessThanWellFounded DEF OpToRel, Smaller
<1>2. PICK n \in T : \A k \in T : ~(<<k, n>> \in Smaller)
  BY <1>1, WFMin
<1>3. n # 0 /\ n - 1 \in T
  OBVIOUS
<1>4. <<n - 1, n>> \in Smaller
  BY <1>3 DEF Smaller
<1>. QED
  BY <1>2, <1>3, <1>4

---------------------------------------------------------------------------
(* Sequences.  Rows are expressions of any depth, and there is no set of all of
   them: the lemmas are about sequences of whatever they hold. *)

IsSeq(s) == \E S : s \in Seq(S)

\* A sequence is a function from its places.
LEMMA SeqFacts ==
    ASSUME NEW s, IsSeq(s)
    PROVE  /\ Len(s) \in Nat /\ DOMAIN s = 1 .. Len(s)
           /\ s = [i \in 1 .. Len(s) |-> s[i]]
<1>1. PICK S : s \in Seq(S)
  BY DEF IsSeq
<1>. QED
  BY <1>1

\* A function from the first numbers is a sequence.
LEMMA FunSeq ==
    ASSUME NEW n \in Nat, NEW s, s = [i \in 1 .. n |-> s[i]]
    PROVE  IsSeq(s) /\ Len(s) = n /\ DOMAIN s = 1 .. n
<1> DEFINE S == {s[i] : i \in 1 .. n}
<1>1. s \in Seq(S) /\ Len(s) = n /\ DOMAIN s = 1 .. n
  <2>1. \A i \in 1 .. n : s[i] \in S
    OBVIOUS
  <2>2. s \in [1 .. n -> S]
    BY <2>1
  <2> HIDE DEF S
  <2>. QED
    BY <2>2
<1>. QED
  BY <1>1 DEF IsSeq

\* The empty sequence, and one of one.
LEMMA SmallSeqs ==
    /\ IsSeq(<<>>) /\ Len(<<>>) = 0
    /\ \A e : IsSeq(<<e>>) /\ Len(<<e>>) = 1 /\ <<e>>[1] = e
<1>1. <<>> \in Seq({}) /\ Len(<<>>) = 0
  BY EmptySeq
<1>2. ASSUME NEW e PROVE <<e>> \in Seq({e}) /\ Len(<<e>>) = 1 /\ <<e>>[1] = e
  OBVIOUS
<1>. QED
  BY <1>1, <1>2 DEF IsSeq

\* Sequences of one length with the same at each place are one.
LEMMA SameSeq ==
    ASSUME NEW s, NEW t, IsSeq(s), IsSeq(t), Len(s) = Len(t),
           \A i \in 1 .. Len(s) : s[i] = t[i]
    PROVE  s = t
<1>1. /\ s = [i \in 1 .. Len(s) |-> s[i]]
      /\ t = [i \in 1 .. Len(t) |-> t[i]]
  BY SeqFacts
<1>. QED
  BY <1>1

\* Only the empty sequence has no length.
LEMMA NoLength ==
    ASSUME NEW s, IsSeq(s)
    PROVE  s = <<>> <=> Len(s) = 0
<1>1. Len(s) = 0 => s = <<>>
  BY SmallSeqs, SameSeq
<1>. QED
  BY <1>1, SmallSeqs

\* One sequence after another.
LEMMA JoinFacts ==
    ASSUME NEW s, NEW t, IsSeq(s), IsSeq(t)
    PROVE  /\ IsSeq(s \o t) /\ Len(s \o t) = Len(s) + Len(t)
           /\ \A i \in 1 .. Len(s) : (s \o t)[i] = s[i]
           /\ \A i \in 1 .. Len(t) : (s \o t)[Len(s) + i] = t[i]
<1>1. PICK S : s \in Seq(S)
  BY DEF IsSeq
<1>2. PICK T : t \in Seq(T)
  BY DEF IsSeq
<1> DEFINE U == S \cup T
<1>3. s \in Seq(U)
  BY <1>1, SeqMonotonic
<1>4. t \in Seq(U)
  BY <1>2, SeqMonotonic
<1> HIDE DEF U
<1>5. /\ s \o t \in Seq(U) /\ Len(s \o t) = Len(s) + Len(t)
      /\ \A i \in 1 .. Len(s) + Len(t) : (s \o t)[i] = IF i <= Len(s) THEN s[i] ELSE t[i - Len(s)]
  BY <1>3, <1>4, ConcatProperties
<1>6. Len(s) \in Nat /\ Len(t) \in Nat
  BY SeqFacts
<1>7. ASSUME NEW i \in 1 .. Len(t) PROVE (s \o t)[Len(s) + i] = t[i]
  <2>1. Len(s) + i \in 1 .. Len(s) + Len(t) /\ ~(Len(s) + i <= Len(s)) /\ Len(s) + i - Len(s) = i
    BY <1>6
  <2>. QED
    BY <1>5, <2>1
<1>8. \A i \in 1 .. Len(s) : (s \o t)[i] = s[i]
  BY <1>5, <1>6
<1>. QED
  BY <1>5, <1>7, <1>8 DEF IsSeq

Joined(s, t, u) ==
    /\ IsSeq(u) /\ Len(u) = Len(s) + Len(t)
    /\ \A i \in 1 .. Len(s) : u[i] = s[i]
    /\ \A i \in 1 .. Len(t) : u[Len(s) + i] = t[i]

\* A sequence after another, by its places.
LEMMA JoinOk == \A s, t : IsSeq(s) /\ IsSeq(t) => Joined(s, t, s \o t)
BY JoinFacts DEF Joined

\* The first n of a sequence.
LEMMA FirstFacts ==
    ASSUME NEW s, IsSeq(s), NEW n \in 0 .. Len(s)
    PROVE  /\ IsSeq(SubSeq(s, 1, n)) /\ Len(SubSeq(s, 1, n)) = n
           /\ \A i \in 1 .. n : SubSeq(s, 1, n)[i] = s[i]
<1>1. PICK S : s \in Seq(S)
  BY DEF IsSeq
<1>2. Len(s) \in Nat /\ n \in Nat /\ n <= Len(s) /\ \A i \in 1 .. n : s[i] \in S
  BY <1>1
<1>3. /\ SubSeq(s, 1, n) \in Seq(S)
      /\ Len(SubSeq(s, 1, n)) = IF 1 <= n THEN n - 1 + 1 ELSE 0
      /\ \A i \in 1 .. n - 1 + 1 : SubSeq(s, 1, n)[i] = s[1 + i - 1]
  BY <1>1, <1>2, SubSeqProperties
<1>. QED
  BY <1>2, <1>3 DEF IsSeq

\* What follows the first n of a sequence.
LEMMA LaterFacts ==
    ASSUME NEW s, IsSeq(s), NEW n \in 0 .. Len(s)
    PROVE  /\ IsSeq(SubSeq(s, n + 1, Len(s))) /\ Len(SubSeq(s, n + 1, Len(s))) = Len(s) - n
           /\ \A i \in 1 .. Len(s) - n : SubSeq(s, n + 1, Len(s))[i] = s[n + i]
<1>1. PICK S : s \in Seq(S)
  BY DEF IsSeq
<1> DEFINE m == Len(s)
           a == n + 1
<1>2a. \A i \in 1 .. Len(s) : s[i] \in S
  BY <1>1
<1>2b. m \in Nat /\ n \in Nat /\ n <= m /\ a \in Nat /\ a >= 1
  BY <1>1
<1>2. m \in Nat /\ n \in Nat /\ n <= m /\ a \in Nat /\ \A i \in a .. m : s[i] \in S
  <2>1. \A i \in a .. m : i \in 1 .. m
    BY <1>2b
  <2>. QED
    BY <1>2a, <1>2b, <2>1
<1> HIDE DEF m
<1> DEFINE w == SubSeq(s, a, m)
<1>3. /\ w \in Seq(S)
      /\ Len(w) = IF a <= m THEN m - a + 1 ELSE 0
      /\ \A i \in 1 .. m - a + 1 : w[i] = s[a + i - 1]
  BY <1>1, <1>2, SubSeqProperties
<1> HIDE DEF w
<1>4. Len(w) = m - n
  BY <1>2, <1>3
<1>5. ASSUME NEW i \in 1 .. m - n PROVE w[i] = s[n + i]
  <2>1. i \in 1 .. m - a + 1 /\ a + i - 1 = n + i
    BY <1>2
  <2>. QED
    BY <1>3, <2>1
<1> HIDE DEF a
<1>6. IsSeq(w) /\ Len(w) = m - n /\ \A i \in 1 .. m - n : w[i] = s[n + i]
  BY <1>3, <1>4, <1>5 DEF IsSeq
<1>. QED
  BY <1>6 DEF w, m, a

\* A tail, of a sequence that is not empty.
LEMMA TailFacts ==
    ASSUME NEW s, IsSeq(s), Len(s) # 0
    PROVE  /\ IsSeq(Tail(s)) /\ Len(Tail(s)) = Len(s) - 1
           /\ \A i \in 1 .. Len(s) - 1 : Tail(s)[i] = s[1 + i]
<1>1. PICK S : s \in Seq(S)
  BY DEF IsSeq
<1>2. Len(s) \in Nat /\ 1 \in 0 .. Len(s) /\ s # <<>>
  BY <1>1, SmallSeqs
<1>3. Tail(s) = SubSeq(s, 1 + 1, Len(s))
  BY <1>1, <1>2, TailIsSubSeq
<1>4. /\ IsSeq(SubSeq(s, 1 + 1, Len(s))) /\ Len(SubSeq(s, 1 + 1, Len(s))) = Len(s) - 1
      /\ \A i \in 1 .. Len(s) - 1 : SubSeq(s, 1 + 1, Len(s))[i] = s[1 + i]
  BY <1>2, LaterFacts
<1>. QED
  BY <1>3, <1>4

---------------------------------------------------------------------------
(* The last rows *)

\* As many as asked for.
LEMMA LastOfFacts ==
    ASSUME NEW s, NEW n \in Nat
    PROVE  /\ IsSeq(LastOf(s, n)) /\ Len(LastOf(s, n)) = n
           /\ \A i \in 1 .. n :
                LastOf(s, n)[i] = IF Len(s) - n + i > 0 THEN s[Len(s) - n + i] ELSE Zero
<1>1. LastOf(s, n) = [i \in 1 .. n |-> IF Len(s) - n + i > 0 THEN s[Len(s) - n + i] ELSE Zero]
  BY DEF LastOf
<1>2. LastOf(s, n) = [i \in 1 .. n |-> LastOf(s, n)[i]]
  BY <1>1
<1>. QED
  BY <1>1, <1>2, FunSeq

\* A window moves on by one.
LEMMA LastOfNext ==
    ASSUME NEW s, NEW e, IsSeq(s), NEW n \in Nat \ {0}
    PROVE  Tail(LastOf(s, n)) \o <<e>> = LastOf(s \o <<e>>, n)
<1> DEFINE a == LastOf(s, n)
           t == s \o <<e>>
           b == LastOf(t, n)
           m == Len(s)
<1>1. m \in Nat /\ IsSeq(<<e>>) /\ Len(<<e>>) = 1 /\ <<e>>[1] = e
  BY SeqFacts, SmallSeqs
<1>2. /\ IsSeq(t) /\ Len(t) = m + 1 /\ t[m + 1] = e
      /\ \A i \in 1 .. m : t[i] = s[i]
  <2>1. /\ IsSeq(t) /\ Len(t) = m + Len(<<e>>)
        /\ \A i \in 1 .. m : t[i] = s[i]
        /\ \A i \in 1 .. Len(<<e>>) : t[m + i] = <<e>>[i]
    BY <1>1, JoinFacts
  <2> HIDE DEF t, m
  <2>. QED
    BY <1>1, <2>1
<1>3. /\ IsSeq(a) /\ Len(a) = n
      /\ \A i \in 1 .. n : a[i] = IF m - n + i > 0 THEN s[m - n + i] ELSE Zero
  BY LastOfFacts
<1>4. /\ IsSeq(b) /\ Len(b) = n
      /\ \A i \in 1 .. n : b[i] = IF m + 1 - n + i > 0 THEN t[m + 1 - n + i] ELSE Zero
  <2> HIDE DEF t, m
  <2>1. /\ IsSeq(b) /\ Len(b) = n
        /\ \A i \in 1 .. n : b[i] = IF Len(t) - n + i > 0 THEN t[Len(t) - n + i] ELSE Zero
    BY LastOfFacts
  <2> HIDE DEF b
  <2>. QED
    BY <1>1, <1>2, <2>1
<1> HIDE DEF a, b, t, m
<1>5. /\ IsSeq(Tail(a)) /\ Len(Tail(a)) = n - 1
      /\ \A i \in 1 .. n - 1 : Tail(a)[i] = a[1 + i]
  BY <1>3, TailFacts
<1> DEFINE w == Tail(a) \o <<e>>
<1>6. /\ IsSeq(w) /\ Len(w) = n - 1 + 1 /\ w[n - 1 + 1] = e
      /\ \A i \in 1 .. n - 1 : w[i] = Tail(a)[i]
  BY <1>1, <1>5, JoinFacts
<1> HIDE DEF w
<1>7. ASSUME NEW i \in 1 .. n PROVE w[i] = b[i]
  <2>1. CASE i = n
    <3>1. m + 1 - n + i = m + 1 /\ m + 1 > 0 /\ n - 1 + 1 = i
      BY <1>1, <2>1
    <3>. QED
      BY <1>2, <1>4, <1>6, <3>1
  <2>2. CASE i # n
    <3> DEFINE k == m - n + (1 + i)
    <3>1. i \in 1 .. n - 1 /\ 1 + i \in 1 .. n /\ m + 1 - n + i = k /\ (k > 0 => k \in 1 .. m)
      BY <1>1, <2>2
    <3>2. w[i] = IF k > 0 THEN s[k] ELSE Zero
      BY <1>3, <1>5, <1>6, <3>1
    <3>3. b[i] = IF k > 0 THEN t[k] ELSE Zero
      BY <1>4, <3>1
    <3> HIDE DEF k
    <3>. QED
      BY <1>2, <3>1, <3>2, <3>3
  <2>. QED
    BY <2>1, <2>2
<1>8. Len(w) = Len(b)
  BY <1>4, <1>6
<1>9. w = b
  BY <1>4, <1>6, <1>7, <1>8, SameSeq
<1>. QED
  BY <1>9 DEF w, b, t, a

\* The first rows of two sequences that begin alike.
LEMMA SameFirst ==
    ASSUME NEW s, NEW t, IsSeq(s), IsSeq(t), NEW n \in Nat, n <= Len(s), n <= Len(t),
           \A i \in 1 .. n : s[i] = t[i]
    PROVE  SubSeq(s, 1, n) = SubSeq(t, 1, n)
<1>1. Len(s) \in Nat /\ Len(t) \in Nat
  BY SeqFacts
<1>2. n \in 0 .. Len(s) /\ n \in 0 .. Len(t)
  BY <1>1
<1> DEFINE a == SubSeq(s, 1, n)
           b == SubSeq(t, 1, n)
<1>3. IsSeq(a) /\ Len(a) = n /\ \A i \in 1 .. n : a[i] = s[i]
  BY <1>2, FirstFacts
<1>4. IsSeq(b) /\ Len(b) = n /\ \A i \in 1 .. n : b[i] = t[i]
  BY <1>2, FirstFacts
<1> HIDE DEF a, b
<1>5. a = b
  BY <1>3, <1>4, SameSeq
<1>. QED
  BY <1>5 DEF a, b

---------------------------------------------------------------------------
(* Rows computed from scratch *)

Places(m) == 1 .. Len(m.blocks)

\* A network has layers, each of one kind.
LEMMA NetFacts ==
    ASSUME NEW m \in Networks
    PROVE  /\ Len(m.blocks) \in Nat \ {0} /\ Places(m) = 1 .. Len(m.blocks)
           /\ \A l \in Places(m) : m.blocks[l] \in Blocks
           /\ \/ \A l \in Places(m) : m.blocks[l] # "conv"
              \/ \A l \in Places(m) : m.blocks[l] # "deltanet"
           /\ m.dual \in BOOLEAN /\ m.mrope \in BOOLEAN
           /\ m.mrope => ~m.dual
           /\ m.deepstack \in Nat
<1>1. /\ m.blocks \in Seq(Blocks) /\ m.blocks # <<>>
      /\ \/ \A l \in DOMAIN m.blocks : m.blocks[l] # "conv"
         \/ \A l \in DOMAIN m.blocks : m.blocks[l] # "deltanet"
      /\ m.dual \in BOOLEAN /\ m.mrope \in BOOLEAN
      /\ m.mrope => ~m.dual
      /\ m.deepstack \in Nat
  <2>1. IsNetwork(m)
    BY PassAssumption
  <2>. QED
    BY <2>1 DEF IsNetwork
<1> DEFINE b == m.blocks
<1>2. b \in Seq(Blocks) /\ b # <<>>
  BY <1>1
<1> HIDE DEF b
<1>3. Len(b) \in Nat \ {0} /\ DOMAIN b = 1 .. Len(b) /\ \A l \in 1 .. Len(b) : b[l] \in Blocks
  BY <1>2, EmptySeq
<1>. QED
  BY <1>1, <1>3 DEF Places, b

Embeds(items) == [i \in 1 .. Len(items) |-> Embed(items[i].what)]
\* f gives the rows after each of the first n layers.
IsScratch(m, f, items, bidirectional, keeps, n) ==
    f = [l \in 0 .. n |-> IF l = 0 THEN Embeds(items)
                         ELSE ScratchLayer(m, items, bidirectional, keeps, l, f[l - 1])]

\* There is one such function.
LEMMA ScratchExists ==
    ASSUME NEW m, NEW items, NEW bidirectional, NEW keeps, NEW n \in Nat
    PROVE  \E f : IsScratch(m, f, items, bidirectional, keeps, n)
<1> DEFINE e == Embeds(items)
           G(l, x) == ScratchLayer(m, items, bidirectional, keeps, l, x)
           P(k) == \E f : f = [l \in 0 .. k |-> IF l = 0 THEN e ELSE G(l, f[l - 1])]
           S == {k \in Nat : P(k)}
<1> HIDE DEF e, G
<1>1. 0 \in S
  <2> DEFINE f == [l \in 0 .. 0 |-> e]
  <2>1. f = [l \in 0 .. 0 |-> IF l = 0 THEN e ELSE G(l, f[l - 1])]
    <3>1. \A l \in 0 .. 0 : e = IF l = 0 THEN e ELSE G(l, f[l - 1])
      OBVIOUS
    <3> HIDE DEF f
    <3>2. [l \in 0 .. 0 |-> e] = [l \in 0 .. 0 |-> IF l = 0 THEN e ELSE G(l, f[l - 1])]
      BY <3>1
    <3>. QED
      BY <3>2 DEF f
  <2> HIDE DEF f
  <2>2. P(0)
    BY <2>1
  <2>. QED
    BY <2>2
<1>2. ASSUME NEW k \in Nat, k \in S PROVE k + 1 \in S
  <2>1. PICK f : f = [l \in 0 .. k |-> IF l = 0 THEN e ELSE G(l, f[l - 1])]
    BY <1>2
  <2> DEFINE g == [l \in 0 .. k + 1 |-> IF l \in 0 .. k THEN f[l] ELSE G(l, f[k])]
  <2>2. ASSUME NEW l \in 0 .. k + 1
        PROVE  g[l] = IF l = 0 THEN e ELSE G(l, g[l - 1])
    <3>1. CASE l \in 0 .. k
      <4>1. g[l] = f[l] /\ f[l] = IF l = 0 THEN e ELSE G(l, f[l - 1])
        BY <2>1, <3>1
      <4>2. l # 0 => g[l - 1] = f[l - 1]
        BY <1>2, <3>1
      <4> HIDE DEF g
      <4>. QED
        BY <4>1, <4>2
    <3>2. CASE ~(l \in 0 .. k)
      <4>1. l = k + 1 /\ l # 0 /\ l - 1 = k
        BY <1>2, <3>2
      <4>2. g[l] = G(l, f[k]) /\ g[l - 1] = f[k]
        BY <1>2, <3>2, <4>1
      <4> HIDE DEF g
      <4>. QED
        BY <4>1, <4>2
    <3>. QED
      BY <3>1, <3>2
  <2>3. g = [l \in 0 .. k + 1 |-> g[l]]
    OBVIOUS
  <2> HIDE DEF g
  <2>4. g = [l \in 0 .. k + 1 |-> IF l = 0 THEN e ELSE G(l, g[l - 1])]
    BY <2>2, <2>3
  <2>5. P(k + 1)
    BY <2>4
  <2>. QED
    BY <1>2, <2>5
<1>3. \A k \in Nat : k \in S
  <2> HIDE DEF S
  <2>. QED
    BY <1>1, <1>2, SetInduction
<1>4. P(n)
  BY <1>3
<1>. QED
  BY <1>4 DEF e, G, IsScratch

\* The rows after a layer are made from those before it.
LEMMA ScratchRec ==
    ASSUME NEW m \in Networks, NEW items, NEW bidirectional, NEW keeps
    PROVE  /\ Scratch(m, items, bidirectional, keeps)[0] = Embeds(items)
           /\ \A l \in 1 .. Len(m.blocks) :
                  Scratch(m, items, bidirectional, keeps)[l]
                      = ScratchLayer(m, items, bidirectional, keeps, l,
                                     Scratch(m, items, bidirectional, keeps)[l - 1])
<1> DEFINE e == Embeds(items)
           G(l, x) == ScratchLayer(m, items, bidirectional, keeps, l, x)
           n == Len(m.blocks)
           R == Scratch(m, items, bidirectional, keeps)
<1>1. n \in Nat
  BY NetFacts
<1>2. \E f : f = [l \in 0 .. n |-> IF l = 0 THEN e ELSE G(l, f[l - 1])]
  <2>1. \E f : IsScratch(m, f, items, bidirectional, keeps, n)
    BY <1>1, ScratchExists
  <2>. QED
    BY <2>1 DEF IsScratch
<1>3. R = CHOOSE f : f = [l \in 0 .. n |-> IF l = 0 THEN e ELSE G(l, f[l - 1])]
  BY DEF Scratch, Embeds
<1> HIDE DEF e, G, n, R
<1>4. R = [l \in 0 .. n |-> IF l = 0 THEN e ELSE G(l, R[l - 1])]
  BY <1>2, <1>3
<1>5. R[0] = e /\ \A l \in 1 .. n : R[l] = G(l, R[l - 1])
  BY <1>1, <1>4
<1>. QED
  BY <1>5 DEF e, G, n, R

\* A row for each item.
LEMMA ScratchShape ==
    ASSUME NEW m \in Networks, NEW items, IsSeq(items), NEW bidirectional, NEW keeps,
           NEW l \in 0 .. Len(m.blocks)
    PROVE  /\ IsSeq(Scratch(m, items, bidirectional, keeps)[l])
           /\ Len(Scratch(m, items, bidirectional, keeps)[l]) = Len(items)
<1> DEFINE r == Scratch(m, items, bidirectional, keeps)[l]
<1>1. Len(items) \in Nat
  BY SeqFacts
<1>2. l = 0 => r = [i \in 1 .. Len(items) |-> Embed(items[i].what)]
  BY ScratchRec DEF Embeds
<1>3. l # 0 => r = ScratchLayer(m, items, bidirectional, keeps, l,
                                Scratch(m, items, bidirectional, keeps)[l - 1])
  <2> SUFFICES ASSUME l # 0 PROVE r = ScratchLayer(m, items, bidirectional, keeps, l,
                                          Scratch(m, items, bidirectional, keeps)[l - 1])
    OBVIOUS
  <2>1. l \in 1 .. Len(m.blocks)
    BY NetFacts
  <2>2. \A k \in 1 .. Len(m.blocks) :
           Scratch(m, items, bidirectional, keeps)[k]
               = ScratchLayer(m, items, bidirectional, keeps, k,
                              Scratch(m, items, bidirectional, keeps)[k - 1])
    BY ScratchRec
  <2>. QED
    BY <2>1, <2>2
<1> HIDE DEF r
<1>4. r = [i \in 1 .. Len(items) |-> r[i]]
  <2>1. CASE l = 0
    BY <1>2, <2>1
  <2>2. CASE l # 0
    BY <1>3, <2>2 DEF ScratchLayer
  <2>. QED
    BY <2>1, <2>2
<1>5. IsSeq(r) /\ Len(r) = Len(items)
  BY <1>1, <1>4, FunSeq
<1>. QED
  BY <1>5 DEF r

Turned(m, items, keeps, l, j) == <<IF keeps THEN RopeCache(m, l) ELSE 0>> \o items[j].pos
Keys(m, items, keeps, l, x, n) == [j \in 1 .. n |-> KeyValue(x[j], Turned(m, items, keeps, l, j))]
Sees(items, bidirectional, i) == IF bidirectional THEN Len(items) ELSE i

\* A row from scratch, for each kind of block.
LEMMA BlockIs ==
    ASSUME NEW m, NEW items, NEW bidirectional, NEW keeps, NEW l, NEW x, NEW i
    PROVE  /\ m.blocks[l] = "conv" =>
                ScratchBlock(m, items, bidirectional, keeps, l, x, i)
                    = Mix("conv", LastOf(SubSeq(x, 1, i), ConvLCache))
           /\ m.blocks[l] = "deltanet" =>
                ScratchBlock(m, items, bidirectional, keeps, l, x, i)
                    = Mix("deltanet", SubSeq(x, 1, i))
           /\ m.blocks[l] = "attn" =>
                ScratchBlock(m, items, bidirectional, keeps, l, x, i)
                    = Attention(x[i], Turned(m, items, keeps, l, i),
                                Keys(m, items, keeps, l, x, Sees(items, bidirectional, i)))
<1>1. CASE m.blocks[l] = "conv"
  BY <1>1 DEF ScratchBlock
<1>2. CASE m.blocks[l] = "deltanet"
  BY <1>2 DEF ScratchBlock
<1>3. CASE m.blocks[l] = "attn"
  <2>1. ScratchBlock(m, items, bidirectional, keeps, l, x, i)
            = Attention(x[i], <<IF keeps THEN RopeCache(m, l) ELSE 0>> \o items[i].pos,
                [j \in 1 .. (IF bidirectional THEN Len(items) ELSE i) |->
                    KeyValue(x[j], <<IF keeps THEN RopeCache(m, l) ELSE 0>> \o items[j].pos)])
    BY <1>3 DEF ScratchBlock
  <2>. QED
    BY <1>3, <2>1 DEF Turned, Keys, Sees
<1>. QED
  BY <1>1, <1>2, <1>3

\* The features of an image are added to the rows of its patches.
Deep(m, items, l, i, row) ==
    IF m.mrope /\ IsImage(items[i].what) /\ l <= m.deepstack
    THEN AddFeature(items[i].what, row) ELSE row

\* The rows of a layer, one by one.
LEMMA RowIs ==
    ASSUME NEW m, NEW items, NEW bidirectional, NEW keeps, NEW l, NEW x, NEW i \in 1 .. Len(items)
    PROVE  ScratchLayer(m, items, bidirectional, keeps, l, x)[i]
               = Deep(m, items, l, i, ScratchBlock(m, items, bidirectional, keeps, l, x, i))
BY DEF ScratchLayer, Deep

\* The first rows from scratch are those of the first items: no row sees a later one.
SameRows(m, s, t, bi, keeps, k) ==
    \A l \in 0 .. Len(m.blocks) : \A i \in 1 .. k :
        Scratch(m, s, bi, keeps)[l][i] = Scratch(m, t, bi, keeps)[l][i]

\* Rows of texts that begin alike are alike as long as the texts are.
LEMMA Causal ==
    ASSUME NEW m \in Networks, NEW s, NEW t, IsSeq(s), IsSeq(t), NEW bi, bi = FALSE, NEW keeps, NEW k \in Nat,
           k <= Len(s), k <= Len(t), \A i \in 1 .. k : s[i] = t[i]
    PROVE  SameRows(m, s, t, bi, keeps, k)
<1> DEFINE A == Scratch(m, s, bi, keeps)
           B == Scratch(m, t, bi, keeps)
           N == Len(m.blocks)
           P(l) == \A i \in 1 .. k : A[l][i] = B[l][i]
           S == {l \in Nat : l <= N => P(l)}
<1>1. N \in Nat /\ Len(s) \in Nat /\ Len(t) \in Nat
  BY NetFacts, SeqFacts
<1>2. 0 \in S
  <2>1. A[0] = Embeds(s) /\ B[0] = Embeds(t)
    BY ScratchRec
  <2> HIDE DEF A, B
  <2>2. ASSUME NEW i \in 1 .. k PROVE A[0][i] = B[0][i]
    <3>1. i \in 1 .. Len(s) /\ i \in 1 .. Len(t) /\ s[i] = t[i]
      BY <1>1
    <3>. QED
      BY <2>1, <3>1 DEF Embeds
  <2>. QED
    BY <2>2
<1>3. ASSUME NEW l \in Nat, l \in S PROVE l + 1 \in S
  <2> SUFFICES ASSUME l + 1 <= N PROVE P(l + 1)
    BY <1>3
  <2> DEFINE x == A[l]
             y == B[l]
             q == l + 1
  <2>1. P(l) /\ q \in 1 .. N /\ l \in 0 .. N /\ q - 1 = l
    BY <1>1, <1>3
  <2>2. /\ A[q] = ScratchLayer(m, s, bi, keeps, q, x)
        /\ B[q] = ScratchLayer(m, t, bi, keeps, q, y)
    <3>1. \A r \in 1 .. N : A[r] = ScratchLayer(m, s, bi, keeps, r, A[r - 1])
      BY ScratchRec
    <3>2. \A r \in 1 .. N : B[r] = ScratchLayer(m, t, bi, keeps, r, B[r - 1])
      BY ScratchRec
    <3> HIDE DEF A, B, N
    <3>. QED
      BY <2>1, <3>1, <3>2
  <2>3. /\ IsSeq(x) /\ Len(x) = Len(s)
        /\ IsSeq(y) /\ Len(y) = Len(t)
    BY <2>1, ScratchShape
  <2>4. \A i \in 1 .. k : x[i] = y[i]
    BY <2>1
  <2>5. m.blocks[q] \in {"attn", "conv", "deltanet"}
    BY <2>1, NetFacts DEF Blocks
  <2> HIDE DEF A, B, x, y, q
  <2>6. ASSUME NEW i \in 1 .. k PROVE A[q][i] = B[q][i]
    <3>1. /\ i \in 1 .. Len(s) /\ i \in 1 .. Len(t) /\ s[i] = t[i] /\ x[i] = y[i]
          /\ i \in Nat /\ i <= Len(x) /\ i <= Len(y) /\ \A j \in 1 .. i : x[j] = y[j] /\ s[j] = t[j]
      BY <1>1, <2>3, <2>4
    <3>2. SubSeq(x, 1, i) = SubSeq(y, 1, i)
      BY <2>3, <3>1, SameFirst
    <3>3. \A j \in 1 .. i : Turned(m, s, keeps, q, j) = Turned(m, t, keeps, q, j)
      BY <3>1 DEF Turned
    <3>4. Keys(m, s, keeps, q, x, i) = Keys(m, t, keeps, q, y, i)
      BY <3>1, <3>3 DEF Keys
    <3>4a. i \in 1 .. i /\ Sees(s, bi, i) = i /\ Sees(t, bi, i) = i
      BY <3>1 DEF Sees
    <3>5. ScratchBlock(m, s, bi, keeps, q, x, i) = ScratchBlock(m, t, bi, keeps, q, y, i)
      <4>1. CASE m.blocks[q] = "conv"
        <5>1. ScratchBlock(m, s, bi, keeps, q, x, i) = Mix("conv", LastOf(SubSeq(x, 1, i), ConvLCache))
          BY <4>1, BlockIs
        <5>2. ScratchBlock(m, t, bi, keeps, q, y, i) = Mix("conv", LastOf(SubSeq(y, 1, i), ConvLCache))
          BY <4>1, BlockIs
        <5>. QED
          BY <3>2, <5>1, <5>2
      <4>2. CASE m.blocks[q] = "deltanet"
        <5>1. ScratchBlock(m, s, bi, keeps, q, x, i) = Mix("deltanet", SubSeq(x, 1, i))
          BY <4>2, BlockIs
        <5>2. ScratchBlock(m, t, bi, keeps, q, y, i) = Mix("deltanet", SubSeq(y, 1, i))
          BY <4>2, BlockIs
        <5>. QED
          BY <3>2, <5>1, <5>2
      <4>3. CASE m.blocks[q] = "attn"
        <5>1. ScratchBlock(m, s, bi, keeps, q, x, i)
                  = Attention(x[i], Turned(m, s, keeps, q, i), Keys(m, s, keeps, q, x, Sees(s, bi, i)))
          BY <4>3, BlockIs
        <5>2. ScratchBlock(m, t, bi, keeps, q, y, i)
                  = Attention(y[i], Turned(m, t, keeps, q, i), Keys(m, t, keeps, q, y, Sees(t, bi, i)))
          BY <4>3, BlockIs
        <5>. QED
          BY <3>1, <3>3, <3>4, <3>4a, <5>1, <5>2
      <4>. QED
        BY <2>5, <4>1, <4>2, <4>3
    <3>6. A[q][i] = Deep(m, s, q, i, ScratchBlock(m, s, bi, keeps, q, x, i))
      BY <2>2, <3>1, RowIs
    <3>7. B[q][i] = Deep(m, t, q, i, ScratchBlock(m, t, bi, keeps, q, y, i))
      BY <2>2, <3>1, RowIs
    <3>. QED
      BY <3>1, <3>5, <3>6, <3>7 DEF Deep
  <2>. QED
    BY <2>6 DEF q
<1>4. \A l \in Nat : l \in S
  <2> HIDE DEF S
  <2>. QED
    BY <1>2, <1>3, SetInduction
<1>. QED
  BY <1>1, <1>4 DEF SameRows

---------------------------------------------------------------------------
(* The invariant: of a network m, a cache k, a pass p, a text t and the cache c
   that KvCache keeps *)

NoImages(t) == \A i \in 1 .. Len(t) : ~IsImage(t[i].what)
\* What is not an image counts as text.
Count(t) == Cardinality({i \in 1 .. Len(t) : ~IsImage(t[i].what)})

FreshState(m, l) ==
    IF m.blocks[l] = "conv" THEN [j \in 1 .. ConvLCache |-> Zero] ELSE <<>>
FreshOf(m) ==
    [data |-> [l \in Places(m) |-> <<>>], state |-> [l \in Places(m) |-> FreshState(m, l)],
     seq_len |-> 0, text_pos |-> 0, bidirectional |-> FALSE]

\* AbsModel, of any network; the tokens a pass feeds, and the cache after it.
AbsOf(m) == [mrope |-> m.mrope, bf16 |-> FALSE,
             recurrent |-> IF \E l \in Places(m) : m.blocks[l] = "conv" THEN "conv"
                           ELSE IF \E l \in Places(m) : m.blocks[l] = "deltanet"
                           THEN "deltanet" ELSE "none"]
ToksOf(items) == [i \in 1 .. Len(items) |-> items[i].what[1]]
FedOf(m, p, c) ==
    IF p.next = 0 THEN c ELSE Cache!Feed(AbsOf(m), c, ToksOf(p.items), p.form # "decode")
\* What layer l has been given: the layers before p.next are ahead.
Given(p, l) == IF l < p.next THEN Len(p.items) ELSE 0
CacheAt(m, p, c, l) == IF l < p.next THEN FedOf(m, p, c) ELSE c

\* Where rows are those from scratch, which are the rows of R.
AllAttention(m) == \A l \in Places(m) : m.blocks[l] = "attn"
Good(m, p, t, c, j) ==
    ~p.keeps \/ AllAttention(m) \/ (NoImages(t) /\ FedOf(m, p, c).layer[j].sound)
R(m, k, p, t) == Scratch(m, t, k.bidirectional, p.keeps)

\* A text without images counts its places.
ItemOk(e) == IsSeq(e.pos) /\ (~IsImage(e.what) => e.what = <<e.what[1]>>)
TextOk(t) ==
    /\ IsSeq(t) /\ \A i \in 1 .. Len(t) : ItemOk(t[i])
    /\ NoImages(t) => \A i \in 1 .. Len(t) : t[i].pos = TextPosition(i - 1)

KvOk(m, k) ==
    /\ k = [data |-> k.data, state |-> k.state, seq_len |-> k.seq_len,
            text_pos |-> k.text_pos, bidirectional |-> k.bidirectional]
    /\ k.data = [l \in Places(m) |-> k.data[l]] /\ k.state = [l \in Places(m) |-> k.state[l]]
    /\ \A l \in Places(m) : IsSeq(k.data[l]) /\ IsSeq(k.state[l])
    /\ \A l \in Places(m) : m.blocks[l] = "conv" => Len(k.state[l]) = ConvLCache
    /\ k.seq_len \in Nat /\ k.bidirectional \in BOOLEAN

\* The state has seen the last place, and maybe more that was taken back.
Ahead(m, c) ==
    AbsOf(m).recurrent # "none" /\ c.seq_len > 0 =>
        /\ Len(c.state) > 0
        /\ c.state[Len(c.state)].pos \in Nat /\ c.state[Len(c.state)].pos >= c.seq_len - 1
CopyOk(m, t, c) ==
    /\ c = [layer |-> c.layer, flat |-> c.flat, state |-> c.state, seq_len |-> c.seq_len,
            text_pos |-> c.text_pos]
    /\ IsSeq(c.layer) /\ IsSeq(c.state) /\ Len(c.layer) = c.seq_len
    /\ \A j \in 1 .. c.seq_len : c.layer[j].sound => \A i \in 1 .. j : c.layer[i].sound
    /\ c.seq_len = 0 => c = Cache!Empty
    /\ NoImages(t) =>
        /\ \A j \in 1 .. c.seq_len : c.layer[j].tok = t[j].what[1] /\ c.layer[j].pos = j - 1
        /\ m.mrope => c.text_pos = c.seq_len
        /\ Ahead(m, c)

IdleOk(m, k, t) ==
    /\ k.seq_len = 0 => k = FreshOf(m)
    /\ k.seq_len > 0 => /\ Len(t) = k.seq_len /\ ~k.bidirectional
                        /\ m.mrope => k.text_pos = Count(t)

\* The text is what the cache has, then the items of the pass, then what waits.
Parts(k, p, t) ==
    /\ IsSeq(p.items) /\ Len(p.items) > 0 /\ IsSeq(p.rest)
    /\ p.start = k.seq_len /\ p.start + Len(p.items) + Len(p.rest) = Len(t)
    /\ \A i \in 1 .. Len(p.items) : p.items[i] = t[p.start + i]
    /\ \A i \in 1 .. Len(p.rest) :
           t[p.start + Len(p.items) + i]
               = [what |-> <<p.rest[i]>>, pos |-> TextPosition(p.start + Len(p.items) + i - 1)]
RestOk(p) == \A i \in 1 .. Len(p.rest) : p.rest[i] \in Tokens
PassOk(m, k, p, t) ==
    /\ p = [items |-> p.items, start |-> p.start, next |-> p.next, a |-> p.a, b |-> p.b,
            main |-> p.main, form |-> p.form, features |-> p.features, keeps |-> p.keeps,
            all |-> p.all, rest |-> p.rest, size |-> p.size, text_pos |-> p.text_pos]
    /\ p.next \in 1 .. Len(m.blocks) + 1
    /\ p.keeps \in BOOLEAN /\ p.main \in BOOLEAN /\ p.features \in Nat
    /\ Parts(k, p, t)
    /\ p.rest # <<>> => ~m.mrope /\ p.keeps /\ p.size \in Nat \ {0} /\ Len(t) <= MaxPos
    /\ RestOk(p)
    /\ p.form = "decode" => Len(p.items) = 1 /\ p.start > 0
    /\ ~p.keeps => p.start = 0 /\ p.rest = <<>> /\ p.form = "prefill" /\ p.main /\ NoImages(t)
    /\ k.bidirectional => ~p.keeps
    /\ p.main /\ p.keeps => m.mrope
    /\ \A i \in 1 .. Len(p.items) :
           IsImage(p.items[i].what) => p.features = IF m.mrope THEN m.deepstack ELSE 0
    /\ m.mrope /\ p.keeps => p.text_pos = Count(t)

\* The input of the next layer.
InputOk(m, k, p, t, c) ==
    /\ IsSeq(In(p)) /\ Len(In(p)) = Len(p.items)
    /\ p.next = 1 => In(p) = Embeds(p.items)
    /\ \A i \in 1 .. Len(p.items) :
           Good(m, p, t, c, p.start + i) => In(p)[i] = R(m, k, p, t)[p.next - 1][p.start + i]

\* The entries of an attention layer are made from the rows before it.
Entry(m, k, p, t, c, l, j) ==
    /\ k.data[l][j] = KeyValue(k.data[l][j].over[1], Turned(m, t, p.keeps, l, j))
    /\ Good(m, p, t, c, j) => k.data[l][j].over[1] = R(m, k, p, t)[l - 1][j]
DataOk(m, k, p, t, c) ==
    \A l \in Places(m) : m.blocks[l] = "attn" =>
        /\ Len(k.data[l]) = k.seq_len + Given(p, l)
        /\ \A j \in 1 .. Len(k.data[l]) : Entry(m, k, p, t, c, l, j)

\* The state of a recurrent layer is of the rows before it, where it is current.
Current(c) ==
    /\ Len(c.layer) > 0 /\ c.layer[Len(c.layer)].sound
    /\ c.state[Len(c.state)].pos = Len(c.layer) - 1
StateIs(m, l, state, x) ==
    /\ m.blocks[l] = "conv" => state = LastOf(x, ConvLCache)
    /\ m.blocks[l] = "deltanet" => state = x
StateOk(m, k, p, t, c) ==
    \A l \in Places(m) : m.blocks[l] # "attn" =>
        /\ k.seq_len = 0 /\ ~(l < p.next) => k.state[l] = FreshState(m, l)
        /\ NoImages(t) /\ p.keeps /\ Current(CacheAt(m, p, c, l)) =>
               StateIs(m, l, k.state[l],
                       SubSeq(R(m, k, p, t)[l - 1], 1, Len(CacheAt(m, p, c, l).layer)))

\* The first layer sees the tokens themselves.
Seen(c) == [j \in 1 .. Len(c.state) |-> Embed(<<c.state[j].tok>>)]
FirstOk(m, k, p, t, c) ==
    NoImages(t) => StateIs(m, 1, k.state[1], Seen(CacheAt(m, p, c, 1)))

Inv(m, k, p, t, c) ==
    /\ m \in Networks /\ TextOk(t) /\ KvOk(m, k) /\ CopyOk(m, t, c) /\ c.seq_len = k.seq_len
    /\ IF p.next = 0 THEN p = NoPass /\ IdleOk(m, k, t)
                     ELSE PassOk(m, k, p, t) /\ InputOk(m, k, p, t, c)
    /\ DataOk(m, k, p, t, c) /\ StateOk(m, k, p, t, c) /\ FirstOk(m, k, p, t, c)

---------------------------------------------------------------------------
(* How much text there is *)

\* The places of what is not an image.
TextPlaces(t) == {i \in 1 .. Len(t) : ~IsImage(t[i].what)}

\* There is a number of what is not an image.
LEMMA CountFacts ==
    ASSUME NEW t, IsSeq(t)
    PROVE  /\ Count(t) = Cardinality(TextPlaces(t)) /\ IsFiniteSet(TextPlaces(t))
           /\ Count(t) \in Nat
<1>1. Len(t) \in Nat
  BY SeqFacts
<1>2. IsFiniteSet(1 .. Len(t)) /\ TextPlaces(t) \subseteq 1 .. Len(t)
  BY <1>1, FS_Interval DEF TextPlaces
<1>3. IsFiniteSet(TextPlaces(t))
  BY <1>2, FS_Subset
<1>4. Cardinality(TextPlaces(t)) \in Nat
  BY <1>3, FS_CardinalityType
<1>. QED
  BY <1>3, <1>4 DEF Count, TextPlaces

\* A text without images counts all its places.
LEMMA CountAll ==
    ASSUME NEW t, IsSeq(t), NoImages(t)
    PROVE  Count(t) = Len(t)
<1>1. Len(t) \in Nat
  BY SeqFacts
<1>2. TextPlaces(t) = 1 .. Len(t)
  BY DEF TextPlaces, NoImages
<1>3. Cardinality(1 .. Len(t)) = Len(t)
  BY ONLY <1>1, FS_Interval, SMTT(30)
<1>. QED
  BY <1>2, <1>3, CountFacts

Shift(n, i) == n + i
ShiftBy(n, S) == [i \in S |-> Shift(n, i)]

\* Shifted places are as many.
LEMMA ShiftCount ==
    ASSUME NEW n \in Nat, NEW S, IsFiniteSet(S), S \subseteq Nat
    PROVE  /\ IsFiniteSet({Shift(n, i) : i \in S})
           /\ Cardinality({Shift(n, i) : i \in S}) = Cardinality(S)
<1> DEFINE T == {Shift(n, i) : i \in S}
           f == ShiftBy(n, S)
<1>1. f \in Bijection(S, T)
  <2>1. f \in [S -> T] /\ \A i \in S : f[i] = n + i
    BY DEF ShiftBy, Shift
  <2>2. \A i, j \in S : f[i] = f[j] => i = j
    BY <2>1
  <2>3. \A y \in T : \E i \in S : f[i] = y
    BY DEF ShiftBy
  <2> HIDE DEF f, T
  <2>. QED
    BY <2>1, <2>2, <2>3, Fun_IsBij
<1>2. ExistsBijection(S, T)
  BY <1>1 DEF ExistsBijection
<1> HIDE DEF T
<1>3. IsFiniteSet(T) /\ Cardinality(T) = Cardinality(S)
  BY <1>2, FS_Bijection
<1>. QED
  BY <1>3 DEF T

\* The text of one sequence after another.
LEMMA CountJoin ==
    ASSUME NEW s, NEW t, IsSeq(s), IsSeq(t)
    PROVE  Count(s \o t) = Count(s) + Count(t)
<1> DEFINE n == Len(s)
           u == s \o t
           A == TextPlaces(s)
           B == {Shift(n, i) : i \in TextPlaces(t)}
<1>1. n \in Nat /\ Len(t) \in Nat
  BY SeqFacts
<1>2. /\ IsSeq(u) /\ Len(u) = n + Len(t)
      /\ \A i \in 1 .. n : u[i] = s[i]
      /\ \A i \in 1 .. Len(t) : u[n + i] = t[i]
  BY JoinFacts
<1>3. IsFiniteSet(A) /\ Cardinality(A) = Count(s) /\ Count(s) \in Nat
  BY CountFacts
<1>4. IsFiniteSet(TextPlaces(t)) /\ Cardinality(TextPlaces(t)) = Count(t) /\ Count(t) \in Nat
  BY CountFacts
<1>5. IsFiniteSet(B) /\ Cardinality(B) = Count(t)
  <2>1. TextPlaces(t) \subseteq Nat
    BY <1>1 DEF TextPlaces
  <2>. QED
    BY <1>1, <1>4, <2>1, ShiftCount
<1> HIDE DEF n, u
<1>6. A \subseteq 1 .. n
  BY DEF TextPlaces, n
<1>7. B = {j \in n + 1 .. n + Len(t) : ~IsImage(u[j].what)}
  <2>1. ASSUME NEW j \in B PROVE j \in n + 1 .. n + Len(t) /\ ~IsImage(u[j].what)
    BY <1>1, <1>2 DEF TextPlaces, Shift
  <2>2. ASSUME NEW j \in n + 1 .. n + Len(t), ~IsImage(u[j].what) PROVE j \in B
    <3> DEFINE i == j - n
    <3>1. i \in 1 .. Len(t) /\ j = n + i
      BY <1>1
    <3>2. i \in TextPlaces(t)
      BY <1>2, <2>2, <3>1 DEF TextPlaces
    <3>. QED
      BY <3>1, <3>2 DEF Shift
  <2>. QED
    BY <2>1, <2>2
<1>8. A = {j \in 1 .. n : ~IsImage(u[j].what)}
  BY <1>2 DEF TextPlaces, n
<1> HIDE DEF A, B
<1>9. TextPlaces(u) = A \cup B /\ A \cap B = {}
  BY <1>1, <1>2, <1>7, <1>8 DEF TextPlaces
<1>10. Cardinality(A \cup B) = Cardinality(A) + Cardinality(B)
  <2>1. Cardinality(A \cup B) = Cardinality(A) + Cardinality(B) - Cardinality(A \cap B)
    BY <1>3, <1>5, FS_Union
  <2>2. Cardinality(A \cap B) = 0
    BY <1>9, FS_EmptySet
  <2>. QED
    BY <1>3, <1>4, <1>5, <2>1, <2>2
<1>. QED
  BY <1>2, <1>3, <1>5, <1>9, <1>10, CountFacts DEF u

---------------------------------------------------------------------------
(* The items of a text *)

\* Positions are triples.
LEMMA Triples == \A a, b, c : IsSeq(<<a, b, c>>)
<1>1. ASSUME NEW a, NEW b, NEW c PROVE <<a, b, c>> \in Seq({a, b, c})
  OBVIOUS
<1>. QED
  BY <1>1 DEF IsSeq

\* An item for each token, at the positions from p on.
LEMMA ItemsFacts ==
    ASSUME NEW toks, IsSeq(toks), NEW p
    PROVE  /\ IsSeq(TextItems(toks, p)) /\ Len(TextItems(toks, p)) = Len(toks)
           /\ \A i \in 1 .. Len(toks) :
                /\ TextItems(toks, p)[i] = [what |-> <<toks[i]>>, pos |-> TextPosition(p + i - 1)]
                /\ ItemOk(TextItems(toks, p)[i])
                /\ TextItems(toks, p)[i].what[1] = toks[i]
<1> DEFINE s == TextItems(toks, p)
<1>1. Len(toks) \in Nat /\ DOMAIN toks = 1 .. Len(toks)
  BY SeqFacts
<1>2. s = [i \in 1 .. Len(toks) |-> [what |-> <<toks[i]>>, pos |-> TextPosition(p + i - 1)]]
  BY <1>1 DEF TextItems
<1> HIDE DEF s
<1>3. s = [i \in 1 .. Len(toks) |-> s[i]]
  BY <1>2
<1>4. IsSeq(s) /\ Len(s) = Len(toks)
  BY <1>1, <1>3, FunSeq
<1>5. ASSUME NEW i \in 1 .. Len(toks)
      PROVE  /\ s[i] = [what |-> <<toks[i]>>, pos |-> TextPosition(p + i - 1)]
             /\ ItemOk(s[i]) /\ s[i].what[1] = toks[i]
  <2>1. s[i] = [what |-> <<toks[i]>>, pos |-> TextPosition(p + i - 1)]
    BY <1>2
  <2>2. IsSeq(s[i].pos)
    BY <2>1, Triples DEF TextPosition
  <2>3. s[i].what = <<toks[i]>> /\ <<toks[i]>>[1] = toks[i]
    BY <2>1
  <2>. QED
    BY <2>1, <2>2, <2>3 DEF ItemOk
<1>. QED
  BY <1>4, <1>5 DEF s

\* The patches of an image are images, as many as its grid has.
LEMMA PatchFacts ==
    ASSUME NEW piece \in Pieces
    PROVE  /\ IsSeq(Patches(piece))
           /\ \A i \in 1 .. Len(Patches(piece)) :
                ItemOk(Patches(piece)[i]) /\ IsImage(Patches(piece)[i].what)
<1> DEFINE s == Patches(piece)
           n == piece.grid[1] * piece.grid[2]
           Row(i) == (i - 1) \div piece.grid[2]
           Col(i) == (i - 1) % piece.grid[2]
<1>1. n \in Nat
  BY DEF Pieces
<1>2. s = [i \in 1 .. n |-> [what |-> <<0, i>>, pos |-> ImagePosition(Row(i), Col(i))]]
  BY DEF Patches
<1> HIDE DEF s, n, Row, Col
<1>3. s = [i \in 1 .. n |-> s[i]]
  BY <1>2
<1>4. IsSeq(s) /\ Len(s) = n
  BY <1>1, <1>3, FunSeq
<1>5. ASSUME NEW i \in 1 .. n PROVE ItemOk(s[i]) /\ IsImage(s[i].what)
  <2>1. s[i].what = <<0, i>> /\ s[i].pos = <<0, Row(i), Col(i)>>
    BY <1>2 DEF ImagePosition
  <2>2. IsSeq(s[i].pos)
    BY <2>1, Triples
  <2>3. IsImage(s[i].what)
    BY <2>1 DEF IsImage
  <2>. QED
    BY <2>2, <2>3 DEF ItemOk
<1>. QED
  BY <1>4, <1>5 DEF s

\* One text after another: text items at the places that follow.
LEMMA TextJoin ==
    ASSUME NEW s, NEW t, TextOk(s), IsSeq(t), \A i \in 1 .. Len(t) : ItemOk(t[i]),
           NoImages(s) /\ NoImages(t) =>
               \A i \in 1 .. Len(t) : t[i].pos = TextPosition(Len(s) + i - 1)
    PROVE  TextOk(s \o t) /\ (NoImages(s \o t) => NoImages(s) /\ NoImages(t))
<1> DEFINE u == s \o t
           n == Len(s)
<1>0. IsSeq(s) /\ \A i \in 1 .. Len(s) : ItemOk(s[i])
  BY DEF TextOk
<1>1. n \in Nat /\ Len(t) \in Nat
  BY <1>0, SeqFacts
<1>2. /\ IsSeq(u) /\ Len(u) = n + Len(t)
      /\ \A i \in 1 .. n : u[i] = s[i]
      /\ \A i \in 1 .. Len(t) : u[n + i] = t[i]
  BY <1>0, JoinFacts
<1> HIDE DEF u
<1>3. ASSUME NEW i \in 1 .. Len(u)
      PROVE  \/ i \in 1 .. n /\ u[i] = s[i]
             \/ \E k \in 1 .. Len(t) : i = n + k /\ u[i] = t[k]
  <2>1. CASE i <= n
    BY <1>1, <1>2, <2>1
  <2>2. CASE ~(i <= n)
    <3>1. i - n \in 1 .. Len(t) /\ i = n + (i - n)
      BY <1>1, <1>2, <2>2
    <3>. QED
      BY <1>2, <3>1
  <2>. QED
    BY <2>1, <2>2
<1>4. \A i \in 1 .. Len(u) : ItemOk(u[i])
  BY <1>0, <1>3
<1>5. ASSUME NoImages(u) PROVE NoImages(s) /\ NoImages(t)
  <2>1. ASSUME NEW i \in 1 .. Len(s) PROVE ~IsImage(s[i].what)
    <3>1. i \in 1 .. Len(u) /\ u[i] = s[i]
      BY <1>1, <1>2
    <3>. QED
      BY <1>5, <3>1 DEF NoImages
  <2>2. ASSUME NEW i \in 1 .. Len(t) PROVE ~IsImage(t[i].what)
    <3>1. n + i \in 1 .. Len(u) /\ u[n + i] = t[i]
      BY <1>1, <1>2
    <3>. QED
      BY <1>5, <3>1 DEF NoImages
  <2>. QED
    BY <2>1, <2>2 DEF NoImages
<1>6. ASSUME NoImages(u), NEW i \in 1 .. Len(u) PROVE u[i].pos = TextPosition(i - 1)
  <2>1. CASE i \in 1 .. n /\ u[i] = s[i]
    BY <1>5, <1>6, <2>1 DEF TextOk
  <2>2. ASSUME NEW k \in 1 .. Len(t), i = n + k, u[i] = t[k] PROVE u[i].pos = TextPosition(i - 1)
    BY <1>5, <1>6, <2>2
  <2>. QED
    BY <1>3, <2>1, <2>2
<1>7. TextOk(u)
  BY <1>2, <1>4, <1>6 DEF TextOk
<1>. QED
  BY <1>5, <1>7 DEF u

\* Two texts without images make one.
LEMMA NoImagesJoin ==
    ASSUME NEW s, NEW t, IsSeq(s), IsSeq(t), NoImages(s), NoImages(t)
    PROVE  NoImages(s \o t)
<1> DEFINE u == s \o t
           n == Len(s)
<1>1. n \in Nat /\ Len(t) \in Nat
  BY SeqFacts
<1>2. /\ IsSeq(u) /\ Len(u) = n + Len(t)
      /\ \A i \in 1 .. n : u[i] = s[i]
      /\ \A i \in 1 .. Len(t) : u[n + i] = t[i]
  BY JoinFacts
<1> HIDE DEF u
<1>3. ASSUME NEW i \in 1 .. Len(u) PROVE ~IsImage(u[i].what)
  <2>1. CASE i <= n
    <3>1. i \in 1 .. n
      BY <1>1, <1>2, <2>1
    <3>. QED
      BY <1>2, <3>1 DEF NoImages, n
  <2>2. CASE ~(i <= n)
    <3>1. i - n \in 1 .. Len(t) /\ i = n + (i - n)
      BY <1>1, <1>2, <2>2
    <3>2. u[i] = t[i - n]
      BY <1>2, <3>1
    <3>. QED
      BY <3>1, <3>2 DEF NoImages
  <2>. QED
    BY <2>1, <2>2
<1>. QED
  BY <1>3 DEF NoImages, u

---------------------------------------------------------------------------
(* A prompt of tokens and images *)

NoItems == [items |-> <<>>, text_pos |-> 0]
IsExpanded(f, prompt, n) ==
    f = [i \in 0 .. n |-> IF i = 0 THEN NoItems ELSE Then(f[i - 1], prompt[i])]

\* There is a function that takes a prompt piece by piece.
LEMMA ExpandExists ==
    ASSUME NEW prompt, NEW n \in Nat
    PROVE  \E f : IsExpanded(f, prompt, n)
<1> DEFINE e == NoItems
           G(l, x) == Then(x, prompt[l])
           P(k) == \E f : f = [l \in 0 .. k |-> IF l = 0 THEN e ELSE G(l, f[l - 1])]
           S == {k \in Nat : P(k)}
<1> HIDE DEF e, G
<1>1. 0 \in S
  <2> DEFINE f == [l \in 0 .. 0 |-> e]
  <2>1. f = [l \in 0 .. 0 |-> IF l = 0 THEN e ELSE G(l, f[l - 1])]
    <3>1. \A l \in 0 .. 0 : e = IF l = 0 THEN e ELSE G(l, f[l - 1])
      OBVIOUS
    <3> HIDE DEF f
    <3>2. [l \in 0 .. 0 |-> e] = [l \in 0 .. 0 |-> IF l = 0 THEN e ELSE G(l, f[l - 1])]
      BY <3>1
    <3>. QED
      BY <3>2 DEF f
  <2> HIDE DEF f
  <2>2. P(0)
    BY <2>1
  <2>. QED
    BY <2>2
<1>2. ASSUME NEW k \in Nat, k \in S PROVE k + 1 \in S
  <2>1. PICK f : f = [l \in 0 .. k |-> IF l = 0 THEN e ELSE G(l, f[l - 1])]
    BY <1>2
  <2> DEFINE g == [l \in 0 .. k + 1 |-> IF l \in 0 .. k THEN f[l] ELSE G(l, f[k])]
  <2>2. ASSUME NEW l \in 0 .. k + 1
        PROVE  g[l] = IF l = 0 THEN e ELSE G(l, g[l - 1])
    <3>1. CASE l \in 0 .. k
      <4>1. g[l] = f[l] /\ f[l] = IF l = 0 THEN e ELSE G(l, f[l - 1])
        BY <2>1, <3>1
      <4>2. l # 0 => g[l - 1] = f[l - 1]
        BY <1>2, <3>1
      <4> HIDE DEF g
      <4>. QED
        BY <4>1, <4>2
    <3>2. CASE ~(l \in 0 .. k)
      <4>1. l = k + 1 /\ l # 0 /\ l - 1 = k
        BY <1>2, <3>2
      <4>2. g[l] = G(l, f[k]) /\ g[l - 1] = f[k]
        BY <1>2, <3>2, <4>1
      <4> HIDE DEF g
      <4>. QED
        BY <4>1, <4>2
    <3>. QED
      BY <3>1, <3>2
  <2>3. g = [l \in 0 .. k + 1 |-> g[l]]
    OBVIOUS
  <2> HIDE DEF g
  <2>4. g = [l \in 0 .. k + 1 |-> IF l = 0 THEN e ELSE G(l, g[l - 1])]
    BY <2>2, <2>3
  <2>5. P(k + 1)
    BY <2>4
  <2>. QED
    BY <1>2, <2>5
<1>3. \A k \in Nat : k \in S
  <2> HIDE DEF S
  <2>. QED
    BY <1>1, <1>2, SetInduction
<1>4. P(n)
  BY <1>3
<1>. QED
  BY <1>4 DEF e, G, IsExpanded

\* What is made of a prompt, up to any piece: a text, and how much of it is text.
ExpandedOk(acc) ==
    /\ TextOk(acc.items) /\ acc.text_pos = Count(acc.items)

\* A piece more keeps the items of a prompt those of a text.
LEMMA ThenKeeps ==
    ASSUME NEW acc, ExpandedOk(acc), NEW piece \in Pieces
    PROVE  ExpandedOk(Then(acc, piece))
<1> DEFINE s == acc.items
<1>1. TextOk(s) /\ IsSeq(s) /\ acc.text_pos = Count(s)
  BY DEF ExpandedOk, TextOk
<1>2. Count(s) \in Nat /\ Len(s) \in Nat
  BY <1>1, CountFacts, SeqFacts
<1>3. CASE piece.tok # 0
  <2> DEFINE e == [what |-> <<piece.tok>>, pos |-> TextPosition(acc.text_pos)]
             t == <<e>>
             u == s \o t
  <2>1. IsSeq(t) /\ Len(t) = 1 /\ t[1] = e
    BY SmallSeqs
  <2>2. Append(s, e) = u
    <3>1. PICK S : s \in Seq(S)
      BY <1>1 DEF IsSeq
    <3> DEFINE T == S \cup {e}
    <3>2. s \in Seq(T)
      BY <3>1, SeqMonotonic
    <3>3. e \in T
      OBVIOUS
    <3> HIDE DEF T, e
    <3>. QED
      BY <3>2, <3>3, AppendIsConcat
  <2>3. Then(acc, piece).items = u /\ Then(acc, piece).text_pos = Count(s) + 1
    BY <1>1, <1>3, <2>2 DEF Then
  <2>4. ItemOk(e) /\ ~IsImage(e.what)
    <3>1. e.what = <<piece.tok>> /\ e.what[1] = piece.tok
      OBVIOUS
    <3>2. IsSeq(e.pos)
      BY Triples DEF TextPosition
    <3>. QED
      BY <1>3, <3>1, <3>2 DEF ItemOk, IsImage
  <2>5. e.pos = TextPosition(Count(s))
    BY <1>1
  <2> HIDE DEF e, t, u
  <2>6. NoImages(t) /\ \A i \in 1 .. Len(t) : ItemOk(t[i])
    BY <2>1, <2>4 DEF NoImages
  <2>7. ASSUME NoImages(s) PROVE \A i \in 1 .. Len(t) : t[i].pos = TextPosition(Len(s) + i - 1)
    <3>1. Count(s) = Len(s) /\ Len(s) + 1 - 1 = Len(s)
      BY <1>1, <1>2, <2>7, CountAll
    <3>2. t[1].pos = TextPosition(Len(s) + 1 - 1)
      BY <2>1, <2>5, <3>1
    <3>3. \A i \in 1 .. Len(t) : i = 1
      BY <2>1
    <3>. QED
      BY <3>2, <3>3
  <2>8. TextOk(u)
    BY <1>1, <2>1, <2>6, <2>7, TextJoin DEF u
  <2>9. Count(u) = Count(s) + 1
    <3>1. Count(t) = 1
      BY <2>1, <2>6, CountAll
    <3>2. Count(s \o t) = Count(s) + Count(t)
      BY <1>1, <2>1, CountJoin
    <3>. QED
      BY <3>1, <3>2 DEF u
  <2>. QED
    BY <2>3, <2>8, <2>9 DEF ExpandedOk
<1>4. CASE piece.tok = 0
  <2> DEFINE t == Patches(piece)
             u == s \o t
  <2>1. IsSeq(t) /\ \A i \in 1 .. Len(t) : ItemOk(t[i]) /\ IsImage(t[i].what)
    BY PatchFacts
  <2>2. Then(acc, piece).items = u /\ Then(acc, piece).text_pos = Count(s)
    BY <1>1, <1>4 DEF Then
  <2> HIDE DEF t, u
  <2>3. NoImages(t) => \A i \in 1 .. Len(t) : FALSE
    BY <2>1 DEF NoImages
  <2>4. TextOk(u)
    BY <1>1, <2>1, <2>3, TextJoin DEF u
  <2>5. Count(t) = 0
    <3>1. TextPlaces(t) = {}
      BY <2>1 DEF TextPlaces
    <3>. QED
      BY <2>1, <3>1, CountFacts, FS_EmptySet
  <2>6. Count(u) = Count(s)
    BY <1>1, <1>2, <2>1, <2>5, CountJoin DEF u
  <2>. QED
    BY <2>2, <2>4, <2>6 DEF ExpandedOk
<1>. QED
  BY <1>3, <1>4

\* The items of a prompt are a text, of which text_pos says how much is text.
LEMMA ExpandFacts ==
    ASSUME NEW prompt \in Prompts
    PROVE  ExpandedOk(Expand(prompt))
<1> DEFINE n == Len(prompt)
           F == CHOOSE f : f = [i \in 0 .. n |-> IF i = 0 THEN NoItems ELSE Then(f[i - 1], prompt[i])]
           S == {i \in Nat : i <= n => ExpandedOk(F[i])}
<1>1. prompt \in Seq(Pieces) /\ n \in Nat /\ \A i \in 1 .. n : prompt[i] \in Pieces
  BY PassAssumption
<1>2. Expand(prompt) = F[n]
  BY DEF Expand, NoItems
<1>3. \E f : f = [i \in 0 .. n |-> IF i = 0 THEN NoItems ELSE Then(f[i - 1], prompt[i])]
  <2>1. \E f : IsExpanded(f, prompt, n)
    BY <1>1, ExpandExists
  <2>. QED
    BY <2>1 DEF IsExpanded
<1>4. F = [i \in 0 .. n |-> IF i = 0 THEN NoItems ELSE Then(F[i - 1], prompt[i])]
  BY <1>3
<1> HIDE DEF F, n
<1>5. F[0] = NoItems /\ \A i \in 1 .. n : F[i] = Then(F[i - 1], prompt[i])
  BY <1>1, <1>4
<1>6. 0 \in S
  <2>1. NoItems.items = <<>> /\ NoItems.text_pos = 0
    BY DEF NoItems
  <2>2. IsSeq(<<>>) /\ Len(<<>>) = 0
    BY SmallSeqs
  <2>3. \A i \in 1 .. Len(<<>>) : FALSE
    BY <2>2
  <2>4. NoImages(<<>>) /\ TextOk(<<>>)
    BY <2>2, <2>3 DEF NoImages, TextOk
  <2>5. Count(<<>>) = 0
    BY <2>2, <2>4, CountAll
  <2>6. ExpandedOk(NoItems)
    BY <2>1, <2>4, <2>5 DEF ExpandedOk
  <2>. QED
    BY <1>5, <2>6
<1>7. ASSUME NEW i \in Nat, i \in S PROVE i + 1 \in S
  <2> SUFFICES ASSUME i + 1 <= n PROVE ExpandedOk(F[i + 1])
    BY <1>7
  <2>1. ExpandedOk(F[i]) /\ i + 1 \in 1 .. n /\ i + 1 - 1 = i
    BY <1>1, <1>7
  <2>2. F[i + 1] = Then(F[i], prompt[i + 1]) /\ prompt[i + 1] \in Pieces
    BY <1>1, <1>5, <2>1 DEF n
  <2>. QED
    BY <2>1, <2>2, ThenKeeps
<1>8. \A i \in Nat : i \in S
  <2> HIDE DEF S
  <2>. QED
    BY <1>6, <1>7, SetInduction
<1>. QED
  BY <1>1, <1>2, <1>8

---------------------------------------------------------------------------
(* What a pass does to the cache KvCache keeps *)

\* The smaller of two numbers, and the larger.
LEMMA MinTwo ==
    ASSUME NEW a \in Int, NEW b \in Int
    PROVE  /\ Min({a, b}) = IF a <= b THEN a ELSE b
           /\ Cache!Min({a, b}) = IF a <= b THEN a ELSE b
BY DEF Min, Cache!Min

\* The larger of two numbers.
LEMMA MaxTwo ==
    ASSUME NEW a \in Int, NEW b \in Int
    PROVE  /\ Max({a, b}) = IF a <= b THEN b ELSE a
           /\ Cache!Max({a, b}) = IF a <= b THEN b ELSE a
BY DEF Max, Cache!Max

\* Cut to a length.
LEMMA ShortenFacts ==
    ASSUME NEW s, IsSeq(s), NEW n \in Nat
    PROVE  /\ IsSeq(Cache!Shorten(s, n))
           /\ Len(Cache!Shorten(s, n)) = IF n <= Len(s) THEN n ELSE Len(s)
           /\ \A i \in 1 .. Len(Cache!Shorten(s, n)) : Cache!Shorten(s, n)[i] = s[i]
<1> DEFINE k == IF n <= Len(s) THEN n ELSE Len(s)
<1>0. Len(s) \in Nat
  BY SeqFacts
<1>1. k \in 0 .. Len(s) /\ Cache!Shorten(s, n) = SubSeq(s, 1, k)
  <2> DEFINE h == Len(s)
  <2>1. h \in Int /\ n \in Int /\ Cache!Shorten(s, n) = SubSeq(s, 1, Cache!Min({n, h}))
    BY <1>0 DEF Cache!Shorten
  <2> HIDE DEF h
  <2>2. Cache!Min({n, h}) = IF n <= h THEN n ELSE h
    BY <2>1, MinTwo
  <2>3. k = Cache!Min({n, h})
    BY <2>2 DEF h
  <2>4. k \in 0 .. Len(s)
    BY <1>0
  <2> HIDE DEF k
  <2>. QED
    BY <2>1, <2>3, <2>4
<1> HIDE DEF k
<1>2. /\ IsSeq(SubSeq(s, 1, k)) /\ Len(SubSeq(s, 1, k)) = k
      /\ \A i \in 1 .. k : SubSeq(s, 1, k)[i] = s[i]
  BY <1>1, FirstFacts
<1>. QED
  BY <1>1, <1>2 DEF k

\* The kind of recurrent layers a network has.
LEMMA KindFacts ==
    ASSUME NEW m \in Networks
    PROVE  /\ AbsOf(m).mrope = m.mrope /\ AbsOf(m).bf16 = FALSE
           /\ AbsOf(m).recurrent \in {"none", "conv", "deltanet"}
           /\ \A l \in Places(m) : m.blocks[l] = "conv" => AbsOf(m).recurrent = "conv"
           /\ \A l \in Places(m) : m.blocks[l] = "deltanet" => AbsOf(m).recurrent = "deltanet"
<1>1. /\ \A l \in Places(m) : m.blocks[l] \in Blocks
      /\ \/ \A l \in Places(m) : m.blocks[l] # "conv"
         \/ \A l \in Places(m) : m.blocks[l] # "deltanet"
  BY NetFacts
<1> DEFINE r == IF \E l \in Places(m) : m.blocks[l] = "conv" THEN "conv"
                ELSE IF \E l \in Places(m) : m.blocks[l] = "deltanet" THEN "deltanet" ELSE "none"
<1>2. /\ r \in {"none", "conv", "deltanet"}
      /\ \A l \in Places(m) : m.blocks[l] = "conv" => r = "conv"
      /\ \A l \in Places(m) : m.blocks[l] = "deltanet" => r = "deltanet"
  BY <1>1
<1>3. AbsOf(m) = [mrope |-> m.mrope, bf16 |-> FALSE, recurrent |-> r]
  BY DEF AbsOf
<1> HIDE DEF r
<1>. QED
  BY <1>2, <1>3

\* Where a pass puts its first token.
FedPos(m, c) == IF m.mrope THEN c.text_pos ELSE c.seq_len
Spots(toks, q) == [i \in DOMAIN toks |-> [tok |-> toks[i], pos |-> q + i - 1]]
RawOf(m, c, toks) ==
    c.layer \o [i \in DOMAIN toks |->
        [tok |-> toks[i], pos |-> Cache!Position(AbsOf(m), c) + i - 1, sound |-> FALSE]]
SeenBy(m, p, c, toks, i) ==
    IF p.form # "decode" THEN Cache!Shorten(RawOf(m, c, toks), c.seq_len + i)
                         ELSE RawOf(m, c, toks)
StateOf(m, p, c, toks) == Cache!StateAfter(AbsOf(m), c, toks, p.form # "decode")
GoodAt(m, p, c, toks, i) ==
    /\ Len(SeenBy(m, p, c, toks, i)) = Len(c.layer) + i
    /\ Cache!FromScratch(AbsOf(m), SeenBy(m, p, c, toks, i), StateOf(m, p, c, SubSeq(toks, 1, i)))
AllSound(m, p, c, toks, i) ==
    /\ \A j \in 1 .. Len(c.layer) : c.layer[j].sound
    /\ \A j \in 1 .. i : GoodAt(m, p, c, toks, j)
NewOf(m, p, c, toks) ==
    [i \in DOMAIN toks |->
        [RawOf(m, c, toks)[Len(c.layer) + i] EXCEPT !.sound = AllSound(m, p, c, toks, i)]]

\* A pass, by its parts.
PartsOf(m, p, c, toks) ==
    [layer    |-> c.layer \o NewOf(m, p, c, toks),
     flat     |-> IF AbsOf(m).bf16 THEN c.flat \o NewOf(m, p, c, toks) ELSE c.flat,
     state    |-> StateOf(m, p, c, toks),
     seq_len  |-> c.seq_len + Len(toks),
     text_pos |-> IF AbsOf(m).mrope THEN c.text_pos + Len(toks) ELSE c.text_pos]

\* What a pass leaves has these parts.
LEMMA FedParts ==
    ASSUME NEW m, NEW p, NEW c, p.next # 0
    PROVE  FedOf(m, p, c) = PartsOf(m, p, c, ToksOf(p.items))
BY DEF FedOf, PartsOf, Cache!Feed, NewOf, AllSound, GoodAt, SeenBy, RawOf, StateOf

\* The tokens of items.
LEMMA ToksFacts ==
    ASSUME NEW items, IsSeq(items)
    PROVE  /\ IsSeq(ToksOf(items)) /\ Len(ToksOf(items)) = Len(items)
           /\ \A i \in 1 .. Len(items) : ToksOf(items)[i] = items[i].what[1]
<1> DEFINE s == ToksOf(items)
<1>1. Len(items) \in Nat /\ s = [i \in 1 .. Len(items) |-> items[i].what[1]]
  BY SeqFacts DEF ToksOf
<1> HIDE DEF s
<1>2. s = [i \in 1 .. Len(items) |-> s[i]]
  BY <1>1
<1>3. IsSeq(s) /\ Len(s) = Len(items)
  BY <1>1, <1>2, FunSeq
<1>. QED
  BY <1>1, <1>3 DEF s

\* Tokens with their positions.
LEMMA SpotsFacts ==
    ASSUME NEW toks, IsSeq(toks), NEW q
    PROVE  /\ IsSeq(Spots(toks, q)) /\ Len(Spots(toks, q)) = Len(toks)
           /\ \A i \in 1 .. Len(toks) :
                /\ Spots(toks, q)[i] = [tok |-> toks[i], pos |-> q + i - 1]
                /\ Spots(toks, q)[i].tok = toks[i] /\ Spots(toks, q)[i].pos = q + i - 1
<1> DEFINE s == Spots(toks, q)
<1>1. Len(toks) \in Nat /\ s = [i \in 1 .. Len(toks) |-> [tok |-> toks[i], pos |-> q + i - 1]]
  BY SeqFacts DEF Spots
<1> HIDE DEF s
<1>2. s = [i \in 1 .. Len(toks) |-> s[i]]
  BY <1>1
<1>3. IsSeq(s) /\ Len(s) = Len(toks)
  BY <1>1, <1>2, FunSeq
<1>4. ASSUME NEW i \in 1 .. Len(toks)
      PROVE  /\ s[i] = [tok |-> toks[i], pos |-> q + i - 1]
             /\ s[i].tok = toks[i] /\ s[i].pos = q + i - 1
  BY <1>1
<1>. QED
  BY <1>3, <1>4 DEF s

\* The state after a pass.
LEMMA StateParts ==
    ASSUME NEW m \in Networks, NEW p, NEW c, NEW toks
    PROVE  StateOf(m, p, c, toks) =
             IF AbsOf(m).recurrent = "none" THEN <<>>
             ELSE IF AbsOf(m).recurrent = "conv" /\ p.form # "decode"
                  THEN Spots(toks, FedPos(m, c)) ELSE c.state \o Spots(toks, FedPos(m, c))
<1>1. AbsOf(m).mrope = m.mrope
  BY KindFacts
<1>. QED
  BY <1>1 DEF StateOf, Cache!StateAfter, Cache!Placed, Cache!Position, Spots, FedPos

\* What is appended, before it is known whether it is sound.
RawOk(m, c, toks, raw) ==
    /\ IsSeq(raw) /\ Len(raw) = Len(c.layer) + Len(toks)
    /\ \A i \in 1 .. Len(c.layer) : raw[i] = c.layer[i]
    /\ \A i \in 1 .. Len(toks) :
         raw[Len(c.layer) + i] = [tok |-> toks[i], pos |-> FedPos(m, c) + i - 1, sound |-> FALSE]

\* The entries of a pass come after those of the cache.
LEMMA RawFacts ==
    ASSUME NEW m \in Networks, NEW c, IsSeq(c.layer), NEW toks, IsSeq(toks)
    PROVE  RawOk(m, c, toks, RawOf(m, c, toks))
<1> DEFINE E(i) == [tok |-> toks[i], pos |-> FedPos(m, c) + i - 1, sound |-> FALSE]
           t == [i \in 1 .. Len(toks) |-> E(i)]
           a == c.layer
<1>1. Len(toks) \in Nat /\ DOMAIN toks = 1 .. Len(toks)
  BY SeqFacts
<1>2. RawOf(m, c, toks) = a \o t
  <2>1. AbsOf(m).mrope = m.mrope
    BY KindFacts
  <2>. QED
    BY <1>1, <2>1 DEF RawOf, Cache!Position, FedPos
<1> HIDE DEF E
<1>3. t = [i \in 1 .. Len(toks) |-> t[i]] /\ \A i \in 1 .. Len(toks) : t[i] = E(i)
  OBVIOUS
<1> HIDE DEF t
<1>4. IsSeq(t) /\ Len(t) = Len(toks)
  BY <1>1, <1>3, FunSeq
<1>5. /\ IsSeq(a \o t) /\ Len(a \o t) = Len(a) + Len(t)
      /\ \A i \in 1 .. Len(a) : (a \o t)[i] = a[i]
      /\ \A i \in 1 .. Len(t) : (a \o t)[Len(a) + i] = t[i]
  BY <1>4, JoinFacts
<1>6. RawOk(m, c, toks, a \o t)
  BY <1>3, <1>4, <1>5 DEF E, RawOk
<1>. QED
  BY <1>2, <1>6

\* What is appended: new, the tokens toks.
NewOk(m, p, c, toks, new) ==
    /\ IsSeq(new) /\ Len(new) = Len(toks)
    /\ \A i \in 1 .. Len(toks) :
         /\ new[i].tok = toks[i] /\ new[i].pos = FedPos(m, c) + i - 1
         /\ new[i].sound <=> AllSound(m, p, c, toks, i)

\* The entries of a pass, in full.
LEMMA NewFacts ==
    ASSUME NEW m \in Networks, NEW p, NEW c, IsSeq(c.layer), NEW toks, IsSeq(toks)
    PROVE  NewOk(m, p, c, toks, NewOf(m, p, c, toks))
<1> DEFINE N == NewOf(m, p, c, toks)
           All(i) == AllSound(m, p, c, toks, i)
<1>1. Len(toks) \in Nat /\ DOMAIN toks = 1 .. Len(toks)
  BY SeqFacts
<1>2. N = [i \in 1 .. Len(toks) |-> [RawOf(m, c, toks)[Len(c.layer) + i] EXCEPT !.sound = All(i)]]
  BY <1>1 DEF NewOf
<1> HIDE DEF N, All
<1>3. ASSUME NEW i \in 1 .. Len(toks)
      PROVE  N[i] = [tok |-> toks[i], pos |-> FedPos(m, c) + i - 1, sound |-> All(i)]
  <2>1. RawOf(m, c, toks)[Len(c.layer) + i] =
            [tok |-> toks[i], pos |-> FedPos(m, c) + i - 1, sound |-> FALSE]
    <3>1. RawOk(m, c, toks, RawOf(m, c, toks))
      BY RawFacts
    <3>. QED
      BY <3>1 DEF RawOk
  <2>2. N[i] = [RawOf(m, c, toks)[Len(c.layer) + i] EXCEPT !.sound = All(i)]
    BY <1>2
  <2>. QED
    BY <2>1, <2>2
<1>4. ASSUME NEW i \in 1 .. Len(toks)
      PROVE N[i].tok = toks[i] /\ N[i].pos = FedPos(m, c) + i - 1 /\ (N[i].sound <=> All(i))
  <2> DEFINE q == toks[i]
             r == FedPos(m, c) + i - 1
             b == All(i)
  <2>1. N[i] = [tok |-> q, pos |-> r, sound |-> b] /\ b \in BOOLEAN
    BY <1>3 DEF All, AllSound
  <2> HIDE DEF q, r, b
  <2>2. N[i].tok = q /\ N[i].pos = r /\ N[i].sound = b
    BY <2>1
  <2>. QED
    BY <2>2 DEF q, r, b
<1>5. N = [i \in 1 .. Len(toks) |-> N[i]]
  BY <1>2
<1>6. IsSeq(N) /\ Len(N) = Len(toks)
  BY <1>1, <1>5, FunSeq
<1>7. NewOk(m, p, c, toks, N)
  BY <1>4, <1>6 DEF NewOk, All
<1>. QED
  BY <1>7 DEF N

\* The cache f after a pass.
FedOk(m, p, c, f) ==
    /\ f = [layer |-> f.layer, flat |-> f.flat, state |-> f.state, seq_len |-> f.seq_len,
            text_pos |-> f.text_pos]
    /\ IsSeq(f.layer) /\ IsSeq(f.state) /\ Len(f.layer) = Len(c.layer) + Len(p.items)
    /\ f.seq_len = c.seq_len + Len(p.items)
    /\ f.text_pos = IF m.mrope THEN c.text_pos + Len(p.items) ELSE c.text_pos
    /\ f.state = StateOf(m, p, c, ToksOf(p.items))
    /\ \A j \in 1 .. Len(c.layer) : f.layer[j] = c.layer[j]
    /\ \A i \in 1 .. Len(p.items) :
         /\ f.layer[Len(c.layer) + i].tok = p.items[i].what[1]
         /\ f.layer[Len(c.layer) + i].pos = FedPos(m, c) + i - 1
         /\ f.layer[Len(c.layer) + i].sound <=> AllSound(m, p, c, ToksOf(p.items), i)

\* What KvCache has after a pass, place by place.
LEMMA FedFacts ==
    ASSUME NEW m \in Networks, NEW p, p.next # 0, IsSeq(p.items),
           NEW c, IsSeq(c.layer), IsSeq(c.state)
    PROVE  FedOk(m, p, c, FedOf(m, p, c))
<1> DEFINE toks == ToksOf(p.items)
           new == NewOf(m, p, c, toks)
           f == FedOf(m, p, c)
           a == c.layer
           n == Len(p.items)
           st == StateOf(m, p, c, toks)
           tp == IF m.mrope THEN c.text_pos + n ELSE c.text_pos
<1>1. IsSeq(toks) /\ Len(toks) = n /\ \A i \in 1 .. n : toks[i] = p.items[i].what[1]
  BY ToksFacts
<1>2. NewOk(m, p, c, toks, new)
  <2> HIDE DEF toks
  <2>. QED
    BY <1>1, NewFacts
<1>3. f = [layer |-> a \o new, flat |-> c.flat, state |-> st,
           seq_len |-> c.seq_len + n, text_pos |-> tp]
  <2>1. AbsOf(m).bf16 = FALSE /\ AbsOf(m).mrope = m.mrope
    BY KindFacts
  <2>2. f = PartsOf(m, p, c, toks)
    BY FedParts
  <2> HIDE DEF f, toks
  <2>. QED
    BY <1>1, <2>1, <2>2 DEF PartsOf
<1>4. /\ IsSeq(a \o new) /\ Len(a \o new) = Len(a) + n
      /\ \A i \in 1 .. Len(a) : (a \o new)[i] = a[i]
      /\ \A i \in 1 .. n : (a \o new)[Len(a) + i] = new[i]
  <2>1. IsSeq(new) /\ Len(new) = n /\ IsSeq(a)
    BY <1>1, <1>2 DEF NewOk
  <2> HIDE DEF new, a, n
  <2>. QED
    BY <2>1, JoinFacts
<1>5. IsSeq(st)
  <2> HIDE DEF toks
  <2>1. IsSeq(Spots(toks, FedPos(m, c)))
    BY <1>1, SpotsFacts
  <2> HIDE DEF st
  <2>2. IsSeq(c.state \o Spots(toks, FedPos(m, c)))
    BY <2>1, JoinFacts
  <2>3. IsSeq(<<>>)
    BY SmallSeqs
  <2>. QED
    BY <2>1, <2>2, <2>3, StateParts DEF st
<1> HIDE DEF toks, new, f, a, n, st, tp
<1>6. /\ f = [layer |-> f.layer, flat |-> f.flat, state |-> f.state, seq_len |-> f.seq_len,
              text_pos |-> f.text_pos]
      /\ f.layer = a \o new /\ f.state = st /\ f.seq_len = c.seq_len + n /\ f.text_pos = tp
  BY <1>3
<1>7. ASSUME NEW i \in 1 .. n
      PROVE  /\ f.layer[Len(a) + i].tok = p.items[i].what[1]
             /\ f.layer[Len(a) + i].pos = FedPos(m, c) + i - 1
             /\ f.layer[Len(a) + i].sound <=> AllSound(m, p, c, toks, i)
  <2>1. f.layer[Len(a) + i] = new[i]
    BY <1>4, <1>6
  <2>2. /\ new[i].tok = toks[i] /\ new[i].pos = FedPos(m, c) + i - 1
        /\ new[i].sound <=> AllSound(m, p, c, toks, i)
    BY <1>1, <1>2 DEF NewOk
  <2>. QED
    BY <1>1, <2>1, <2>2
<1>8. \A j \in 1 .. Len(a) : f.layer[j] = a[j]
  BY <1>4, <1>6
<1>9. IsSeq(f.layer) /\ Len(f.layer) = Len(a) + n /\ IsSeq(f.state)
  BY <1>4, <1>5, <1>6
<1>10. FedOk(m, p, c, f)
  BY <1>6, <1>7, <1>8, <1>9 DEF FedOk, a, n, toks, st, tp
<1>. QED
  BY <1>10 DEF f

\* An entry is sound only if all before it are.
LEMMA FedSticky ==
    ASSUME NEW m \in Networks, NEW p, p.next # 0, IsSeq(p.items),
           NEW c, IsSeq(c.layer), IsSeq(c.state), NEW f, FedOk(m, p, c, f),
           NEW i \in 1 .. Len(p.items), f.layer[Len(c.layer) + i].sound
    PROVE  \A j \in 1 .. Len(c.layer) + i : f.layer[j].sound
<1> DEFINE toks == ToksOf(p.items)
           a == c.layer
           n == Len(p.items)
<1>1. /\ \A j \in 1 .. Len(a) : f.layer[j] = a[j]
      /\ \A h \in 1 .. n : f.layer[Len(a) + h].sound <=> AllSound(m, p, c, toks, h)
  BY DEF FedOk
<1>2. Len(a) \in Nat /\ n \in Nat
  BY SeqFacts
<1> HIDE DEF toks
<1>3. AllSound(m, p, c, toks, i)
  BY <1>1
<1>4. /\ \A j \in 1 .. Len(a) : a[j].sound
      /\ \A j \in 1 .. i : GoodAt(m, p, c, toks, j)
  BY <1>3 DEF AllSound
<1> HIDE DEF a, n
<1>5. ASSUME NEW h \in 1 .. i PROVE f.layer[Len(a) + h].sound
  <2>1. h \in 1 .. n /\ \A j \in 1 .. h : j \in 1 .. i
    BY <1>2 DEF n
  <2>2. AllSound(m, p, c, toks, h)
    BY <1>4, <2>1 DEF AllSound, a
  <2>. QED
    BY <1>1, <2>1, <2>2
<1>6. ASSUME NEW j \in 1 .. Len(a) + i PROVE f.layer[j].sound
  <2>1. CASE j <= Len(a)
    <3>1. j \in 1 .. Len(a)
      BY <1>2, <2>1
    <3>. QED
      BY <1>1, <1>4, <3>1
  <2>2. CASE ~(j <= Len(a))
    <3>1. j - Len(a) \in 1 .. i /\ j = Len(a) + (j - Len(a))
      BY <1>2, <2>2 DEF n
    <3>. QED
      BY <1>5, <3>1
  <2>. QED
    BY <2>1, <2>2
<1>. QED
  BY <1>6 DEF a

\* The last ConvLCache of a sequence, or all of a shorter one.
LEMMA WindowFacts ==
    ASSUME NEW s, IsSeq(s)
    PROVE  \E w \in Nat :
             /\ w = IF Len(s) <= ConvLCache THEN Len(s) ELSE ConvLCache
             /\ IsSeq(Cache!Window(s)) /\ Len(Cache!Window(s)) = w
             /\ \A i \in 1 .. w : Cache!Window(s)[i] = s[Len(s) - w + i]
<1> DEFINE n == Len(s)
           h == n - ConvLCache + 1
           k == IF 1 <= h THEN h - 1 ELSE 0
           w == n - k
           W == Cache!Window(s)
<1>1. n \in Nat /\ ConvLCache \in Nat \ {0} /\ h \in Int /\ k \in 0 .. n /\ w \in Nat
  BY SeqFacts, PassAssumption
<1>2. w = IF n <= ConvLCache THEN n ELSE ConvLCache
  <2>1. CASE 1 <= h
    <3>1. k = h - 1 /\ w = ConvLCache /\ n >= ConvLCache
      BY <1>1, <2>1
    <3> HIDE DEF w, n
    <3>2. n \in Nat /\ ConvLCache \in Nat
      BY <1>1
    <3>. QED
      BY <3>1, <3>2
  <2>2. CASE ~(1 <= h)
    <3>1. k = 0 /\ w = n /\ n <= ConvLCache
      BY <1>1, <2>2
    <3> HIDE DEF w, n
    <3>. QED
      BY <3>1
  <2>. QED
    BY <2>1, <2>2
<1>3. W = SubSeq(s, k + 1, n)
  <2>1. Cache!Max({1, h}) = IF 1 <= h THEN h ELSE 1
    <3>1. 1 \in Int /\ h \in Int
      BY <1>1
    <3> HIDE DEF h
    <3>. QED
      BY <3>1, MaxTwo
  <2>2. k + 1 = IF 1 <= h THEN h ELSE 1
    BY <1>1
  <2>3. W = SubSeq(s, Cache!Max({1, h}), n)
    BY DEF Cache!Window
  <2> HIDE DEF h, k, W
  <2>. QED
    BY <2>1, <2>2, <2>3
<1>4. /\ IsSeq(SubSeq(s, k + 1, n)) /\ Len(SubSeq(s, k + 1, n)) = n - k
      /\ \A i \in 1 .. n - k : SubSeq(s, k + 1, n)[i] = s[k + i]
  <2>1. k \in 0 .. Len(s)
    BY <1>1
  <2> HIDE DEF k
  <2>. QED
    BY <2>1, LaterFacts
<1>5. n - w = k
  BY <1>1
<1> HIDE DEF k, W, h
<1>6. /\ w \in Nat /\ w = IF n <= ConvLCache THEN n ELSE ConvLCache
      /\ IsSeq(W) /\ Len(W) = w /\ \A i \in 1 .. w : W[i] = s[n - w + i]
  BY <1>1, <1>2, <1>3, <1>4, <1>5
<1>. QED
  BY <1>6 DEF W

\* Entries as a recurrent layer sees them.
LEMMA FoldedFacts ==
    ASSUME NEW s, IsSeq(s)
    PROVE  /\ IsSeq(Cache!Folded(s)) /\ Len(Cache!Folded(s)) = Len(s)
           /\ \A i \in 1 .. Len(s) : Cache!Folded(s)[i].pos = s[i].pos
<1> DEFINE t == Cache!Folded(s)
<1>1. Len(s) \in Nat /\ t = [i \in 1 .. Len(s) |-> [tok |-> s[i].tok, pos |-> s[i].pos]]
  BY SeqFacts DEF Cache!Folded
<1> HIDE DEF t
<1>2. t = [i \in 1 .. Len(s) |-> t[i]] /\ \A i \in 1 .. Len(s) : t[i].pos = s[i].pos
  BY <1>1
<1>3. IsSeq(t) /\ Len(t) = Len(s)
  BY <1>1, <1>2, FunSeq
<1>. QED
  BY <1>2, <1>3 DEF t

\* Windows that agree: of as many, and with the same before the last.
LEMMA SameWindow ==
    ASSUME NEW s, NEW t, IsSeq(s), IsSeq(t), Cache!Window(s) = Cache!Window(t)
    PROVE  /\ Len(s) = 1 => Len(t) = 1 \/ ConvLCache = 1
           /\ Len(s) > 1 /\ Len(t) > 1 =>
                ConvLCache = 1 \/ s[Len(s) - 1] = t[Len(t) - 1]
<1>0. Len(s) \in Nat /\ Len(t) \in Nat /\ ConvLCache \in Nat \ {0}
  BY SeqFacts, PassAssumption
<1>1. PICK v \in Nat :
         /\ v = IF Len(s) <= ConvLCache THEN Len(s) ELSE ConvLCache
         /\ IsSeq(Cache!Window(s)) /\ Len(Cache!Window(s)) = v
         /\ \A i \in 1 .. v : Cache!Window(s)[i] = s[Len(s) - v + i]
  BY WindowFacts
<1>2. PICK w \in Nat :
         /\ w = IF Len(t) <= ConvLCache THEN Len(t) ELSE ConvLCache
         /\ IsSeq(Cache!Window(t)) /\ Len(Cache!Window(t)) = w
         /\ \A i \in 1 .. w : Cache!Window(t)[i] = t[Len(t) - w + i]
  BY WindowFacts
<1>3. v = w
  BY <1>1, <1>2
<1>4. ASSUME Len(s) = 1 PROVE Len(t) = 1 \/ ConvLCache = 1
  BY <1>0, <1>1, <1>2, <1>3, <1>4
<1>5. ASSUME Len(s) > 1, Len(t) > 1, ConvLCache # 1
      PROVE  s[Len(s) - 1] = t[Len(t) - 1]
  <2>1. v - 1 \in 1 .. v /\ v - 1 \in 1 .. w
    BY <1>0, <1>1, <1>3, <1>5
  <2>2. Len(s) - v + (v - 1) = Len(s) - 1 /\ Len(t) - w + (v - 1) = Len(t) - 1
    BY <1>0, <1>3
  <2>3. Cache!Window(s)[v - 1] = s[Len(s) - v + (v - 1)]
    BY <1>1, <2>1
  <2>4. Cache!Window(t)[v - 1] = t[Len(t) - w + (v - 1)]
    BY <1>2, <2>1
  <2>. QED
    BY <2>2, <2>3, <2>4
<1>. QED
  BY <1>0, <1>4, <1>5

\* What an entry that is sound says of the state that the pass began with.
LEMMA FedSound ==
    ASSUME NEW m \in Networks, NEW p, p.next # 0, IsSeq(p.items),
           NEW c, IsSeq(c.layer), IsSeq(c.state), Len(c.layer) = c.seq_len,
           FedPos(m, c) = c.seq_len, \A j \in 1 .. Len(c.layer) : c.layer[j].pos = j - 1,
           NEW f, FedOk(m, p, c, f),
           NEW i \in 1 .. Len(p.items), f.layer[Len(c.layer) + i].sound
    PROVE  /\ AbsOf(m).recurrent = "conv" /\ p.form # "decode" =>
                Len(c.layer) = 0 \/ ConvLCache = 1
           /\ AbsOf(m).recurrent = "conv" /\ p.form = "decode" /\ Len(c.layer) > 0
                /\ Len(c.state) > 0 =>
                ConvLCache = 1 \/ c.state[Len(c.state)].pos = Len(c.layer) - 1
           /\ AbsOf(m).recurrent = "deltanet" =>
                /\ Len(c.state) = Len(c.layer)
                /\ Len(c.layer) > 0 => c.state[Len(c.state)].pos = Len(c.layer) - 1
<1> DEFINE toks == ToksOf(p.items)
           n == Len(c.layer)
           one == SubSeq(toks, 1, 1)
           raw == RawOf(m, c, toks)
           see == SeenBy(m, p, c, toks, 1)
           st == StateOf(m, p, c, one)
           sp == Spots(one, FedPos(m, c))
           fo == Cache!Folded(see)
<1>1. n \in Nat /\ Len(p.items) \in Nat /\ Len(c.state) \in Nat
  BY SeqFacts
<1>2. IsSeq(toks) /\ Len(toks) = Len(p.items)
  BY ToksFacts
<1>3. GoodAt(m, p, c, toks, 1)
  <2>1. AllSound(m, p, c, toks, i)
    BY DEF FedOk
  <2>2. 1 \in 1 .. i
    BY <1>1
  <2> HIDE DEF toks
  <2>. QED
    BY <2>1, <2>2 DEF AllSound
<1>4. Len(see) = n + 1 /\ Cache!FromScratch(AbsOf(m), see, st)
  BY <1>3 DEF GoodAt
<1>5. IsSeq(one) /\ Len(one) = 1
  <2>1. 1 \in 0 .. Len(toks)
    BY <1>1, <1>2
  <2> HIDE DEF toks
  <2>. QED
    BY <1>2, <2>1, FirstFacts
<1>6. IsSeq(sp) /\ Len(sp) = 1
  <2> HIDE DEF one
  <2>. QED
    BY <1>5, SpotsFacts
<1>7. /\ IsSeq(raw) /\ Len(raw) = n + Len(toks)
      /\ \A j \in 1 .. n : raw[j] = c.layer[j]
  <2> HIDE DEF toks
  <2>1. RawOk(m, c, toks, raw)
    BY <1>2, RawFacts
  <2>. QED
    BY <2>1 DEF RawOk
<1>8. IsSeq(see) /\ \A j \in 1 .. n : see[j].pos = j - 1
  <2> DEFINE h == c.seq_len + 1
  <2>1. h \in Nat /\ h = n + 1
    BY <1>1
  <2>2. see = IF p.form # "decode" THEN Cache!Shorten(raw, h) ELSE raw
    BY DEF SeenBy
  <2> HIDE DEF h, raw, see, toks
  <2>3. /\ IsSeq(Cache!Shorten(raw, h))
        /\ \A j \in 1 .. Len(Cache!Shorten(raw, h)) : Cache!Shorten(raw, h)[j] = raw[j]
    BY <1>7, <2>1, ShortenFacts
  <2>4. IsSeq(see) /\ \A j \in 1 .. Len(see) : see[j] = raw[j]
    BY <1>7, <2>2, <2>3
  <2>5. \A j \in 1 .. n : j \in 1 .. Len(see)
    BY <1>1, <1>4
  <2>. QED
    BY <1>7, <2>4, <2>5
<1> HIDE DEF see, raw
<1>9. IsSeq(fo) /\ Len(fo) = n + 1 /\ \A j \in 1 .. n : fo[j].pos = j - 1
  <2>1. IsSeq(fo) /\ Len(fo) = Len(see) /\ \A j \in 1 .. Len(see) : fo[j].pos = see[j].pos
    BY <1>8, FoldedFacts
  <2> HIDE DEF fo
  <2>. QED
    BY <1>1, <1>4, <1>8, <2>1
<1>10. st = IF AbsOf(m).recurrent = "none" THEN <<>>
            ELSE IF AbsOf(m).recurrent = "conv" /\ p.form # "decode" THEN sp ELSE c.state \o sp
  BY StateParts
<1>11. /\ AbsOf(m).recurrent = "deltanet" => st = fo
       /\ AbsOf(m).recurrent = "conv" => Cache!Window(st) = Cache!Window(fo)
  BY <1>4 DEF Cache!FromScratch
<1> DEFINE w == c.state \o sp
<1>12. /\ IsSeq(w) /\ Len(w) = Len(c.state) + 1
       /\ \A j \in 1 .. Len(c.state) : w[j] = c.state[j]
  <2> DEFINE cs == c.state
  <2>1. IsSeq(cs) /\ IsSeq(sp) /\ Len(sp) = 1
    BY <1>6
  <2> HIDE DEF sp, cs
  <2>2. /\ IsSeq(cs \o sp) /\ Len(cs \o sp) = Len(cs) + Len(sp)
        /\ \A j \in 1 .. Len(cs) : (cs \o sp)[j] = cs[j]
    BY ONLY <2>1, JoinFacts
  <2>. QED
    BY <2>1, <2>2 DEF cs
<1> HIDE DEF n, toks, one, sp, fo, w, st
<1>13. ASSUME AbsOf(m).recurrent = "conv", p.form # "decode" PROVE n = 0 \/ ConvLCache = 1
  <2>1. Cache!Window(sp) = Cache!Window(fo)
    BY <1>10, <1>11, <1>13
  <2>2. Len(fo) = 1 \/ ConvLCache = 1
    BY <1>6, <1>9, <2>1, SameWindow
  <2>. QED
    BY <1>1, <1>9, <2>2 DEF n
<1>14. ASSUME AbsOf(m).recurrent = "conv", p.form = "decode", n > 0, Len(c.state) > 0,
              ConvLCache # 1
       PROVE  c.state[Len(c.state)].pos = n - 1
  <2>1. Cache!Window(w) = Cache!Window(fo)
    BY <1>10, <1>11, <1>14 DEF w
  <2>2. Len(w) > 1 /\ Len(fo) > 1 /\ Len(w) - 1 = Len(c.state) /\ Len(fo) - 1 = n
        /\ Len(c.state) \in 1 .. Len(c.state) /\ n \in 1 .. n
    BY ONLY <1>1, <1>9, <1>12, <1>14, SMTT(30) DEF n
  <2>3. w[Len(w) - 1] = fo[Len(fo) - 1]
    BY <1>9, <1>12, <1>14, <2>1, <2>2, SameWindow
  <2>. QED
    BY <1>9, <1>12, <2>2, <2>3
<1>15. ASSUME AbsOf(m).recurrent = "deltanet"
       PROVE  Len(c.state) = n /\ (n > 0 => c.state[Len(c.state)].pos = n - 1)
  <2>1. w = fo
    BY <1>10, <1>11, <1>15 DEF w
  <2>2. Len(c.state) = n
    BY <1>1, <1>9, <1>12, <2>1 DEF n
  <2>3. n > 0 => n \in 1 .. n
    BY <1>1 DEF n
  <2>. QED
    BY <1>9, <1>12, <2>1, <2>2, <2>3
<1>. QED
  BY <1>13, <1>14, <1>15 DEF n

---------------------------------------------------------------------------
(* In the middle of a pass *)

\* What is known of a pass that goes on: f is the cache KvCache will have after it.
Going(m, k, p, t, c, f) ==
    /\ m \in Networks /\ f = FedOf(m, p, c) /\ FedOk(m, p, c, f)
    /\ Len(p.items) \in Nat \ {0} /\ p.start \in Nat /\ Len(t) \in Nat /\ Len(p.rest) \in Nat
    /\ p.start = k.seq_len /\ p.start = c.seq_len /\ p.start = Len(c.layer)
    /\ p.start + Len(p.items) + Len(p.rest) = Len(t)
    /\ Len(f.layer) = p.start + Len(p.items)
    /\ IsSeq(In(p)) /\ Len(In(p)) = Len(p.items) /\ IsSeq(p.items) /\ IsSeq(t)
    /\ IsSeq(c.layer) /\ IsSeq(c.state)
    /\ NoImages(t) => /\ FedPos(m, c) = c.seq_len
                      /\ \A j \in 1 .. Len(c.layer) : c.layer[j].pos = j - 1

\* The invariant says so.
LEMMA GoingFacts ==
    ASSUME NEW m, NEW k, NEW p, NEW t, NEW c, Inv(m, k, p, t, c), p.next # 0
    PROVE  Going(m, k, p, t, c, FedOf(m, p, c))
<1> DEFINE f == FedOf(m, p, c)
<1>1. /\ m \in Networks /\ TextOk(t) /\ KvOk(m, k) /\ CopyOk(m, t, c) /\ c.seq_len = k.seq_len
      /\ PassOk(m, k, p, t) /\ InputOk(m, k, p, t, c)
  BY DEF Inv
<1>2. IsSeq(t) /\ Len(t) \in Nat
  BY <1>1, SeqFacts DEF TextOk
<1>3. /\ IsSeq(p.items) /\ Len(p.items) > 0 /\ IsSeq(p.rest) /\ p.start = k.seq_len
      /\ p.start + Len(p.items) + Len(p.rest) = Len(t)
  BY <1>1 DEF PassOk, Parts
<1>4. Len(p.items) \in Nat \ {0} /\ Len(p.rest) \in Nat
  <2>1. Len(p.items) \in Nat /\ Len(p.rest) \in Nat
    BY <1>3, SeqFacts
  <2>. QED
    BY <1>3, <2>1
<1>5. /\ IsSeq(c.layer) /\ IsSeq(c.state) /\ Len(c.layer) = c.seq_len
      /\ NoImages(t) => /\ \A j \in 1 .. c.seq_len : c.layer[j].pos = j - 1
                        /\ m.mrope => c.text_pos = c.seq_len
  BY <1>1 DEF CopyOk
<1>6. FedOk(m, p, c, f)
  BY <1>1, <1>3, <1>5, FedFacts
<1>7. Len(f.layer) = p.start + Len(p.items)
  BY <1>1, <1>3, <1>5, <1>6 DEF FedOk
<1>8. p.start \in Nat
  BY <1>1, <1>3 DEF KvOk
<1>9. NoImages(t) => FedPos(m, c) = c.seq_len
  BY <1>5 DEF FedPos
<1>10. IsSeq(In(p)) /\ Len(In(p)) = Len(p.items)
  BY <1>1 DEF InputOk
<1> HIDE DEF f
<1>. QED
  BY <1>1, <1>2, <1>3, <1>4, <1>5, <1>6, <1>7, <1>8, <1>9, <1>10 DEF Going, f

\* Rows are good up to a place.
LEMMA GoodSticky ==
    ASSUME NEW m, NEW k, NEW p, NEW t, NEW c, Going(m, k, p, t, c, FedOf(m, p, c)), p.next # 0,
           NEW i \in 1 .. Len(p.items), Good(m, p, t, c, p.start + i)
    PROVE  \A j \in 1 .. p.start + i : Good(m, p, t, c, j)
<1> DEFINE f == FedOf(m, p, c)
<1>1. /\ m \in Networks /\ FedOk(m, p, c, f) /\ p.start = Len(c.layer)
      /\ IsSeq(p.items) /\ IsSeq(c.layer) /\ IsSeq(c.state)
  BY DEF Going
<1>2. CASE ~p.keeps \/ AllAttention(m)
  BY <1>2 DEF Good
<1>3. CASE p.keeps /\ ~AllAttention(m)
  <2>1. NoImages(t) /\ f.layer[Len(c.layer) + i].sound
    BY <1>1, <1>3 DEF Good
  <2> HIDE DEF f
  <2>2. \A j \in 1 .. Len(c.layer) + i : f.layer[j].sound
    BY <1>1, <2>1, FedSticky
  <2>. QED
    BY <1>1, <2>1, <2>2 DEF Good, f
<1>. QED
  BY <1>2, <1>3

\* The angles of a pass are those of the text.
AngleOf(m, p, l, i) == <<IF p.main THEN 0 ELSE RopeCache(m, l)>> \o p.items[i].pos

\* They are those a computation from scratch turns the text by.
LEMMA AngleIs ==
    ASSUME NEW m \in Networks, NEW k, NEW p, NEW t, PassOk(m, k, p, t), NEW l,
           NEW i \in 1 .. Len(p.items)
    PROVE  AngleOf(m, p, l, i) = Turned(m, t, p.keeps, l, p.start + i)
<1>1. p.items[i] = t[p.start + i] /\ (p.main /\ p.keeps => m.mrope) /\ (~p.keeps => p.main)
  BY DEF PassOk, Parts
<1>2. m.mrope => ~m.dual
  BY NetFacts
<1>3. (IF p.main THEN 0 ELSE RopeCache(m, l)) = (IF p.keeps THEN RopeCache(m, l) ELSE 0)
  BY <1>1, <1>2 DEF RopeCache, IsSliding
<1>. QED
  BY <1>1, <1>3 DEF AngleOf, Turned

---------------------------------------------------------------------------
(* What a layer does *)

\* The layer p.next has left data d and state s, and gave rows: the rows are those
\* from scratch where the rows before them are.
Before(m, k, p, t) == R(m, k, p, t)[p.next - 1]
Stepped(m, k, p, t, c, d, s, rows) ==
    /\ IsSeq(d) /\ IsSeq(s) /\ IsSeq(rows) /\ Len(rows) = Len(p.items)
    /\ m.blocks[p.next] = "attn" =>
        /\ Len(d) = p.start + Len(p.items)
        /\ \A j \in 1 .. Len(d) :
             /\ d[j] = KeyValue(d[j].over[1], Turned(m, t, p.keeps, p.next, j))
             /\ Good(m, p, t, c, j) => d[j].over[1] = Before(m, k, p, t)[j]
    /\ m.blocks[p.next] = "conv" => Len(s) = ConvLCache
    /\ \A i \in 1 .. Len(p.items) :
         Good(m, p, t, c, p.start + i) =>
             rows[i] = ScratchBlock(m, t, k.bidirectional, p.keeps, p.next, Before(m, k, p, t),
                                    p.start + i)
    /\ m.blocks[p.next] # "attn" =>
        /\ NoImages(t) /\ p.keeps /\ Current(FedOf(m, p, c)) =>
             StateIs(m, p.next, s, SubSeq(Before(m, k, p, t), 1, Len(FedOf(m, p, c).layer)))
        /\ NoImages(t) /\ p.next = 1 => StateIs(m, 1, s, Seen(FedOf(m, p, c)))

\* An attention layer: what it appends, and what each row sees of it.
NewKeys(m, p) == [i \in 1 .. Len(In(p)) |-> KeyValue(In(p)[i], AngleOf(m, p, p.next, i))]
SeenTo(k, p, d, i) == IF k.bidirectional THEN Len(d) ELSE p.start + i
AttentionStep(m, k, p, d, rows) ==
    /\ d = k.data[p.next] \o NewKeys(m, p)
    /\ IsSeq(rows) /\ Len(rows) = Len(In(p))
    /\ \A i \in 1 .. Len(In(p)) :
         rows[i] = Attention(In(p)[i], AngleOf(m, p, p.next, i),
                             SubSeq(d, 1, SeenTo(k, p, d, i)))

\* The fields of an entry.
LEMMA EntryFields == \A x, a : /\ KeyValue(x, a).over = <<x>> /\ KeyValue(x, a).over[1] = x
                               /\ KeyValue(x, a).of = a
BY DEF KeyValue

\* The entries of an attention layer after its step.
EntriesOk(m, k, p, t, c, d) ==
    /\ IsSeq(d) /\ Len(d) = p.start + Len(p.items)
    /\ \A j \in 1 .. Len(d) :
         /\ d[j] = KeyValue(d[j].over[1], Turned(m, t, p.keeps, p.next, j))
         /\ Good(m, p, t, c, j) => d[j].over[1] = Before(m, k, p, t)[j]

\* The keys of the cache and of the pass make such entries.
LEMMA AttentionEntries ==
    ASSUME NEW m, NEW k, NEW p, NEW t, NEW c, Inv(m, k, p, t, c), p.next \in Places(m),
           m.blocks[p.next] = "attn", NEW d, d = k.data[p.next] \o NewKeys(m, p)
    PROVE  EntriesOk(m, k, p, t, c, d)
<1> DEFINE l == p.next
           x == In(p)
           n == Len(p.items)
           old == k.data[l]
           new == NewKeys(m, p)
           b == Before(m, k, p, t)
<1>0. p.next # 0
  <2>1. m \in Networks
    BY DEF Inv
  <2>. QED
    BY <2>1, NetFacts
<1>1. Going(m, k, p, t, c, FedOf(m, p, c))
  BY <1>0, GoingFacts
<1>2. /\ m \in Networks /\ n \in Nat \ {0} /\ p.start \in Nat /\ p.start = k.seq_len
      /\ IsSeq(x) /\ Len(x) = n
  BY <1>1 DEF Going
<1>3. IsSeq(old) /\ Len(old) = p.start
  <2>1. IsSeq(old)
    BY DEF Inv, KvOk
  <2>2. Len(old) = k.seq_len + Given(p, l)
    BY DEF Inv, DataOk
  <2>3. Given(p, l) = 0
    BY <1>2, NetFacts DEF Given
  <2>. QED
    BY <1>2, <2>1, <2>2, <2>3
<1>4. \A j \in 1 .. Len(old) : Entry(m, k, p, t, c, l, j)
  BY DEF Inv, DataOk
<1>5. IsSeq(new) /\ Len(new) = n /\ \A i \in 1 .. n : new[i] = KeyValue(x[i], AngleOf(m, p, l, i))
  <2>1. new = [i \in 1 .. n |-> KeyValue(x[i], AngleOf(m, p, l, i))]
    BY <1>2 DEF NewKeys
  <2> HIDE DEF new, n, x, l
  <2>2. new = [i \in 1 .. n |-> new[i]]
    BY <2>1
  <2>3. IsSeq(new) /\ Len(new) = n
    BY <1>2, <2>2, FunSeq
  <2>. QED
    BY <2>1, <2>3
<1>6. PassOk(m, k, p, t) /\ InputOk(m, k, p, t, c)
  BY <1>0 DEF Inv
<1>7. \A i \in 1 .. n : AngleOf(m, p, l, i) = Turned(m, t, p.keeps, l, p.start + i)
  BY <1>2, <1>6, AngleIs
<1>8. \A i \in 1 .. n : Good(m, p, t, c, p.start + i) => x[i] = b[p.start + i]
  BY <1>6 DEF InputOk, Before
<1> HIDE DEF old, new
<1>9. /\ IsSeq(d) /\ Len(d) = p.start + n
      /\ \A j \in 1 .. p.start : d[j] = old[j]
      /\ \A i \in 1 .. n : d[p.start + i] = new[i]
  <2>1. Joined(old, new, old \o new)
    BY <1>3, <1>5, JoinOk
  <2>2. d = old \o new
    BY DEF old, new
  <2>. QED
    BY <1>3, <1>5, <2>1, <2>2 DEF Joined
<1> HIDE DEF x, l, n, b
<1>10. ASSUME NEW j \in 1 .. Len(d)
       PROVE  /\ d[j] = KeyValue(d[j].over[1], Turned(m, t, p.keeps, l, j))
              /\ Good(m, p, t, c, j) => d[j].over[1] = b[j]
  <2>1. CASE j <= p.start
    <3>1. j \in 1 .. p.start
      BY <1>2, <1>9, <2>1
    <3>2. d[j] = k.data[l][j]
      BY <1>9, <3>1 DEF old
    <3>3. Entry(m, k, p, t, c, l, j)
      BY <1>3, <1>4, <3>1
    <3>. QED
      BY <3>2, <3>3 DEF Entry, b, l, Before
  <2>2. CASE ~(j <= p.start)
    <3> DEFINE i == j - p.start
    <3>1. i \in 1 .. n /\ p.start + i = j
      BY <1>2, <1>9, <2>2
    <3> HIDE DEF i
    <3>2. d[j] = KeyValue(x[i], Turned(m, t, p.keeps, l, j))
      BY <1>5, <1>7, <1>9, <3>1
    <3>3. d[j].over[1] = x[i]
      BY <3>2, EntryFields
    <3>. QED
      BY <1>8, <3>1, <3>2, <3>3
  <2>. QED
    BY <2>1, <2>2
<1>. QED
  BY <1>9, <1>10 DEF EntriesOk, n, l, b

\* The rows before a layer, from scratch: one for each place of the text.
LEMMA BeforeFacts ==
    ASSUME NEW m, NEW k, NEW p, NEW t, m \in Networks, IsSeq(t), p.next \in Places(m)
    PROVE  /\ IsSeq(Before(m, k, p, t)) /\ Len(Before(m, k, p, t)) = Len(t)
<1> DEFINE h == p.next - 1
           bi == k.bidirectional
           ke == p.keeps
<1>1. h \in 0 .. Len(m.blocks)
  BY NetFacts
<1> HIDE DEF h, bi, ke
<1>2. IsSeq(Scratch(m, t, bi, ke)[h]) /\ Len(Scratch(m, t, bi, ke)[h]) = Len(t)
  BY <1>1, ScratchShape
<1>. QED
  BY <1>2 DEF Before, R, h, bi, ke

\* Keys from scratch.
LEMMA KeysFacts ==
    ASSUME NEW m, NEW items, NEW keeps, NEW l, NEW x, NEW n \in Nat
    PROVE  /\ IsSeq(Keys(m, items, keeps, l, x, n)) /\ Len(Keys(m, items, keeps, l, x, n)) = n
           /\ \A j \in 1 .. n : Keys(m, items, keeps, l, x, n)[j]
                                    = KeyValue(x[j], Turned(m, items, keeps, l, j))
<1> DEFINE s == Keys(m, items, keeps, l, x, n)
<1>1. s = [j \in 1 .. n |-> KeyValue(x[j], Turned(m, items, keeps, l, j))]
  BY DEF Keys
<1> HIDE DEF s
<1>2. s = [j \in 1 .. n |-> s[j]]
  BY <1>1
<1>3. IsSeq(s) /\ Len(s) = n
  BY <1>2, FunSeq
<1>. QED
  BY <1>1, <1>3 DEF s

\* An attention layer gives rows from scratch.
LEMMA AttentionStepped ==
    ASSUME NEW m, NEW k, NEW p, NEW t, NEW c, Inv(m, k, p, t, c), p.next \in Places(m),
           m.blocks[p.next] = "attn", NEW d, NEW rows, AttentionStep(m, k, p, d, rows)
    PROVE  Stepped(m, k, p, t, c, d, k.state[p.next], rows)
<1> DEFINE l == p.next
           x == In(p)
           n == Len(p.items)
           b == Before(m, k, p, t)
           bi == k.bidirectional
<1>0. p.next # 0 /\ m \in Networks
  BY NetFacts DEF Inv
<1>1. Going(m, k, p, t, c, FedOf(m, p, c))
  BY <1>0, GoingFacts
<1>2. /\ n \in Nat \ {0} /\ p.start \in Nat /\ p.start = k.seq_len /\ Len(t) \in Nat
      /\ IsSeq(x) /\ Len(x) = n /\ IsSeq(t) /\ Len(p.rest) \in Nat
      /\ p.start + n + Len(p.rest) = Len(t)
  BY <1>1 DEF Going
<1>3. PassOk(m, k, p, t) /\ InputOk(m, k, p, t, c)
  BY <1>0 DEF Inv
<1>4. /\ IsSeq(d) /\ Len(d) = p.start + n
      /\ \A j \in 1 .. Len(d) :
           /\ d[j] = KeyValue(d[j].over[1], Turned(m, t, p.keeps, l, j))
           /\ Good(m, p, t, c, j) => d[j].over[1] = b[j]
  <2>1. d = k.data[p.next] \o NewKeys(m, p)
    BY DEF AttentionStep
  <2>2. EntriesOk(m, k, p, t, c, d)
    BY <2>1, AttentionEntries
  <2>. QED
    BY <2>2 DEF EntriesOk
<1>5. IsSeq(k.state[l])
  BY DEF Inv, KvOk
<1>6. IsSeq(b) /\ Len(b) = Len(t)
  BY <1>0, <1>2, BeforeFacts
<1>7. /\ IsSeq(rows) /\ Len(rows) = n
      /\ \A i \in 1 .. n : rows[i] = Attention(x[i], AngleOf(m, p, l, i),
                                               SubSeq(d, 1, SeenTo(k, p, d, i)))
  BY <1>2 DEF AttentionStep
<1>8. ASSUME NEW i \in 1 .. n, Good(m, p, t, c, p.start + i)
      PROVE  rows[i] = ScratchBlock(m, t, bi, p.keeps, l, b, p.start + i)
  <2> DEFINE q == SeenTo(k, p, d, i)
             place == p.start + i
             e == SubSeq(d, 1, q)
             g == Keys(m, t, p.keeps, l, b, q)
  <2>1. bi => ~p.keeps /\ p.start = 0 /\ Len(t) = n
    <3> SUFFICES ASSUME bi PROVE ~p.keeps /\ p.start = 0 /\ Len(t) = n
      OBVIOUS
    <3>1. ~p.keeps /\ p.start = 0 /\ p.rest = <<>>
      BY <1>3 DEF PassOk
    <3>2. Len(p.rest) = 0
      BY <3>1, SmallSeqs
    <3>. QED
      BY <1>2, <3>1, <3>2
  <2>2. q = Sees(t, bi, place) /\ q \in 0 .. Len(d) /\ q \in Nat
    <3>1. CASE bi
      <4>1. q = Len(d) /\ Sees(t, bi, place) = Len(t)
        BY <3>1 DEF SeenTo, Sees
      <4>2. Len(d) = Len(t) /\ Len(d) \in Nat
        BY <1>2, <1>4, <2>1, <3>1
      <4> HIDE DEF q, place, bi
      <4>. QED
        BY <4>1, <4>2
    <3>2. CASE ~bi
      <4>1. q = place /\ Sees(t, bi, place) = place
        BY <3>2 DEF SeenTo, Sees
      <4>. QED
        BY <1>2, <1>4, <4>1
    <3>. QED
      BY <3>1, <3>2
  <2>3. \A j \in 1 .. q : Good(m, p, t, c, j)
    <3>1. CASE bi
      BY <2>1, <3>1 DEF Good
    <3>2. CASE ~bi
      <4>1. q = place
        BY <3>2 DEF SeenTo
      <4>2. \A j \in 1 .. p.start + i : Good(m, p, t, c, j)
        BY <1>0, <1>1, <1>8, GoodSticky
      <4>. QED
        BY <4>1, <4>2
    <3>. QED
      BY <3>1, <3>2
  <2> HIDE DEF q
  <2>4. IsSeq(e) /\ Len(e) = q /\ \A j \in 1 .. q : e[j] = d[j]
    BY <1>4, <2>2, FirstFacts
  <2> DEFINE ke == p.keeps
  <2> HIDE DEF ke, b, l
  <2>5. /\ IsSeq(Keys(m, t, ke, l, b, q)) /\ Len(Keys(m, t, ke, l, b, q)) = q
        /\ \A j \in 1 .. q : Keys(m, t, ke, l, b, q)[j] = KeyValue(b[j], Turned(m, t, ke, l, j))
    BY <2>2, KeysFacts
  <2>6. IsSeq(g) /\ Len(g) = q /\ \A j \in 1 .. q : g[j] = KeyValue(b[j], Turned(m, t, p.keeps, l, j))
    BY <2>5 DEF ke
  <2> HIDE DEF e, g
  <2>7. \A j \in 1 .. Len(e) : e[j] = g[j]
    <3> SUFFICES ASSUME NEW j \in 1 .. q PROVE d[j] = g[j]
      BY <2>4
    <3>1. j \in 1 .. Len(d)
      BY <1>2, <1>4, <2>2
    <3>2. d[j].over[1] = b[j]
      BY <1>4, <2>3, <3>1
    <3>3. d[j] = KeyValue(d[j].over[1], Turned(m, t, p.keeps, l, j))
      BY <1>4, <3>1
    <3>. QED
      BY <2>6, <3>2, <3>3
  <2>8. Len(e) = Len(g)
    BY <2>4, <2>6
  <2>9. e = g
    BY <2>4, <2>6, <2>7, <2>8, SameSeq
  <2>10. AngleOf(m, p, l, i) = Turned(m, t, p.keeps, l, place)
    BY <1>0, <1>3, AngleIs
  <2>11. x[i] = b[place]
    BY <1>3, <1>8 DEF InputOk, Before, b
  <2>12. rows[i] = Attention(b[place], Turned(m, t, p.keeps, l, place), g)
    BY <1>7, <2>9, <2>10, <2>11 DEF e, q
  <2> HIDE DEF place, bi
  <2>13. ScratchBlock(m, t, bi, ke, l, b, place)
             = Attention(b[place], Turned(m, t, ke, l, place),
                         Keys(m, t, ke, l, b, Sees(t, bi, place)))
    BY BlockIs DEF l
  <2>. QED
    BY <2>2, <2>12, <2>13 DEF ke, g, place
<1>. QED
  BY <1>4, <1>5, <1>7, <1>8 DEF Stepped

\* The last of a sequence.
LEMMA LastOfOne ==
    ASSUME NEW u, IsSeq(u), Len(u) # 0
    PROVE  LastOf(u, 1) = <<u[Len(u)]>>
<1> DEFINE e == u[Len(u)]
           w == LastOf(u, 1)
<1>1. Len(u) \in Nat /\ Len(u) > 0 /\ Len(u) - 1 + 1 = Len(u)
  BY SeqFacts
<1>2. /\ IsSeq(w) /\ Len(w) = 1
      /\ \A i \in 1 .. 1 : w[i] = IF Len(u) - 1 + i > 0 THEN u[Len(u) - 1 + i] ELSE Zero
  BY ONLY LastOfFacts, IsSeq(u), 1 \in Nat, Len(u) # 0, <1>1
<1>3. w[1] = IF Len(u) - 1 + 1 > 0 THEN u[Len(u) - 1 + 1] ELSE Zero
  BY <1>2
<1>4. w[1] = e
  BY <1>1, <1>3
<1> HIDE DEF e, w
<1>5. IsSeq(<<e>>) /\ Len(<<e>>) = 1 /\ <<e>>[1] = e
  BY SmallSeqs
<1>6. w = <<e>>
  BY <1>2, <1>4, <1>5, SameSeq
<1>. QED
  BY <1>6 DEF e, w

\* A sequence of one.
LEMMA OneSeq ==
    ASSUME NEW x, IsSeq(x), Len(x) = 1
    PROVE  x = <<x[1]>>
<1> DEFINE e == x[1]
<1> HIDE DEF e
<1>1. IsSeq(<<e>>) /\ Len(<<e>>) = 1 /\ <<e>>[1] = e
  BY SmallSeqs
<1>2. \A i \in 1 .. Len(x) : x[i] = <<e>>[i]
  BY <1>1 DEF e
<1>3. x = <<e>>
  BY <1>1, <1>2, SameSeq
<1>. QED
  BY <1>3 DEF e

\* One more of the first.
LEMMA FirstNext ==
    ASSUME NEW s, IsSeq(s), NEW n \in Nat, n + 1 <= Len(s)
    PROVE  SubSeq(s, 1, n) \o <<s[n + 1]>> = SubSeq(s, 1, n + 1)
<1> DEFINE h == n + 1
           a == SubSeq(s, 1, n)
           b == SubSeq(s, 1, h)
           e == s[h]
           u == a \o <<e>>
<1>1. Len(s) \in Nat /\ n \in 0 .. Len(s) /\ h \in 0 .. Len(s) /\ h \in Nat
  BY SeqFacts
<1>2. IsSeq(a) /\ Len(a) = n /\ \A i \in 1 .. n : a[i] = s[i]
  BY <1>1, FirstFacts
<1> HIDE DEF a, e
<1>3. IsSeq(b) /\ Len(b) = h /\ \A i \in 1 .. h : b[i] = s[i]
  <2> HIDE DEF h
  <2>. QED
    BY <1>1, FirstFacts
<1>4. IsSeq(<<e>>) /\ Len(<<e>>) = 1 /\ <<e>>[1] = e
  BY SmallSeqs
<1>5. Joined(a, <<e>>, u)
  BY <1>2, <1>4, JoinOk
<1> HIDE DEF u, b
<1>6. /\ IsSeq(u) /\ Len(u) = h /\ u[h] = e /\ \A i \in 1 .. n : u[i] = a[i]
  <2>1. /\ IsSeq(u) /\ Len(u) = n + 1 /\ \A i \in 1 .. n : u[i] = a[i]
        /\ \A i \in 1 .. 1 : u[n + i] = <<e>>[i]
    BY <1>2, <1>4, <1>5 DEF Joined
  <2>2. u[n + 1] = e
    BY <1>4, <2>1
  <2>. QED
    BY <2>1, <2>2
<1>7. \A i \in 1 .. Len(u) : u[i] = b[i]
  <2> SUFFICES ASSUME NEW i \in 1 .. h PROVE u[i] = b[i]
    BY <1>6
  <2>1. b[i] = s[i]
    BY <1>3
  <2>2. CASE i = h
    BY <1>6, <2>1, <2>2 DEF e
  <2>3. CASE i # h
    <3>1. i \in 1 .. n
      BY <1>1, <2>3
    <3>. QED
      BY <1>2, <1>6, <2>1, <3>1
  <2>. QED
    BY <2>2, <2>3
<1>8. u = b
  BY <1>3, <1>6, <1>7, SameSeq
<1>. QED
  BY <1>8 DEF u, b, a, e

\* What the state of a first layer has seen.
LEMMA SeenFacts ==
    ASSUME NEW c, IsSeq(c.state)
    PROVE  /\ IsSeq(Seen(c)) /\ Len(Seen(c)) = Len(c.state)
           /\ \A j \in 1 .. Len(c.state) : Seen(c)[j] = Embed(<<c.state[j].tok>>)
<1> DEFINE s == Seen(c)
<1>1. Len(c.state) \in Nat /\ s = [j \in 1 .. Len(c.state) |-> Embed(<<c.state[j].tok>>)]
  BY SeqFacts DEF Seen
<1> HIDE DEF s
<1>2. s = [j \in 1 .. Len(c.state) |-> s[j]]
  BY <1>1
<1>3. IsSeq(s) /\ Len(s) = Len(c.state)
  BY <1>1, <1>2, FunSeq
<1>. QED
  BY <1>1, <1>3 DEF s

\* The state a recurrent layer goes on from, where the rows of a pass are good.
LEMMA GoodState ==
    ASSUME NEW m, NEW k, NEW p, NEW t, NEW c, Inv(m, k, p, t, c), p.next \in Places(m),
           m.blocks[p.next] # "attn",
           NEW i \in 1 .. Len(p.items), Good(m, p, t, c, p.start + i)
    PROVE  /\ m.blocks[p.next] = "conv" /\ p.form # "decode" => p.start = 0 \/ ConvLCache = 1
           /\ m.blocks[p.next] = "conv" /\ p.form = "decode" =>
                \/ ConvLCache = 1
                \/ k.state[p.next]
                     = LastOf(SubSeq(Before(m, k, p, t), 1, p.start), ConvLCache)
           /\ m.blocks[p.next] = "deltanet" =>
                k.state[p.next] = SubSeq(Before(m, k, p, t), 1, p.start)
<1> DEFINE l == p.next
           f == FedOf(m, p, c)
           b == Before(m, k, p, t)
           Conv == m.blocks[l] = "conv"
           Delta == m.blocks[l] = "deltanet"
           Ended == c.state[Len(c.state)].pos = Len(c.layer) - 1
<1>0. p.next # 0 /\ m \in Networks
  BY NetFacts DEF Inv
<1>1. Going(m, k, p, t, c, f)
  BY <1>0, GoingFacts
<1>2. /\ p.start \in Nat /\ p.start = k.seq_len /\ p.start = c.seq_len /\ p.start = Len(c.layer)
      /\ IsSeq(t) /\ IsSeq(p.items) /\ IsSeq(c.layer) /\ IsSeq(c.state) /\ FedOk(m, p, c, f)
  BY <1>1 DEF Going
<1>3. PassOk(m, k, p, t) /\ InputOk(m, k, p, t, c) /\ CopyOk(m, t, c) /\ StateOk(m, k, p, t, c)
  BY <1>0 DEF Inv
<1>4. /\ p.form = "decode" => p.keeps /\ p.start > 0
      /\ ~p.keeps => p.start = 0
  BY <1>3 DEF PassOk
<1>5. IsSeq(b)
  BY <1>0, <1>2, BeforeFacts
<1>6. p.start = 0 => k.state[l] = FreshState(m, l) /\ SubSeq(b, 1, p.start) = <<>>
  <2> SUFFICES ASSUME p.start = 0 PROVE k.state[l] = FreshState(m, l) /\ SubSeq(b, 1, 0) = <<>>
    OBVIOUS
  <2>1. k.seq_len = 0 /\ ~(l < p.next)
    BY <1>0, <1>2, NetFacts
  <2>2. k.state[l] = FreshState(m, l)
    BY <1>3, <2>1 DEF StateOk
  <2> HIDE DEF b
  <2>3. 0 \in 0 .. Len(b)
    BY <1>5, SeqFacts
  <2>4. IsSeq(SubSeq(b, 1, 0)) /\ Len(SubSeq(b, 1, 0)) = 0
    BY <1>5, <2>3, FirstFacts
  <2>. QED
    BY <2>2, <2>4, NoLength
<1> HIDE DEF b
<1>7. ASSUME p.keeps
      PROVE  NoImages(t) /\ f.layer[Len(c.layer) + i].sound
  <2>1. ~AllAttention(m)
    BY DEF AllAttention
  <2>. QED
    BY <1>2, <1>7, <2>1 DEF Good
<1>8. ASSUME p.keeps, p.start > 0, Ended
      PROVE  /\ Conv => k.state[l] = LastOf(SubSeq(b, 1, p.start), ConvLCache)
             /\ Delta => k.state[l] = SubSeq(b, 1, p.start)
  <2>1. \A j \in 1 .. Len(c.layer) + i : f.layer[j].sound
    BY <1>0, <1>2, <1>7, <1>8, FedSticky
  <2>2. p.start \in 1 .. Len(c.layer) + i /\ p.start \in 1 .. Len(c.layer)
    BY <1>2, <1>8
  <2>3. c.layer[Len(c.layer)].sound
    BY <1>2, <2>1, <2>2 DEF FedOk
  <2>4. Current(c)
    BY <1>2, <1>8, <2>3 DEF Current
  <2>5. CacheAt(m, p, c, l) = c
    BY <1>0, NetFacts DEF CacheAt
  <2>6. R(m, k, p, t)[l - 1] = b
    BY DEF b, Before
  <2>7. NoImages(t) /\ p.keeps
    BY <1>7, <1>8
  <2>8. StateIs(m, l, k.state[l], SubSeq(b, 1, Len(c.layer)))
    BY <1>3, <2>4, <2>5, <2>6, <2>7 DEF StateOk
  <2>. QED
    BY <1>2, <2>8 DEF StateIs
<1>9. ASSUME p.keeps
      PROVE  /\ AbsOf(m).recurrent = "conv" /\ p.form # "decode" =>
                  Len(c.layer) = 0 \/ ConvLCache = 1
             /\ AbsOf(m).recurrent = "conv" /\ p.form = "decode" /\ Len(c.layer) > 0
                  /\ Len(c.state) > 0 => ConvLCache = 1 \/ Ended
             /\ AbsOf(m).recurrent = "deltanet" =>
                  /\ Len(c.state) = Len(c.layer)
                  /\ Len(c.layer) > 0 => Ended
  <2>1. FedPos(m, c) = c.seq_len /\ \A j \in 1 .. Len(c.layer) : c.layer[j].pos = j - 1
    BY <1>1, <1>7, <1>9 DEF Going
  <2>2. Len(c.layer) = c.seq_len
    BY <1>2
  <2> HIDE DEF f
  <2>. QED
    BY <1>0, <1>2, <1>7, <1>9, <2>1, <2>2, FedSound
<1>10. /\ Conv => AbsOf(m).recurrent = "conv"
       /\ Delta => AbsOf(m).recurrent = "deltanet"
  BY <1>0, KindFacts
<1>11. ASSUME Conv, p.form # "decode" PROVE p.start = 0 \/ ConvLCache = 1
  BY <1>2, <1>4, <1>9, <1>10, <1>11
<1>12. ASSUME Conv, p.form = "decode"
       PROVE  ConvLCache = 1 \/ k.state[l] = LastOf(SubSeq(b, 1, p.start), ConvLCache)
  <2>1. Len(c.state) > 0
    <3>1. NoImages(t)
      BY <1>4, <1>7, <1>12
    <3>. QED
      BY <1>2, <1>3, <1>4, <1>10, <1>12, <3>1 DEF CopyOk, Ahead
  <2>2. ConvLCache = 1 \/ Ended
    BY <1>2, <1>4, <1>9, <1>10, <1>12, <2>1
  <2>. QED
    BY <1>4, <1>8, <1>12, <2>2
<1>13. ASSUME Delta PROVE k.state[l] = SubSeq(b, 1, p.start)
  <2>1. CASE p.start = 0
    BY <1>6, <1>13, <2>1 DEF FreshState, b
  <2>2. CASE p.start # 0
    <3>1. p.start > 0 /\ p.keeps
      BY <1>2, <1>4, <2>2
    <3>. QED
      BY <1>2, <1>8, <1>9, <1>10, <1>13, <3>1
  <2>. QED
    BY <2>1, <2>2
<1>. QED
  BY <1>11, <1>12, <1>13 DEF b

\* A convolution: a prefill looks at its own rows alone.
ConvStep(m, k, p, d, s, rows) ==
    /\ d = k.data[p.next]
    /\ IsSeq(rows) /\ Len(rows) = Len(In(p))
    /\ p.form # "decode" =>
        /\ s = LastOf(In(p), ConvLCache)
        /\ \A i \in 1 .. Len(In(p)) :
             rows[i] = Mix("conv", LastOf(SubSeq(In(p), 1, i), ConvLCache))
    /\ p.form = "decode" =>
        /\ s = Tail(k.state[p.next]) \o In(p)
        /\ rows[1] = Mix("conv", s)

\* What a convolution sees: window(i) is what row i is made from.
LEMMA ConvWindows ==
    ASSUME NEW m, NEW k, NEW p, NEW t, NEW c, Inv(m, k, p, t, c), p.next \in Places(m),
           m.blocks[p.next] = "conv",
           NEW i \in 1 .. Len(p.items), Good(m, p, t, c, p.start + i)
    PROVE  /\ p.form # "decode" =>
                LastOf(SubSeq(In(p), 1, i), ConvLCache)
                    = LastOf(SubSeq(Before(m, k, p, t), 1, p.start + i), ConvLCache)
           /\ p.form = "decode" =>
                Tail(k.state[p.next]) \o In(p)
                    = LastOf(SubSeq(Before(m, k, p, t), 1, p.start + i), ConvLCache)
<1> DEFINE l == p.next
           x == In(p)
           b == Before(m, k, p, t)
           h == p.start + i
           K == ConvLCache
<1>0. p.next # 0 /\ m \in Networks
  BY NetFacts DEF Inv
<1>1. Going(m, k, p, t, c, FedOf(m, p, c))
  BY <1>0, GoingFacts
<1>2. /\ p.start \in Nat /\ p.start = k.seq_len /\ IsSeq(t) /\ Len(t) \in Nat
      /\ IsSeq(x) /\ Len(x) = Len(p.items) /\ Len(x) \in Nat
      /\ p.start + Len(x) + Len(p.rest) = Len(t) /\ Len(p.rest) \in Nat
  BY <1>1 DEF Going
<1>3. PassOk(m, k, p, t) /\ InputOk(m, k, p, t, c) /\ KvOk(m, k)
  BY <1>0 DEF Inv
<1>4. IsSeq(b) /\ Len(b) = Len(t)
  BY <1>0, <1>2, BeforeFacts
<1>5. i \in 1 .. Len(x) /\ i \in Nat /\ i # 0 /\ h \in Nat /\ h # 0 /\ i \in 0 .. Len(x)
      /\ h \in 0 .. Len(b) /\ i <= Len(x) /\ h <= Len(b)
  BY <1>2, <1>4
<1>6. \A j \in 1 .. i : x[j] = b[p.start + j]
  <2> SUFFICES ASSUME NEW j \in 1 .. i PROVE x[j] = b[p.start + j]
    OBVIOUS
  <2>1. \A q \in 1 .. p.start + i : Good(m, p, t, c, q)
    BY <1>0, <1>1, GoodSticky
  <2>2. p.start + j \in 1 .. p.start + i /\ j \in 1 .. Len(p.items)
    BY <1>2
  <2>3. Good(m, p, t, c, p.start + j)
    BY <2>1, <2>2
  <2>. QED
    BY <1>3, <2>2, <2>3 DEF InputOk, Before
<1>7. /\ p.form # "decode" => p.start = 0 \/ K = 1
      /\ p.form = "decode" => K = 1 \/ k.state[l] = LastOf(SubSeq(b, 1, p.start), K)
  BY GoodState
<1>8. p.form = "decode" => Len(p.items) = 1
  BY <1>3 DEF PassOk
<1>9. IsSeq(k.state[l]) /\ Len(k.state[l]) = K /\ K \in Nat \ {0}
  BY <1>3, PassAssumption DEF KvOk
<1> DEFINE u == SubSeq(x, 1, i)
           v == SubSeq(b, 1, h)
<1> HIDE DEF l, x, b, h, K
<1>10. IsSeq(u) /\ Len(u) = i /\ \A j \in 1 .. i : u[j] = x[j]
  BY <1>2, <1>5, FirstFacts
<1>11. IsSeq(v) /\ Len(v) = h /\ \A j \in 1 .. h : v[j] = b[j]
  BY <1>4, <1>5, FirstFacts
<1>12. v[Len(v)] = x[i] /\ u[Len(u)] = x[i]
  <2>1. x[i] = b[h]
    BY <1>5, <1>6 DEF h
  <2>2. h \in 1 .. h /\ i \in 1 .. i
    BY <1>5
  <2>. QED
    BY <1>10, <1>11, <2>1, <2>2
<1>13. K = 1 => LastOf(u, K) = <<x[i]>> /\ LastOf(v, K) = <<x[i]>>
  <2>1. Len(u) # 0 /\ Len(v) # 0
    BY <1>5, <1>10, <1>11
  <2> HIDE DEF u, v
  <2>2. LastOf(u, 1) = <<u[Len(u)]>> /\ LastOf(v, 1) = <<v[Len(v)]>>
    BY <1>10, <1>11, <2>1, LastOfOne
  <2>. QED
    BY <1>12, <2>2
<1>14. ASSUME p.form # "decode" PROVE LastOf(u, K) = LastOf(v, K)
  <2>1. CASE p.start = 0
    <3>1. h = i /\ \A j \in 1 .. i : x[j] = b[j]
      BY <1>5, <1>6, <2>1 DEF h
    <3>2. SubSeq(x, 1, i) = SubSeq(b, 1, i)
      BY <1>2, <1>4, <1>5, <3>1, SameFirst
    <3>. QED
      BY <3>1, <3>2
  <2>2. CASE K = 1
    BY <1>13, <2>2
  <2>. QED
    BY <1>7, <1>14, <2>1, <2>2
<1>15. ASSUME p.form = "decode" PROVE Tail(k.state[l]) \o x = LastOf(v, K)
  <2>1. i = 1 /\ Len(x) = 1
    <3>1. Len(p.items) = 1
      BY <1>8, <1>15
    <3>2. i = 1
      BY <3>1
    <3>. QED
      BY <1>2, <3>1, <3>2
  <2>2. x = <<x[1]>>
    BY <1>2, <2>1, OneSeq
  <2>3. CASE K = 1
    <3> DEFINE w == k.state[l]
    <3>1. IsSeq(w) /\ Len(w) = 1
      BY <1>9, <2>3
    <3> HIDE DEF w
    <3>2. IsSeq(Tail(w)) /\ Len(Tail(w)) = 0
      <4>1. Len(w) # 0
        BY <3>1
      <4>2. IsSeq(Tail(w)) /\ Len(Tail(w)) = Len(w) - 1
        BY <3>1, <4>1, TailFacts
      <4>. QED
        BY <3>1, <4>2
    <3>3. Tail(w) = <<>>
      BY <3>2, NoLength
    <3>4. <<>> \o x = x
      BY <1>2 DEF IsSeq
    <3>. QED
      BY <1>13, <2>1, <2>2, <2>3, <3>3, <3>4 DEF w
  <2>4. CASE K # 1
    <3> DEFINE g == SubSeq(b, 1, p.start)
               e == x[1]
    <3>1. k.state[l] = LastOf(g, K)
      BY <1>7, <1>15, <2>4
    <3>2. IsSeq(g)
      <4>1. p.start \in 0 .. Len(b)
        BY <1>2, <1>5 DEF h
      <4>. QED
        BY <1>4, <4>1, FirstFacts
    <3>3. g \o <<e>> = v
      <4>1. h = p.start + 1 /\ e = b[p.start + 1]
        BY <1>5, <1>6, <2>1 DEF h
      <4>2. SubSeq(b, 1, p.start) \o <<b[p.start + 1]>> = SubSeq(b, 1, p.start + 1)
        BY <1>2, <1>4, <1>5, <4>1, FirstNext
      <4>. QED
        BY <4>1, <4>2
    <3> HIDE DEF g, e, v
    <3>4. Tail(LastOf(g, K)) \o <<e>> = LastOf(g \o <<e>>, K)
      BY <1>9, <3>2, LastOfNext
    <3>. QED
      BY <2>2, <3>1, <3>3, <3>4 DEF e
  <2>. QED
    BY <2>3, <2>4
<1>. QED
  BY <1>14, <1>15 DEF u, v, x, b, h, l, K

\* What the first layer has seen after a pass.
LEMMA SeenAfter ==
    ASSUME NEW m, NEW k, NEW p, NEW t, NEW c, Inv(m, k, p, t, c), p.next = 1, NoImages(t)
    PROVE  /\ AbsOf(m).recurrent = "conv" /\ p.form # "decode" => Seen(FedOf(m, p, c)) = In(p)
           /\ (AbsOf(m).recurrent = "conv" /\ p.form = "decode")
                \/ AbsOf(m).recurrent = "deltanet" => Seen(FedOf(m, p, c)) = Seen(c) \o In(p)
<1> DEFINE f == FedOf(m, p, c)
           x == In(p)
           n == Len(p.items)
           toks == ToksOf(p.items)
           sp == Spots(toks, FedPos(m, c))
           cs == c.state
           r == AbsOf(m).recurrent
<1>0. p.next # 0 /\ m \in Networks
  BY DEF Inv
<1>1. Going(m, k, p, t, c, f)
  BY <1>0, GoingFacts
<1>2. /\ p.start \in Nat /\ Len(t) \in Nat /\ n \in Nat
      /\ p.start + n + Len(p.rest) = Len(t) /\ Len(p.rest) \in Nat
      /\ IsSeq(p.items) /\ IsSeq(c.layer) /\ IsSeq(cs) /\ FedOk(m, p, c, f)
  BY <1>1 DEF Going
<1>3. PassOk(m, k, p, t) /\ InputOk(m, k, p, t, c) /\ TextOk(t)
  BY <1>0 DEF Inv
<1>4. IsSeq(toks) /\ Len(toks) = n /\ \A i \in 1 .. n : toks[i] = p.items[i].what[1]
  BY <1>2, ToksFacts
<1>5. IsSeq(sp) /\ Len(sp) = n /\ \A i \in 1 .. n : sp[i].tok = toks[i]
  <2> DEFINE q == FedPos(m, c)
  <2> HIDE DEF toks, q, n
  <2>1. /\ IsSeq(Spots(toks, q)) /\ Len(Spots(toks, q)) = Len(toks)
        /\ \A i \in 1 .. Len(toks) : Spots(toks, q)[i].tok = toks[i]
    <3> SUFFICES ASSUME NEW i \in 1 .. Len(toks) PROVE Spots(toks, q)[i].tok = toks[i]
      BY <1>4, SpotsFacts
    <3>. QED
      BY <1>4, SpotsFacts, ZenonT(30)
  <2>. QED
    BY <1>4, <2>1 DEF q
<1>6. f.state = IF r = "none" THEN <<>> ELSE IF r = "conv" /\ p.form # "decode" THEN sp
                ELSE cs \o sp
  <2>1. f.state = StateOf(m, p, c, toks)
    BY <1>2 DEF FedOk
  <2>. QED
    BY <1>0, <2>1, StateParts
<1>7. IsSeq(f.state)
  BY <1>2 DEF FedOk
<1>8. /\ IsSeq(x) /\ Len(x) = n /\ x = Embeds(p.items)
  BY <1>3 DEF InputOk
<1>9. ASSUME NEW i \in 1 .. n PROVE x[i] = Embed(<<sp[i].tok>>)
  <2>1. x[i] = Embed(p.items[i].what)
    BY <1>8 DEF Embeds
  <2>2. p.items[i] = t[p.start + i] /\ p.start + i \in 1 .. Len(t)
    BY <1>2, <1>3 DEF PassOk, Parts
  <2>3. ItemOk(t[p.start + i]) /\ ~IsImage(t[p.start + i].what)
    BY <1>3, <2>2 DEF TextOk, NoImages
  <2>4. p.items[i].what = <<p.items[i].what[1]>>
    BY <2>2, <2>3 DEF ItemOk
  <2>5. sp[i].tok = p.items[i].what[1]
    BY <1>4, <1>5
  <2>. QED
    BY <2>1, <2>4, <2>5
<1> HIDE DEF f, x, n, sp, toks
<1>10. /\ IsSeq(Seen(f)) /\ Len(Seen(f)) = Len(f.state)
       /\ \A j \in 1 .. Len(f.state) : Seen(f)[j] = Embed(<<f.state[j].tok>>)
  BY <1>7, SeenFacts
<1>11. /\ IsSeq(Seen(c)) /\ Len(Seen(c)) = Len(cs)
       /\ \A j \in 1 .. Len(cs) : Seen(c)[j] = Embed(<<cs[j].tok>>)
  BY <1>2, SeenFacts
<1>12. ASSUME f.state = sp PROVE Seen(f) = x
  <2> DEFINE z == Seen(f)
  <2>1. IsSeq(z) /\ Len(z) = n /\ \A i \in 1 .. n : z[i] = x[i]
    BY <1>5, <1>9, <1>10, <1>12
  <2> HIDE DEF z
  <2>2. z = x
    BY <1>8, <2>1, SameSeq
  <2>. QED
    BY <2>2 DEF z
<1>13. ASSUME f.state = cs \o sp PROVE Seen(f) = Seen(c) \o x
  <2> DEFINE z == Seen(f)
             y == Seen(c)
             u == y \o x
             w == cs \o sp
  <2>1. Joined(cs, sp, w)
    BY <1>2, <1>5, JoinOk
  <2>2. Joined(y, x, u)
    BY <1>8, <1>11, JoinOk
  <2>3. Len(cs) \in Nat
    BY <1>2, SeqFacts
  <2> HIDE DEF w, u, cs, z, y
  <2>4. Len(w) = Len(cs) + n /\ Len(u) = Len(cs) + n /\ IsSeq(u)
    BY <1>5, <1>8, <1>11, <2>1, <2>2 DEF Joined, y
  <2>5. IsSeq(z) /\ Len(z) = Len(cs) + n
    BY <1>10, <1>13, <2>4 DEF z, w
  <2>6. ASSUME NEW j \in 1 .. Len(cs) + n PROVE z[j] = u[j]
    <3>1. z[j] = Embed(<<w[j].tok>>)
      BY <1>10, <1>13, <2>4 DEF z, w
    <3>2. CASE j <= Len(cs)
      <4>1. j \in 1 .. Len(cs)
        BY <2>3, <3>2
      <4>2. w[j] = cs[j] /\ u[j] = y[j]
        BY <1>11, <2>1, <2>2, <4>1 DEF Joined, y
      <4>. QED
        BY <1>11, <3>1, <4>1, <4>2 DEF y
    <3>3. CASE ~(j <= Len(cs))
      <4> DEFINE i == j - Len(cs)
      <4>1. i \in 1 .. n /\ Len(cs) + i = j
        BY <1>2, <2>3, <3>3
      <4> HIDE DEF i
      <4>2. w[j] = sp[i] /\ u[j] = x[i]
        BY <1>5, <1>8, <1>11, <2>1, <2>2, <4>1 DEF Joined, y
      <4>. QED
        BY <1>9, <3>1, <4>1, <4>2
    <3>. QED
      BY <3>2, <3>3
  <2>7. z = u
    BY <2>4, <2>5, <2>6, SameSeq
  <2>. QED
    BY <2>7 DEF z, u, y
<1>. QED
  BY <1>6, <1>12, <1>13 DEF f, x

\* A convolution gives rows from scratch.
LEMMA ConvStepped ==
    ASSUME NEW m, NEW k, NEW p, NEW t, NEW c, Inv(m, k, p, t, c), p.next \in Places(m),
           m.blocks[p.next] = "conv", NEW d, NEW s, NEW rows, ConvStep(m, k, p, d, s, rows)
    PROVE  Stepped(m, k, p, t, c, d, s, rows)
<1> DEFINE l == p.next
           x == In(p)
           n == Len(p.items)
           b == Before(m, k, p, t)
           f == FedOf(m, p, c)
           K == ConvLCache
           bi == k.bidirectional
           ke == p.keeps
<1>0. p.next # 0 /\ m \in Networks
  BY NetFacts DEF Inv
<1>1. Going(m, k, p, t, c, f)
  BY <1>0, GoingFacts
<1>2. /\ n \in Nat \ {0} /\ p.start \in Nat /\ IsSeq(x) /\ Len(x) = n /\ IsSeq(c.state)
      /\ Len(f.layer) = p.start + n
  BY <1>1 DEF Going
<1>3. PassOk(m, k, p, t) /\ KvOk(m, k) /\ FirstOk(m, k, p, t, c)
  BY <1>0 DEF Inv
<1>4. IsSeq(k.data[l]) /\ IsSeq(k.state[l]) /\ Len(k.state[l]) = K /\ K \in Nat \ {0}
  BY <1>3, PassAssumption DEF KvOk
<1>5. p.form = "decode" => n = 1
  BY <1>3 DEF PassOk
<1>6. IsSeq(s) /\ Len(s) = K
  <2>1. CASE p.form # "decode"
    <3>1. s = LastOf(x, K)
      BY <2>1 DEF ConvStep
    <3> HIDE DEF x, K
    <3>. QED
      BY <1>4, <3>1, LastOfFacts
  <2>2. CASE p.form = "decode"
    <3> DEFINE w == k.state[l]
    <3>1. Len(w) # 0 /\ Len(x) = 1 /\ s = Tail(w) \o x
      BY <1>2, <1>4, <1>5, <2>2 DEF ConvStep
    <3> HIDE DEF w, x
    <3>2. IsSeq(Tail(w)) /\ Len(Tail(w)) = Len(w) - 1
      BY <1>4, <3>1, TailFacts DEF w
    <3>3. Joined(Tail(w), x, Tail(w) \o x)
      BY <1>2, <3>2, JoinOk
    <3>. QED
      BY ONLY <1>4, <3>1, <3>2, <3>3, SMTT(60) DEF Joined, w
  <2>. QED
    BY <2>1, <2>2
<1>7. ASSUME NEW i \in 1 .. n, Good(m, p, t, c, p.start + i)
      PROVE  rows[i] = ScratchBlock(m, t, bi, p.keeps, l, b, p.start + i)
  <2> DEFINE h == p.start + i
             v == LastOf(SubSeq(b, 1, h), K)
  <2>1. /\ p.form # "decode" => LastOf(SubSeq(x, 1, i), K) = v
        /\ p.form = "decode" => Tail(k.state[l]) \o x = v
    BY <1>7, ConvWindows
  <2>2. rows[i] = Mix("conv", v)
    <3>1. CASE p.form # "decode"
      <4>1. rows[i] = Mix("conv", LastOf(SubSeq(x, 1, i), K))
        BY <1>2, <3>1 DEF ConvStep
      <4>. QED
        BY <2>1, <3>1, <4>1
    <3>2. CASE p.form = "decode"
      <4>1. i = 1
        <5>1. n = 1
          BY <1>5, <3>2
        <5>. QED
          BY <5>1
      <4>2. rows[1] = Mix("conv", s) /\ s = Tail(k.state[l]) \o x
        BY <3>2 DEF ConvStep
      <4>. QED
        BY <2>1, <3>2, <4>1, <4>2
    <3>. QED
      BY <3>1, <3>2
  <2> HIDE DEF h, bi, ke, b
  <2>3. ScratchBlock(m, t, bi, ke, l, b, h) = Mix("conv", LastOf(SubSeq(b, 1, h), ConvLCache))
    BY BlockIs
  <2>. QED
    BY <2>2, <2>3 DEF h, ke
<1>8. ASSUME NoImages(t), p.keeps, Current(f)
      PROVE  s = LastOf(SubSeq(b, 1, Len(f.layer)), K)
  <2>1. Good(m, p, t, c, p.start + n) /\ n \in 1 .. Len(p.items)
    BY <1>2, <1>8 DEF Good, Current
  <2> HIDE DEF n
  <2>2. /\ p.form # "decode" => LastOf(SubSeq(x, 1, n), K) = LastOf(SubSeq(b, 1, p.start + n), K)
        /\ p.form = "decode" => Tail(k.state[l]) \o x = LastOf(SubSeq(b, 1, p.start + n), K)
    BY <2>1, ConvWindows
  <2>3. SubSeq(x, 1, n) = x
    BY <1>2 DEF IsSeq
  <2>4. CASE p.form # "decode"
    BY <1>2, <2>2, <2>3, <2>4 DEF ConvStep
  <2>5. CASE p.form = "decode"
    BY <1>2, <2>2, <2>5 DEF ConvStep
  <2>. QED
    BY <2>4, <2>5
<1>9. ASSUME NoImages(t), l = 1 PROVE s = LastOf(Seen(f), K)
  <2>1. AbsOf(m).recurrent = "conv"
    BY <1>0, KindFacts
  <2>2. /\ p.form # "decode" => Seen(f) = x
        /\ p.form = "decode" => Seen(f) = Seen(c) \o x
    BY <1>9, <2>1, SeenAfter
  <2>3. CASE p.form # "decode"
    BY <2>2, <2>3 DEF ConvStep
  <2>4. CASE p.form = "decode"
    <3> DEFINE y == Seen(c)
               e == x[1]
    <3>1. CacheAt(m, p, c, 1) = c
      BY <1>9 DEF CacheAt
    <3>2. k.state[1] = LastOf(y, K)
      BY <1>3, <1>9, <3>1 DEF FirstOk, StateIs
    <3>3. IsSeq(y)
      BY <1>2, SeenFacts
    <3>4. x = <<e>>
      BY <1>2, <1>5, <2>4, OneSeq
    <3>5. s = Tail(k.state[l]) \o x
      BY <2>4 DEF ConvStep
    <3> HIDE DEF y, e, x, K
    <3>6. Tail(LastOf(y, K)) \o <<e>> = LastOf(y \o <<e>>, K)
      BY <1>4, <3>3, LastOfNext
    <3>. QED
      BY <1>9, <2>2, <2>4, <3>2, <3>4, <3>5, <3>6 DEF y
  <2>. QED
    BY <2>3, <2>4
<1>10. d = k.data[l] /\ IsSeq(rows) /\ Len(rows) = n
  BY <1>2 DEF ConvStep
<1> HIDE DEF f, b
<1>. QED
  BY <1>4, <1>6, <1>7, <1>8, <1>9, <1>10 DEF Stepped, StateIs, f, b

\* DeltaNet: every row is folded into the state.
DeltaStep(m, k, p, d, s, rows) ==
    /\ d = k.data[p.next]
    /\ s = k.state[p.next] \o In(p)
    /\ IsSeq(rows) /\ Len(rows) = Len(In(p))
    /\ \A i \in 1 .. Len(In(p)) :
         rows[i] = Mix("deltanet", k.state[p.next] \o SubSeq(In(p), 1, i))

\* What has been folded into the state after each row.
FoldedTo(m, k, p, t, i) ==
    k.state[p.next] \o SubSeq(In(p), 1, i) = SubSeq(Before(m, k, p, t), 1, p.start + i)

\* The state and the rows of a pass are the rows from scratch, as far as they are good.
LEMMA DeltaFolded ==
    ASSUME NEW m, NEW k, NEW p, NEW t, NEW c, Inv(m, k, p, t, c), p.next \in Places(m),
           m.blocks[p.next] = "deltanet",
           NEW i \in 1 .. Len(p.items), Good(m, p, t, c, p.start + i)
    PROVE  FoldedTo(m, k, p, t, i)
<1> DEFINE l == p.next
           x == In(p)
           b == Before(m, k, p, t)
           h == p.start + i
           g == SubSeq(b, 1, p.start)
           u == SubSeq(x, 1, i)
           v == SubSeq(b, 1, h)
           w == g \o u
<1>0. p.next # 0 /\ m \in Networks
  BY NetFacts DEF Inv
<1>1. Going(m, k, p, t, c, FedOf(m, p, c))
  BY <1>0, GoingFacts
<1>2. /\ p.start \in Nat /\ IsSeq(t) /\ Len(t) \in Nat
      /\ IsSeq(x) /\ Len(x) = Len(p.items) /\ Len(x) \in Nat
      /\ p.start + Len(x) + Len(p.rest) = Len(t) /\ Len(p.rest) \in Nat
  BY <1>1 DEF Going
<1>3. InputOk(m, k, p, t, c)
  BY <1>0 DEF Inv
<1>4. IsSeq(b) /\ Len(b) = Len(t)
  BY <1>0, <1>2, BeforeFacts
<1>5. i \in Nat /\ h \in Nat /\ i \in 0 .. Len(x) /\ p.start \in 0 .. Len(b) /\ h \in 0 .. Len(b)
  BY <1>2, <1>4
<1>6. \A j \in 1 .. i : x[j] = b[p.start + j]
  <2> SUFFICES ASSUME NEW j \in 1 .. i PROVE x[j] = b[p.start + j]
    OBVIOUS
  <2>1. \A q \in 1 .. p.start + i : Good(m, p, t, c, q)
    BY <1>0, <1>1, GoodSticky
  <2>2. p.start + j \in 1 .. p.start + i /\ j \in 1 .. Len(p.items)
    BY <1>2
  <2>3. Good(m, p, t, c, p.start + j)
    BY <2>1, <2>2
  <2>. QED
    BY <1>3, <2>2, <2>3 DEF InputOk, Before
<1>7. k.state[l] = g
  BY GoodState
<1> HIDE DEF x, b, h
<1>8. IsSeq(g) /\ Len(g) = p.start /\ \A j \in 1 .. p.start : g[j] = b[j]
  BY <1>4, <1>5, FirstFacts
<1>9. IsSeq(u) /\ Len(u) = i /\ \A j \in 1 .. i : u[j] = x[j]
  BY <1>2, <1>5, FirstFacts
<1>10. IsSeq(v) /\ Len(v) = h /\ \A j \in 1 .. h : v[j] = b[j]
  BY <1>4, <1>5, FirstFacts
<1>11. Joined(g, u, w)
  BY <1>8, <1>9, JoinOk
<1> HIDE DEF g, u, v, w
<1>12. IsSeq(w) /\ Len(w) = h
  BY <1>8, <1>9, <1>11 DEF Joined, h
<1>13. ASSUME NEW j \in 1 .. h PROVE w[j] = v[j]
  <2>1. CASE j <= p.start
    <3>1. j \in 1 .. p.start
      BY <1>2, <2>1
    <3>. QED
      BY <1>8, <1>10, <1>11, <3>1 DEF Joined
  <2>2. CASE ~(j <= p.start)
    <3> DEFINE q == j - p.start
    <3>1. q \in 1 .. i /\ p.start + q = j
      BY ONLY <1>2, <1>5, <2>2, j \in 1 .. h DEF h
    <3> HIDE DEF q
    <3>2. w[j] = u[q]
      BY <1>8, <1>9, <1>11, <3>1 DEF Joined
    <3>. QED
      BY <1>6, <1>9, <1>10, <3>1, <3>2
  <2>. QED
    BY <2>1, <2>2
<1>14. w = v
  BY <1>10, <1>12, <1>13, SameSeq
<1>. QED
  BY <1>7, <1>14 DEF FoldedTo, w, v, u, x, b, h

\* DeltaNet gives rows from scratch.
LEMMA DeltaStepped ==
    ASSUME NEW m, NEW k, NEW p, NEW t, NEW c, Inv(m, k, p, t, c), p.next \in Places(m),
           m.blocks[p.next] = "deltanet", NEW d, NEW s, NEW rows, DeltaStep(m, k, p, d, s, rows)
    PROVE  Stepped(m, k, p, t, c, d, s, rows)
<1> DEFINE l == p.next
           x == In(p)
           n == Len(p.items)
           b == Before(m, k, p, t)
           f == FedOf(m, p, c)
           bi == k.bidirectional
           ke == p.keeps
<1>0. p.next # 0 /\ m \in Networks
  BY NetFacts DEF Inv
<1>1. Going(m, k, p, t, c, f)
  BY <1>0, GoingFacts
<1>2. /\ n \in Nat \ {0} /\ p.start \in Nat /\ IsSeq(x) /\ Len(x) = n
      /\ Len(f.layer) = p.start + n
  BY <1>1 DEF Going
<1>3. KvOk(m, k) /\ FirstOk(m, k, p, t, c)
  BY <1>0 DEF Inv
<1>4. IsSeq(k.data[l]) /\ IsSeq(k.state[l])
  BY <1>3 DEF KvOk
<1>5. /\ d = k.data[l] /\ IsSeq(rows) /\ Len(rows) = n /\ s = k.state[l] \o x
      /\ \A i \in 1 .. n : rows[i] = Mix("deltanet", k.state[l] \o SubSeq(x, 1, i))
  BY <1>2 DEF DeltaStep
<1>6. IsSeq(s)
  <2> DEFINE w == k.state[l]
  <2> HIDE DEF w, x
  <2>1. Joined(w, x, w \o x)
    BY <1>2, <1>4, JoinOk DEF w
  <2>. QED
    BY <1>5, <2>1 DEF Joined, w
<1>7. ASSUME NEW i \in 1 .. n, Good(m, p, t, c, p.start + i)
      PROVE  rows[i] = ScratchBlock(m, t, bi, p.keeps, l, b, p.start + i)
  <2> DEFINE h == p.start + i
  <2>1. rows[i] = Mix("deltanet", SubSeq(b, 1, h))
    <3>1. FoldedTo(m, k, p, t, i)
      BY <1>7, DeltaFolded
    <3>. QED
      BY <1>5, <3>1 DEF FoldedTo
  <2> HIDE DEF h, bi, ke, b
  <2>2. ScratchBlock(m, t, bi, ke, l, b, h) = Mix("deltanet", SubSeq(b, 1, h))
    BY BlockIs
  <2>. QED
    BY <2>1, <2>2 DEF h, ke
<1>8. ASSUME NoImages(t), p.keeps, Current(f)
      PROVE  s = SubSeq(b, 1, Len(f.layer))
  <2>1. Good(m, p, t, c, p.start + n) /\ n \in 1 .. Len(p.items)
    BY <1>2, <1>8 DEF Good, Current
  <2> HIDE DEF n
  <2>2. k.state[l] \o SubSeq(x, 1, n) = SubSeq(b, 1, p.start + n)
    <3>1. FoldedTo(m, k, p, t, n)
      BY <2>1, DeltaFolded
    <3>. QED
      BY <3>1 DEF FoldedTo
  <2>3. SubSeq(x, 1, n) = x
    BY <1>2 DEF IsSeq
  <2>. QED
    BY <1>2, <1>5, <2>2, <2>3
<1>9. ASSUME NoImages(t), l = 1 PROVE s = Seen(f)
  <2>1. AbsOf(m).recurrent = "deltanet"
    BY <1>0, KindFacts
  <2>2. Seen(f) = Seen(c) \o x
    BY <1>9, <2>1, SeenAfter
  <2>3. CacheAt(m, p, c, 1) = c
    BY <1>9 DEF CacheAt
  <2>4. k.state[1] = Seen(c)
    BY <1>3, <1>9, <2>3 DEF FirstOk, StateIs
  <2>. QED
    BY <1>5, <1>9, <2>2, <2>4
<1> HIDE DEF f, b
<1>. QED
  BY <1>4, <1>5, <1>6, <1>7, <1>8, <1>9 DEF Stepped, StateIs, f, b

\* One layer of a cache changed.
Relayed(k, l, d, s) == [k EXCEPT !.data[l] = d, !.state[l] = s]

\* The cache with one layer changed, field by field.
LEMMA RelayedFacts ==
    ASSUME NEW m, NEW k, KvOk(m, k), NEW l \in Places(m), NEW d, NEW s
    PROVE  /\ Relayed(k, l, d, s)
                = [data |-> Relayed(k, l, d, s).data, state |-> Relayed(k, l, d, s).state,
                   seq_len |-> k.seq_len, text_pos |-> k.text_pos,
                   bidirectional |-> k.bidirectional]
           /\ Relayed(k, l, d, s).data = [j \in Places(m) |-> IF j = l THEN d ELSE k.data[j]]
           /\ Relayed(k, l, d, s).state = [j \in Places(m) |-> IF j = l THEN s ELSE k.state[j]]
<1> DEFINE D == [k.data EXCEPT ![l] = d]
           S == [k.state EXCEPT ![l] = s]
<1>1. /\ k = [data |-> k.data, state |-> k.state, seq_len |-> k.seq_len,
              text_pos |-> k.text_pos, bidirectional |-> k.bidirectional]
      /\ k.data = [j \in Places(m) |-> k.data[j]] /\ k.state = [j \in Places(m) |-> k.state[j]]
  BY DEF KvOk
<1>2. D = [j \in Places(m) |-> IF j = l THEN d ELSE k.data[j]]
  BY <1>1
<1>3. S = [j \in Places(m) |-> IF j = l THEN s ELSE k.state[j]]
  BY <1>1
<1>4. Relayed(k, l, d, s) = [[k EXCEPT !.data = D] EXCEPT !.state = S]
  <2>1. k.state = [k EXCEPT !.data = D].state /\ k.data = k.data
    BY <1>1
  <2>. QED
    BY <1>1, <2>1 DEF Relayed
<1> HIDE DEF D, S
<1>5. Relayed(k, l, d, s) = [data |-> D, state |-> S, seq_len |-> k.seq_len,
                             text_pos |-> k.text_pos, bidirectional |-> k.bidirectional]
  BY <1>1, <1>4
<1> DEFINE z == Relayed(k, l, d, s)
<1> HIDE DEF z
<1>6. z = [data |-> D, state |-> S, seq_len |-> k.seq_len,
           text_pos |-> k.text_pos, bidirectional |-> k.bidirectional]
  BY <1>5 DEF z
<1>7. z.data = D /\ z.state = S
  BY <1>6
<1>. QED
  BY <1>2, <1>3, <1>6, <1>7 DEF z

\* What a layer writes is what the next one reads.
WroteOk(p, rows, w) ==
    /\ w = [items |-> p.items, start |-> p.start, next |-> p.next + 1, a |-> w.a, b |-> w.b,
            main |-> p.main, form |-> p.form, features |-> p.features, keeps |-> p.keeps,
            all |-> p.all, rest |-> p.rest, size |-> p.size, text_pos |-> p.text_pos]
    /\ In(w) = rows

\* Wrote writes the buffer that is not read.
LEMMA WroteFacts ==
    ASSUME NEW m, NEW k, NEW p, NEW t, PassOk(m, k, p, t), p.next \in Nat, NEW rows
    PROVE  WroteOk(p, rows, Wrote(p, rows))
<1> DEFINE w == Wrote(p, rows)
<1>1. p = [items |-> p.items, start |-> p.start, next |-> p.next, a |-> p.a, b |-> p.b,
           main |-> p.main, form |-> p.form, features |-> p.features, keeps |-> p.keeps,
           all |-> p.all, rest |-> p.rest, size |-> p.size, text_pos |-> p.text_pos]
  BY DEF PassOk
<1>2. CASE p.next % 2 = 1
  <2> DEFINE v == [items |-> p.items, start |-> p.start, next |-> p.next + 1, a |-> p.a, b |-> rows,
                   main |-> p.main, form |-> p.form, features |-> p.features, keeps |-> p.keeps,
                   all |-> p.all, rest |-> p.rest, size |-> p.size, text_pos |-> p.text_pos]
  <2>1. w = [p EXCEPT !.b = rows, !.next = @ + 1]
    BY <1>2 DEF Wrote
  <2>2. w = v
    BY <1>1, <2>1
  <2> HIDE DEF w
  <2>3. w.next = p.next + 1 /\ w.a = p.a /\ w.b = rows
    BY <2>2
  <2>4. In(w) = rows
    <3>1. w.next % 2 # 1
      BY <1>2, <2>3
    <3>. QED
      BY <2>3, <3>1 DEF In
  <2>5. WroteOk(p, rows, w)
    BY <2>2, <2>3, <2>4 DEF WroteOk
  <2>. QED
    BY <2>5 DEF w
<1>3. CASE p.next % 2 # 1
  <2> DEFINE v == [items |-> p.items, start |-> p.start, next |-> p.next + 1, a |-> rows, b |-> p.b,
                   main |-> p.main, form |-> p.form, features |-> p.features, keeps |-> p.keeps,
                   all |-> p.all, rest |-> p.rest, size |-> p.size, text_pos |-> p.text_pos]
  <2>1. w = [p EXCEPT !.a = rows, !.next = @ + 1]
    BY <1>3 DEF Wrote
  <2>2. w = v
    BY <1>1, <2>1
  <2> HIDE DEF w
  <2>3. w.next = p.next + 1 /\ w.a = rows /\ w.b = p.b
    BY <2>2
  <2>4. In(w) = rows
    <3>1. w.next % 2 = 1
      BY <1>3, <2>3
    <3>. QED
      BY <2>3, <3>1 DEF In
  <2>5. WroteOk(p, rows, w)
    BY <2>2, <2>3, <2>4 DEF WroteOk
  <2>. QED
    BY <2>5 DEF w
<1>. QED
  BY <1>2, <1>3

\* The fields of what was written.
LEMMA WroteFields ==
    ASSUME NEW p, NEW rows, NEW w, WroteOk(p, rows, w)
    PROVE  /\ w.items = p.items /\ w.start = p.start /\ w.next = p.next + 1 /\ w.main = p.main
           /\ w.form = p.form /\ w.features = p.features /\ w.keeps = p.keeps /\ w.all = p.all
           /\ w.rest = p.rest /\ w.size = p.size /\ w.text_pos = p.text_pos /\ In(w) = rows
           /\ w = [items |-> w.items, start |-> w.start, next |-> w.next, a |-> w.a, b |-> w.b,
                   main |-> w.main, form |-> w.form, features |-> w.features, keeps |-> w.keeps,
                   all |-> w.all, rest |-> w.rest, size |-> w.size, text_pos |-> w.text_pos]
BY DEF WroteOk

\* The features of an image go to the rows from scratch too.
LEMMA InjectOk ==
    ASSUME NEW m, NEW k, NEW p, NEW t, NEW c, Inv(m, k, p, t, c), p.next \in Places(m),
           NEW d, NEW s, NEW rows, Stepped(m, k, p, t, c, d, s, rows)
    PROVE  /\ IsSeq(Inject(p, p.next, rows)) /\ Len(Inject(p, p.next, rows)) = Len(p.items)
           /\ \A i \in 1 .. Len(p.items) :
                Good(m, p, t, c, p.start + i) =>
                  Inject(p, p.next, rows)[i] = R(m, k, p, t)[p.next][p.start + i]
<1> DEFINE l == p.next
           n == Len(p.items)
           u == Inject(p, l, rows)
           b == Before(m, k, p, t)
           bi == k.bidirectional
           ke == p.keeps
           Fed(i) == IF l <= p.features /\ IsImage(p.items[i].what)
                     THEN AddFeature(p.items[i].what, rows[i]) ELSE rows[i]
<1>0. p.next # 0 /\ m \in Networks /\ p.next \in 1 .. Len(m.blocks) /\ Len(m.blocks) \in Nat
  BY NetFacts DEF Inv
<1>1. Going(m, k, p, t, c, FedOf(m, p, c))
  BY <1>0, GoingFacts
<1>2. /\ n \in Nat /\ p.start \in Nat /\ Len(t) \in Nat
      /\ p.start + n + Len(p.rest) = Len(t) /\ Len(p.rest) \in Nat
  BY <1>1 DEF Going
<1>3. PassOk(m, k, p, t)
  BY <1>0 DEF Inv
<1>4. IsSeq(rows) /\ Len(rows) = n
  BY DEF Stepped
<1>5. u = [i \in 1 .. n |-> Fed(i)]
  <2>1. DOMAIN rows = 1 .. n
    BY <1>4, SeqFacts
  <2>. QED
    BY <2>1 DEF Inject
<1> HIDE DEF u
<1>6. IsSeq(u) /\ Len(u) = n
  <2>1. u = [i \in 1 .. n |-> u[i]]
    BY <1>5
  <2>. QED
    BY <1>2, <2>1, FunSeq
<1>7. ASSUME NEW i \in 1 .. n, Good(m, p, t, c, p.start + i)
      PROVE  u[i] = R(m, k, p, t)[l][p.start + i]
  <2> DEFINE h == p.start + i
             row == ScratchBlock(m, t, bi, ke, l, b, h)
             x == Scratch(m, t, bi, ke)
  <2>1. rows[i] = row
    BY <1>7 DEF Stepped
  <2>2. h \in 1 .. Len(t) /\ p.items[i] = t[h]
    BY <1>2, <1>3 DEF PassOk, Parts
  <2>3. x[l - 1] = b
    BY DEF Before, R
  <2> HIDE DEF h, bi, ke, b, x
  <2>4. x[l] = ScratchLayer(m, t, bi, ke, l, x[l - 1])
    BY <1>0, ScratchRec DEF x
  <2>5. x[l][h] = Deep(m, t, l, h, row)
    BY <2>2, <2>3, <2>4, RowIs
  <2>6. u[i] = Deep(m, t, l, h, row)
    <3>1. u[i] = Fed(i)
      BY <1>5
    <3>2. IsImage(p.items[i].what) => p.features = IF m.mrope THEN m.deepstack ELSE 0
      BY <1>3 DEF PassOk
    <3> HIDE DEF row
    <3>3. CASE IsImage(t[h].what)
      <4>1. l <= p.features <=> m.mrope /\ l <= m.deepstack
        <5>1. l \in Nat /\ ~(l <= 0)
          BY <1>0
        <5>. QED
          BY <2>2, <3>2, <3>3, <5>1
      <4>. QED
        BY <2>1, <2>2, <3>1, <3>3, <4>1 DEF Deep
    <3>4. CASE ~IsImage(t[h].what)
      BY <2>1, <2>2, <3>1, <3>4 DEF Deep
    <3>. QED
      BY <3>3, <3>4
  <2>. QED
    BY <2>5, <2>6 DEF R, x, bi, ke, h
<1>. QED
  BY <1>6, <1>7 DEF u

\* A layer keeps the invariant.
LEMMA LayerInv ==
    ASSUME NEW m, NEW k, NEW p, NEW t, NEW c, Inv(m, k, p, t, c), p.next \in Places(m),
           NEW d, NEW s, NEW rows, Stepped(m, k, p, t, c, d, s, rows)
    PROVE  Inv(m, Relayed(k, p.next, d, s), Wrote(p, Inject(p, p.next, rows)), t, c)
<1> DEFINE l == p.next
           n == Len(p.items)
           k2 == Relayed(k, l, d, s)
           new == Inject(p, l, rows)
           p2 == Wrote(p, new)
           f == FedOf(m, p, c)
<1>0. /\ l # 0 /\ m \in Networks /\ l \in Nat /\ Len(m.blocks) \in Nat
      /\ Places(m) = 1 .. Len(m.blocks) /\ l \in 1 .. Len(m.blocks)
  BY NetFacts DEF Inv
<1>1. Going(m, k, p, t, c, f)
  BY <1>0, GoingFacts
<1>2. /\ n \in Nat \ {0} /\ p.start \in Nat /\ p.start = k.seq_len /\ Len(f.layer) = p.start + n
  BY <1>1 DEF Going
<1>3. /\ TextOk(t) /\ KvOk(m, k) /\ CopyOk(m, t, c) /\ c.seq_len = k.seq_len
      /\ PassOk(m, k, p, t) /\ InputOk(m, k, p, t, c)
      /\ DataOk(m, k, p, t, c) /\ StateOk(m, k, p, t, c) /\ FirstOk(m, k, p, t, c)
  BY <1>0 DEF Inv
<1>4. /\ k2 = [data |-> k2.data, state |-> k2.state, seq_len |-> k.seq_len,
               text_pos |-> k.text_pos, bidirectional |-> k.bidirectional]
      /\ k2.data = [j \in Places(m) |-> IF j = l THEN d ELSE k.data[j]]
      /\ k2.state = [j \in Places(m) |-> IF j = l THEN s ELSE k.state[j]]
  BY <1>3, RelayedFacts
<1>5. /\ IsSeq(new) /\ Len(new) = n
      /\ \A i \in 1 .. n : Good(m, p, t, c, p.start + i) => new[i] = R(m, k, p, t)[l][p.start + i]
  BY InjectOk
<1>6. WroteOk(p, new, p2)
  <2> HIDE DEF new
  <2>. QED
    BY <1>0, <1>3, WroteFacts
<1> HIDE DEF k2, new, p2
<1>7. /\ p2.items = p.items /\ p2.start = p.start /\ p2.next = l + 1 /\ p2.main = p.main
      /\ p2.form = p.form /\ p2.features = p.features /\ p2.keeps = p.keeps /\ p2.all = p.all
      /\ p2.rest = p.rest /\ p2.size = p.size /\ p2.text_pos = p.text_pos /\ In(p2) = new
      /\ p2 = [items |-> p2.items, start |-> p2.start, next |-> p2.next, a |-> p2.a, b |-> p2.b,
               main |-> p2.main, form |-> p2.form, features |-> p2.features, keeps |-> p2.keeps,
               all |-> p2.all, rest |-> p2.rest, size |-> p2.size, text_pos |-> p2.text_pos]
  BY <1>6, WroteFields
<1>8. /\ k2.seq_len = k.seq_len /\ k2.text_pos = k.text_pos
      /\ k2.bidirectional = k.bidirectional
      /\ k2.data[l] = d /\ k2.state[l] = s
      /\ \A j \in Places(m) : j # l => k2.data[j] = k.data[j] /\ k2.state[j] = k.state[j]
  BY <1>4
<1>9. /\ IsSeq(d) /\ IsSeq(s)
      /\ m.blocks[l] = "attn" =>
           /\ Len(d) = p.start + n
           /\ \A j \in 1 .. Len(d) :
                /\ d[j] = KeyValue(d[j].over[1], Turned(m, t, p.keeps, l, j))
                /\ Good(m, p, t, c, j) => d[j].over[1] = R(m, k, p, t)[l - 1][j]
      /\ m.blocks[l] = "conv" => Len(s) = ConvLCache
      /\ m.blocks[l] # "attn" =>
           /\ NoImages(t) /\ p.keeps /\ Current(f) =>
                StateIs(m, l, s, SubSeq(R(m, k, p, t)[l - 1], 1, Len(f.layer)))
           /\ NoImages(t) /\ l = 1 => StateIs(m, 1, s, Seen(f))
  BY DEF Stepped, Before
<1>10. /\ l + 1 # 0 /\ ~(l + 1 = 1) /\ l + 1 - 1 = l /\ l < l + 1 /\ ~(l < l)
       /\ \A j \in Places(m) : j # l => (j < l + 1 <=> j < l)
       /\ 1 < l + 1
       /\ l # 1 => 1 < l
  BY <1>0
<1>11. KvOk(m, k2)
  <2>1. k2.data = [j \in Places(m) |-> k2.data[j]] /\ k2.state = [j \in Places(m) |-> k2.state[j]]
    BY <1>4
  <2>2. ASSUME NEW j \in Places(m)
        PROVE  /\ IsSeq(k2.data[j]) /\ IsSeq(k2.state[j])
               /\ m.blocks[j] = "conv" => Len(k2.state[j]) = ConvLCache
    BY <1>3, <1>8, <1>9 DEF KvOk
  <2>3. k2 = [data |-> k2.data, state |-> k2.state, seq_len |-> k2.seq_len,
              text_pos |-> k2.text_pos, bidirectional |-> k2.bidirectional]
    BY <1>4, <1>8
  <2>4. k2.seq_len \in Nat /\ k2.bidirectional \in BOOLEAN
    BY <1>3, <1>8 DEF KvOk
  <2>. QED
    BY <2>1, <2>2, <2>3, <2>4 DEF KvOk
<1>12. PassOk(m, k2, p2, t)
  <2>1. Parts(k2, p2, t)
    BY <1>3, <1>7, <1>8 DEF PassOk, Parts
  <2>2. p2.next \in 1 .. Len(m.blocks) + 1
    BY <1>0, <1>7
  <2>3. /\ p.keeps \in BOOLEAN /\ p.main \in BOOLEAN /\ p.features \in Nat
        /\ p.rest # <<>> => ~m.mrope /\ p.keeps /\ p.size \in Nat \ {0} /\ Len(t) <= MaxPos
        /\ RestOk(p)
        /\ p.form = "decode" => Len(p.items) = 1 /\ p.start > 0
        /\ ~p.keeps => p.start = 0 /\ p.rest = <<>> /\ p.form = "prefill" /\ p.main /\ NoImages(t)
        /\ k.bidirectional => ~p.keeps
        /\ p.main /\ p.keeps => m.mrope
        /\ \A i \in 1 .. Len(p.items) :
             IsImage(p.items[i].what) => p.features = IF m.mrope THEN m.deepstack ELSE 0
        /\ m.mrope /\ p.keeps => p.text_pos = Count(t)
    BY <1>3 DEF PassOk
  <2>4. RestOk(p2)
    BY <1>7, <2>3 DEF RestOk
  <2>. QED
    BY <1>7, <1>8, <2>1, <2>2, <2>3, <2>4 DEF PassOk
<1>13. FedOf(m, p2, c) = f
  BY <1>0, <1>7, <1>10 DEF FedOf
<1>14. \A j : Good(m, p2, t, c, j) <=> Good(m, p, t, c, j)
  BY <1>7, <1>13 DEF Good
<1>15. R(m, k2, p2, t) = R(m, k, p, t)
  BY <1>7, <1>8 DEF R
<1>16. InputOk(m, k2, p2, t, c)
  <2>1. p2.next # 1 /\ p2.next - 1 = l
    <3>1. p2.next = l + 1 /\ l \in Nat /\ l # 0
      BY <1>0, <1>7
    <3>. QED
      BY <3>1
  <2>. QED
    BY <1>5, <1>7, <1>14, <1>15, <2>1 DEF InputOk
<1>17. DataOk(m, k2, p2, t, c)
  <2> SUFFICES ASSUME NEW j \in Places(m), m.blocks[j] = "attn"
               PROVE  /\ Len(k2.data[j]) = k2.seq_len + Given(p2, j)
                      /\ \A i \in 1 .. Len(k2.data[j]) : Entry(m, k2, p2, t, c, j, i)
    BY DEF DataOk
  <2>1. CASE j = l
    <3>1. Given(p2, j) = n
      BY <1>7, <1>10, <2>1 DEF Given
    <3>2. Len(k2.data[j]) = k2.seq_len + Given(p2, j)
      BY <1>2, <1>8, <1>9, <2>1, <3>1
    <3>3. ASSUME NEW i \in 1 .. Len(k2.data[j]) PROVE Entry(m, k2, p2, t, c, j, i)
      <4>1. i \in 1 .. Len(d) /\ k2.data[j][i] = d[i]
        BY <1>8, <2>1
      <4>2. /\ d[i] = KeyValue(d[i].over[1], Turned(m, t, p.keeps, l, i))
            /\ Good(m, p, t, c, i) => d[i].over[1] = R(m, k, p, t)[l - 1][i]
        BY <1>9, <2>1, <4>1
      <4>. QED
        BY <1>7, <1>14, <1>15, <2>1, <4>1, <4>2 DEF Entry
    <3>. QED
      BY <3>2, <3>3
  <2>2. CASE j # l
    <3>1. Given(p2, j) = Given(p, j)
      BY <1>7, <1>10, <2>2 DEF Given
    <3>2. k2.data[j] = k.data[j]
      BY <1>8, <2>2
    <3>3. /\ Len(k.data[j]) = k.seq_len + Given(p, j)
          /\ \A i \in 1 .. Len(k.data[j]) : Entry(m, k, p, t, c, j, i)
      BY <1>3 DEF DataOk
    <3>4. ASSUME NEW i \in 1 .. Len(k.data[j]) PROVE Entry(m, k2, p2, t, c, j, i)
      BY <1>7, <1>14, <1>15, <3>2, <3>3 DEF Entry
    <3>. QED
      BY <1>8, <3>1, <3>2, <3>3, <3>4
  <2>. QED
    BY <2>1, <2>2
<1>18. StateOk(m, k2, p2, t, c)
  <2> SUFFICES ASSUME NEW j \in Places(m), m.blocks[j] # "attn"
               PROVE  /\ k2.seq_len = 0 /\ ~(j < p2.next) => k2.state[j] = FreshState(m, j)
                      /\ NoImages(t) /\ p2.keeps /\ Current(CacheAt(m, p2, c, j)) =>
                           StateIs(m, j, k2.state[j],
                                   SubSeq(R(m, k2, p2, t)[j - 1], 1, Len(CacheAt(m, p2, c, j).layer)))
    BY DEF StateOk
  <2>1. CASE j = l
    <3>1. CacheAt(m, p2, c, j) = f
      BY <1>7, <1>10, <1>13, <2>1 DEF CacheAt
    <3>2. j < p2.next
      BY <1>7, <1>10, <2>1
    <3>. QED
      BY <1>7, <1>8, <1>9, <1>15, <2>1, <3>1, <3>2
  <2>2. CASE j # l
    <3>1. CacheAt(m, p2, c, j) = CacheAt(m, p, c, j)
      BY <1>7, <1>10, <1>13, <2>2 DEF CacheAt
    <3>2. j < p2.next <=> j < p.next
      BY <1>7, <1>10, <2>2
    <3>3. k2.state[j] = k.state[j]
      BY <1>8, <2>2
    <3>4. /\ k.seq_len = 0 /\ ~(j < p.next) => k.state[j] = FreshState(m, j)
          /\ NoImages(t) /\ p.keeps /\ Current(CacheAt(m, p, c, j)) =>
               StateIs(m, j, k.state[j],
                       SubSeq(R(m, k, p, t)[j - 1], 1, Len(CacheAt(m, p, c, j).layer)))
      BY <1>3 DEF StateOk
    <3>. QED
      BY <1>7, <1>8, <1>15, <3>1, <3>2, <3>3, <3>4
  <2>. QED
    BY <2>1, <2>2
<1>19. FirstOk(m, k2, p2, t, c)
  <2> SUFFICES ASSUME NoImages(t) PROVE StateIs(m, 1, k2.state[1], Seen(CacheAt(m, p2, c, 1)))
    BY DEF FirstOk
  <2>1. CacheAt(m, p2, c, 1) = f
    BY <1>7, <1>10, <1>13 DEF CacheAt
  <2>2. CASE l = 1
    <3>1. CASE m.blocks[1] = "attn"
      BY <3>1 DEF StateIs
    <3>2. CASE m.blocks[1] # "attn"
      <4>1. StateIs(m, 1, s, Seen(f))
        BY <1>9, <2>2, <3>2
      <4>. QED
        BY <1>8, <2>1, <2>2, <4>1
    <3>. QED
      BY <3>1, <3>2
  <2>3. CASE l # 1
    <3>1. CacheAt(m, p, c, 1) = f
      BY <1>10, <2>3 DEF CacheAt
    <3>2. k2.state[1] = k.state[1]
      <4>1. 1 \in Places(m)
        BY <1>0
      <4>. QED
        BY <1>8, <2>3, <4>1
    <3>. QED
      BY <1>3, <2>1, <3>1, <3>2 DEF FirstOk
  <2>. QED
    BY <2>2, <2>3
<1>20. p2.next # 0 /\ c.seq_len = k2.seq_len
  BY <1>3, <1>7, <1>8, <1>10
<1> HIDE DEF f
<1>21. Inv(m, k2, p2, t, c)
  BY <1>0, <1>3, <1>11, <1>12, <1>16, <1>17, <1>18, <1>19, <1>20 DEF Inv
<1>. QED
  BY <1>21 DEF k2, p2, new

\* All of a sequence.
LEMMA WholeSeq == \A s : IsSeq(s) => SubSeq(s, 1, Len(s)) = s
<1> SUFFICES ASSUME NEW s, IsSeq(s) PROVE SubSeq(s, 1, Len(s)) = s
  OBVIOUS
<1>1. PICK S : s \in Seq(S)
  BY DEF IsSeq
<1>. QED
  BY <1>1

---------------------------------------------------------------------------
(* The steps of a pass *)

Now == Inv(model, kv, pass, text, abs)

\* What is known of the layer that is next.
LEMMA NextLayer ==
    ASSUME Now, pass.next \in Places(model)
    PROVE  /\ model \in Networks /\ pass.next # 0
           /\ IsSeq(In(pass)) /\ Len(In(pass)) = Len(pass.items) /\ Len(In(pass)) \in Nat \ {0}
           /\ DOMAIN In(pass) = 1 .. Len(In(pass))
           /\ pass.start \in Nat
           /\ pass.form = "decode" => Len(In(pass)) = 1 /\ ~kv.bidirectional
           /\ PassOk(model, kv, pass, text)
<1>1. model \in Networks /\ pass.next # 0
  BY NetFacts DEF Now, Inv
<1>2. PassOk(model, kv, pass, text)
  BY <1>1 DEF Now, Inv
<1>3. Going(model, kv, pass, text, abs, FedOf(model, pass, abs))
  BY <1>1, GoingFacts DEF Now
<1>4. /\ IsSeq(In(pass)) /\ Len(In(pass)) = Len(pass.items) /\ Len(In(pass)) \in Nat \ {0}
      /\ pass.start \in Nat
  BY <1>3 DEF Going
<1>5. DOMAIN In(pass) = 1 .. Len(In(pass))
  BY <1>4, SeqFacts
<1>6. ASSUME pass.form = "decode" PROVE Len(In(pass)) = 1 /\ ~kv.bidirectional
  <2>1. Len(pass.items) = 1 /\ (~pass.keeps => pass.form = "prefill")
        /\ (kv.bidirectional => ~pass.keeps)
    BY <1>2, <1>6 DEF PassOk
  <2>. QED
    BY <1>4, <1>6, <2>1
<1>. QED
  BY <1>1, <1>2, <1>4, <1>5, <1>6

\* What attention appends, and what its rows see.
LEMMA AttentionIs ==
    ASSUME Now, pass.next \in Places(model), model.blocks[pass.next] = "attn",
           NEW entries, entries = kv.data[pass.next] \o KeyValues(pass, pass.next, In(pass))
    PROVE  /\ entries = kv.data[pass.next] \o NewKeys(model, pass)
           /\ IsSeq(entries) /\ Len(entries) = pass.start + Len(In(pass))
           /\ AttentionStep(model, kv, pass, entries, Kernel(pass, pass.next, In(pass), entries))
           /\ pass.form = "decode" =>
                AttentionStep(model, kv, pass, entries,
                              <<Attention(In(pass)[1], Angle(pass, pass.next, 1), entries)>>)
<1> DEFINE l == pass.next
           x == In(pass)
           n == Len(x)
           rows == Kernel(pass, l, x, entries)
           To(i) == SeenTo(kv, pass, entries, i)
           Row(i) == Attention(x[i], Angle(pass, l, i), SubSeq(entries, 1, To(i)))
<1>0. /\ model \in Networks /\ IsSeq(x) /\ n = Len(pass.items) /\ n \in Nat \ {0}
      /\ DOMAIN x = 1 .. n /\ pass.start \in Nat
      /\ pass.form = "decode" => n = 1 /\ ~kv.bidirectional
  BY NextLayer
<1>1. \A i : Angle(pass, l, i) = AngleOf(model, pass, l, i)
  BY DEF Angle, AngleOf
<1>2. KeyValues(pass, l, x) = NewKeys(model, pass)
  BY <1>0, <1>1 DEF KeyValues, NewKeys
<1>3. entries = kv.data[l] \o NewKeys(model, pass)
  BY <1>2
<1>4. IsSeq(entries) /\ Len(entries) = pass.start + n
  <2>1. EntriesOk(model, kv, pass, text, abs, entries)
    BY <1>3, AttentionEntries DEF Now
  <2>. QED
    BY <1>0, <2>1 DEF EntriesOk
<1>5. ASSUME NEW i \in 1 .. n
      PROVE  (IF kv.bidirectional THEN Len(entries) ELSE Min({pass.start + i, Len(entries)})) = To(i)
  <2> DEFINE h == pass.start + i
             e == Len(entries)
  <2>1. h \in Int /\ e \in Int /\ h <= e
    BY <1>0, <1>4
  <2> HIDE DEF h, e
  <2>2. Min({h, e}) = h
    BY <2>1, MinTwo
  <2>. QED
    BY <2>2 DEF SeenTo, h, e
<1>6. rows = [i \in 1 .. n |-> Row(i)]
  <2>1. rows = [i \in 1 .. n |->
                  Attention(x[i], Angle(pass, l, i),
                    SubSeq(entries, 1, IF kv.bidirectional THEN Len(entries)
                                       ELSE Min({pass.start + i, Len(entries)})))]
    BY <1>0 DEF Kernel
  <2> HIDE DEF rows, To, x, n
  <2>. QED
    BY <1>5, <2>1
<1>7. IsSeq(rows) /\ Len(rows) = n /\ \A i \in 1 .. n : rows[i] = Row(i)
  <2> HIDE DEF rows, Row, n
  <2>1. rows = [i \in 1 .. n |-> rows[i]] /\ \A i \in 1 .. n : rows[i] = Row(i)
    BY <1>6
  <2>. QED
    BY <1>0, <2>1, FunSeq
<1>8. AttentionStep(model, kv, pass, entries, rows)
  <2> HIDE DEF rows
  <2>. QED
    BY <1>1, <1>3, <1>7 DEF AttentionStep
<1>9. ASSUME pass.form = "decode"
      PROVE  AttentionStep(model, kv, pass, entries, <<Attention(x[1], Angle(pass, l, 1), entries)>>)
  <2> DEFINE e == Attention(x[1], Angle(pass, l, 1), entries)
             s == <<e>>
  <2>1. n = 1 /\ To(1) = Len(entries)
    BY <1>0, <1>4, <1>9 DEF SeenTo
  <2>2. SubSeq(entries, 1, Len(entries)) = entries
    BY <1>4, WholeSeq
  <2>3. e = Row(1)
    BY <2>1, <2>2
  <2> HIDE DEF e
  <2>4. IsSeq(s) /\ Len(s) = 1 /\ s[1] = e
    BY SmallSeqs
  <2> HIDE DEF s
  <2>5. \A i \in 1 .. n : s[i] = Row(i)
    BY <2>1, <2>3, <2>4
  <2>6. AttentionStep(model, kv, pass, entries, s)
    BY <1>1, <1>3, <2>1, <2>4, <2>5 DEF AttentionStep
  <2>. QED
    BY <2>6 DEF s, e
<1>. QED
  BY <1>3, <1>4, <1>8, <1>9

\* A convolution, in either form.
LEMMA ConvIs ==
    ASSUME Now, pass.next \in Places(model), model.blocks[pass.next] = "conv"
    PROVE  /\ pass.form = "decode" =>
                ConvStep(model, kv, pass, kv.data[pass.next],
                         Tail(kv.state[pass.next]) \o In(pass),
                         <<Mix("conv", Tail(kv.state[pass.next]) \o In(pass))>>)
           /\ pass.form # "decode" =>
                ConvStep(model, kv, pass, kv.data[pass.next], LastOf(In(pass), ConvLCache),
                         [i \in DOMAIN In(pass) |->
                             Mix("conv", LastOf(SubSeq(In(pass), 1, i), ConvLCache))])
<1> DEFINE x == In(pass)
           n == Len(x)
<1>0. /\ n \in Nat \ {0} /\ DOMAIN x = 1 .. n
      /\ pass.form = "decode" => n = 1
  BY NextLayer
<1>1. ASSUME pass.form = "decode"
      PROVE  ConvStep(model, kv, pass, kv.data[pass.next], Tail(kv.state[pass.next]) \o x,
                      <<Mix("conv", Tail(kv.state[pass.next]) \o x)>>)
  <2> DEFINE s == Tail(kv.state[pass.next]) \o x
             e == Mix("conv", s)
  <2>1. IsSeq(<<e>>) /\ Len(<<e>>) = 1 /\ <<e>>[1] = e
    <3> HIDE DEF e
    <3>. QED
      BY SmallSeqs
  <2>. QED
    BY <1>0, <1>1, <2>1 DEF ConvStep
<1>2. ASSUME pass.form # "decode"
      PROVE  ConvStep(model, kv, pass, kv.data[pass.next], LastOf(x, ConvLCache),
                      [i \in DOMAIN x |-> Mix("conv", LastOf(SubSeq(x, 1, i), ConvLCache))])
  <2> DEFINE Row(i) == Mix("conv", LastOf(SubSeq(x, 1, i), ConvLCache))
             rows == [i \in DOMAIN x |-> Row(i)]
  <2>1. IsSeq(rows) /\ Len(rows) = n /\ \A i \in 1 .. n : rows[i] = Row(i)
    <3>1. rows = [i \in 1 .. n |-> rows[i]] /\ \A i \in 1 .. n : rows[i] = Row(i)
      <4> HIDE DEF Row, n
      <4>. QED
        BY <1>0
    <3> HIDE DEF rows, Row, n
    <3>. QED
      BY <1>0, <3>1, FunSeq
  <2> HIDE DEF rows
  <2>2. ConvStep(model, kv, pass, kv.data[pass.next], LastOf(x, ConvLCache), rows)
    BY <1>2, <2>1 DEF ConvStep
  <2>. QED
    BY <2>2 DEF rows
<1>. QED
  BY <1>1, <1>2

\* DeltaNet, in either form.
LEMMA DeltaIs ==
    ASSUME Now, pass.next \in Places(model), model.blocks[pass.next] = "deltanet"
    PROVE  /\ pass.form = "decode" =>
                DeltaStep(model, kv, pass, kv.data[pass.next], kv.state[pass.next] \o In(pass),
                          <<Mix("deltanet", kv.state[pass.next] \o In(pass))>>)
           /\ DeltaStep(model, kv, pass, kv.data[pass.next],
                        kv.state[pass.next] \o SubSeq(In(pass), 1, Len(In(pass))),
                        [i \in DOMAIN In(pass) |->
                            Mix("deltanet", kv.state[pass.next] \o SubSeq(In(pass), 1, i))])
<1> DEFINE x == In(pass)
           n == Len(x)
           st == kv.state[pass.next]
<1>0. /\ n \in Nat \ {0} /\ DOMAIN x = 1 .. n
      /\ pass.form = "decode" => n = 1
  BY NextLayer
<1>1. SubSeq(x, 1, n) = x
  <2>1. PICK S : x \in Seq(S)
    BY NextLayer DEF IsSeq
  <2>. QED
    BY <2>1
<1>2. ASSUME pass.form = "decode"
      PROVE  DeltaStep(model, kv, pass, kv.data[pass.next], st \o x, <<Mix("deltanet", st \o x)>>)
  <2> DEFINE e == Mix("deltanet", st \o x)
             s == <<e>>
  <2>1. IsSeq(s) /\ Len(s) = 1 /\ s[1] = e
    <3> HIDE DEF e
    <3>. QED
      BY SmallSeqs
  <2>2. n = 1
    BY <1>0, <1>2
  <2>3. \A i \in 1 .. n : s[i] = Mix("deltanet", st \o SubSeq(x, 1, i))
    <3> HIDE DEF s
    <3>1. e = Mix("deltanet", st \o SubSeq(x, 1, 1))
      BY <1>1, <2>2
    <3>. QED
      BY <2>1, <2>2, <3>1
  <2> HIDE DEF s, e
  <2>4. DeltaStep(model, kv, pass, kv.data[pass.next], st \o x, s)
    BY <2>1, <2>2, <2>3 DEF DeltaStep
  <2>. QED
    BY <2>4 DEF s, e
<1>3. DeltaStep(model, kv, pass, kv.data[pass.next], st \o SubSeq(x, 1, n),
                [i \in DOMAIN x |-> Mix("deltanet", st \o SubSeq(x, 1, i))])
  <2> DEFINE Row(i) == Mix("deltanet", st \o SubSeq(x, 1, i))
             rows == [i \in DOMAIN x |-> Row(i)]
  <2>1. IsSeq(rows) /\ Len(rows) = n /\ \A i \in 1 .. n : rows[i] = Row(i)
    <3>1. rows = [i \in 1 .. n |-> rows[i]] /\ \A i \in 1 .. n : rows[i] = Row(i)
      <4> HIDE DEF Row, n
      <4>. QED
        BY <1>0
    <3> HIDE DEF rows, Row, n
    <3>. QED
      BY <1>0, <3>1, FunSeq
  <2> HIDE DEF rows
  <2>2. DeltaStep(model, kv, pass, kv.data[pass.next], st \o SubSeq(x, 1, n), rows)
    BY <1>1, <2>1 DEF DeltaStep
  <2>. QED
    BY <2>2 DEF rows
<1>. QED
  BY <1>2, <1>3

\* A layer, of any kind and in any form, does one of the three.
StepOf(l) == CASE pass.form = "decode" -> ForwardDecode(pass, l, In(pass))
               [] pass.form = "phases" -> ForwardPhaseB(pass, l, ForwardPhaseA(pass, l, In(pass)))
               [] OTHER -> ForwardPrefill(pass, l, In(pass))

\* Each kind of step, in each form of a pass, does what is asked of its layer.
LEMMA StepIs ==
    ASSUME Now, pass.next \in Places(model), ~Fails(pass)
    PROVE  Stepped(model, kv, pass, text, abs, StepOf(pass.next).data, StepOf(pass.next).state,
                   StepOf(pass.next).rows)
<1> DEFINE l == pass.next
           x == In(pass)
           z == StepOf(l)
           entries == kv.data[l] \o KeyValues(pass, l, x)
           all == kv.state[l] \o x
           moved == Tail(kv.state[l]) \o x
<1>0. model \in Networks
  BY NextLayer
<1>1. model.blocks[l] \in {"attn", "conv", "deltanet"}
  BY <1>0, NetFacts DEF Blocks
<1>2. CASE model.blocks[l] = "attn"
  <2>1. z.data = entries /\ z.state = kv.state[l]
        /\ (pass.form # "decode" => z.rows = Kernel(pass, l, x, entries))
        /\ (pass.form = "decode" =>
              z.rows = <<Attention(x[1], Angle(pass, l, 1), entries)>>)
    <3>1. CASE pass.form = "decode"
      <4>1. z = AttentionDecode(pass, l, x)
        BY <1>2, <3>1 DEF StepOf, ForwardDecode
      <4> HIDE DEF z
      <4>. QED
        BY <3>1, <4>1 DEF AttentionDecode, Appended
    <3>2. CASE pass.form = "phases"
      <4>1. z = PhaseB(pass, l, PhaseA(pass, l, x))
        BY <3>2 DEF StepOf, ForwardPhaseA, ForwardPhaseB
      <4> HIDE DEF z
      <4>. QED
        BY <3>2, <4>1 DEF PhaseA, PhaseB, Appended
    <3>3. CASE pass.form # "decode" /\ pass.form # "phases"
      <4>1. z = AttentionPrefill(pass, l, x)
        BY <1>2, <3>3 DEF StepOf, ForwardPrefill
      <4> HIDE DEF z
      <4>. QED
        BY <3>3, <4>1 DEF AttentionPrefill, Appended
    <3>. QED
      BY <3>1, <3>2, <3>3
  <2>2. AttentionStep(model, kv, pass, z.data, z.rows)
    <3> DEFINE g == entries
               ra == Kernel(pass, l, x, g)
               rd == <<Attention(x[1], Angle(pass, l, 1), g)>>
    <3>1. g = kv.data[l] \o KeyValues(pass, l, x)
      OBVIOUS
    <3> HIDE DEF g, z
    <3>2. /\ AttentionStep(model, kv, pass, g, ra)
          /\ pass.form = "decode" => AttentionStep(model, kv, pass, g, rd)
      BY <1>2, <3>1, AttentionIs
    <3>. QED
      BY <2>1, <3>2 DEF g
  <2> HIDE DEF z
  <2>3. Stepped(model, kv, pass, text, abs, z.data, kv.state[pass.next], z.rows)
    BY <1>2, <2>2, AttentionStepped DEF Now
  <2>. QED
    BY <2>1, <2>3 DEF z
<1>3. CASE model.blocks[l] = "conv"
  <2>1. ConvStep(model, kv, pass, z.data, z.state, z.rows)
    <3>1. CASE pass.form = "decode"
      <4>1. z = ConvDecode(l, x)
        BY <1>3, <3>1 DEF StepOf, ForwardDecode
      <4> HIDE DEF z
      <4>2. z.data = kv.data[l] /\ z.state = moved /\ z.rows = <<Mix("conv", moved)>>
        BY <4>1 DEF ConvDecode
      <4>3. ConvStep(model, kv, pass, kv.data[l], moved, <<Mix("conv", moved)>>)
        BY <1>3, <3>1, ConvIs
      <4>. QED
        BY <4>2, <4>3
    <3>2. CASE pass.form # "decode"
      <4> DEFINE rows == [i \in DOMAIN x |-> Mix("conv", LastOf(SubSeq(x, 1, i), ConvLCache))]
      <4>1. z = ConvPrefill(l, x)
        BY <1>3, <3>2 DEF StepOf, ForwardPrefill, Fails
      <4> HIDE DEF z
      <4>2. z.data = kv.data[l] /\ z.state = LastOf(x, ConvLCache) /\ z.rows = rows
        BY <4>1 DEF ConvPrefill
      <4>3. ConvStep(model, kv, pass, kv.data[l], LastOf(x, ConvLCache), rows)
        BY <1>3, <3>2, ConvIs
      <4> HIDE DEF rows
      <4>. QED
        BY <4>2, <4>3
    <3>. QED
      BY <3>1, <3>2
  <2> HIDE DEF z
  <2>2. Stepped(model, kv, pass, text, abs, z.data, z.state, z.rows)
    BY <1>3, <2>1, ConvStepped DEF Now
  <2>. QED
    BY <2>2 DEF z
<1>4. CASE model.blocks[l] = "deltanet"
  <2>1. DeltaStep(model, kv, pass, z.data, z.state, z.rows)
    <3>1. CASE pass.form = "decode"
      <4>1. z = DeltanetDecode(l, x)
        BY <1>4, <3>1 DEF StepOf, ForwardDecode
      <4> HIDE DEF z
      <4>2. z.data = kv.data[l] /\ z.state = all /\ z.rows = <<Mix("deltanet", all)>>
        BY <4>1 DEF DeltanetDecode, RecurrentSteps
      <4>3. DeltaStep(model, kv, pass, kv.data[l], all, <<Mix("deltanet", all)>>)
        BY <1>4, <3>1, DeltaIs
      <4>. QED
        BY <4>2, <4>3
    <3>2. CASE pass.form # "decode"
      <4> DEFINE rows == [i \in DOMAIN x |-> Mix("deltanet", kv.state[l] \o SubSeq(x, 1, i))]
                 st == kv.state[l] \o SubSeq(x, 1, Len(x))
      <4>1. z = DeltanetPrefill(l, x)
        BY <1>4, <3>2 DEF StepOf, ForwardPrefill, Fails
      <4> HIDE DEF z
      <4>2. z.data = kv.data[l] /\ z.state = st /\ z.rows = rows
        BY <4>1 DEF DeltanetPrefill, RecurrentSteps
      <4>3. DeltaStep(model, kv, pass, kv.data[l], st, rows)
        BY <1>4, DeltaIs
      <4> HIDE DEF rows, st
      <4>. QED
        BY <4>2, <4>3
    <3>. QED
      BY <3>1, <3>2
  <2> HIDE DEF z
  <2>2. Stepped(model, kv, pass, text, abs, z.data, z.state, z.rows)
    BY <1>4, <2>1, DeltaStepped DEF Now
  <2>. QED
    BY <2>2 DEF z
<1>. QED
  BY <1>1, <1>2, <1>3, <1>4

\* A layer keeps the invariant.
LEMMA LayerStepKeeps ==
    ASSUME Now, LayerStep
    PROVE  Now'
<1> DEFINE l == pass.next
           z == StepOf(l)
           d == z.data
           s == z.state
           rows == z.rows
<1>1. /\ l \in Places(model) /\ ~Fails(pass)
      /\ kv' = [kv EXCEPT !.data[l] = d, !.state[l] = s]
      /\ pass' = Wrote(pass, Inject(pass, l, rows))
      /\ UNCHANGED <<model, text, abs>>
  BY DEF LayerStep, StepOf, Layers, NumLayers, Places
<1>2. Stepped(model, kv, pass, text, abs, d, s, rows)
  BY <1>1, StepIs
<1> HIDE DEF z, d, s, rows
<1>3. Inv(model, Relayed(kv, pass.next, d, s), Wrote(pass, Inject(pass, pass.next, rows)), text, abs)
  BY <1>1, <1>2, LayerInv DEF Now
<1>. QED
  BY <1>1, <1>3 DEF Now, Relayed

---------------------------------------------------------------------------
(* The operations that start a pass *)

\* A pass that starts on more text keeps the invariant.
LEMMA BeginInv ==
    ASSUME NEW m, NEW k, NEW t, NEW c, Inv(m, k, NoPass, t, c), Len(t) = k.seq_len,
           NEW u, IsSeq(u), Len(u) >= Len(t), \A i \in 1 .. Len(t) : u[i] = t[i],
           TextOk(u), NoImages(u) => NoImages(t),
           NEW k2, KvOk(m, k2), k2.data = k.data, k2.state = k.state, k2.seq_len = k.seq_len,
           k.seq_len # 0 => k2.bidirectional = FALSE,
           NEW p, PassOk(m, k2, p, u), p.next = 1, In(p) = Embeds(p.items)
    PROVE  Inv(m, k2, p, u, c)
<1> DEFINE p0 == NoPass
           f == FedOf(m, p, c)
<1>0. p0.next = 0 /\ p0.keeps = TRUE
  BY DEF NoPass
<1>1. /\ m \in Networks /\ TextOk(t) /\ KvOk(m, k) /\ CopyOk(m, t, c) /\ c.seq_len = k.seq_len
      /\ IdleOk(m, k, t)
      /\ DataOk(m, k, p0, t, c) /\ StateOk(m, k, p0, t, c) /\ FirstOk(m, k, p0, t, c)
  BY <1>0 DEF Inv
<1> HIDE DEF p0
<1>2. IsSeq(t) /\ Len(t) \in Nat /\ Len(u) \in Nat
  BY <1>1, SeqFacts DEF TextOk
<1>3. /\ IsSeq(c.layer) /\ IsSeq(c.state) /\ Len(c.layer) = Len(t)
  BY <1>1 DEF CopyOk
<1>4. /\ IsSeq(p.items) /\ p.start = Len(t) /\ Len(p.items) \in Nat /\ Len(p.rest) \in Nat
      /\ p.start + Len(p.items) + Len(p.rest) = Len(u)
      /\ \A i \in 1 .. Len(p.items) : p.items[i] = u[p.start + i]
      /\ ~p.keeps => p.start = 0
      /\ p.keeps \in BOOLEAN
  <2>1. /\ IsSeq(p.items) /\ IsSeq(p.rest) /\ p.start = k2.seq_len
        /\ p.start + Len(p.items) + Len(p.rest) = Len(u)
        /\ \A i \in 1 .. Len(p.items) : p.items[i] = u[p.start + i]
        /\ ~p.keeps => p.start = 0
        /\ p.keeps \in BOOLEAN
    BY DEF PassOk, Parts
  <2>2. Len(p.items) \in Nat /\ Len(p.rest) \in Nat
    BY <2>1, SeqFacts
  <2>. QED
    BY <2>1, <2>2
<1>5. FedOk(m, p, c, f)
  BY <1>1, <1>3, <1>4, FedFacts
<1>6. \A j \in 1 .. Len(t) : f.layer[j] = c.layer[j]
  BY <1>3, <1>5 DEF FedOk
<1>7. FedOf(m, p0, c) = c /\ \A l \in Places(m) : CacheAt(m, p0, c, l) = c /\ Given(p0, l) = 0
  BY <1>0, <1>1, NetFacts DEF FedOf, CacheAt, Given
<1>8. \A l \in Places(m) : ~(l < p.next) /\ CacheAt(m, p, c, l) = c /\ Given(p, l) = 0
  BY <1>1, NetFacts DEF CacheAt, Given
<1> HIDE DEF f
<1>9. Len(t) # 0 => p.keeps = TRUE /\ k.bidirectional = FALSE /\ k2.bidirectional = FALSE
  <2>1. Len(t) > 0 => k.seq_len > 0
    OBVIOUS
  <2>2. k.bidirectional \in BOOLEAN
    BY <1>1 DEF KvOk
  <2>. QED
    BY <1>1, <1>2, <1>4, <2>1, <2>2 DEF IdleOk
<1>10. ASSUME Len(t) # 0, NEW l \in 0 .. Len(m.blocks), NEW j \in 1 .. Len(t)
       PROVE  R(m, k2, p, u)[l][j] = R(m, k, p0, t)[l][j]
  <2> DEFINE bi == k.bidirectional
             ke == p.keeps
  <2>1. bi = FALSE /\ ke = p0.keeps /\ k2.bidirectional = bi
    BY <1>0, <1>9, <1>10
  <2> HIDE DEF bi, ke
  <2>2. Scratch(m, u, bi, ke)[l][j] = Scratch(m, t, bi, ke)[l][j]
    <3> DEFINE n == Len(t)
    <3>1. n \in Nat /\ n <= Len(u) /\ n <= Len(t) /\ \A i \in 1 .. n : u[i] = t[i]
      BY <1>2
    <3>2. bi = FALSE
      BY <2>1
    <3> HIDE DEF n
    <3>3. SameRows(m, u, t, bi, ke, n)
      BY <1>1, <1>2, <3>1, <3>2, Causal
    <3>. QED
      BY <3>3 DEF n, SameRows
  <2>. QED
    BY <2>1, <2>2 DEF R, bi, ke
<1>11. ASSUME NEW j \in 1 .. Len(t), Good(m, p, u, c, j)
       PROVE  Good(m, p0, t, c, j)
  <2>1. Len(t) # 0 /\ p.keeps
    BY <1>2, <1>9
  <2>. QED
    BY <1>0, <1>6, <1>7, <1>11, <2>1 DEF Good, f
<1>12. CopyOk(m, u, c)
  <2>1. ASSUME NoImages(u)
        PROVE  /\ \A j \in 1 .. c.seq_len : c.layer[j].tok = u[j].what[1] /\ c.layer[j].pos = j - 1
               /\ m.mrope => c.text_pos = c.seq_len
               /\ Ahead(m, c)
    BY <1>1, <2>1 DEF CopyOk
  <2>. QED
    BY <1>1, <2>1 DEF CopyOk
<1>13. InputOk(m, k2, p, u, c)
  <2> DEFINE bi == k2.bidirectional
             ke == p.keeps
             e == Embeds(p.items)
  <2>1. e = [i \in 1 .. Len(p.items) |-> Embed(p.items[i].what)]
    BY DEF Embeds
  <2> HIDE DEF e
  <2>2. e = [i \in 1 .. Len(p.items) |-> e[i]] /\ \A i \in 1 .. Len(p.items) : e[i] = Embed(p.items[i].what)
    BY <2>1
  <2>3. IsSeq(e) /\ Len(e) = Len(p.items)
    BY <1>4, <2>2, FunSeq
  <2> HIDE DEF bi, ke
  <2>4. Scratch(m, u, bi, ke)[0] = Embeds(u)
    BY <1>1, ScratchRec
  <2>5. R(m, k2, p, u)[p.next - 1] = Embeds(u)
    BY <2>4 DEF R, bi, ke
  <2>6. ASSUME NEW i \in 1 .. Len(p.items) PROVE e[i] = R(m, k2, p, u)[p.next - 1][p.start + i]
    <3>1. p.start + i \in 1 .. Len(u) /\ p.items[i] = u[p.start + i]
      <4>1. p.items[i] = u[p.start + i]
        BY <1>4
      <4>2. i \in Nat /\ i >= 1 /\ i <= Len(p.items) /\ p.start \in Nat
        BY <1>2, <1>4
      <4>3. p.start + i \in 1 .. Len(u)
        BY <1>2, <1>4, <4>2
      <4>. QED
        BY <4>1, <4>3
    <3>2. Embeds(u)[p.start + i] = Embed(u[p.start + i].what)
      BY <3>1 DEF Embeds
    <3>. QED
      BY <2>2, <2>5, <3>1, <3>2
  <2>7. In(p) = e
    BY DEF e
  <2>. QED
    BY <2>3, <2>6, <2>7 DEF InputOk, e
<1>14. DataOk(m, k2, p, u, c)
  <2> SUFFICES ASSUME NEW l \in Places(m), m.blocks[l] = "attn"
               PROVE  /\ Len(k2.data[l]) = k2.seq_len + Given(p, l)
                      /\ \A j \in 1 .. Len(k2.data[l]) : Entry(m, k2, p, u, c, l, j)
    BY DEF DataOk
  <2>1. /\ Len(k.data[l]) = k.seq_len + 0
        /\ \A j \in 1 .. Len(k.data[l]) : Entry(m, k, p0, t, c, l, j)
    BY <1>1, <1>7 DEF DataOk
  <2>2. Len(k.data[l]) = Len(t)
    BY <1>2, <2>1
  <2>3. ASSUME NEW j \in 1 .. Len(k2.data[l]) PROVE Entry(m, k2, p, u, c, l, j)
    <3>1. j \in 1 .. Len(t) /\ Len(t) # 0 /\ k2.data[l][j] = k.data[l][j]
      BY <1>2, <2>2
    <3>2. Entry(m, k, p0, t, c, l, j)
      BY <2>1, <2>2, <3>1
    <3>3. Turned(m, u, p.keeps, l, j) = Turned(m, t, p0.keeps, l, j)
      BY <1>0, <1>9, <3>1 DEF Turned
    <3>4. l - 1 \in 0 .. Len(m.blocks)
      BY <1>1, NetFacts
    <3>5. R(m, k2, p, u)[l - 1][j] = R(m, k, p0, t)[l - 1][j]
      BY <1>10, <3>1, <3>4
    <3>. QED
      BY <1>11, <3>1, <3>2, <3>3, <3>5 DEF Entry
  <2>. QED
    BY <1>8, <2>1, <2>3
<1>15. StateOk(m, k2, p, u, c)
  <2> SUFFICES ASSUME NEW l \in Places(m), m.blocks[l] # "attn"
               PROVE  /\ k2.seq_len = 0 /\ ~(l < p.next) => k2.state[l] = FreshState(m, l)
                      /\ NoImages(u) /\ p.keeps /\ Current(CacheAt(m, p, c, l)) =>
                           StateIs(m, l, k2.state[l],
                                   SubSeq(R(m, k2, p, u)[l - 1], 1, Len(CacheAt(m, p, c, l).layer)))
    BY DEF StateOk
  <2>1. ASSUME k2.seq_len = 0 PROVE k2.state[l] = FreshState(m, l)
    <3>1. k = FreshOf(m)
      BY <1>1, <2>1 DEF IdleOk
    <3>2. k.state[l] = FreshState(m, l)
      BY <3>1 DEF FreshOf
    <3>. QED
      BY <3>2
  <2>2. ASSUME NoImages(u), Current(c)
        PROVE  StateIs(m, l, k2.state[l], SubSeq(R(m, k2, p, u)[l - 1], 1, Len(c.layer)))
    <3> DEFINE h == l - 1
               x == R(m, k, p0, t)[h]
               y == R(m, k2, p, u)[h]
               n == Len(t)
    <3>1. n # 0 /\ h \in 0 .. Len(m.blocks)
      BY <1>1, <1>2, <1>3, <2>2, NetFacts DEF Current
    <3>2. StateIs(m, l, k.state[l], SubSeq(x, 1, n))
      BY <1>0, <1>1, <1>3, <1>7, <2>2 DEF StateOk
    <3> HIDE DEF h
    <3>3. IsSeq(x) /\ Len(x) = n
      <4> DEFINE bi == k.bidirectional
                 ke == p0.keeps
      <4> HIDE DEF bi, ke
      <4>1. IsSeq(Scratch(m, t, bi, ke)[h]) /\ Len(Scratch(m, t, bi, ke)[h]) = Len(t)
        BY <1>1, <1>2, <3>1, ScratchShape
      <4>. QED
        BY <4>1 DEF R, bi, ke
    <3>4. IsSeq(y) /\ Len(y) = Len(u)
      <4> DEFINE bi == k2.bidirectional
                 ke == p.keeps
      <4> HIDE DEF bi, ke
      <4>1. IsSeq(Scratch(m, u, bi, ke)[h]) /\ Len(Scratch(m, u, bi, ke)[h]) = Len(u)
        BY <1>1, <3>1, ScratchShape
      <4>. QED
        BY <4>1 DEF R, bi, ke
    <3>5. \A j \in 1 .. n : x[j] = y[j]
      BY <1>10, <3>1
    <3> HIDE DEF x, y, n
    <3>6. n \in Nat /\ n <= Len(x) /\ n <= Len(y)
      BY <1>2, <3>3, <3>4 DEF n
    <3>7. SubSeq(x, 1, n) = SubSeq(y, 1, n)
      BY <3>3, <3>4, <3>5, <3>6, SameFirst
    <3>. QED
      BY <1>3, <3>2, <3>7 DEF y, n, h
  <2>. QED
    BY <1>8, <2>1, <2>2
<1>16. FirstOk(m, k2, p, u, c)
  <2>1. 1 \in Places(m)
    BY <1>1, NetFacts
  <2>. QED
    BY <1>1, <1>7, <1>8, <2>1 DEF FirstOk
<1>. QED
  BY <1>1, <1>12, <1>13, <1>14, <1>15, <1>16 DEF Inv

\* A pass at its start.
IsStarted(p, items, start) ==
    p = [items |-> items, start |-> start, next |-> 1, a |-> Embeds(items), b |-> p.b,
         main |-> p.main, form |-> p.form, features |-> p.features, keeps |-> p.keeps,
         all |-> p.all, rest |-> p.rest, size |-> p.size, text_pos |-> p.text_pos]
Begun(items, start) ==
    [items |-> items, start |-> start, next |-> 1, a |-> Embeds(items), b |-> <<>>,
     main |-> FALSE, form |-> "prefill", features |-> 0, keeps |-> TRUE, all |-> FALSE,
     rest |-> <<>>, size |-> 0, text_pos |-> kv.text_pos]

\* Its fields.
LEMMA StartedFields ==
    ASSUME NEW p, NEW items, NEW start, IsStarted(p, items, start)
    PROVE  /\ p.items = items /\ p.start = start /\ p.next = 1 /\ In(p) = Embeds(items)
           /\ p = [items |-> p.items, start |-> p.start, next |-> p.next, a |-> p.a, b |-> p.b,
                   main |-> p.main, form |-> p.form, features |-> p.features, keeps |-> p.keeps,
                   all |-> p.all, rest |-> p.rest, size |-> p.size, text_pos |-> p.text_pos]
<1>1. p.next = 1 /\ p.a = Embeds(items) /\ p.items = items /\ p.start = start
  BY DEF IsStarted
<1>2. In(p) = p.a
  BY <1>1 DEF In
<1>. QED
  BY <1>1, <1>2 DEF IsStarted

\* A pass is refused or runs.
LEMMA PassIs ==
    ASSUME NEW items, IsSeq(items), NEW start
    PROVE  /\ Run(items, start) = Begun(items, start)
           /\ \/ Pass(items, start) = NoPass
              \/ /\ Pass(items, start) = Begun(items, start)
                 /\ Len(items) > 0 /\ start + Len(items) <= MaxPos
<1>1. Run(items, start) = Begun(items, start)
  <2>1. DOMAIN items = 1 .. Len(items)
    BY SeqFacts
  <2>2. [i \in DOMAIN items |-> Embed(items[i].what)] = Embeds(items)
    BY <2>1 DEF Embeds
  <2>. QED
    BY <2>2 DEF Run, Begun
<1>. QED
  BY <1>1 DEF Pass, Fits

\* The texts that are fed.
LEMMA TextsFacts ==
    ASSUME NEW toks \in Texts
    PROVE  /\ IsSeq(toks) /\ Len(toks) \in Nat \ {0} /\ \A i \in 1 .. Len(toks) : toks[i] \in Tokens
<1>1. PICK n \in 1 .. MaxText : toks \in [1 .. n -> Tokens]
  BY DEF Texts
<1>2. n \in Nat /\ n # 0 /\ toks = [i \in 1 .. n |-> toks[i]] /\ \A i \in 1 .. n : toks[i] \in Tokens
  BY <1>1, PassAssumption
<1>3. IsSeq(toks) /\ Len(toks) = n
  BY <1>2, FunSeq
<1>. QED
  BY <1>2, <1>3

\* Tokens are not images.
LEMMA TokensFacts ==
    ASSUME NEW toks, IsSeq(toks), \A i \in 1 .. Len(toks) : toks[i] \in Tokens, NEW q
    PROVE  NoImages(TextItems(toks, q))
<1> DEFINE s == TextItems(toks, q)
<1>1. Len(s) = Len(toks) /\ \A i \in 1 .. Len(toks) : s[i].what[1] = toks[i]
  <2>1. Len(TextItems(toks, q)) = Len(toks)
    BY ItemsFacts
  <2>2. \A i \in 1 .. Len(toks) : TextItems(toks, q)[i].what[1] = toks[i]
    <3> SUFFICES ASSUME NEW i \in 1 .. Len(toks) PROVE TextItems(toks, q)[i].what[1] = toks[i]
      OBVIOUS
    <3>. QED
      BY ItemsFacts
  <2>. QED
    BY <2>1, <2>2
<1>2. 0 \notin Tokens
  BY PassAssumption
<1> HIDE DEF s
<1>3. NoImages(s)
  BY <1>1, <1>2 DEF NoImages, IsImage
<1>. QED
  BY <1>3 DEF s

\* What is known between passes.
LEMMA IdleFacts ==
    ASSUME Now, Idle
    PROVE  /\ model \in Networks /\ pass = NoPass /\ Inv(model, kv, NoPass, text, abs)
           /\ TextOk(text) /\ IsSeq(text) /\ Len(text) \in Nat
           /\ KvOk(model, kv) /\ kv.bidirectional = FALSE
           /\ New => text = <<>> /\ Len(text) = 0 /\ kv.seq_len = 0 /\ kv.text_pos = 0
           /\ Used => Len(text) = kv.seq_len /\ Len(text) > 0
           /\ New \/ Used => Len(text) = kv.seq_len /\ (model.mrope => kv.text_pos = Count(text))
<1>1. /\ model \in Networks /\ pass = NoPass /\ Inv(model, kv, NoPass, text, abs)
      /\ TextOk(text) /\ IsSeq(text) /\ KvOk(model, kv) /\ IdleOk(model, kv, text)
  BY DEF Now, Inv, Idle, TextOk
<1>2. Len(text) \in Nat
  BY <1>1, SeqFacts
<1>3. kv.seq_len \in Nat /\ kv.bidirectional \in BOOLEAN
  BY <1>1 DEF KvOk
<1>4. kv.bidirectional = FALSE
  <2>1. CASE kv.seq_len = 0
    BY <1>1, <2>1 DEF IdleOk, FreshOf
  <2>2. CASE kv.seq_len > 0
    BY <1>1, <1>3, <2>2 DEF IdleOk
  <2>3. kv.seq_len = 0 \/ kv.seq_len > 0
    BY <1>3
  <2>. QED
    BY <2>1, <2>2, <2>3
<1>5. ASSUME New PROVE text = <<>> /\ Len(text) = 0 /\ kv.seq_len = 0 /\ kv.text_pos = 0
  BY <1>5, SmallSeqs DEF New, FreshCache
<1>6. ASSUME Used
      PROVE Len(text) = kv.seq_len /\ Len(text) > 0 /\ (model.mrope => kv.text_pos = Count(text))
  BY <1>1, <1>6 DEF Used, IdleOk
<1>7. ASSUME New PROVE kv.text_pos = Count(text)
  <2>1. NoImages(text)
    BY <1>5, <1>7 DEF NoImages
  <2>. QED
    BY <1>1, <1>5, <1>7, <2>1, CountAll
<1>. QED
  BY <1>1, <1>2, <1>4, <1>5, <1>6, <1>7

\* Where tokens that follow the text belong.
After == IF model.mrope THEN Count(text) ELSE Len(text)

\* Follow puts them there.
LEMMA FollowIs ==
    ASSUME Now, Idle, NEW toks
    PROVE  Follow(toks) = TextItems(toks, After)
<1>1. DOMAIN text = 1 .. Len(text)
  BY IdleFacts, SeqFacts
<1>2. TextPos = Count(text)
  BY <1>1 DEF TextPos, Count
<1>. QED
  BY <1>2 DEF Follow, After

\* Text after a text.
LEMMA FollowText ==
    ASSUME Now, Idle, NEW toks, IsSeq(toks), Len(toks) # 0, \A i \in 1 .. Len(toks) : toks[i] \in Tokens,
           NEW q, q = After, NEW s, s = TextItems(toks, q)
    PROVE  /\ IsSeq(s) /\ Len(s) = Len(toks) /\ NoImages(s)
           /\ TextOk(text \o s) /\ (NoImages(text \o s) => NoImages(text))
           /\ Joined(text, s, text \o s)
           /\ Count(text \o s) = Count(text) + Len(toks)
<1>1. /\ IsSeq(s) /\ Len(s) = Len(toks)
      /\ \A i \in 1 .. Len(s) : ItemOk(s[i]) /\ s[i] = [what |-> <<toks[i]>>, pos |-> TextPosition(q + i - 1)]
  <2>1. IsSeq(TextItems(toks, q)) /\ Len(TextItems(toks, q)) = Len(toks)
    BY ItemsFacts
  <2>2. \A i \in 1 .. Len(toks) :
           /\ TextItems(toks, q)[i] = [what |-> <<toks[i]>>, pos |-> TextPosition(q + i - 1)]
           /\ ItemOk(TextItems(toks, q)[i])
    BY ItemsFacts
  <2>. QED
    BY <2>1, <2>2
<1>2. NoImages(s)
  BY TokensFacts
<1>3. TextOk(text) /\ IsSeq(text)
  BY IdleFacts
<1>4. NoImages(text) => q = Len(text)
  BY <1>3, CountAll DEF After
<1>5. NoImages(text) => \A i \in 1 .. Len(s) : s[i].pos = TextPosition(Len(text) + i - 1)
  <2> SUFFICES ASSUME NoImages(text), NEW i \in 1 .. Len(s)
               PROVE  s[i].pos = TextPosition(Len(text) + i - 1)
    OBVIOUS
  <2>1. s[i] = [what |-> <<toks[i]>>, pos |-> TextPosition(q + i - 1)]
    BY <1>1
  <2>2. s[i].pos = TextPosition(q + i - 1)
    BY <2>1
  <2>. QED
    BY <1>4, <2>2
<1>6. TextOk(text \o s) /\ (NoImages(text \o s) => NoImages(text))
  BY <1>1, <1>3, <1>5, TextJoin
<1>7. Count(text \o s) = Count(text) + Count(s) /\ Count(s) = Len(toks)
  BY <1>1, <1>2, <1>3, CountJoin, CountAll
<1>8. Joined(text, s, text \o s)
  BY <1>1, <1>3, JoinOk
<1>. QED
  BY <1>1, <1>2, <1>6, <1>7, <1>8

\* What is asked of a pass over s, all of it at once, that makes the text u.
StartOk(m, k, p, s, u) ==
    /\ p.keeps \in BOOLEAN /\ p.main \in BOOLEAN /\ p.features \in Nat /\ p.rest = <<>>
    /\ p.form = "decode" => Len(s) = 1 /\ k.seq_len > 0
    /\ ~p.keeps => k.seq_len = 0 /\ p.form = "prefill" /\ p.main /\ NoImages(u)
    /\ k.bidirectional => ~p.keeps
    /\ p.main /\ p.keeps => m.mrope
    /\ \A i \in 1 .. Len(s) :
           IsImage(s[i].what) => p.features = IF m.mrope THEN m.deepstack ELSE 0
    /\ m.mrope /\ p.keeps => p.text_pos = Count(u)
\* The cache is as it was, but maybe bidirectional, which only a new one is made.
SameCache(k2) ==
    /\ KvOk(model, k2) /\ k2.data = kv.data /\ k2.state = kv.state /\ k2.seq_len = kv.seq_len
    /\ kv.seq_len # 0 => k2.bidirectional = FALSE

\* A pass over all that is added to the text keeps the invariant.
LEMMA StartInv ==
    ASSUME Now, Idle, New \/ Used, NEW s, IsSeq(s), Len(s) # 0, NEW u, u = text \o s, TextOk(u),
           NoImages(u) => NoImages(text), NEW k2, SameCache(k2),
           NEW p, IsStarted(p, s, kv.seq_len), StartOk(model, k2, p, s, u)
    PROVE  Inv(model, k2, p, u, abs)
<1>1. /\ model \in Networks /\ Inv(model, kv, NoPass, text, abs) /\ IsSeq(text) /\ Len(text) \in Nat
      /\ Len(text) = kv.seq_len
  BY IdleFacts
<1>2. Joined(text, s, u)
  BY <1>1, JoinOk
<1>3. /\ IsSeq(u) /\ Len(u) = Len(text) + Len(s)
      /\ \A i \in 1 .. Len(text) : u[i] = text[i]
      /\ \A i \in 1 .. Len(s) : u[Len(text) + i] = s[i]
  BY <1>2 DEF Joined
<1>4. Len(s) \in Nat /\ IsSeq(<<>>) /\ Len(<<>>) = 0
  BY SeqFacts, SmallSeqs
<1>5. /\ p.items = s /\ p.start = kv.seq_len /\ p.next = 1 /\ In(p) = Embeds(s)
      /\ p = [items |-> p.items, start |-> p.start, next |-> p.next, a |-> p.a, b |-> p.b,
              main |-> p.main, form |-> p.form, features |-> p.features, keeps |-> p.keeps,
              all |-> p.all, rest |-> p.rest, size |-> p.size, text_pos |-> p.text_pos]
  BY StartedFields
<1>6. Parts(k2, p, u)
  <2>1. p.rest = <<>> /\ p.start = k2.seq_len
    BY <1>5 DEF StartOk, SameCache
  <2>2. Len(p.items) > 0 /\ p.start + Len(p.items) + Len(p.rest) = Len(u)
    BY <1>1, <1>3, <1>4, <1>5, <2>1
  <2>3. \A i \in 1 .. Len(p.items) : p.items[i] = u[p.start + i]
    BY <1>1, <1>3, <1>5
  <2>4. \A i \in 1 .. Len(p.rest) : FALSE
    BY <1>4, <2>1
  <2>. QED
    BY <1>4, <1>5, <2>1, <2>2, <2>3, <2>4 DEF Parts
<1>7. p.next \in 1 .. Len(model.blocks) + 1
  BY <1>1, <1>5, NetFacts
<1>8. PassOk(model, k2, p, u)
  <2>1. p.form = "decode" => Len(p.items) = 1 /\ p.start > 0
    BY <1>5 DEF StartOk, SameCache
  <2>2. /\ p.keeps \in BOOLEAN /\ p.main \in BOOLEAN /\ p.features \in Nat /\ p.rest = <<>>
        /\ ~p.keeps => p.start = 0 /\ p.rest = <<>> /\ p.form = "prefill" /\ p.main /\ NoImages(u)
        /\ k2.bidirectional => ~p.keeps
        /\ p.main /\ p.keeps => model.mrope
        /\ \A i \in 1 .. Len(p.items) :
               IsImage(p.items[i].what) => p.features = IF model.mrope THEN model.deepstack ELSE 0
        /\ model.mrope /\ p.keeps => p.text_pos = Count(u)
    BY <1>5 DEF StartOk, SameCache
  <2>3. RestOk(p)
    <3>1. \A i \in 1 .. Len(<<>>) : FALSE
      BY <1>4
    <3>. QED
      BY <2>2, <3>1 DEF RestOk
  <2>. QED
    BY <1>5, <1>6, <1>7, <2>1, <2>2, <2>3 DEF PassOk
<1>9. Len(u) >= Len(text)
  BY <1>1, <1>3, <1>4
<1>10. In(p) = Embeds(p.items)
  BY <1>5
<1>. QED
  BY <1>1, <1>3, <1>5, <1>8, <1>9, <1>10, BeginInv DEF SameCache

\* A pass has these fields and no other.
IsPass(p) ==
    p = [items |-> p.items, start |-> p.start, next |-> p.next, a |-> p.a, b |-> p.b,
         main |-> p.main, form |-> p.form, features |-> p.features, keeps |-> p.keeps,
         all |-> p.all, rest |-> p.rest, size |-> p.size, text_pos |-> p.text_pos]
\* q is the pass r, of another kind.
Same(r, q) ==
    /\ IsPass(q) /\ q.items = r.items /\ q.start = r.start /\ q.next = r.next /\ q.a = r.a
    /\ q.rest = r.rest

\* The fields a pass is told apart by.
LEMMA SetMain ==
    ASSUME NEW r, IsPass(r), NEW v, NEW q, q = [r EXCEPT !.main = v]
    PROVE  /\ Same(r, q) /\ q.main = v /\ q.form = r.form /\ q.features = r.features
           /\ q.keeps = r.keeps /\ q.text_pos = r.text_pos
BY DEF IsPass, Same

\* The form of a pass.
LEMMA SetForm ==
    ASSUME NEW r, IsPass(r), NEW v, NEW q, q = [r EXCEPT !.form = v]
    PROVE  /\ Same(r, q) /\ q.main = r.main /\ q.form = v /\ q.features = r.features
           /\ q.keeps = r.keeps /\ q.text_pos = r.text_pos
BY DEF IsPass, Same

\* The layers it has features for.
LEMMA SetFeatures ==
    ASSUME NEW r, IsPass(r), NEW v, NEW q, q = [r EXCEPT !.features = v]
    PROVE  /\ Same(r, q) /\ q.main = r.main /\ q.form = r.form /\ q.features = v
           /\ q.keeps = r.keeps /\ q.text_pos = r.text_pos
BY DEF IsPass, Same

\* Whether it keeps what it computes.
LEMMA SetKeeps ==
    ASSUME NEW r, IsPass(r), NEW v, NEW q, q = [r EXCEPT !.keeps = v]
    PROVE  /\ Same(r, q) /\ q.main = r.main /\ q.form = r.form /\ q.features = r.features
           /\ q.keeps = v /\ q.text_pos = r.text_pos
BY DEF IsPass, Same

\* Whether it gives all rows.
LEMMA SetAll ==
    ASSUME NEW r, IsPass(r), NEW v, NEW q, q = [r EXCEPT !.all = v]
    PROVE  /\ Same(r, q) /\ q.main = r.main /\ q.form = r.form /\ q.features = r.features
           /\ q.keeps = r.keeps /\ q.text_pos = r.text_pos
BY DEF IsPass, Same

\* Where its text ends.
LEMMA SetTextPos ==
    ASSUME NEW r, IsPass(r), NEW v, NEW q, q = [r EXCEPT !.text_pos = v]
    PROVE  /\ Same(r, q) /\ q.main = r.main /\ q.form = r.form /\ q.features = r.features
           /\ q.keeps = r.keeps /\ q.text_pos = v
BY DEF IsPass, Same

\* A pass of a new kind has started where the other has.
LEMMA SameStarted ==
    ASSUME NEW r, NEW q, Same(r, q), NEW items, NEW start, IsStarted(r, items, start)
    PROVE  IsStarted(q, items, start)
<1>1. /\ r.items = items /\ r.start = start /\ r.next = 1 /\ r.a = Embeds(items)
  BY DEF IsStarted
<1>. QED
  BY <1>1 DEF Same, IsPass, IsStarted

\* What a pass is given when it starts.
Plain(r) == r.main = FALSE /\ r.form = "prefill" /\ r.features = 0 /\ r.keeps = TRUE

\* A pass that runs has started and is of no special kind.
LEMMA PassGiven ==
    ASSUME NEW items, IsSeq(items), NEW start, NEW r, r = Pass(items, start) \/ r = Run(items, start)
    PROVE  /\ IsPass(r)
           /\ r.next # 0 => IsStarted(r, items, start) /\ r.rest = <<>> /\ Plain(r)
<1>1. CASE r = Begun(items, start)
  BY <1>1 DEF Begun, IsPass, IsStarted, Plain
<1>2. CASE r = NoPass
  BY <1>2 DEF NoPass, IsPass
<1>3. r = NoPass \/ r = Begun(items, start)
  BY PassIs
<1>. QED
  BY <1>1, <1>2, <1>3

\* A pass over tokens that follow the text keeps the invariant.
LEMMA StartText ==
    ASSUME Now, Idle, New \/ Used, NEW toks, IsSeq(toks), Len(toks) # 0,
           \A i \in 1 .. Len(toks) : toks[i] \in Tokens,
           NEW q, q = After, NEW s, s = TextItems(toks, q), NEW p, IsStarted(p, s, kv.seq_len),
           p.rest = <<>>, p.keeps = TRUE, p.main \in BOOLEAN, p.features \in Nat,
           p.main => model.mrope, p.form = "decode" => Len(toks) = 1 /\ Used,
           model.mrope => p.text_pos = q + Len(toks)
    PROVE  Inv(model, kv, p, text \o s, abs)
<1> DEFINE u == text \o s
<1>1. /\ IsSeq(s) /\ Len(s) = Len(toks) /\ NoImages(s)
      /\ TextOk(u) /\ (NoImages(u) => NoImages(text))
      /\ Count(u) = Count(text) + Len(toks)
  BY FollowText
<1>2. kv.bidirectional = FALSE /\ KvOk(model, kv)
  BY IdleFacts
<1>3. model.mrope => p.text_pos = Count(u)
  BY <1>1 DEF After
<1>4. Len(s) # 0
  BY <1>1
<1>5. \A i \in 1 .. Len(s) : ~IsImage(s[i].what)
  BY <1>1 DEF NoImages
<1>6. SameCache(kv)
  BY <1>2 DEF SameCache
<1>7. u = text \o s
  OBVIOUS
<1> HIDE DEF u
<1>8. StartOk(model, kv, p, s, u)
  BY <1>1, <1>2, <1>3, <1>5 DEF StartOk, Used
<1>9. Inv(model, kv, p, u, abs)
  BY <1>1, <1>4, <1>6, <1>7, <1>8, StartInv
<1>. QED
  BY <1>9 DEF u

\* What begins a pass, given the text it makes.
LEMMA BeginKeeps ==
    ASSUME NEW p, NEW more, Begin(p, more), UNCHANGED kv, Inv(model, kv, p, text \o more, abs)
    PROVE  Now'
<1>1. pass' = p /\ text' = text \o more /\ model' = model /\ abs' = abs /\ kv' = kv
  BY DEF Begin
<1> DEFINE u == text \o more
<1>2. text' = u /\ Inv(model, kv, p, u, abs)
  BY <1>1
<1> HIDE DEF u
<1>. QED
  BY <1>1, <1>2 DEF Now

\* How passes are when they start: with MRoPE, without, and for an embedding.
MropeStart(p, items, start, form, features, n) ==
    /\ IsStarted(p, items, start) /\ p.rest = <<>> /\ p.main = TRUE /\ p.form = form
    /\ p.features = features /\ p.keeps = TRUE /\ p.text_pos = n
PlainStart(p, items, start, form) ==
    /\ IsStarted(p, items, start) /\ p.rest = <<>> /\ p.main = FALSE /\ p.form = form
    /\ p.features = 0 /\ p.keeps = TRUE
EmbedStart(p, items, start) ==
    /\ IsStarted(p, items, start) /\ p.rest = <<>> /\ p.main = TRUE /\ p.form = "prefill"
    /\ p.features = 0 /\ p.keeps = FALSE
\* How they are made.
MropePass(items, features, start, n) ==
    [PrefillWithEmbedsMrope(items, features, start) EXCEPT !.text_pos = n]
FormMropePass(items, start, form, n) ==
    [Pass(items, start) EXCEPT !.main = TRUE, !.form = form, !.text_pos = n]
AllMropePass(items, start, n) ==
    [Pass(items, start) EXCEPT !.main = TRUE, !.all = TRUE, !.text_pos = n]
EmbeddingPass(items, start) == [Pass(items, start) EXCEPT !.main = TRUE, !.keeps = FALSE]
EmbedAllPass(items, start) ==
    [Pass(items, start) EXCEPT !.main = TRUE, !.keeps = FALSE, !.all = TRUE]
AllPass(items, start) == [Pass(items, start) EXCEPT !.all = TRUE]
TextPosPass(items, start, n) == [Pass(items, start) EXCEPT !.text_pos = n]
FormPass(r, form) == [r EXCEPT !.form = form]

\* A pass with MRoPE, at its start.
LEMMA MropeStarts ==
    ASSUME NEW items, IsSeq(items), NEW start, NEW features, NEW n,
           NEW p, p = MropePass(items, features, start, n),
           p.next # 0
    PROVE  MropeStart(p, items, start, "prefill", features, n)
<1> DEFINE yes == TRUE
           r == Pass(items, start)
           r1 == [r EXCEPT !.main = yes]
           r2 == [r1 EXCEPT !.features = features]
           r3 == [r2 EXCEPT !.text_pos = n]
<1>1. p = r3
  BY DEF PrefillWithEmbedsMrope, MropePass
<1>2. IsPass(r) /\ (r.next # 0 => IsStarted(r, items, start) /\ r.rest = <<>> /\ Plain(r))
  BY PassGiven
<1> HIDE DEF r, yes
<1>2a. IsPass(r) /\ r1 = [r EXCEPT !.main = yes]
  BY <1>2
<1> HIDE DEF r1
<1>3. /\ Same(r, r1) /\ r1.main = yes /\ r1.form = r.form /\ r1.features = r.features
      /\ r1.keeps = r.keeps /\ r1.text_pos = r.text_pos
  BY ONLY <1>2a, SetMain
<1>4. IsPass(r1)
  BY <1>3 DEF Same
<1>5. /\ Same(r1, r2) /\ r2.main = r1.main /\ r2.form = r1.form /\ r2.features = features
      /\ r2.keeps = r1.keeps /\ r2.text_pos = r1.text_pos
  BY <1>4, SetFeatures
<1> HIDE DEF r2
<1>6. IsPass(r2)
  BY <1>5 DEF Same
<1>7. /\ Same(r2, r3) /\ r3.main = r2.main /\ r3.form = r2.form /\ r3.features = r2.features
      /\ r3.keeps = r2.keeps /\ r3.text_pos = n
  BY <1>6, SetTextPos
<1> HIDE DEF r3
<1>8. Same(r, p)
  BY <1>1, <1>3, <1>5, <1>7 DEF Same
<1>9. r.next # 0
  BY <1>8 DEF Same
<1>10. IsStarted(p, items, start)
  BY <1>2, <1>8, <1>9, SameStarted
<1>11. p.main = yes /\ p.features = features /\ p.text_pos = n
  BY <1>1, <1>3, <1>5, <1>7
<1>12. p.form = r.form /\ p.keeps = r.keeps /\ p.rest = r.rest
  BY <1>1, <1>3, <1>5, <1>7, <1>8 DEF Same
<1>13. r.form = "prefill" /\ r.keeps = TRUE /\ r.rest = <<>>
  BY <1>2, <1>9 DEF Plain
<1>14. p.form = "prefill" /\ p.keeps = TRUE /\ p.rest = <<>>
  BY <1>12, <1>13, Zenon
<1>. QED
  BY <1>10, <1>11, <1>14, Zenon DEF yes, MropeStart

\* A pass of another form with MRoPE, at its start.
LEMMA FormMropeStarts ==
    ASSUME NEW items, IsSeq(items), NEW start, NEW form, NEW n,
           NEW p, p = FormMropePass(items, start, form, n), p.next # 0
    PROVE  MropeStart(p, items, start, form, 0, n)
<1> DEFINE yes == TRUE
           no == FALSE
           r0 == Pass(items, start)
           r1 == [r0 EXCEPT !.main = yes]
           r2 == [r1 EXCEPT !.form = form]
           r3 == [r2 EXCEPT !.text_pos = n]
<1>1. p = r3
  BY DEF FormMropePass
<1>2. IsPass(r0) /\ (r0.next # 0 => IsStarted(r0, items, start) /\ r0.rest = <<>> /\ Plain(r0))
  BY PassGiven
<1> HIDE DEF r0, yes, no
<1>3. /\ Same(r0, r1) /\ r1.main = yes /\ r1.form = r0.form /\ r1.features = r0.features
      /\ r1.keeps = r0.keeps /\ r1.text_pos = r0.text_pos
  BY ONLY <1>2, SetMain
<1> HIDE DEF r1
<1>4. IsPass(r1)
  BY <1>3 DEF Same
<1>5. /\ Same(r1, r2) /\ r2.main = r1.main /\ r2.form = form /\ r2.features = r1.features
      /\ r2.keeps = r1.keeps /\ r2.text_pos = r1.text_pos
  BY ONLY <1>4, SetForm
<1> HIDE DEF r2
<1>6. IsPass(r2)
  BY <1>5 DEF Same
<1>7. /\ Same(r2, r3) /\ r3.main = r2.main /\ r3.form = r2.form /\ r3.features = r2.features
      /\ r3.keeps = r2.keeps /\ r3.text_pos = n
  BY ONLY <1>6, SetTextPos
<1> HIDE DEF r3
<1>8. Same(r0, p)
  BY <1>1, <1>3, <1>5, <1>7 DEF Same
<1>9. r0.next # 0
  BY <1>8 DEF Same
<1>10. IsStarted(p, items, start)
  BY <1>2, <1>8, <1>9, SameStarted
<1>11. p.main = yes /\ p.form = form /\ p.text_pos = n
  BY <1>1, <1>3, <1>5, <1>7
<1>12. p.features = r0.features /\ p.keeps = r0.keeps /\ p.rest = r0.rest
  BY <1>1, <1>3, <1>5, <1>7, <1>8 DEF Same
<1>13. r0.features = 0 /\ r0.keeps = TRUE /\ r0.rest = <<>>
  BY <1>2, <1>9 DEF Plain
<1>14. p.features = 0 /\ p.keeps = TRUE /\ p.rest = <<>>
  BY <1>12, <1>13, Zenon
<1>. QED
  BY <1>11, <1>10, <1>14, Zenon DEF yes, no, MropeStart

\* A verification with MRoPE, at its start.
LEMMA AllMropeStarts ==
    ASSUME NEW items, IsSeq(items), NEW start, NEW n,
           NEW p, p = AllMropePass(items, start, n), p.next # 0
    PROVE  MropeStart(p, items, start, "prefill", 0, n)
<1> DEFINE yes == TRUE
           no == FALSE
           r0 == Pass(items, start)
           r1 == [r0 EXCEPT !.main = yes]
           r2 == [r1 EXCEPT !.all = yes]
           r3 == [r2 EXCEPT !.text_pos = n]
<1>1. p = r3
  BY DEF AllMropePass
<1>2. IsPass(r0) /\ (r0.next # 0 => IsStarted(r0, items, start) /\ r0.rest = <<>> /\ Plain(r0))
  BY PassGiven
<1> HIDE DEF r0, yes, no
<1>3. /\ Same(r0, r1) /\ r1.main = yes /\ r1.form = r0.form /\ r1.features = r0.features
      /\ r1.keeps = r0.keeps /\ r1.text_pos = r0.text_pos
  BY ONLY <1>2, SetMain
<1> HIDE DEF r1
<1>4. IsPass(r1)
  BY <1>3 DEF Same
<1>5. /\ Same(r1, r2) /\ r2.main = r1.main /\ r2.form = r1.form /\ r2.features = r1.features
      /\ r2.keeps = r1.keeps /\ r2.text_pos = r1.text_pos
  BY ONLY <1>4, SetAll
<1> HIDE DEF r2
<1>6. IsPass(r2)
  BY <1>5 DEF Same
<1>7. /\ Same(r2, r3) /\ r3.main = r2.main /\ r3.form = r2.form /\ r3.features = r2.features
      /\ r3.keeps = r2.keeps /\ r3.text_pos = n
  BY ONLY <1>6, SetTextPos
<1> HIDE DEF r3
<1>8. Same(r0, p)
  BY <1>1, <1>3, <1>5, <1>7 DEF Same
<1>9. r0.next # 0
  BY <1>8 DEF Same
<1>10. IsStarted(p, items, start)
  BY <1>2, <1>8, <1>9, SameStarted
<1>11. p.main = yes /\ p.text_pos = n
  BY <1>1, <1>3, <1>5, <1>7
<1>12. p.form = r0.form /\ p.features = r0.features /\ p.keeps = r0.keeps /\ p.rest = r0.rest
  BY <1>1, <1>3, <1>5, <1>7, <1>8 DEF Same
<1>13. r0.form = "prefill" /\ r0.features = 0 /\ r0.keeps = TRUE /\ r0.rest = <<>>
  BY <1>2, <1>9 DEF Plain
<1>14. p.form = "prefill" /\ p.features = 0 /\ p.keeps = TRUE /\ p.rest = <<>>
  BY <1>12, <1>13, Zenon
<1>. QED
  BY <1>11, <1>10, <1>14, Zenon DEF yes, no, MropeStart

\* The pass of an embedding, at its start.
LEMMA EmbeddingStarts ==
    ASSUME NEW items, IsSeq(items), NEW start, 
           NEW p, p = EmbeddingPass(items, start), p.next # 0
    PROVE  EmbedStart(p, items, start)
<1> DEFINE yes == TRUE
           no == FALSE
           r0 == Pass(items, start)
           r1 == [r0 EXCEPT !.main = yes]
           r2 == [r1 EXCEPT !.keeps = no]
<1>1. p = r2
  BY DEF EmbeddingPass
<1>2. IsPass(r0) /\ (r0.next # 0 => IsStarted(r0, items, start) /\ r0.rest = <<>> /\ Plain(r0))
  BY PassGiven
<1> HIDE DEF r0, yes, no
<1>3. /\ Same(r0, r1) /\ r1.main = yes /\ r1.form = r0.form /\ r1.features = r0.features
      /\ r1.keeps = r0.keeps /\ r1.text_pos = r0.text_pos
  BY ONLY <1>2, SetMain
<1> HIDE DEF r1
<1>4. IsPass(r1)
  BY <1>3 DEF Same
<1>5. /\ Same(r1, r2) /\ r2.main = r1.main /\ r2.form = r1.form /\ r2.features = r1.features
      /\ r2.keeps = no /\ r2.text_pos = r1.text_pos
  BY ONLY <1>4, SetKeeps
<1> HIDE DEF r2
<1>6. Same(r0, p)
  BY <1>1, <1>3, <1>5 DEF Same
<1>7. r0.next # 0
  BY <1>6 DEF Same
<1>8. IsStarted(p, items, start)
  BY <1>2, <1>6, <1>7, SameStarted
<1>9. p.main = yes /\ p.keeps = no
  BY <1>1, <1>3, <1>5
<1>10. p.form = r0.form /\ p.features = r0.features /\ p.rest = r0.rest
  BY <1>1, <1>3, <1>5, <1>6 DEF Same
<1>11. r0.form = "prefill" /\ r0.features = 0 /\ r0.rest = <<>>
  BY <1>2, <1>7 DEF Plain
<1>12. p.form = "prefill" /\ p.features = 0 /\ p.rest = <<>>
  BY <1>10, <1>11, Zenon
<1>. QED
  BY <1>9, <1>8, <1>12, Zenon DEF yes, no, EmbedStart

\* The pass of embeddings of all rows, at its start.
LEMMA EmbedAllStarts ==
    ASSUME NEW items, IsSeq(items), NEW start, 
           NEW p, p = EmbedAllPass(items, start), p.next # 0
    PROVE  EmbedStart(p, items, start)
<1> DEFINE yes == TRUE
           no == FALSE
           r0 == Pass(items, start)
           r1 == [r0 EXCEPT !.main = yes]
           r2 == [r1 EXCEPT !.keeps = no]
           r3 == [r2 EXCEPT !.all = yes]
<1>1. p = r3
  BY DEF EmbedAllPass
<1>2. IsPass(r0) /\ (r0.next # 0 => IsStarted(r0, items, start) /\ r0.rest = <<>> /\ Plain(r0))
  BY PassGiven
<1> HIDE DEF r0, yes, no
<1>3. /\ Same(r0, r1) /\ r1.main = yes /\ r1.form = r0.form /\ r1.features = r0.features
      /\ r1.keeps = r0.keeps /\ r1.text_pos = r0.text_pos
  BY ONLY <1>2, SetMain
<1> HIDE DEF r1
<1>4. IsPass(r1)
  BY <1>3 DEF Same
<1>5. /\ Same(r1, r2) /\ r2.main = r1.main /\ r2.form = r1.form /\ r2.features = r1.features
      /\ r2.keeps = no /\ r2.text_pos = r1.text_pos
  BY ONLY <1>4, SetKeeps
<1> HIDE DEF r2
<1>6. IsPass(r2)
  BY <1>5 DEF Same
<1>7. /\ Same(r2, r3) /\ r3.main = r2.main /\ r3.form = r2.form /\ r3.features = r2.features
      /\ r3.keeps = r2.keeps /\ r3.text_pos = r2.text_pos
  BY ONLY <1>6, SetAll
<1> HIDE DEF r3
<1>8. Same(r0, p)
  BY <1>1, <1>3, <1>5, <1>7 DEF Same
<1>9. r0.next # 0
  BY <1>8 DEF Same
<1>10. IsStarted(p, items, start)
  BY <1>2, <1>8, <1>9, SameStarted
<1>11. p.main = yes /\ p.keeps = no
  BY <1>1, <1>3, <1>5, <1>7
<1>12. p.form = r0.form /\ p.features = r0.features /\ p.rest = r0.rest
  BY <1>1, <1>3, <1>5, <1>7, <1>8 DEF Same
<1>13. r0.form = "prefill" /\ r0.features = 0 /\ r0.rest = <<>>
  BY <1>2, <1>9 DEF Plain
<1>14. p.form = "prefill" /\ p.features = 0 /\ p.rest = <<>>
  BY <1>12, <1>13, Zenon
<1>. QED
  BY <1>11, <1>10, <1>14, Zenon DEF yes, no, EmbedStart

\* A verification, at its start.
LEMMA AllStarts ==
    ASSUME NEW items, IsSeq(items), NEW start, 
           NEW p, p = AllPass(items, start), p.next # 0
    PROVE  PlainStart(p, items, start, "prefill")
<1> DEFINE yes == TRUE
           no == FALSE
           r0 == Pass(items, start)
           r1 == [r0 EXCEPT !.all = yes]
<1>1. p = r1
  BY DEF AllPass
<1>2. IsPass(r0) /\ (r0.next # 0 => IsStarted(r0, items, start) /\ r0.rest = <<>> /\ Plain(r0))
  BY PassGiven
<1> HIDE DEF r0, yes, no
<1>3. /\ Same(r0, r1) /\ r1.main = r0.main /\ r1.form = r0.form /\ r1.features = r0.features
      /\ r1.keeps = r0.keeps /\ r1.text_pos = r0.text_pos
  BY ONLY <1>2, SetAll
<1> HIDE DEF r1
<1>4. Same(r0, p)
  BY <1>1, <1>3 DEF Same
<1>5. r0.next # 0
  BY <1>4 DEF Same
<1>6. IsStarted(p, items, start)
  BY <1>2, <1>4, <1>5, SameStarted
<1>7. p.form = r0.form /\ p.features = r0.features /\ p.keeps = r0.keeps /\ p.main = r0.main /\ p.rest = r0.rest
  BY <1>1, <1>3, <1>4 DEF Same
<1>8. r0.form = "prefill" /\ r0.features = 0 /\ r0.keeps = TRUE /\ r0.main = FALSE /\ r0.rest = <<>>
  BY <1>2, <1>5 DEF Plain
<1>9. p.form = "prefill" /\ p.features = 0 /\ p.keeps = TRUE /\ p.main = FALSE /\ p.rest = <<>>
  BY <1>7, <1>8, Zenon
<1>. QED
  BY <1>6, <1>9, Zenon DEF yes, no, PlainStart

\* A pass that counts its text, at its start.
LEMMA TextPosStarts ==
    ASSUME NEW items, IsSeq(items), NEW start, NEW n,
           NEW p, p = TextPosPass(items, start, n), p.next # 0
    PROVE  PlainStart(p, items, start, "prefill")
<1> DEFINE yes == TRUE
           no == FALSE
           r0 == Pass(items, start)
           r1 == [r0 EXCEPT !.text_pos = n]
<1>1. p = r1
  BY DEF TextPosPass
<1>2. IsPass(r0) /\ (r0.next # 0 => IsStarted(r0, items, start) /\ r0.rest = <<>> /\ Plain(r0))
  BY PassGiven
<1> HIDE DEF r0, yes, no
<1>3. /\ Same(r0, r1) /\ r1.main = r0.main /\ r1.form = r0.form /\ r1.features = r0.features
      /\ r1.keeps = r0.keeps /\ r1.text_pos = n
  BY ONLY <1>2, SetTextPos
<1> HIDE DEF r1
<1>4. Same(r0, p)
  BY <1>1, <1>3 DEF Same
<1>5. r0.next # 0
  BY <1>4 DEF Same
<1>6. IsStarted(p, items, start)
  BY <1>2, <1>4, <1>5, SameStarted
<1>7. p.text_pos = n
  BY <1>1, <1>3
<1>8. p.form = r0.form /\ p.features = r0.features /\ p.keeps = r0.keeps /\ p.main = r0.main /\ p.rest = r0.rest
  BY <1>1, <1>3, <1>4 DEF Same
<1>9. r0.form = "prefill" /\ r0.features = 0 /\ r0.keeps = TRUE /\ r0.main = FALSE /\ r0.rest = <<>>
  BY <1>2, <1>5 DEF Plain
<1>10. p.form = "prefill" /\ p.features = 0 /\ p.keeps = TRUE /\ p.main = FALSE /\ p.rest = <<>>
  BY <1>8, <1>9, Zenon
<1>. QED
  BY <1>7, <1>6, <1>10, Zenon DEF yes, no, PlainStart

\* A pass of another form, at its start.
LEMMA FormStarts ==
    ASSUME NEW items, IsSeq(items), NEW start, NEW form,
           NEW r, r = Pass(items, start) \/ r = Run(items, start),
           NEW p, p = FormPass(r, form), p.next # 0
    PROVE  PlainStart(p, items, start, form)
<1> DEFINE q == [r EXCEPT !.form = form]
<1>1. p = q
  BY DEF FormPass
<1>2. IsPass(r) /\ (r.next # 0 => IsStarted(r, items, start) /\ r.rest = <<>> /\ Plain(r))
  BY PassGiven
<1>2a. IsPass(r) /\ q = [r EXCEPT !.form = form]
  BY <1>2
<1> HIDE DEF q
<1>3. /\ Same(r, q) /\ q.main = r.main /\ q.form = form /\ q.features = r.features
      /\ q.keeps = r.keeps /\ q.text_pos = r.text_pos
  BY ONLY <1>2a, SetForm
<1>4. Same(r, p) /\ r.next # 0
  BY <1>1, <1>3 DEF Same
<1>5. IsStarted(p, items, start)
  BY <1>2, <1>4, SameStarted
<1>6. p.features = r.features /\ p.keeps = r.keeps /\ p.main = r.main /\ p.rest = r.rest
  BY <1>1, <1>3, <1>4 DEF Same
<1>7. r.features = 0 /\ r.keeps = TRUE /\ r.main = FALSE /\ r.rest = <<>>
  BY <1>2, <1>4 DEF Plain
<1>8. p.features = 0 /\ p.keeps = TRUE /\ p.main = FALSE /\ p.rest = <<>>
  BY <1>6, <1>7, Zenon
<1>. QED
  BY <1>1, <1>3, <1>5, <1>8, Zenon DEF PlainStart

\* What waits, and in chunks of which size.
LEMMA SetRest ==
    ASSUME NEW r, IsPass(r), NEW v, NEW q, q = [r EXCEPT !.rest = v]
    PROVE  /\ IsPass(q) /\ q.items = r.items /\ q.start = r.start /\ q.next = r.next /\ q.a = r.a
           /\ q.main = r.main /\ q.form = r.form /\ q.features = r.features /\ q.keeps = r.keeps
           /\ q.rest = v
BY DEF IsPass

\* The size of the chunks.
LEMMA SetSize ==
    ASSUME NEW r, IsPass(r), NEW v, NEW q, q = [r EXCEPT !.size = v]
    PROVE  /\ IsPass(q) /\ q.items = r.items /\ q.start = r.start /\ q.next = r.next /\ q.a = r.a
           /\ q.main = r.main /\ q.form = r.form /\ q.features = r.features /\ q.keeps = r.keeps
           /\ q.rest = r.rest /\ q.size = v
BY DEF IsPass

\* Where a chunk ends.
EndOf(toks, size) == IF size <= Len(toks) THEN size ELSE Len(toks)

\* The first n of these tokens as a pass, the others waiting.
ChunkIs(p, items, toks, size, start, n) ==
    /\ IsStarted(p, items, start) /\ p.main = FALSE /\ p.form = "prefill" /\ p.features = 0
    /\ p.keeps = TRUE /\ p.rest = SubSeq(toks, n + 1, Len(toks)) /\ p.size = size
    /\ n \in 1 .. Len(toks) /\ IsSeq(items) /\ Len(items) = n

\* A chunk that fits starts, and the tokens after it wait.
LEMMA ChunkStarts ==
    ASSUME NEW toks, IsSeq(toks), Len(toks) # 0, NEW size \in Nat \ {0}, NEW start \in Nat,
           start + Len(toks) <= MaxPos,
           NEW n, n = EndOf(toks, size),
           NEW items, items = TextItems(SubSeq(toks, 1, n), start),
           NEW p, p = Chunk(toks, size, start)
    PROVE  ChunkIs(p, items, toks, size, start, n)
<1> DEFINE r == Pass(items, start)
           v == SubSeq(toks, n + 1, Len(toks))
           r1 == [r EXCEPT !.rest = v]
           r2 == [r1 EXCEPT !.size = size]
<1>1. Len(toks) \in Nat /\ n \in 1 .. Len(toks)
  <2>1. Len(toks) \in Nat
    BY SeqFacts
  <2>. QED
    BY <2>1 DEF EndOf
<1>2. n = Min({size, Len(toks)})
  <2> DEFINE h == Len(toks)
  <2>1. h \in Int /\ size \in Int /\ n = IF size <= h THEN size ELSE h
    BY <1>1 DEF EndOf
  <2> HIDE DEF h
  <2>2. Min({size, h}) = IF size <= h THEN size ELSE h
    BY <2>1, MinTwo
  <2>3. n = Min({size, h})
    BY <2>1, <2>2
  <2>. QED
    BY <2>3 DEF h
<1>3. p = r2
  <2>1. Chunk(toks, size, start) =
            [PrefillWithToken(SubSeq(toks, 1, n), start) EXCEPT
                !.rest = SubSeq(toks, n + 1, Len(toks)), !.size = size]
    BY <1>2 DEF Chunk
  <2>2. PrefillWithToken(SubSeq(toks, 1, n), start) = r
    BY DEF PrefillWithToken
  <2>. QED
    BY <2>1, <2>2
<1>4. IsSeq(items) /\ Len(items) = n
  <2> DEFINE s == SubSeq(toks, 1, n)
  <2>1. n \in 0 .. Len(toks)
    BY <1>1
  <2>2. IsSeq(s) /\ Len(s) = n
    BY <2>1, FirstFacts
  <2> HIDE DEF s
  <2>3. IsSeq(TextItems(s, start)) /\ Len(TextItems(s, start)) = Len(s)
    BY <2>2, ItemsFacts
  <2>. QED
    BY <2>2, <2>3 DEF s
<1>5. r = Begun(items, start)
  <2>1. Fits(start, Len(items))
    BY <1>1, <1>4, PassAssumption DEF Fits
  <2>2. Run(items, start) = Begun(items, start)
    BY <1>4, PassIs
  <2>. QED
    BY <2>1, <2>2 DEF Pass
<1>6. r.next # 0
  BY <1>5 DEF Begun
<1>7. IsPass(r) /\ IsStarted(r, items, start) /\ Plain(r)
  BY <1>4, <1>6, PassGiven
<1> HIDE DEF r, v
<1>8. /\ IsPass(r1) /\ r1.items = r.items /\ r1.start = r.start /\ r1.next = r.next /\ r1.a = r.a
      /\ r1.main = r.main /\ r1.form = r.form /\ r1.features = r.features /\ r1.keeps = r.keeps
      /\ r1.rest = v
  BY ONLY <1>7, SetRest
<1> HIDE DEF r1
<1>9. /\ IsPass(r2) /\ r2.items = r1.items /\ r2.start = r1.start /\ r2.next = r1.next /\ r2.a = r1.a
      /\ r2.main = r1.main /\ r2.form = r1.form /\ r2.features = r1.features /\ r2.keeps = r1.keeps
      /\ r2.rest = r1.rest /\ r2.size = size
  BY ONLY <1>8, SetSize
<1> HIDE DEF r2
<1>10. IsStarted(p, items, start)
  <2>1. r.items = items /\ r.start = start /\ r.next = 1 /\ r.a = Embeds(items)
    BY <1>7 DEF IsStarted
  <2>2. IsPass(p) /\ p.items = items /\ p.start = start /\ p.next = 1 /\ p.a = Embeds(items)
    BY <1>3, <1>8, <1>9, <2>1
  <2>. QED
    BY <2>2 DEF IsPass, IsStarted
<1>11. p.main = r.main /\ p.form = r.form /\ p.features = r.features /\ p.keeps = r.keeps
  BY <1>3, <1>8, <1>9
<1>12. r.main = FALSE /\ r.form = "prefill" /\ r.features = 0 /\ r.keeps = TRUE
  BY <1>7 DEF Plain
<1>13. p.main = FALSE /\ p.form = "prefill" /\ p.features = 0 /\ p.keeps = TRUE
  BY <1>11, <1>12, Zenon
<1>14. p.rest = v /\ p.size = size
  BY <1>3, <1>8, <1>9
<1>. QED
  BY <1>1, <1>4, <1>10, <1>13, <1>14, Zenon DEF v, ChunkIs

\* The text from start on is of these tokens.
TextIs(t, toks, start) ==
    /\ IsSeq(t) /\ Len(t) = start + Len(toks)
    /\ \A i \in 1 .. Len(toks) :
           t[start + i] = [what |-> <<toks[i]>>, pos |-> TextPosition(start + i - 1)]

\* The tokens that are taken chunk by chunk fit.
ChunksFit(m, k, toks, size, start) ==
    /\ m \in Networks /\ ~m.mrope /\ IsSeq(toks) /\ Len(toks) # 0
    /\ \A i \in 1 .. Len(toks) : toks[i] \in Tokens
    /\ size \in Nat \ {0} /\ start \in Nat /\ start + Len(toks) <= MaxPos
    /\ k.seq_len = start /\ k.bidirectional = FALSE

\* A chunk is a pass over its part of the text.
LEMMA ChunkPassOk ==
    ASSUME NEW m, NEW k, NEW toks, NEW size, NEW start, ChunksFit(m, k, toks, size, start),
           NEW t, TextIs(t, toks, start), NEW p, p = Chunk(toks, size, start)
    PROVE  PassOk(m, k, p, t) /\ p.next = 1 /\ In(p) = Embeds(p.items)
<1> DEFINE n == EndOf(toks, size)
           first == SubSeq(toks, 1, n)
           items == TextItems(first, start)
<1>0. /\ m \in Networks /\ ~m.mrope /\ IsSeq(toks) /\ Len(toks) # 0
      /\ \A i \in 1 .. Len(toks) : toks[i] \in Tokens
      /\ size \in Nat \ {0} /\ start \in Nat /\ start + Len(toks) <= MaxPos
      /\ k.seq_len = start /\ k.bidirectional = FALSE
  BY DEF ChunksFit
<1>1. /\ IsStarted(p, items, start) /\ p.main = FALSE /\ p.form = "prefill" /\ p.features = 0
      /\ p.keeps = TRUE /\ p.rest = SubSeq(toks, n + 1, Len(toks)) /\ p.size = size
      /\ n \in 1 .. Len(toks) /\ IsSeq(items) /\ Len(items) = n
  <2>1. n = EndOf(toks, size) /\ items = TextItems(SubSeq(toks, 1, n), start)
    OBVIOUS
  <2> HIDE DEF n, items
  <2>2. ChunkIs(p, items, toks, size, start, n)
    BY <1>0, <2>1, ChunkStarts
  <2>. QED
    BY <1>0, <2>2 DEF ChunkIs
<1> HIDE DEF n
<1>2. Len(toks) \in Nat /\ n \in Nat /\ n \in 0 .. Len(toks)
  <2>1. Len(toks) \in Nat
    BY <1>0, SeqFacts
  <2>. QED
    BY <1>0, <1>1, <2>1
<1>3. IsSeq(first) /\ Len(first) = n /\ \A i \in 1 .. n : first[i] = toks[i]
  BY <1>0, <1>2, FirstFacts
<1>4. /\ IsSeq(p.rest) /\ Len(p.rest) = Len(toks) - n
      /\ \A i \in 1 .. Len(toks) - n : p.rest[i] = toks[n + i]
  BY <1>0, <1>1, <1>2, LaterFacts
<1> HIDE DEF first
<1>5. \A i \in 1 .. n : items[i] = [what |-> <<toks[i]>>, pos |-> TextPosition(start + i - 1)]
  BY <1>0, <1>3, ItemsFacts
<1> HIDE DEF items
<1>6. /\ p.items = items /\ p.start = start /\ p.next = 1 /\ In(p) = Embeds(items) /\ IsPass(p)
  BY <1>0, <1>1, StartedFields DEF IsPass
<1>7. Parts(k, p, t)
  <2>0. Len(p.items) = n /\ p.start = start /\ Len(t) = start + Len(toks)
    BY <1>0, <1>1, <1>6 DEF TextIs
  <2>1. Len(p.items) > 0 /\ p.start + Len(p.items) + Len(p.rest) = Len(t)
    <3>1. n > 0 /\ start + n + (Len(toks) - n) = start + Len(toks)
      BY <1>0, <1>1, <1>2
    <3>. QED
      BY <1>0, <1>4, <2>0, <3>1
  <2>2. \A i \in 1 .. Len(p.items) : p.items[i] = t[p.start + i]
    <3> SUFFICES ASSUME NEW i \in 1 .. n PROVE items[i] = t[start + i]
      BY <1>0, <1>6, <2>0
    <3>1. i \in 1 .. Len(toks)
      BY <1>0, <1>2
    <3>. QED
      BY <1>0, <1>5, <3>1 DEF TextIs
  <2>3. ASSUME NEW i \in 1 .. Len(p.rest)
        PROVE  t[p.start + Len(p.items) + i]
                   = [what |-> <<p.rest[i]>>, pos |-> TextPosition(p.start + Len(p.items) + i - 1)]
    <3> DEFINE j == n + i
    <3>1. i \in Nat /\ j \in 1 .. Len(toks) /\ p.rest[i] = toks[j]
      <4>1. Len(p.rest) = Len(toks) - n /\ n \in Nat /\ Len(toks) \in Nat
        BY <1>0, <1>2, <1>4
      <4>2. i \in 1 .. Len(toks) - n
        BY <4>1
      <4>3. i \in Nat /\ j \in 1 .. Len(toks)
        BY ONLY <4>1, <4>2
      <4>. QED
        BY <1>0, <1>4, <4>2, <4>3
    <3>2. p.start + Len(p.items) + i = start + j /\ p.start + Len(p.items) + i - 1 = start + j - 1
      <4>1. i \in Nat
        BY <1>0, <3>1
      <4>2. start + n + i = start + (n + i) /\ start + n + i - 1 = start + (n + i) - 1
        BY <1>0, <1>2, <4>1
      <4>. QED
        BY <1>0, <2>0, <4>2
    <3> HIDE DEF j
    <3>3. t[start + j] = [what |-> <<toks[j]>>, pos |-> TextPosition(start + j - 1)]
      BY <1>0, <3>1 DEF TextIs
    <3>. QED
      BY <1>0, <3>1, <3>2, <3>3
  <2>. QED
    BY <1>0, <1>1, <1>4, <1>6, <2>1, <2>2, <2>3 DEF Parts
<1>8. p.next \in 1 .. Len(m.blocks) + 1
  BY <1>0, <1>6, NetFacts
<1>9. \A i \in 1 .. Len(p.items) : ~IsImage(p.items[i].what)
  <2> SUFFICES ASSUME NEW i \in 1 .. n PROVE ~IsImage(items[i].what)
    BY <1>0, <1>1, <1>6
  <2>1. toks[i] \in Tokens /\ 0 \notin Tokens
    BY <1>0, <1>1, <1>2, PassAssumption
  <2> DEFINE e == <<toks[i]>>
             at == TextPosition(start + i - 1)
  <2>2. items[i].what = e
    <3>1. items[i] = [what |-> e, pos |-> at]
      BY <1>0, <1>5
    <3> HIDE DEF e, at
    <3>. QED
      BY <1>0, <3>1
  <2>3. <<toks[i]>>[1] = toks[i]
    OBVIOUS
  <2>. QED
    BY <1>0, <2>1, <2>2, <2>3 DEF IsImage
<1>10. p.rest # <<>> => ~m.mrope /\ p.keeps /\ p.size \in Nat \ {0} /\ Len(t) <= MaxPos
  <2>1. Len(t) <= MaxPos /\ p.size \in Nat \ {0}
    BY <1>0, <1>1 DEF TextIs
  <2>. QED
    BY <1>0, <1>1, <2>1
<1>11. p.keeps \in BOOLEAN /\ p.main \in BOOLEAN /\ p.features \in Nat /\ p.form # "decode"
  <2>1. p.keeps = TRUE /\ p.main = FALSE /\ p.features = 0 /\ p.form = "prefill"
    BY <1>0, <1>1
  <2>2. p.keeps \in BOOLEAN /\ p.main \in BOOLEAN
    BY <1>0, <2>1
  <2>3. p.features \in Nat
    BY <1>0, <2>1
  <2>4. p.form # "decode"
    BY <1>0, <2>1
  <2>. QED
    BY <1>0, <2>2, <2>3, <2>4
<1>12. RestOk(p)
  <2> SUFFICES ASSUME NEW i \in 1 .. Len(p.rest) PROVE p.rest[i] \in Tokens
    BY DEF RestOk
  <2>1. n + i \in 1 .. Len(toks) /\ p.rest[i] = toks[n + i]
    BY <1>2, <1>4
  <2>. QED
    BY <1>0, <2>1
<1>. QED
  BY <1>0, <1>1, <1>6, <1>7, <1>8, <1>9, <1>10, <1>11, <1>12 DEF PassOk, IsPass

\* Tokens that follow the text belong where the cache counts them.
LEMMA FollowFacts ==
    ASSUME Now, Idle, New \/ Used, NEW toks, NEW q, q = IF model.mrope THEN kv.text_pos ELSE kv.seq_len
    PROVE  q = After /\ Follow(toks) = TextItems(toks, q)
<1>1. Len(text) = kv.seq_len /\ (model.mrope => kv.text_pos = Count(text))
  BY IdleFacts
<1>2. q = After
  BY <1>1 DEF After
<1>3. Follow(toks) = TextItems(toks, After)
  BY FollowIs
<1>. QED
  BY <1>2, <1>3

\* A pass of no other kind, at its start.
LEMMA PassStarts ==
    ASSUME NEW items, IsSeq(items), NEW start, NEW p, p = Pass(items, start), p.next # 0
    PROVE  PlainStart(p, items, start, "prefill")
BY PassGiven DEF Plain, PlainStart

\* Where the backend has new tokens rotated to.
At == IF model.mrope THEN kv.text_pos ELSE kv.seq_len

\* Tokens that follow the text, with MRoPE.
LEMMA MropeKeeps ==
    ASSUME Now, Idle, New \/ Used, model.mrope, NEW toks, IsSeq(toks), Len(toks) # 0,
           \A i \in 1 .. Len(toks) : toks[i] \in Tokens,
           NEW p, Begin(p, Follow(toks)), UNCHANGED kv,
           NEW form, form = "decode" => Len(toks) = 1 /\ Used,
           MropeStart(p, TextItems(toks, At), kv.seq_len, form, 0, At + Len(toks))
    PROVE  Now'
<1> DEFINE q == At
           s == TextItems(toks, q)
<1>1. q = IF model.mrope THEN kv.text_pos ELSE kv.seq_len
  BY DEF At
<1>2. s = TextItems(toks, q) /\ MropeStart(p, s, kv.seq_len, form, 0, q + Len(toks))
  OBVIOUS
<1> HIDE DEF q, s
<1>3. q = After /\ Follow(toks) = TextItems(toks, q)
  BY <1>1, FollowFacts
<1>4. /\ IsStarted(p, s, kv.seq_len) /\ p.rest = <<>> /\ p.main = TRUE /\ p.form = form
      /\ p.features = 0 /\ p.keeps = TRUE /\ p.text_pos = q + Len(toks)
  BY <1>2 DEF MropeStart
<1>5. p.main \in BOOLEAN /\ p.features \in Nat
  <2>1. p.main = TRUE /\ p.features = 0
    BY <1>4
  <2>2. p.main \in BOOLEAN
    BY <2>1
  <2>3. p.features \in Nat
    BY <2>1
  <2>. QED
    BY <2>2, <2>3
<1>6. Inv(model, kv, p, text \o s, abs)
  BY <1>2, <1>3, <1>4, <1>5, StartText
<1>7. Begin(p, s)
  BY <1>2, <1>3
<1>. QED
  BY <1>6, <1>7, BeginKeeps

\* Tokens that follow the text, without.
LEMMA PlainKeeps ==
    ASSUME Now, Idle, New \/ Used, ~model.mrope, NEW toks, IsSeq(toks), Len(toks) # 0,
           \A i \in 1 .. Len(toks) : toks[i] \in Tokens,
           NEW p, Begin(p, Follow(toks)), UNCHANGED kv,
           NEW form, form = "decode" => Len(toks) = 1 /\ Used,
           PlainStart(p, TextItems(toks, kv.seq_len), kv.seq_len, form)
    PROVE  Now'
<1> DEFINE q == kv.seq_len
           s == TextItems(toks, q)
<1>1. q = IF model.mrope THEN kv.text_pos ELSE kv.seq_len
  OBVIOUS
<1>2. s = TextItems(toks, q) /\ PlainStart(p, s, kv.seq_len, form)
  OBVIOUS
<1> HIDE DEF q, s
<1>3. q = After /\ Follow(toks) = TextItems(toks, q)
  BY <1>1, FollowFacts
<1>4. /\ IsStarted(p, s, kv.seq_len) /\ p.rest = <<>> /\ p.main = FALSE /\ p.form = form
      /\ p.features = 0 /\ p.keeps = TRUE
  BY <1>2 DEF PlainStart
<1>5. p.main \in BOOLEAN /\ p.features \in Nat /\ (p.main => model.mrope)
  <2>1. p.main = FALSE /\ p.features = 0
    BY <1>4
  <2>2. p.main \in BOOLEAN
    BY <2>1
  <2>3. p.features \in Nat
    BY <2>1
  <2>4. p.main => model.mrope
    BY <2>1
  <2>. QED
    BY <2>2, <2>3, <2>4
<1>6. Inv(model, kv, p, text \o s, abs)
  BY <1>2, <1>3, <1>4, <1>5, StartText
<1>7. Begin(p, s)
  BY <1>2, <1>3
<1>. QED
  BY <1>6, <1>7, BeginKeeps

\* A prefill, whole or by chunks.
LEMMA PrefillKeeps ==
    ASSUME Now, NEW toks \in Texts, NEW size \in 0 .. MaxChunk, Prefill(toks, size)
    PROVE  Now'
<1> DEFINE p == IF model.mrope
                THEN [PrefillWithEmbedsMrope(TextItems(toks, 0), 0, 0) EXCEPT !.text_pos = Len(toks)]
                ELSE PrefillWithTokenChunked(toks, size)
<1>1. New /\ Idle /\ Begin(p, Follow(toks)) /\ UNCHANGED kv
  BY DEF Prefill, New
<1>2. p.next # 0
  BY <1>1 DEF Begin
<1>3. IsSeq(toks) /\ Len(toks) \in Nat \ {0} /\ \A i \in 1 .. Len(toks) : toks[i] \in Tokens
  BY TextsFacts
<1>4. /\ text = <<>> /\ Len(text) = 0 /\ kv.seq_len = 0 /\ kv.text_pos = 0 /\ IsSeq(text)
      /\ model \in Networks /\ KvOk(model, kv) /\ kv.bidirectional = FALSE
      /\ Inv(model, kv, NoPass, text, abs)
  BY <1>1, IdleFacts
<1>5. At = 0 /\ At + Len(toks) = Len(toks)
  BY <1>3, <1>4 DEF At
<1>6. IsSeq(TextItems(toks, 0))
  BY <1>3, ItemsFacts
<1>7. CASE model.mrope
  <2> DEFINE s == TextItems(toks, 0)
             n == Len(toks)
             z == 0
             pf == "prefill"
  <2>1. p = MropePass(s, z, z, n)
    BY <1>7 DEF MropePass
  <2>2. At = z /\ kv.seq_len = z /\ At + Len(toks) = n /\ s = TextItems(toks, z) /\ IsSeq(s)
    BY <1>4, <1>5, <1>6
  <2> HIDE DEF p, s, n, z
  <2>3. MropeStart(p, s, z, pf, z, n)
    BY <1>2, <2>1, <2>2, MropeStarts
  <2>4. MropeStart(p, TextItems(toks, At), kv.seq_len, pf, 0, At + Len(toks))
    BY <2>2, <2>3 DEF z
  <2>5. pf # "decode"
    OBVIOUS
  <2> HIDE DEF pf
  <2>. QED
    BY <1>1, <1>3, <1>7, <2>4, <2>5, MropeKeeps
<1>8. CASE ~model.mrope
  <2>1. p = PrefillWithTokenChunked(toks, size)
    BY <1>8
  <2> HIDE DEF p
  <2>2. ~(kv.seq_len + Len(toks) > MaxPos)
    BY <1>2, <2>1 DEF PrefillWithTokenChunked, NoPass
  <2>3. CASE size = 0 \/ size >= Len(toks)
    <3> DEFINE s == TextItems(toks, 0)
               z == 0
               pf == "prefill"
    <3>1. p = Pass(s, z) /\ IsSeq(s) /\ kv.seq_len = z /\ s = TextItems(toks, z)
      BY <1>4, <1>6, <2>1, <2>2, <2>3 DEF PrefillWithTokenChunked, PrefillWithToken
    <3> HIDE DEF s, z
    <3>2. PlainStart(p, s, z, pf)
      BY <1>2, <3>1, PassStarts
    <3>3. PlainStart(p, TextItems(toks, kv.seq_len), kv.seq_len, pf)
      BY <3>1, <3>2
    <3>4. pf # "decode"
      OBVIOUS
    <3> HIDE DEF pf
    <3>. QED
      BY <1>1, <1>3, <1>8, <3>3, <3>4, PlainKeeps
  <2>4. CASE ~(size = 0 \/ size >= Len(toks))
    <3> DEFINE s == TextItems(toks, 0)
               t == text \o s
               z == 0
    <3>1. p = Chunk(toks, size, z) /\ size \in Nat \ {0} /\ z \in Nat /\ z + Len(toks) <= MaxPos
          /\ kv.seq_len = z /\ Len(toks) # 0
      BY <1>3, <1>4, <2>1, <2>2, <2>4, PassAssumption DEF PrefillWithTokenChunked
    <3>2. z = IF model.mrope THEN kv.text_pos ELSE kv.seq_len
      BY <1>4
    <3>3. z = After /\ Follow(toks) = TextItems(toks, z)
      <4> HIDE DEF z
      <4>. QED
        BY <1>1, <3>2, FollowFacts
    <3>4. /\ IsSeq(s) /\ Len(s) = Len(toks) /\ NoImages(s)
          /\ TextOk(t) /\ (NoImages(t) => NoImages(text))
          /\ Joined(text, s, t)
      <4>1. s = TextItems(toks, z)
        OBVIOUS
      <4> HIDE DEF z, s, t
      <4>2. /\ IsSeq(s) /\ Len(s) = Len(toks) /\ NoImages(s)
            /\ TextOk(text \o s) /\ (NoImages(text \o s) => NoImages(text))
            /\ Joined(text, s, text \o s)
        BY <1>1, <1>3, <3>3, <4>1, FollowText
      <4>. QED
        BY <4>2 DEF t
    <3>5. TextIs(t, toks, z)
      <4>1. /\ IsSeq(t) /\ Len(t) = Len(text) + Len(s)
            /\ \A i \in 1 .. Len(s) : t[Len(text) + i] = s[i]
        BY <3>4 DEF Joined
      <4>2. \A i \in 1 .. Len(toks) : s[i] = [what |-> <<toks[i]>>, pos |-> TextPosition(z + i - 1)]
        <5> HIDE DEF s
        <5>1. s = TextItems(toks, z)
          BY DEF s
        <5> HIDE DEF z
        <5>. QED
          BY <1>3, <5>1, ItemsFacts
      <4> HIDE DEF s, t
      <4>. QED
        BY <1>4, <3>4, <4>1, <4>2 DEF TextIs
    <3> HIDE DEF s, t, z
    <3>6. PassOk(model, kv, p, t) /\ p.next = 1 /\ In(p) = Embeds(p.items)
      <4>1. ChunksFit(model, kv, toks, size, z)
        BY <1>3, <1>4, <1>8, <3>1 DEF ChunksFit
      <4>. QED
        BY <3>1, <3>5, <4>1, ChunkPassOk
    <3>7. IsSeq(t) /\ Len(t) >= Len(text) /\ \A i \in 1 .. Len(text) : t[i] = text[i]
      BY <1>3, <1>4, <3>4 DEF Joined
    <3>8. Inv(model, kv, p, t, abs)
      BY <1>4, <3>4, <3>6, <3>7, BeginInv
    <3>9. Begin(p, s) /\ UNCHANGED kv
      BY <1>1, <3>3 DEF s, z
    <3>. QED
      BY <3>8, <3>9, BeginKeeps DEF t
  <2>. QED
    BY <2>3, <2>4
<1>. QED
  BY <1>7, <1>8

\* A prefill that goes on with a cache.
LEMMA ContinuePrefillKeeps ==
    ASSUME Now, NEW toks \in Texts, ContinuePrefill(toks)
    PROVE  Now'
<1> DEFINE p == IF model.mrope
                THEN [PrefillWithEmbedsMrope(TextItems(toks, kv.text_pos), 0, kv.seq_len)
                          EXCEPT !.text_pos = kv.text_pos + Len(toks)]
                ELSE PrefillWithToken(toks, kv.seq_len)
           start == kv.seq_len
           s == TextItems(toks, At)
           n == At + Len(toks)
           z == 0
           pf == "prefill"
<1>1. Used /\ Idle /\ Begin(p, Follow(toks)) /\ UNCHANGED kv
  BY DEF ContinuePrefill, Used
<1>2. p.next # 0
  BY <1>1 DEF Begin
<1>3. IsSeq(toks) /\ Len(toks) \in Nat \ {0} /\ \A i \in 1 .. Len(toks) : toks[i] \in Tokens
  BY TextsFacts
<1>4. IsSeq(s) /\ pf # "decode"
  BY <1>3, ItemsFacts
<1>5. CASE model.mrope
  <2>1. p = MropePass(s, z, start, n)
    BY <1>5 DEF MropePass, At
  <2> HIDE DEF p, s, n, z, start, pf
  <2>2. MropeStart(p, s, start, "prefill", z, n)
    BY <1>2, <1>4, <2>1, MropeStarts
  <2>3. MropeStart(p, TextItems(toks, At), kv.seq_len, pf, 0, At + Len(toks))
    BY <2>2 DEF s, n, z, start, pf
  <2>. QED
    BY <1>1, <1>3, <1>4, <1>5, <2>3, MropeKeeps
<1>6. CASE ~model.mrope
  <2>1. p = Pass(s, start) /\ s = TextItems(toks, start)
    BY <1>6 DEF PrefillWithToken, At
  <2> HIDE DEF p, s, start, pf
  <2>2. PlainStart(p, s, start, "prefill")
    BY <1>2, <1>4, <2>1, PassStarts
  <2>3. PlainStart(p, TextItems(toks, kv.seq_len), kv.seq_len, pf)
    BY <2>1, <2>2 DEF start, pf
  <2>. QED
    BY <1>1, <1>3, <1>4, <1>6, <2>3, PlainKeeps
<1>. QED
  BY <1>5, <1>6

\* The verification of a draft.
LEMMA VerifyDraftKeeps ==
    ASSUME Now, NEW toks \in Texts, VerifyDraft(toks)
    PROVE  Now'
<1> DEFINE p == IF model.mrope
                THEN [VerifyDraftTokensMrope(toks, kv.text_pos, kv.seq_len)
                          EXCEPT !.text_pos = kv.text_pos + Len(toks)]
                ELSE VerifyDraftTokens(toks, kv.seq_len)
           start == kv.seq_len
           s == TextItems(toks, At)
           n == At + Len(toks)
           pf == "prefill"
<1>1. Used /\ Idle /\ Begin(p, Follow(toks)) /\ UNCHANGED kv
  BY DEF VerifyDraft, Used
<1>2. p.next # 0
  BY <1>1 DEF Begin
<1>3. IsSeq(toks) /\ Len(toks) \in Nat \ {0} /\ \A i \in 1 .. Len(toks) : toks[i] \in Tokens
  BY TextsFacts
<1>4. IsSeq(s) /\ pf # "decode"
  BY <1>3, ItemsFacts
<1>5. CASE model.mrope
  <2>1. p = AllMropePass(s, start, n)
    BY <1>5 DEF VerifyDraftTokensMrope, AllMropePass, At
  <2> HIDE DEF p, s, n, start, pf
  <2>2. MropeStart(p, s, start, "prefill", 0, n)
    BY <1>2, <1>4, <2>1, AllMropeStarts
  <2>3. MropeStart(p, TextItems(toks, At), kv.seq_len, pf, 0, At + Len(toks))
    BY <2>2 DEF s, n, start, pf
  <2>. QED
    BY <1>1, <1>3, <1>4, <1>5, <2>3, MropeKeeps
<1>6. CASE ~model.mrope
  <2>1. p = AllPass(s, start) /\ s = TextItems(toks, start)
    BY <1>6 DEF VerifyDraftTokens, PrefillWithToken, AllPass, At
  <2> HIDE DEF p, s, start, pf
  <2>2. PlainStart(p, s, start, "prefill")
    BY <1>2, <1>4, <2>1, AllStarts
  <2>3. PlainStart(p, TextItems(toks, kv.seq_len), kv.seq_len, pf)
    BY <2>1, <2>2 DEF start, pf
  <2>. QED
    BY <1>1, <1>3, <1>4, <1>6, <2>3, PlainKeeps
<1>. QED
  BY <1>5, <1>6

\* A decode step.
LEMMA DecodeNextKeeps ==
    ASSUME Now, NEW tok \in Tokens, DecodeNext(tok)
    PROVE  Now'
<1> DEFINE p == IF model.mrope THEN DecodeStepMrope(tok) ELSE DecodeStep(tok)
           toks == <<tok>>
           start == kv.seq_len
           s == TextItems(toks, At)
           n == At + 1
           pf == "decode"
<1>1. Used /\ Idle /\ Begin(p, Follow(toks)) /\ UNCHANGED kv
  BY DEF DecodeNext, Used
<1>2. p.next # 0
  BY <1>1 DEF Begin
<1>3. IsSeq(toks) /\ Len(toks) = 1 /\ \A i \in 1 .. Len(toks) : toks[i] \in Tokens
  <2>1. IsSeq(toks) /\ Len(toks) = 1 /\ toks[1] = tok
    BY SmallSeqs
  <2> HIDE DEF toks
  <2>. QED
    BY <2>1
<1>4. IsSeq(s) /\ n = At + Len(toks) /\ Len(toks) # 0
  <2> HIDE DEF toks
  <2>. QED
    BY <1>3, ItemsFacts
<1>5. CASE model.mrope
  <2>1. p = FormMropePass(s, start, pf, n)
    BY <1>5 DEF DecodeStepMrope, FormMropePass, At
  <2> HIDE DEF p, s, n, start, pf, toks
  <2>2. MropeStart(p, s, start, pf, 0, n)
    BY <1>2, <1>4, <2>1, FormMropeStarts
  <2>3. MropeStart(p, TextItems(toks, At), kv.seq_len, pf, 0, At + Len(toks))
    BY <1>4, <2>2 DEF s, start
  <2>. QED
    BY <1>1, <1>3, <1>4, <1>5, <2>3, MropeKeeps
<1>6. CASE ~model.mrope
  <2> DEFINE r == Pass(s, start)
  <2>1. p = FormPass(r, pf) /\ s = TextItems(toks, start)
    BY <1>6 DEF DecodeStep, FormPass, At
  <2>2. r = Pass(s, start) \/ r = Run(s, start)
    OBVIOUS
  <2> HIDE DEF p, r, s, start, pf, toks
  <2>3. PlainStart(p, s, start, pf)
    BY <1>2, <1>4, <2>1, <2>2, FormStarts
  <2>4. PlainStart(p, TextItems(toks, kv.seq_len), kv.seq_len, pf)
    BY <2>1, <2>3 DEF start
  <2>. QED
    BY <1>1, <1>3, <1>4, <1>6, <2>4, PlainKeeps
<1>. QED
  BY <1>5, <1>6

\* A pass that no operation of the backend runs.
LEMMA OtherPrefillKeeps ==
    ASSUME Now, NEW toks \in Texts, OtherPrefill(toks)
    PROVE  Now'
<1> DEFINE start == kv.seq_len
           s == TextItems(toks, At)
           n == At + Len(toks)
           hooks == "hooks"
           phases == "phases"
<1>1. (New \/ Used) /\ Idle /\ UNCHANGED kv
  BY DEF OtherPrefill, New, Used
<1>2. IsSeq(toks) /\ Len(toks) \in Nat \ {0} /\ \A i \in 1 .. Len(toks) : toks[i] \in Tokens
  BY TextsFacts
<1>3. IsSeq(s) /\ hooks # "decode" /\ phases # "decode"
  BY <1>2, ItemsFacts
<1>4. CASE model.mrope
  <2> DEFINE p == [PrefillWithEmbedsMropeLayerHooks(TextItems(toks, kv.text_pos), kv.seq_len)
                       EXCEPT !.text_pos = kv.text_pos + Len(toks)]
  <2>1. Begin(p, Follow(toks))
    BY <1>4 DEF OtherPrefill
  <2>2. p.next # 0
    BY <2>1 DEF Begin
  <2>3. p = FormMropePass(s, start, hooks, n)
    BY <1>4 DEF PrefillWithEmbedsMropeLayerHooks, FormMropePass, At
  <2> HIDE DEF p, s, n, start, hooks
  <2>4. MropeStart(p, s, start, hooks, 0, n)
    BY <1>3, <2>2, <2>3, FormMropeStarts
  <2>5. MropeStart(p, TextItems(toks, At), kv.seq_len, hooks, 0, At + Len(toks))
    BY <2>4 DEF s, n, start
  <2>. QED
    BY <1>1, <1>2, <1>3, <1>4, <2>1, <2>5, MropeKeeps
<1>5. CASE ~model.mrope
  <2> DEFINE p1 == PrefillWithTokenLayerHooks(toks, kv.seq_len)
             p2 == PrefillWithTokenDecomposed(toks, kv.seq_len)
  <2>1. Begin(p1, Follow(toks)) \/ Begin(p2, Follow(toks))
    BY <1>5 DEF OtherPrefill
  <2>2. s = TextItems(toks, start)
    BY <1>5 DEF At
  <2>3. CASE Begin(p1, Follow(toks))
    <3> DEFINE r == Pass(s, start)
    <3>1. p1 = FormPass(r, hooks) /\ p1.next # 0
      BY <2>2, <2>3 DEF PrefillWithTokenLayerHooks, FormPass, Begin
    <3>2. r = Pass(s, start) \/ r = Run(s, start)
      OBVIOUS
    <3> HIDE DEF p1, p2, r, s, start, hooks
    <3>3. PlainStart(p1, s, start, hooks)
      BY <1>3, <3>1, <3>2, FormStarts
    <3>4. PlainStart(p1, TextItems(toks, kv.seq_len), kv.seq_len, hooks)
      BY <2>2, <3>3 DEF start
    <3>. QED
      BY <1>1, <1>2, <1>3, <1>5, <2>3, <3>4, PlainKeeps
  <2>4. CASE Begin(p2, Follow(toks))
    <3> DEFINE r == Run(s, start)
    <3>0. toks # <<>>
      BY <1>2, SmallSeqs
    <3>1. p2 = FormPass(r, phases) /\ p2.next # 0
      BY <2>2, <2>4, <3>0 DEF PrefillWithTokenDecomposed, FormPass, Begin
    <3>2. r = Pass(s, start) \/ r = Run(s, start)
      OBVIOUS
    <3> HIDE DEF p1, p2, r, s, start, phases
    <3>3. PlainStart(p2, s, start, phases)
      BY <1>3, <3>1, <3>2, FormStarts
    <3>4. PlainStart(p2, TextItems(toks, kv.seq_len), kv.seq_len, phases)
      BY <2>2, <3>3 DEF start
    <3>. QED
      BY <1>1, <1>2, <1>3, <1>5, <2>4, <3>4, PlainKeeps
  <2>. QED
    BY <2>1, <2>3, <2>4
<1>. QED
  BY <1>4, <1>5

\* The pass of an embedding, over a cache of its own.
LEMMA EmbedInv ==
    ASSUME Now, New, NEW toks \in Texts, NEW k2, SameCache(k2),
           NEW p, EmbedStart(p, TextItems(toks, 0), 0)
    PROVE  Inv(model, k2, p, text \o TextItems(toks, 0), abs)
<1> DEFINE s == TextItems(toks, 0)
           u == text \o s
<1>0. Idle /\ (New \/ Used)
  BY DEF New
<1>1. IsSeq(toks) /\ Len(toks) \in Nat \ {0} /\ \A i \in 1 .. Len(toks) : toks[i] \in Tokens
  BY TextsFacts
<1>2. text = <<>> /\ Len(text) = 0 /\ kv.seq_len = 0 /\ kv.text_pos = 0 /\ IsSeq(text)
  BY <1>0, IdleFacts
<1>3. /\ IsSeq(s) /\ Len(s) = Len(toks) /\ NoImages(s)
      /\ TextOk(u) /\ (NoImages(u) => NoImages(text)) /\ NoImages(u)
  <2> DEFINE q == 0
  <2>1. q = IF model.mrope THEN kv.text_pos ELSE kv.seq_len
    BY <1>2
  <2>2. s = TextItems(toks, q) /\ u = text \o s
    OBVIOUS
  <2> HIDE DEF q, s
  <2>3. q = After
    BY <1>0, <2>1, FollowFacts
  <2>4. /\ IsSeq(s) /\ Len(s) = Len(toks) /\ NoImages(s)
        /\ TextOk(text \o s) /\ (NoImages(text \o s) => NoImages(text))
    BY <1>0, <1>1, <2>2, <2>3, FollowText
  <2>5. NoImages(text)
    BY <1>2 DEF NoImages
  <2>6. IsSeq(text)
    BY <1>2
  <2>7. NoImages(text \o s)
    BY <2>4, <2>5, <2>6, NoImagesJoin
  <2> HIDE DEF u
  <2>. QED
    BY <2>2, <2>4, <2>7
<1>4. /\ IsStarted(p, s, kv.seq_len) /\ p.rest = <<>> /\ p.main = TRUE /\ p.form = "prefill"
      /\ p.features = 0 /\ p.keeps = FALSE
  BY <1>2 DEF EmbedStart
<1>5. k2.seq_len = 0
  BY <1>2 DEF SameCache
<1> HIDE DEF s
<1>6. u = text \o s
  OBVIOUS
<1> HIDE DEF u
<1>7. StartOk(model, k2, p, s, u)
  <2>1. \A i \in 1 .. Len(s) : ~IsImage(s[i].what)
    BY <1>3 DEF NoImages
  <2>2. p.keeps \in BOOLEAN /\ ~p.keeps
    BY <1>4
  <2>3. p.main \in BOOLEAN /\ p.main
    BY <1>4
  <2>4. p.features \in Nat /\ p.form = "prefill" /\ p.form # "decode"
    BY <1>4
  <2>. QED
    BY <1>3, <1>4, <1>5, <2>1, <2>2, <2>3, <2>4 DEF StartOk
<1>8. Len(s) # 0
  BY <1>1, <1>3
<1>9. Inv(model, k2, p, u, abs)
  BY <1>0, <1>3, <1>4, <1>6, <1>7, <1>8, StartInv
<1>. QED
  BY <1>9 DEF u, s

\* An embedding.
LEMMA EmbeddingKeeps ==
    ASSUME Now, NEW toks \in Texts, Embedding(toks)
    PROVE  Now'
<1> DEFINE s == TextItems(toks, 0)
           p == PrefillForEmbedding(toks)
           z == 0
<1>1. New /\ Idle /\ Begin(p, s) /\ UNCHANGED kv
  BY DEF Embedding, New
<1>2. p.next # 0 /\ p = EmbeddingPass(s, z)
  BY <1>1 DEF Begin, PrefillForEmbedding, EmbeddingPass
<1>3. IsSeq(s)
  BY TextsFacts, ItemsFacts
<1>4. SameCache(kv)
  BY <1>1, IdleFacts DEF SameCache
<1> HIDE DEF p, s, z
<1>5. EmbedStart(p, s, z)
  BY <1>2, <1>3, EmbeddingStarts
<1>6. EmbedStart(p, TextItems(toks, 0), 0)
  BY <1>5 DEF s, z
<1>7. Inv(model, kv, p, text \o s, abs)
  BY <1>1, <1>4, <1>6, EmbedInv DEF s
<1>. QED
  BY <1>1, <1>7, BeginKeeps

\* An embedding of all rows, of which each may see all.
LEMMA EmbedAllKeeps ==
    ASSUME Now, NEW toks \in Texts, NEW bidirectional \in BOOLEAN, EmbedAll(toks, bidirectional)
    PROVE  Now'
<1> DEFINE s == TextItems(toks, 0)
           u == text \o s
           p == PrefillAllEmbeddings(toks)
           z == 0
           k2 == [kv EXCEPT !.bidirectional = bidirectional]
<1>1. New /\ Idle /\ Begin(p, s) /\ kv' = k2
  BY DEF EmbedAll, New
<1>2. p.next # 0 /\ p = EmbedAllPass(s, z)
  BY <1>1 DEF Begin, PrefillAllEmbeddings, EmbedAllPass
<1>3. IsSeq(s)
  BY TextsFacts, ItemsFacts
<1>4. SameCache(k2)
  <2>1. KvOk(model, kv) /\ kv.seq_len = 0
    BY <1>1, IdleFacts
  <2>2. kv = [data |-> kv.data, state |-> kv.state, seq_len |-> kv.seq_len,
              text_pos |-> kv.text_pos, bidirectional |-> kv.bidirectional]
    BY <2>1 DEF KvOk
  <2>3. k2 = [data |-> kv.data, state |-> kv.state, seq_len |-> kv.seq_len,
              text_pos |-> kv.text_pos, bidirectional |-> bidirectional]
    BY <2>2
  <2> HIDE DEF k2
  <2>4. k2.data = kv.data /\ k2.state = kv.state /\ k2.seq_len = kv.seq_len
        /\ k2.text_pos = kv.text_pos /\ k2.bidirectional = bidirectional
    BY <2>3
  <2>5. k2 = [data |-> k2.data, state |-> k2.state, seq_len |-> k2.seq_len,
              text_pos |-> k2.text_pos, bidirectional |-> k2.bidirectional]
    BY <2>3, <2>4
  <2>6. KvOk(model, k2)
    BY <2>1, <2>4, <2>5 DEF KvOk
  <2>. QED
    BY <2>1, <2>4, <2>6 DEF SameCache
<1> HIDE DEF p, s, z, k2
<1>5. EmbedStart(p, s, z)
  BY <1>2, <1>3, EmbedAllStarts
<1>6. EmbedStart(p, TextItems(toks, 0), 0)
  BY <1>5 DEF s, z
<1>7. Inv(model, k2, p, u, abs)
  BY <1>1, <1>4, <1>6, EmbedInv DEF s
<1>8. pass' = p /\ text' = u /\ model' = model /\ abs' = abs /\ kv' = k2
  BY <1>1 DEF Begin
<1> HIDE DEF u
<1>. QED
  BY <1>7, <1>8 DEF Now

\* Items after no text.
LEMMA FirstText ==
    ASSUME TextOk(text), text = <<>>, NEW s, TextOk(s)
    PROVE  TextOk(text \o s) /\ NoImages(text) /\ Count(text \o s) = Count(s)
<1>1. Len(text) = 0 /\ IsSeq(text) /\ IsSeq(s)
  BY SmallSeqs DEF TextOk
<1>2. NoImages(text)
  BY <1>1 DEF NoImages
<1>3. Count(text) = 0 /\ Count(s) \in Nat
  BY <1>1, <1>2, CountAll, CountFacts
<1>4. NoImages(s) => \A i \in 1 .. Len(s) : s[i].pos = TextPosition(Len(text) + i - 1)
  <2> SUFFICES ASSUME NoImages(s), NEW i \in 1 .. Len(s)
               PROVE  s[i].pos = TextPosition(Len(text) + i - 1)
    OBVIOUS
  <2>1. s[i].pos = TextPosition(i - 1)
    BY DEF TextOk
  <2>2. Len(text) + i - 1 = i - 1
    BY <1>1
  <2>. QED
    BY <2>1, <2>2
<1>5. TextOk(text \o s)
  BY <1>1, <1>4, TextJoin DEF TextOk
<1>6. Count(text \o s) = Count(text) + Count(s)
  BY <1>1, CountJoin
<1>. QED
  BY <1>2, <1>3, <1>5, <1>6

\* The items with one place to each.
Flat(items) == [i \in 1 .. Len(items) |-> [what |-> items[i].what, pos |-> TextPosition(0 + i - 1)]]

\* They are a text.
LEMMA FlatFacts ==
    ASSUME NEW items, TextOk(items)
    PROVE  TextOk(Flat(items)) /\ Len(Flat(items)) = Len(items)
<1> DEFINE s == Flat(items)
           n == Len(items)
<1>1. IsSeq(items) /\ n \in Nat /\ \A i \in 1 .. n : ItemOk(items[i])
  BY SeqFacts DEF TextOk
<1>2. \A i \in 1 .. n : s[i] = [what |-> items[i].what, pos |-> TextPosition(0 + i - 1)]
  BY DEF Flat
<1>3. s = [i \in 1 .. n |-> s[i]]
  BY DEF Flat
<1> HIDE DEF s, n
<1>4. IsSeq(s) /\ Len(s) = n
  BY <1>1, <1>3, FunSeq
<1>5. ASSUME NEW i \in 1 .. n PROVE ItemOk(s[i]) /\ s[i].pos = TextPosition(i - 1)
  <2> DEFINE w == items[i].what
             at == TextPosition(0 + i - 1)
  <2>1. s[i] = [what |-> w, pos |-> at]
    BY <1>2
  <2>2. ~IsImage(w) => w = <<w[1]>>
    BY <1>1 DEF ItemOk, n
  <2>3. IsSeq(at) /\ at = TextPosition(i - 1)
    BY Triples DEF TextPosition
  <2> HIDE DEF w, at
  <2>4. s[i].what = w /\ s[i].pos = at
    BY <2>1
  <2>. QED
    BY <2>2, <2>3, <2>4 DEF ItemOk
<1>. QED
  BY <1>4, <1>5 DEF TextOk, s, n

\* A prompt with images.
LEMMA PrefillVlKeeps ==
    ASSUME Now, NEW prompt \in Prompts, PrefillVl(prompt)
    PROVE  Now'
<1> DEFINE expanded == Expand(prompt)
           items == expanded.items
           n == expanded.text_pos
           whats == [i \in DOMAIN items |-> items[i].what]
           q == IF model.mrope THEN PrefillWithEmbedsMrope(items, model.deepstack, 0)
                               ELSE PrefillWithEmbeds(whats, 0)
           p == [q EXCEPT !.text_pos = n]
           z == 0
           start == kv.seq_len
<1>1. New /\ Idle /\ Begin(p, IF model.mrope THEN items ELSE q.items) /\ UNCHANGED kv
  BY DEF PrefillVl, New
<1>2. p.next # 0
  BY <1>1 DEF Begin
<1>3. TextOk(items) /\ n = Count(items)
  BY ExpandFacts DEF ExpandedOk
<1> HIDE DEF expanded
<1>4. IsSeq(items) /\ DOMAIN items = 1 .. Len(items) /\ Len(items) \in Nat
  BY <1>3, SeqFacts DEF TextOk
<1>5. text = <<>> /\ kv.seq_len = 0 /\ TextOk(text) /\ SameCache(kv) /\ model \in Networks
      /\ kv.bidirectional = FALSE
  BY <1>1, IdleFacts DEF SameCache
<1>6. New \/ Used
  BY <1>1
<1>7. CASE model.mrope
  <2> DEFINE u == text \o items
             d == model.deepstack
             r == Pass(items, z)
  <2>1. p = MropePass(items, d, z, n)
    BY <1>7 DEF MropePass
  <2>2. Begin(p, items)
    BY <1>1, <1>7
  <2>3. Len(items) # 0
    <3>1. r = NoPass => [[[r EXCEPT !.main = TRUE] EXCEPT !.features = d] EXCEPT !.text_pos = n].next = 0
      BY DEF NoPass
    <3>2. p = [[[r EXCEPT !.main = TRUE] EXCEPT !.features = d] EXCEPT !.text_pos = n]
      BY <2>1 DEF MropePass, PrefillWithEmbedsMrope
    <3>3. r # NoPass
      BY <1>2, <3>1, <3>2
    <3>. QED
      BY <1>4, <3>3, PassIs
  <2>4. TextOk(u) /\ NoImages(text) /\ Count(u) = n
    BY <1>3, <1>5, FirstText
  <2>5. d \in Nat
    BY <1>5, NetFacts
  <2>6. u = text \o items /\ z = kv.seq_len
    BY <1>5
  <2> HIDE DEF items, n, p, q, z, u, d, r
  <2>7. MropeStart(p, items, z, "prefill", d, n)
    BY <1>2, <1>4, <2>1, MropeStarts
  <2>8. /\ IsStarted(p, items, z) /\ p.rest = <<>> /\ p.main = TRUE /\ p.form = "prefill"
        /\ p.features = d /\ p.keeps = TRUE /\ p.text_pos = n
    BY <2>7 DEF MropeStart
  <2>9. StartOk(model, kv, p, items, u)
    <3>1. p.main \in BOOLEAN /\ p.keeps \in BOOLEAN
      BY <2>8
    <3>2. p.keeps /\ p.form # "decode" /\ p.features \in Nat
      BY <2>5, <2>8
    <3>3. \A i \in 1 .. Len(items) :
             IsImage(items[i].what) => p.features = IF model.mrope THEN model.deepstack ELSE 0
      BY <1>7, <2>8 DEF d
    <3>. QED
      BY <1>5, <1>7, <2>4, <2>8, <3>1, <3>2, <3>3 DEF StartOk
  <2>10. Inv(model, kv, p, u, abs)
    BY <1>1, <1>4, <1>5, <1>6, <2>3, <2>4, <2>6, <2>8, <2>9, StartInv
  <2>. QED
    BY <1>1, <2>2, <2>10, BeginKeeps DEF u
<1>8. CASE ~model.mrope
  <2> DEFINE s == Flat(items)
             u == text \o s
             r == Pass(s, z)
  <2>1. TextOk(s) /\ Len(s) = Len(items)
    BY <1>3, FlatFacts
  <2>2. IsSeq(s)
    BY <2>1 DEF TextOk
  <2>3. q = r
    <3>1. DOMAIN whats = 1 .. Len(items) /\ \A i \in 1 .. Len(items) : whats[i] = items[i].what
      BY <1>4
    <3>2. [i \in DOMAIN whats |-> [what |-> whats[i], pos |-> TextPosition(z + i - 1)]] = s
      BY <3>1 DEF Flat
    <3>3. q = PrefillWithEmbeds(whats, z)
      BY <1>8
    <3> HIDE DEF q, whats, s, z
    <3>. QED
      BY <3>2, <3>3 DEF PrefillWithEmbeds
  <2>4. p = TextPosPass(s, z, n)
    BY <2>3 DEF TextPosPass
  <2>5. Len(s) # 0
    <3>1. r = NoPass => [r EXCEPT !.text_pos = n].next = 0
      BY DEF NoPass
    <3>2. p = [r EXCEPT !.text_pos = n]
      BY <2>3
    <3>3. r # NoPass
      BY <1>2, <3>1, <3>2
    <3> HIDE DEF s
    <3>. QED
      BY <2>2, <3>3, PassIs
  <2>6. TextOk(u) /\ NoImages(text)
    BY <1>5, <2>1, FirstText
  <2>7. u = text \o s /\ z = kv.seq_len
    BY <1>5
  <2>8. p.items = q.items /\ Begin(p, q.items)
    <3>1. Begin(p, q.items)
      BY <1>1, <1>8
    <3>2. IsPass(q)
      <4> HIDE DEF q, s, z
      <4>. QED
        BY <2>2, <2>3, PassGiven
    <3>3. Same(q, p)
      <4> DEFINE v == [q EXCEPT !.text_pos = n]
      <4>1. p = v
        OBVIOUS
      <4> HIDE DEF q, p, n
      <4>2. Same(q, v)
        BY ONLY <3>2, SetTextPos
      <4>. QED
        BY <4>1, <4>2
    <3>. QED
      BY <3>1, <3>3 DEF Same
  <2> HIDE DEF items, n, p, q, z, u, r, s
  <2>9. PlainStart(p, s, z, "prefill")
    BY <1>2, <2>2, <2>4, TextPosStarts
  <2>10. /\ IsStarted(p, s, z) /\ p.rest = <<>> /\ p.main = FALSE /\ p.form = "prefill"
         /\ p.features = 0 /\ p.keeps = TRUE
    BY <2>9 DEF PlainStart
  <2>11. StartOk(model, kv, p, s, u)
    <3>1. p.main \in BOOLEAN /\ p.keeps \in BOOLEAN
      BY <2>10
    <3>2. p.keeps /\ p.form # "decode" /\ p.features \in Nat /\ ~p.main
      BY <2>10
    <3>3. \A i \in 1 .. Len(s) :
             IsImage(s[i].what) => p.features = IF model.mrope THEN model.deepstack ELSE 0
      BY <1>8, <2>10
    <3>. QED
      BY <1>5, <1>8, <2>10, <3>1, <3>2, <3>3 DEF StartOk
  <2>12. Inv(model, kv, p, u, abs)
    BY <1>1, <1>5, <1>6, <2>2, <2>5, <2>6, <2>7, <2>10, <2>11, StartInv
  <2>13. Begin(p, s)
    BY <2>8, <2>10, StartedFields
  <2>. QED
    BY <1>1, <2>12, <2>13, BeginKeeps DEF u
<1>. QED
  BY <1>7, <1>8

---------------------------------------------------------------------------
(* The end of a pass, and what is cut off *)

\* The text u is the first n items of t, and what follows them is text.
IsCut(t, n, u) ==
    /\ n \in 0 .. Len(t) /\ u = SubSeq(t, 1, n)
    /\ \A i \in n + 1 .. Len(t) : ~IsImage(t[i].what)
CutOk(t, n, u) ==
    /\ TextOk(u) /\ IsSeq(u) /\ Len(u) = n /\ n \in Nat /\ n <= Len(t)
    /\ \A i \in 1 .. n : u[i] = t[i]
    /\ NoImages(u) <=> NoImages(t)
    /\ Count(t) = Count(u) + (Len(t) - n)

\* The first part of a text is one.
LEMMA CutFacts ==
    ASSUME NEW t, TextOk(t), NEW n, NEW u, IsCut(t, n, u)
    PROVE  CutOk(t, n, u)
<1> DEFINE v == SubSeq(t, n + 1, Len(t))
<1>1. /\ n \in 0 .. Len(t) /\ u = SubSeq(t, 1, n)
      /\ \A i \in n + 1 .. Len(t) : ~IsImage(t[i].what)
  BY DEF IsCut
<1>2. IsSeq(t) /\ Len(t) \in Nat /\ \A i \in 1 .. Len(t) : ItemOk(t[i])
  BY SeqFacts DEF TextOk
<1>3. n \in Nat /\ n <= Len(t) /\ Len(t) - n \in Nat
  BY <1>1, <1>2
<1>4. IsSeq(u) /\ Len(u) = n /\ \A i \in 1 .. n : u[i] = t[i]
  BY <1>1, <1>2, FirstFacts
<1>5. /\ IsSeq(v) /\ Len(v) = Len(t) - n
      /\ \A i \in 1 .. Len(t) - n : v[i] = t[n + i]
  BY <1>1, <1>2, LaterFacts
<1> HIDE DEF v
<1>6. \A i \in 1 .. n : i \in 1 .. Len(t)
  BY <1>2, <1>3
<1>7. NoImages(v)
  <2> SUFFICES ASSUME NEW i \in 1 .. Len(t) - n PROVE ~IsImage(v[i].what)
    BY <1>5 DEF NoImages
  <2>1. n + i \in n + 1 .. Len(t)
    BY <1>2, <1>3
  <2>. QED
    BY <1>1, <1>5, <2>1
<1>8. u \o v = t
  <2>1. Joined(u, v, u \o v)
    BY <1>4, <1>5, JoinOk
  <2> DEFINE w == u \o v
  <2>2. /\ IsSeq(w) /\ Len(w) = Len(t)
        /\ \A i \in 1 .. n : w[i] = t[i]
        /\ \A i \in 1 .. Len(t) - n : w[n + i] = t[n + i]
    BY ONLY <1>2, <1>3, <1>4, <1>5, <2>1 DEF Joined
  <2> HIDE DEF w
  <2>3. ASSUME NEW i \in 1 .. Len(w) PROVE w[i] = t[i]
    <3>1. CASE i <= n
      BY <1>3, <2>2, <3>1
    <3>2. CASE ~(i <= n)
      <4>1. i - n \in 1 .. Len(t) - n /\ n + (i - n) = i
        BY <1>2, <1>3, <2>2, <3>2
      <4>. QED
        BY <2>2, <4>1
    <3>. QED
      BY <3>1, <3>2
  <2>. QED
    BY <1>2, <2>2, <2>3, SameSeq DEF w
<1>9. NoImages(t) => NoImages(u)
  BY <1>4, <1>6 DEF NoImages
<1>10. NoImages(u) => NoImages(t)
  BY <1>4, <1>5, <1>7, <1>8, NoImagesJoin
<1>11. Count(t) = Count(u) + (Len(t) - n)
  <2>1. Count(v) = Len(t) - n
    BY <1>5, <1>7, CountAll
  <2>2. Count(u \o v) = Count(u) + Count(v)
    BY <1>4, <1>5, CountJoin
  <2>. QED
    BY <1>8, <2>1, <2>2
<1>12. TextOk(u)
  <2>1. \A i \in 1 .. n : ItemOk(u[i])
    BY <1>2, <1>4, <1>6
  <2>2. ASSUME NoImages(u) PROVE \A i \in 1 .. n : u[i].pos = TextPosition(i - 1)
    <3>1. \A i \in 1 .. Len(t) : t[i].pos = TextPosition(i - 1)
      BY <1>10, <2>2 DEF TextOk
    <3>. QED
      BY <1>4, <1>6, <3>1
  <2>. QED
    BY <1>4, <2>1, <2>2 DEF TextOk
<1>. QED
  BY <1>3, <1>4, <1>9, <1>10, <1>11, <1>12 DEF CutOk

\* The cache of KvCache after a pass, over the text so far.
LEMMA AfterCopy ==
    ASSUME NEW m, NEW k, NEW p, NEW t, NEW c, Inv(m, k, p, t, c), p.next # 0,
           NEW f, f = FedOf(m, p, c), NEW u, CutOk(t, Len(f.layer), u)
    PROVE  CopyOk(m, u, f)
<1>1. Going(m, k, p, t, c, f) /\ CopyOk(m, t, c) /\ PassOk(m, k, p, t)
  BY GoingFacts DEF Inv
<1>2. /\ m \in Networks /\ FedOk(m, p, c, f)
      /\ Len(p.items) \in Nat \ {0} /\ p.start \in Nat /\ Len(t) \in Nat
      /\ p.start = c.seq_len /\ p.start = Len(c.layer)
      /\ Len(f.layer) = p.start + Len(p.items)
      /\ IsSeq(p.items) /\ IsSeq(c.layer) /\ IsSeq(c.state)
  BY <1>1 DEF Going
<1> DEFINE n == Len(p.items)
           h == Len(c.layer)
<1>3. h \in Nat /\ n \in Nat \ {0} /\ Len(f.layer) = h + n /\ f.seq_len = h + n
  BY <1>2 DEF FedOk
<1>n. n = Len(p.items) /\ h = Len(c.layer) /\ p.start = h /\ c.seq_len = h
  BY <1>2
<1> HIDE DEF n, h
<1>4. /\ f = [layer |-> f.layer, flat |-> f.flat, state |-> f.state, seq_len |-> f.seq_len,
              text_pos |-> f.text_pos]
      /\ IsSeq(f.layer) /\ IsSeq(f.state)
  BY <1>2 DEF FedOk
<1>5. \A i \in 1 .. n : p.items[i] = t[h + i]
  BY <1>1, <1>n DEF PassOk, Parts
<1>6. ASSUME NEW j \in 1 .. f.seq_len, f.layer[j].sound PROVE \A i \in 1 .. j : f.layer[i].sound
  <2>1. CASE j <= h
    <3>1. j \in 1 .. h /\ c.layer[j].sound
      BY <1>2, <1>3, <1>n, <1>6, <2>1 DEF FedOk
    <3>2. \A i \in 1 .. j : c.layer[i].sound
      BY <1>1, <1>n, <3>1 DEF CopyOk
    <3>. QED
      BY <1>2, <1>n, <3>1, <3>2 DEF FedOk
  <2>2. CASE ~(j <= h)
    <3> DEFINE i == j - h
    <3>1. i \in 1 .. n /\ h + i = j
      BY <1>3, <2>2
    <3> HIDE DEF i
    <3>2. f.layer[Len(c.layer) + i].sound
      BY <1>6, <1>n, <3>1
    <3>3. i \in 1 .. Len(p.items)
      BY <1>n, <3>1
    <3>4. \A e \in 1 .. Len(c.layer) + i : f.layer[e].sound
      BY <1>2, <3>2, <3>3, FedSticky
    <3>. QED
      BY <1>n, <3>1, <3>4
  <2>. QED
    BY <2>1, <2>2
<1>7. ASSUME NoImages(u)
      PROVE  /\ \A j \in 1 .. f.seq_len : f.layer[j].tok = u[j].what[1] /\ f.layer[j].pos = j - 1
             /\ m.mrope => f.text_pos = f.seq_len
             /\ Ahead(m, f)
  <2>1. NoImages(t) /\ \A j \in 1 .. f.seq_len : u[j] = t[j]
    BY <1>3, <1>7 DEF CutOk
  <2>2. /\ \A j \in 1 .. h : c.layer[j].tok = t[j].what[1] /\ c.layer[j].pos = j - 1
        /\ m.mrope => c.text_pos = h
    BY <1>1, <1>n, <2>1 DEF CopyOk
  <2>3. FedPos(m, c) = h
    BY <1>2, <1>n, <2>2 DEF FedPos
  <2>4. ASSUME NEW j \in 1 .. f.seq_len
        PROVE  f.layer[j].tok = u[j].what[1] /\ f.layer[j].pos = j - 1
    <3>1. CASE j <= h
      <4>1. j \in 1 .. h
        BY <1>3, <3>1
      <4>. QED
        <5>1. f.layer[j] = c.layer[j]
          BY <1>2, <1>n, <4>1 DEF FedOk
        <5>2. c.layer[j].tok = t[j].what[1] /\ c.layer[j].pos = j - 1
          BY <2>2, <4>1
        <5>3. u[j] = t[j]
          BY <2>1
        <5>. QED
          BY ONLY <5>1, <5>2, <5>3
    <3>2. CASE ~(j <= h)
      <4> DEFINE i == j - h
      <4>1. i \in 1 .. n /\ h + i = j /\ h + i - 1 = j - 1
        BY <1>3, <3>2
      <4> HIDE DEF i
      <4>2. f.layer[h + i].tok = p.items[i].what[1] /\ f.layer[h + i].pos = FedPos(m, c) + i - 1
        BY <1>2, <1>n, <4>1 DEF FedOk
      <4>3. p.items[i] = u[j]
        BY <1>5, <2>1, <4>1
      <4>. QED
        BY <2>3, <4>1, <4>2, <4>3
    <3>. QED
      BY <3>1, <3>2
  <2>5. m.mrope => f.text_pos = f.seq_len
    BY <1>2, <1>3, <1>n, <2>2 DEF FedOk
  <2>6. ASSUME AbsOf(m).recurrent # "none"
        PROVE  /\ Len(f.state) > 0
               /\ f.state[Len(f.state)].pos \in Nat
               /\ f.state[Len(f.state)].pos >= f.seq_len - 1
    <3> DEFINE toks == ToksOf(p.items)
               q == FedPos(m, c)
               sp == Spots(toks, q)
               both == c.state \o sp
    <3>1. IsSeq(toks) /\ Len(toks) = n
      BY <1>2, <1>n, ToksFacts
    <3>q. q = h
      BY <2>3
    <3> HIDE DEF toks, q
    <3>2. /\ IsSeq(sp) /\ Len(sp) = n
          /\ \A i \in 1 .. n : sp[i].pos = q + i - 1
      <4>1. /\ IsSeq(Spots(toks, q)) /\ Len(Spots(toks, q)) = Len(toks)
            /\ \A i \in 1 .. Len(toks) : Spots(toks, q)[i].pos = q + i - 1
        <5>1. IsSeq(Spots(toks, q)) /\ Len(Spots(toks, q)) = Len(toks)
          BY <3>1, SpotsFacts
        <5>2. \A i \in 1 .. Len(toks) : Spots(toks, q)[i].pos = q + i - 1
          <6>1. DOMAIN toks = 1 .. Len(toks)
            BY <3>1, SeqFacts
          <6>. QED
            BY <6>1 DEF Spots
        <5>. QED
          BY <5>1, <5>2
      <4>. QED
        BY <3>1, <4>1
    <3>3. f.state = sp \/ f.state = both
      <4>1. f.state = StateOf(m, p, c, toks)
        BY <1>2 DEF FedOk, toks
      <4>2. StateOf(m, p, c, toks) =
               IF AbsOf(m).recurrent = "none" THEN <<>>
               ELSE IF AbsOf(m).recurrent = "conv" /\ p.form # "decode"
                    THEN Spots(toks, FedPos(m, c)) ELSE c.state \o Spots(toks, FedPos(m, c))
        BY <1>2, StateParts
      <4>. QED
        BY <2>6, <4>1, <4>2 DEF both, sp, q
    <3> HIDE DEF sp
    <3>4. sp[n].pos = h + n - 1
      BY <1>3, <3>2, <3>q
    <3>5. Len(both) = Len(c.state) + n /\ Len(c.state) \in Nat /\ both[Len(c.state) + n] = sp[n]
      <4>1. Joined(c.state, sp, both)
        BY <1>2, <1>n, <3>2, JoinOk
      <4>2. Len(c.state) \in Nat
        BY <1>2, SeqFacts
      <4> HIDE DEF both
      <4>. QED
        BY <1>3, <3>2, <4>1, <4>2 DEF Joined
    <3> HIDE DEF both
    <3>6. Len(f.state) > 0 /\ f.state[Len(f.state)] = sp[n]
      <4>1. CASE f.state = sp
        BY <1>3, <3>2, <4>1
      <4>2. CASE f.state = both
        BY <1>3, <3>5, <4>2
      <4>. QED
        BY <3>3, <4>1, <4>2
    <3>7. h + n - 1 \in Nat /\ h + n - 1 >= f.seq_len - 1
      BY <1>3
    <3>. QED
      BY <3>4, <3>6, <3>7
  <2>. QED
    BY <2>4, <2>5, <2>6 DEF Ahead
<1>8. f.seq_len # 0
  BY <1>3
<1>. QED
  BY <1>3, <1>4, <1>6, <1>7, <1>8 DEF CopyOk

\* The rows before a place do not see what is after it.
CutRows(m, k, p, t, k2, u, n) ==
    \A l \in 0 .. Len(m.blocks), j \in 1 .. n : R(m, k2, NoPass, u)[l][j] = R(m, k, p, t)[l][j]

\* A pass that keeps its rows lets none see a later one.
LEMMA CutSame ==
    ASSUME NEW m \in Networks, NEW t, TextOk(t), NEW n, NEW u, CutOk(t, n, u),
           NEW k, k.bidirectional = FALSE, NEW k2, k2.bidirectional = FALSE,
           NEW p, p.keeps = TRUE
    PROVE  CutRows(m, k, p, t, k2, u, n)
<1> DEFINE bi == FALSE
           ke == TRUE
<1>1. /\ IsSeq(u) /\ IsSeq(t) /\ Len(u) = n /\ n \in Nat /\ n <= Len(t) /\ n <= Len(u)
      /\ \A i \in 1 .. n : t[i] = u[i]
  BY DEF CutOk, TextOk
<1>2. Len(t) \in Nat /\ Len(u) \in Nat
  BY <1>1, SeqFacts
<1>3. bi = FALSE /\ bi = k.bidirectional /\ bi = k2.bidirectional /\ ke = p.keeps /\ ke = NoPass.keeps
  BY DEF NoPass
<1> HIDE DEF bi, ke
<1>4. SameRows(m, u, t, bi, ke, n)
  BY <1>1, <1>2, <1>3, Causal
<1>. QED
  BY <1>3, <1>4 DEF SameRows, CutRows, R

\* The attention caches keep their first n entries, and there is nothing else.
CutCache(m, k, k2, n) ==
    \A l \in Places(m) : m.blocks[l] = "attn" =>
        /\ Len(k2.data[l]) = n /\ Len(k.data[l]) >= n /\ Len(k.data[l]) \in Nat
        /\ \A j \in 1 .. n : k2.data[l][j] = k.data[l][j]
\* Where rows are good after a cut they were.
CutGood(m, p, t, c, u, f, n) == \A j \in 1 .. n : Good(m, NoPass, u, f, j) => Good(m, p, t, c, j)

\* What is left of the entries is made from the rows before it.
LEMMA CutData ==
    ASSUME NEW m \in Networks, NEW t, NEW n, NEW u, CutOk(t, n, u), NEW k, NEW k2, NEW p,
           p.keeps = TRUE, CutRows(m, k, p, t, k2, u, n), NEW c, DataOk(m, k, p, t, c),
           k2.seq_len = n, CutCache(m, k, k2, n), NEW f, CutGood(m, p, t, c, u, f, n)
    PROVE  DataOk(m, k2, NoPass, u, f)
<1> DEFINE p0 == NoPass
<1>0. p0.next = 0 /\ p0.keeps = TRUE
  BY DEF NoPass
<1> HIDE DEF p0
<1> SUFFICES ASSUME NEW l \in Places(m), m.blocks[l] = "attn"
             PROVE  /\ Len(k2.data[l]) = k2.seq_len + Given(p0, l)
                    /\ \A j \in 1 .. Len(k2.data[l]) : Entry(m, k2, p0, u, f, l, j)
  BY DEF DataOk, p0
<1>1. n \in Nat /\ \A i \in 1 .. n : u[i] = t[i]
  BY DEF CutOk
<1>2. l - 1 \in 0 .. Len(m.blocks) /\ ~(l < 0)
  BY NetFacts
<1>3. Given(p0, l) = 0
  BY <1>0, <1>2 DEF Given
<1>4. Len(k2.data[l]) = n /\ Len(k.data[l]) >= n /\ Len(k.data[l]) \in Nat
      /\ \A j \in 1 .. n : k2.data[l][j] = k.data[l][j]
  BY DEF CutCache
<1>5. ASSUME NEW j \in 1 .. n PROVE Entry(m, k2, p0, u, f, l, j)
  <2>1. j \in 1 .. Len(k.data[l])
    BY <1>1, <1>4
  <2>2. Entry(m, k, p, t, c, l, j)
    BY <2>1 DEF DataOk
  <2>3. Turned(m, u, p0.keeps, l, j) = Turned(m, t, p.keeps, l, j)
    BY <1>0, <1>1 DEF Turned
  <2>4. R(m, k2, p0, u)[l - 1][j] = R(m, k, p, t)[l - 1][j]
    BY <1>2 DEF CutRows, p0
  <2>5. Good(m, p0, u, f, j) => Good(m, p, t, c, j)
    BY DEF p0, CutGood
  <2>6. k2.data[l][j] = k.data[l][j]
    BY <1>4
  <2>. QED
    BY <2>2, <2>3, <2>4, <2>5, <2>6 DEF Entry
<1>. QED
  BY <1>1, <1>3, <1>4, <1>5

\* The end of a pass whose rows are kept: the cache is one of the text so far.
LEMMA AdvanceInv ==
    ASSUME NEW m, NEW k, NEW p, NEW t, NEW c, Inv(m, k, p, t, c),
           p.next = Len(m.blocks) + 1, p.keeps = TRUE,
           NEW f, f = FedOf(m, p, c), NEW n, n = Len(f.layer), NEW u, u = SubSeq(t, 1, n),
           NEW k2, KvOk(m, k2), k2.data = k.data, k2.state = k.state, k2.seq_len = n,
           k2.bidirectional = k.bidirectional, k2.text_pos = p.text_pos
    PROVE  Inv(m, k2, NoPass, u, f) /\ CutOk(t, n, u)
<1> DEFINE p0 == NoPass
<1>0. p0.next = 0 /\ p0.keeps = TRUE
  BY DEF NoPass
<1>1. m \in Networks /\ Len(m.blocks) \in Nat \ {0} /\ p.next # 0
  <2>1. m \in Networks
    BY DEF Inv
  <2>2. Len(m.blocks) \in Nat \ {0}
    BY <2>1, NetFacts
  <2>. QED
    BY <2>1, <2>2
<1>2. /\ TextOk(t) /\ KvOk(m, k) /\ CopyOk(m, t, c) /\ c.seq_len = k.seq_len /\ PassOk(m, k, p, t)
      /\ DataOk(m, k, p, t, c) /\ StateOk(m, k, p, t, c) /\ FirstOk(m, k, p, t, c)
  BY <1>1 DEF Inv
<1>3. Going(m, k, p, t, c, f)
  BY <1>1, GoingFacts
<1>4. /\ FedOk(m, p, c, f) /\ Len(p.items) \in Nat \ {0} /\ p.start \in Nat /\ Len(t) \in Nat
      /\ Len(p.rest) \in Nat /\ p.start = k.seq_len /\ p.start = c.seq_len
      /\ p.start + Len(p.items) + Len(p.rest) = Len(t) /\ n = p.start + Len(p.items)
  BY <1>3 DEF Going
<1>5. n \in Nat \ {0} /\ n <= Len(t) /\ n \in 0 .. Len(t) /\ f.seq_len = n
  <2>1. f.seq_len = c.seq_len + Len(p.items)
    BY <1>4 DEF FedOk
  <2>. QED
    BY ONLY <1>4, <2>1
<1>6. CutOk(t, n, u)
  <2>1. ASSUME NEW i \in n + 1 .. Len(t) PROVE ~IsImage(t[i].what)
    <3> DEFINE e == i - n
    <3>1. e \in 1 .. Len(p.rest) /\ n + e = i /\ n + e - 1 = i - 1
      <4> DEFINE r == Len(p.rest)
                 h == Len(t)
      <4>1. i \in n + 1 .. h /\ h \in Nat /\ r \in Nat /\ n \in Nat /\ n + r = h
        BY <1>4, <1>5
      <4> HIDE DEF r, h
      <4>2. i - n \in 1 .. r /\ n + (i - n) = i /\ n + (i - n) - 1 = i - 1
        BY ONLY <4>1
      <4>. QED
        BY <4>2 DEF r
    <3> HIDE DEF e
    <3>2. t[p.start + Len(p.items) + e] = [what |-> <<p.rest[e]>>, pos |-> TextPosition(p.start + Len(p.items) + e - 1)]
      BY <1>2, <3>1 DEF PassOk, Parts
    <3>3. t[i] = [what |-> <<p.rest[e]>>, pos |-> TextPosition(i - 1)]
      BY <1>4, <3>1, <3>2
    <3>4. p.rest[e] \in Tokens /\ 0 \notin Tokens
      BY <1>2, <3>1, PassAssumption DEF PassOk, RestOk
    <3> DEFINE w == <<p.rest[e]>>
               at == TextPosition(i - 1)
    <3>5. w[1] = p.rest[e] /\ t[i] = [what |-> w, pos |-> at]
      BY <3>3
    <3> HIDE DEF w, at
    <3>6. t[i].what = w
      BY <3>5
    <3>. QED
      BY <3>4, <3>5, <3>6 DEF IsImage
  <2>2. IsCut(t, n, u)
    BY <1>5, <2>1 DEF IsCut
  <2>. QED
    BY <1>2, <2>2, CutFacts
<1>7. CopyOk(m, u, f)
  BY <1>1, <1>6, AfterCopy
<1>8. k.bidirectional = FALSE /\ k2.bidirectional = FALSE
  <2>1. k.bidirectional \in BOOLEAN
    BY <1>2 DEF KvOk
  <2>2. k.bidirectional => ~p.keeps
    BY <1>2 DEF PassOk
  <2>. QED
    BY <2>1, <2>2
<1>9. IdleOk(m, k2, u)
  <2>1. Len(u) = n /\ Count(t) = Count(u) + (Len(t) - n)
    BY <1>6 DEF CutOk
  <2>2. ASSUME m.mrope PROVE k2.text_pos = Count(u)
    <3>1. p.rest = <<>> /\ p.text_pos = Count(t)
      BY <1>2, <2>2 DEF PassOk
    <3>2. Len(p.rest) = 0
      BY <3>1, SmallSeqs
    <3>3. n = Len(t)
      BY <1>4, <3>2
    <3>4. Count(u) \in Nat
      <4>1. IsSeq(u)
        BY <1>6 DEF CutOk
      <4>. QED
        BY <4>1, CountFacts
    <3>. QED
      <4>1. Len(t) \in Nat /\ Count(t) = Count(u) + (Len(t) - Len(t))
        BY <1>4, <2>1, <3>3
      <4>2. Count(t) = Count(u)
        BY ONLY <3>4, <4>1
      <4>. QED
        BY <3>1, <4>2
  <2>. QED
    BY <1>5, <1>8, <2>1, <2>2 DEF IdleOk
<1>10. CutRows(m, k, p, t, k2, u, n)
  BY <1>1, <1>2, <1>6, <1>8, CutSame
<1>11. FedOf(m, p0, f) = f /\ \A l \in Places(m) : CacheAt(m, p0, f, l) = f
  BY <1>0, <1>1, NetFacts DEF FedOf, CacheAt
<1>12. \A l \in Places(m) : CacheAt(m, p, c, l) = f /\ Given(p, l) = Len(p.items)
  <2>1. \A l \in Places(m) : l < p.next
    BY <1>1 DEF Places
  <2>. QED
    BY <2>1 DEF CacheAt, Given
<1>13. NoImages(u) <=> NoImages(t)
  BY <1>6 DEF CutOk
<1>14. CutGood(m, p, t, c, u, f, n)
  <2>1. \A j \in 1 .. n : Good(m, p0, u, f, j) => Good(m, p, t, c, j)
    BY <1>0, <1>11, <1>13 DEF Good
  <2>. QED
    BY <2>1 DEF CutGood
<1>15. DataOk(m, k2, p0, u, f)
  <2> DEFINE a == p.start
             b == Len(p.items)
  <2>1. ASSUME NEW l \in Places(m), m.blocks[l] = "attn"
        PROVE  /\ Len(k2.data[l]) = n /\ Len(k.data[l]) >= n /\ Len(k.data[l]) \in Nat
               /\ \A j \in 1 .. n : k2.data[l][j] = k.data[l][j]
    <3>1. Len(k.data[l]) = k.seq_len + Len(p.items)
      BY <1>2, <1>12, <2>1 DEF DataOk
    <3>. QED
      <4>0. Len(k.data[l]) = a + b /\ n = a + b /\ a \in Nat /\ b \in Nat
        BY <1>4, <3>1
      <4> HIDE DEF a, b
      <4>1. Len(k.data[l]) = n /\ n \in Nat /\ n >= n
        BY ONLY <4>0
      <4>. QED
        BY <4>1
  <2>. QED
    <3>1. k2.seq_len = n /\ DataOk(m, k, p, t, c) /\ p.keeps = TRUE /\ m \in Networks
      BY <1>1, <1>2
    <3>2. CutCache(m, k, k2, n)
      BY <2>1 DEF CutCache
    <3>. QED
      BY ONLY <1>6, <1>10, <1>14, <3>1, <3>2, CutData DEF p0
<1>16. StateOk(m, k2, p0, u, f)
  <2> SUFFICES ASSUME NEW l \in Places(m), m.blocks[l] # "attn", NoImages(u), Current(f)
               PROVE  StateIs(m, l, k2.state[l],
                              SubSeq(R(m, k2, p0, u)[l - 1], 1, Len(f.layer)))
    BY <1>5, <1>11 DEF StateOk
  <2> DEFINE h == l - 1
             x == R(m, k, p, t)[h]
             y == R(m, k2, p0, u)[h]
  <2>1. h \in 0 .. Len(m.blocks)
    BY <1>1 DEF Places
  <2>2. StateIs(m, l, k.state[l], SubSeq(x, 1, n))
    BY <1>2, <1>12, <1>13 DEF StateOk
  <2> HIDE DEF h
  <2>3. IsSeq(x) /\ Len(x) = Len(t)
    <3> DEFINE bi == k.bidirectional
               ke == p.keeps
    <3> HIDE DEF bi, ke
    <3>1. IsSeq(Scratch(m, t, bi, ke)[h]) /\ Len(Scratch(m, t, bi, ke)[h]) = Len(t)
      BY <1>1, <1>2, <2>1, ScratchShape DEF TextOk
    <3>. QED
      BY <3>1 DEF R, bi, ke
  <2>4. IsSeq(y) /\ Len(y) = n
    <3> DEFINE bi == k2.bidirectional
               ke == p0.keeps
    <3> HIDE DEF bi, ke
    <3>1. IsSeq(u) /\ Len(u) = n
      BY <1>6 DEF CutOk
    <3>2. IsSeq(Scratch(m, u, bi, ke)[h]) /\ Len(Scratch(m, u, bi, ke)[h]) = Len(u)
      BY ONLY <1>1, <2>1, <3>1, ScratchShape
    <3>. QED
      BY <3>1, <3>2 DEF R, bi, ke
  <2>5. \A j \in 1 .. n : x[j] = y[j]
    BY <1>10, <2>1 DEF CutRows
  <2> HIDE DEF x, y
  <2>6. SubSeq(x, 1, n) = SubSeq(y, 1, n)
    BY <1>5, <2>3, <2>4, <2>5, SameFirst
  <2>. QED
    BY <2>2, <2>6 DEF y, h
<1>17. FirstOk(m, k2, p0, u, f)
  <2>1. 1 \in Places(m)
    BY <1>1, NetFacts
  <2>. QED
    BY <1>2, <1>11, <1>12, <1>13, <2>1 DEF FirstOk
<1>. QED
  BY <1>0, <1>1, <1>5, <1>6, <1>7, <1>9, <1>15, <1>16, <1>17 DEF Inv, CutOk, p0

\* A cache that is new.
LEMMA FreshInv ==
    ASSUME NEW m \in Networks, NEW t, TextOk(t), NEW k, k = FreshOf(m)
    PROVE  Inv(m, k, NoPass, t, Cache!Empty) /\ KvOk(m, k)
<1> DEFINE p0 == NoPass
           e == Cache!Empty
           one == <<>>
<1>0. p0.next = 0 /\ p0.keeps = TRUE
  BY DEF NoPass
<1>1. /\ e.layer = <<>> /\ e.state = <<>> /\ e.seq_len = 0 /\ e.text_pos = 0
      /\ e = [layer |-> e.layer, flat |-> e.flat, state |-> e.state, seq_len |-> e.seq_len,
              text_pos |-> e.text_pos]
  BY DEF Cache!Empty
<1>2. IsSeq(one) /\ Len(one) = 0
  BY SmallSeqs
<1>3. one = <<>>
  OBVIOUS
<1> DEFINE win == [j \in 1 .. ConvLCache |-> Zero]
<1>4. ConvLCache \in Nat \ {0}
  BY PassAssumption
<1>5. IsSeq(win) /\ Len(win) = ConvLCache
  <2>1. win = [j \in 1 .. ConvLCache |-> win[j]]
    OBVIOUS
  <2> HIDE DEF win
  <2>. QED
    BY <1>4, <2>1, FunSeq
<1>6. win = LastOf(one, ConvLCache)
  <2>1. \A i \in 1 .. ConvLCache : ~(Len(one) - ConvLCache + i > 0)
    BY <1>2, <1>4
  <2> HIDE DEF one
  <2>2. LastOf(one, ConvLCache) = [i \in 1 .. ConvLCache |->
            IF Len(one) - ConvLCache + i > 0 THEN one[Len(one) - ConvLCache + i] ELSE Zero]
    BY DEF LastOf
  <2>. QED
    BY <2>1, <2>2
<1>7. /\ k.seq_len = 0 /\ k.text_pos = 0 /\ k.bidirectional = FALSE
      /\ k.data = [l \in Places(m) |-> <<>>] /\ k.state = [l \in Places(m) |-> FreshState(m, l)]
      /\ k = [data |-> k.data, state |-> k.state, seq_len |-> k.seq_len,
              text_pos |-> k.text_pos, bidirectional |-> k.bidirectional]
  BY DEF FreshOf
<1>8. \A l \in Places(m) : k.data[l] = one /\ k.state[l] = FreshState(m, l)
  BY <1>7
<1>9. \A l \in Places(m) : FreshState(m, l) = IF m.blocks[l] = "conv" THEN win ELSE one
  BY DEF FreshState
<1> HIDE DEF one, win, p0, e
<1>10. KvOk(m, k)
  <2>1. k.data = [l \in Places(m) |-> k.data[l]] /\ k.state = [l \in Places(m) |-> k.state[l]]
    BY <1>7
  <2>2. \A l \in Places(m) : IsSeq(k.data[l]) /\ IsSeq(k.state[l])
    BY <1>2, <1>5, <1>8, <1>9
  <2>3. \A l \in Places(m) : m.blocks[l] = "conv" => Len(k.state[l]) = ConvLCache
    BY <1>5, <1>8, <1>9
  <2>4. k.seq_len \in Nat
    BY <1>7
  <2>5. k.bidirectional \in BOOLEAN
    BY <1>7
  <2>6. k = [data |-> k.data, state |-> k.state, seq_len |-> k.seq_len,
             text_pos |-> k.text_pos, bidirectional |-> k.bidirectional]
    BY <1>7
  <2>. QED
    BY ONLY <2>1, <2>2, <2>3, <2>4, <2>5, <2>6 DEF KvOk
<1>11. CopyOk(m, t, e)
  <2>1. IsSeq(e.layer) /\ IsSeq(e.state) /\ Len(e.layer) = 0 /\ Len(e.state) = 0
    BY <1>1, <1>2, <1>3
  <2>2. \A j \in 1 .. e.seq_len : FALSE
    BY <1>1
  <2>3. Ahead(m, e)
    BY <1>1 DEF Ahead
  <2>. QED
    BY <1>1, <2>1, <2>2, <2>3 DEF CopyOk, e
<1>12. IdleOk(m, k, t)
  BY <1>7 DEF IdleOk
<1>13. FedOf(m, p0, e) = e /\ \A l \in Places(m) : CacheAt(m, p0, e, l) = e /\ Given(p0, l) = 0
  BY <1>0, NetFacts DEF FedOf, CacheAt, Given
<1>14. DataOk(m, k, p0, t, e)
  <2> SUFFICES ASSUME NEW l \in Places(m)
               PROVE  /\ Len(k.data[l]) = k.seq_len + Given(p0, l)
                      /\ \A j \in 1 .. Len(k.data[l]) : Entry(m, k, p0, t, e, l, j)
    BY DEF DataOk
  <2>1. Len(k.data[l]) = 0
    BY <1>2, <1>8
  <2>2. \A j \in 1 .. Len(k.data[l]) : FALSE
    BY <2>1
  <2>. QED
    BY <1>7, <1>13, <2>1, <2>2
<1>15. StateOk(m, k, p0, t, e)
  <2>1. ~Current(e)
    BY <1>1, <1>2, <1>3 DEF Current
  <2>. QED
    BY <1>8, <1>13, <2>1 DEF StateOk
<1>16. FirstOk(m, k, p0, t, e)
  <2>1. 1 \in Places(m)
    BY NetFacts
  <2>2. Seen(e) = one
    <3> DEFINE s == Seen(e)
    <3>1. s = [j \in 1 .. 0 |-> s[j]]
      BY <1>1, <1>2, <1>3 DEF Seen
    <3> HIDE DEF s
    <3>2. IsSeq(s) /\ Len(s) = 0
      BY <3>1, FunSeq
    <3>3. s = one
      BY <1>2, <3>2, SameSeq
    <3>. QED
      BY <3>3 DEF s
  <2>3. StateIs(m, 1, k.state[1], one)
    BY <1>6, <1>8, <1>9, <2>1 DEF StateIs
  <2>. QED
    BY <1>13, <2>1, <2>2, <2>3 DEF FirstOk
<1>. QED
  BY <1>0, <1>1, <1>7, <1>10, <1>11, <1>12, <1>14, <1>15, <1>16 DEF Inv, p0, e

\* The names the model gives to what these lemmas say of any network.
LEMMA ModelNames ==
    /\ Layers = Places(model) /\ FreshCache = FreshOf(model) /\ AbsModel = AbsOf(model)
BY DEF Layers, NumLayers, Places, FreshCache, FreshOf, FreshState, AbsModel, AbsOf

\* The cache after a pass is that of the text so far.
LEMMA FinishAdvances ==
    ASSUME Now, Finish, pass.keeps = TRUE, NEW n, n = pass.start + Len(pass.items),
           NEW u, u = SubSeq(text, 1, n)
    PROVE  /\ Inv(model, kv', NoPass, u, abs') /\ CutOk(text, n, u) /\ KvOk(model, kv')
           /\ kv'.seq_len = n /\ kv'.bidirectional = FALSE /\ n \in Nat
<1> DEFINE k2 == [kv EXCEPT !.seq_len = @ + Len(pass.items), !.text_pos = pass.text_pos]
           f == FedOf(model, pass, abs)
<1>1. pass.next = Len(model.blocks) + 1 /\ pass.next # 0 /\ model \in Networks
  <2>1. model \in Networks /\ pass.next = Len(model.blocks) + 1
    BY DEF Now, Inv, Finish, NumLayers
  <2>2. Len(model.blocks) \in Nat
    BY <2>1, NetFacts
  <2>. QED
    BY <2>1, <2>2
<1>2. KvOk(model, kv) /\ PassOk(model, kv, pass, text)
  BY <1>1 DEF Now, Inv
<1>3. Going(model, kv, pass, text, abs, f)
  BY <1>1, GoingFacts DEF Now
<1>4. /\ pass.start = kv.seq_len /\ Len(f.layer) = pass.start + Len(pass.items)
      /\ pass.start \in Nat /\ Len(pass.items) \in Nat
  BY <1>3 DEF Going
<1>5. kv' = k2 /\ abs' = f
  <2>1. kv' = k2
    BY DEF Finish
  <2>2. abs' = Cache!Feed(AbsModel, abs, [i \in 1 .. Len(pass.items) |-> pass.items[i].what[1]],
                          pass.form # "decode")
    BY DEF Finish
  <2>3. [i \in 1 .. Len(pass.items) |-> pass.items[i].what[1]] = ToksOf(pass.items)
    BY DEF ToksOf
  <2>. QED
    BY <1>1, <2>1, <2>2, <2>3, ModelNames DEF FedOf
<1>6. k2 = [data |-> kv.data, state |-> kv.state, seq_len |-> kv.seq_len + Len(pass.items),
            text_pos |-> pass.text_pos, bidirectional |-> kv.bidirectional]
  <2>1. kv = [data |-> kv.data, state |-> kv.state, seq_len |-> kv.seq_len,
              text_pos |-> kv.text_pos, bidirectional |-> kv.bidirectional]
    BY <1>2 DEF KvOk
  <2> DEFINE h == kv.seq_len + Len(pass.items)
             z == pass.text_pos
  <2>2. k2 = [kv EXCEPT !.seq_len = h, !.text_pos = z]
    OBVIOUS
  <2> HIDE DEF k2, h, z
  <2>3. k2 = [data |-> kv.data, state |-> kv.state, seq_len |-> h,
              text_pos |-> z, bidirectional |-> kv.bidirectional]
    BY ONLY <2>1, <2>2
  <2>. QED
    BY <2>3 DEF h, z
<1> HIDE DEF k2
<1>7. /\ k2.data = kv.data /\ k2.state = kv.state /\ k2.seq_len = n /\ k2.text_pos = pass.text_pos
      /\ k2.bidirectional = kv.bidirectional
      /\ k2 = [data |-> k2.data, state |-> k2.state, seq_len |-> k2.seq_len,
               text_pos |-> k2.text_pos, bidirectional |-> k2.bidirectional]
  BY <1>4, <1>6
<1>8. n \in Nat /\ n = Len(f.layer)
  BY <1>4
<1>9. KvOk(model, k2)
  BY <1>2, <1>7, <1>8 DEF KvOk
<1>10. kv.bidirectional = FALSE
  <2>1. kv.bidirectional \in BOOLEAN
    BY <1>2 DEF KvOk
  <2>2. kv.bidirectional => ~pass.keeps
    BY <1>2 DEF PassOk
  <2>. QED
    BY <2>1, <2>2
<1>11. f = FedOf(model, pass, abs)
  OBVIOUS
<1> HIDE DEF f
<1>12. Inv(model, k2, NoPass, u, f) /\ CutOk(text, n, u)
  BY <1>1, <1>7, <1>8, <1>9, <1>11, AdvanceInv DEF Now
<1>. QED
  BY <1>5, <1>7, <1>8, <1>9, <1>10, <1>12

\* A prefix of a text that is all of it.
LEMMA CutAll ==
    ASSUME NEW t, NEW n, NEW u, CutOk(t, n, u), Len(t) = n, IsSeq(t)
    PROVE  u = t
BY SameSeq DEF CutOk

\* The end of a pass.
LEMMA FinishKeeps ==
    ASSUME Now, Finish
    PROVE  Now' /\ (pass.rest # <<>> => pass'.next # 0)
<1> DEFINE n == pass.start + Len(pass.items)
           u == SubSeq(text, 1, n)
           q == Chunk(pass.rest, pass.size, n)
<1>1. /\ pass.next = Len(model.blocks) + 1 /\ pass.next # 0 /\ model \in Networks
      /\ model' = model /\ text' = text
      /\ pass' = IF pass.rest # <<>> THEN q ELSE NoPass
  <2>1. model \in Networks /\ pass.next = Len(model.blocks) + 1
    BY DEF Now, Inv, Finish, NumLayers
  <2>2. Len(model.blocks) \in Nat
    BY <2>1, NetFacts
  <2>. QED
    BY <2>1, <2>2 DEF Finish
<1>2. PassOk(model, kv, pass, text) /\ TextOk(text) /\ CopyOk(model, text, abs) /\ abs.seq_len = kv.seq_len
  BY <1>1 DEF Now, Inv
<1>3. /\ Len(pass.rest) \in Nat /\ Len(text) \in Nat /\ pass.start \in Nat /\ Len(pass.items) \in Nat
      /\ n + Len(pass.rest) = Len(text) /\ IsSeq(pass.rest) /\ IsSeq(text)
  <2>1. Going(model, kv, pass, text, abs, FedOf(model, pass, abs))
    BY <1>1, GoingFacts DEF Now
  <2>. QED
    BY <1>2, <2>1 DEF Going, PassOk, Parts
<1>n. n = pass.start + Len(pass.items)
  OBVIOUS
<1>u. u = SubSeq(text, 1, n)
  OBVIOUS
<1> HIDE DEF n, u, q
<1>4. CASE pass.keeps /\ pass.rest = <<>>
  <2>0. pass.keeps = TRUE
    BY <1>2, <1>4 DEF PassOk
  <2>1. Inv(model, kv', NoPass, u, abs') /\ CutOk(text, n, u)
    BY <1>n, <1>u, <2>0, FinishAdvances
  <2>2. Len(text) = n
    <3>1. Len(pass.rest) = 0
      BY <1>4, SmallSeqs
    <3>2. n \in Nat
      BY <1>3, <1>n
    <3>. QED
      BY <1>3, <3>1, <3>2
  <2>3. u = text
    BY <1>3, <2>1, <2>2, CutAll
  <2>. QED
    BY <1>1, <1>4, <2>1, <2>3 DEF Now
<1>5. CASE pass.keeps /\ pass.rest # <<>>
  <2>0. pass.keeps = TRUE
    BY <1>2, <1>5 DEF PassOk
  <2>1. /\ Inv(model, kv', NoPass, u, abs') /\ CutOk(text, n, u) /\ KvOk(model, kv')
        /\ kv'.seq_len = n /\ kv'.bidirectional = FALSE /\ n \in Nat
    BY <1>n, <1>u, <2>0, FinishAdvances
  <2> DEFINE k2 == kv'
             r == pass.rest
             size == pass.size
  <2>2. ChunksFit(model, k2, r, size, n)
    <3>1. /\ ~model.mrope /\ size \in Nat \ {0} /\ Len(text) <= MaxPos
          /\ \A i \in 1 .. Len(r) : r[i] \in Tokens
      BY <1>2, <1>5 DEF PassOk, RestOk
    <3>2. Len(r) # 0
      BY <1>3, <1>5, NoLength
    <3>3. n + Len(r) <= MaxPos
      BY <1>3, <3>1
    <3>. QED
      BY <1>1, <1>3, <2>1, <3>1, <3>2, <3>3 DEF ChunksFit
  <2>3. TextIs(text, r, n)
    <3>1. \A i \in 1 .. Len(r) : text[n + i] = [what |-> <<r[i]>>, pos |-> TextPosition(n + i - 1)]
      BY <1>2 DEF PassOk, Parts, n
    <3>. QED
      BY <1>3, <3>1 DEF TextIs
  <2>4. q = Chunk(r, size, n)
    BY DEF q
  <2> HIDE DEF k2, r, size
  <2>5. PassOk(model, k2, q, text) /\ q.next = 1 /\ In(q) = Embeds(q.items)
    BY <2>2, <2>3, <2>4, ChunkPassOk
  <2> DEFINE c2 == abs'
  <2>6. Inv(model, k2, NoPass, u, c2) /\ KvOk(model, k2) /\ k2.bidirectional = FALSE /\ k2.seq_len = n
    BY <2>1 DEF k2
  <2>7. /\ Len(u) = k2.seq_len /\ IsSeq(text) /\ Len(text) >= Len(u)
        /\ \A i \in 1 .. Len(u) : text[i] = u[i]
        /\ NoImages(text) => NoImages(u)
    BY <1>3, <2>1, <2>6 DEF CutOk
  <2> HIDE DEF c2
  <2>8. Inv(model, k2, q, text, c2)
    BY <1>2, <2>5, <2>6, <2>7, BeginInv
  <2>9. pass' = q /\ pass'.next # 0
    BY <1>1, <1>5, <2>5
  <2>. QED
    BY <1>1, <1>5, <2>8, <2>9 DEF Now, k2, c2
<1>6. CASE ~pass.keeps
  <2>1. pass.start = 0 /\ pass.rest = <<>>
    BY <1>2, <1>6 DEF PassOk
  <2>2. kv' = FreshOf(model) /\ abs' = abs
    BY <1>6, ModelNames DEF Finish
  <2>3. abs = Cache!Empty
    <3>1. kv.seq_len = 0
      BY <1>2, <2>1 DEF PassOk, Parts
    <3>. QED
      BY <1>2, <3>1 DEF CopyOk
  <2> DEFINE k2 == FreshOf(model)
  <2>4. Inv(model, k2, NoPass, text, Cache!Empty)
    BY <1>1, <1>2, FreshInv
  <2> HIDE DEF k2
  <2>5. kv' = k2
    BY <2>2 DEF k2
  <2>. QED
    BY <1>1, <2>1, <2>2, <2>3, <2>4, <2>5 DEF Now
<1>. QED
  BY <1>4, <1>5, <1>6

---------------------------------------------------------------------------
(* Truncation *)

\* The cache of KvCache, cut.
Cutted(c, n, f) ==
    /\ f = [layer |-> f.layer, flat |-> f.flat, state |-> c.state, seq_len |-> n,
            text_pos |-> f.text_pos]
    /\ IsSeq(f.layer) /\ Len(f.layer) = n /\ \A j \in 1 .. n : f.layer[j] = c.layer[j]
    /\ f.text_pos = Cache!Max({0, c.text_pos - (c.seq_len - n)})
    /\ f.seq_len = n /\ f.state = c.state

\* TruncateKv of KvCache cuts it so.
LEMMA CutCopyFields ==
    ASSUME NEW m, NEW t, NEW c, CopyOk(m, t, c), NEW n \in Nat, c.seq_len \in Nat, c.seq_len > n,
           NEW f, f = Cache!TruncateKv(c, n)
    PROVE  Cutted(c, n, f)
<1> DEFINE la == Cache!Shorten(c.layer, n)
           fl == Cache!Shorten(c.flat, n)
           z == Cache!Max({0, c.text_pos - (c.seq_len - n)})
<1>1. /\ c = [layer |-> c.layer, flat |-> c.flat, state |-> c.state, seq_len |-> c.seq_len,
              text_pos |-> c.text_pos]
      /\ IsSeq(c.layer) /\ Len(c.layer) = c.seq_len
  BY DEF CopyOk
<1>2. IsSeq(la) /\ Len(la) = n /\ \A j \in 1 .. n : la[j] = c.layer[j]
  <2>1. /\ IsSeq(la) /\ Len(la) = IF n <= Len(c.layer) THEN n ELSE Len(c.layer)
        /\ \A j \in 1 .. Len(la) : la[j] = c.layer[j]
    BY <1>1, ShortenFacts
  <2> HIDE DEF la
  <2>2. n <= Len(c.layer)
    BY <1>1
  <2>3. Len(la) = n
    BY <2>1, <2>2
  <2>. QED
    BY <2>1, <2>3
<1>3. f = [c EXCEPT !.layer = la, !.flat = fl, !.seq_len = n, !.text_pos = z]
  <2>1. Cache!TruncateKv(c, n)
          = [c EXCEPT !.layer = Cache!Shorten(@, n), !.flat = Cache!Shorten(@, n), !.seq_len = n,
                      !.text_pos = Cache!Max({0, @ - (c.seq_len - n)})]
    BY DEF Cache!TruncateKv
  <2>2. [c EXCEPT !.layer = Cache!Shorten(@, n), !.flat = Cache!Shorten(@, n), !.seq_len = n,
                      !.text_pos = Cache!Max({0, @ - (c.seq_len - n)})]
          = [c EXCEPT !.layer = la, !.flat = fl, !.seq_len = n, !.text_pos = z]
    BY <1>1
  <2>. QED
    BY <2>1, <2>2
<1> HIDE DEF la, fl, z
<1>4. f = [layer |-> la, flat |-> fl, state |-> c.state, seq_len |-> n, text_pos |-> z]
  BY ONLY <1>1, <1>3
<1>5. f.layer = la /\ f.flat = fl /\ f.state = c.state /\ f.seq_len = n /\ f.text_pos = z
  BY ONLY <1>4
<1>. QED
  BY <1>2, <1>4, <1>5 DEF Cutted, z

\* It is that of the text that is left, with a state that is ahead of it.
LEMMA CutCopy ==
    ASSUME NEW m \in Networks, NEW t, NEW c, CopyOk(m, t, c), NEW n \in Nat \ {0},
           c.seq_len \in Nat, c.seq_len > n, NEW u, CutOk(t, n, u), NEW f, Cutted(c, n, f)
    PROVE  /\ CopyOk(m, u, f)
           /\ NoImages(u) /\ AbsOf(m).recurrent # "none" => ~Current(f)
<1>1. /\ IsSeq(c.layer) /\ IsSeq(c.state) /\ Len(c.layer) = c.seq_len
      /\ \A j \in 1 .. c.seq_len : c.layer[j].sound => \A i \in 1 .. j : c.layer[i].sound
      /\ NoImages(t) =>
          /\ \A j \in 1 .. c.seq_len : c.layer[j].tok = t[j].what[1] /\ c.layer[j].pos = j - 1
          /\ m.mrope => c.text_pos = c.seq_len
          /\ Ahead(m, c)
  BY DEF CopyOk
<1>2. /\ f = [layer |-> f.layer, flat |-> f.flat, state |-> f.state, seq_len |-> f.seq_len,
              text_pos |-> f.text_pos]
      /\ IsSeq(f.layer) /\ Len(f.layer) = n /\ \A j \in 1 .. n : f.layer[j] = c.layer[j]
      /\ f.text_pos = Cache!Max({0, c.text_pos - (c.seq_len - n)})
      /\ f.seq_len = n /\ f.state = c.state
  BY DEF Cutted
<1>3. (\A i \in 1 .. n : u[i] = t[i]) /\ (NoImages(u) <=> NoImages(t))
  BY DEF CutOk
<1>4. \A j \in 1 .. n : j \in 1 .. c.seq_len
  OBVIOUS
<1>5. \A j \in 1 .. n : f.layer[j].sound => \A i \in 1 .. j : f.layer[i].sound
  <2> SUFFICES ASSUME NEW j \in 1 .. n, f.layer[j].sound, NEW i \in 1 .. j PROVE f.layer[i].sound
    OBVIOUS
  <2>1. c.layer[j].sound
    BY <1>2
  <2>2. c.layer[i].sound
    BY <1>1, <1>4, <2>1
  <2>3. i \in 1 .. n
    OBVIOUS
  <2>. QED
    BY <1>2, <2>2, <2>3
<1>6. ASSUME NoImages(u)
      PROVE  /\ \A j \in 1 .. n : f.layer[j].tok = u[j].what[1] /\ f.layer[j].pos = j - 1
             /\ m.mrope => f.text_pos = n
             /\ AbsOf(m).recurrent # "none" =>
                  /\ Len(f.state) > 0 /\ f.state[Len(f.state)].pos \in Nat
                  /\ f.state[Len(f.state)].pos > n - 1
  <2>1. /\ \A j \in 1 .. c.seq_len : c.layer[j].tok = t[j].what[1] /\ c.layer[j].pos = j - 1
        /\ m.mrope => c.text_pos = c.seq_len
        /\ Ahead(m, c)
    BY <1>1, <1>3, <1>6
  <2>2. \A j \in 1 .. n : f.layer[j].tok = u[j].what[1] /\ f.layer[j].pos = j - 1
    BY <1>2, <1>3, <1>4, <2>1
  <2>3. ASSUME m.mrope PROVE f.text_pos = n
    <3> DEFINE h == c.seq_len
               d == h - (h - n)
               z == 0
    <3>1. d = n /\ d \in Int /\ z \in Int /\ z <= d
      OBVIOUS
    <3>2. f.text_pos = Cache!Max({z, d})
      BY <1>2, <2>1, <2>3
    <3> HIDE DEF d, z
    <3>3. Cache!Max({z, d}) = IF z <= d THEN d ELSE z
      BY <3>1, MaxTwo
    <3>. QED
      BY <3>1, <3>2, <3>3
  <2>4. ASSUME AbsOf(m).recurrent # "none"
        PROVE  /\ Len(f.state) > 0 /\ f.state[Len(f.state)].pos \in Nat
               /\ f.state[Len(f.state)].pos > n - 1
    <3> DEFINE s == c.state
               e == s[Len(s)].pos
               h == c.seq_len
    <3>1. Len(s) > 0 /\ e \in Nat /\ e >= h - 1 /\ h \in Nat /\ h > n /\ f.state = s
      BY <1>2, <2>1, <2>4 DEF Ahead
    <3> HIDE DEF e, h
    <3>2. e > n - 1
      BY <3>1
    <3>. QED
      BY <3>1, <3>2 DEF e
  <2>. QED
    BY <2>2, <2>3, <2>4
<1>7. NoImages(u) => Ahead(m, f)
  <2> SUFFICES ASSUME NoImages(u), AbsOf(m).recurrent # "none"
               PROVE  /\ Len(f.state) > 0
                      /\ f.state[Len(f.state)].pos \in Nat
                      /\ f.state[Len(f.state)].pos >= f.seq_len - 1
    BY DEF Ahead
  <2> DEFINE e == f.state[Len(f.state)].pos
  <2>1. Len(f.state) > 0 /\ e \in Nat /\ e > n - 1 /\ f.seq_len = n
    BY <1>2, <1>6
  <2> HIDE DEF e
  <2>2. e >= n - 1
    BY <2>1
  <2>. QED
    BY <2>1, <2>2 DEF e
<1>8. CopyOk(m, u, f)
  BY <1>1, <1>2, <1>5, <1>6, <1>7 DEF CopyOk
<1>9. ASSUME NoImages(u), AbsOf(m).recurrent # "none" PROVE ~Current(f)
  <2> DEFINE e == f.state[Len(f.state)].pos
  <2>1. e \in Nat /\ e > n - 1 /\ Len(f.layer) = n
    BY <1>2, <1>6, <1>9
  <2> HIDE DEF e
  <2>2. e # Len(f.layer) - 1
    BY <2>1
  <2>. QED
    BY <2>2 DEF Current, e
<1>. QED
  BY <1>8, <1>9

\* The caches of all layers, cut.
CutTo(m, k, n, z) ==
    [k EXCEPT !.data = [l \in Places(m) |-> SubSeq(@[l], 1, Min({n, Len(@[l])}))],
              !.seq_len = n, !.text_pos = z]
CutKvOk(m, k, n, z, k2) ==
    /\ KvOk(m, k2) /\ k2.state = k.state /\ k2.seq_len = n /\ k2.text_pos = z
    /\ k2.bidirectional = k.bidirectional
    /\ \A l \in Places(m) : Len(k.data[l]) \in Nat
    /\ \A l \in Places(m) : Len(k.data[l]) >= n =>
           Len(k2.data[l]) = n /\ \A j \in 1 .. n : k2.data[l][j] = k.data[l][j]

\* What is cut is the first of what there was.
LEMMA CutKv ==
    ASSUME NEW m \in Networks, NEW k, KvOk(m, k), NEW n \in Nat, NEW z,
           NEW k2, k2 = CutTo(m, k, n, z)
    PROVE  CutKvOk(m, k, n, z, k2)
<1> DEFINE D == [l \in Places(m) |-> SubSeq(k.data[l], 1, Min({n, Len(k.data[l])}))]
<1>1. /\ k = [data |-> k.data, state |-> k.state, seq_len |-> k.seq_len,
              text_pos |-> k.text_pos, bidirectional |-> k.bidirectional]
      /\ \A l \in Places(m) : IsSeq(k.data[l]) /\ IsSeq(k.state[l])
      /\ k.state = [l \in Places(m) |-> k.state[l]]
      /\ \A l \in Places(m) : m.blocks[l] = "conv" => Len(k.state[l]) = ConvLCache
      /\ k.bidirectional \in BOOLEAN
  BY DEF KvOk
<1>2. k2 = [k EXCEPT !.data = D, !.seq_len = n, !.text_pos = z]
  BY DEF CutTo
<1>3. D = [l \in Places(m) |-> D[l]]
  OBVIOUS
<1>4. ASSUME NEW l \in Places(m)
      PROVE  /\ IsSeq(D[l]) /\ Len(k.data[l]) \in Nat
             /\ Len(k.data[l]) >= n =>
                    Len(D[l]) = n /\ \A j \in 1 .. n : D[l][j] = k.data[l][j]
  <2> DEFINE s == k.data[l]
             h == Len(s)
             e == IF n <= h THEN n ELSE h
  <2>1. IsSeq(s) /\ h \in Nat
    BY <1>1, SeqFacts
  <2>2. D[l] = SubSeq(s, 1, Min({n, h}))
    OBVIOUS
  <2>3. h = Len(s)
    OBVIOUS
  <2> HIDE DEF D, s, h
  <2>4. Min({n, h}) = e
    BY <2>1, MinTwo
  <2>5. e \in 0 .. h /\ (h >= n => e = n)
    BY <2>1
  <2> HIDE DEF e
  <2>6. IsSeq(SubSeq(s, 1, e)) /\ Len(SubSeq(s, 1, e)) = e /\ \A i \in 1 .. e : SubSeq(s, 1, e)[i] = s[i]
    BY <2>1, <2>3, <2>5, FirstFacts
  <2>7. D[l] = SubSeq(s, 1, e)
    BY <2>2, <2>4
  <2>. QED
    BY <2>1, <2>3, <2>5, <2>6, <2>7 DEF s
<1> HIDE DEF D
<1>5. k2 = [data |-> D, state |-> k.state, seq_len |-> n, text_pos |-> z,
            bidirectional |-> k.bidirectional]
  BY ONLY <1>1, <1>2
<1>6. /\ k2.data = D /\ k2.state = k.state /\ k2.seq_len = n /\ k2.text_pos = z
      /\ k2.bidirectional = k.bidirectional
      /\ k2 = [data |-> k2.data, state |-> k2.state, seq_len |-> k2.seq_len,
               text_pos |-> k2.text_pos, bidirectional |-> k2.bidirectional]
  BY ONLY <1>5
<1>7. KvOk(m, k2)
  <2>1. k2.data = [l \in Places(m) |-> k2.data[l]] /\ k2.state = [l \in Places(m) |-> k2.state[l]]
    BY <1>1, <1>3, <1>6
  <2>2. \A l \in Places(m) : IsSeq(k2.data[l]) /\ IsSeq(k2.state[l])
    BY <1>1, <1>4, <1>6
  <2>3. \A l \in Places(m) : m.blocks[l] = "conv" => Len(k2.state[l]) = ConvLCache
    BY <1>1, <1>6
  <2>4. k2.seq_len \in Nat
    BY <1>6
  <2>5. k2.bidirectional \in BOOLEAN
    BY <1>1, <1>6
  <2>. QED
    BY ONLY <1>6, <2>1, <2>2, <2>3, <2>4, <2>5 DEF KvOk
<1>. QED
  BY <1>4, <1>6, <1>7 DEF CutKvOk

\* Truncation keeps the invariant.
LEMMA TruncateKvKeeps ==
    ASSUME Now, NEW n \in 1 .. MaxText, TruncateKv(n)
    PROVE  Now'
<1> DEFINE p0 == NoPass
           m == model
           t == text
           k == kv
           c == abs
           u == SubSeq(t, 1, n)
           z == Max({0, k.text_pos - (k.seq_len - n)})
<1>0. p0.next = 0 /\ p0.keeps = TRUE
  BY DEF NoPass
<1>1. /\ Used /\ Idle /\ k.seq_len > n /\ \A i \in n + 1 .. Len(t) : ~IsImage(t[i].what)
      /\ model' = m /\ pass' = pass /\ text' = u /\ abs' = Cache!TruncateKv(c, n)
  <2>1. Used /\ Idle /\ k.seq_len > n /\ model' = m /\ pass' = pass /\ text' = u
        /\ abs' = Cache!TruncateKv(c, n)
    BY DEF TruncateKv, Used
  <2>. QED
    BY <2>1 DEF TruncateKv
<1>2. /\ m \in Networks /\ pass = p0 /\ Inv(m, k, p0, t, c) /\ TextOk(t) /\ IsSeq(t) /\ Len(t) \in Nat
      /\ KvOk(m, k) /\ k.bidirectional = FALSE /\ Len(t) = k.seq_len
      /\ (m.mrope => k.text_pos = Count(t))
  BY <1>1, IdleFacts
<1>3. n \in Nat \ {0} /\ n \in 0 .. Len(t) /\ k.seq_len \in Nat
  BY <1>1, <1>2, PassAssumption
<1>4. /\ CopyOk(m, t, c) /\ c.seq_len = k.seq_len
      /\ DataOk(m, k, p0, t, c) /\ StateOk(m, k, p0, t, c) /\ FirstOk(m, k, p0, t, c)
  BY <1>2 DEF Inv
<1>5. CutOk(t, n, u)
  <2>1. IsCut(t, n, u)
    BY <1>1, <1>3 DEF IsCut
  <2> HIDE DEF u
  <2>. QED
    BY <1>2, <2>1, CutFacts
<1> DEFINE f == abs'
           k2 == kv'
<1>6. Cutted(c, n, f)
  <2>1. f = Cache!TruncateKv(c, n) /\ c.seq_len \in Nat /\ c.seq_len > n /\ n \in Nat
    BY <1>1, <1>3, <1>4
  <2> HIDE DEF f
  <2>. QED
    BY <1>4, <2>1, CutCopyFields
<1> HIDE DEF f
<1>7. CopyOk(m, u, f) /\ (NoImages(u) /\ AbsOf(m).recurrent # "none" => ~Current(f))
  <2>1. c.seq_len \in Nat /\ c.seq_len > n
    BY <1>1, <1>3, <1>4
  <2> HIDE DEF u, c, t
  <2>. QED
    BY <1>2, <1>3, <1>4, <1>5, <1>6, <2>1, CutCopy
<1>8. /\ f.seq_len = n /\ f.state = c.state /\ Len(f.layer) = n
      /\ \A j \in 1 .. n : f.layer[j] = c.layer[j]
  BY <1>6 DEF Cutted
<1>9. /\ KvOk(m, k2) /\ k2.state = k.state /\ k2.seq_len = n /\ k2.text_pos = z
      /\ k2.bidirectional = k.bidirectional
      /\ \A l \in Places(m) : Len(k.data[l]) \in Nat
      /\ \A l \in Places(m) : Len(k.data[l]) >= n =>
             Len(k2.data[l]) = n /\ \A j \in 1 .. n : k2.data[l][j] = k.data[l][j]
  <2>1. k2 = CutTo(m, k, n, z)
    <3>1. k = [data |-> k.data, state |-> k.state, seq_len |-> k.seq_len,
               text_pos |-> k.text_pos, bidirectional |-> k.bidirectional]
      BY <1>2 DEF KvOk
    <3>2. kv' = [kv EXCEPT !.data = [l \in Layers |-> SubSeq(@[l], 1, Min({n, Len(@[l])}))],
                        !.seq_len = n,
                        !.text_pos = Max({0, @ - (kv.seq_len - n)})]
      BY DEF TruncateKv
    <3>3. Layers = Places(m)
      BY ModelNames
    <3>. QED
      BY <3>1, <3>2, <3>3 DEF CutTo
  <2> HIDE DEF k2, k, z
  <2>2. CutKvOk(m, k, n, z, k2)
    BY <1>2, <1>3, <2>1, CutKv
  <2>. QED
    BY <2>2 DEF CutKvOk
<1> HIDE DEF k2, u
<1>10. IdleOk(m, k2, u)
  <2>1. Len(u) = n /\ Count(t) = Count(u) + (Len(t) - n) /\ IsSeq(u)
    BY <1>5 DEF CutOk
  <2>2. ASSUME m.mrope PROVE k2.text_pos = Count(u)
    <3> DEFINE e == Count(u)
               d == k.text_pos - (k.seq_len - n)
               h == Len(t)
               nil == 0
    <3>1. e \in Nat
      BY <2>1, CountFacts
    <3>2. k.text_pos = e + (h - n) /\ k.seq_len = h /\ h \in Nat
      BY <1>2, <2>1, <2>2
    <3>3. k2.text_pos = Max({nil, d})
      BY <1>9
    <3> HIDE DEF e, h
    <3>4. d = e /\ d \in Int /\ nil \in Int /\ nil <= d
      BY <1>3, <3>1, <3>2
    <3> HIDE DEF d, nil
    <3>5. Max({nil, d}) = IF nil <= d THEN d ELSE nil
      BY <3>4, MaxTwo
    <3>. QED
      BY <3>3, <3>4, <3>5 DEF e
  <2>. QED
    BY <1>2, <1>3, <1>9, <2>1, <2>2 DEF IdleOk
<1>11. CutRows(m, k, p0, t, k2, u, n)
  BY <1>0, <1>2, <1>5, <1>9, CutSame
<1>12. NoImages(u) <=> NoImages(t)
  BY <1>5 DEF CutOk
<1>13. \A x : FedOf(m, p0, x) = x
  BY <1>0 DEF FedOf
<1>14. \A l \in Places(m) : \A x : CacheAt(m, p0, x, l) = x
  BY <1>0, <1>2, NetFacts DEF CacheAt
<1>15. CutGood(m, p0, t, c, u, f, n)
  <2>1. FedOf(m, p0, f) = f /\ FedOf(m, p0, c) = c
    BY <1>13
  <2> SUFFICES ASSUME NEW j \in 1 .. n, Good(m, p0, u, f, j) PROVE Good(m, p0, t, c, j)
    BY DEF CutGood, p0
  <2>2. f.layer[j] = c.layer[j]
    BY <1>8
  <2>. QED
    BY <1>12, <2>1, <2>2 DEF Good
<1>16. DataOk(m, k2, p0, u, f)
  <2>1. ASSUME NEW l \in Places(m), m.blocks[l] = "attn"
        PROVE  /\ Len(k2.data[l]) = n /\ Len(k.data[l]) >= n /\ Len(k.data[l]) \in Nat
               /\ \A j \in 1 .. n : k2.data[l][j] = k.data[l][j]
    <3>1. Len(k.data[l]) = k.seq_len + Given(p0, l)
      BY <1>4, <2>1 DEF DataOk
    <3>2. Given(p0, l) = 0
      BY <1>0, <1>2, NetFacts DEF Given
    <3>3. Len(k.data[l]) >= n
      BY <1>1, <1>3, <3>1, <3>2
    <3>. QED
      BY <1>9, <3>3
  <2>2. CutCache(m, k, k2, n)
    BY <2>1 DEF CutCache
  <2> HIDE DEF k, c, t, m, p0
  <2>. QED
    BY <1>0, <1>2, <1>4, <1>5, <1>9, <1>11, <1>15, <2>2, CutData DEF p0
<1>17. StateOk(m, k2, p0, u, f)
  <2> SUFFICES ASSUME NEW l \in Places(m), m.blocks[l] # "attn"
               PROVE  NoImages(u) => ~Current(f)
    BY <1>3, <1>9, <1>14 DEF StateOk
  <2>1. m.blocks[l] \in {"conv", "deltanet"}
    BY <1>2, NetFacts DEF Blocks
  <2>2. AbsOf(m).recurrent # "none"
    BY <1>2, <2>1, KindFacts
  <2>. QED
    BY <1>7, <2>2
<1>18. FirstOk(m, k2, p0, u, f)
  <2>1. 1 \in Places(m)
    BY <1>2, NetFacts
  <2>2. Seen(f) = Seen(c)
    BY <1>8 DEF Seen
  <2>. QED
    BY <1>4, <1>9, <1>12, <1>14, <2>1, <2>2 DEF FirstOk
<1>19. TextOk(u) /\ f.seq_len = k2.seq_len
  BY <1>5, <1>8, <1>9 DEF CutOk
<1>20. Inv(m, k2, p0, u, f)
  BY <1>0, <1>2, <1>7, <1>9, <1>10, <1>16, <1>17, <1>18, <1>19 DEF Inv, p0
<1>. QED
  BY <1>1, <1>2, <1>20 DEF Now, k2, f

---------------------------------------------------------------------------
(* The invariant holds in every state *)

\* A text of nothing is one.
LEMMA NoText == TextOk(<<>>)
<1> DEFINE e == <<>>
<1>1. IsSeq(e) /\ Len(e) = 0
  BY SmallSeqs
<1> HIDE DEF e
<1>2. TextOk(e)
  BY <1>1 DEF TextOk
<1>. QED
  BY <1>2 DEF e

\* A cache that is given up.
LEMMA FreshKeeps ==
    ASSUME model \in Networks, kv = FreshCache, pass = NoPass, text = <<>>, abs = Cache!Empty
    PROVE  Now
<1> DEFINE k == FreshOf(model)
           t == <<>>
<1>1. kv = k /\ TextOk(t)
  BY ModelNames, NoText
<1> HIDE DEF k, t
<1>2. Inv(model, k, NoPass, t, Cache!Empty)
  BY <1>1, FreshInv DEF k
<1>3. text = t
  BY DEF t
<1>. QED
  BY <1>1, <1>2, <1>3 DEF Now

\* A layer that fails, and a session that ends.
LEMMA GivenUpKeeps ==
    ASSUME Now, LayerFails \/ Drop
    PROVE  Now'
<1> DEFINE k == FreshOf(model)
           t == <<>>
<1>1. model' = model /\ text' = t /\ abs' = Cache!Empty /\ kv' = k
  BY ModelNames DEF LayerFails, Drop
<1>2. model \in Networks
  BY DEF Now, Inv
<1>3. pass' = NoPass
  <2>1. CASE LayerFails
    BY <2>1 DEF LayerFails
  <2>2. CASE Drop
    <3>1. Idle /\ pass' = pass
      BY <2>2 DEF Drop
    <3>. QED
      BY <3>1, IdleFacts
  <2>. QED
    BY <2>1, <2>2
<1>4. TextOk(t)
  BY NoText
<1> HIDE DEF k, t
<1>5. Inv(model, k, NoPass, t, Cache!Empty)
  BY <1>2, <1>4, FreshInv DEF k
<1>. QED
  BY <1>1, <1>3, <1>5 DEF Now

\* Every step keeps the invariant.
LEMMA NextKeeps ==
    ASSUME Now, [Next]_vars
    PROVE  Now'
<1>1. ASSUME NEW toks \in Texts, NEW size \in 0 .. MaxChunk, Prefill(toks, size) PROVE Now'
  BY <1>1, PrefillKeeps
<1>2. ASSUME NEW toks \in Texts, ContinuePrefill(toks) PROVE Now'
  BY <1>2, ContinuePrefillKeeps
<1>3. ASSUME NEW toks \in Texts, VerifyDraft(toks) PROVE Now'
  BY <1>3, VerifyDraftKeeps
<1>4. ASSUME NEW toks \in Texts, OtherPrefill(toks) PROVE Now'
  BY <1>4, OtherPrefillKeeps
<1>5. ASSUME NEW toks \in Texts, Embedding(toks) PROVE Now'
  BY <1>5, EmbeddingKeeps
<1>6. ASSUME NEW toks \in Texts, NEW bidirectional \in BOOLEAN, EmbedAll(toks, bidirectional)
      PROVE  Now'
  BY <1>6, EmbedAllKeeps
<1>7. ASSUME NEW tok \in Tokens, DecodeNext(tok) PROVE Now'
  BY <1>7, DecodeNextKeeps
<1>8. ASSUME NEW prompt \in Prompts, PrefillVl(prompt) PROVE Now'
  BY <1>8, PrefillVlKeeps
<1>9. CASE LayerStep
  BY <1>9, LayerStepKeeps
<1>10. CASE LayerFails \/ Drop
  BY <1>10, GivenUpKeeps
<1>11. CASE Finish
  BY <1>11, FinishKeeps
<1>12. ASSUME NEW n \in 1 .. MaxText, TruncateKv(n) PROVE Now'
  BY <1>12, TruncateKvKeeps
<1>13. CASE UNCHANGED vars
  BY <1>13 DEF vars, Now
<1>. QED
  BY <1>1, <1>2, <1>3, <1>4, <1>5, <1>6, <1>7, <1>8, <1>9, <1>10, <1>11, <1>12, <1>13 DEF Next

\* For every network, prompt, chunk and bound, the caches of the layers, the pass in
\* progress and the cache KvCache keeps agree, in every state that can be reached.
THEOREM CachesAgree == Spec => []Now
<1>1. Init => Now
  BY FreshKeeps DEF Init
<1>2. Now /\ [Next]_vars => Now'
  BY NextKeeps
<1>. QED
  BY <1>1, <1>2, PTL DEF Spec

---------------------------------------------------------------------------
(* The caches of a model are the cache of KvCache *)

\* What follows the first.
LEMMA TailOne ==
    ASSUME NEW a, NEW s, IsSeq(s)
    PROVE  Tail(<<a>> \o s) = s
<1> DEFINE o == <<a>>
           u == o \o s
           v == Tail(u)
<1>1. IsSeq(o) /\ Len(o) = 1
  BY SmallSeqs
<1>2. Len(s) \in Nat
  BY SeqFacts
<1> HIDE DEF o
<1>3. Joined(o, s, u)
  BY <1>1, JoinOk
<1> HIDE DEF u
<1>4. IsSeq(u) /\ Len(u) = 1 + Len(s) /\ \A i \in 1 .. Len(s) : u[1 + i] = s[i]
  BY <1>1, <1>3 DEF Joined
<1>5. Len(u) # 0 /\ Len(u) - 1 = Len(s)
  BY <1>2, <1>4
<1>6. IsSeq(v) /\ Len(v) = Len(s) /\ \A i \in 1 .. Len(s) : v[i] = u[1 + i]
  <2>1. IsSeq(v) /\ Len(v) = Len(u) - 1 /\ \A i \in 1 .. Len(u) - 1 : v[i] = u[1 + i]
    BY <1>4, <1>5, TailFacts
  <2>. QED
    BY <1>5, <2>1
<1> HIDE DEF v
<1>7. v = s
  BY <1>4, <1>6, SameSeq
<1>. QED
  BY <1>7 DEF v, u, o

\* The entries of an attention layer are where the text is.
LEMMA EntriesAre ==
    ASSUME Now, Idle, kv.seq_len > 0, NoImages(text), NEW l \in Places(model),
           model.blocks[l] = "attn"
    PROVE  [j \in DOMAIN kv.data[l] |-> Tail(kv.data[l][j].of)]
               = [j \in DOMAIN abs.layer |-> TextPosition(abs.layer[j].pos)]
<1> DEFINE p0 == NoPass
           n == kv.seq_len
           d == kv.data[l]
<1>0. p0.next = 0 /\ p0.keeps = TRUE
  BY DEF NoPass
<1>1. /\ model \in Networks /\ Inv(model, kv, p0, text, abs)
      /\ TextOk(text) /\ KvOk(model, kv)
  BY IdleFacts
<1>2. /\ CopyOk(model, text, abs) /\ abs.seq_len = n /\ IdleOk(model, kv, text)
      /\ DataOk(model, kv, p0, text, abs)
  BY <1>0, <1>1 DEF Inv
<1>3. Len(text) = n /\ n \in Nat
  BY <1>1, <1>2 DEF IdleOk, KvOk
<1>4. Given(p0, l) = 0
  BY <1>0, <1>1, NetFacts DEF Given
<1>5. /\ Len(d) = n /\ IsSeq(d) /\ DOMAIN d = 1 .. n
      /\ \A j \in 1 .. n : d[j] = KeyValue(d[j].over[1], Turned(model, text, p0.keeps, l, j))
  <2>1. Len(d) = n + 0 /\ \A j \in 1 .. Len(d) : Entry(model, kv, p0, text, abs, l, j)
    BY <1>2, <1>4 DEF DataOk
  <2>2. Len(d) = n
    BY <1>3, <2>1
  <2>3. IsSeq(d)
    BY <1>1 DEF KvOk
  <2>4. DOMAIN d = 1 .. n
    BY <2>2, <2>3, SeqFacts
  <2>. QED
    BY <2>1, <2>2, <2>3, <2>4 DEF Entry
<1>6. /\ DOMAIN abs.layer = 1 .. n
      /\ \A j \in 1 .. n : abs.layer[j].pos = j - 1
  <2>1. /\ IsSeq(abs.layer) /\ Len(abs.layer) = n
        /\ \A j \in 1 .. n : abs.layer[j].pos = j - 1
    BY <1>2 DEF CopyOk
  <2>. QED
    BY <2>1, SeqFacts
<1>7. ASSUME NEW j \in 1 .. n PROVE Tail(d[j].of) = TextPosition(abs.layer[j].pos)
  <2> DEFINE s == text[j].pos
             a == IF p0.keeps THEN RopeCache(model, l) ELSE 0
             x == d[j].over[1]
  <2>1. j \in 1 .. Len(text)
    BY <1>3
  <2>2. IsSeq(s) /\ s = TextPosition(j - 1)
    BY <1>1, <2>1 DEF TextOk, ItemOk
  <2>3. d[j] = KeyValue(x, <<a>> \o s)
    BY <1>5 DEF Turned
  <2>4. \A y, z : KeyValue(y, z).of = z
    BY DEF KeyValue
  <2> HIDE DEF s, a, x, d
  <2>5. d[j].of = <<a>> \o s
    BY <2>3, <2>4
  <2>6. Tail(d[j].of) = s
    BY <2>2, <2>5, TailOne
  <2>. QED
    BY <1>6, <2>2, <2>6
<1>. QED
  BY <1>5, <1>6, <1>7

\* In every state that keeps the invariant KvCache is implemented.
LEMMA MatchesKvCache ==
    ASSUME Now
    PROVE  ImplementsKvCache
<1>1. model \in Networks /\ DataOk(model, kv, pass, text, abs) /\ FirstOk(model, kv, pass, text, abs)
      /\ CopyOk(model, text, abs) /\ abs.seq_len = kv.seq_len
  BY DEF Now, Inv
<1>2. Layers = Places(model)
  BY ModelNames
<1>3. LayersInStep
  BY <1>1, <1>2 DEF LayersInStep, DataOk, Given
<1>4. ASSUME Idle, kv.seq_len > 0, \A i \in DOMAIN text : ~IsImage(text[i].what)
      PROVE  /\ kv.seq_len = abs.seq_len
             /\ model.mrope => kv.text_pos = abs.text_pos
             /\ \A l \in Layers : model.blocks[l] = "attn" =>
                    [j \in DOMAIN kv.data[l] |-> Tail(kv.data[l][j].of)]
                        = [j \in DOMAIN abs.layer |-> TextPosition(abs.layer[j].pos)]
             /\ CASE model.blocks[1] = "deltanet" ->
                         kv.state[1] = [j \in DOMAIN abs.state |-> Embed(<<abs.state[j].tok>>)]
                  [] model.blocks[1] = "conv" ->
                         kv.state[1] = LastOf([j \in DOMAIN abs.state |->
                                                  Embed(<<abs.state[j].tok>>)], ConvLCache)
                  [] OTHER -> TRUE
  <2>1. /\ IsSeq(text) /\ pass = NoPass /\ IdleOk(model, kv, text)
        /\ Inv(model, kv, NoPass, text, abs)
    <3>1. IsSeq(text) /\ pass = NoPass /\ Inv(model, kv, NoPass, text, abs)
      BY <1>4, IdleFacts
    <3>. QED
      BY <1>4, <3>1 DEF Inv, Idle
  <2>2. NoImages(text)
    BY <1>4, <2>1, SeqFacts DEF NoImages
  <2>3. model.mrope => kv.text_pos = abs.text_pos
    <3>1. model.mrope => kv.text_pos = Count(text)
      BY <1>4, <2>1 DEF IdleOk
    <3>2. Count(text) = Len(text) /\ Len(text) = kv.seq_len
      BY <1>4, <2>1, <2>2, CountAll DEF IdleOk
    <3>3. model.mrope => abs.text_pos = abs.seq_len
      BY <1>1, <2>2 DEF CopyOk
    <3>. QED
      BY <1>1, <3>1, <3>2, <3>3
  <2>4. \A l \in Layers : model.blocks[l] = "attn" =>
             [j \in DOMAIN kv.data[l] |-> Tail(kv.data[l][j].of)]
                 = [j \in DOMAIN abs.layer |-> TextPosition(abs.layer[j].pos)]
    BY <1>2, <1>4, <2>2, EntriesAre
  <2>5. [j \in DOMAIN abs.state |-> Embed(<<abs.state[j].tok>>)] = Seen(abs)
    <3>1. DOMAIN abs.state = 1 .. Len(abs.state)
      BY <1>1, SeqFacts DEF CopyOk
    <3>. QED
      BY <3>1 DEF Seen
  <2>6. StateIs(model, 1, kv.state[1], Seen(abs))
    <3>1. CacheAt(model, pass, abs, 1) = abs
      BY <1>4 DEF CacheAt, Idle
    <3>. QED
      BY <1>1, <2>2, <3>1 DEF FirstOk
  <2>7. CASE model.blocks[1] = "deltanet"
    BY <1>1, <2>3, <2>4, <2>5, <2>6, <2>7 DEF StateIs
  <2>8. CASE model.blocks[1] = "conv"
    BY <1>1, <2>3, <2>4, <2>5, <2>6, <2>8 DEF StateIs
  <2>9. CASE model.blocks[1] # "deltanet" /\ model.blocks[1] # "conv"
    BY <1>1, <2>3, <2>4, <2>9
  <2>. QED
    BY <2>7, <2>8, <2>9
<1>5. SameAsKvCache
  BY <1>4 DEF SameAsKvCache
<1>. QED
  BY <1>3, <1>5 DEF ImplementsKvCache

\* Layer by layer, a pass does to every cache of a model what KvCache does to one, for
\* every network and every sequence of passes, chunks, drafts, truncations and images.
THEOREM PassesImplementKvCache == Spec => []ImplementsKvCache
<1>1. Now => ImplementsKvCache
  BY MatchesKvCache
<1>. QED
  BY <1>1, CachesAgree, PTL

---------------------------------------------------------------------------
(* The rows a pass gives *)

\* The last rows of a pass are in the buffer the next layer would read.
LEMMA ResultIsInput ==
    ASSUME model \in Networks, pass.next = NumLayers + 1
    PROVE  Result(pass) = In(pass)
<1>1. NumLayers \in Nat
  BY NetFacts DEF NumLayers
<1>2. NumLayers % 2 = 0 <=> pass.next % 2 = 1
  BY <1>1
<1>. QED
  BY <1>2 DEF Result, In

\* The last of a sequence are the last of one that ends with it.
LEMMA LastOfEnd ==
    ASSUME NEW s, NEW r, IsSeq(s), IsSeq(r), Len(r) # 0, NEW h \in Nat, Len(s) = h + Len(r),
           \A i \in 1 .. Len(r) : r[i] = s[h + i]
    PROVE  /\ r = LastOf(s, Len(r))
           /\ <<Last(r)>> = LastOf(s, 1)
<1> DEFINE n == Len(r)
           one == <<Last(r)>>
           few == 1
           v == LastOf(s, n)
           w == LastOf(s, few)
<1>1. n \in Nat \ {0} /\ few \in Nat /\ Len(s) = h + n /\ n \in 1 .. n
  <2>1. Len(r) \in Nat
    BY SeqFacts
  <2>. QED
    BY <2>1
<1>2. /\ IsSeq(v) /\ Len(v) = n
      /\ \A i \in 1 .. n : v[i] = IF Len(s) - n + i > 0 THEN s[Len(s) - n + i] ELSE Zero
  BY <1>1, LastOfFacts
<1>3. /\ IsSeq(w) /\ Len(w) = few
      /\ \A i \in 1 .. few : w[i] = IF Len(s) - few + i > 0 THEN s[Len(s) - few + i] ELSE Zero
  <2> HIDE DEF few
  <2>. QED
    BY <1>1, LastOfFacts
<1>4. IsSeq(one) /\ Len(one) = 1 /\ one[1] = r[n]
  <2> DEFINE e == r[n]
  <2>1. one = <<e>>
    BY DEF Last
  <2>2. IsSeq(<<e>>) /\ Len(<<e>>) = 1 /\ <<e>>[1] = e
    BY SmallSeqs
  <2> HIDE DEF one, e
  <2>3. IsSeq(one) /\ Len(one) = 1 /\ one[1] = e
    BY <2>1, <2>2
  <2>. QED
    BY <2>3 DEF e
<1>5. few = 1 /\ n = Len(r)
  OBVIOUS
<1> HIDE DEF n, one, v, w, few
<1>6. ASSUME NEW i \in 1 .. n PROVE v[i] = r[i]
  <2>1. Len(s) - n + i = h + i /\ h + i > 0
    BY <1>1
  <2>2. v[i] = s[h + i]
    BY <1>2, <2>1
  <2>. QED
    BY <1>5, <2>2
<1>7. v = r
  BY <1>2, <1>5, <1>6, SameSeq
<1>8. w = one
  <2>1. Len(s) - few + 1 = h + n /\ h + n > 0 /\ 1 \in 1 .. few
    BY <1>1, <1>5
  <2>2. w[1] = s[h + n]
    BY <1>3, <2>1
  <2>3. w[1] = one[1]
    BY <1>1, <1>4, <1>5, <2>2
  <2>4. Len(w) = Len(one) /\ \A i \in 1 .. Len(w) : w[i] = one[i]
    BY <1>3, <1>4, <1>5, <2>3
  <2>. QED
    BY <1>3, <1>4, <2>4, SameSeq
<1>. QED
  BY <1>5, <1>7, <1>8 DEF v, w, one, n, few

\* At the end of a pass that leaves nothing to do, where its last row is sound, its
\* rows are those from scratch over the whole text.
LEMMA FinishRows ==
    ASSUME Now, Finish, pass.rest = <<>>, Sound'
    PROVE  out'.rows = LastOf(Scratch(model, text, out'.bidirectional, out'.keeps)[NumLayers],
                              Len(out'.rows))
<1> DEFINE f == FedOf(model, pass, abs)
           rows == Result(pass)
           n == Len(pass.items)
           h == pass.start
           N == NumLayers
           bi == kv.bidirectional
           ke == pass.keeps
           s == Scratch(model, text, bi, ke)[N]
<1>1. /\ pass.next = N + 1 /\ pass.next # 0 /\ model \in Networks /\ N \in Nat
      /\ out'.rows = IF pass.all THEN rows ELSE <<Last(rows)>>
      /\ out'.keeps = ke /\ out'.bidirectional = bi
      /\ model' = model /\ text' = text
  <2>1. model \in Networks
    BY DEF Now, Inv
  <2>2. N \in Nat
    BY <2>1, NetFacts DEF NumLayers
  <2>3. out' = [rows |-> IF pass.all THEN rows ELSE <<Last(rows)>>,
                keeps |-> ke, bidirectional |-> bi]
        /\ pass.next = N + 1 /\ model' = model /\ text' = text
    BY DEF Finish
  <2> HIDE DEF rows, ke, bi, N
  <2>4. /\ out'.rows = IF pass.all THEN rows ELSE <<Last(rows)>>
        /\ out'.keeps = ke /\ out'.bidirectional = bi
    BY <2>3
  <2>5. pass.next # 0
    BY <2>2, <2>3
  <2>. QED
    BY <2>1, <2>2, <2>3, <2>4, <2>5
<1>2. /\ Going(model, kv, pass, text, abs, f) /\ InputOk(model, kv, pass, text, abs)
      /\ PassOk(model, kv, pass, text)
  BY <1>1, GoingFacts DEF Now, Inv
<1>3. /\ n \in Nat \ {0} /\ h \in Nat /\ IsSeq(text) /\ Len(text) = h + n
      /\ Len(f.layer) = h + n
  <2>1. Len(pass.rest) = 0
    BY SmallSeqs
  <2>2. /\ n \in Nat \ {0} /\ h \in Nat /\ IsSeq(text) /\ h + n + Len(pass.rest) = Len(text)
        /\ Len(f.layer) = h + n
    BY <1>2 DEF Going
  <2> HIDE DEF n, h, f
  <2>3. h + n + 0 = Len(text)
    BY <2>1, <2>2
  <2>4. Len(text) = h + n
    BY <2>2, <2>3
  <2>. QED
    BY <2>2, <2>4
<1>4. rows = In(pass) /\ IsSeq(rows) /\ Len(rows) = n
  <2>1. rows = In(pass)
    BY <1>1, ResultIsInput
  <2>. QED
    BY <1>2, <2>1 DEF InputOk
<1>5. IsSeq(s) /\ Len(s) = Len(text)
  <2>1. N \in 0 .. Len(model.blocks)
    BY <1>1 DEF NumLayers
  <2> HIDE DEF bi, ke, N
  <2>. QED
    BY <1>1, <1>3, <2>1, ScratchShape
<1>6. Good(model, pass, text, abs, h + n)
  <2>1. CASE ~pass.keeps
    BY <2>1 DEF Good
  <2>2. CASE pass.keeps /\ \A l \in Layers : model.blocks[l] = "attn"
    BY <2>2, ModelNames DEF Good, AllAttention
  <2>3. CASE pass.keeps /\ (\A i \in DOMAIN text : ~IsImage(text[i].what)) /\ Last(abs'.layer).sound
    <3>1. NoImages(text)
      BY <1>3, <2>3, SeqFacts DEF NoImages
    <3>2. abs' = f
      <4>1. abs' = Cache!Feed(AbsModel, abs, [i \in 1 .. Len(pass.items) |-> pass.items[i].what[1]],
                              pass.form # "decode")
        BY <2>3 DEF Finish
      <4>2. [i \in 1 .. Len(pass.items) |-> pass.items[i].what[1]] = ToksOf(pass.items)
        BY DEF ToksOf
      <4>. QED
        BY <1>1, <4>1, <4>2, ModelNames DEF FedOf
    <3>3. f.layer[h + n].sound
      BY <1>3, <2>3, <3>2 DEF Last
    <3>. QED
      BY <3>1, <3>3 DEF Good
  <2>4. \/ ~out'.keeps
        \/ \A l \in Layers : model.blocks[l] = "attn"
        \/ (\A i \in DOMAIN text : ~IsImage(text[i].what)) /\ Last(abs'.layer).sound
    BY <1>1 DEF Sound, Layers, NumLayers
  <2>. QED
    BY <1>1, <2>1, <2>2, <2>3, <2>4
<1>7. \A i \in 1 .. n : rows[i] = s[h + i]
  <2>1. n \in 1 .. n
    BY <1>3
  <2>2. \A j \in 1 .. h + n : Good(model, pass, text, abs, j)
    BY <1>1, <1>2, <1>6, <2>1, GoodSticky
  <2>3. pass.next - 1 = N
    BY <1>1
  <2>4. R(model, kv, pass, text)[N] = s
    BY DEF R
  <2> SUFFICES ASSUME NEW i \in 1 .. n PROVE rows[i] = s[h + i]
    OBVIOUS
  <2>5. h + i \in 1 .. h + n
    BY <1>3
  <2>6. In(pass)[i] = R(model, kv, pass, text)[pass.next - 1][h + i]
    BY <1>2, <2>2, <2>5 DEF InputOk
  <2>. QED
    BY <1>4, <2>3, <2>4, <2>6
<1> HIDE DEF s, rows, h, f
<1>8. rows = LastOf(s, Len(rows)) /\ <<Last(rows)>> = LastOf(s, 1)
  <2>1. Len(rows) # 0 /\ Len(s) = h + Len(rows) /\ \A i \in 1 .. Len(rows) : rows[i] = s[h + i]
    BY <1>3, <1>4, <1>5, <1>7
  <2>. QED
    BY <1>3, <1>4, <1>5, <2>1, LastOfEnd
<1>9. Len(<<Last(rows)>>) = 1
  BY SmallSeqs
<1>10. out'.rows = LastOf(s, Len(out'.rows))
  BY <1>1, <1>8, <1>9
<1>. QED
  BY <1>1, <1>10 DEF s

\* The rows of a pass that has ended stay those from scratch until the next begins.
LEMMA RowsKeep ==
    ASSUME Now, RowsFromScratch, [Next]_vars
    PROVE  RowsFromScratch'
<1>1. ASSUME out' = <<>> PROVE RowsFromScratch'
  BY <1>1 DEF RowsFromScratch
<1>2. ASSUME NEW p, NEW more, Begin(p, more) PROVE RowsFromScratch'
  BY <1>1, <1>2 DEF Begin
<1>3. ASSUME NEW toks \in Texts, NEW size \in 0 .. MaxChunk, Prefill(toks, size)
      PROVE  RowsFromScratch'
  BY <1>2, <1>3 DEF Prefill
<1>4. ASSUME NEW toks \in Texts, ContinuePrefill(toks) PROVE RowsFromScratch'
  BY <1>2, <1>4 DEF ContinuePrefill
<1>5. ASSUME NEW toks \in Texts, VerifyDraft(toks) PROVE RowsFromScratch'
  BY <1>2, <1>5 DEF VerifyDraft
<1>6. ASSUME NEW toks \in Texts, OtherPrefill(toks) PROVE RowsFromScratch'
  BY <1>2, <1>6 DEF OtherPrefill
<1>7. ASSUME NEW toks \in Texts, Embedding(toks) PROVE RowsFromScratch'
  BY <1>2, <1>7 DEF Embedding
<1>8. ASSUME NEW toks \in Texts, NEW bidirectional \in BOOLEAN, EmbedAll(toks, bidirectional)
      PROVE  RowsFromScratch'
  BY <1>2, <1>8 DEF EmbedAll
<1>9. ASSUME NEW tok \in Tokens, DecodeNext(tok) PROVE RowsFromScratch'
  BY <1>2, <1>9 DEF DecodeNext
<1>10. ASSUME NEW prompt \in Prompts, PrefillVl(prompt) PROVE RowsFromScratch'
  BY <1>2, <1>10 DEF PrefillVl
<1>11. CASE LayerStep
  <2> DEFINE rows == Inject(pass, pass.next, StepOf(pass.next).rows)
  <2>1. PassOk(model, kv, pass, text) /\ pass.next \in Nat
    <3>1. pass.next \in Places(model)
      BY <1>11 DEF LayerStep, Layers, NumLayers, Places
    <3>2. PassOk(model, kv, pass, text)
      BY <3>1, NextLayer
    <3>. QED
      BY <3>1, <3>2 DEF Places
  <2>2. pass' = Wrote(pass, rows)
    BY <1>11 DEF LayerStep, StepOf
  <2> HIDE DEF rows
  <2>3. WroteOk(pass, rows, pass')
    BY <2>1, <2>2, WroteFacts
  <2>4. pass'.next = pass.next + 1
    BY <2>3, WroteFields
  <2>5. pass'.next # 0
    BY <2>1, <2>4
  <2>. QED
    BY <2>5 DEF RowsFromScratch, Idle
<1>12. CASE LayerFails \/ Drop
  BY <1>1, <1>12 DEF LayerFails, Drop
<1>13. CASE Finish
  <2>1. CASE pass.rest # <<>>
    <3>1. pass'.next # 0
      BY <1>13, <2>1, FinishKeeps
    <3>. QED
      BY <3>1 DEF RowsFromScratch, Idle
  <2>2. CASE pass.rest = <<>>
    <3>1. model' = model /\ text' = text
      BY <1>13 DEF Finish
    <3>2. Sound' => out'.rows = LastOf(Scratch(model, text, out'.bidirectional, out'.keeps)[NumLayers],
                                       Len(out'.rows))
      BY <1>13, <2>2, FinishRows
    <3>. QED
      BY <3>1, <3>2 DEF RowsFromScratch, NumLayers
  <2>. QED
    BY <2>1, <2>2
<1>14. ASSUME NEW n \in 1 .. MaxText, TruncateKv(n) PROVE RowsFromScratch'
  BY <1>1, <1>14 DEF TruncateKv
<1>15. CASE UNCHANGED vars
  BY <1>15 DEF vars, RowsFromScratch, Sound, Idle, NumLayers, Layers
<1>. QED
  BY <1>3, <1>4, <1>5, <1>6, <1>7, <1>8, <1>9, <1>10, <1>11, <1>12, <1>13, <1>14, <1>15 DEF Next

\* For every network and every sequence of passes, chunks, drafts, truncations and
\* images: where KvCache calls the last entry sound, and always for an embedding and for
\* a network without recurrent layers, the rows a pass gives are those of all layers
\* computed from scratch over the whole text.
THEOREM RowsAreFromScratch == Spec => []RowsFromScratch
<1>1. Init => Now /\ RowsFromScratch
  BY FreshKeeps DEF Init, RowsFromScratch
<1>2. Now /\ RowsFromScratch /\ [Next]_vars => (Now /\ RowsFromScratch)'
  BY NextKeeps, RowsKeep
<1>. QED
  BY <1>1, <1>2, PTL DEF Spec

=============================================================================
