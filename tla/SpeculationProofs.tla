-------------------------- MODULE SpeculationProofs --------------------------
(***************************************************************************)
(* Proofs about the decode loop, for any prompt, vocabulary, draft length, *)
(* budget and command line: decoding is lossless where it is said to be,   *)
(* the caches of both models stay coherent, and eviction keeps to the      *)
(* budget.  They begin with what the operators of KvCache do.              *)
(***************************************************************************)
EXTENDS Speculation, FiniteSetTheorems, FunctionTheorems, SequenceTheorems,
        WellFoundedInduction, TLAPS

---------------------------------------------------------------------------
(* Induction over the natural numbers, for a set instead of a predicate: the
   library's theorem takes the predicate as a parameter *)

Smaller == {p \in Nat \X Nat : p[1] < p[2]}

\* A set with 0 that has with every number the next one has them all: no number is
\* the smallest that is missing.
LEMMA SetInduction ==
    ASSUME NEW S, 0 \in S, \A n \in Nat : n \in S => n + 1 \in S
    PROVE  \A n \in Nat : n \in S
<1> DEFINE T == {n \in Nat : n \notin S}
<1> SUFFICES ASSUME T # {} PROVE FALSE
  OBVIOUS
<1>1. IsWellFoundedOn(Smaller, Nat)
  BY NatLessThanWellFounded DEF OpToRel, Smaller
<1>2. PICK n \in T : \A k \in T : ~(<<k, n>> \in Smaller)
  BY <1>1, WFMin
<1>3. n # 0 /\ n - 1 \in T
  OBVIOUS
<1>4. <<n - 1, n>> \in Smaller
  BY <1>3 DEF Smaller
<1>. QED
  BY <1>2, <1>3, <1>4

---------------------------------------------------------------------------
(* Small numbers *)

\* The smaller of two numbers, as the code takes it.
LEMMA MinTwo ==
    ASSUME NEW a \in Int, NEW b \in Int
    PROVE  Min({a, b}) = IF a <= b THEN a ELSE b
BY DEF Min

\* The larger of two numbers.
LEMMA MaxTwo ==
    ASSUME NEW a \in Int, NEW b \in Int
    PROVE  Max({a, b}) = IF a <= b THEN b ELSE a
BY DEF Max

\* Cut to a length: nothing is added, and what stays is as it was.
LEMMA ShortenFacts ==
    ASSUME NEW S, NEW s \in Seq(S), NEW n \in Nat
    PROVE  /\ Shorten(s, n) \in Seq(S)
           /\ Len(Shorten(s, n)) = IF n <= Len(s) THEN n ELSE Len(s)
           /\ \A i \in 1 .. Len(Shorten(s, n)) : Shorten(s, n)[i] = s[i]
<1> DEFINE k == IF n <= Len(s) THEN n ELSE Len(s)
<1>1. k \in Nat /\ k <= Len(s) /\ Shorten(s, n) = SubSeq(s, 1, k)
  BY MinTwo DEF Shorten
<1> HIDE DEF k
<1>2. \A i \in 1 .. k : s[i] \in S
  BY <1>1
<1>3. /\ SubSeq(s, 1, k) \in Seq(S)
      /\ Len(SubSeq(s, 1, k)) = IF 1 <= k THEN k - 1 + 1 ELSE 0
      /\ \A i \in 1 .. k - 1 + 1 : SubSeq(s, 1, k)[i] = s[1 + i - 1]
  BY <1>1, <1>2, SubSeqProperties
<1>4. Len(Shorten(s, n)) = k /\ \A i \in 1 .. k : Shorten(s, n)[i] = s[i]
  BY <1>1, <1>3
<1>. QED
  BY <1>1, <1>3, <1>4 DEF k

\* The tokens of entries, or of words that were drawn.
LEMMA TokensFacts ==
    ASSUME NEW S, NEW s \in Seq(S), \A i \in 1 .. Len(s) : s[i].tok \in Nat
    PROVE  /\ TokensOf(s) \in Seq(Nat)
           /\ Len(TokensOf(s)) = Len(s)
           /\ \A i \in 1 .. Len(s) : TokensOf(s)[i] = s[i].tok
BY DEF TokensOf

---------------------------------------------------------------------------
(* A forward pass *)

Pairs == [tok : Nat, pos : Nat, sound : BOOLEAN]

Spots == [tok : Nat, pos : Nat]

Caches == [layer : Seq(Pairs), flat : Seq(Pairs), state : Seq(Spots),
           seq_len : Nat, text_pos : Nat]

\* The tokens of a cache.
LEMMA PairTokens ==
    ASSUME NEW s \in Seq(Pairs)
    PROVE  /\ TokensOf(s) \in Seq(Nat)
           /\ Len(TokensOf(s)) = Len(s)
           /\ \A i \in 1 .. Len(s) : TokensOf(s)[i] = s[i].tok
<1>1. \A e \in Pairs : e.tok \in Nat
  BY DEF Pairs
<1>2. \A i \in 1 .. Len(s) : s[i] \in Pairs
  OBVIOUS
<1>3. \A i \in 1 .. Len(s) : s[i].tok \in Nat
  BY <1>1, <1>2
<1> HIDE DEF Pairs
<1>. QED
  BY <1>3, TokensFacts

\* The entries and counters of cache f are those of c after a pass over toks.
IsFed(x, c, toks, f) ==
    /\ Len(f.layer) = Len(c.layer) + Len(toks)
    /\ \A i \in 1 .. Len(c.layer) : f.layer[i] = c.layer[i]
    /\ \A i \in 1 .. Len(toks) : /\ f.layer[Len(c.layer) + i].tok = toks[i]
                                 /\ f.layer[Len(c.layer) + i].pos = Position(x, c) + i - 1
    /\ f.seq_len = c.seq_len + Len(toks)
    /\ f.text_pos = IF x.mrope THEN c.text_pos + Len(toks) ELSE c.text_pos

\* Whether the i-th of the tokens sees what a computation from scratch would.
RawOf(x, c, toks) ==
    c.layer \o [i \in DOMAIN toks |->
        [tok |-> toks[i], pos |-> Position(x, c) + i - 1, sound |-> FALSE]]

SeenBy(x, c, toks, prefill, i) ==
    IF prefill THEN Shorten(RawOf(x, c, toks), c.seq_len + i) ELSE RawOf(x, c, toks)

GoodAt(x, c, toks, prefill, i) ==
    /\ Len(SeenBy(x, c, toks, prefill, i)) = Len(c.layer) + i
    /\ FromScratch(x, SeenBy(x, c, toks, prefill, i),
                   StateAfter(x, c, SubSeq(toks, 1, i), prefill))

NewOf(x, c, toks, prefill) ==
    [i \in DOMAIN toks |->
        [RawOf(x, c, toks)[Len(c.layer) + i] EXCEPT !.sound =
            /\ \A j \in 1 .. Len(c.layer) : c.layer[j].sound
            /\ \A j \in 1 .. i : GoodAt(x, c, toks, prefill, j)]]

\* A pass, by its parts.
LEMMA FeedParts ==
    ASSUME NEW x, NEW c, NEW toks, NEW prefill
    PROVE  Feed(x, c, toks, prefill) =
             [layer    |-> c.layer \o NewOf(x, c, toks, prefill),
              flat     |-> IF x.bf16 THEN c.flat \o NewOf(x, c, toks, prefill) ELSE c.flat,
              state    |-> StateAfter(x, c, toks, prefill),
              seq_len  |-> c.seq_len + Len(toks),
              text_pos |-> IF x.mrope THEN c.text_pos + Len(toks) ELSE c.text_pos]
BY DEF Feed, NewOf, GoodAt, SeenBy, RawOf

\* The parts of a cache.
LEMMA CacheFacts ==
    ASSUME NEW c \in Caches
    PROVE  /\ c.layer \in Seq(Pairs) /\ Len(c.layer) \in Nat
           /\ c.state \in Seq(Spots) /\ c.seq_len \in Nat /\ c.text_pos \in Nat
BY DEF Caches

\* What is appended, before it is known whether it is sound.
LEMMA RawFacts ==
    ASSUME NEW x \in Models, NEW c \in Caches, NEW toks \in Seq(Nat)
    PROVE  /\ RawOf(x, c, toks) \in Seq(Pairs)
           /\ Len(RawOf(x, c, toks)) = Len(c.layer) + Len(toks)
           /\ \A i \in 1 .. Len(c.layer) : RawOf(x, c, toks)[i] = c.layer[i]
           /\ \A i \in 1 .. Len(toks) :
                RawOf(x, c, toks)[Len(c.layer) + i] =
                    [tok |-> toks[i], pos |-> Position(x, c) + i - 1, sound |-> FALSE]
<1> DEFINE E(i) == [tok |-> toks[i], pos |-> Position(x, c) + i - 1, sound |-> FALSE]
           t == [i \in DOMAIN toks |-> E(i)]
           a == c.layer
<1>1. Position(x, c) \in Nat /\ a \in Seq(Pairs) /\ Len(a) \in Nat /\ DOMAIN toks = 1 .. Len(toks)
  BY DEF Position, Caches, Models
<1>2. \A i \in 1 .. Len(toks) : E(i) \in Pairs
  BY <1>1 DEF Pairs
<1>3. RawOf(x, c, toks) = a \o t
  BY DEF RawOf
<1> HIDE DEF E, a
<1>4. t \in Seq(Pairs) /\ Len(t) = Len(toks) /\ \A i \in 1 .. Len(toks) : t[i] = E(i)
  BY <1>1, <1>2
<1> HIDE DEF t
<1>5. /\ a \o t \in Seq(Pairs)
      /\ Len(a \o t) = Len(a) + Len(t)
      /\ \A i \in 1 .. Len(a) + Len(t) :
           (a \o t)[i] = IF i <= Len(a) THEN a[i] ELSE t[i - Len(a)]
  BY <1>1, <1>4, ConcatProperties
<1>6. ASSUME NEW i \in 1 .. Len(toks)
      PROVE  (a \o t)[Len(a) + i] = E(i)
  <2>1. /\ Len(a) + i \in 1 .. Len(a) + Len(t)
        /\ ~(Len(a) + i <= Len(a)) /\ Len(a) + i - Len(a) = i
    BY <1>1, <1>4
  <2>2. (a \o t)[Len(a) + i] = t[i]
    BY <1>5, <2>1
  <2>. QED
    BY <1>4, <2>2
<1>7. \A i \in 1 .. Len(a) : (a \o t)[i] = a[i]
  BY <1>1, <1>4, <1>5
<1>. QED
  BY <1>3, <1>4, <1>5, <1>6, <1>7 DEF a, E

\* What is appended.
LEMMA NewFacts ==
    ASSUME NEW x \in Models, NEW c \in Caches, NEW toks \in Seq(Nat), NEW prefill \in BOOLEAN
    PROVE  /\ NewOf(x, c, toks, prefill) \in Seq(Pairs)
           /\ Len(NewOf(x, c, toks, prefill)) = Len(toks)
           /\ \A i \in 1 .. Len(toks) :
                /\ NewOf(x, c, toks, prefill)[i].tok = toks[i]
                /\ NewOf(x, c, toks, prefill)[i].pos = Position(x, c) + i - 1
                /\ NewOf(x, c, toks, prefill)[i].sound =
                     /\ \A j \in 1 .. Len(c.layer) : c.layer[j].sound
                     /\ \A j \in 1 .. i : GoodAt(x, c, toks, prefill, j)
<1> DEFINE All(i) == /\ \A j \in 1 .. Len(c.layer) : c.layer[j].sound
                     /\ \A j \in 1 .. i : GoodAt(x, c, toks, prefill, j)
           N == NewOf(x, c, toks, prefill)
<1>1. \A i \in 1 .. Len(toks) : All(i) \in BOOLEAN
  OBVIOUS
<1>2. Position(x, c) \in Nat /\ DOMAIN toks = 1 .. Len(toks)
  BY DEF Position, Caches, Models
<1>3. N = [i \in DOMAIN toks |-> [RawOf(x, c, toks)[Len(c.layer) + i] EXCEPT !.sound = All(i)]]
  BY DEF NewOf
<1> HIDE DEF N, All
<1>4. ASSUME NEW i \in 1 .. Len(toks)
      PROVE  N[i] = [tok |-> toks[i], pos |-> Position(x, c) + i - 1, sound |-> All(i)]
  <2>1. RawOf(x, c, toks)[Len(c.layer) + i] =
            [tok |-> toks[i], pos |-> Position(x, c) + i - 1, sound |-> FALSE]
    BY RawFacts
  <2>2. N[i] = [RawOf(x, c, toks)[Len(c.layer) + i] EXCEPT !.sound = All(i)]
    BY <1>2, <1>3
  <2>. QED
    BY <2>1, <2>2
<1>5. ASSUME NEW i \in 1 .. Len(toks)
      PROVE  N[i] \in Pairs /\ N[i].tok = toks[i] /\ N[i].pos = Position(x, c) + i - 1
             /\ N[i].sound = All(i)
  <2>1. toks[i] \in Nat /\ Position(x, c) + i - 1 \in Nat /\ All(i) \in BOOLEAN
    BY <1>1, <1>2
  <2> DEFINE q == toks[i]
             p == Position(x, c) + i - 1
             b == All(i)
  <2>2. q \in Nat /\ p \in Nat /\ b \in BOOLEAN /\ N[i] = [tok |-> q, pos |-> p, sound |-> b]
    BY <1>4, <2>1
  <2> HIDE DEF q, p, b
  <2>3. N[i] \in Pairs
    BY <2>2 DEF Pairs
  <2>4. N[i].tok = q /\ N[i].pos = p /\ N[i].sound = b
    BY <2>2
  <2>. QED
    BY <2>3, <2>4 DEF q, p, b
<1>6. N = [i \in 1 .. Len(toks) |-> N[i]]
  BY <1>2, <1>3
<1>7. N \in Seq(Pairs) /\ Len(N) = Len(toks)
  BY <1>5, <1>6
<1>. QED
  BY <1>5, <1>7 DEF N, All

\* The recorded length and the flat copy agree with the entries.
Agree(x, c) == /\ c.seq_len = Len(c.layer)
               /\ c.flat = IF x.bf16 THEN c.layer ELSE <<>>

\* Tokens at the positions they follow on from.
LEMMA PlacedFacts ==
    ASSUME NEW toks \in Seq(Nat), NEW p \in Nat
    PROVE  /\ Placed(toks, p) \in Seq(Spots)
           /\ Len(Placed(toks, p)) = Len(toks)
           /\ \A i \in 1 .. Len(toks) : Placed(toks, p)[i] = [tok |-> toks[i], pos |-> p + i - 1]
<1> DEFINE E(i) == [tok |-> toks[i], pos |-> p + i - 1]
<1>1. DOMAIN toks = 1 .. Len(toks) /\ Len(toks) \in Nat
  OBVIOUS
<1>2. ASSUME NEW i \in 1 .. Len(toks) PROVE E(i) \in Spots
  <2>1. toks[i] \in Nat /\ p + i - 1 \in Nat
    OBVIOUS
  <2>. QED
    BY <2>1 DEF Spots
<1>3. Placed(toks, p) = [i \in 1 .. Len(toks) |-> E(i)]
  BY <1>1 DEF Placed
<1> HIDE DEF E
<1>4. /\ Placed(toks, p) \in Seq(Spots) /\ Len(Placed(toks, p)) = Len(toks)
      /\ \A i \in 1 .. Len(toks) : Placed(toks, p)[i] = E(i)
  BY <1>1, <1>2, <1>3
<1>. QED
  BY <1>4 DEF E

\* No tokens are placed nowhere.
LEMMA PlacedEmpty == Placed(<<>>, 0) = <<>>
<1>1. <<>> \in Seq(Nat) /\ Len(<<>>) = 0 /\ 0 \in Nat
  BY EmptySeq
<1>2. Placed(<<>>, 0) \in Seq(Spots) /\ Len(Placed(<<>>, 0)) = 0
  BY <1>1, PlacedFacts
<1>. QED
  BY <1>2, EmptySeq

\* One text after another, from the start.
LEMMA PlacedConcat ==
    ASSUME NEW s \in Seq(Nat), NEW u \in Seq(Nat)
    PROVE  Placed(s \o u, 0) = Placed(s, 0) \o Placed(u, Len(s))
<1> DEFINE a == Placed(s, 0)
           b == Placed(u, Len(s))
           w == Placed(s \o u, 0)
<1>1. Len(s) \in Nat /\ Len(u) \in Nat /\ 0 \in Nat
  OBVIOUS
<1>2. /\ s \o u \in Seq(Nat) /\ Len(s \o u) = Len(s) + Len(u)
      /\ \A i \in 1 .. Len(s) + Len(u) : (s \o u)[i] = IF i <= Len(s) THEN s[i] ELSE u[i - Len(s)]
  BY ConcatProperties
<1>3. /\ a \in Seq(Spots) /\ Len(a) = Len(s)
      /\ \A i \in 1 .. Len(s) : a[i] = [tok |-> s[i], pos |-> 0 + i - 1]
  BY <1>1, PlacedFacts
<1>4. /\ b \in Seq(Spots) /\ Len(b) = Len(u)
      /\ \A i \in 1 .. Len(u) : b[i] = [tok |-> u[i], pos |-> Len(s) + i - 1]
  BY <1>1, PlacedFacts
<1>5. /\ w \in Seq(Spots) /\ Len(w) = Len(s) + Len(u)
      /\ \A i \in 1 .. Len(s) + Len(u) : w[i] = [tok |-> (s \o u)[i], pos |-> 0 + i - 1]
  BY <1>1, <1>2, PlacedFacts
<1> HIDE DEF a, b, w
<1>6. /\ a \o b \in Seq(Spots) /\ Len(a \o b) = Len(a) + Len(b)
      /\ \A i \in 1 .. Len(a) + Len(b) : (a \o b)[i] = IF i <= Len(a) THEN a[i] ELSE b[i - Len(a)]
  BY <1>3, <1>4, ConcatProperties
<1>7. ASSUME NEW i \in 1 .. Len(s) + Len(u) PROVE w[i] = (a \o b)[i]
  <2>1. CASE i <= Len(s)
    <3>1. i \in 1 .. Len(s) /\ (a \o b)[i] = a[i] /\ (s \o u)[i] = s[i]
      BY <1>1, <1>2, <1>3, <1>4, <1>6, <2>1
    <3>. QED
      BY <1>3, <1>5, <3>1
  <2>2. CASE ~(i <= Len(s))
    <3> DEFINE k == i - Len(s)
    <3>1. k \in 1 .. Len(u) /\ Len(s) + k - 1 = 0 + i - 1
      BY <1>1, <2>2
    <3>2. (a \o b)[i] = b[k] /\ (s \o u)[i] = u[k]
      BY <1>1, <1>2, <1>3, <1>4, <1>6, <2>2
    <3> HIDE DEF k
    <3>3. b[k] = [tok |-> u[k], pos |-> Len(s) + k - 1]
      BY <1>4, <3>1
    <3>4. w[i] = [tok |-> (s \o u)[i], pos |-> 0 + i - 1]
      BY <1>5
    <3>. QED
      BY <3>1, <3>2, <3>3, <3>4
  <2>. QED
    BY <2>1, <2>2
<1>8. w = a \o b
  BY <1>3, <1>4, <1>5, <1>6, <1>7, SeqEqual
<1>. QED
  BY <1>8 DEF a, b, w

\* The tokens and positions of entries that hold a text from the start.
LEMMA FoldedIs ==
    ASSUME NEW e \in Seq(Pairs), \A i \in 1 .. Len(e) : e[i].pos = i - 1
    PROVE  Folded(e) = Placed(TokensOf(e), 0)
<1> DEFINE t == TokensOf(e)
<1>1. DOMAIN e = 1 .. Len(e) /\ Len(e) \in Nat
  OBVIOUS
<1>2. t \in Seq(Nat) /\ Len(t) = Len(e) /\ \A i \in 1 .. Len(e) : t[i] = e[i].tok
  BY PairTokens
<1> HIDE DEF t
<1>3. DOMAIN t = 1 .. Len(e)
  BY <1>2
<1>4. Folded(e) = [i \in 1 .. Len(e) |-> [tok |-> e[i].tok, pos |-> e[i].pos]]
  BY <1>1 DEF Folded
<1>5. Placed(t, 0) = [i \in 1 .. Len(e) |-> [tok |-> t[i], pos |-> 0 + i - 1]]
  BY <1>3 DEF Placed
<1>6. \A i \in 1 .. Len(e) :
         [tok |-> e[i].tok, pos |-> e[i].pos] = [tok |-> t[i], pos |-> 0 + i - 1]
  <2> SUFFICES ASSUME NEW i \in 1 .. Len(e)
               PROVE  [tok |-> e[i].tok, pos |-> e[i].pos] = [tok |-> t[i], pos |-> 0 + i - 1]
    OBVIOUS
  <2>1. e[i].tok = t[i] /\ e[i].pos = 0 + i - 1
    BY <1>1, <1>2
  <2>. QED
    BY <2>1
<1>7. Folded(e) = Placed(t, 0)
  BY <1>4, <1>5, <1>6
<1>. QED
  BY <1>7 DEF t

\* The recurrent state holds tokens, each with its position.
LEMMA StateType ==
    ASSUME NEW x \in Models, NEW c \in Caches, NEW toks \in Seq(Nat), NEW prefill \in BOOLEAN
    PROVE  StateAfter(x, c, toks, prefill) \in Seq(Spots)
<1> DEFINE b == Placed(toks, Position(x, c))
           a == c.state
<1>1. a \in Seq(Spots) /\ Position(x, c) \in Nat
  BY DEF Caches, Position, Models
<1>2. b \in Seq(Spots)
  BY <1>1, PlacedFacts
<1>3. StateAfter(x, c, toks, prefill) \in {<<>>, b, a \o b}
  BY DEF StateAfter
<1> HIDE DEF a, b
<1>4. a \o b \in Seq(Spots) /\ <<>> \in Seq(Spots)
  BY <1>1, <1>2, ConcatProperties, EmptySeq
<1>. QED
  BY <1>2, <1>3, <1>4

\* A pass leaves a cache, that has what it had and what was fed, in agreement.
LEMMA FeedFacts ==
    ASSUME NEW x \in Models, NEW c \in Caches, NEW toks \in Seq(Nat), NEW prefill \in BOOLEAN
    PROVE  /\ Feed(x, c, toks, prefill) \in Caches
           /\ IsFed(x, c, toks, Feed(x, c, toks, prefill))
           /\ Feed(x, c, toks, prefill).state = StateAfter(x, c, toks, prefill)
           /\ Agree(x, c) => Agree(x, Feed(x, c, toks, prefill))
<1> DEFINE new == NewOf(x, c, toks, prefill)
           f == Feed(x, c, toks, prefill)
           a == c.layer
           n == Len(a)
<1>1. /\ f.layer = a \o new
      /\ f.flat = IF x.bf16 THEN c.flat \o new ELSE c.flat
      /\ f.state = StateAfter(x, c, toks, prefill)
      /\ f.seq_len = c.seq_len + Len(toks)
      /\ f.text_pos = IF x.mrope THEN c.text_pos + Len(toks) ELSE c.text_pos
  BY FeedParts
<1>2. f = [layer |-> f.layer, flat |-> f.flat, state |-> f.state, seq_len |-> f.seq_len,
           text_pos |-> f.text_pos]
  BY FeedParts
<1>3. /\ new \in Seq(Pairs) /\ Len(new) = Len(toks)
      /\ \A i \in 1 .. Len(toks) : new[i].tok = toks[i] /\ new[i].pos = Position(x, c) + i - 1
  BY NewFacts
<1>4. /\ a \in Seq(Pairs) /\ n \in Nat /\ c.flat \in Seq(Pairs) /\ c.seq_len \in Nat
      /\ c.text_pos \in Nat /\ Len(toks) \in Nat /\ StateAfter(x, c, toks, prefill) \in Seq(Spots)
  BY StateType DEF Caches
<1>5. Agree(x, c) => c.seq_len = n /\ c.flat = IF x.bf16 THEN a ELSE <<>>
  BY DEF Agree
<1> HIDE DEF new, f, a
<1>6. /\ a \o new \in Seq(Pairs) /\ Len(a \o new) = Len(a) + Len(new)
      /\ \A i \in 1 .. Len(a) + Len(new) :
            (a \o new)[i] = IF i <= Len(a) THEN a[i] ELSE new[i - Len(a)]
      /\ c.flat \o new \in Seq(Pairs)
  <2>1. a \in Seq(Pairs) /\ new \in Seq(Pairs) /\ c.flat \in Seq(Pairs)
    BY <1>3, <1>4
  <2>2. /\ a \o new \in Seq(Pairs) /\ Len(a \o new) = Len(a) + Len(new)
        /\ \A i \in 1 .. Len(a) + Len(new) :
              (a \o new)[i] = IF i <= Len(a) THEN a[i] ELSE new[i - Len(a)]
    BY <2>1, ConcatProperties
  <2>3. c.flat \o new \in Seq(Pairs)
    BY <2>1, ConcatProperties
  <2>. QED
    BY <2>2, <2>3
<1>7. f \in Caches
  <2>1. /\ f.layer \in Seq(Pairs) /\ f.flat \in Seq(Pairs) /\ f.state \in Seq(Spots)
        /\ f.seq_len \in Nat /\ f.text_pos \in Nat
    BY <1>1, <1>4, <1>6
  <2>. QED
    BY <1>2, <2>1 DEF Caches
<1>8. IsFed(x, c, toks, f)
  <2>1. Len(f.layer) = n + Len(toks)
    BY <1>1, <1>3, <1>6
  <2>2. \A i \in 1 .. n : f.layer[i] = a[i]
    BY <1>1, <1>3, <1>4, <1>6
  <2>3. ASSUME NEW i \in 1 .. Len(toks)
        PROVE  f.layer[n + i].tok = toks[i] /\ f.layer[n + i].pos = Position(x, c) + i - 1
    <3>1. n + i \in 1 .. Len(a) + Len(new) /\ ~(n + i <= Len(a)) /\ n + i - Len(a) = i
      BY <1>3, <1>4
    <3>2. f.layer[n + i] = new[i]
      BY <1>1, <1>6, <3>1
    <3>. QED
      BY <1>3, <3>2
  <2>. QED
    BY <1>1, <2>1, <2>2, <2>3 DEF IsFed, a
<1>9. Agree(x, c) => Agree(x, f)
  <2> SUFFICES ASSUME Agree(x, c) PROVE Agree(x, f)
    OBVIOUS
  <2>1. f.seq_len = Len(f.layer)
    BY <1>1, <1>3, <1>4, <1>5, <1>6
  <2>2. f.flat = IF x.bf16 THEN f.layer ELSE <<>>
    BY <1>1, <1>5
  <2>. QED
    BY <2>1, <2>2 DEF Agree
<1>. QED
  BY <1>1, <1>7, <1>8, <1>9 DEF f

\* The cache holds text s, each token in its place.
Exact(x, c, s) ==
    /\ Len(c.layer) = Len(s)
    /\ \A i \in 1 .. Len(s) : c.layer[i].tok = s[i] /\ c.layer[i].pos = i - 1
    /\ x.mrope => c.text_pos = Len(s)

\* And each entry was computed as from scratch, as was the state.
Faithful(x, c, s) ==
    /\ \A i \in 1 .. Len(c.layer) : c.layer[i].sound
    /\ x.recurrent # "none" => c.state = Placed(s, 0)

\* What the pieces of a pass over a cache that holds text s see of it.
LEMMA SeenFacts ==
    ASSUME NEW x \in Models, NEW c \in Caches, NEW toks \in Seq(Nat), NEW prefill \in BOOLEAN,
           NEW s \in Seq(Nat), Exact(x, c, s), c.seq_len = Len(c.layer),
           prefill \/ Len(toks) = 1, NEW j \in 1 .. Len(toks)
    PROVE  /\ SeenBy(x, c, toks, prefill, j) \in Seq(Pairs)
           /\ Len(SeenBy(x, c, toks, prefill, j)) = Len(c.layer) + j
           /\ \A i \in 1 .. Len(c.layer) + j : SeenBy(x, c, toks, prefill, j)[i].pos = i - 1
           /\ TokensOf(SeenBy(x, c, toks, prefill, j)) = s \o SubSeq(toks, 1, j)
<1> DEFINE raw == RawOf(x, c, toks)
           see == SeenBy(x, c, toks, prefill, j)
           n == Len(c.layer)
           u == SubSeq(toks, 1, j)
<1>1. /\ n \in Nat /\ n = Len(s) /\ Position(x, c) = n /\ Len(toks) \in Nat
      /\ \A i \in 1 .. n : c.layer[i].tok = s[i] /\ c.layer[i].pos = i - 1
  BY DEF Exact, Position, Caches, Models
<1>2. /\ raw \in Seq(Pairs) /\ Len(raw) = n + Len(toks)
      /\ \A i \in 1 .. n : raw[i] = c.layer[i]
      /\ \A i \in 1 .. Len(toks) :
           raw[n + i] = [tok |-> toks[i], pos |-> Position(x, c) + i - 1, sound |-> FALSE]
  BY RawFacts
<1>3. see = IF prefill THEN Shorten(raw, n + j) ELSE raw
  BY DEF SeenBy
<1> HIDE DEF raw, see
<1>4. see \in Seq(Pairs) /\ Len(see) = n + j /\ \A i \in 1 .. n + j : see[i] = raw[i]
  <2>1. CASE prefill
    <3> DEFINE k == n + j
    <3>1. k \in Nat /\ k <= Len(raw)
      BY <1>1, <1>2
    <3> HIDE DEF k
    <3>2. /\ Shorten(raw, k) \in Seq(Pairs)
          /\ Len(Shorten(raw, k)) = IF k <= Len(raw) THEN k ELSE Len(raw)
          /\ \A i \in 1 .. Len(Shorten(raw, k)) : Shorten(raw, k)[i] = raw[i]
      BY <1>2, <3>1, ShortenFacts
    <3>. QED
      BY <1>3, <2>1, <3>1, <3>2 DEF k
  <2>2. CASE ~prefill
    <3>0. Len(toks) = 1
      BY <2>2
    <3>1. j = 1 /\ Len(toks) = 1
      BY <3>0
    <3>2. see = raw
      BY <1>3, <2>2
    <3>. QED
      BY <1>1, <1>2, <3>1, <3>2
  <2>. QED
    BY <2>1, <2>2
<1>5. u \in Seq(Nat) /\ Len(u) = j /\ \A i \in 1 .. j : u[i] = toks[i]
  <2>1. \A i \in 1 .. j : toks[i] \in Nat
    BY <1>1
  <2>2. /\ SubSeq(toks, 1, j) \in Seq(Nat)
        /\ Len(SubSeq(toks, 1, j)) = IF 1 <= j THEN j - 1 + 1 ELSE 0
        /\ \A i \in 1 .. j - 1 + 1 : SubSeq(toks, 1, j)[i] = toks[1 + i - 1]
    BY <2>1, SubSeqProperties
  <2>. QED
    BY <2>2
<1> HIDE DEF u
<1>6. /\ s \o u \in Seq(Nat) /\ Len(s \o u) = Len(s) + Len(u)
      /\ \A i \in 1 .. Len(s) + Len(u) :
           (s \o u)[i] = IF i <= Len(s) THEN s[i] ELSE u[i - Len(s)]
  <2>1. u \in Seq(Nat)
    BY <1>5
  <2>. QED
    BY <2>1, ConcatProperties
<1>7. ASSUME NEW i \in 1 .. n + j
      PROVE  see[i].pos = i - 1 /\ see[i].tok = (s \o u)[i]
  <2>1. see[i] = raw[i]
    BY <1>4
  <2>2. CASE i <= n
    <3>1. i \in 1 .. n /\ i \in 1 .. Len(s) + Len(u)
      BY <1>1, <1>5, <2>2
    <3>2. raw[i] = c.layer[i] /\ c.layer[i].tok = s[i] /\ c.layer[i].pos = i - 1
      BY <1>1, <1>2, <3>1
    <3>3. (s \o u)[i] = s[i]
      BY <1>1, <1>6, <2>2, <3>1
    <3>. QED
      BY <2>1, <3>2, <3>3
  <2>3. CASE ~(i <= n)
    <3> DEFINE h == i - n
    <3>1. h \in 1 .. Len(toks) /\ h \in 1 .. j /\ i = n + h /\ i \in 1 .. Len(s) + Len(u)
      BY <1>1, <1>5, <2>3
    <3>2. (s \o u)[i] = u[h] /\ u[h] = toks[h]
      BY <1>1, <1>5, <1>6, <2>3, <3>1
    <3>3. raw[n + h] = [tok |-> toks[h], pos |-> Position(x, c) + h - 1, sound |-> FALSE]
      BY <1>2, <3>1
    <3> HIDE DEF h
    <3>4. raw[i] = [tok |-> toks[h], pos |-> n + h - 1, sound |-> FALSE]
      BY <1>1, <3>1, <3>3
    <3>5. raw[i].tok = toks[h] /\ raw[i].pos = n + h - 1
      BY <3>4
    <3>6. n + h - 1 = i - 1
      BY <1>1, <3>1
    <3>. QED
      BY <2>1, <3>2, <3>5, <3>6
  <2>. QED
    BY <2>2, <2>3
<1>8. TokensOf(see) = s \o u
  <2>1. \A i \in 1 .. Len(see) : see[i].tok \in Nat
    <3>1. \A e \in Pairs : e.tok \in Nat
      BY DEF Pairs
    <3>2. see \in Seq(Pairs)
      BY <1>4
    <3>. QED
      BY <3>1, <3>2
  <2>2. /\ TokensOf(see) \in Seq(Nat) /\ Len(TokensOf(see)) = Len(see)
        /\ \A i \in 1 .. Len(see) : TokensOf(see)[i] = see[i].tok
    BY <1>4, <2>1, PairTokens
  <2>3. Len(TokensOf(see)) = Len(s \o u)
    BY <1>1, <1>4, <1>5, <1>6, <2>2
  <2>4. \A i \in 1 .. Len(TokensOf(see)) : TokensOf(see)[i] = (s \o u)[i]
    BY <1>4, <1>7, <2>2
  <2>. QED
    BY <1>6, <2>2, <2>3, <2>4, SeqEqual
<1>. QED
  BY <1>4, <1>7, <1>8 DEF see, u

\* A pass over more of the text leaves the cache with more of the text; as from
\* scratch, unless a convolution of a prefill forgets what came before.
LEMMA FeedExact ==
    ASSUME NEW x \in Models, NEW c \in Caches, NEW toks \in Seq(Nat), NEW prefill \in BOOLEAN,
           NEW s \in Seq(Nat), Exact(x, c, s), c.seq_len = Len(c.layer)
    PROVE  Exact(x, Feed(x, c, toks, prefill), s \o toks)
<1> DEFINE f == Feed(x, c, toks, prefill)
           st == s \o toks
<1>1. IsFed(x, c, toks, f)
  BY FeedFacts
<1>2. /\ st \in Seq(Nat) /\ Len(st) = Len(s) + Len(toks)
      /\ \A i \in 1 .. Len(s) + Len(toks) :
           st[i] = IF i <= Len(s) THEN s[i] ELSE toks[i - Len(s)]
  BY ConcatProperties
<1>3. /\ Len(c.layer) = Len(s) /\ Len(s) \in Nat /\ Len(toks) \in Nat
      /\ Position(x, c) = Len(s)
      /\ x.mrope => c.text_pos = Len(s)
  BY DEF Exact, Position, Caches, Models
<1>4. \A i \in 1 .. Len(s) : c.layer[i].tok = s[i] /\ c.layer[i].pos = i - 1
  BY DEF Exact
<1> HIDE DEF f, st
<1>5. ASSUME NEW i \in 1 .. Len(st) PROVE f.layer[i].tok = st[i] /\ f.layer[i].pos = i - 1
  <2>1. CASE i <= Len(s)
    <3>1. i \in 1 .. Len(s) /\ i \in 1 .. Len(s) + Len(toks)
      BY <1>2, <1>3, <2>1
    <3>2. f.layer[i] = c.layer[i]
      BY <1>1, <1>3, <3>1 DEF IsFed
    <3>. QED
      BY <1>2, <1>4, <2>1, <3>1, <3>2
  <2>2. CASE ~(i <= Len(s))
    <3> DEFINE h == i - Len(s)
    <3>1. h \in 1 .. Len(toks) /\ i = Len(s) + h /\ i \in 1 .. Len(s) + Len(toks)
      BY <1>2, <1>3, <2>2
    <3>2. st[i] = toks[h]
      BY <1>2, <2>2, <3>1
    <3> HIDE DEF h
    <3>3. f.layer[Len(s) + h].tok = toks[h] /\ f.layer[Len(s) + h].pos = Len(s) + h - 1
      BY <1>1, <1>3, <3>1 DEF IsFed
    <3>. QED
      BY <3>1, <3>2, <3>3
  <2>. QED
    BY <2>1, <2>2
<1>6. Len(f.layer) = Len(st) /\ (x.mrope => f.text_pos = Len(st))
  BY <1>1, <1>2, <1>3 DEF IsFed
<1>. QED
  BY <1>5, <1>6 DEF Exact, f, st

\* A pass over a cache that computed its entries from scratch does so again.
LEMMA FeedFaithful ==
    ASSUME NEW x \in Models, NEW c \in Caches, NEW toks \in Seq(Nat), NEW prefill \in BOOLEAN,
           NEW s \in Seq(Nat), Exact(x, c, s), Faithful(x, c, s), c.seq_len = Len(c.layer),
           prefill \/ Len(toks) = 1,
           prefill => x.recurrent # "conv" \/ s = <<>>
    PROVE  Faithful(x, Feed(x, c, toks, prefill), s \o toks)
<1> DEFINE f == Feed(x, c, toks, prefill)
           new == NewOf(x, c, toks, prefill)
<1>1. \A i \in 1 .. Len(c.layer) : c.layer[i].sound
  BY DEF Faithful
<1>2. ASSUME NEW u \in Seq(Nat), x.recurrent # "none"
      PROVE  StateAfter(x, c, u, prefill) = Placed(s \o u, 0)
  <2>1. c.state = Placed(s, 0)
    BY <1>2 DEF Faithful
  <2>2. Position(x, c) = Len(s)
    BY DEF Position, Exact
  <2>3. Placed(s \o u, 0) = Placed(s, 0) \o Placed(u, Len(s))
    BY PlacedConcat
  <2>4. CASE x.recurrent = "conv" /\ prefill
    <3>1. s \o u = u /\ Len(s) = 0
      BY <2>4, ConcatEmptySeq, EmptySeq
    <3>2. StateAfter(x, c, u, prefill) = Placed(u, Position(x, c))
      BY <1>2, <2>4 DEF StateAfter
    <3>. QED
      BY <2>2, <3>1, <3>2
  <2>5. CASE ~(x.recurrent = "conv" /\ prefill)
    <3>1. StateAfter(x, c, u, prefill) = c.state \o Placed(u, Position(x, c))
      BY <1>2, <2>5 DEF StateAfter
    <3>. QED
      BY <2>1, <2>2, <2>3, <3>1
  <2>. QED
    BY <2>4, <2>5
<1>3. ASSUME NEW j \in 1 .. Len(toks) PROVE GoodAt(x, c, toks, prefill, j)
  <2> DEFINE see == SeenBy(x, c, toks, prefill, j)
             u == SubSeq(toks, 1, j)
             st == StateAfter(x, c, u, prefill)
  <2>1. /\ see \in Seq(Pairs) /\ Len(see) = Len(c.layer) + j
        /\ \A i \in 1 .. Len(c.layer) + j : see[i].pos = i - 1
        /\ TokensOf(see) = s \o u
    <3>1. /\ Exact(x, c, s) /\ c.seq_len = Len(c.layer) /\ (prefill \/ Len(toks) = 1)
          /\ j \in 1 .. Len(toks)
      OBVIOUS
    <3>. QED
      BY ONLY <3>1, SeenFacts, x \in Models, c \in Caches, toks \in Seq(Nat),
              prefill \in BOOLEAN, s \in Seq(Nat)
  <2>2. u \in Seq(Nat)
    <3>1. Len(toks) \in Nat /\ \A i \in 1 .. j : toks[i] \in Nat
      OBVIOUS
    <3>. QED
      BY <3>1, SubSeqProperties
  <2>3. x.recurrent # "none" => st = Folded(see)
    <3>1. \A i \in 1 .. Len(see) : see[i].pos = i - 1
      BY <2>1
    <3>2. Folded(see) = Placed(TokensOf(see), 0)
      BY <2>1, <3>1, FoldedIs
    <3>. QED
      BY <1>2, <2>1, <2>2, <3>2
  <2>4. GoodAt(x, c, toks, prefill, j) <=>
            Len(see) = Len(c.layer) + j /\ FromScratch(x, see, st)
    BY DEF GoodAt
  <2> HIDE DEF see, u, st
  <2>5. \A i \in DOMAIN see : see[i].pos = i - 1
    <3>1. see \in Seq(Pairs)
      BY <2>1
    <3>2. DOMAIN see = 1 .. Len(c.layer) + j
      BY <2>1, <3>1
    <3>. QED
      BY <2>1, <3>2
  <2>6. FromScratch(x, see, st)
    BY <2>3, <2>5 DEF FromScratch
  <2>. QED
    BY <2>1, <2>4, <2>6
<1>4. \A i \in 1 .. Len(toks) :
        new[i].sound = /\ \A j \in 1 .. Len(c.layer) : c.layer[j].sound
                       /\ \A j \in 1 .. i : GoodAt(x, c, toks, prefill, j)
  BY NewFacts
<1>5. ASSUME NEW i \in 1 .. Len(toks) PROVE new[i].sound
  <2>1. \A j \in 1 .. i : GoodAt(x, c, toks, prefill, j)
    BY <1>3
  <2> HIDE DEF new
  <2>. QED
    BY <1>1, <1>4, <2>1
<1>6. f.layer = c.layer \o new /\ f.state = StateAfter(x, c, toks, prefill)
  BY FeedParts
<1>7. \A i \in 1 .. Len(f.layer) : f.layer[i].sound
  <2> DEFINE a == c.layer
  <2>1. a \in Seq(Pairs) /\ new \in Seq(Pairs) /\ Len(new) = Len(toks) /\ Len(a) \in Nat
    BY NewFacts DEF Caches
  <2>0. \A i \in 1 .. Len(a) : a[i].sound
    BY <1>1
  <2> HIDE DEF new, a
  <2>2. /\ Len(a \o new) = Len(a) + Len(new)
        /\ \A i \in 1 .. Len(a) + Len(new) :
             (a \o new)[i] = IF i <= Len(a) THEN a[i] ELSE new[i - Len(a)]
    <3>1. a \in Seq(Pairs) /\ new \in Seq(Pairs)
      BY <2>1
    <3>. QED
      BY <3>1, ConcatProperties
  <2>3. ASSUME NEW i \in 1 .. Len(a) + Len(new) PROVE (a \o new)[i].sound
    <3>1. CASE i <= Len(a)
      <4>1. i \in 1 .. Len(a) /\ (a \o new)[i] = a[i]
        BY <2>1, <2>2, <3>1
      <4>. QED
        BY <2>0, <4>1
    <3>2. CASE ~(i <= Len(a))
      <4>1. i - Len(a) \in 1 .. Len(toks) /\ (a \o new)[i] = new[i - Len(a)]
        BY <2>1, <2>2, <3>2
      <4>. QED
        BY <1>5, <4>1
    <3>. QED
      BY <3>1, <3>2
  <2>. QED
    BY <1>6, <2>2, <2>3 DEF a
<1>8. x.recurrent # "none" => f.state = Placed(s \o toks, 0)
  BY <1>2, <1>6
<1>. QED
  BY <1>7, <1>8 DEF Faithful

\* The logits after an entry are known by a text.
LEMMA ContextType ==
    ASSUME NEW c \in Caches, NEW n \in 1 .. Len(c.layer)
    PROVE  Context(c, n) \in Seq(Nat)
<1>1. /\ \A e \in Pairs : e.tok \in Nat
      /\ c.layer \in Seq(Pairs)
  BY DEF Pairs, Caches
<1> DEFINE a == c.layer
           u == SubSeq(a, 1, n)
<1>2. a \in Seq(Pairs) /\ n \in 1 .. Len(a)
  BY <1>1
<1> HIDE DEF a
<1>3. \A i \in 1 .. n : a[i] \in Pairs
  BY <1>2
<1>4. u \in Seq(Pairs)
  BY <1>2, <1>3, SubSeqProperties
<1> HIDE DEF u
<1>5. TokensOf(u) \in Seq(Nat)
  BY <1>1, <1>4, PairTokens
<1>6. Garbled \in Seq(Nat)
  BY DEF Garbled
<1>. QED
  BY <1>5, <1>6 DEF Context, u, a

\* By the text itself, if the entry was computed as from scratch.
LEMMA ContextExact ==
    ASSUME NEW x, NEW c \in Caches, NEW s \in Seq(Nat), Exact(x, c, s), Faithful(x, c, s),
           NEW n \in 1 .. Len(s)
    PROVE  Context(c, n) = SubSeq(s, 1, n)
<1> DEFINE a == c.layer
           u == SubSeq(a, 1, n)
           v == SubSeq(s, 1, n)
<1>1. /\ a \in Seq(Pairs) /\ Len(a) = Len(s) /\ a[n].sound
      /\ \A i \in 1 .. Len(s) : a[i].tok = s[i]
      /\ \A e \in Pairs : e.tok \in Nat
  BY DEF Pairs, Caches, Exact, Faithful
<1>2. Context(c, n) = TokensOf(u)
  BY <1>1 DEF Context
<1> HIDE DEF a
<1>3. /\ \A i \in 1 .. n : a[i] \in Pairs /\ s[i] \in Nat
  BY <1>1
<1>4. /\ u \in Seq(Pairs) /\ Len(u) = IF 1 <= n THEN n - 1 + 1 ELSE 0
      /\ \A i \in 1 .. n - 1 + 1 : u[i] = a[1 + i - 1]
  BY <1>3, SubSeqProperties
<1>5. /\ v \in Seq(Nat) /\ Len(v) = IF 1 <= n THEN n - 1 + 1 ELSE 0
      /\ \A i \in 1 .. n - 1 + 1 : v[i] = s[1 + i - 1]
  BY <1>3, SubSeqProperties
<1> HIDE DEF u, v
<1>6. \A i \in 1 .. Len(u) : u[i].tok \in Nat
  BY <1>1, <1>4
<1>7. TokensOf(u) \in Seq(Nat) /\ Len(TokensOf(u)) = Len(u)
      /\ \A i \in 1 .. Len(u) : TokensOf(u)[i] = u[i].tok
  BY <1>4, <1>6, PairTokens
<1>8. Len(TokensOf(u)) = Len(v) /\ \A i \in 1 .. Len(TokensOf(u)) : TokensOf(u)[i] = v[i]
  <2>1. Len(u) = n /\ Len(v) = n /\ n \in Nat
    BY <1>1, <1>4, <1>5
  <2>2. ASSUME NEW i \in 1 .. n PROVE TokensOf(u)[i] = v[i]
    <3>1. i \in 1 .. n - 1 + 1 /\ 1 + i - 1 = i
      BY <2>1
    <3>2. u[i] = a[i] /\ v[i] = s[i]
      BY <1>4, <1>5, <3>1
    <3>3. i \in 1 .. Len(u) /\ i \in 1 .. Len(s)
      BY <1>1, <2>1
    <3>4. TokensOf(u)[i] = u[i].tok
      BY <1>7, <3>3
    <3>5. a[i].tok = s[i]
      BY <1>1, <3>3
    <3>. QED
      BY <3>2, <3>4, <3>5
  <2>. QED
    BY <1>7, <2>1, <2>2
<1>9. TokensOf(u) = v
  BY <1>5, <1>7, <1>8, SeqEqual
<1>. QED
  BY <1>2, <1>9 DEF v

---------------------------------------------------------------------------
(* Truncation *)

\* What a truncation keeps.
LEMMA TruncFacts ==
    ASSUME NEW x, NEW c \in Caches, NEW n \in Nat, Agree(x, c)
    PROVE  /\ TruncateKv(c, n) \in Caches
           /\ Agree(x, TruncateKv(c, n))
           /\ Len(TruncateKv(c, n).layer) = IF n < Len(c.layer) THEN n ELSE Len(c.layer)
           /\ \A i \in 1 .. Len(TruncateKv(c, n).layer) : TruncateKv(c, n).layer[i] = c.layer[i]
           /\ TruncateKv(c, n).state = c.state
           /\ TruncateKv(c, n).text_pos =
                IF n < Len(c.layer) /\ Len(c.layer) - n <= c.text_pos THEN c.text_pos - (Len(c.layer) - n)
                ELSE IF n < Len(c.layer) THEN 0 ELSE c.text_pos
<1> DEFINE a == c.layer
           p == c.text_pos
<1>1. /\ a \in Seq(Pairs) /\ Len(a) \in Nat /\ p \in Nat /\ c.state \in Seq(Spots)
      /\ c.seq_len = Len(a) /\ c.flat = IF x.bf16 THEN a ELSE <<>>
  BY DEF Caches, Agree
<1>2. c = [layer |-> a, flat |-> c.flat, state |-> c.state, seq_len |-> c.seq_len, text_pos |-> p]
  BY DEF Caches
<1>3. CASE ~(n < Len(a))
  <2>1. TruncateKv(c, n) = c
    BY <1>1, <1>3 DEF TruncateKv
  <2>. QED
    BY <1>1, <1>3, <2>1
<1>4. CASE n < Len(a)
  <2> DEFINE q == p - (Len(a) - n)
             t == TruncateKv(c, n)
             r == Max({0, q})
  <2>1. t = [c EXCEPT !.layer = Shorten(a, n), !.flat = Shorten(c.flat, n), !.seq_len = n,
                      !.text_pos = r]
    BY <1>1, <1>4 DEF TruncateKv
  <2>2. q \in Int
    BY <1>1
  <2>3. r = IF 0 <= q THEN q ELSE 0
    BY <2>2, MaxTwo
  <2>4. /\ Shorten(a, n) \in Seq(Pairs) /\ Len(Shorten(a, n)) = n
        /\ \A i \in 1 .. n : Shorten(a, n)[i] = a[i]
    <3>1. /\ Shorten(a, n) \in Seq(Pairs)
          /\ Len(Shorten(a, n)) = IF n <= Len(a) THEN n ELSE Len(a)
          /\ \A i \in 1 .. Len(Shorten(a, n)) : Shorten(a, n)[i] = a[i]
      BY <1>1, ShortenFacts
    <3>. QED
      BY <1>1, <1>4, <3>1
  <2>5. Shorten(<<>>, n) = <<>>
    <3>1. <<>> \in Seq(Pairs) /\ Len(<<>>) = 0
      BY EmptySeq
    <3>2. /\ Shorten(<<>>, n) \in Seq(Pairs)
          /\ Len(Shorten(<<>>, n)) = IF n <= Len(<<>>) THEN n ELSE Len(<<>>)
      BY <3>1, ShortenFacts
    <3>3. Len(Shorten(<<>>, n)) = 0
      BY <3>1, <3>2
    <3>. QED
      BY <3>2, <3>3, EmptySeq
  <2> HIDE DEF a, p, q, r, t
  <2>6. t = [layer |-> Shorten(a, n), flat |-> Shorten(c.flat, n), state |-> c.state,
             seq_len |-> n, text_pos |-> r]
    BY <1>2, <2>1
  <2>7. Shorten(c.flat, n) = IF x.bf16 THEN Shorten(a, n) ELSE <<>>
    BY <1>1, <2>5
  <2>8. Shorten(c.flat, n) \in Seq(Pairs) /\ r \in Nat
    BY <2>2, <2>3, <2>4, <2>7, EmptySeq
  <2>9. t \in Caches
    BY <1>1, <2>4, <2>6, <2>8 DEF Caches
  <2>10. /\ t.layer = Shorten(a, n) /\ t.flat = Shorten(c.flat, n) /\ t.state = c.state
         /\ t.seq_len = n /\ t.text_pos = r
    BY <2>6
  <2>11. Agree(x, t)
    BY <2>4, <2>7, <2>10 DEF Agree
  <2>12. r = IF Len(a) - n <= p THEN p - (Len(a) - n) ELSE 0
    BY <1>1, <2>3 DEF q
  <2>. QED
    BY <1>1, <1>4, <2>4, <2>9, <2>10, <2>11, <2>12 DEF a, p, t
<1>. QED
  BY <1>1, <1>3, <1>4

\* A prefix of a text.
LEMMA PrefixFacts ==
    ASSUME NEW S, NEW s \in Seq(S), NEW n \in Nat, n <= Len(s)
    PROVE  /\ SubSeq(s, 1, n) \in Seq(S)
           /\ Len(SubSeq(s, 1, n)) = n
           /\ \A i \in 1 .. n : SubSeq(s, 1, n)[i] = s[i]
<1>1. \A i \in 1 .. n : s[i] \in S
  OBVIOUS
<1>2. /\ SubSeq(s, 1, n) \in Seq(S)
      /\ Len(SubSeq(s, 1, n)) = IF 1 <= n THEN n - 1 + 1 ELSE 0
      /\ \A i \in 1 .. n - 1 + 1 : SubSeq(s, 1, n)[i] = s[1 + i - 1]
  BY <1>1, SubSeqProperties
<1>. QED
  BY <1>2

\* A truncation leaves a prefix of the text.
LEMMA TruncExact ==
    ASSUME NEW x, NEW c \in Caches, NEW s \in Seq(Nat), NEW n \in Nat, n <= Len(s),
           Agree(x, c), Exact(x, c, s)
    PROVE  Exact(x, TruncateKv(c, n), SubSeq(s, 1, n))
<1> DEFINE t == TruncateKv(c, n)
           u == SubSeq(s, 1, n)
<1>1. /\ Len(c.layer) = Len(s) /\ Len(s) \in Nat /\ (x.mrope => c.text_pos = Len(s))
      /\ \A i \in 1 .. Len(s) : c.layer[i].tok = s[i] /\ c.layer[i].pos = i - 1
  BY DEF Exact
<1>2. Len(u) = n /\ \A i \in 1 .. n : u[i] = s[i]
  BY PrefixFacts
<1>3. /\ Len(t.layer) = IF n < Len(c.layer) THEN n ELSE Len(c.layer)
      /\ \A i \in 1 .. Len(t.layer) : t.layer[i] = c.layer[i]
      /\ t.text_pos =
            IF n < Len(c.layer) /\ Len(c.layer) - n <= c.text_pos THEN c.text_pos - (Len(c.layer) - n)
            ELSE IF n < Len(c.layer) THEN 0 ELSE c.text_pos
  BY TruncFacts
<1> HIDE DEF t, u
<1>4. Len(t.layer) = n
  BY <1>1, <1>3
<1>5. ASSUME NEW i \in 1 .. n PROVE t.layer[i].tok = u[i] /\ t.layer[i].pos = i - 1
  <2>1. i \in 1 .. Len(s) /\ i \in 1 .. Len(t.layer)
    BY <1>1, <1>4
  <2>2. t.layer[i] = c.layer[i] /\ u[i] = s[i]
    BY <1>2, <1>3, <2>1
  <2>. QED
    BY <1>1, <2>1, <2>2
<1>6. x.mrope => t.text_pos = n
  BY <1>1, <1>3
<1>. QED
  BY <1>2, <1>4, <1>5, <1>6 DEF Exact, t, u

\* Without a recurrent state, which cannot be cut back, what is left is sound.
LEMMA TruncFaithful ==
    ASSUME NEW x, NEW c \in Caches, NEW s, NEW u, NEW n \in Nat,
           Agree(x, c), Faithful(x, c, s), x.recurrent = "none"
    PROVE  Faithful(x, TruncateKv(c, n), u)
<1> DEFINE t == TruncateKv(c, n)
<1>1. \A i \in 1 .. Len(c.layer) : c.layer[i].sound
  BY DEF Faithful
<1>2. /\ Len(t.layer) = IF n < Len(c.layer) THEN n ELSE Len(c.layer)
      /\ \A i \in 1 .. Len(t.layer) : t.layer[i] = c.layer[i]
  BY TruncFacts
<1>3. Len(c.layer) \in Nat
  BY DEF Caches
<1> HIDE DEF t
<1>4. \A i \in 1 .. Len(t.layer) : t.layer[i].sound
  BY <1>1, <1>2, <1>3
<1>. QED
  BY <1>4 DEF Faithful, t

---------------------------------------------------------------------------
(* The places that an eviction keeps, in their order *)

\* g lists the elements of K from the smallest to the largest.
Lists(g, K) ==
    /\ g \in [1 .. Cardinality(K) -> K]
    /\ \A i, j \in 1 .. Cardinality(K) : i < j => g[i] < g[j]
    /\ \A k \in K : \E i \in 1 .. Cardinality(K) : g[i] = k

\* Every set of places can be listed.
LEMMA ListExists == \A n \in Nat : \A K \in SUBSET (1 .. n) : \E g : Lists(g, K)
<1> DEFINE S == {n \in Nat : \A K \in SUBSET (1 .. n) : \E g : Lists(g, K)}
<1>1. 0 \in S
  <2>1. Lists([i \in 1 .. 0 |-> i], {})
    <3>1. Cardinality({}) = 0
      BY FS_EmptySet
    <3>. QED
      BY <3>1 DEF Lists
  <2>2. \A K \in SUBSET (1 .. 0) : K = {}
    OBVIOUS
  <2>. QED
    BY <2>1, <2>2
<1>2. ASSUME NEW n \in Nat, n \in S PROVE n + 1 \in S
  <2> SUFFICES ASSUME NEW K \in SUBSET (1 .. n + 1) PROVE \E g : Lists(g, K)
    OBVIOUS
  <2>1. CASE n + 1 \notin K
    <3>1. K \in SUBSET (1 .. n)
      BY <2>1
    <3>. QED
      BY <1>2, <3>1
  <2>2. CASE n + 1 \in K
    <3> DEFINE L == K \ {n + 1}
               c == Cardinality(L)
    <3>1. L \in SUBSET (1 .. n)
      OBVIOUS
    <3>2. PICK g : Lists(g, L)
      BY <1>2, <3>1
    <3>3. IsFiniteSet(L) /\ c \in Nat
      <4>1. IsFiniteSet(1 .. n)
        BY FS_Interval
      <4>. QED
        BY <3>1, <4>1, FS_Subset, FS_CardinalityType
    <3>4. K = L \cup {n + 1} /\ n + 1 \notin L
      BY <2>2
    <3>5. Cardinality(K) = c + 1
      BY <3>3, <3>4, FS_AddElement
    <3>6. /\ g \in [1 .. c -> L]
          /\ \A i, j \in 1 .. c : i < j => g[i] < g[j]
          /\ \A k \in L : \E i \in 1 .. c : g[i] = k
      BY <3>2 DEF Lists
    <3> DEFINE h == [i \in 1 .. c + 1 |-> IF i \in 1 .. c THEN g[i] ELSE n + 1]
    <3> HIDE DEF L, c
    <3>7. h \in [1 .. c + 1 -> K]
      BY <3>3, <3>4, <3>6
    <3>8. ASSUME NEW i \in 1 .. c + 1, NEW j \in 1 .. c + 1, i < j PROVE h[i] < h[j]
      <4>0. i \in 1 .. c
        BY <3>3, <3>8
      <4>1. i \in 1 .. c /\ h[i] = g[i] /\ g[i] \in 1 .. n
        <5>1. g[i] \in L
          BY <3>6, <4>0
        <5>. QED
          BY <3>1, <4>0, <5>1
      <4>2. CASE j \in 1 .. c
        BY <3>6, <3>8, <4>1, <4>2
      <4>3. CASE j \notin 1 .. c
        BY <4>1, <4>3
      <4>. QED
        BY <4>2, <4>3
    <3>9. ASSUME NEW k \in K PROVE \E i \in 1 .. c + 1 : h[i] = k
      <4>1. CASE k = n + 1
        <5>1. c + 1 \in 1 .. c + 1 /\ c + 1 \notin 1 .. c
          BY <3>3
        <5>2. h[c + 1] = k
          BY <4>1, <5>1
        <5>. QED
          BY <5>1, <5>2
      <4>2. CASE k # n + 1
        <5>1. PICK i \in 1 .. c : g[i] = k
          BY <3>4, <3>6, <4>2
        <5>2. i \in 1 .. c + 1 /\ h[i] = k
          BY <3>3, <5>1
        <5>. QED
          BY <5>2
      <4>. QED
        BY <4>1, <4>2
    <3> HIDE DEF h
    <3>10. Lists(h, K)
      BY <3>5, <3>7, <3>8, <3>9 DEF Lists
    <3>. QED
      BY <3>10
  <2>. QED
    BY <2>1, <2>2
<1> HIDE DEF S
<1>3. \A n \in Nat : n \in S
  BY <1>1, <1>2, SetInduction
<1>. QED
  BY <1>3 DEF S

\* The i-th of the list is the i-th of the set.
LEMMA NthListed ==
    ASSUME NEW n \in Nat, NEW K \in SUBSET (1 .. n), NEW g, Lists(g, K),
           NEW i \in 1 .. Cardinality(K)
    PROVE  Nth(K, i) = g[i]
<1> DEFINE c == Cardinality(K)
           Below(k) == {j \in K : j <= k}
<1>1. IsFiniteSet(K) /\ c \in Nat
  <2>1. IsFiniteSet(1 .. n)
    BY FS_Interval
  <2>. QED
    BY <2>1, FS_Subset, FS_CardinalityType
<1>2. /\ g \in [1 .. c -> K]
      /\ \A a, b \in 1 .. c : a < b => g[a] < g[b]
      /\ \A k \in K : \E a \in 1 .. c : g[a] = k
  BY DEF Lists
<1>3. i \in 1 .. c
  OBVIOUS
<1> HIDE DEF c
<1>4. ASSUME NEW a \in 1 .. c PROVE Cardinality(Below(g[a])) = a
  <2> DEFINE f == [b \in 1 .. a |-> g[b]]
  <2>1. f \in [1 .. a -> Below(g[a])]
    <3>1. ASSUME NEW b \in 1 .. a PROVE g[b] \in Below(g[a])
      <4>1. b \in 1 .. c /\ (b < a \/ b = a)
        BY <1>1
      <4>2. g[b] \in K /\ g[a] \in K /\ g[b] \in 1 .. n /\ g[a] \in 1 .. n
        BY <1>2, <4>1
      <4>3. g[b] <= g[a]
        BY <1>2, <4>1, <4>2
      <4>. QED
        BY <4>2, <4>3
    <3>. QED
      BY <3>1
  <2>2. ASSUME NEW p \in 1 .. a, NEW q \in 1 .. a, f[p] = f[q] PROVE p = q
    <3>1. p \in 1 .. c /\ q \in 1 .. c /\ g[p] = g[q]
      BY <1>1, <2>2
    <3>2. g[p] \in 1 .. n
      BY <1>2, <3>1
    <3>3. ~(p < q) /\ ~(q < p)
      BY <1>2, <3>1, <3>2
    <3>. QED
      BY <3>3
  <2>3. ASSUME NEW k \in Below(g[a]) PROVE \E b \in 1 .. a : f[b] = k
    <3>1. PICK b \in 1 .. c : g[b] = k
      BY <1>2
    <3>2. k <= g[a] /\ k \in 1 .. n /\ g[a] \in 1 .. n
      BY <1>2
    <3>3. ~(a < b)
      BY <1>2, <3>1, <3>2
    <3>4. b \in 1 .. a
      BY <1>1, <3>3
    <3>. QED
      BY <3>1, <3>4
  <2> HIDE DEF f, Below
  <2>4. f \in Bijection(1 .. a, Below(g[a]))
    BY <2>1, <2>2, <2>3, Fun_IsBij
  <2>5. ExistsBijection(1 .. a, Below(g[a]))
    BY <2>4 DEF ExistsBijection
  <2>6. IsFiniteSet(1 .. a) /\ Cardinality(1 .. a) = a
    BY <1>1, FS_Interval
  <2>. QED
    BY <2>5, <2>6, FS_Bijection
<1>5. g[i] \in K /\ Cardinality(Below(g[i])) = i
  BY <1>2, <1>3, <1>4
<1>6. ASSUME NEW k \in K, Cardinality(Below(k)) = i PROVE k = g[i]
  <2>1. PICK a \in 1 .. c : g[a] = k
    BY <1>2
  <2>2. Cardinality(Below(k)) = a
    BY <1>4, <2>1
  <2>. QED
    BY <1>6, <2>1, <2>2
<1>7. Nth(K, i) = CHOOSE k \in K : Cardinality(Below(k)) = i
  BY DEF Nth
<1> HIDE DEF Below
<1>. QED
  BY <1>5, <1>6, <1>7

---------------------------------------------------------------------------
(* Eviction *)

\* What is kept are places of the cache, the last one always; it is within the
\* budget, or within what is protected.
LEMMA KeptFacts ==
    ASSUME NEW n \in Nat, NEW budget \in Nat, NEW K \in Kept(n, budget)
    PROVE  /\ K \in SUBSET (1 .. n)
           /\ n > 0 => n \in K
           /\ Cardinality(K) <= budget \/ Cardinality(K) <= SinkCount + RecentWindow
<1> DEFINE a == Min({SinkCount, n})
           b == Max({n - RecentWindow, 0})
           sinks == 1 .. a
           recent == b + 1 .. n
           middle == (1 .. n) \ (sinks \cup recent)
           room == Max({0, budget - Cardinality(sinks) - Cardinality(recent)})
           q == Min({room, Cardinality(middle)})
<1>1. PICK best \in kSubset(q, middle) : K = sinks \cup best \cup recent
  BY DEF Kept
<1>2. SinkCount \in Nat /\ RecentWindow \in Nat /\ RecentWindow > 0
  BY KvAssumption
<1>3. a \in Nat /\ a <= SinkCount /\ a <= n
  BY <1>2, MinTwo
<1>4. b \in Nat /\ b <= n /\ n - b <= RecentWindow /\ (n > 0 => b < n)
  <2>1. n - RecentWindow \in Int
    BY <1>2
  <2>2. b = IF n - RecentWindow <= 0 THEN 0 ELSE n - RecentWindow
    BY <2>1, MaxTwo
  <2> HIDE DEF b
  <2>. QED
    BY <1>2, <2>2
<1> HIDE DEF a, b
<1>5. IsFiniteSet(sinks) /\ Cardinality(sinks) = a
  BY <1>3, FS_Interval
<1>6. IsFiniteSet(recent) /\ Cardinality(recent) = n - b
  <2> DEFINE h == b + 1
  <2>1. h \in Int /\ recent = h .. n
    BY <1>4
  <2> HIDE DEF h
  <2>2. IsFiniteSet(h .. n) /\ Cardinality(h .. n) = IF h > n THEN 0 ELSE n - h + 1
    BY <2>1, FS_Interval
  <2>. QED
    BY <1>4, <2>1, <2>2 DEF h
<1>7. IsFiniteSet(middle) /\ Cardinality(middle) \in Nat
  <2>1. IsFiniteSet(1 .. n) /\ middle \in SUBSET (1 .. n)
    BY FS_Interval
  <2>. QED
    BY <2>1, FS_Subset, FS_CardinalityType
<1>8. best \in SUBSET middle /\ Cardinality(best) = q
  BY <1>1 DEF kSubset
<1>9. IsFiniteSet(best)
  BY <1>7, <1>8, FS_Subset
<1>10. sinks \subseteq 1 .. n /\ recent \subseteq 1 .. n /\ middle \subseteq 1 .. n
  BY <1>3, <1>4
<1>11. n > 0 => n \in recent
  BY <1>4
<1>12. room = IF 0 <= budget - a - (n - b) THEN budget - a - (n - b) ELSE 0
  <2>1. budget - a - (n - b) \in Int
    BY <1>3, <1>4
  <2>. QED
    BY <1>5, <1>6, <2>1, MaxTwo
<1>13. q <= room
  <2>1. room \in Int
    BY <1>3, <1>4, <1>12
  <2> HIDE DEF room, middle
  <2>2. q = IF room <= Cardinality(middle) THEN room ELSE Cardinality(middle)
    BY <1>7, <2>1, MinTwo
  <2> HIDE DEF q
  <2>. QED
    BY <1>7, <2>1, <2>2
<1> HIDE DEF sinks, recent, middle, room, q
<1>14. K \in SUBSET (1 .. n) /\ (n > 0 => n \in K)
  BY <1>1, <1>8, <1>10, <1>11
<1>15. Cardinality(K) <= a + q + (n - b)
  <2>1. IsFiniteSet(sinks \cup best)
    BY <1>5, <1>9, FS_Union
  <2>2. Cardinality(sinks \cup best) <= a + q
    <3>1. IsFiniteSet(sinks \cap best) /\ Cardinality(sinks \cap best) \in Nat
      BY <1>5, FS_Subset, FS_CardinalityType
    <3>2. Cardinality(sinks \cup best) = a + q - Cardinality(sinks \cap best)
      BY <1>5, <1>8, <1>9, FS_Union
    <3>3. a \in Nat /\ q \in Nat
      BY <1>3, <1>8, <1>9, FS_CardinalityType
    <3>. QED
      BY <3>1, <3>2, <3>3
  <2> DEFINE both == sinks \cup best
  <2>3. IsFiniteSet(both \cap recent) /\ Cardinality(both \cap recent) \in Nat
    BY <1>6, FS_Subset, FS_CardinalityType
  <2>4. Cardinality(K) = Cardinality(both) + (n - b) - Cardinality(both \cap recent)
    BY <1>1, <1>6, <2>1, FS_Union
  <2>5. Cardinality(both) \in Nat
    BY <2>1, FS_CardinalityType
  <2>6. q \in Nat
    BY <1>8, <1>9, FS_CardinalityType
  <2> HIDE DEF both
  <2>7. Cardinality(both) <= a + q
    BY <2>2 DEF both
  <2>. QED
    BY <1>3, <1>4, <2>3, <2>4, <2>5, <2>6, <2>7
<1>16. Cardinality(K) \in Nat /\ q \in Nat
  <2>1. IsFiniteSet(1 .. n)
    BY FS_Interval
  <2>2. IsFiniteSet(K)
    BY <1>14, <2>1, FS_Subset
  <2>. QED
    BY <1>8, <1>9, <2>2, FS_CardinalityType
<1>17. Cardinality(K) <= budget \/ Cardinality(K) <= SinkCount + RecentWindow
  BY <1>2, <1>3, <1>4, <1>12, <1>13, <1>15, <1>16
<1>. QED
  BY <1>14, <1>17

\* s is t with some of its elements left out: g says where each comes from.
Picks(s, t, g) ==
    /\ g \in [1 .. Len(s) -> 1 .. Len(t)]
    /\ \A i, j \in 1 .. Len(s) : i < j => g[i] < g[j]
    /\ \A i \in 1 .. Len(s) : s[i] = t[g[i]]

IsPart(s, t) == \E g : Picks(s, t, g)

\* The entries that are gathered.
LEMMA GatherFacts ==
    ASSUME NEW S, NEW s \in Seq(S), NEW K \in SUBSET (1 .. Len(s)), NEW g, Lists(g, K)
    PROVE  /\ Gather(s, K) \in Seq(S)
           /\ Len(Gather(s, K)) = Cardinality(K)
           /\ Picks(Gather(s, K), s, g)
<1>1. IsFiniteSet(K) /\ Cardinality(K) \in Nat /\ Len(s) \in Nat
  <2>1. Len(s) \in Nat
    OBVIOUS
  <2>2. IsFiniteSet(1 .. Len(s))
    BY <2>1, FS_Interval
  <2>. QED
    BY <2>1, <2>2, FS_Subset, FS_CardinalityType
<1> DEFINE c == Cardinality(K)
<1>2. \A i \in 1 .. c : Nth(K, i) = g[i] /\ g[i] \in K
  <2> DEFINE n == Len(s)
  <2>1. n \in Nat /\ K \in SUBSET (1 .. n)
    BY <1>1
  <2> HIDE DEF n
  <2>2. ASSUME NEW i \in 1 .. Cardinality(K) PROVE Nth(K, i) = g[i]
    BY <2>1, NthListed
  <2>3. \A i \in 1 .. c : g[i] \in K
    BY DEF Lists
  <2>. QED
    BY <2>2, <2>3
<1>3. Gather(s, K) = [i \in 1 .. c |-> s[Nth(K, i)]]
  BY DEF Gather
<1>4. g \in [1 .. c -> K] /\ \A i, j \in 1 .. c : i < j => g[i] < g[j]
  BY DEF Lists
<1> HIDE DEF c
<1>5. c \in Nat
  BY <1>1 DEF c
<1>6. Gather(s, K) = [i \in 1 .. c |-> s[g[i]]]
  BY <1>2, <1>3
<1>7. \A i \in 1 .. c : s[g[i]] \in S
  <2>1. \A k \in 1 .. Len(s) : s[k] \in S
    OBVIOUS
  <2>. QED
    BY <1>4, <2>1
<1>8. /\ Gather(s, K) \in Seq(S) /\ Len(Gather(s, K)) = c
      /\ \A i \in 1 .. c : Gather(s, K)[i] = s[g[i]]
  BY <1>5, <1>6, <1>7
<1>9. g \in [1 .. c -> 1 .. Len(s)]
  BY <1>4
<1>. QED
  BY <1>4, <1>8, <1>9 DEF Picks, c

\* And the other way: what is picked is gathered from a set of as many places.
LEMMA PicksGather ==
    ASSUME NEW S, NEW s \in Seq(S), NEW t \in Seq(S), IsPart(s, t)
    PROVE  \E K \in SUBSET (1 .. Len(t)) : Cardinality(K) = Len(s) /\ Gather(t, K) = s
<1>1. PICK g : Picks(s, t, g)
  BY DEF IsPart
<1> DEFINE c == Len(s)
           K == {g[i] : i \in 1 .. c}
<1>2. /\ g \in [1 .. c -> 1 .. Len(t)] /\ \A i, j \in 1 .. c : i < j => g[i] < g[j]
      /\ \A i \in 1 .. c : s[i] = t[g[i]]
      /\ c \in Nat /\ Len(t) \in Nat
  BY <1>1 DEF Picks
<1>3. K \in SUBSET (1 .. Len(t)) /\ g \in [1 .. c -> K] /\ \A k \in K : \E i \in 1 .. c : g[i] = k
  BY <1>2
<1> HIDE DEF K
<1>4. ASSUME NEW i \in 1 .. c, NEW j \in 1 .. c, g[i] = g[j] PROVE i = j
  <2>1. g[i] \in 1 .. Len(t)
    BY <1>2
  <2>2. ~(i < j) /\ ~(j < i)
    BY <1>2, <1>4, <2>1
  <2>. QED
    BY <1>2, <2>2
<1>5. g \in Bijection(1 .. c, K)
  BY <1>3, <1>4, Fun_IsBij
<1>6. ExistsBijection(1 .. c, K)
  BY <1>5 DEF ExistsBijection
<1>7. IsFiniteSet(1 .. c) /\ Cardinality(1 .. c) = c
  <2>1. c \in Nat
    BY <1>2
  <2> HIDE DEF c
  <2>. QED
    BY <2>1, FS_Interval
<1>8. Cardinality(K) = c
  BY <1>6, <1>7, FS_Bijection
<1>9. Lists(g, K)
  BY <1>2, <1>3, <1>8 DEF Lists
<1>10. /\ Gather(t, K) \in Seq(S) /\ Len(Gather(t, K)) = Cardinality(K)
       /\ Picks(Gather(t, K), t, g)
  BY <1>3, <1>9, GatherFacts
<1>11. \A i \in 1 .. c : Gather(t, K)[i] = s[i]
  BY <1>2, <1>8, <1>10 DEF Picks
<1>12. Gather(t, K) = s
  BY <1>8, <1>10, <1>11, SeqEqual
<1>. QED
  BY <1>3, <1>8, <1>12

\* What an eviction leaves.
LEMMA EvictFacts ==
    ASSUME NEW x \in Models, NEW c \in Caches, NEW budget \in Nat, Agree(x, c),
           NEW e \in Evictions(x, c, budget)
    PROVE  /\ e \in Caches
           /\ Agree(x, e)
           /\ e.state = c.state /\ e.text_pos = c.text_pos
           /\ \E g : /\ Picks(e.layer, c.layer, g)
                     /\ Len(c.layer) > 0 => /\ Len(e.layer) > 0
                                            /\ g[Len(e.layer)] = Len(c.layer)
           /\ budget # 0 => \/ Len(e.layer) <= budget + Hysteresis(budget)
                            \/ Len(e.layer) <= budget
                            \/ Len(e.layer) <= SinkCount + RecentWindow
           /\ budget = 0 => e = c
<1> DEFINE a == c.layer
<1>1. /\ a \in Seq(Pairs) /\ Len(a) \in Nat /\ c.seq_len = Len(a)
      /\ c.flat = IF x.bf16 THEN a ELSE <<>>
  BY DEF Caches, Agree
<1>2. c = [layer |-> a, flat |-> c.flat, state |-> c.state, seq_len |-> c.seq_len,
           text_pos |-> c.text_pos]
      /\ c.state \in Seq(Spots) /\ c.text_pos \in Nat
  BY DEF Caches
<1>3. CASE ~Over(c, budget)
  <2>1. e = c
    BY <1>3 DEF Evictions
  <2>2. Picks(a, a, [i \in 1 .. Len(a) |-> i])
    BY <1>1 DEF Picks
  <2>3. Len(a) > 0 => [i \in 1 .. Len(a) |-> i][Len(a)] = Len(a)
    BY <1>1
  <2>4. budget # 0 => Len(a) <= budget + Hysteresis(budget)
    <3>1. Hysteresis(budget) \in Int
      <4>1. HysteresisDiv \in Nat \ {0} /\ HysteresisMax \in Nat
        BY KvAssumption
      <4>2. budget \div HysteresisDiv \in Int
        BY <4>1
      <4>. QED
        BY <4>1, <4>2, MinTwo DEF Hysteresis
    <3>. QED
      BY <1>1, <1>3, <3>1 DEF Over
  <2> HIDE DEF a
  <2>. QED
    BY <2>1, <2>2, <2>3, <2>4 DEF a
<1>4. CASE Over(c, budget)
  <2>1. PICK K \in Kept(c.seq_len, budget) :
           e = [c EXCEPT !.layer = Gather(@, K), !.flat = IF x.bf16 THEN Gather(@, K) ELSE @,
                         !.seq_len = Cardinality(K)]
    BY <1>4 DEF Evictions
  <2>2. /\ K \in SUBSET (1 .. Len(a)) /\ (Len(a) > 0 => Len(a) \in K)
        /\ Cardinality(K) <= budget \/ Cardinality(K) <= SinkCount + RecentWindow
    BY <1>1, KeptFacts
  <2>3. PICK g : Lists(g, K)
    BY <1>1, <2>2, ListExists
  <2> HIDE DEF a
  <2>4. /\ Gather(a, K) \in Seq(Pairs) /\ Len(Gather(a, K)) = Cardinality(K)
        /\ Picks(Gather(a, K), a, g)
    BY <1>1, <2>2, <2>3, GatherFacts
  <2>5. IsFiniteSet(K) /\ Cardinality(K) \in Nat
    <3>1. IsFiniteSet(1 .. Len(a))
      BY <1>1, FS_Interval
    <3>. QED
      BY <2>2, <3>1, FS_Subset, FS_CardinalityType
  <2> DEFINE fl == IF x.bf16 THEN Gather(c.flat, K) ELSE c.flat
             ga == Gather(a, K)
             n == Cardinality(K)
  <2>6. e = [c EXCEPT !.layer = ga, !.flat = fl, !.seq_len = n]
    BY <2>1 DEF a
  <2>7. fl = IF x.bf16 THEN Gather(a, K) ELSE <<>>
    BY <1>1
  <2>8. fl \in Seq(Pairs)
    BY <2>4, <2>7, EmptySeq
  <2> HIDE DEF fl, ga, n
  <2>8a. e = [layer |-> ga, flat |-> fl, state |-> c.state, seq_len |-> n, text_pos |-> c.text_pos]
    BY <1>2, <2>6
  <2>9. e = [layer |-> Gather(a, K), flat |-> fl, state |-> c.state, seq_len |-> Cardinality(K),
             text_pos |-> c.text_pos]
    BY <2>8a DEF ga, n
  <2>10. e \in Caches
    BY <1>2, <2>4, <2>5, <2>8, <2>9 DEF Caches
  <2>11. /\ e.layer = Gather(a, K) /\ e.flat = fl /\ e.state = c.state
         /\ e.seq_len = Cardinality(K) /\ e.text_pos = c.text_pos
    BY <2>9
  <2>12. Agree(x, e)
    BY <2>4, <2>7, <2>11 DEF Agree
  <2>13. Len(a) > 0 => Len(e.layer) > 0 /\ g[Len(e.layer)] = Len(a)
    <3> SUFFICES ASSUME Len(a) > 0 PROVE Len(e.layer) > 0 /\ g[Len(e.layer)] = Len(a)
      OBVIOUS
    <3>1. PICK i \in 1 .. n : g[i] = Len(a)
      BY <2>2, <2>3 DEF Lists, n
    <3>2. /\ n \in Nat /\ Len(e.layer) = n /\ g \in [1 .. n -> K]
          /\ \A p, q \in 1 .. n : p < q => g[p] < g[q]
      BY <2>3, <2>4, <2>5, <2>11 DEF Lists, n
    <3>3. n \in 1 .. n /\ g[n] \in 1 .. Len(a)
      <4>1. n \in 1 .. n
        BY <3>1, <3>2
      <4>2. g[n] \in K
        BY <3>2, <4>1
      <4>. QED
        BY <2>2, <4>1, <4>2
    <3>4. ~(i < n)
      BY <1>1, <3>1, <3>2, <3>3
    <3>5. i = n
      BY <3>2, <3>4
    <3>. QED
      BY <3>1, <3>2, <3>3, <3>5
  <2>14. budget # 0
    BY <1>4 DEF Over
  <2>. QED
    BY <2>2, <2>4, <2>10, <2>11, <2>12, <2>13, <2>14 DEF a
<1>. QED
  BY <1>3, <1>4

---------------------------------------------------------------------------
(* Parts of a text *)

\* A part of a part is a part.
LEMMA PartTrans ==
    ASSUME NEW S, NEW s \in Seq(S), NEW t \in Seq(S), NEW u \in Seq(S), IsPart(s, t), IsPart(t, u)
    PROVE  IsPart(s, u)
<1>1. PICK g : Picks(s, t, g)
  BY DEF IsPart
<1>2. PICK h : Picks(t, u, h)
  BY DEF IsPart
<1>3. /\ g \in [1 .. Len(s) -> 1 .. Len(t)]
      /\ \A i, j \in 1 .. Len(s) : i < j => g[i] < g[j]
      /\ \A i \in 1 .. Len(s) : s[i] = t[g[i]]
  BY <1>1 DEF Picks
<1>4. /\ h \in [1 .. Len(t) -> 1 .. Len(u)]
      /\ \A i, j \in 1 .. Len(t) : i < j => h[i] < h[j]
      /\ \A i \in 1 .. Len(t) : t[i] = u[h[i]]
  BY <1>2 DEF Picks
<1> DEFINE f == [i \in 1 .. Len(s) |-> h[g[i]]]
<1>5. f \in [1 .. Len(s) -> 1 .. Len(u)]
  BY <1>3, <1>4
<1>6. ASSUME NEW i \in 1 .. Len(s), NEW j \in 1 .. Len(s), i < j PROVE f[i] < f[j]
  <2>1. g[i] \in 1 .. Len(t) /\ g[j] \in 1 .. Len(t) /\ g[i] < g[j]
    BY <1>3, <1>6
  <2>. QED
    BY <1>4, <2>1
<1>7. \A i \in 1 .. Len(s) : s[i] = u[f[i]]
  BY <1>3, <1>4
<1> HIDE DEF f
<1>8. Picks(s, u, f)
  BY <1>5, <1>6, <1>7 DEF Picks
<1>. QED
  BY <1>8 DEF IsPart

\* A text is a part of itself, and so is the empty one.
LEMMA PartSelf ==
    ASSUME NEW S, NEW s \in Seq(S)
    PROVE  IsPart(s, s)
<1>1. Picks(s, s, [i \in 1 .. Len(s) |-> i])
  BY DEF Picks
<1>. QED
  BY <1>1 DEF IsPart

\* When both go on, the part with some of the same tokens, it is still a part.
LEMMA PartExtend ==
    ASSUME NEW S, NEW s \in Seq(S), NEW t \in Seq(S), IsPart(s, t),
           NEW a \in Seq(S), NEW b \in Seq(S),
           Len(s) <= Len(a), Len(t) <= Len(b), Len(a) - Len(s) <= Len(b) - Len(t),
           \A i \in 1 .. Len(s) : a[i] = s[i],
           \A i \in 1 .. Len(t) : b[i] = t[i],
           \A i \in 1 .. Len(a) - Len(s) : a[Len(s) + i] = b[Len(t) + i]
    PROVE  IsPart(a, b)
<1>1. PICK g : Picks(s, t, g)
  BY DEF IsPart
<1> DEFINE p == Len(s)
           q == Len(t)
           f == [i \in 1 .. Len(a) |-> IF i <= p THEN g[i] ELSE q + (i - p)]
<1>2. p \in Nat /\ q \in Nat /\ Len(a) \in Nat /\ Len(b) \in Nat
  OBVIOUS
<1>3. /\ g \in [1 .. p -> 1 .. q]
      /\ \A i, j \in 1 .. p : i < j => g[i] < g[j]
      /\ \A i \in 1 .. p : s[i] = t[g[i]]
  BY <1>1 DEF Picks
<1>4. \A i \in 1 .. Len(a) - p : a[p + i] = b[q + i]
  OBVIOUS
<1>5. p <= Len(a) /\ q <= Len(b) /\ Len(a) - p <= Len(b) - q
  OBVIOUS
<1> HIDE DEF p, q
<1>6. ASSUME NEW i \in 1 .. Len(a)
      PROVE  f[i] \in 1 .. Len(b) /\ a[i] = b[f[i]] /\ (i <= p => f[i] \in 1 .. q)
  <2>1. CASE i <= p
    <3>1. i \in 1 .. p /\ f[i] = g[i] /\ g[i] \in 1 .. q
      BY <1>2, <1>3, <2>1
    <3>2. a[i] = s[i] /\ s[i] = t[g[i]] /\ b[g[i]] = t[g[i]]
      BY <1>3, <3>1 DEF p, q
    <3>. QED
      BY <1>2, <1>5, <3>1, <3>2
  <2>2. CASE ~(i <= p)
    <3> DEFINE h == i - p
    <3>1. h \in 1 .. Len(a) - p /\ f[i] = q + h /\ i = p + h
      BY <1>2, <2>2
    <3>2. q + h \in 1 .. Len(b)
      BY <1>2, <1>5, <3>1
    <3> HIDE DEF h, f
    <3>. QED
      BY <1>4, <2>2, <3>1, <3>2
  <2>. QED
    BY <2>1, <2>2
<1>7. ASSUME NEW i \in 1 .. Len(a), NEW j \in 1 .. Len(a), i < j PROVE f[i] < f[j]
  <2>1. CASE j <= p
    <3>1. i \in 1 .. p /\ j \in 1 .. p /\ f[i] = g[i] /\ f[j] = g[j]
      BY <1>2, <1>7, <2>1
    <3>. QED
      BY <1>3, <1>7, <3>1
  <2>2. CASE i <= p /\ ~(j <= p)
    <3>1. f[i] \in 1 .. q /\ f[j] = q + (j - p)
      BY <1>6, <2>2
    <3>. QED
      BY <1>2, <2>2, <3>1
  <2>3. CASE ~(i <= p)
    <3>1. f[i] = q + (i - p) /\ f[j] = q + (j - p)
      BY <1>2, <1>7, <2>3
    <3>. QED
      BY <1>2, <1>7, <3>1
  <2>. QED
    BY <2>1, <2>2, <2>3
<1>8. f \in [1 .. Len(a) -> 1 .. Len(b)]
  BY <1>6
<1> HIDE DEF f
<1>9. Picks(a, b, f)
  BY <1>6, <1>7, <1>8 DEF Picks
<1>. QED
  BY <1>9 DEF IsPart

\* The tokens of a part.
LEMMA PartTokens ==
    ASSUME NEW s \in Seq(Pairs), NEW t \in Seq(Pairs), NEW g, Picks(s, t, g)
    PROVE  IsPart(TokensOf(s), TokensOf(t))
<1>1. \A e \in Pairs : e.tok \in Nat
  BY DEF Pairs
<1>2. /\ TokensOf(s) \in Seq(Nat) /\ Len(TokensOf(s)) = Len(s)
      /\ \A i \in 1 .. Len(s) : TokensOf(s)[i] = s[i].tok
  BY <1>1, PairTokens
<1>3. /\ TokensOf(t) \in Seq(Nat) /\ Len(TokensOf(t)) = Len(t)
      /\ \A i \in 1 .. Len(t) : TokensOf(t)[i] = t[i].tok
  BY <1>1, PairTokens
<1>4. /\ g \in [1 .. Len(s) -> 1 .. Len(t)]
      /\ \A i, j \in 1 .. Len(s) : i < j => g[i] < g[j]
      /\ \A i \in 1 .. Len(s) : s[i] = t[g[i]]
  BY DEF Picks
<1>5. \A i \in 1 .. Len(s) : TokensOf(s)[i] = TokensOf(t)[g[i]]
  BY <1>2, <1>3, <1>4
<1>6. Picks(TokensOf(s), TokensOf(t), g)
  BY <1>2, <1>3, <1>4, <1>5 DEF Picks
<1>. QED
  BY <1>6 DEF IsPart

---------------------------------------------------------------------------
(* The inductive invariant *)

Drawn == [tok : Tokens, given : Seq(Nat)]
TypeOK ==
    /\ setup \in Setups
    /\ phase \in {"loop", "draft", "judge", "rollback", "print", "done", "error"}
    /\ output \in Seq(Drawn) /\ output # <<>>
    /\ target \in Caches /\ draft \in Caches
    /\ start \in [draft : Nat, target : Nat]
    /\ drafts \in Seq(Tokens)
    /\ logits \in Seq(Seq(Nat))
    /\ accepted \in Nat
    /\ final \in Seq(Drawn)
    /\ full \in Nat

Live == phase \notin {"done", "error"}
InStep == phase \in {"draft", "judge", "rollback"}
Judged == phase \in {"judge", "rollback"}
\* Nothing is ever evicted from the target's cache.
NoCut == NoEviction \/ setup.mode = "draft"
\* Everything in it is as if computed from scratch.
Clean == NoEviction /\ (setup.mode = "plain" \/ m.recurrent = "none")

\* The text that the target has read: what is printed and about to be, without
\* the last token; during a step, as much of the draft as it has verified.
ReadIn(ph, mode, out, dr, fin) ==
    IF ph \in {"judge", "rollback"} THEN TokensOf(out) \o dr
    ELSE IF ph = "draft" /\ mode # "draft" THEN TokensOf(out)
    ELSE Front(TokensOf(out \o fin))
Text == ReadIn(phase, setup.mode, output, drafts, final)

\* How long the locals are at each place.
Places ==
    /\ InStep => setup.mode \in {"draft", "eagle3"}
    /\ phase \in {"loop", "draft"} => final = <<>>
    /\ phase = "draft" => /\ Len(drafts) <= setup.draft_k /\ accepted = 0
                          /\ Len(logits) = IF setup.mode = "draft" THEN 0 ELSE 1
    /\ Judged => /\ Len(drafts) = setup.draft_k /\ accepted <= setup.draft_k
                 /\ Len(final) = IF phase = "judge" THEN accepted ELSE accepted + 1
                 /\ \A i \in 1 .. accepted : final[i].tok = drafts[i]
                 /\ Len(logits) = setup.draft_k + 1
    /\ phase = "print" => final # <<>> /\ (setup.mode = "plain" => Len(final) = 1)

Agreement == Agree(m, target) /\ Agree(m, draft)

\* Where a step began, in the target's cache.
Starts ==
    InStep => /\ NoCut => start.target = Len(output) - 1
              /\ Len(target.layer) <= start.target + 1 + (IF Judged THEN setup.draft_k ELSE 0)

\* Without eviction the cache holds the text; a plain decode step keeps part of it.
Reads == /\ Live /\ NoCut => Exact(m, target, Text)
         /\ Live /\ setup.mode = "plain" => IsPart(TokensOf(target.layer), Text)

Sounds == Live /\ Clean => Faithful(m, target, Text)

\* What the logits, and the tokens that are not printed yet, are drawn given.
Givens ==
    Live /\ Clean =>
        /\ phase = "draft" /\ setup.mode # "draft" => logits[1] = Text
        /\ Judged => \A i \in 1 .. setup.draft_k + 1 :
                        logits[i] = SubSeq(Text, 1, Len(output) - 1 + i)
        /\ \A i \in 1 .. Len(final) :
              final[i].given = SubSeq(TokensOf(output \o final), 1, Len(output) + i - 1)

Rises(c) == \A i, j \in 1 .. Len(c.layer) : i < j => c.layer[i].pos < c.layer[j].pos
\* Positions ascend.  Those of MRoPE stay below the next one, which counts the
\* text, and those of a draft under judgement follow each other: they are cut
\* back by their number.
Ahead ==
    /\ m.mrope \/ NoCut => Rises(target)
    /\ Live /\ m.mrope =>
        /\ \A i \in 1 .. Len(target.layer) : target.layer[i].pos < target.text_pos
        /\ setup.mode = "plain" => target.text_pos = Len(Text)
        /\ Judged => \A i \in 1 .. setup.draft_k :
              target.layer[Len(target.layer) - setup.draft_k + i].pos =
                  target.text_pos - setup.draft_k + i - 1

\* The draft's cache: what it had before the step is part of the text, and in a
\* step it reads current_token and then its own tokens, all but the last.
Before == SubSeq(TokensOf(draft.layer), 1, start.draft)
Lags ==
    Live /\ setup.mode = "draft" =>
        /\ ~InStep => /\ Len(draft.layer) + full = Len(target.layer)
                      /\ IsPart(TokensOf(draft.layer), Text)
        /\ InStep => /\ Len(draft.layer) = start.draft + Len(drafts)
                     /\ IsPart(Before, Front(TokensOf(output)))
                     /\ \A i \in 1 .. Len(drafts) :
                            draft.layer[start.draft + i].tok =
                                IF i = 1 THEN current_token ELSE drafts[i - 1]
                     /\ start.draft + full =
                            IF phase = "rollback" /\ accepted = setup.draft_k
                            THEN Len(output) ELSE Len(output) - 1

IInv == /\ TypeOK /\ Places /\ Agreement /\ Starts /\ Reads /\ Sounds /\ Givens
        /\ Ahead /\ Lags /\ WithinBudget

---------------------------------------------------------------------------
(* The text that was read *)

\* The words that were printed.
LEMMA PrintedFacts ==
    ASSUME NEW out \in Seq(Drawn)
    PROVE  /\ TokensOf(out) \in Seq(Nat)
           /\ Len(TokensOf(out)) = Len(out)
           /\ \A i \in 1 .. Len(out) : TokensOf(out)[i] = out[i].tok
<1>1. \A e \in Drawn : e.tok \in Nat
  <2>1. Tokens \subseteq Nat
    BY SpecAssumption
  <2>. QED
    BY <2>1 DEF Drawn
<1>2. \A i \in 1 .. Len(out) : out[i] \in Drawn
  OBVIOUS
<1>3. \A i \in 1 .. Len(out) : out[i].tok \in Nat
  BY <1>1, <1>2
<1>. QED
  BY <1>3, TokensFacts

\* The words of the text, printed or not.
LEMMA WholeFacts ==
    ASSUME NEW out \in Seq(Drawn), NEW fin \in Seq(Drawn)
    PROVE  /\ TokensOf(out \o fin) \in Seq(Nat)
           /\ Len(TokensOf(out \o fin)) = Len(out) + Len(fin)
           /\ \A i \in 1 .. Len(out) : TokensOf(out \o fin)[i] = out[i].tok
           /\ \A i \in 1 .. Len(fin) : TokensOf(out \o fin)[Len(out) + i] = fin[i].tok
<1> DEFINE all == out \o fin
<1>1. /\ all \in Seq(Drawn) /\ Len(all) = Len(out) + Len(fin)
      /\ \A i \in 1 .. Len(out) + Len(fin) :
            all[i] = IF i <= Len(out) THEN out[i] ELSE fin[i - Len(out)]
  BY ConcatProperties
<1>2. Len(out) \in Nat /\ Len(fin) \in Nat /\ \A e \in Drawn : e.tok \in Nat
  <2>1. Tokens \subseteq Nat
    BY SpecAssumption
  <2>2. \A e \in Drawn : e.tok \in Nat
    BY <2>1 DEF Drawn
  <2>3. Len(out) \in Nat /\ Len(fin) \in Nat
    OBVIOUS
  <2>. QED
    BY <2>2, <2>3
<1> HIDE DEF all
<1>3. /\ TokensOf(all) \in Seq(Nat) /\ Len(TokensOf(all)) = Len(all)
      /\ \A i \in 1 .. Len(all) : TokensOf(all)[i] = all[i].tok
  BY <1>1, PrintedFacts
<1>4. \A i \in 1 .. Len(out) : TokensOf(all)[i] = out[i].tok
  BY <1>1, <1>2, <1>3
<1>5. ASSUME NEW i \in 1 .. Len(fin) PROVE TokensOf(all)[Len(out) + i] = fin[i].tok
  <2>1. /\ Len(out) + i \in 1 .. Len(out) + Len(fin) /\ ~(Len(out) + i <= Len(out))
        /\ Len(out) + i - Len(out) = i
    BY <1>2
  <2>2. all[Len(out) + i] = fin[i]
    BY <1>1, <2>1
  <2>. QED
    BY <1>1, <1>3, <2>1, <2>2
<1>. QED
  BY <1>1, <1>3, <1>4, <1>5 DEF all

Verified(ph) == ph \in {"judge", "rollback"}
Headed(ph, mode) == ph = "draft" /\ mode # "draft"

\* The words of s are those of out, as far as it goes; after n of them come
\* those of t, k of them.
Spells(s, out) == \A i \in 1 .. Len(out) : i <= Len(s) => s[i] = out[i].tok
Goes(s, n, t, k) == \A i \in 1 .. k : s[n + i] = t[i]

\* The text that was read, by its length and its words.
IsRead(t, ph, mode, out, dr, fin) ==
    /\ t \in Seq(Nat)
    /\ Len(t) = IF Verified(ph) THEN Len(out) + Len(dr)
                ELSE IF Headed(ph, mode) THEN Len(out) ELSE Len(out) + Len(fin) - 1
    /\ Spells(t, out)
    /\ Verified(ph) => Goes(t, Len(out), dr, Len(dr))
    /\ ~Verified(ph) /\ ~Headed(ph, mode) => Goes(t, Len(out), TokensOf(fin), Len(fin) - 1)

\* Its length and its tokens.
LEMMA IsReadFacts ==
    ASSUME NEW ph, NEW mode, NEW out \in Seq(Drawn), out # <<>>, NEW dr \in Seq(Tokens),
           NEW fin \in Seq(Drawn)
    PROVE  IsRead(ReadIn(ph, mode, out, dr, fin), ph, mode, out, dr, fin)
<1> DEFINE r == ReadIn(ph, mode, out, dr, fin)
           w == TokensOf(out)
           all == TokensOf(out \o fin)
<1>1. r = IF Verified(ph) THEN w \o dr ELSE IF Headed(ph, mode) THEN w ELSE Front(all)
  BY DEF ReadIn, Verified, Headed
<1>2. w \in Seq(Nat) /\ Len(w) = Len(out) /\ \A i \in 1 .. Len(out) : w[i] = out[i].tok
  BY PrintedFacts
<1>3. /\ all \in Seq(Nat) /\ Len(all) = Len(out) + Len(fin)
      /\ \A i \in 1 .. Len(out) : all[i] = out[i].tok
      /\ \A i \in 1 .. Len(fin) : all[Len(out) + i] = fin[i].tok
  BY WholeFacts
<1>4. Len(out) \in Nat /\ Len(out) > 0 /\ Len(fin) \in Nat /\ dr \in Seq(Nat) /\ Len(dr) \in Nat
  <2>1. dr \in Seq(Nat)
    <3>1. Tokens \subseteq Nat
      BY SpecAssumption
    <3>. QED
      BY <3>1, SeqMonotonic
  <2>2. Len(out) \in Nat \ {0}
    BY EmptySeq
  <2>. QED
    BY <2>1, <2>2
<1> SUFFICES IsRead(r, ph, mode, out, dr, fin)
  OBVIOUS
<1> HIDE DEF r, w, all
<1>5. CASE Verified(ph)
  <2>1. r = w \o dr
    BY <1>1, <1>5
  <2>2. w \in Seq(Nat) /\ dr \in Seq(Nat)
    BY <1>2, <1>4
  <2>3. /\ w \o dr \in Seq(Nat) /\ Len(w \o dr) = Len(w) + Len(dr)
        /\ \A i \in 1 .. Len(w) + Len(dr) :
             (w \o dr)[i] = IF i <= Len(w) THEN w[i] ELSE dr[i - Len(w)]
    BY <2>2, ConcatProperties
  <2>4. r \in Seq(Nat) /\ Len(r) = Len(out) + Len(dr)
    BY <1>2, <2>1, <2>3
  <2>5. \A i \in 1 .. Len(out) : r[i] = out[i].tok
    BY <1>2, <1>4, <2>1, <2>3
  <2>6. ASSUME NEW i \in 1 .. Len(dr) PROVE r[Len(out) + i] = dr[i]
    <3>1. /\ Len(out) + i \in 1 .. Len(w) + Len(dr) /\ ~(Len(out) + i <= Len(w))
          /\ Len(out) + i - Len(w) = i
      BY <1>2, <1>4
    <3>. QED
      BY <2>1, <2>3, <3>1
  <2>. QED
    BY <1>5, <2>4, <2>5, <2>6 DEF IsRead, Spells, Goes
<1>6. CASE ~Verified(ph) /\ Headed(ph, mode)
  <2>1. r = w
    BY <1>1, <1>6
  <2>. QED
    BY <1>2, <1>6, <2>1 DEF IsRead, Spells
<1>7. CASE ~Verified(ph) /\ ~Headed(ph, mode)
  <2> DEFINE n == Len(out) + Len(fin) - 1
  <2>1. r = SubSeq(all, 1, n)
    BY <1>1, <1>3, <1>7 DEF Front
  <2>2. n \in Nat /\ n <= Len(all)
    BY <1>3, <1>4
  <2> HIDE DEF n
  <2>3. r \in Seq(Nat) /\ Len(r) = n /\ \A i \in 1 .. n : r[i] = all[i]
    BY <1>3, <2>1, <2>2, PrefixFacts
  <2>4. ASSUME NEW i \in 1 .. Len(out), i <= Len(r) PROVE r[i] = out[i].tok
    <3>1. i \in 1 .. n
      BY <2>2, <2>3, <2>4
    <3>. QED
      BY <1>3, <2>3, <3>1
  <2>5. ASSUME NEW i \in 1 .. Len(fin) - 1 PROVE r[Len(out) + i] = TokensOf(fin)[i]
    <3>1. Len(out) + i \in 1 .. n /\ i \in 1 .. Len(fin)
      BY <1>4 DEF n
    <3>2. TokensOf(fin)[i] = fin[i].tok
      BY <3>1, PrintedFacts
    <3>. QED
      BY <1>3, <2>3, <3>1, <3>2
  <2>. QED
    BY <1>7, <2>3, <2>4, <2>5 DEF IsRead, Spells, Goes, n
<1>. QED
  BY <1>5, <1>6, <1>7

---------------------------------------------------------------------------
(* Types *)

\* The command line.
LEMMA SetupFacts ==
    ASSUME setup \in Setups
    PROVE  /\ m \in Models /\ dm \in Models /\ dm.bf16 = m.bf16
           /\ setup.draft_k \in Nat /\ setup.kv_budget \in Nat
           /\ setup.mode \in {"plain", "draft", "eagle3"}
<1>1. /\ setup.mode \in {"plain", "draft", "eagle3"} /\ setup.draft_k \in Nat
      /\ setup.kv_budget \in Nat /\ setup.model \in Models
  BY SpecAssumption
<1>2. m \in Models
  BY <1>1 DEF m
<1>3. dm \in Models /\ dm.bf16 = m.bf16
  BY <1>2 DEF dm, Models
<1>. QED
  BY <1>1, <1>2, <1>3

\* The last token of the text.
LEMMA LastFacts ==
    ASSUME output \in Seq(Drawn), output # <<>>
    PROVE  /\ Len(output) \in Nat \ {0}
           /\ current_token = output[Len(output)].tok
           /\ current_token \in Tokens /\ current_token \in Nat
           /\ <<current_token>> \in Seq(Nat) /\ Len(<<current_token>>) = 1
           /\ <<current_token>>[1] = current_token
<1>1. Len(output) \in Nat \ {0}
  BY EmptySeq
<1>2. output[Len(output)] \in Drawn
  BY <1>1
<1>3. current_token = output[Len(output)].tok
  BY DEF current_token, Last
<1>4. current_token \in Tokens
  BY <1>2, <1>3 DEF Drawn
<1>5. Tokens \subseteq Nat
  BY SpecAssumption
<1>. QED
  BY <1>1, <1>3, <1>4, <1>5

\* A decode step leaves a cache, with the logits of one pass.
LEMMA DecodeNextFacts ==
    ASSUME TypeOK, Agreement, DecodeNext(current_token)
    PROVE  /\ target' \in Caches /\ Agree(m, target')
           /\ logits' \in Seq(Seq(Nat)) /\ Len(logits') = 1 /\ logits'[1] \in Seq(Nat)
<1> DEFINE toks == <<current_token>>
           c == Feed(m, target, toks, FALSE)
           lo == Context(c, Len(c.layer))
<1>1. m \in Models /\ setup.kv_budget \in Nat /\ target \in Caches /\ Agree(m, target)
  BY SetupFacts DEF TypeOK, Agreement
<1>2. toks \in Seq(Nat) /\ Len(toks) = 1
  BY LastFacts DEF TypeOK
<1>3. target' \in Evictions(m, c, setup.kv_budget) /\ logits' = <<lo>>
  BY DEF DecodeNext
<1> HIDE DEF toks
<1>4. c \in Caches /\ IsFed(m, target, toks, c) /\ Agree(m, c)
  BY <1>1, <1>2, FeedFacts
<1>5. Len(c.layer) \in 1 .. Len(c.layer)
  <2> HIDE DEF c
  <2>1. Len(c.layer) = Len(target.layer) + Len(toks)
    BY <1>4 DEF IsFed
  <2>2. Len(target.layer) \in Nat
    BY <1>1, CacheFacts
  <2>. QED
    BY <1>2, <2>1, <2>2
<1> HIDE DEF c
<1>6. lo \in Seq(Nat)
  BY <1>4, <1>5, ContextType
<1>7. target' \in Caches /\ Agree(m, target')
  BY <1>1, <1>3, <1>4, EvictFacts
<1> HIDE DEF lo
<1>. QED
  BY <1>3, <1>6, <1>7

\* The verification of a draft leaves a cache, with the logits of each token.
LEMMA VerifyFacts ==
    ASSUME TypeOK, Agreement, NEW toks \in Seq(Nat), VerifyDraft(toks, logits)
    PROVE  /\ target' = Feed(m, target, toks, TRUE) /\ target' \in Caches /\ Agree(m, target')
           /\ logits' \in Seq(Seq(Nat)) /\ Len(logits') = Len(logits) + Len(toks)
           /\ \A i \in 1 .. Len(logits) : logits'[i] = logits[i]
           /\ \A i \in 1 .. Len(toks) :
                logits'[Len(logits) + i] = Context(target', Len(target.layer) + i)
<1> DEFINE c == Feed(m, target, toks, TRUE)
           n == Len(target.layer)
           lo == [i \in DOMAIN toks |-> Context(c, n + i)]
<1>1. m \in Models /\ target \in Caches /\ Agree(m, target) /\ logits \in Seq(Seq(Nat))
  BY SetupFacts DEF TypeOK, Agreement
<1>2. target' = c /\ logits' = logits \o lo
  BY DEF VerifyDraft
<1>3. c \in Caches /\ IsFed(m, target, toks, c) /\ Agree(m, c)
  BY <1>1, FeedFacts
<1>4. n \in Nat /\ Len(toks) \in Nat /\ DOMAIN toks = 1 .. Len(toks)
  BY <1>1 DEF Caches
<1> HIDE DEF c
<1>5. \A i \in 1 .. Len(toks) : n + i \in 1 .. Len(c.layer)
  <2>1. Len(c.layer) = n + Len(toks)
    BY <1>3 DEF IsFed
  <2> HIDE DEF n
  <2>. QED
    BY <1>4, <2>1
<1> HIDE DEF n
<1>6. ASSUME NEW i \in 1 .. Len(toks) PROVE Context(c, n + i) \in Seq(Nat)
  <2> DEFINE h == n + i
  <2>1. h \in 1 .. Len(c.layer)
    BY <1>5
  <2> HIDE DEF h
  <2>2. Context(c, h) \in Seq(Nat)
    BY <1>3, <2>1, ContextType
  <2>. QED
    BY <2>2 DEF h
<1>7. lo \in Seq(Seq(Nat)) /\ Len(lo) = Len(toks) /\ \A i \in 1 .. Len(toks) : lo[i] = Context(c, n + i)
  BY <1>4, <1>6
<1> HIDE DEF lo
<1>8. /\ logits \o lo \in Seq(Seq(Nat)) /\ Len(logits \o lo) = Len(logits) + Len(lo)
      /\ \A i \in 1 .. Len(logits) + Len(lo) :
           (logits \o lo)[i] = IF i <= Len(logits) THEN logits[i] ELSE lo[i - Len(logits)]
  <2>1. logits \in Seq(Seq(Nat)) /\ lo \in Seq(Seq(Nat))
    BY <1>1, <1>7
  <2>. QED
    BY <2>1, ConcatProperties
<1>9. Len(logits) \in Nat
  BY <1>1
<1>10. \A i \in 1 .. Len(logits) : logits'[i] = logits[i]
  BY <1>2, <1>7, <1>8, <1>9, <1>4
<1>11. ASSUME NEW i \in 1 .. Len(toks) PROVE logits'[Len(logits) + i] = Context(c, n + i)
  <2>1. /\ Len(logits) + i \in 1 .. Len(logits) + Len(lo) /\ ~(Len(logits) + i <= Len(logits))
        /\ Len(logits) + i - Len(logits) = i
    BY <1>7, <1>9
  <2>2. logits'[Len(logits) + i] = lo[i]
    BY <1>2, <1>8, <2>1
  <2>. QED
    BY <1>7, <2>2
<1>. QED
  BY <1>2, <1>3, <1>7, <1>8, <1>10, <1>11 DEF c, n

\* The tokens that are verified.
LEMMA VerifiedTokens ==
    ASSUME TypeOK
    PROVE  /\ drafts \in Seq(Nat)
           /\ <<current_token>> \o drafts \in Seq(Nat)
           /\ Len(<<current_token>> \o drafts) = 1 + Len(drafts)
           /\ (<<current_token>> \o drafts)[1] = current_token
           /\ \A i \in 1 .. Len(drafts) : (<<current_token>> \o drafts)[1 + i] = drafts[i]
<1> DEFINE a == <<current_token>>
<1>1. a \in Seq(Nat) /\ Len(a) = 1 /\ a[1] = current_token
  BY LastFacts DEF TypeOK
<1>2. drafts \in Seq(Nat)
  <2>1. Tokens \subseteq Nat /\ drafts \in Seq(Tokens)
    BY SpecAssumption DEF TypeOK
  <2>. QED
    BY <2>1, SeqMonotonic
<1> HIDE DEF a
<1>3. /\ a \o drafts \in Seq(Nat) /\ Len(a \o drafts) = Len(a) + Len(drafts)
      /\ \A i \in 1 .. Len(a) + Len(drafts) :
           (a \o drafts)[i] = IF i <= Len(a) THEN a[i] ELSE drafts[i - Len(a)]
  BY <1>1, <1>2, ConcatProperties
<1>4. Len(drafts) \in Nat
  BY <1>2
<1>5. (a \o drafts)[1] = current_token
  <2>1. 1 \in 1 .. Len(a) + Len(drafts) /\ 1 <= Len(a)
    BY <1>1, <1>4
  <2>. QED
    BY <1>1, <1>3, <2>1
<1>6. ASSUME NEW i \in 1 .. Len(drafts) PROVE (a \o drafts)[1 + i] = drafts[i]
  <2>1. 1 + i \in 1 .. Len(a) + Len(drafts) /\ ~(1 + i <= Len(a)) /\ 1 + i - Len(a) = i
    BY <1>1, <1>4
  <2>. QED
    BY <1>3, <2>1
<1>. QED
  BY <1>1, <1>2, <1>3, <1>5, <1>6 DEF a

\* The alternatives of an action that do not fail.
DecodeOk ==
    /\ InLoop("plain") /\ DecodeNext(current_token)
    /\ \E t \in Tokens : final' = <<[tok |-> t, given |-> logits'[1]]>>
    /\ phase' = "print"
    /\ UNCHANGED <<setup, output, draft, start, drafts, accepted, full>>
BeginEagleOk ==
    /\ InLoop("eagle3") /\ start' = [start EXCEPT !.target = target.seq_len]
    /\ DecodeNext(current_token) /\ drafts' = <<>> /\ accepted' = 0
    /\ phase' = "draft"
    /\ UNCHANGED <<setup, output, draft, final, full>>
DraftToken ==
    /\ phase = "draft" /\ Len(drafts) < setup.draft_k /\ setup.mode = "draft"
    /\ draft' = Feed(dm, draft, <<IF drafts = <<>> THEN current_token ELSE Last(drafts)>>, FALSE)
    /\ \E t \in Tokens : drafts' = Append(drafts, t)
    /\ UNCHANGED <<setup, phase, output, target, start, logits, accepted, final, full>>
DraftHead ==
    /\ phase = "draft" /\ Len(drafts) < setup.draft_k /\ setup.mode = "eagle3"
    /\ \E t \in Tokens : drafts' = Append(drafts, t)
    /\ UNCHANGED <<setup, phase, output, target, draft, start, logits, accepted, final, full>>
ToVerify == IF setup.mode = "draft" THEN <<current_token>> \o drafts ELSE drafts
VerifyOk ==
    /\ phase = "draft" /\ Len(drafts) = setup.draft_k
    /\ VerifyDraft(ToVerify, logits)
    /\ phase' = "judge"
    /\ UNCHANGED <<setup, output, draft, start, drafts, accepted, final, full>>

\* The steps, one by one.
LEMMA Steps ==
    ASSUME [Next]_vars
    PROVE  \/ EndLoop \/ DecodeOk \/ BeginDraft \/ BeginEagleOk \/ DraftToken \/ DraftHead
           \/ VerifyOk \/ Accept \/ Reject \/ Bonus \/ Rollback \/ Emit
           \/ Fail \/ UNCHANGED vars
BY ZenonT(60) DEF Next, Decode, BeginEagle, Draft, Verify, DecodeOk, BeginEagleOk, DraftToken,
             DraftHead, ToVerify, VerifyOk

\* The command line stays.
LEMMA SetupStays ==
    ASSUME [Next]_vars
    PROVE  setup' = setup /\ m' = m
<1>1. setup' = setup
  BY Steps DEF EndLoop, DecodeOk, BeginDraft, BeginEagleOk, DraftToken, DraftHead, VerifyOk,
               Accept, Reject, Bonus, Rollback, Emit, Fail, vars
<1>. QED
  BY <1>1 DEF m

\* A token for the text.
LEMMA DrawnFacts ==
    ASSUME NEW t \in Tokens, NEW g \in Seq(Nat)
    PROVE  [tok |-> t, given |-> g] \in Drawn
BY DEF Drawn

\* Sequences of one token.
LEMMA OneFacts ==
    ASSUME NEW S, NEW e \in S
    PROVE  <<e>> \in Seq(S) /\ Len(<<e>>) = 1 /\ <<e>>[1] = e /\ <<e>> # <<>>
OBVIOUS

\* The word that a judgement produces.
LEMMA ProduceType ==
    ASSUME TypeOK, Places, phase = "judge", NEW t \in Tokens, Produce(t, accepted + 1)
    PROVE  /\ final' \in Seq(Drawn) /\ Len(final') = Len(final) + 1
           /\ \A i \in 1 .. Len(final) : final'[i] = final[i]
           /\ final'[Len(final) + 1] = [tok |-> t, given |-> logits[accepted + 1]]
<1>1. accepted \in Nat /\ accepted <= setup.draft_k /\ Len(logits) = setup.draft_k + 1
      /\ setup.draft_k \in Nat /\ logits \in Seq(Seq(Nat)) /\ final \in Seq(Drawn)
  BY SetupFacts DEF TypeOK, Places, Judged
<1>2. accepted + 1 \in 1 .. Len(logits)
  BY <1>1
<1>3. logits[accepted + 1] \in Seq(Nat)
  BY <1>1, <1>2
<1> DEFINE g == logits[accepted + 1]
           e == [tok |-> t, given |-> g]
<1>4. final' = Append(final, e)
  BY DEF Produce
<1>5. e \in Drawn
  BY <1>3, DrawnFacts
<1> HIDE DEF e
<1>6. /\ Append(final, e) \in Seq(Drawn)
      /\ Len(Append(final, e)) = Len(final) + 1
      /\ \A i \in 1 .. Len(final) : Append(final, e)[i] = final[i]
      /\ Append(final, e)[Len(final) + 1] = e
  BY <1>1, <1>5, AppendProperties
<1>. QED
  BY <1>4, <1>6 DEF e

\* Every step keeps the types.
LEMMA TypeStep ==
    ASSUME TypeOK, Places, Agreement, [Next]_vars
    PROVE  TypeOK'
<1>1. /\ setup \in Setups /\ phase \in {"loop", "draft", "judge", "rollback", "print", "done", "error"}
      /\ output \in Seq(Drawn) /\ output # <<>> /\ target \in Caches /\ draft \in Caches
      /\ start \in [draft : Nat, target : Nat] /\ drafts \in Seq(Tokens)
      /\ logits \in Seq(Seq(Nat)) /\ accepted \in Nat /\ final \in Seq(Drawn) /\ full \in Nat
  BY DEF TypeOK
<1>2. /\ m \in Models /\ dm \in Models /\ setup.draft_k \in Nat
      /\ target.seq_len \in Nat /\ draft.seq_len \in Nat
      /\ Agree(m, target) /\ Agree(m, draft)
  BY <1>1, SetupFacts, CacheFacts DEF Agreement
<1>3. <<>> \in Seq(Tokens) /\ <<>> \in Seq(Drawn) /\ <<>> \in Seq(Seq(Nat)) /\ 0 \in Nat
  BY EmptySeq
<1>4. NoStart \in [draft : Nat, target : Nat]
  BY DEF NoStart
<1>5. CASE EndLoop
  BY <1>1, <1>5 DEF EndLoop, TypeOK, step
<1>6. CASE DecodeOk
  <2>1. /\ target' \in Caches /\ logits' \in Seq(Seq(Nat)) /\ logits'[1] \in Seq(Nat)
    BY <1>6, DecodeNextFacts DEF DecodeOk
  <2>2. PICK t \in Tokens : final' = <<[tok |-> t, given |-> logits'[1]]>>
    BY <1>6 DEF DecodeOk
  <2> DEFINE g == logits'[1]
             e == [tok |-> t, given |-> g]
  <2>3. e \in Drawn
    BY <2>1, DrawnFacts
  <2> HIDE DEF e
  <2>4. final' \in Seq(Drawn)
    BY <2>2, <2>3, OneFacts DEF e
  <2>. QED
    BY <1>1, <1>6, <2>1, <2>4 DEF DecodeOk, TypeOK
<1>7. CASE BeginDraft
  <2>1. start' \in [draft : Nat, target : Nat]
    BY <1>2, <1>7 DEF BeginDraft
  <2>. QED
    BY <1>1, <1>3, <1>7, <2>1 DEF BeginDraft, TypeOK
<1>8. CASE BeginEagleOk
  <2>1. start' \in [draft : Nat, target : Nat]
    BY <1>1, <1>2, <1>8 DEF BeginEagleOk
  <2>2. target' \in Caches /\ logits' \in Seq(Seq(Nat))
    BY <1>8, DecodeNextFacts DEF BeginEagleOk
  <2>. QED
    BY <1>1, <1>3, <1>8, <2>1, <2>2 DEF BeginEagleOk, TypeOK
<1>9. CASE DraftToken
  <2> DEFINE q == IF drafts = <<>> THEN current_token ELSE Last(drafts)
  <2>1. q \in Nat
    <3>1. current_token \in Nat
      BY <1>1, LastFacts
    <3>2. drafts # <<>> => drafts[Len(drafts)] \in Tokens
      BY <1>1, EmptySeq
    <3>3. Tokens \subseteq Nat
      BY SpecAssumption
    <3>. QED
      BY <3>1, <3>2, <3>3 DEF Last
  <2>2. draft' = Feed(dm, draft, <<q>>, FALSE)
    BY <1>9 DEF DraftToken
  <2> HIDE DEF q
  <2>3. <<q>> \in Seq(Nat)
    BY <2>1
  <2>4. draft' \in Caches
    BY <1>1, <1>2, <2>2, <2>3, FeedFacts
  <2>5. drafts' \in Seq(Tokens)
    BY <1>1, <1>9, AppendProperties DEF DraftToken
  <2>. QED
    BY <1>1, <1>9, <2>4, <2>5 DEF DraftToken, TypeOK
<1>10. CASE DraftHead
  <2>1. drafts' \in Seq(Tokens)
    BY <1>1, <1>10, AppendProperties DEF DraftHead
  <2>. QED
    BY <1>1, <1>10, <2>1 DEF DraftHead, TypeOK
<1>11. CASE VerifyOk
  <2>1. ToVerify \in Seq(Nat)
    BY VerifiedTokens DEF ToVerify
  <2>2. VerifyDraft(ToVerify, logits)
    BY <1>11 DEF VerifyOk
  <2>3. target' \in Caches /\ logits' \in Seq(Seq(Nat))
    BY <2>1, <2>2, VerifyFacts
  <2>. QED
    BY <1>1, <1>11, <2>3 DEF VerifyOk, TypeOK
<1>12. CASE Accept
  <2>1. accepted + 1 \in 1 .. Len(drafts) /\ phase = "judge"
    BY <1>1, <1>2, <1>12 DEF Accept, Places, Judged
  <2>2. drafts[accepted + 1] \in Tokens
    BY <1>1, <2>1
  <2>3. Produce(drafts[accepted + 1], accepted + 1)
    BY <1>12 DEF Accept
  <2>4. final' \in Seq(Drawn)
    BY <2>1, <2>2, <2>3, ProduceType
  <2>. QED
    BY <1>1, <1>12, <2>4 DEF Accept, TypeOK
<1>13. CASE Reject
  <2>1. PICK t \in Tokens : Produce(t, accepted + 1)
    BY <1>13 DEF Reject
  <2>2. final' \in Seq(Drawn)
    BY <1>13, <2>1, ProduceType DEF Reject
  <2>. QED
    BY <1>1, <1>13, <2>2 DEF Reject, TypeOK, step
<1>14. CASE Bonus
  <2>1. PICK t \in Tokens : Produce(t, accepted + 1)
    BY <1>14 DEF Bonus
  <2>2. final' \in Seq(Drawn)
    BY <1>14, <2>1, ProduceType DEF Bonus
  <2>. QED
    BY <1>1, <1>14, <2>2 DEF Bonus, TypeOK, step
<1>15. CASE Rollback
  <2>1. start.draft + 1 + accepted \in Nat /\ start.target + 1 + accepted \in Nat
    BY <1>1
  <2> DEFINE nd == start.draft + 1 + accepted
             nt == start.target + 1 + accepted
  <2>2. draft' = (IF setup.mode = "draft" THEN TruncateKv(draft, nd) ELSE draft)
        /\ target' = TruncateKv(target, nt)
    BY <1>15 DEF Rollback
  <2> HIDE DEF nd, nt
  <2>3. draft' \in Caches /\ target' \in Caches
    BY <1>1, <1>2, <2>1, <2>2, TruncFacts DEF nd, nt
  <2>. QED
    BY <1>1, <1>3, <1>4, <1>15, <2>3 DEF Rollback, EndStep, TypeOK
<1>16. CASE Emit
  <2>1. final # <<>>
    BY <1>16 DEF Emit, Places
  <2>2. Head(final) \in Drawn /\ Tail(final) \in Seq(Drawn)
    BY <1>1, <2>1, HeadTailProperties
  <2>3. output' \in Seq(Drawn) /\ output' # <<>>
    BY <1>1, <1>16, <2>2, AppendProperties DEF Emit
  <2>4. final' \in Seq(Drawn) /\ phase' \in {"loop", "print", "done"}
    BY <1>3, <1>16, <2>2 DEF Emit
  <2>. QED
    BY <1>1, <1>3, <1>4, <1>16, <2>3, <2>4 DEF Emit, EndStep, TypeOK
<1>17. CASE Fail
  BY <1>1, <1>17 DEF Fail, TypeOK, step
<1>18. CASE UNCHANGED vars
  BY <1>1, <1>18 DEF vars, TypeOK, step
<1>. QED
  BY <1>5, <1>6, <1>7, <1>8, <1>9, <1>10, <1>11, <1>12, <1>13, <1>14, <1>15, <1>16, <1>17,
     <1>18, Steps

---------------------------------------------------------------------------
(* Places *)

\* The locals keep the lengths of their place.
LEMMA PlacesStep ==
    ASSUME TypeOK, Places, Agreement, [Next]_vars
    PROVE  Places'
<1> DEFINE k == setup.draft_k
<1>1. /\ k \in Nat /\ drafts \in Seq(Tokens) /\ Len(drafts) \in Nat
      /\ logits \in Seq(Seq(Nat)) /\ final \in Seq(Drawn) /\ accepted \in Nat
      /\ Len(final) \in Nat
      /\ phase \in {"loop", "draft", "judge", "rollback", "print", "done", "error"}
  BY SetupFacts DEF TypeOK
<1>2. setup' = setup
  BY SetupStays
<1>3. CASE EndLoop
  BY <1>3 DEF EndLoop, Places, InStep, Judged
<1>4. CASE DecodeOk
  <2>1. PICK t \in Tokens : final' = <<[tok |-> t, given |-> logits'[1]]>>
    BY <1>4 DEF DecodeOk
  <2>2. final' # <<>> /\ Len(final') = 1
    BY <2>1
  <2>. QED
    BY <1>4, <2>2 DEF DecodeOk, Places, InStep, Judged
<1>5. CASE BeginDraft
  <2>1. Len(drafts') = 0 /\ Len(logits') = 0
    BY <1>5, EmptySeq DEF BeginDraft
  <2>2. setup.mode = "draft" /\ phase = "loop" /\ phase' = "draft" /\ final' = final /\ accepted' = 0
    BY <1>5 DEF BeginDraft, InLoop
  <2>. QED
    BY <1>1, <1>2, <2>1, <2>2 DEF Places, InStep, Judged
<1>6. CASE BeginEagleOk
  <2>1. Len(drafts') = 0
    BY <1>6, EmptySeq DEF BeginEagleOk
  <2>2. setup.mode = "eagle3" /\ phase = "loop" /\ phase' = "draft" /\ final' = final /\ accepted' = 0
    BY <1>6 DEF BeginEagleOk, InLoop
  <2>3. Len(logits') = 1
    BY <1>6, DecodeNextFacts DEF BeginEagleOk
  <2>. QED
    BY <1>1, <1>2, <2>1, <2>2, <2>3 DEF Places, InStep, Judged
<1>7. CASE DraftToken \/ DraftHead
  <2>1. PICK t \in Tokens : drafts' = Append(drafts, t)
    BY <1>7 DEF DraftToken, DraftHead
  <2>2. Len(drafts') = Len(drafts) + 1
    BY <1>1, <2>1, AppendProperties
  <2>3. /\ phase = "draft" /\ phase' = phase /\ Len(drafts) < k /\ final' = final
        /\ accepted' = accepted /\ logits' = logits
    BY <1>7 DEF DraftToken, DraftHead
  <2>. QED
    BY <1>1, <1>2, <2>2, <2>3 DEF Places, InStep, Judged
<1>8. CASE VerifyOk
  <2>1. ToVerify \in Seq(Nat) /\ Len(ToVerify) = IF setup.mode = "draft" THEN 1 + k ELSE k
    BY <1>8, VerifiedTokens DEF ToVerify, VerifyOk
  <2>2. Len(logits') = Len(logits) + Len(ToVerify)
    BY <1>8, <2>1, VerifyFacts DEF VerifyOk
  <2>3. /\ phase = "draft" /\ phase' = "judge" /\ Len(drafts) = k /\ drafts' = drafts
        /\ final' = final /\ accepted' = accepted
    BY <1>8 DEF VerifyOk
  <2>4. final = <<>> /\ accepted = 0 /\ Len(final) = 0
    BY <2>3, EmptySeq DEF Places
  <2>5. Len(logits') = k + 1
    <3>1. Len(logits) = IF setup.mode = "draft" THEN 0 ELSE 1
      BY <2>3 DEF Places
    <3>. QED
      BY <1>1, <2>1, <2>2, <3>1
  <2>. QED
    BY <1>1, <1>2, <2>3, <2>4, <2>5 DEF Places, InStep, Judged
<1>9. CASE Accept
  <2>1. /\ phase = "judge" /\ accepted < k /\ phase' = phase /\ accepted' = accepted + 1
        /\ drafts' = drafts /\ logits' = logits /\ Produce(drafts[accepted + 1], accepted + 1)
    BY <1>9 DEF Accept
  <2>2. /\ Len(drafts) = k /\ Len(final) = accepted /\ Len(logits) = k + 1
        /\ \A i \in 1 .. accepted : final[i].tok = drafts[i]
        /\ setup.mode \in {"draft", "eagle3"}
    BY <2>1 DEF Places, Judged, InStep
  <2> DEFINE h == accepted + 1
             t == drafts[h]
  <2>3. h \in 1 .. Len(drafts) /\ t \in Tokens
    BY <1>1, <2>1, <2>2
  <2> HIDE DEF t
  <2>4. /\ Len(final') = Len(final) + 1
        /\ \A i \in 1 .. Len(final) : final'[i] = final[i]
        /\ final'[Len(final) + 1] = [tok |-> t, given |-> logits[accepted + 1]]
    BY <2>1, <2>3, ProduceType DEF t
  <2>5. ASSUME NEW i \in 1 .. h PROVE final'[i].tok = drafts'[i]
    <3>1. CASE i \in 1 .. accepted
      BY <2>1, <2>2, <2>4, <3>1
    <3>2. CASE i = h
      <4>1. final'[h].tok = t
        BY <2>2, <2>4
      <4>. QED
        BY <2>1, <3>2, <4>1 DEF t
    <3>. QED
      BY <1>1, <3>1, <3>2
  <2>. QED
    BY <1>1, <1>2, <2>1, <2>2, <2>4, <2>5 DEF Places, InStep, Judged
<1>10. CASE Reject \/ Bonus
  <2>1. PICK t \in Tokens : Produce(t, accepted + 1)
    BY <1>10 DEF Reject, Bonus
  <2>2. /\ phase = "judge" /\ phase' = "rollback" /\ accepted' = accepted
        /\ drafts' = drafts /\ logits' = logits
    BY <1>10 DEF Reject, Bonus, step
  <2>3. /\ Len(drafts) = k /\ Len(final) = accepted /\ Len(logits) = k + 1 /\ accepted <= k
        /\ \A i \in 1 .. accepted : final[i].tok = drafts[i]
        /\ setup.mode \in {"draft", "eagle3"}
    BY <2>2 DEF Places, Judged, InStep
  <2>4. /\ Len(final') = Len(final) + 1
        /\ \A i \in 1 .. Len(final) : final'[i] = final[i]
    BY <2>1, <2>2, ProduceType
  <2>5. \A i \in 1 .. accepted : final'[i].tok = drafts'[i]
    BY <2>2, <2>3, <2>4
  <2>. QED
    BY <1>1, <1>2, <2>2, <2>3, <2>4, <2>5 DEF Places, InStep, Judged
<1>11. CASE Rollback
  <2>1. phase = "rollback" /\ phase' = "print" /\ final' = final
    BY <1>11 DEF Rollback
  <2>2. Len(final) = accepted + 1 /\ setup.mode \in {"draft", "eagle3"}
    BY <2>1 DEF Places, Judged, InStep
  <2>3. final # <<>>
    BY <1>1, <2>2, EmptySeq
  <2>. QED
    BY <1>2, <2>1, <2>2, <2>3 DEF Places, InStep, Judged
<1>12. CASE Emit
  <2>1. phase = "print" /\ final # <<>>
    BY <1>12 DEF Emit, Places
  <2>2. Len(Tail(final)) = Len(final) - 1 /\ Tail(final) \in Seq(Drawn)
    BY <1>1, <2>1, HeadTailProperties
  <2>3. setup.mode = "plain" => Len(Tail(final)) = 0
    BY <2>1, <2>2 DEF Places
  <2>4. setup.mode = "plain" => Tail(final) = <<>>
    BY <2>2, <2>3, EmptySeq
  <2>5. CASE final' = Tail(final) /\ phase' = IF Tail(final) = <<>> THEN "loop" ELSE "print"
    BY <1>2, <2>4, <2>5 DEF Places, InStep, Judged
  <2>6. CASE final' = <<>> /\ phase' = "done"
    BY <2>6 DEF Places, InStep, Judged
  <2>. QED
    BY <1>12, <2>5, <2>6 DEF Emit
<1>13. CASE Fail
  BY <1>13 DEF Fail, Places, InStep, Judged
<1>14. CASE UNCHANGED vars
  BY <1>14 DEF vars, step, Places, InStep, Judged
<1>. QED
  BY <1>3, <1>4, <1>5, <1>6, <1>7, <1>8, <1>9, <1>10, <1>11, <1>12, <1>13, <1>14, Steps

---------------------------------------------------------------------------
(* What the steps do to the target's cache, and to the text it has read *)

Untouched == /\ target' = target
             /\ Live' => Live /\ Text' = Text
             /\ Judged' => Judged
ReadsOne == /\ target' \in Evictions(m, Feed(m, target, <<current_token>>, FALSE), setup.kv_budget)
            /\ logits' = <<Context(Feed(m, target, <<current_token>>, FALSE),
                                   Len(Feed(m, target, <<current_token>>, FALSE).layer))>>
            /\ Live /\ Text' = Text \o <<current_token>>
            /\ setup.mode # "draft" /\ ~Judged'
ReadsDraft == /\ VerifyDraft(ToVerify, logits)
              /\ Live /\ Text' = Text \o ToVerify
              /\ setup.mode # "plain" /\ setup.draft_k <= Len(ToVerify)
CutsBack == /\ target' = TruncateKv(target, start.target + 1 + accepted)
            /\ Live /\ Len(output) + accepted <= Len(Text)
            /\ Text' = SubSeq(Text, 1, Len(output) + accepted)
            /\ setup.mode # "plain" /\ Judged /\ ~Judged'

\* What is printed moves from the one part of the text to the other.
LEMMA EmitWhole ==
    ASSUME NEW out \in Seq(Drawn), NEW fin \in Seq(Drawn), fin # <<>>
    PROVE  Append(out, Head(fin)) \o Tail(fin) = out \o fin
<1> DEFINE h == Head(fin)
           t == Tail(fin)
           o == Append(out, h)
<1>1. /\ h \in Drawn /\ t \in Seq(Drawn) /\ Len(t) = Len(fin) - 1
      /\ \A i \in 1 .. Len(t) : t[i] = fin[i + 1]
  BY HeadTailProperties
<1>2. Len(fin) \in Nat \ {0} /\ Len(out) \in Nat /\ h = fin[1]
  BY EmptySeq
<1> HIDE DEF h, t
<1>3. /\ o \in Seq(Drawn) /\ Len(o) = Len(out) + 1
      /\ \A i \in 1 .. Len(out) : o[i] = out[i]
      /\ o[Len(out) + 1] = h
  BY <1>1, AppendProperties
<1> HIDE DEF o
<1>4. /\ o \o t \in Seq(Drawn) /\ Len(o \o t) = Len(o) + Len(t)
      /\ \A i \in 1 .. Len(o) + Len(t) : (o \o t)[i] = IF i <= Len(o) THEN o[i] ELSE t[i - Len(o)]
  BY <1>1, <1>3, ConcatProperties
<1>5. /\ out \o fin \in Seq(Drawn) /\ Len(out \o fin) = Len(out) + Len(fin)
      /\ \A i \in 1 .. Len(out) + Len(fin) :
            (out \o fin)[i] = IF i <= Len(out) THEN out[i] ELSE fin[i - Len(out)]
  BY ConcatProperties
<1>6. Len(o \o t) = Len(out \o fin)
  BY <1>1, <1>2, <1>3, <1>4, <1>5
<1>7. ASSUME NEW i \in 1 .. Len(o \o t) PROVE (o \o t)[i] = (out \o fin)[i]
  <2>0. i \in 1 .. Len(o) + Len(t) /\ i \in 1 .. Len(out) + Len(fin)
    BY <1>4, <1>5, <1>6
  <2>1. CASE i <= Len(out)
    <3>1. i \in 1 .. Len(out) /\ i <= Len(o)
      BY <1>2, <1>3, <2>0, <2>1
    <3>. QED
      BY <1>3, <1>4, <1>5, <2>0, <2>1, <3>1
  <2>2. CASE i = Len(out) + 1
    <3>1. i <= Len(o) /\ ~(i <= Len(out)) /\ i - Len(out) = 1
      BY <1>2, <1>3, <2>2
    <3>2. (o \o t)[i] = h /\ (out \o fin)[i] = fin[1]
      BY <1>3, <1>4, <1>5, <2>0, <2>2, <3>1
    <3>. QED
      BY <1>2, <3>2
  <2>3. CASE i > Len(out) + 1
    <3> DEFINE j == i - Len(o)
    <3>1. j \in 1 .. Len(t) /\ ~(i <= Len(o)) /\ ~(i <= Len(out)) /\ i - Len(out) = j + 1
      BY <1>1, <1>2, <1>3, <2>0, <2>3
    <3>2. (o \o t)[i] = t[j] /\ (out \o fin)[i] = fin[i - Len(out)]
      BY <1>4, <1>5, <2>0, <3>1
    <3> HIDE DEF j
    <3>3. t[j] = fin[j + 1]
      BY <1>1, <3>1
    <3>. QED
      BY <3>1, <3>2, <3>3
  <2>. QED
    BY <1>2, <2>0, <2>1, <2>2, <2>3
<1>8. o \o t = out \o fin
  BY <1>4, <1>5, <1>6, <1>7, SeqEqual
<1>. QED
  BY <1>8 DEF o, h, t

\* A place after the first n.
LEMMA Beyond ==
    ASSUME NEW n \in Int, NEW k \in Int, NEW i \in 1 .. n + k, i > n
    PROVE  \E h \in 1 .. k : i = n + h
<1>1. i - n \in 1 .. k /\ i = n + (i - n)
  OBVIOUS
<1>. QED
  BY <1>1

\* A concatenation.
LEMMA Concat ==
    ASSUME NEW S, NEW s \in Seq(S), NEW q \in Seq(S)
    PROVE  /\ s \o q \in Seq(S) /\ Len(s \o q) = Len(s) + Len(q)
           /\ \A i \in 1 .. Len(s) : (s \o q)[i] = s[i]
           /\ Goes(s \o q, Len(s), q, Len(q))
<1>1. /\ s \o q \in Seq(S) /\ Len(s \o q) = Len(s) + Len(q)
      /\ \A i \in 1 .. Len(s) + Len(q) : (s \o q)[i] = IF i <= Len(s) THEN s[i] ELSE q[i - Len(s)]
  BY ConcatProperties
<1>2. Len(s) \in Nat /\ Len(q) \in Nat
  OBVIOUS
<1>3. ASSUME NEW i \in 1 .. Len(s) PROVE (s \o q)[i] = s[i]
  <2>1. i \in 1 .. Len(s) + Len(q) /\ i <= Len(s)
    BY <1>2
  <2>. QED
    BY <1>1, <2>1
<1>4. ASSUME NEW i \in 1 .. Len(q) PROVE (s \o q)[Len(s) + i] = q[i]
  <2>1. /\ Len(s) + i \in 1 .. Len(s) + Len(q) /\ ~(Len(s) + i <= Len(s))
        /\ Len(s) + i - Len(s) = i
    BY <1>2
  <2>. QED
    BY <1>1, <2>1
<1>. QED
  BY <1>1, <1>3, <1>4 DEF Goes

\* One more word.
LEMMA TextOne ==
    ASSUME NEW out \in Seq(Drawn), out # <<>>, NEW s \in Seq(Nat), NEW t \in Seq(Nat), NEW w \in Nat,
           w = out[Len(out)].tok, Len(s) = Len(out) - 1, Len(t) = Len(out),
           Spells(s, out), Spells(t, out)
    PROVE  t = s \o <<w>>
<1> DEFINE q == <<w>>
<1>1. q \in Seq(Nat) /\ Len(q) = 1 /\ q[1] = w
  OBVIOUS
<1>2. Len(out) \in Nat \ {0}
  BY EmptySeq
<1> HIDE DEF q
<1>3. /\ s \o q \in Seq(Nat) /\ Len(s \o q) = Len(s) + Len(q)
      /\ \A i \in 1 .. Len(s) : (s \o q)[i] = s[i]
      /\ Goes(s \o q, Len(s), q, Len(q))
  BY <1>1, Concat
<1>4. Len(t) = Len(s \o q)
  BY <1>1, <1>2, <1>3
<1>5. ASSUME NEW i \in 1 .. Len(t) PROVE t[i] = (s \o q)[i]
  <2>1. i \in 1 .. Len(out) /\ t[i] = out[i].tok
    BY <1>2 DEF Spells
  <2>2. CASE i <= Len(s)
    <3>1. i \in 1 .. Len(s)
      BY <2>2
    <3>2. s[i] = out[i].tok
      BY <2>1, <2>2 DEF Spells
    <3>. QED
      BY <1>3, <2>1, <3>1, <3>2
  <2>3. CASE ~(i <= Len(s))
    <3>1. i = Len(out) /\ i = Len(s) + 1
      BY <1>2, <2>1, <2>3
    <3>2. (s \o q)[Len(s) + 1] = w
      BY <1>1, <1>3 DEF Goes
    <3>. QED
      BY <2>1, <3>1, <3>2
  <2>. QED
    BY <2>2, <2>3
<1>6. t = s \o q
  BY <1>3, <1>4, <1>5, SeqEqual
<1>. QED
  BY <1>6 DEF q

\* The last word and a draft.
LEMMA TextDraft ==
    ASSUME NEW out \in Seq(Drawn), out # <<>>, NEW dr \in Seq(Nat), NEW q \in Seq(Nat),
           NEW s \in Seq(Nat), NEW t \in Seq(Nat),
           Len(q) = 1 + Len(dr), q[1] = out[Len(out)].tok, Goes(q, 1, dr, Len(dr)),
           Len(s) = Len(out) - 1, Len(t) = Len(out) + Len(dr),
           Spells(s, out), Spells(t, out), Goes(t, Len(out), dr, Len(dr))
    PROVE  t = s \o q
<1>1. Len(out) \in Nat \ {0} /\ Len(dr) \in Nat
  BY EmptySeq
<1>2. /\ s \o q \in Seq(Nat) /\ Len(s \o q) = Len(s) + Len(q)
      /\ \A i \in 1 .. Len(s) : (s \o q)[i] = s[i]
      /\ Goes(s \o q, Len(s), q, Len(q))
  BY Concat
<1>3. Len(t) = Len(s \o q)
  BY <1>1, <1>2
<1>4. ASSUME NEW i \in 1 .. Len(t) PROVE t[i] = (s \o q)[i]
  <2>2. CASE i <= Len(s)
    <3>1. i \in 1 .. Len(out) /\ i \in 1 .. Len(s) /\ i <= Len(t)
      BY <1>1, <2>2
    <3>2. s[i] = out[i].tok /\ t[i] = out[i].tok
      BY <2>2, <3>1 DEF Spells
    <3>. QED
      BY <1>2, <3>1, <3>2
  <2>3. CASE i = Len(out)
    <3>1. i = Len(s) + 1 /\ i \in 1 .. Len(out) /\ i <= Len(t) /\ 1 \in 1 .. Len(q)
      BY <1>1, <2>3
    <3>2. t[i] = out[i].tok
      BY <3>1 DEF Spells
    <3>3. (s \o q)[Len(s) + 1] = q[1]
      BY <1>2, <3>1 DEF Goes
    <3>. QED
      BY <2>3, <3>1, <3>2, <3>3
  <2>4. CASE i > Len(out)
    <3>0. Len(t) = Len(out) + Len(dr) /\ Len(s) = Len(out) - 1 /\ Len(q) = 1 + Len(dr)
      OBVIOUS
    <3>4. PICK h \in 1 .. Len(dr) : i = Len(out) + h
      <4> DEFINE n == Len(out)
                 k == Len(dr)
      <4>1. n \in Int /\ k \in Int /\ i \in 1 .. n + k /\ i > n
        BY <1>1, <2>4, <3>0
      <4> HIDE DEF n, k
      <4>2. \E h \in 1 .. k : i = n + h
        BY <4>1, Beyond
      <4>. QED
        BY <4>2 DEF n, k
    <3>1. i = Len(s) + (1 + h) /\ 1 + h \in 1 .. Len(q)
      BY <1>1, <3>0, <3>4
    <3>2. (s \o q)[Len(s) + (1 + h)] = q[1 + h]
      BY <1>2, <3>1 DEF Goes
    <3>3. q[1 + h] = dr[h] /\ t[Len(out) + h] = dr[h]
      BY <3>1 DEF Goes
    <3>. QED
      BY <3>1, <3>2, <3>3, <3>4
  <2>5. i <= Len(s) \/ i = Len(out) \/ i > Len(out)
    BY <1>1
  <2>. QED
    BY <2>2, <2>3, <2>4, <2>5
<1>. QED
  BY <1>2, <1>3, <1>4, SeqEqual

\* What was accepted of a draft.
LEMMA TextCut ==
    ASSUME NEW out \in Seq(Drawn), out # <<>>, NEW dr \in Seq(Nat), NEW u \in Seq(Nat),
           NEW s \in Seq(Nat), NEW t \in Seq(Nat), NEW a \in Nat, a <= Len(dr),
           \A i \in 1 .. a : u[i] = dr[i],
           Len(s) = Len(out) + Len(dr), Len(t) = Len(out) + a,
           Spells(s, out), Goes(s, Len(out), dr, Len(dr)),
           Spells(t, out), Goes(t, Len(out), u, a)
    PROVE  t = SubSeq(s, 1, Len(out) + a)
<1> DEFINE n == Len(out) + a
           p == SubSeq(s, 1, n)
<1>1. Len(out) \in Nat \ {0} /\ Len(dr) \in Nat
  BY EmptySeq
<1>2. n \in Nat /\ n <= Len(s) /\ Len(t) = n
  BY <1>1
<1>3. ASSUME NEW i \in 1 .. n PROVE t[i] = s[i]
  <2>1. CASE i <= Len(out)
    <3>1. i \in 1 .. Len(out) /\ i <= Len(s) /\ i <= Len(t)
      BY <1>1, <1>2, <2>1
    <3>. QED
      BY <3>1 DEF Spells
  <2>2. CASE i > Len(out)
    <3>1. PICK h \in 1 .. a : i = Len(out) + h
      <4> DEFINE p0 == Len(out)
      <4>1. p0 \in Int /\ a \in Int /\ i \in 1 .. p0 + a /\ i > p0
        BY <1>1, <2>2
      <4> HIDE DEF p0
      <4>2. \E h \in 1 .. a : i = p0 + h
        BY <4>1, Beyond
      <4>. QED
        BY <4>2 DEF p0
    <3>3. h \in 1 .. Len(dr)
      BY <1>1
    <3>2. t[Len(out) + h] = u[h] /\ u[h] = dr[h] /\ s[Len(out) + h] = dr[h]
      BY <3>1, <3>3 DEF Goes
    <3>. QED
      BY <3>1, <3>2
  <2>. QED
    BY <1>1, <2>1, <2>2
<1> HIDE DEF n
<1>4. p \in Seq(Nat) /\ Len(p) = n /\ \A i \in 1 .. n : p[i] = s[i]
  BY <1>2, PrefixFacts
<1> HIDE DEF p
<1>5. \A i \in 1 .. Len(t) : t[i] = p[i]
  BY <1>2, <1>3, <1>4
<1>6. t = p
  BY <1>2, <1>4, <1>5, SeqEqual
<1>. QED
  BY <1>6 DEF p, n

\* The text before a step.
LEMMA TextFacts ==
    ASSUME TypeOK
    PROVE  IsRead(Text, phase, setup.mode, output, drafts, final)
BY IsReadFacts DEF TypeOK, Text

\* And after it.
LEMMA TextFactsNext ==
    ASSUME TypeOK'
    PROVE  IsRead(Text', phase', setup'.mode, output', drafts', final')
<1>1. /\ output' \in Seq(Drawn) /\ output' # <<>> /\ drafts' \in Seq(Tokens)
      /\ final' \in Seq(Drawn)
  BY DEF TypeOK
<1>2. Text' = ReadIn(phase', setup'.mode, output', drafts', final')
  BY DEF Text
<1>. QED
  BY <1>1, <1>2, IsReadFacts

\* A decode step, that of the loop or that before a draft, reads one token.
LEMMA DecodeReads ==
    ASSUME TypeOK, TypeOK', Places, Places', [Next]_vars, DecodeOk \/ BeginEagleOk
    PROVE  ReadsOne
<1>1. /\ output \in Seq(Drawn) /\ output # <<>> /\ drafts \in Seq(Tokens) /\ final \in Seq(Drawn)
      /\ accepted \in Nat
      /\ setup.mode \in {"plain", "draft", "eagle3"}
  BY SetupFacts DEF TypeOK
<1>2. setup' = setup
  BY SetupStays
<1>3. /\ Text \in Seq(Nat) /\ Spells(Text, output)
      /\ Len(Text) = IF Verified(phase) THEN Len(output) + Len(drafts)
                     ELSE IF Headed(phase, setup.mode) THEN Len(output)
                     ELSE Len(output) + Len(final) - 1
      /\ Verified(phase) => Goes(Text, Len(output), drafts, Len(drafts))
  BY TextFacts DEF IsRead
<1>4. /\ Text' \in Seq(Nat) /\ Spells(Text', output')
      /\ Len(Text') = IF Verified(phase') THEN Len(output') + Len(drafts')
                      ELSE IF Headed(phase', setup'.mode) THEN Len(output')
                      ELSE Len(output') + Len(final') - 1
      /\ Verified(phase') => Goes(Text', Len(output'), drafts', Len(drafts'))
      /\ ~Verified(phase') /\ ~Headed(phase', setup'.mode) =>
            Goes(Text', Len(output'), TokensOf(final'), Len(final') - 1)
  BY TextFactsNext DEF IsRead
<1>5. /\ Len(output) \in Nat \ {0} /\ current_token = output[Len(output)].tok
      /\ current_token \in Nat /\ drafts \in Seq(Nat) /\ Len(drafts) \in Nat
  BY <1>1, LastFacts, VerifiedTokens
<1>6. CASE DecodeOk
  <2>1. /\ phase = "loop" /\ phase' = "print" /\ setup.mode = "plain" /\ output' = output
        /\ DecodeNext(current_token)
    BY <1>6 DEF DecodeOk, InLoop
  <2>2. final = <<>> /\ Len(final) = 0
    BY <2>1, EmptySeq DEF Places
  <2>3. Len(final') = 1
    BY <1>6 DEF DecodeOk
  <2>4. Len(Text) = Len(output) - 1 /\ Len(Text') = Len(output)
    BY <1>2, <1>3, <1>4, <1>5, <2>1, <2>2, <2>3 DEF Verified, Headed
  <2>5. Text' = Text \o <<current_token>>
    <3> DEFINE s == Text
               t == Text'
               w == current_token
    <3>1. /\ s \in Seq(Nat) /\ t \in Seq(Nat) /\ w \in Nat /\ w = output[Len(output)].tok
          /\ Len(s) = Len(output) - 1 /\ Len(t) = Len(output)
          /\ Spells(s, output) /\ Spells(t, output)
      BY <1>3, <1>4, <1>5, <2>1, <2>4
    <3> HIDE DEF s, t, w
    <3>2. t = s \o <<w>>
      BY <1>1, <3>1, TextOne
    <3>. QED
      BY <3>2 DEF s, t, w
  <2>. QED
    BY <1>2, <2>1, <2>5 DEF ReadsOne, DecodeNext, Live, Judged
<1>7. CASE BeginEagleOk
  <2>1. /\ phase = "loop" /\ phase' = "draft" /\ setup.mode = "eagle3" /\ output' = output
        /\ DecodeNext(current_token)
    BY <1>7 DEF BeginEagleOk, InLoop
  <2>2. final = <<>> /\ Len(final) = 0
    BY <2>1, EmptySeq DEF Places
  <2>3. Len(Text) = Len(output) - 1 /\ Len(Text') = Len(output)
    BY <1>2, <1>3, <1>4, <1>5, <2>1, <2>2 DEF Verified, Headed
  <2>4. Text' = Text \o <<current_token>>
    <3> DEFINE s == Text
               t == Text'
               w == current_token
    <3>1. /\ s \in Seq(Nat) /\ t \in Seq(Nat) /\ w \in Nat /\ w = output[Len(output)].tok
          /\ Len(s) = Len(output) - 1 /\ Len(t) = Len(output)
          /\ Spells(s, output) /\ Spells(t, output)
      BY <1>3, <1>4, <1>5, <2>1, <2>3
    <3> HIDE DEF s, t, w
    <3>2. t = s \o <<w>>
      BY <1>1, <3>1, TextOne
    <3>. QED
      BY <3>2 DEF s, t, w
  <2>. QED
    BY <1>2, <2>1, <2>4 DEF ReadsOne, DecodeNext, Live, Judged
<1>. QED
  BY <1>6, <1>7

\* Every step does one of these.
LEMMA TargetMoves ==
    ASSUME TypeOK, TypeOK', Places, Places', [Next]_vars
    PROVE  Untouched \/ ReadsOne \/ ReadsDraft \/ CutsBack
<1>1. /\ output \in Seq(Drawn) /\ output # <<>> /\ drafts \in Seq(Tokens) /\ final \in Seq(Drawn)
      /\ accepted \in Nat
      /\ setup.mode \in {"plain", "draft", "eagle3"}
  BY SetupFacts DEF TypeOK
<1>2. setup' = setup
  BY SetupStays
<1>3. /\ Text \in Seq(Nat) /\ Spells(Text, output)
      /\ Len(Text) = IF Verified(phase) THEN Len(output) + Len(drafts)
                     ELSE IF Headed(phase, setup.mode) THEN Len(output)
                     ELSE Len(output) + Len(final) - 1
      /\ Verified(phase) => Goes(Text, Len(output), drafts, Len(drafts))
  BY TextFacts DEF IsRead
<1>4. /\ Text' \in Seq(Nat) /\ Spells(Text', output')
      /\ Len(Text') = IF Verified(phase') THEN Len(output') + Len(drafts')
                      ELSE IF Headed(phase', setup'.mode) THEN Len(output')
                      ELSE Len(output') + Len(final') - 1
      /\ Verified(phase') => Goes(Text', Len(output'), drafts', Len(drafts'))
      /\ ~Verified(phase') /\ ~Headed(phase', setup'.mode) =>
            Goes(Text', Len(output'), TokensOf(final'), Len(final') - 1)
  BY TextFactsNext DEF IsRead
<1>5. /\ Len(output) \in Nat \ {0} /\ current_token = output[Len(output)].tok
      /\ current_token \in Nat /\ drafts \in Seq(Nat) /\ Len(drafts) \in Nat
  BY <1>1, LastFacts, VerifiedTokens
<1>6. CASE EndLoop
  <2>1. target' = target /\ phase' = "done"
    BY <1>6 DEF EndLoop
  <2>. QED
    BY <2>1 DEF Untouched, Live, Judged
<1>7. CASE DecodeOk
  BY <1>7, DecodeReads
<1>8. CASE BeginDraft
  <2>1. /\ phase = "loop" /\ phase' = "draft" /\ setup.mode = "draft" /\ output' = output
        /\ final' = final /\ target' = target
    BY <1>8 DEF BeginDraft, InLoop
  <2>2. Text' = Text
    BY <1>2, <2>1 DEF Text, ReadIn
  <2>. QED
    BY <2>1, <2>2 DEF Untouched, Live, Judged
<1>9. CASE BeginEagleOk
  BY <1>9, DecodeReads
<1>10. CASE DraftToken \/ DraftHead
  <2>1. /\ phase = "draft" /\ phase' = phase /\ output' = output /\ final' = final
        /\ target' = target
    BY <1>10 DEF DraftToken, DraftHead
  <2>2. Text' = Text
    BY <1>2, <2>1 DEF Text, ReadIn
  <2>. QED
    BY <2>1, <2>2 DEF Untouched, Live, Judged
<1>11. CASE VerifyOk
  <2>1. /\ phase = "draft" /\ phase' = "judge" /\ output' = output /\ drafts' = drafts
        /\ VerifyDraft(ToVerify, logits) /\ Len(drafts) = setup.draft_k
    BY <1>11 DEF VerifyOk
  <2>2. setup.mode # "plain" /\ final = <<>> /\ Len(final) = 0
    BY <1>1, <2>1, EmptySeq DEF Places, InStep
  <2>3. CASE setup.mode = "draft"
    <3> DEFINE q == <<current_token>> \o drafts
               s == Text
               t == Text'
    <3>1. /\ q \in Seq(Nat) /\ Len(q) = 1 + Len(drafts) /\ q[1] = output[Len(output)].tok
          /\ Goes(q, 1, drafts, Len(drafts))
      BY <1>5, VerifiedTokens DEF Goes
    <3>2. /\ s \in Seq(Nat) /\ t \in Seq(Nat)
          /\ Spells(s, output) /\ Spells(t, output)
          /\ Goes(t, Len(output), drafts, Len(drafts))
      BY <1>3, <1>4, <2>1 DEF Verified
    <3>3. Len(s) = Len(output) - 1 /\ Len(t) = Len(output) + Len(drafts)
      BY <1>3, <1>4, <1>5, <2>1, <2>2, <2>3 DEF Verified, Headed
    <3>4. ToVerify = q
      BY <2>3 DEF ToVerify
    <3> HIDE DEF q, s, t
    <3>5. t = s \o q
      BY <1>1, <1>5, <3>1, <3>2, <3>3, TextDraft
    <3>6. setup.draft_k <= Len(ToVerify)
      BY <1>5, <2>1, <3>1, <3>4
    <3>. QED
      BY <2>1, <2>2, <3>4, <3>5, <3>6 DEF ReadsDraft, Live, s, t
  <2>4. CASE setup.mode # "draft"
    <3>1. ToVerify = drafts
      BY <2>4 DEF ToVerify
    <3>2. Text' = Text \o drafts
      BY <1>2, <2>1, <2>4 DEF Text, ReadIn
    <3>. QED
      BY <1>5, <2>1, <2>2, <3>1, <3>2 DEF ReadsDraft, Live
  <2>. QED
    BY <2>3, <2>4
<1>12. CASE Accept \/ Reject \/ Bonus
  <2>1. /\ phase = "judge" /\ phase' \in {"judge", "rollback"} /\ output' = output
        /\ drafts' = drafts /\ target' = target
    BY <1>12 DEF Accept, Reject, Bonus, step
  <2>2. Text' = Text
    BY <2>1 DEF Text, ReadIn
  <2>. QED
    BY <2>1, <2>2 DEF Untouched, Live, Judged
<1>13. CASE Rollback
  <2>1. /\ phase = "rollback" /\ phase' = "print" /\ output' = output /\ final' = final
        /\ target' = TruncateKv(target, start.target + 1 + accepted)
    BY <1>13 DEF Rollback
  <2>2. /\ Len(final) = accepted + 1 /\ Len(drafts) = setup.draft_k /\ accepted <= setup.draft_k
        /\ \A i \in 1 .. accepted : final[i].tok = drafts[i]
        /\ setup.mode # "plain"
    BY <1>1, <2>1 DEF Places, Judged, InStep
  <2> DEFINE s == Text
             t == Text'
             u == TokensOf(final)
  <2>3. u \in Seq(Nat) /\ \A i \in 1 .. accepted : u[i] = drafts[i]
    <3>1. u \in Seq(Nat) /\ \A i \in 1 .. Len(final) : u[i] = final[i].tok
      BY <1>1, PrintedFacts
    <3>2. \A i \in 1 .. accepted : i \in 1 .. Len(final)
      BY <1>1, <2>2
    <3>. QED
      BY <2>2, <3>1, <3>2
  <2>4. /\ s \in Seq(Nat) /\ t \in Seq(Nat) /\ Spells(s, output) /\ Spells(t, output)
        /\ Goes(s, Len(output), drafts, Len(drafts))
        /\ Goes(t, Len(output), u, Len(final) - 1)
    BY <1>2, <1>3, <1>4, <2>1 DEF Verified, Headed
  <2>5. Len(final) - 1 = accepted /\ accepted <= Len(drafts)
    BY <1>1, <2>2
  <2>6. Len(s) = Len(output) + Len(drafts) /\ Len(t) = Len(output) + accepted
    BY <1>1, <1>2, <1>3, <1>4, <1>5, <2>1, <2>2 DEF Verified, Headed
  <2> HIDE DEF s, t, u
  <2>7. t = SubSeq(s, 1, Len(output) + accepted)
    <3>1. output \in Seq(Drawn) /\ output # <<>> /\ accepted \in Nat /\ drafts \in Seq(Nat)
      BY <1>1, <1>5
    <3>2. accepted <= Len(drafts) /\ Goes(t, Len(output), u, accepted)
      BY <2>4, <2>5
    <3>. QED
      BY <2>3, <2>4, <2>6, <3>1, <3>2, TextCut
  <2>8. Len(output) + accepted <= Len(s)
    BY <1>1, <1>5, <2>5, <2>6
  <2>. QED
    BY <2>1, <2>2, <2>7, <2>8 DEF CutsBack, Live, Judged, s, t
<1>14. CASE Emit
  <2>1. phase = "print" /\ final # <<>> /\ target' = target /\ output' = Append(output, Head(final))
    BY <1>14 DEF Emit, Places
  <2>2. CASE phase' = "done"
    BY <2>1, <2>2 DEF Untouched, Live, Judged
  <2>3. CASE final' = Tail(final) /\ phase' \in {"loop", "print"}
    <3>1. output' \o final' = output \o final
      BY <1>1, <2>1, <2>3, EmitWhole
    <3>2. Text' = Text
      BY <2>1, <2>3, <3>1 DEF Text, ReadIn
    <3>. QED
      BY <2>1, <2>3, <3>2 DEF Untouched, Live, Judged
  <2>. QED
    BY <1>14, <2>2, <2>3 DEF Emit
<1>15. CASE Fail
  <2>1. target' = target /\ phase' = "error"
    BY <1>15 DEF Fail
  <2>. QED
    BY <2>1 DEF Untouched, Live, Judged
<1>16. CASE UNCHANGED vars
  <2>1. /\ phase' = phase /\ output' = output /\ drafts' = drafts /\ final' = final
        /\ target' = target /\ setup' = setup
    BY <1>16 DEF vars, step
  <2>2. Text' = Text
    BY <2>1 DEF Text
  <2>. QED
    BY <2>1, <2>2 DEF Untouched, Live, Judged
<1>. QED
  BY <1>6, <1>7, <1>8, <1>9, <1>10, <1>11, <1>12, <1>13, <1>14, <1>15, <1>16, Steps

---------------------------------------------------------------------------
(* The prefill *)

\* The tokens of a cache that holds a text, and their positions.
LEMMA ExactFacts ==
    ASSUME NEW x, NEW c \in Caches, NEW s \in Seq(Nat), Exact(x, c, s)
    PROVE  /\ TokensOf(c.layer) = s
           /\ Rises(c)
           /\ x.mrope => /\ c.text_pos = Len(s)
                         /\ \A i \in 1 .. Len(c.layer) : c.layer[i].pos < c.text_pos
<1> DEFINE a == c.layer
<1>1. /\ a \in Seq(Pairs) /\ Len(a) \in Nat /\ \A e \in Pairs : e.tok \in Nat
      /\ Len(a) = Len(s) /\ (x.mrope => c.text_pos = Len(s))
      /\ \A i \in 1 .. Len(s) : a[i].tok = s[i] /\ a[i].pos = i - 1
  <2>1. a \in Seq(Pairs) /\ \A e \in Pairs : e.tok \in Nat
    BY DEF Caches, Pairs
  <2>2. Len(a) \in Nat
    BY <2>1
  <2>3. /\ Len(a) = Len(s) /\ (x.mrope => c.text_pos = Len(s))
        /\ \A i \in 1 .. Len(s) : a[i].tok = s[i] /\ a[i].pos = i - 1
    BY DEF Exact
  <2>. QED
    BY <2>1, <2>2, <2>3
<1> HIDE DEF a
<1>2. /\ TokensOf(a) \in Seq(Nat) /\ Len(TokensOf(a)) = Len(a)
      /\ \A i \in 1 .. Len(a) : TokensOf(a)[i] = a[i].tok
  BY <1>1, PairTokens
<1>3. TokensOf(a) = s
  BY <1>1, <1>2, SeqEqual
<1>4. \A i, j \in 1 .. Len(a) : i < j => a[i].pos < a[j].pos
  BY <1>1
<1>5. x.mrope => \A i \in 1 .. Len(a) : a[i].pos < c.text_pos
  BY <1>1
<1>. QED
  BY <1>1, <1>3, <1>4, <1>5 DEF Rises, a

\* A prompt that is prefilled.
LEMMA PrefillFacts ==
    ASSUME NEW x \in Models
    PROVE  /\ Feed(x, Empty, Prompt, TRUE) \in Caches
           /\ Agree(x, Feed(x, Empty, Prompt, TRUE))
           /\ Exact(x, Feed(x, Empty, Prompt, TRUE), Prompt)
           /\ Faithful(x, Feed(x, Empty, Prompt, TRUE), Prompt)
           /\ Prompt \in Seq(Nat) /\ Len(Prompt) \in Nat \ {0}
<1> DEFINE e == <<>>
           f == Feed(x, Empty, Prompt, TRUE)
           c == Empty
<1>1. e \in Seq(Nat) /\ e \in Seq(Pairs) /\ Len(e) = 0
  BY EmptySeq
<1>2. /\ c.layer = e /\ c.flat = e /\ c.state = e /\ c.seq_len = 0 /\ c.text_pos = 0
      /\ c = [layer |-> e, flat |-> e, state |-> e, seq_len |-> 0, text_pos |-> 0]
  BY DEF Empty
<1>3. Prompt \in Seq(Nat) /\ Len(Prompt) \in Nat \ {0}
  <2>1. Prompt \in Seq(Tokens) /\ Prompt # <<>> /\ Tokens \subseteq Nat
    BY SpecAssumption
  <2>2. Prompt \in Seq(Nat)
    BY <2>1, SeqMonotonic
  <2>. QED
    BY <2>1, <2>2, EmptySeq
<1> HIDE DEF e, c
<1>4. c \in Caches
  BY <1>1, <1>2 DEF Caches
<1>5. Agree(x, c) /\ Exact(x, c, e) /\ Faithful(x, c, e)
  BY <1>1, <1>2, PlacedEmpty DEF Agree, Exact, Faithful, e
<1>6. e \o Prompt = Prompt
  <2>1. /\ e \o Prompt \in Seq(Nat) /\ Len(e \o Prompt) = Len(e) + Len(Prompt)
        /\ \A i \in 1 .. Len(e) + Len(Prompt) :
              (e \o Prompt)[i] = IF i <= Len(e) THEN e[i] ELSE Prompt[i - Len(e)]
    BY <1>1, <1>3, ConcatProperties
  <2>2. Len(e \o Prompt) = Len(Prompt) /\ \A i \in 1 .. Len(Prompt) : (e \o Prompt)[i] = Prompt[i]
    BY <1>1, <1>3, <2>1
  <2>. QED
    BY <1>3, <2>1, <2>2, SeqEqual
<1>7. f = Feed(x, c, Prompt, TRUE)
  BY DEF c
<1> HIDE DEF f
<1>8. f \in Caches /\ Agree(x, f)
  BY <1>3, <1>4, <1>5, <1>7, FeedFacts
<1>9. Exact(x, f, Prompt)
  <2>1. Exact(x, Feed(x, c, Prompt, TRUE), e \o Prompt)
    <3>1. c.seq_len = Len(c.layer)
      BY <1>1, <1>2
    <3>. QED
      BY <1>1, <1>3, <1>4, <1>5, <3>1, FeedExact
  <2>. QED
    BY <1>6, <1>7, <2>1
<1>10. Faithful(x, f, Prompt)
  <2>1. Faithful(x, Feed(x, c, Prompt, TRUE), e \o Prompt)
    <3>1. c.seq_len = Len(c.layer) /\ e = <<>>
      BY <1>1, <1>2 DEF e
    <3>. QED
      BY <1>1, <1>3, <1>4, <1>5, <3>1, FeedFaithful
  <2>. QED
    BY <1>6, <1>7, <2>1
<1>. QED
  BY <1>3, <1>8, <1>9, <1>10 DEF f

\* The text at the start.
LEMMA InitText ==
    ASSUME Init
    PROVE  /\ output \in Seq(Drawn) /\ output # <<>> /\ Text = Prompt
           /\ Len(output) = Len(Prompt) + 1
<1> DEFINE w == [i \in DOMAIN Prompt |-> [tok |-> Prompt[i], given |-> SubSeq(Prompt, 1, i - 1)]]
<1>1. PICK t \in Tokens : output = Append(w, [tok |-> t, given |-> Prompt])
  BY DEF Init
<1>2. /\ Prompt \in Seq(Tokens) /\ Prompt \in Seq(Nat) /\ Len(Prompt) \in Nat \ {0}
      /\ \A i \in 1 .. Len(Prompt) : Prompt[i] \in Tokens
      /\ Tokens \subseteq Nat
  <2>1. Prompt \in Seq(Tokens) /\ Prompt # <<>> /\ Tokens \subseteq Nat
    BY SpecAssumption
  <2>2. Prompt \in Seq(Nat)
    BY <2>1, SeqMonotonic
  <2>. QED
    BY <2>1, <2>2, EmptySeq
<1>3. ASSUME NEW i \in 1 .. Len(Prompt)
      PROVE  [tok |-> Prompt[i], given |-> SubSeq(Prompt, 1, i - 1)] \in Drawn
  <2> DEFINE n == i - 1
             g == SubSeq(Prompt, 1, n)
  <2>1. n \in Nat /\ n <= Len(Prompt)
    BY <1>2
  <2> HIDE DEF n
  <2>2. g \in Seq(Nat)
    BY <1>2, <2>1, PrefixFacts
  <2>3. Prompt[i] \in Tokens
    BY <1>2
  <2> HIDE DEF g
  <2>4. [tok |-> Prompt[i], given |-> g] \in Drawn
    BY <2>2, <2>3, DrawnFacts
  <2>. QED
    BY <2>4 DEF g, n
<1>4. /\ w \in Seq(Drawn) /\ Len(w) = Len(Prompt)
      /\ \A i \in 1 .. Len(Prompt) : w[i].tok = Prompt[i]
  <2>1. w \in [1 .. Len(Prompt) -> Drawn]
    BY <1>2, <1>3
  <2>2. \A i \in 1 .. Len(Prompt) : w[i].tok = Prompt[i]
    BY <1>2
  <2> HIDE DEF w
  <2>. QED
    BY <1>2, <2>1, <2>2
<1>5. [tok |-> t, given |-> Prompt] \in Drawn
  BY <1>2, DrawnFacts
<1> DEFINE e == [tok |-> t, given |-> Prompt]
<1> HIDE DEF w, e
<1>6. /\ output \in Seq(Drawn) /\ Len(output) = Len(w) + 1
      /\ \A i \in 1 .. Len(w) : output[i] = w[i]
  BY <1>1, <1>4, <1>5, AppendProperties DEF e
<1>7. output # <<>> /\ Len(output) = Len(Prompt) + 1
  BY <1>2, <1>4, <1>6, EmptySeq
<1>8. IsRead(Text, phase, setup.mode, output, drafts, final)
  <2>1. drafts \in Seq(Tokens) /\ final \in Seq(Drawn)
    BY EmptySeq DEF Init
  <2>. QED
    BY <1>6, <1>7, <2>1, IsReadFacts DEF Text
<1>9. phase = "loop" /\ final = <<>>
  BY DEF Init
<1>10. Text \in Seq(Nat) /\ Len(Text) = Len(Prompt) /\ Spells(Text, output)
  <2>1. Len(final) = 0
    BY <1>9, EmptySeq
  <2>. QED
    BY <1>2, <1>7, <1>8, <1>9, <2>1 DEF IsRead, Verified, Headed
<1>11. ASSUME NEW i \in 1 .. Len(Prompt) PROVE Text[i] = Prompt[i]
  <2>1. i \in 1 .. Len(output) /\ i \in 1 .. Len(w) /\ i <= Len(Text)
    BY <1>2, <1>4, <1>7, <1>10
  <2>2. Text[i] = output[i].tok
    BY <1>10, <2>1 DEF Spells
  <2>3. output[i] = w[i]
    BY <1>6, <2>1
  <2>. QED
    BY <1>4, <2>2, <2>3
<1>12. Text = Prompt
  <2> DEFINE s == Text
  <2>1. s \in Seq(Nat) /\ Len(s) = Len(Prompt) /\ \A i \in 1 .. Len(s) : s[i] = Prompt[i]
    BY <1>10, <1>11
  <2> HIDE DEF s
  <2>2. s = Prompt
    BY <1>2, <2>1, SeqEqual
  <2>. QED
    BY <2>2 DEF s
<1>. QED
  BY <1>6, <1>7, <1>12

\* The invariant holds at the start.
LEMMA InitInv ==
    ASSUME Init
    PROVE  IInv
<1>1. /\ setup \in Setups /\ phase = "loop" /\ start = NoStart /\ drafts = <<>> /\ logits = <<>>
      /\ accepted = 0 /\ final = <<>> /\ full = 0
      /\ target = Feed(m, Empty, Prompt, TRUE)
      /\ draft = IF setup.mode = "draft" THEN Feed(dm, Empty, Prompt, TRUE) ELSE Empty
  BY DEF Init
<1>2. /\ output \in Seq(Drawn) /\ output # <<>> /\ Text = Prompt
      /\ Len(output) = Len(Prompt) + 1
  BY InitText
<1>3. m \in Models /\ dm \in Models /\ dm.bf16 = m.bf16
  BY <1>1, SetupFacts
<1>4. /\ target \in Caches /\ Agree(m, target) /\ Exact(m, target, Prompt)
      /\ Faithful(m, target, Prompt) /\ Prompt \in Seq(Nat) /\ Len(Prompt) \in Nat \ {0}
  BY <1>1, <1>3, PrefillFacts
<1>5. /\ draft \in Caches /\ Agree(m, draft)
      /\ setup.mode = "draft" => Exact(dm, draft, Prompt)
  <2>1. CASE setup.mode = "draft"
    <3>1. draft \in Caches /\ Agree(dm, draft) /\ Exact(dm, draft, Prompt)
      BY <1>1, <1>3, <2>1, PrefillFacts
    <3>. QED
      BY <1>3, <3>1 DEF Agree
  <2>2. CASE setup.mode # "draft"
    <3>1. draft = Empty
      BY <1>1, <2>2
    <3>2. <<>> \in Seq(Pairs) /\ <<>> \in Seq(Nat) /\ Len(<<>>) = 0
      BY EmptySeq
    <3>. QED
      BY <2>2, <3>1, <3>2 DEF Empty, Caches, Agree
  <2>. QED
    BY <2>1, <2>2
<1>6. TypeOK
  <2>1. <<>> \in Seq(Tokens) /\ <<>> \in Seq(Drawn) /\ <<>> \in Seq(Seq(Nat))
    BY EmptySeq
  <2>. QED
    BY <1>1, <1>2, <1>4, <1>5, <2>1 DEF TypeOK, NoStart
<1>7. Places /\ Starts /\ WithinBudget
  BY <1>1 DEF Places, Starts, InStep, Judged, WithinBudget, Decoded
<1>8. Agreement
  BY <1>4, <1>5 DEF Agreement
<1>9. TokensOf(target.layer) = Prompt /\ IsPart(Prompt, Prompt)
  BY <1>4, ExactFacts, PartSelf
<1>10. Reads /\ Sounds
  BY <1>2, <1>4, <1>9 DEF Reads, Sounds
<1>11. Givens
  <2>1. Len(final) = 0
    BY <1>1, EmptySeq
  <2>. QED
    BY <1>1, <2>1 DEF Givens, Judged
<1>12. Ahead
  BY <1>1, <1>2, <1>4, ExactFacts DEF Ahead, Judged
<1>13. Lags
  <2> SUFFICES ASSUME setup.mode = "draft"
               PROVE  /\ Len(draft.layer) = Len(target.layer)
                      /\ IsPart(TokensOf(draft.layer), Prompt)
    <3>1. full = 0 /\ Text = Prompt
      BY <1>1, <1>2
    <3>2. ~InStep
      BY <1>1 DEF InStep
    <3>3. Len(draft.layer) \in Nat
      BY <1>5 DEF Caches
    <3>4. Len(draft.layer) + full = Len(draft.layer)
      BY <3>1, <3>3
    <3>. QED
      BY <3>1, <3>2, <3>4 DEF Lags
  <2>1. Len(draft.layer) = Len(Prompt) /\ Len(target.layer) = Len(Prompt)
    BY <1>4, <1>5 DEF Exact
  <2>2. TokensOf(draft.layer) = Prompt
    BY <1>4, <1>5, ExactFacts
  <2>. QED
    BY <1>9, <2>1, <2>2
<1>. QED
  BY <1>6, <1>7, <1>8, <1>10, <1>11, <1>12, <1>13 DEF IInv

---------------------------------------------------------------------------
(* The caches agree with themselves, whatever a step does *)

\* A part is no longer than the whole.
LEMMA PartLength ==
    ASSUME NEW S, NEW s \in Seq(S), NEW t \in Seq(S), IsPart(s, t)
    PROVE  Len(s) <= Len(t)
<1>1. PICK K \in SUBSET (1 .. Len(t)) : Cardinality(K) = Len(s)
  BY PicksGather
<1>2. Len(t) \in Nat
  OBVIOUS
<1> DEFINE n == Len(t)
<1>3. n \in Nat /\ K \in SUBSET (1 .. n)
  BY <1>1, <1>2
<1> HIDE DEF n
<1>4. IsFiniteSet(1 .. n) /\ Cardinality(1 .. n) = n
  BY <1>3, FS_Interval
<1>5. Cardinality(K) <= n
  BY <1>3, <1>4, FS_Subset
<1>. QED
  BY <1>1, <1>5 DEF n

\* What a decode step leaves ends with the token it has read.
LEMMA DecodeFacts ==
    ASSUME TypeOK, Agreement,
           target' \in Evictions(m, Feed(m, target, <<current_token>>, FALSE), setup.kv_budget)
    PROVE  /\ target' \in Caches /\ Agree(m, target')
           /\ Len(target'.layer) <= Len(target.layer) + 1
           /\ Last(target'.layer).tok = current_token
           /\ ~NoEviction =>
                 Len(target'.layer) <= Max({setup.kv_budget + Hysteresis(setup.kv_budget),
                                            SinkCount + RecentWindow})
<1> DEFINE toks == <<current_token>>
           c == Feed(m, target, toks, FALSE)
           b == setup.kv_budget
           e == target'
<1>1. m \in Models /\ b \in Nat /\ target \in Caches /\ Agree(m, target)
  BY SetupFacts DEF TypeOK, Agreement
<1>2. toks \in Seq(Nat) /\ Len(toks) = 1 /\ toks[1] = current_token
  BY LastFacts DEF TypeOK
<1>3. e \in Evictions(m, c, b)
  OBVIOUS
<1> HIDE DEF toks
<1>4. c \in Caches /\ IsFed(m, target, toks, c) /\ Agree(m, c)
  BY <1>1, <1>2, FeedFacts
<1> HIDE DEF c, e, b
<1>5. /\ e \in Caches /\ Agree(m, e)
      /\ \E g : /\ Picks(e.layer, c.layer, g)
                /\ Len(c.layer) > 0 => /\ Len(e.layer) > 0
                                       /\ g[Len(e.layer)] = Len(c.layer)
      /\ b # 0 => \/ Len(e.layer) <= b + Hysteresis(b)
                  \/ Len(e.layer) <= b
                  \/ Len(e.layer) <= SinkCount + RecentWindow
  BY <1>1, <1>3, <1>4, EvictFacts
<1>6. PICK g : /\ Picks(e.layer, c.layer, g)
               /\ Len(c.layer) > 0 => Len(e.layer) > 0 /\ g[Len(e.layer)] = Len(c.layer)
  BY <1>5
<1> DEFINE n == Len(target.layer)
           k == Len(e.layer)
<1>7. /\ Len(c.layer) = n + 1 /\ n \in Nat /\ k \in Nat /\ c.layer[n + 1].tok = current_token
  <2>1. target.layer \in Seq(Pairs) /\ e.layer \in Seq(Pairs)
    BY <1>1, <1>5 DEF Caches
  <2>2. n \in Nat /\ k \in Nat
    BY <2>1
  <2>3. Len(toks) = 1 /\ toks[1] = current_token
    BY <1>2
  <2>4. Len(c.layer) = n + 1
    BY <1>4, <2>3 DEF IsFed
  <2>5. 1 \in 1 .. Len(toks)
    BY <2>3
  <2>6. c.layer[n + 1].tok = toks[1]
    BY <1>4, <2>5 DEF IsFed
  <2>. QED
    BY <2>2, <2>3, <2>4, <2>6
<1>8. k > 0 /\ g[k] = n + 1 /\ e.layer[k] = c.layer[g[k]]
  BY <1>6, <1>7 DEF Picks
<1>9. Last(e.layer).tok = current_token
  BY <1>7, <1>8 DEF Last
<1>10. k <= n + 1
  <2> DEFINE s == e.layer
             t == c.layer
  <2>1. s \in Seq(Pairs) /\ t \in Seq(Pairs) /\ IsPart(s, t)
    BY <1>4, <1>5, <1>6 DEF Caches, IsPart
  <2> HIDE DEF s, t
  <2>2. Len(s) <= Len(t)
    BY <2>1, PartLength
  <2>. QED
    BY <1>7, <2>2 DEF s, t
<1>11. ASSUME ~NoEviction PROVE k <= Max({b + Hysteresis(b), SinkCount + RecentWindow})
  <2> DEFINE h == Hysteresis(b)
             p == b + h
             q == SinkCount + RecentWindow
  <2>1. h \in Nat
    <3> DEFINE d == b \div HysteresisDiv
    <3>1. HysteresisDiv \in Nat \ {0} /\ HysteresisMax \in Nat
      BY KvAssumption
    <3>2. d \in Nat
      BY <1>1, <3>1
    <3> HIDE DEF d
    <3>3. Min({d, HysteresisMax}) \in Nat
      BY <3>1, <3>2, MinTwo
    <3>. QED
      BY <3>3 DEF Hysteresis, d
  <2>2. q \in Nat /\ p \in Nat
    BY <1>1, <2>1, KvAssumption
  <2>3. k <= p \/ k <= b \/ k <= q
    BY <1>5, <1>11 DEF NoEviction, b
  <2> HIDE DEF h
  <2>4. b <= p
    BY <1>1, <2>1
  <2> HIDE DEF p, q
  <2>5. Max({p, q}) = IF p <= q THEN q ELSE p
    BY <2>2, MaxTwo
  <2>6. k <= Max({p, q})
    BY <1>1, <1>7, <2>2, <2>3, <2>4, <2>5
  <2>. QED
    BY <2>6 DEF p, q, h
<1>. QED
  BY <1>5, <1>9, <1>10, <1>11 DEF e, b

\* A step keeps them in agreement.
LEMMA AgreementStep ==
    ASSUME TypeOK, TypeOK', Places, Places', Agreement, [Next]_vars
    PROVE  Agreement'
<1>1. /\ m \in Models /\ dm \in Models /\ dm.bf16 = m.bf16
      /\ target \in Caches /\ draft \in Caches /\ Agree(m, target) /\ Agree(m, draft)
      /\ start.target \in Nat /\ start.draft \in Nat /\ accepted \in Nat
  BY SetupFacts DEF TypeOK, Agreement
<1>2. m' = m
  BY SetupStays
<1>3. Agree(m, target')
  <2>1. CASE Untouched
    BY <1>1, <2>1 DEF Untouched
  <2>2. CASE ReadsOne
    BY <2>2, DecodeFacts DEF ReadsOne
  <2>3. CASE ReadsDraft
    <3>1. ToVerify \in Seq(Nat)
      BY VerifiedTokens DEF ToVerify
    <3>. QED
      BY <2>3, <3>1, VerifyFacts DEF ReadsDraft
  <2>4. CASE CutsBack
    <3> DEFINE n == start.target + 1 + accepted
    <3>1. n \in Nat /\ target' = TruncateKv(target, n)
      BY <1>1, <2>4 DEF CutsBack
    <3> HIDE DEF n
    <3>. QED
      BY <1>1, <3>1, TruncFacts
  <2>. QED
    BY <2>1, <2>2, <2>3, <2>4, TargetMoves
<1>4. Agree(m, draft')
  <2>1. CASE draft' = draft
    BY <1>1, <2>1
  <2>2. CASE DraftToken
    <3> DEFINE q == IF drafts = <<>> THEN current_token ELSE Last(drafts)
    <3>1. q \in Nat
      <4>1. current_token \in Nat
        BY LastFacts DEF TypeOK
      <4>2. drafts # <<>> => drafts[Len(drafts)] \in Tokens
        BY EmptySeq DEF TypeOK
      <4>3. Tokens \subseteq Nat
        BY SpecAssumption
      <4>. QED
        BY <4>1, <4>2, <4>3 DEF Last
    <3>2. draft' = Feed(dm, draft, <<q>>, FALSE)
      BY <2>2 DEF DraftToken
    <3> HIDE DEF q
    <3>3. <<q>> \in Seq(Nat) /\ Agree(dm, draft)
      BY <1>1, <3>1 DEF Agree
    <3>4. Agree(dm, draft')
      BY <1>1, <3>2, <3>3, FeedFacts
    <3>. QED
      BY <1>1, <3>4 DEF Agree
  <2>3. CASE Rollback /\ setup.mode = "draft"
    <3> DEFINE n == start.draft + 1 + accepted
    <3>1. n \in Nat /\ draft' = TruncateKv(draft, n)
      BY <1>1, <2>3 DEF Rollback
    <3> HIDE DEF n
    <3>. QED
      BY <1>1, <3>1, TruncFacts
  <2>4. draft' = draft \/ DraftToken \/ (Rollback /\ setup.mode = "draft")
    BY Steps DEF EndLoop, DecodeOk, BeginDraft, BeginEagleOk, DraftHead, VerifyOk,
               Accept, Reject, Bonus, Rollback, Emit, Fail, vars
  <2>. QED
    BY <2>1, <2>2, <2>3, <2>4
<1>. QED
  BY <1>2, <1>3, <1>4 DEF Agreement

\* A step stays where it began, and the cache no further on than it may be.
LEMMA StartsStep ==
    ASSUME TypeOK, TypeOK', Places, Agreement, Starts, Reads, [Next]_vars
    PROVE  Starts'
<1> DEFINE k == setup.draft_k
           n == Len(target.layer)
<1>1. /\ k \in Nat /\ n \in Nat /\ target.seq_len = n /\ Len(drafts) \in Nat
      /\ start.target \in Nat /\ Len(output) \in Nat \ {0}
      /\ setup.mode \in {"plain", "draft", "eagle3"}
  <2>1. k \in Nat /\ setup.mode \in {"plain", "draft", "eagle3"}
    BY SetupFacts DEF TypeOK
  <2>2. Len(output) \in Nat \ {0}
    BY LastFacts DEF TypeOK
  <2>3. n \in Nat /\ target.seq_len = n
    BY DEF TypeOK, Agreement, Agree, Caches
  <2>4. start.target \in Nat /\ Len(drafts) \in Nat
    BY DEF TypeOK
  <2>. QED
    BY <2>1, <2>2, <2>3, <2>4
<1>2. setup' = setup
  BY SetupStays
<1>3. NoCut' = NoCut
  BY <1>2 DEF NoCut, NoEviction
<1>4. ASSUME NoCut, phase = "loop" \/ (phase = "draft" /\ setup.mode = "draft")
      PROVE  n = Len(output) - 1
  <2>1. Exact(m, target, Text)
    BY <1>4 DEF Reads, Live
  <2>2. IsRead(Text, phase, setup.mode, output, drafts, final)
    BY TextFacts
  <2>3. Len(final) = 0
    BY <1>4, EmptySeq DEF Places
  <2>4. Len(Text) = Len(output) - 1
    BY <1>1, <1>4, <2>2, <2>3 DEF IsRead, Verified, Headed
  <2>. QED
    BY <2>1, <2>4 DEF Exact
<1>5. CASE ~InStep'
  BY <1>5 DEF Starts
<1>6. CASE BeginDraft
  <2>1. /\ phase = "loop" /\ phase' = "draft" /\ setup.mode = "draft" /\ NoCut
        /\ start'.target = n /\ target' = target /\ output' = output
    BY <1>1, <1>6 DEF BeginDraft, InLoop, NoCut
  <2>2. n = Len(output) - 1
    BY <1>4, <2>1
  <2>. QED
    BY <1>1, <2>1, <2>2 DEF Starts, Judged
<1>7. CASE BeginEagleOk
  <2>1. /\ phase = "loop" /\ phase' = "draft" /\ output' = output
        /\ start'.target = n /\ DecodeNext(current_token)
    BY <1>1, <1>7 DEF BeginEagleOk, InLoop, TypeOK
  <2>2. Len(target'.layer) <= n + 1
    BY <2>1, DecodeFacts DEF DecodeNext
  <2>3. NoCut => n = Len(output) - 1
    BY <1>4, <2>1
  <2>. QED
    BY <1>1, <1>3, <2>1, <2>2, <2>3 DEF Starts, Judged
<1>8. CASE VerifyOk
  <2>1. /\ phase = "draft" /\ phase' = "judge" /\ output' = output /\ start' = start
        /\ VerifyDraft(ToVerify, logits) /\ Len(drafts) = k
    BY <1>8 DEF VerifyOk
  <2>2. ToVerify \in Seq(Nat) /\ Len(ToVerify) = IF setup.mode = "draft" THEN 1 + k ELSE k
    BY <2>1, VerifiedTokens DEF ToVerify
  <2>3. target' = Feed(m, target, ToVerify, TRUE)
    BY <2>1, <2>2, VerifyFacts
  <2>4. IsFed(m, target, ToVerify, target')
    BY <2>2, <2>3, SetupFacts, FeedFacts DEF TypeOK
  <2>5. Len(target'.layer) = n + Len(ToVerify)
    BY <2>4 DEF IsFed
  <2>6. (NoCut => start.target = Len(output) - 1) /\ n <= start.target + 1
    BY <1>1, <2>1 DEF Starts, InStep, Judged
  <2>7. setup.mode = "draft" => n = Len(output) - 1 /\ NoCut
    BY <1>4, <2>1 DEF NoCut
  <2>8. Len(target'.layer) <= start.target + 1 + k
    <3> DEFINE l == Len(target'.layer)
               v == Len(ToVerify)
               s == start.target
    <3>1. l = n + v /\ v \in Nat /\ n <= s + 1 /\ s \in Nat
      BY <1>1, <2>2, <2>5, <2>6
    <3>2. (n = s /\ v = 1 + k) \/ v = k
      BY <2>2, <2>6, <2>7
    <3> HIDE DEF l, v, s, n, k
    <3>3. l <= s + 1 + k
      BY <1>1, <3>1, <3>2
    <3>. QED
      BY <3>3 DEF l, s
  <2>. QED
    BY <1>2, <1>3, <2>1, <2>6, <2>8 DEF Starts, Judged
<1>9. CASE DraftToken \/ DraftHead
  <2>1. /\ phase = "draft" /\ phase' = phase /\ output' = output /\ start' = start
        /\ target' = target
    BY <1>9 DEF DraftToken, DraftHead
  <2>. QED
    BY <1>2, <1>3, <2>1 DEF Starts, InStep, Judged
<1>10. CASE Accept \/ Reject \/ Bonus
  <2>1. /\ phase = "judge" /\ phase' \in {"judge", "rollback"} /\ output' = output
        /\ start' = start /\ target' = target
    BY <1>10 DEF Accept, Reject, Bonus, step
  <2>. QED
    BY <1>2, <1>3, <2>1 DEF Starts, InStep, Judged
<1>11. CASE UNCHANGED vars
  BY <1>2, <1>3, <1>11 DEF vars, step, Starts, InStep, Judged
<1>12. EndLoop \/ DecodeOk \/ Rollback \/ Emit \/ Fail => ~InStep'
  BY DEF EndLoop, DecodeOk, Rollback, Emit, Fail, InStep
<1>. QED
  BY <1>5, <1>6, <1>7, <1>8, <1>9, <1>10, <1>11, <1>12, Steps

\* A decode step keeps to the budget, and its token.
LEMMA BudgetStep ==
    ASSUME TypeOK, TypeOK', Places, Agreement, Agreement', WithinBudget, [Next]_vars
    PROVE  WithinBudget'
<1> DEFINE most == Max({setup.kv_budget + Hysteresis(setup.kv_budget), SinkCount + RecentWindow})
<1>1. /\ setup.mode \in {"plain", "draft", "eagle3"} /\ target'.seq_len = Len(target'.layer)
      /\ drafts \in Seq(Tokens) /\ drafts' \in Seq(Tokens) /\ final \in Seq(Drawn)
  BY SetupFacts DEF TypeOK, Agreement, Agree
<1>2. setup' = setup /\ NoEviction' = NoEviction
  BY SetupStays DEF NoEviction
<1>3. most' = most
  BY <1>2
<1> HIDE DEF most
<1>4. ASSUME Decoded' => (~NoEviction => target'.seq_len <= most),
             phase' = "print" /\ setup.mode = "plain" => Last(target'.layer).tok = current_token'
      PROVE  WithinBudget'
  BY <1>2, <1>3, <1>4 DEF WithinBudget, most
<1>5. CASE DecodeOk \/ BeginEagleOk
  <2>1. DecodeNext(current_token) /\ output' = output
    BY <1>5 DEF DecodeOk, BeginEagleOk
  <2>2. /\ Last(target'.layer).tok = current_token
        /\ ~NoEviction => Len(target'.layer) <= most
    BY <2>1, DecodeFacts DEF DecodeNext, most
  <2>3. current_token' = current_token
    BY <2>1 DEF current_token
  <2>. QED
    BY <1>1, <1>4, <2>2, <2>3
<1>6. CASE UNCHANGED vars
  <2>1. /\ phase' = phase /\ target' = target /\ drafts' = drafts /\ output' = output
    BY <1>6 DEF vars, step
  <2>2. Decoded' = Decoded /\ current_token' = current_token
    BY <1>2, <2>1 DEF Decoded, current_token
  <2>. QED
    BY <1>4, <2>1, <2>2 DEF WithinBudget, most
<1>7. CASE Emit
  <2>1. phase = "print" /\ (phase' = "print" => Tail(final) # <<>>) /\ phase' # "draft"
    BY <1>7 DEF Emit
  <2>2. phase' = "print" => setup.mode # "plain"
    <3>1. ASSUME setup.mode = "plain", Tail(final) # <<>> PROVE FALSE
      <4>1. Len(final) = 1 /\ final # <<>>
        BY <2>1, <3>1 DEF Places
      <4>2. Tail(final) \in Seq(Drawn) /\ Len(Tail(final)) = 0
        BY <1>1, <4>1, HeadTailProperties
      <4>. QED
        BY <3>1, <4>2, EmptySeq
    <3>. QED
      BY <2>1, <3>1
  <2>. QED
    BY <1>2, <1>4, <2>1, <2>2 DEF Decoded
<1>8. CASE Rollback
  <2>1. phase' = "print" /\ setup.mode # "plain"
    BY <1>1, <1>8 DEF Rollback, Places, InStep
  <2>. QED
    BY <1>2, <1>4, <2>1 DEF Decoded
<1>9. CASE DraftHead
  <2>1. phase' = "draft" /\ \E t \in Tokens : drafts' = Append(drafts, t)
    BY <1>9 DEF DraftHead
  <2>2. drafts' # <<>>
    BY <1>1, <2>1, AppendProperties, EmptySeq
  <2>. QED
    BY <1>2, <1>4, <2>1, <2>2 DEF Decoded
<1>10. CASE BeginDraft \/ DraftToken
  <2>1. phase' = "draft" /\ setup.mode = "draft"
    BY <1>10 DEF BeginDraft, DraftToken, InLoop
  <2>. QED
    BY <1>2, <1>4, <2>1 DEF Decoded
<1>11. CASE EndLoop \/ VerifyOk \/ Accept \/ Reject \/ Bonus \/ Fail
  <2>1. phase' \notin {"print", "draft"}
    BY <1>11 DEF EndLoop, VerifyOk, Accept, Reject, Bonus, Fail
  <2>. QED
    BY <1>4, <2>1 DEF Decoded
<1>. QED
  BY <1>5, <1>6, <1>7, <1>8, <1>9, <1>10, <1>11, Steps

---------------------------------------------------------------------------
(* The target's cache and the text *)

\* A cache that was fed holds the tokens that were fed after those it had.
LEMMA FedTokens ==
    ASSUME NEW x, NEW c \in Caches, NEW f \in Caches, NEW toks \in Seq(Nat), IsFed(x, c, toks, f)
    PROVE  /\ TokensOf(c.layer) \in Seq(Nat) /\ TokensOf(f.layer) \in Seq(Nat)
           /\ TokensOf(f.layer) = TokensOf(c.layer) \o toks
<1> DEFINE a == c.layer
           b == f.layer
           u == TokensOf(a)
           v == TokensOf(b)
<1>1. /\ a \in Seq(Pairs) /\ b \in Seq(Pairs) /\ Len(a) \in Nat /\ Len(toks) \in Nat
      /\ \A e \in Pairs : e.tok \in Nat
  BY DEF Caches, Pairs
<1>2. /\ Len(b) = Len(a) + Len(toks)
      /\ \A i \in 1 .. Len(a) : b[i] = a[i]
      /\ \A i \in 1 .. Len(toks) : b[Len(a) + i].tok = toks[i]
  BY DEF IsFed
<1> HIDE DEF a, b
<1>3. u \in Seq(Nat) /\ Len(u) = Len(a) /\ \A i \in 1 .. Len(a) : u[i] = a[i].tok
  BY <1>1, PairTokens
<1>4. v \in Seq(Nat) /\ Len(v) = Len(b) /\ \A i \in 1 .. Len(b) : v[i] = b[i].tok
  BY <1>1, PairTokens
<1> SUFFICES v = u \o toks
  BY <1>3, <1>4 DEF a, b
<1> HIDE DEF u, v
<1>5. /\ u \o toks \in Seq(Nat) /\ Len(u \o toks) = Len(u) + Len(toks)
      /\ \A i \in 1 .. Len(u) : (u \o toks)[i] = u[i]
      /\ Goes(u \o toks, Len(u), toks, Len(toks))
  BY <1>3, Concat
<1>6. Len(v) = Len(u \o toks)
  BY <1>2, <1>3, <1>4, <1>5
<1>7. ASSUME NEW i \in 1 .. Len(v) PROVE v[i] = (u \o toks)[i]
  <2>0. i \in 1 .. Len(b) /\ v[i] = b[i].tok /\ i \in Nat
    BY <1>1, <1>2, <1>4
  <2>1. CASE i <= Len(a)
    <3>1. i \in 1 .. Len(a) /\ i \in 1 .. Len(u)
      BY <1>1, <1>3, <2>1
    <3>2. b[i] = a[i] /\ u[i] = a[i].tok
      BY <1>2, <1>3, <3>1
    <3>3. (u \o toks)[i] = u[i]
      BY <1>5, <3>1
    <3>. QED
      BY <2>0, <3>2, <3>3
  <2>2. CASE i > Len(a)
    <3> DEFINE n == Len(a)
               k == Len(toks)
    <3>1. n \in Int /\ k \in Int /\ i \in 1 .. n + k /\ i > n
      BY <1>1, <1>2, <2>0, <2>2
    <3> HIDE DEF n, k
    <3>2. PICK h \in 1 .. k : i = n + h
      BY <3>1, Beyond
    <3>3. b[n + h].tok = toks[h] /\ (u \o toks)[n + h] = toks[h]
      BY <1>2, <1>3, <1>5 DEF Goes, n, k
    <3>. QED
      BY <2>0, <3>2, <3>3
  <2>3. i <= Len(a) \/ i > Len(a)
    BY <1>1, <2>0
  <2>. QED
    BY <2>1, <2>2, <2>3
<1>. QED
  BY <1>4, <1>5, <1>6, <1>7, SeqEqual

\* A part stays one when both go on with the same.
LEMMA PartConcat ==
    ASSUME NEW S, NEW s \in Seq(S), NEW t \in Seq(S), NEW q \in Seq(S), IsPart(s, t)
    PROVE  IsPart(s \o q, t \o q)
<1> DEFINE a == s \o q
           b == t \o q
<1>1. /\ a \in Seq(S) /\ Len(a) = Len(s) + Len(q)
      /\ \A i \in 1 .. Len(s) : a[i] = s[i]
      /\ Goes(a, Len(s), q, Len(q))
  BY Concat
<1>2. /\ b \in Seq(S) /\ Len(b) = Len(t) + Len(q)
      /\ \A i \in 1 .. Len(t) : b[i] = t[i]
      /\ Goes(b, Len(t), q, Len(q))
  BY Concat
<1>3. Len(s) \in Nat /\ Len(t) \in Nat /\ Len(q) \in Nat
  OBVIOUS
<1> HIDE DEF a, b
<1>4. \A i \in 1 .. Len(q) : a[Len(s) + i] = b[Len(t) + i]
  BY <1>1, <1>2 DEF Goes
<1>5. /\ Len(s) <= Len(a) /\ Len(t) <= Len(b) /\ Len(a) - Len(s) = Len(q)
      /\ Len(b) - Len(t) = Len(q)
  BY <1>1, <1>2, <1>3
<1>6. \A i \in 1 .. Len(a) - Len(s) : a[Len(s) + i] = b[Len(t) + i]
  BY <1>4, <1>5
<1>7. Len(a) - Len(s) <= Len(b) - Len(t)
  BY <1>3, <1>5
<1>8. a \in Seq(S) /\ b \in Seq(S)
  BY <1>1, <1>2
<1>9. (\A i \in 1 .. Len(s) : a[i] = s[i]) /\ (\A i \in 1 .. Len(t) : b[i] = t[i])
  BY <1>1, <1>2
<1>10. IsPart(a, b)
  BY <1>5, <1>6, <1>7, <1>8, <1>9, PartExtend
<1>. QED
  BY <1>10 DEF a, b

\* Without a budget nothing is evicted; with one, the tokens that stay are part
\* of the text and of current_token.
LEMMA OneRead ==
    ASSUME TypeOK, Agreement, ReadsOne
    PROVE  /\ m \in Models /\ target \in Caches /\ target.seq_len = Len(target.layer)
           /\ <<current_token>> \in Seq(Nat) /\ Len(<<current_token>>) = 1
           /\ NoEviction => target' = Feed(m, target, <<current_token>>, FALSE)
           /\ Text \in Seq(Nat) /\ IsPart(TokensOf(target.layer), Text) =>
                 IsPart(TokensOf(target'.layer), Text')
<1> DEFINE toks == <<current_token>>
           c == Feed(m, target, toks, FALSE)
           b == setup.kv_budget
           e == target'
<1>1. m \in Models /\ b \in Nat /\ target \in Caches /\ Agree(m, target)
  BY SetupFacts DEF TypeOK, Agreement
<1>2. toks \in Seq(Nat) /\ Len(toks) = 1
  BY LastFacts DEF TypeOK
<1>3. e \in Evictions(m, c, b) /\ Text' = Text \o toks
  BY DEF ReadsOne
<1> SUFFICES ASSUME TRUE
             PROVE  /\ NoEviction => e = c
                    /\ Text \in Seq(Nat) /\ IsPart(TokensOf(target.layer), Text) =>
                          IsPart(TokensOf(e.layer), Text \o toks)
  BY <1>1, <1>2, <1>3 DEF Agree
<1> HIDE DEF toks
<1>4. c \in Caches /\ IsFed(m, target, toks, c) /\ Agree(m, c)
  BY <1>1, <1>2, FeedFacts
<1> HIDE DEF c, e, b
<1>5. e \in Caches /\ (b = 0 => e = c) /\ \E g : Picks(e.layer, c.layer, g)
  BY <1>1, <1>3, <1>4, EvictFacts
<1>6. NoEviction => e = c
  BY <1>5 DEF NoEviction, b
<1>7. ASSUME Text \in Seq(Nat), IsPart(TokensOf(target.layer), Text)
      PROVE  IsPart(TokensOf(e.layer), Text \o toks)
  <2> DEFINE u == TokensOf(target.layer)
             v == TokensOf(c.layer)
             w == TokensOf(e.layer)
             t == Text
  <2>1. u \in Seq(Nat) /\ v \in Seq(Nat) /\ v = u \o toks
    BY ONLY <1>1, <1>2, <1>4, FedTokens, target \in Caches DEF u, v
  <2>2. PICK g : Picks(e.layer, c.layer, g)
    BY <1>5
  <2>3. IsPart(w, v) /\ w \in Seq(Nat)
    <3> DEFINE k == e.layer
               l == c.layer
    <3>1. k \in Seq(Pairs) /\ l \in Seq(Pairs) /\ \A i \in Pairs : i.tok \in Nat
      BY <1>4, <1>5 DEF Caches, Pairs
    <3> HIDE DEF k, l
    <3>2. IsPart(TokensOf(k), TokensOf(l))
      BY <2>2, <3>1, PartTokens DEF k, l
    <3>3. TokensOf(k) \in Seq(Nat)
      BY <3>1, PairTokens
    <3>. QED
      BY <3>2, <3>3 DEF k, l
  <2>4. t \in Seq(Nat) /\ IsPart(u, t)
    BY <1>7
  <2> HIDE DEF u, v, w, t
  <2>5. IsPart(u \o toks, t \o toks)
    BY <1>2, <2>1, <2>4, PartConcat
  <2>6. t \o toks \in Seq(Nat)
    BY <1>2, <2>4, Concat
  <2> DEFINE z == t \o toks
  <2>7. IsPart(v, z) /\ z \in Seq(Nat)
    BY <2>1, <2>5, <2>6
  <2> HIDE DEF z
  <2>8. IsPart(w, z)
    BY <2>1, <2>3, <2>7, PartTrans
  <2>. QED
    BY <2>8 DEF w, z, t
<1>. QED
  BY <1>6, <1>7

\* The cache holds what was read of the text, or part of it.
LEMMA ReadsStep ==
    ASSUME TypeOK, TypeOK', Places, Places', Agreement, Starts, Reads, [Next]_vars
    PROVE  Reads'
<1>1. m' = m /\ setup' = setup /\ NoCut' = NoCut
  BY SetupStays DEF NoCut, NoEviction
<1>2. /\ Text \in Seq(Nat) /\ ToVerify \in Seq(Nat) /\ m \in Models /\ target \in Caches
      /\ Agree(m, target) /\ target.seq_len = Len(target.layer)
      /\ start.target \in Nat /\ accepted \in Nat /\ Len(output) \in Nat
  <2>1. Text \in Seq(Nat) /\ ToVerify \in Seq(Nat)
    BY TextFacts, VerifiedTokens DEF IsRead, ToVerify
  <2>2. m \in Models /\ target \in Caches /\ Agree(m, target) /\ target.seq_len = Len(target.layer)
    BY SetupFacts DEF TypeOK, Agreement, Agree
  <2>3. start.target \in Nat /\ accepted \in Nat /\ Len(output) \in Nat
    BY DEF TypeOK
  <2>. QED
    BY <2>1, <2>2, <2>3
<1>3. /\ Live /\ NoCut => Exact(m, target, Text)
      /\ Live /\ setup.mode = "plain" => IsPart(TokensOf(target.layer), Text)
  BY DEF Reads
<1>4. ASSUME /\ Live' /\ NoCut => Exact(m, target', Text')
             /\ Live' /\ setup.mode = "plain" => IsPart(TokensOf(target'.layer), Text')
      PROVE  Reads'
  BY <1>1, <1>4 DEF Reads
<1>5. CASE Untouched
  BY <1>3, <1>4, <1>5 DEF Untouched
<1>6. CASE ReadsOne
  <2>1. Live /\ setup.mode # "draft" /\ Text' = Text \o <<current_token>>
    BY <1>6 DEF ReadsOne
  <2>2. ASSUME NoCut PROVE Exact(m, target', Text')
    <3> DEFINE toks == <<current_token>>
               s == Text
    <3>1. /\ target' = Feed(m, target, toks, FALSE) /\ toks \in Seq(Nat)
          /\ s \in Seq(Nat) /\ Exact(m, target, s) /\ Text' = s \o toks
      BY <1>2, <1>3, <1>6, <2>1, <2>2, OneRead DEF NoCut
    <3> HIDE DEF toks, s
    <3>2. Exact(m, Feed(m, target, toks, FALSE), s \o toks)
      BY <1>2, <3>1, FeedExact
    <3>. QED
      BY <3>1, <3>2
  <2>3. ASSUME setup.mode = "plain" PROVE IsPart(TokensOf(target'.layer), Text')
    BY <1>2, <1>3, <1>6, <2>1, <2>3, OneRead
  <2>. QED
    BY <1>4, <2>2, <2>3
<1>7. CASE ReadsDraft
  <2> DEFINE toks == ToVerify
             s == Text
  <2>1. Live /\ setup.mode # "plain" /\ Text' = s \o toks /\ target' = Feed(m, target, toks, TRUE)
    BY <1>2, <1>7, VerifyFacts DEF ReadsDraft
  <2>2. toks \in Seq(Nat) /\ s \in Seq(Nat) /\ (NoCut => Exact(m, target, s))
    BY <1>2, <1>3, <2>1
  <2> HIDE DEF toks, s
  <2>3. NoCut => Exact(m, Feed(m, target, toks, TRUE), s \o toks)
    BY <1>2, <2>2, FeedExact
  <2>. QED
    BY <1>4, <2>1, <2>3
<1>8. CASE CutsBack
  <2> DEFINE n == Len(output) + accepted
             s == Text
  <2>1. /\ Live /\ setup.mode # "plain" /\ InStep /\ n <= Len(s) /\ Text' = SubSeq(s, 1, n)
        /\ target' = TruncateKv(target, start.target + 1 + accepted)
    BY <1>8 DEF CutsBack, Judged, InStep
  <2>2. n \in Nat /\ s \in Seq(Nat) /\ (NoCut => Exact(m, target, s))
    BY <1>2, <1>3, <2>1
  <2>3. NoCut => start.target + 1 + accepted = n
    BY <1>2, <2>1 DEF Starts
  <2> HIDE DEF n, s
  <2>4. NoCut => Exact(m, TruncateKv(target, n), SubSeq(s, 1, n))
    BY <1>2, <2>1, <2>2, TruncExact
  <2>. QED
    BY <1>4, <2>1, <2>3, <2>4
<1>. QED
  BY <1>5, <1>6, <1>7, <1>8, TargetMoves

\* Everything in it stays as if computed from scratch.
LEMMA SoundsStep ==
    ASSUME TypeOK, TypeOK', Places, Places', Agreement, Starts, Reads, Sounds, [Next]_vars
    PROVE  Sounds'
<1>1. m' = m /\ setup' = setup /\ Clean' = Clean
  BY SetupStays DEF Clean, NoEviction
<1>2. /\ Text \in Seq(Nat) /\ ToVerify \in Seq(Nat) /\ m \in Models /\ target \in Caches
      /\ Agree(m, target) /\ target.seq_len = Len(target.layer)
      /\ start.target \in Nat /\ accepted \in Nat
  <2>1. Text \in Seq(Nat) /\ ToVerify \in Seq(Nat)
    BY TextFacts, VerifiedTokens DEF IsRead, ToVerify
  <2>2. m \in Models /\ target \in Caches /\ Agree(m, target) /\ target.seq_len = Len(target.layer)
    BY SetupFacts DEF TypeOK, Agreement, Agree
  <2>3. start.target \in Nat /\ accepted \in Nat
    BY DEF TypeOK
  <2>. QED
    BY <2>1, <2>2, <2>3
<1> SUFFICES ASSUME Live', Clean PROVE Faithful(m, target', Text')
  BY <1>1 DEF Sounds
<1>3. NoEviction /\ (setup.mode # "plain" => m.recurrent = "none")
  BY DEF Clean
<1>4. Live => Exact(m, target, Text) /\ Faithful(m, target, Text)
  BY <1>3 DEF Reads, Sounds, NoCut
<1>5. CASE Untouched
  BY <1>4, <1>5 DEF Untouched
<1>6. CASE ReadsOne
  <2> DEFINE toks == <<current_token>>
             s == Text
  <2>1. /\ target' = Feed(m, target, toks, FALSE) /\ toks \in Seq(Nat) /\ Len(toks) = 1
        /\ s \in Seq(Nat) /\ Exact(m, target, s) /\ Faithful(m, target, s) /\ Text' = s \o toks
    <3>1. Live /\ Text' = Text \o <<current_token>>
      BY <1>6 DEF ReadsOne
    <3>. QED
      BY <1>2, <1>3, <1>4, <1>6, <3>1, OneRead
  <2> HIDE DEF toks, s
  <2>2. Faithful(m, Feed(m, target, toks, FALSE), s \o toks)
    BY <1>2, <2>1, FeedFaithful
  <2>. QED
    BY <2>1, <2>2
<1>7. CASE ReadsDraft
  <2> DEFINE toks == ToVerify
             s == Text
  <2>1. Live /\ setup.mode # "plain" /\ Text' = s \o toks /\ target' = Feed(m, target, toks, TRUE)
    BY <1>2, <1>7, VerifyFacts DEF ReadsDraft
  <2>2. /\ toks \in Seq(Nat) /\ s \in Seq(Nat) /\ Exact(m, target, s) /\ Faithful(m, target, s)
        /\ m.recurrent = "none"
    BY <1>2, <1>3, <1>4, <2>1
  <2> HIDE DEF toks, s
  <2>3. Faithful(m, Feed(m, target, toks, TRUE), s \o toks)
    BY <1>2, <2>2, FeedFaithful
  <2>. QED
    BY <2>1, <2>3
<1>8. CASE CutsBack
  <2> DEFINE n == start.target + 1 + accepted
  <2>1. n \in Nat /\ Live /\ m.recurrent = "none" /\ target' = TruncateKv(target, n)
    BY <1>2, <1>3, <1>8 DEF CutsBack
  <2> HIDE DEF n
  <2>. QED
    BY <1>2, <1>4, <2>1, TruncFaithful
<1>. QED
  BY <1>5, <1>6, <1>7, <1>8, TargetMoves

---------------------------------------------------------------------------
(* What the tokens are drawn given *)

\* Texts that begin alike have the same prefixes.
LEMMA SameStart ==
    ASSUME NEW S, NEW s \in Seq(S), NEW t \in Seq(S), NEW n \in Nat, n <= Len(s), n <= Len(t),
           \A i \in 1 .. n : s[i] = t[i]
    PROVE  SubSeq(s, 1, n) = SubSeq(t, 1, n)
<1> DEFINE a == SubSeq(s, 1, n)
           b == SubSeq(t, 1, n)
<1>1. a \in Seq(S) /\ Len(a) = n /\ \A i \in 1 .. n : a[i] = s[i]
  BY PrefixFacts
<1>2. b \in Seq(S) /\ Len(b) = n /\ \A i \in 1 .. n : b[i] = t[i]
  BY PrefixFacts
<1> HIDE DEF a, b
<1>3. a = b
  BY <1>1, <1>2, SeqEqual
<1>. QED
  BY <1>3 DEF a, b

\* A text is the whole prefix of itself.
LEMMA WholePrefix ==
    ASSUME NEW S, NEW s \in Seq(S), NEW q \in Seq(S)
    PROVE  /\ SubSeq(s, 1, Len(s)) = s
           /\ SubSeq(s \o q, 1, Len(s)) = s
<1> DEFINE n == Len(s)
           a == SubSeq(s, 1, n)
           t == s \o q
           b == SubSeq(t, 1, n)
<1>1. n \in Nat /\ n <= Len(s)
  OBVIOUS
<1>2. t \in Seq(S) /\ Len(t) = n + Len(q) /\ \A i \in 1 .. n : t[i] = s[i]
  BY Concat
<1>3. n <= Len(t)
  BY <1>1, <1>2
<1> HIDE DEF n, t
<1>4. a \in Seq(S) /\ Len(a) = n /\ \A i \in 1 .. n : a[i] = s[i]
  BY <1>1, PrefixFacts
<1>5. b \in Seq(S) /\ Len(b) = n /\ \A i \in 1 .. n : b[i] = t[i]
  BY <1>1, <1>2, <1>3, PrefixFacts
<1> HIDE DEF a, b
<1>6. a = s
  BY <1>4, SeqEqual DEF n
<1>7. b = s
  BY <1>2, <1>5, SeqEqual DEF n
<1>. QED
  BY <1>6, <1>7 DEF a, b, n, t

\* The logits of a decode step are known by the text up to current_token.
LEMMA DecodeGiven ==
    ASSUME TypeOK, TypeOK', Places, Places', Agreement, Reads', Sounds', [Next]_vars,
           Live', Clean, ReadsOne
    PROVE  logits' = <<Text'>>
<1> DEFINE s == Text'
           c == target'
           n == Len(target'.layer)
<1>1. NoEviction
  BY DEF Clean
<1>2. c = Feed(m, target, <<current_token>>, FALSE)
  BY <1>1, OneRead
<1>3. logits' = <<Context(c, n)>>
  BY <1>2 DEF ReadsOne
<1>4. setup' = setup /\ m' = m /\ NoCut' /\ Clean'
  BY <1>1, SetupStays DEF NoCut, Clean, NoEviction
<1>5. Exact(m, c, s) /\ Faithful(m, c, s) /\ s \in Seq(Nat)
  <2>1. s \in Seq(Nat)
    BY TextFactsNext DEF IsRead
  <2>. QED
    BY <1>4, <2>1 DEF Reads, Sounds
<1>6. c \in Caches /\ n \in Nat /\ n = Len(s) /\ n > 0
  <2>1. c \in Caches
    BY DEF TypeOK
  <2>2. n = Len(s)
    BY <1>5 DEF Exact
  <2>3. IsFed(m, target, <<current_token>>, c)
    BY <1>2, OneRead, FeedFacts
  <2>4. n = Len(target.layer) + 1
    BY <2>3, OneRead DEF IsFed
  <2>5. Len(target.layer) \in Nat
    BY DEF TypeOK, Caches
  <2>. QED
    BY <2>1, <2>2, <2>4, <2>5
<1> HIDE DEF s, c, n
<1>7. n \in 1 .. Len(s)
  BY <1>6
<1>8. Context(c, n) = SubSeq(s, 1, n)
  BY <1>5, <1>6, <1>7, ContextExact
<1>9. SubSeq(s, 1, n) = s
  BY <1>5, <1>6, WholePrefix
<1>. QED
  BY <1>3, <1>8, <1>9 DEF s

\* The logits of a verification are known by the text up to each of its tokens.
LEMMA VerifyGiven ==
    ASSUME TypeOK, TypeOK', Places, Places', Agreement, Reads, Reads', Sounds', Givens,
           [Next]_vars, Clean, VerifyOk
    PROVE  \A i \in 1 .. setup.draft_k + 1 :
              logits'[i] = SubSeq(Text', 1, Len(output) - 1 + i)
<1> DEFINE s == Text
           t == Text'
           c == target'
           k == setup.draft_k
           q == Len(logits)
           o == Len(output)
           v == Len(ToVerify)
<1>1. /\ phase = "draft" /\ phase' = "judge" /\ output' = output /\ drafts' = drafts
      /\ VerifyDraft(ToVerify, logits) /\ Len(drafts) = k
  BY DEF VerifyOk
<1>2. setup' = setup /\ m' = m /\ NoCut /\ NoCut' /\ Clean'
  BY SetupStays DEF NoCut, Clean, NoEviction
<1>3. /\ k \in Nat /\ o \in Nat \ {0} /\ final = <<>> /\ Len(final) = 0
      /\ setup.mode \in {"draft", "eagle3"}
      /\ q = IF setup.mode = "draft" THEN 0 ELSE 1
  <2>1. k \in Nat
    BY SetupFacts DEF TypeOK
  <2>2. o \in Nat \ {0}
    BY LastFacts DEF TypeOK
  <2>3. final = <<>> /\ setup.mode \in {"draft", "eagle3"}
        /\ q = IF setup.mode = "draft" THEN 0 ELSE 1
    BY <1>1 DEF Places, InStep
  <2>. QED
    BY <2>1, <2>2, <2>3, EmptySeq
<1>4. s \in Seq(Nat) /\ Len(s) = o - 1 + q
  <2>1. IsRead(s, phase, setup.mode, output, drafts, final)
    BY TextFacts
  <2>. QED
    BY <1>1, <1>3, <2>1 DEF IsRead, Verified, Headed
<1>5. t \in Seq(Nat) /\ Len(t) = o + k
  <2>1. IsRead(t, phase', setup'.mode, output', drafts', final')
    BY TextFactsNext
  <2>. QED
    BY <1>1, <2>1 DEF IsRead, Verified
<1>6. Exact(m, target, s) /\ Exact(m, c, t) /\ Faithful(m, c, t) /\ c \in Caches
  BY <1>1, <1>2 DEF Reads, Sounds, Live, TypeOK
<1>7. Len(target.layer) = o - 1 + q
  BY <1>4, <1>6 DEF Exact
<1>8. ToVerify \in Seq(Nat) /\ v = k + 1 - q
  BY <1>1, <1>3, VerifiedTokens DEF ToVerify
<1>9. /\ \A i \in 1 .. q : logits'[i] = logits[i]
      /\ \A i \in 1 .. v : logits'[q + i] = Context(c, o - 1 + q + i)
  BY <1>1, <1>7, <1>8, VerifyFacts
<1> SUFFICES ASSUME NEW i \in 1 .. k + 1 PROVE logits'[i] = SubSeq(t, 1, o - 1 + i)
  OBVIOUS
<1>10. CASE i <= q
  <2>1. i = 1 /\ q = 1 /\ setup.mode # "draft"
    BY <1>3, <1>10
  <2>2. logits'[1] = s
    BY <1>1, <1>9, <2>1 DEF Givens, Live
  <2>3. t = s \o drafts /\ drafts \in Seq(Nat)
    BY <1>1, <1>2, <2>1, VerifiedTokens DEF Text, ReadIn
  <2>4. Len(s) = o
    BY <1>3, <1>4, <2>1
  <2> HIDE DEF s, t, o
  <2>5. SubSeq(s \o drafts, 1, Len(s)) = s
    BY <1>4, <2>3, WholePrefix
  <2>6. o - 1 + i = o
    BY <1>3, <2>1
  <2>. QED
    BY <2>1, <2>2, <2>3, <2>4, <2>5, <2>6
<1>11. CASE ~(i <= q)
  <2> DEFINE h == i - q
             n == o - 1 + i
  <2>1. h \in 1 .. v /\ q + h = i /\ o - 1 + q + h = n /\ n \in 1 .. Len(t)
    <3> DEFINE l == Len(t)
    <3>1. /\ q \in Nat /\ k \in Nat /\ v = k + 1 - q /\ o \in Nat /\ o > 0 /\ l = o + k
      BY <1>3, <1>5, <1>8
    <3>2. i \in 1 .. k + 1 /\ ~(i <= q)
      BY <1>11
    <3> HIDE DEF q, k, v, o, l
    <3>3. h \in 1 .. v /\ q + h = i /\ o - 1 + q + h = n /\ n \in 1 .. l
      BY <3>1, <3>2
    <3>. QED
      BY <3>3 DEF l
  <2> HIDE DEF h, n, s, t, c
  <2>2. logits'[q + h] = Context(c, o - 1 + q + h)
    BY <1>9, <2>1
  <2>3. Context(c, n) = SubSeq(t, 1, n)
    BY <1>5, <1>6, <2>1, ContextExact
  <2>. QED
    BY <2>1, <2>2, <2>3 DEF n
<1>. QED
  BY <1>10, <1>11

\* The text with one more word that was not printed yet.
LEMMA ProduceGiven ==
    ASSUME TypeOK, TypeOK', Places, phase = "judge", output' = output, Givens, Clean,
           NEW t \in Tokens, Produce(t, accepted + 1)
    PROVE  \A i \in 1 .. Len(final') :
              final'[i].given = SubSeq(TokensOf(output' \o final'), 1, Len(output') + i - 1)
<1> DEFINE all == TokensOf(output \o final)
           new == TokensOf(output \o final')
           s == Text
           o == Len(output)
           p == Len(final)
<1>1. /\ output \in Seq(Drawn) /\ output # <<>> /\ o \in Nat \ {0} /\ final \in Seq(Drawn)
      /\ p \in Nat /\ p = accepted /\ setup.draft_k \in Nat /\ accepted <= setup.draft_k
      /\ Len(drafts) = setup.draft_k
      /\ \A i \in 1 .. p : final[i].tok = drafts[i]
  <2>1. o \in Nat \ {0} /\ setup.draft_k \in Nat
    BY LastFacts, SetupFacts DEF TypeOK
  <2>. QED
    BY <2>1 DEF TypeOK, Places, Judged
<1>2. /\ final' \in Seq(Drawn) /\ Len(final') = p + 1
      /\ \A i \in 1 .. p : final'[i] = final[i]
      /\ final'[p + 1] = [tok |-> t, given |-> logits[accepted + 1]]
  BY ProduceType
<1>3. /\ all \in Seq(Nat) /\ Len(all) = o + p
      /\ \A i \in 1 .. o : all[i] = output[i].tok
      /\ \A i \in 1 .. p : all[o + i] = final[i].tok
  BY <1>1, WholeFacts
<1>4. /\ new \in Seq(Nat) /\ Len(new) = o + (p + 1)
      /\ \A i \in 1 .. o : new[i] = output[i].tok
      /\ \A i \in 1 .. p + 1 : new[o + i] = final'[i].tok
  <2> DEFINE f == final'
  <2>1. f \in Seq(Drawn) /\ Len(f) = p + 1
    BY <1>2
  <2> HIDE DEF f
  <2>2. /\ TokensOf(output \o f) \in Seq(Nat) /\ Len(TokensOf(output \o f)) = o + Len(f)
        /\ \A i \in 1 .. o : TokensOf(output \o f)[i] = output[i].tok
        /\ \A i \in 1 .. Len(f) : TokensOf(output \o f)[o + i] = f[i].tok
    BY <1>1, <2>1, WholeFacts
  <2>. QED
    BY <2>1, <2>2 DEF f
<1>5. /\ s \in Seq(Nat) /\ Len(s) = o + setup.draft_k /\ Spells(s, output)
      /\ Goes(s, o, drafts, setup.draft_k)
  <2>1. IsRead(s, phase, setup.mode, output, drafts, final)
    BY TextFacts
  <2>. QED
    BY <1>1, <2>1 DEF IsRead, Verified
<1>6. /\ logits[accepted + 1] = SubSeq(s, 1, o - 1 + (accepted + 1))
      /\ \A i \in 1 .. p : final[i].given = SubSeq(all, 1, o + i - 1)
  <2>1. Live /\ Judged /\ accepted + 1 \in 1 .. setup.draft_k + 1
    BY <1>1 DEF Live, Judged
  <2>. QED
    BY <2>1 DEF Givens
<1> HIDE DEF all, new, s
<1>7. ASSUME NEW i \in 1 .. o + p PROVE new[i] = all[i] /\ new[i] = s[i]
  <2>1. CASE i <= o
    <3>1. i \in 1 .. o /\ i <= Len(s)
      BY <1>1, <1>5, <2>1
    <3>2. s[i] = output[i].tok
      BY <1>5, <3>1 DEF Spells
    <3>. QED
      BY <1>3, <1>4, <3>1, <3>2
  <2>2. CASE i > o
    <3>1. o \in Int /\ p \in Int
      BY <1>1
    <3> HIDE DEF o, p
    <3>2. PICK h \in 1 .. p : i = o + h
      BY <2>2, <3>1, Beyond
    <3>3. h \in 1 .. p + 1 /\ h \in 1 .. setup.draft_k
      BY <1>1, <3>1, <3>2
    <3>4. new[o + h] = final'[h].tok /\ all[o + h] = final[h].tok /\ s[o + h] = drafts[h]
      BY <1>3, <1>4, <1>5, <3>2, <3>3 DEF Goes
    <3>5. final'[h] = final[h] /\ final[h].tok = drafts[h]
      BY <1>1, <1>2, <3>2
    <3>. QED
      BY <3>2, <3>4, <3>5
  <2>3. i <= o \/ i > o
    BY <1>1
  <2>. QED
    BY <2>1, <2>2, <2>3
<1>8. ASSUME NEW i \in 1 .. p + 1
      PROVE  final'[i].given = SubSeq(new, 1, o + i - 1)
  <2> DEFINE n == o + i - 1
  <2>1. n \in Nat /\ n <= o + p /\ n <= Len(new) /\ n <= Len(s)
    <3> DEFINE l == Len(new)
               r == Len(s)
    <3>1. l = o + (p + 1) /\ r = o + setup.draft_k
      BY <1>4, <1>5
    <3>2. o \in Nat /\ o > 0 /\ p \in Nat /\ setup.draft_k \in Nat /\ p <= setup.draft_k
      BY <1>1
    <3> HIDE DEF o, p, l, r
    <3>3. n \in Nat /\ n <= o + p /\ n <= l /\ n <= r
      BY <3>1, <3>2
    <3>. QED
      BY <3>3 DEF l, r
  <2>2. \A j \in 1 .. n : j \in 1 .. o + p
    BY <1>1, <2>1
  <2> HIDE DEF n
  <2>3. CASE i <= p
    <3>1. i \in 1 .. p
      BY <1>1, <2>3
    <3>2. n <= Len(all)
      BY <1>3, <2>1
    <3>3. SubSeq(all, 1, n) = SubSeq(new, 1, n)
      BY <1>3, <1>4, <1>7, <2>1, <2>2, <3>2, SameStart
    <3>4. final'[i].given = SubSeq(all, 1, o + i - 1)
      BY <1>2, <1>6, <3>1
    <3>. QED
      BY <3>3, <3>4 DEF n
  <2>4. CASE i = p + 1
    <3>1. SubSeq(s, 1, n) = SubSeq(new, 1, n)
      BY <1>4, <1>5, <1>7, <2>1, <2>2, SameStart
    <3>2. o - 1 + (accepted + 1) = n
      BY <1>1, <2>4 DEF n
    <3>3. final'[i].given = SubSeq(s, 1, n)
      BY <1>2, <1>6, <2>4, <3>2
    <3>. QED
      BY <3>1, <3>3 DEF n
  <2>5. i <= p \/ i = p + 1
    BY <1>1
  <2>. QED
    BY <2>3, <2>4, <2>5
<1>. QED
  BY <1>2, <1>8 DEF new

\* A step draws its tokens, and prints them, given the text before them.
LEMMA GivensStep ==
    ASSUME TypeOK, TypeOK', Places, Places', Agreement, Reads, Reads', Sounds', Givens,
           [Next]_vars
    PROVE  Givens'
<1>1. setup' = setup /\ m' = m /\ Clean' = Clean
  BY SetupStays DEF Clean, NoEviction
<1> SUFFICES ASSUME Live', Clean
             PROVE  /\ phase' = "draft" /\ setup.mode # "draft" => logits'[1] = Text'
                    /\ Judged' => \A i \in 1 .. setup.draft_k + 1 :
                          logits'[i] = SubSeq(Text', 1, Len(output') - 1 + i)
                    /\ \A i \in 1 .. Len(final') : final'[i].given =
                          SubSeq(TokensOf(output' \o final'), 1, Len(output') + i - 1)
  BY <1>1 DEF Givens
<1>2. /\ output \in Seq(Drawn) /\ final \in Seq(Drawn) /\ Len(output) \in Nat
      /\ Len(final) \in Nat
  BY DEF TypeOK
<1>3. Live =>
        /\ phase = "draft" /\ setup.mode # "draft" => logits[1] = Text
        /\ Judged => \A i \in 1 .. setup.draft_k + 1 :
                        logits[i] = SubSeq(Text, 1, Len(output) - 1 + i)
        /\ \A i \in 1 .. Len(final) :
              final[i].given = SubSeq(TokensOf(output \o final), 1, Len(output) + i - 1)
  BY DEF Givens
<1>4. CASE EndLoop \/ Fail
  BY <1>4 DEF EndLoop, Fail, Live
<1>5. CASE DecodeOk
  <2>1. /\ phase = "loop" /\ phase' = "print" /\ output' = output
        /\ \E t \in Tokens : final' = <<[tok |-> t, given |-> logits'[1]]>>
    BY <1>5 DEF DecodeOk, InLoop
  <2>2. logits' = <<Text'>>
    BY <1>5, DecodeReads, DecodeGiven
  <2>3. PICK t \in Tokens : final' = <<[tok |-> t, given |-> logits'[1]]>>
    BY <2>1
  <2>4. Len(final') = 1 /\ final'[1].given = Text'
    BY <2>2, <2>3
  <2> DEFINE new == TokensOf(output' \o final')
             n == Len(output) + 1 - 1
  <2>5. Len(new) = Len(output) + 1
    <3>1. output' \in Seq(Drawn) /\ final' \in Seq(Drawn)
      BY DEF TypeOK
    <3>. QED
      BY <2>1, <2>4, <3>1, WholeFacts
  <2>6. Text' = Front(new)
    BY <2>1 DEF Text, ReadIn
  <2>7. Text' = SubSeq(new, 1, n)
    BY <2>5, <2>6 DEF Front
  <2> HIDE DEF new
  <2>8. \A i \in 1 .. Len(final') : i = 1
    BY <2>4
  <2>. QED
    BY <2>1, <2>4, <2>7, <2>8 DEF Judged, new
<1>6. CASE BeginEagleOk
  <2>1. phase = "loop" /\ phase' = "draft" /\ final' = final /\ logits' = <<Text'>>
    BY <1>6, DecodeReads, DecodeGiven DEF BeginEagleOk, InLoop
  <2>2. Len(final') = 0
    BY <2>1, EmptySeq DEF Places
  <2>. QED
    BY <2>1, <2>2 DEF Judged
<1>7. CASE BeginDraft
  <2>1. phase = "loop" /\ phase' = "draft" /\ final' = final /\ setup.mode = "draft"
    BY <1>7 DEF BeginDraft, InLoop
  <2>2. Len(final') = 0
    BY <2>1, EmptySeq DEF Places
  <2>. QED
    BY <2>1, <2>2 DEF Judged
<1>8. CASE DraftToken \/ DraftHead
  <2>1. /\ phase = "draft" /\ phase' = "draft" /\ final' = final /\ output' = output
        /\ logits' = logits
    BY <1>8 DEF DraftToken, DraftHead
  <2>2. Text' = Text
    BY <1>1, <2>1 DEF Text, ReadIn
  <2>. QED
    BY <1>3, <2>1, <2>2 DEF Judged, Live
<1>9. CASE VerifyOk
  <2>1. phase = "draft" /\ phase' = "judge" /\ final' = final /\ output' = output
    BY <1>9 DEF VerifyOk
  <2>2. Len(final') = 0
    BY <2>1, EmptySeq DEF Places
  <2>3. \A i \in 1 .. setup.draft_k + 1 : logits'[i] = SubSeq(Text', 1, Len(output) - 1 + i)
    BY <1>9, VerifyGiven
  <2>. QED
    BY <2>1, <2>2, <2>3
<1>10. CASE Accept \/ Reject \/ Bonus
  <2>1. /\ phase = "judge" /\ phase' # "draft" /\ output' = output /\ drafts' = drafts
        /\ logits' = logits /\ phase' \in {"judge", "rollback"}
    BY <1>10 DEF Accept, Reject, Bonus, step
  <2>2. Text' = Text
    BY <2>1 DEF Text, ReadIn
  <2>3. \E t \in Tokens : Produce(t, accepted + 1)
    <3>1. CASE Accept
      <4>1. accepted + 1 \in 1 .. Len(drafts) /\ drafts \in Seq(Tokens)
        <5>1. accepted \in Nat /\ setup.draft_k \in Nat /\ accepted < setup.draft_k
          BY <3>1, SetupFacts DEF Accept, TypeOK
        <5>2. Len(drafts) = setup.draft_k /\ drafts \in Seq(Tokens)
          BY <2>1 DEF TypeOK, Places, Judged
        <5>. QED
          BY <5>1, <5>2
      <4>. QED
        BY <3>1, <4>1 DEF Accept
    <3>. QED
      BY <1>10, <3>1 DEF Reject, Bonus
  <2>4. \A i \in 1 .. Len(final') : final'[i].given =
           SubSeq(TokensOf(output' \o final'), 1, Len(output') + i - 1)
    BY <2>1, <2>3, ProduceGiven
  <2>. QED
    BY <1>3, <2>1, <2>2, <2>4 DEF Judged, Live
<1>11. CASE Rollback
  <2>1. phase = "rollback" /\ phase' = "print" /\ output' = output /\ final' = final
    BY <1>11 DEF Rollback
  <2>. QED
    BY <1>3, <2>1 DEF Judged, Live
<1>12. CASE Emit
  <2>1. /\ phase = "print" /\ output' = Append(output, Head(final)) /\ final # <<>>
        /\ final' = Tail(final) /\ phase' \in {"loop", "print"}
    BY <1>12 DEF Emit, Places, Live
  <2>2. output' \o final' = output \o final
    BY <1>2, <2>1, EmitWhole
  <2>3. /\ Len(output') = Len(output) + 1 /\ Len(final') = Len(final) - 1
        /\ \A i \in 1 .. Len(final') : final'[i] = final[i + 1]
    <3> DEFINE h == Head(final)
               r == Tail(final)
    <3>1. h \in Drawn /\ Len(r) = Len(final) - 1 /\ \A i \in 1 .. Len(r) : r[i] = final[i + 1]
      BY <1>2, <2>1, HeadTailProperties
    <3> HIDE DEF h, r
    <3>2. Len(Append(output, h)) = Len(output) + 1
      BY <1>2, <3>1, AppendProperties
    <3>. QED
      BY <2>1, <3>1, <3>2 DEF h, r
  <2>4. ASSUME NEW i \in 1 .. Len(final')
        PROVE  final'[i].given = SubSeq(TokensOf(output' \o final'), 1, Len(output') + i - 1)
    <3>1. i + 1 \in 1 .. Len(final) /\ Len(output) + (i + 1) - 1 = Len(output') + i - 1
      BY <1>2, <2>3
    <3>2. Live
      BY <2>1 DEF Live
    <3> DEFINE h == i + 1
    <3>3. final[h].given = SubSeq(TokensOf(output \o final), 1, Len(output) + h - 1)
      BY <1>3, <3>1, <3>2
    <3>. QED
      BY <2>2, <2>3, <3>1, <3>3
  <2>. QED
    BY <2>1, <2>4 DEF Judged
<1>13. CASE UNCHANGED vars
  <2>1. /\ phase' = phase /\ output' = output /\ drafts' = drafts /\ final' = final
        /\ logits' = logits
    BY <1>13 DEF vars, step
  <2>2. Text' = Text
    BY <1>1, <2>1 DEF Text
  <2>. QED
    BY <1>3, <2>1, <2>2 DEF Judged, Live
<1>. QED
  BY <1>4, <1>5, <1>6, <1>7, <1>8, <1>9, <1>10, <1>11, <1>12, <1>13, Steps

---------------------------------------------------------------------------
(* Positions *)

\* Below: each entry was rotated to a position before the next one.
Below(c) == \A i \in 1 .. Len(c.layer) : c.layer[i].pos < c.text_pos

\* With MRoPE a pass goes on from the next position.
LEMMA FedAhead ==
    ASSUME NEW x \in Models, NEW c \in Caches, NEW f \in Caches, NEW toks \in Seq(Nat),
           IsFed(x, c, toks, f), x.mrope, Rises(c), Below(c)
    PROVE  Rises(f) /\ Below(f)
<1> DEFINE a == c.layer
           b == f.layer
           n == Len(a)
           k == Len(toks)
           p == c.text_pos
           r == f.text_pos
<1>1. /\ n \in Nat /\ k \in Nat /\ p \in Nat /\ a \in Seq(Pairs)
      /\ \A e \in Pairs : e.pos \in Nat
  BY DEF Caches, Pairs
<1>2. /\ Len(b) = n + k /\ r = p + k
      /\ \A i \in 1 .. n : b[i] = a[i]
      /\ \A i \in 1 .. k : b[n + i].pos = p + i - 1
  BY DEF IsFed, Position
<1>3. /\ \A i, j \in 1 .. n : i < j => a[i].pos < a[j].pos
      /\ \A i \in 1 .. n : a[i].pos < p
      /\ \A i \in 1 .. n : a[i].pos \in Nat
  <2>1. \A i \in 1 .. n : a[i] \in Pairs
    BY <1>1
  <2>. QED
    BY <1>1, <2>1 DEF Rises, Below
<1> HIDE DEF a, b, n, k, p, r
\* Old entries are below p, the i-th new one is at p + i - 1.
<1>4. ASSUME NEW i \in 1 .. n + k
      PROVE  /\ i <= n => b[i] = a[i] /\ b[i].pos < p /\ b[i].pos \in Nat /\ i \in 1 .. n
             /\ ~(i <= n) => b[i].pos = p + (i - n) - 1
  <2>1. CASE i <= n
    <3>1. i \in 1 .. n
      BY <1>1, <2>1
    <3>. QED
      BY <1>2, <1>3, <2>1, <3>1
  <2>2. CASE ~(i <= n)
    <3>1. n \in Int /\ k \in Int /\ i > n
      BY <1>1, <2>2
    <3>2. PICK h \in 1 .. k : i = n + h
      BY <3>1, Beyond
    <3>3. b[n + h].pos = p + h - 1
      BY <1>2
    <3>4. h = i - n
      BY <1>1, <3>2
    <3>. QED
      BY <2>2, <3>2, <3>3, <3>4
  <2>. QED
    BY <2>1, <2>2
<1>5. ASSUME NEW i \in 1 .. n + k, NEW j \in 1 .. n + k, i < j PROVE b[i].pos < b[j].pos
  <2>1. CASE j <= n
    <3>1. i \in 1 .. n /\ j \in 1 .. n /\ b[i] = a[i] /\ b[j] = a[j]
      BY <1>1, <1>4, <1>5, <2>1
    <3>. QED
      BY <1>3, <1>5, <3>1
  <2>2. CASE ~(j <= n) /\ i <= n
    <3>1. b[j].pos = p + (j - n) - 1 /\ b[i].pos < p /\ b[i].pos \in Nat
      BY <1>4, <2>2
    <3>. QED
      BY <1>1, <2>2, <3>1
  <2>3. CASE ~(i <= n)
    <3>1. ~(j <= n)
      BY <1>1, <1>5, <2>3
    <3>2. b[j].pos = p + (j - n) - 1 /\ b[i].pos = p + (i - n) - 1
      BY <1>4, <2>3, <3>1
    <3>. QED
      BY <1>1, <1>5, <3>2
  <2>. QED
    BY <2>1, <2>2, <2>3
<1>6. ASSUME NEW i \in 1 .. n + k PROVE b[i].pos < r
  <2>1. CASE i <= n
    <3>1. b[i].pos < p /\ b[i].pos \in Nat
      BY <1>4, <2>1
    <3>. QED
      BY <1>1, <1>2, <3>1
  <2>2. CASE ~(i <= n)
    <3>1. b[i].pos = p + (i - n) - 1
      BY <1>4, <2>2
    <3>. QED
      BY <1>1, <1>2, <3>1
  <2>. QED
    BY <2>1, <2>2
<1>7. Rises(f)
  BY <1>2, <1>5 DEF Rises, b
<1>8. Below(f)
  BY <1>2, <1>6 DEF Below, b, r
<1>. QED
  BY <1>7, <1>8

\* What stays keeps its positions.
LEMMA PicksAhead ==
    ASSUME NEW c \in Caches, NEW e \in Caches, NEW g, Picks(e.layer, c.layer, g),
           e.text_pos = c.text_pos, Rises(c), Below(c)
    PROVE  Rises(e) /\ Below(e)
<1> DEFINE s == e.layer
           t == c.layer
<1>1. /\ g \in [1 .. Len(s) -> 1 .. Len(t)]
      /\ \A i, j \in 1 .. Len(s) : i < j => g[i] < g[j]
      /\ \A i \in 1 .. Len(s) : s[i] = t[g[i]]
  BY DEF Picks
<1>2. /\ \A i, j \in 1 .. Len(t) : i < j => t[i].pos < t[j].pos
      /\ \A i \in 1 .. Len(t) : t[i].pos < e.text_pos
  BY DEF Rises, Below
<1> HIDE DEF s, t
<1>3. ASSUME NEW i \in 1 .. Len(s), NEW j \in 1 .. Len(s), i < j PROVE s[i].pos < s[j].pos
  <2>1. g[i] \in 1 .. Len(t) /\ g[j] \in 1 .. Len(t) /\ g[i] < g[j]
    BY <1>1, <1>3
  <2>2. t[g[i]].pos < t[g[j]].pos
    BY <1>2, <2>1
  <2>. QED
    BY <1>1, <2>2
<1>4. ASSUME NEW i \in 1 .. Len(s) PROVE s[i].pos < e.text_pos
  <2>1. g[i] \in 1 .. Len(t)
    BY <1>1
  <2>2. t[g[i]].pos < e.text_pos
    BY <1>2, <2>1
  <2>. QED
    BY <1>1, <2>2
<1>. QED
  BY <1>3, <1>4 DEF Rises, Below, s

\* Tokens that were read last, k of them, have consecutive positions: cutting
\* back no more than k of them takes the next position back as far.
LEMMA CutAhead ==
    ASSUME NEW x, NEW c \in Caches, NEW n \in Nat, NEW k \in Nat, Agree(x, c), Rises(c), Below(c),
           Len(c.layer) - n <= k,
           \A i \in 1 .. k : c.layer[Len(c.layer) - k + i].pos = c.text_pos - k + i - 1
    PROVE  Rises(TruncateKv(c, n)) /\ Below(TruncateKv(c, n))
<1> DEFINE t == TruncateKv(c, n)
           a == c.layer
           b == t.layer
           l == Len(a)
           p == c.text_pos
           r == t.text_pos
<1>1. /\ l \in Nat /\ p \in Nat /\ a \in Seq(Pairs) /\ \A e \in Pairs : e.pos \in Nat
  BY DEF Caches, Pairs
<1>2. /\ Len(b) = IF n < l THEN n ELSE l
      /\ \A i \in 1 .. Len(b) : b[i] = a[i]
      /\ r = IF n < l /\ l - n <= p THEN p - (l - n) ELSE IF n < l THEN 0 ELSE p
  BY TruncFacts
<1>3. /\ \A i, j \in 1 .. l : i < j => a[i].pos < a[j].pos
      /\ \A i \in 1 .. l : a[i].pos < p
      /\ \A i \in 1 .. l : a[i].pos \in Nat
  <2>1. \A i \in 1 .. l : a[i] \in Pairs
    BY <1>1
  <2>. QED
    BY <1>1, <2>1 DEF Rises, Below
<1>4. l - n <= k /\ \A i \in 1 .. k : a[l - k + i].pos = p - k + i - 1
  OBVIOUS
<1> SUFFICES Rises(t) /\ Below(t)
  OBVIOUS
<1> HIDE DEF a, b, l, p, r, t
<1>5. \A i \in 1 .. Len(b) : i \in 1 .. l
  BY <1>1, <1>2
<1>6. \A i, j \in 1 .. Len(b) : i < j => b[i].pos < b[j].pos
  BY <1>2, <1>3, <1>5
<1>7. ASSUME NEW i \in 1 .. Len(b) PROVE b[i].pos < r
  <2>1. b[i] = a[i] /\ i \in 1 .. l
    BY <1>2, <1>5
  <2>2. CASE n < l
    <3> DEFINE h == k - (l - n) + 1
    <3>1. h \in 1 .. k /\ l - k + h = n + 1 /\ p - k + h - 1 = p - (l - n)
      BY <1>1, <1>4, <2>2
    <3> HIDE DEF h
    <3>2. a[l - k + h].pos = p - k + h - 1
      BY <1>4, <3>1
    <3>3. n + 1 \in 1 .. l /\ i < n + 1
      BY <1>1, <1>2, <2>2
    <3>4. a[n + 1].pos = p - (l - n)
      BY <3>1, <3>2
    <3>5. a[n + 1].pos \in Nat /\ a[i].pos < a[n + 1].pos
      BY <1>3, <2>1, <3>3
    <3>6. r = p - (l - n)
      BY <1>1, <1>2, <2>2, <3>4, <3>5
    <3>. QED
      BY <2>1, <3>4, <3>5, <3>6
  <2>3. CASE ~(n < l)
    BY <1>2, <1>3, <2>1, <2>3
  <2>. QED
    BY <2>2, <2>3
<1>. QED
  BY <1>6, <1>7 DEF Rises, Below, b, r

\* Only a step that goes on touches the target's cache.
LEMMA StillOrLive ==
    ASSUME [Next]_vars
    PROVE  target' = target \/ Live'
BY Steps DEF EndLoop, DecodeOk, BeginDraft, BeginEagleOk, DraftToken, DraftHead, VerifyOk,
             Accept, Reject, Bonus, Rollback, Emit, Fail, vars, Live

\* A step keeps positions ascending.
LEMMA AheadStep ==
    ASSUME TypeOK, TypeOK', Places, Places', Agreement, Starts, Reads', Ahead, [Next]_vars
    PROVE  Ahead'
<1> DEFINE k == setup.draft_k
<1>1. setup' = setup /\ m' = m /\ NoCut' = NoCut
  BY SetupStays DEF NoCut, NoEviction
<1>2. /\ m \in Models /\ k \in Nat /\ setup.kv_budget \in Nat
      /\ target \in Caches /\ target' \in Caches /\ Agree(m, target)
      /\ start.target \in Nat /\ accepted \in Nat /\ target.text_pos \in Nat
  BY SetupFacts, CacheFacts DEF TypeOK, Agreement
<1>3. /\ Text \in Seq(Nat) /\ Text' \in Seq(Nat) /\ ToVerify \in Seq(Nat)
  BY TextFacts, TextFactsNext, VerifiedTokens DEF IsRead, ToVerify
<1>4. /\ m.mrope \/ NoCut => Rises(target)
      /\ Live /\ m.mrope =>
           /\ Below(target)
           /\ setup.mode = "plain" => target.text_pos = Len(Text)
           /\ Judged => \A i \in 1 .. k :
                 target.layer[Len(target.layer) - k + i].pos = target.text_pos - k + i - 1
  BY DEF Ahead, Below
<1>5. Live' /\ NoCut => Rises(target')
  <2>1. Live' /\ NoCut => Exact(m, target', Text')
    BY <1>1 DEF Reads
  <2>. QED
    BY <1>2, <1>3, <2>1, ExactFacts
<1>6. ASSUME /\ m.mrope => Rises(target')
             /\ Live' /\ m.mrope =>
                  /\ Below(target')
                  /\ setup.mode = "plain" => target'.text_pos = Len(Text')
                  /\ Judged' => \A i \in 1 .. k :
                        target'.layer[Len(target'.layer) - k + i].pos = target'.text_pos - k + i - 1
      PROVE  Ahead'
  <2>1. NoCut => Rises(target')
    BY <1>4, <1>5, StillOrLive
  <2>. QED
    BY <1>1, <1>6, <2>1 DEF Ahead, Below, Rises
<1>7. CASE Untouched
  BY <1>4, <1>6, <1>7 DEF Untouched
<1>8. CASE ReadsOne
  <2> DEFINE toks == <<current_token>>
             c == Feed(m, target, toks, FALSE)
             s == Text
  <2>1. /\ target' \in Evictions(m, c, setup.kv_budget)
        /\ Live /\ Text' = s \o toks /\ ~Judged'
    BY <1>8 DEF ReadsOne
  <2>2. toks \in Seq(Nat) /\ Len(toks) = 1
    BY LastFacts DEF TypeOK
  <2>3. s \in Seq(Nat)
    BY <1>3
  <2> HIDE DEF toks, s
  <2>4. c \in Caches /\ IsFed(m, target, toks, c) /\ Agree(m, c)
    BY <1>2, <2>2, FeedFacts
  <2>5. Len(s \o toks) = Len(s) + 1
    <3>1. Len(s \o toks) = Len(s) + Len(toks)
      BY <2>2, <2>3, Concat
    <3>. QED
      BY <2>2, <3>1
  <2> HIDE DEF c
  <2>6. target'.text_pos = c.text_pos /\ \E g : Picks(target'.layer, c.layer, g)
    BY <1>2, <2>1, <2>4, EvictFacts
  <2>7. ASSUME m.mrope
        PROVE  /\ Rises(target') /\ Below(target')
               /\ setup.mode = "plain" => target'.text_pos = Len(Text')
    <3>1. Rises(target) /\ Below(target) /\ (setup.mode = "plain" => target.text_pos = Len(s))
      BY <1>4, <2>1, <2>7 DEF s
    <3>4. Rises(c) /\ Below(c)
      BY <1>2, <2>2, <2>4, <2>7, <3>1, FedAhead
    <3>5. c.text_pos = target.text_pos + 1
      BY <2>2, <2>4, <2>7 DEF IsFed
    <3>2. Rises(c) /\ Below(c) /\ c.text_pos = target.text_pos + 1
      BY <3>4, <3>5
    <3>3. Rises(target') /\ Below(target')
      BY <1>2, <2>4, <2>6, <3>2, PicksAhead
    <3>. QED
      BY <2>1, <2>5, <2>6, <3>1, <3>2, <3>3
  <2>. QED
    BY <1>6, <2>1, <2>7
<1>9. CASE ReadsDraft
  <2> DEFINE toks == ToVerify
             c == target'
             n == Len(target.layer)
             p == target.text_pos
             v == Len(toks)
  <2>1. /\ c = Feed(m, target, toks, TRUE) /\ toks \in Seq(Nat)
        /\ Live /\ setup.mode # "plain" /\ k <= v
    BY <1>3, <1>9, VerifyFacts DEF ReadsDraft
  <2> HIDE DEF toks
  <2>2. IsFed(m, target, toks, c)
    BY <1>2, <2>1, FeedFacts
  <2>3. ASSUME m.mrope
        PROVE  /\ Rises(c) /\ Below(c)
               /\ \A i \in 1 .. k : c.layer[Len(c.layer) - k + i].pos = c.text_pos - k + i - 1
    <3>1. Rises(target) /\ Below(target)
      BY <1>4, <2>1, <2>3
    <3>2. c \in Caches
      BY <1>2
    <3> HIDE DEF c
    <3>3. /\ Rises(c) /\ Below(c) /\ c.text_pos = p + v /\ Len(c.layer) = n + v
          /\ \A i \in 1 .. v : c.layer[n + i].pos = p + i - 1
      <4>1. Rises(c) /\ Below(c)
        BY <1>2, <2>1, <2>2, <2>3, <3>1, <3>2, FedAhead
      <4>2. c.text_pos = p + v /\ Len(c.layer) = n + v
        BY <2>2, <2>3 DEF IsFed
      <4>3. \A i \in 1 .. v : c.layer[n + i].pos = p + i - 1
        BY <2>2, <2>3 DEF IsFed, Position
      <4>. QED
        BY <4>1, <4>2, <4>3
    <3>4. n \in Nat /\ v \in Nat /\ p \in Nat
      BY <1>2, <2>1 DEF Caches
    <3> HIDE DEF n, v, p
    <3>5. ASSUME NEW i \in 1 .. k
          PROVE  c.layer[Len(c.layer) - k + i].pos = c.text_pos - k + i - 1
      <4> DEFINE h == v - k + i
                 l == Len(c.layer)
                 r == c.text_pos
      <4>1. h \in 1 .. v /\ l - k + i = n + h /\ r - k + i - 1 = p + h - 1
        <5>1. k \in Nat /\ k <= v /\ l = n + v /\ r = p + v
          BY <1>2, <2>1, <3>3
        <5> HIDE DEF k, l, r
        <5>. QED
          BY <3>4, <5>1
      <4> HIDE DEF h
      <4>2. c.layer[n + h].pos = p + h - 1
        BY <3>3, <4>1
      <4>. QED
        BY <4>1, <4>2
    <3>. QED
      BY <3>3, <3>5
  <2>. QED
    BY <1>6, <2>1, <2>3
<1>10. CASE CutsBack
  <2> DEFINE n == start.target + 1 + accepted
             l == Len(target.layer)
  <2>1. /\ target' = TruncateKv(target, n) /\ Live /\ setup.mode # "plain" /\ Judged /\ ~Judged'
    BY <1>10 DEF CutsBack
  <2>2. n \in Nat /\ l \in Nat
    <3>1. n \in Nat
      BY <1>2
    <3>2. l \in Nat
      BY <1>2 DEF Caches
    <3>. QED
      BY <3>1, <3>2
  <2>3. l - n <= k
    <3> DEFINE b == start.target
    <3>1. l <= b + 1 + k
      BY <2>1 DEF Starts, InStep, Judged
    <3>2. b \in Nat /\ accepted \in Nat /\ k \in Nat /\ l \in Nat /\ n = b + 1 + accepted
      BY <1>2, <2>2
    <3> HIDE DEF b, n, l, k
    <3>. QED
      BY <3>1, <3>2
  <2> HIDE DEF n
  <2>4. ASSUME m.mrope PROVE Rises(target') /\ Below(target')
    <3>1. /\ Rises(target) /\ Below(target)
          /\ \A i \in 1 .. k : target.layer[l - k + i].pos = target.text_pos - k + i - 1
      BY <1>4, <2>1, <2>4
    <3>. QED
      BY <1>2, <2>1, <2>2, <2>3, <3>1, CutAhead
  <2>. QED
    BY <1>6, <2>1, <2>4
<1>. QED
  BY <1>7, <1>8, <1>9, <1>10, TargetMoves

---------------------------------------------------------------------------
(* The draft's cache *)

\* In a step: what the draft had, and what it reads from then on.
DraftReads(l, s, dr, w) ==
    /\ Len(l) = s + Len(dr)
    /\ \A i \in 1 .. Len(dr) : l[s + i].tok = IF i = 1 THEN w ELSE dr[i - 1]

\* The draft reads one more of its own tokens.
LEMMA DraftOn ==
    ASSUME TypeOK, TypeOK', Agreement, DraftToken,
           DraftReads(draft.layer, start.draft, drafts, current_token),
           IsPart(Before, Front(TokensOf(output)))
    PROVE  /\ DraftReads(draft'.layer, start.draft, drafts', current_token)
           /\ SubSeq(TokensOf(draft'.layer), 1, start.draft) = Before
<1> DEFINE q == IF drafts = <<>> THEN current_token ELSE Last(drafts)
           toks == <<q>>
           s == start.draft
           k == Len(drafts)
           w == current_token
           c == draft
           f == draft'
           new == drafts'
<1>1. /\ c \in Caches /\ f \in Caches /\ s \in Nat /\ drafts \in Seq(Tokens) /\ k \in Nat
      /\ Len(c.layer) = s + k
      /\ \A i \in 1 .. k : c.layer[s + i].tok = IF i = 1 THEN w ELSE drafts[i - 1]
  BY DEF TypeOK, DraftReads
<1>2. q \in Nat /\ toks \in Seq(Nat) /\ Len(toks) = 1 /\ toks[1] = q
  <2>1. current_token \in Nat
    BY LastFacts DEF TypeOK
  <2>2. drafts # <<>> => drafts[Len(drafts)] \in Tokens
    BY <1>1, EmptySeq
  <2>3. Tokens \subseteq Nat
    BY SpecAssumption
  <2>4. q \in Nat
    BY <2>1, <2>2, <2>3 DEF Last
  <2> HIDE DEF q
  <2>. QED
    BY <2>4
<1>3. q = IF k = 0 THEN w ELSE drafts[k]
  BY <1>1, EmptySeq DEF Last
<1>4. f = Feed(dm, c, toks, FALSE)
  BY DEF DraftToken
<1>5. PICK t \in Tokens : new = Append(drafts, t)
  BY DEF DraftToken
<1> HIDE DEF new, toks, q, s, k
<1>6. Len(new) = k + 1 /\ \A i \in 1 .. k : new[i] = drafts[i]
  BY <1>1, <1>5, AppendProperties DEF k
<1>7. IsFed(dm, c, toks, f)
  <2>1. dm \in Models
    BY SetupFacts DEF TypeOK
  <2>. QED
    BY <1>1, <1>2, <1>4, <2>1, FeedFacts
<1>8. /\ Len(f.layer) = s + k + 1
      /\ \A i \in 1 .. s + k : f.layer[i] = c.layer[i]
      /\ f.layer[s + k + 1].tok = q
  BY <1>1, <1>2, <1>7 DEF IsFed
<1>9. DraftReads(f.layer, s, new, w)
  <2>1. Len(f.layer) = s + Len(new)
    BY <1>1, <1>6, <1>8
  <2>2. ASSUME NEW i \in 1 .. Len(new)
        PROVE  f.layer[s + i].tok = IF i = 1 THEN w ELSE new[i - 1]
    <3>1. CASE i <= k
      <4>1. i \in 1 .. k /\ s + i \in 1 .. s + k /\ (i # 1 => i - 1 \in 1 .. k)
        BY <1>1, <1>6, <3>1
      <4>2. f.layer[s + i] = c.layer[s + i]
        BY <1>8, <4>1
      <4>3. i # 1 => new[i - 1] = drafts[i - 1]
        BY <1>6, <4>1
      <4>. QED
        BY <1>1, <4>1, <4>2, <4>3
    <3>2. CASE i = k + 1
      <4>1. s + i = s + k + 1 /\ (i = 1 <=> k = 0) /\ i - 1 = k /\ (k # 0 => k \in 1 .. k)
        BY <1>1, <3>2
      <4>2. k # 0 => new[k] = drafts[k]
        BY <1>6, <4>1
      <4>. QED
        BY <1>3, <1>8, <4>1, <4>2
    <3>3. i <= k \/ i = k + 1
      BY <1>1, <1>6
    <3>. QED
      BY <3>1, <3>2, <3>3
  <2>. QED
    BY <2>1, <2>2 DEF DraftReads
<1>10. SubSeq(TokensOf(f.layer), 1, s) = SubSeq(TokensOf(c.layer), 1, s)
  <2> DEFINE a == c.layer
             b == f.layer
             u == TokensOf(a)
             v == TokensOf(b)
  <2>1. a \in Seq(Pairs) /\ b \in Seq(Pairs) /\ \A e \in Pairs : e.tok \in Nat
    BY <1>1 DEF Caches, Pairs
  <2>2. /\ Len(a) = s + k /\ Len(b) = s + k + 1
        /\ \A i \in 1 .. s + k : b[i] = a[i]
    BY <1>1, <1>8
  <2> HIDE DEF a, b
  <2>3. u \in Seq(Nat) /\ Len(u) = Len(a) /\ \A i \in 1 .. Len(a) : u[i] = a[i].tok
    BY <2>1, PairTokens
  <2>4. v \in Seq(Nat) /\ Len(v) = Len(b) /\ \A i \in 1 .. Len(b) : v[i] = b[i].tok
    BY <2>1, PairTokens
  <2> HIDE DEF u, v
  <2>5. s \in Nat /\ s <= Len(u) /\ s <= Len(v)
    BY <1>1, <2>2, <2>3, <2>4
  <2>6. ASSUME NEW i \in 1 .. s PROVE v[i] = u[i]
    <3>1. i \in 1 .. s + k /\ i \in 1 .. Len(a) /\ i \in 1 .. Len(b)
      BY <1>1, <2>2
    <3>. QED
      BY <2>2, <2>3, <2>4, <3>1
  <2>7. SubSeq(v, 1, s) = SubSeq(u, 1, s)
    BY <2>3, <2>4, <2>5, <2>6, SameStart
  <2>. QED
    BY <2>7 DEF u, v, a, b
<1>. QED
  BY <1>9, <1>10 DEF Before, new, s

\* What is left of the draft's cache is part of what is left of the text: what it
\* had before the step, current_token, and its own tokens that were accepted.
LEMMA DraftBack ==
    ASSUME NEW c \in Caches, NEW s \in Nat, NEW dr \in Seq(Tokens), NEW w,
           DraftReads(c.layer, s, dr, w),
           NEW out \in Seq(Drawn), out # <<>>, w = out[Len(out)].tok,
           IsPart(SubSeq(TokensOf(c.layer), 1, s), Front(TokensOf(out))),
           NEW a \in Nat, a <= Len(dr),
           NEW e \in Caches, Len(e.layer) = IF s + 1 + a < Len(c.layer) THEN s + 1 + a
                                                                       ELSE Len(c.layer),
           \A i \in 1 .. Len(e.layer) : e.layer[i] = c.layer[i],
           NEW t \in Seq(Nat), Len(t) = Len(out) + a, Spells(t, out), Goes(t, Len(out), dr, a)
    PROVE  IsPart(TokensOf(e.layer), t)
<1> DEFINE b == c.layer
           l == e.layer
           full_ == TokensOf(b)
           u == SubSeq(full_, 1, s)
           v == TokensOf(l)
           o == TokensOf(out)
           r == Front(o)
           n == Len(out)
           j == Len(l) - s
<1>1. /\ b \in Seq(Pairs) /\ l \in Seq(Pairs) /\ \A i \in Pairs : i.tok \in Nat
      /\ Len(dr) \in Nat /\ n \in Nat \ {0}
  <2>1. b \in Seq(Pairs) /\ l \in Seq(Pairs) /\ \A i \in Pairs : i.tok \in Nat
    BY DEF Caches, Pairs
  <2>2. Len(dr) \in Nat /\ n \in Nat \ {0}
    BY EmptySeq
  <2>. QED
    BY <2>1, <2>2
<1>2. /\ Len(b) = s + Len(dr)
      /\ \A i \in 1 .. Len(dr) : b[s + i].tok = IF i = 1 THEN w ELSE dr[i - 1]
      /\ Len(l) = IF s + 1 + a < Len(b) THEN s + 1 + a ELSE Len(b)
      /\ \A i \in 1 .. Len(l) : l[i] = b[i]
      /\ IsPart(u, r)
  BY DEF DraftReads
<1> SUFFICES IsPart(v, t)
  OBVIOUS
<1> HIDE DEF b, l
<1>3. full_ \in Seq(Nat) /\ Len(full_) = Len(b) /\ \A i \in 1 .. Len(b) : full_[i] = b[i].tok
  BY <1>1, PairTokens
<1>4. v \in Seq(Nat) /\ Len(v) = Len(l) /\ \A i \in 1 .. Len(l) : v[i] = l[i].tok
  BY <1>1, PairTokens
<1>5. o \in Seq(Nat) /\ Len(o) = n /\ \A i \in 1 .. n : o[i] = out[i].tok
  BY PrintedFacts
<1> HIDE DEF full_, v, o
<1>6. u \in Seq(Nat) /\ Len(u) = s /\ \A i \in 1 .. s : u[i] = full_[i]
  <2>1. s <= Len(full_)
    BY <1>1, <1>2, <1>3
  <2>. QED
    BY <1>3, <2>1, PrefixFacts
<1>7. r \in Seq(Nat) /\ Len(r) = n - 1 /\ \A i \in 1 .. n - 1 : r[i] = o[i]
  <2> DEFINE p == n - 1
  <2>1. p \in Nat /\ p <= Len(o) /\ r = SubSeq(o, 1, p)
    <3>1. Len(o) = n /\ n \in Nat \ {0}
      BY <1>1, <1>5
    <3>2. r = SubSeq(o, 1, p)
      BY <3>1 DEF Front
    <3> HIDE DEF n
    <3>3. p \in Nat /\ p <= n
      BY <3>1
    <3>. QED
      BY <3>1, <3>2, <3>3
  <2> HIDE DEF p
  <2>2. SubSeq(o, 1, p) \in Seq(Nat) /\ Len(SubSeq(o, 1, p)) = p
        /\ \A i \in 1 .. p : SubSeq(o, 1, p)[i] = o[i]
    BY <1>5, <2>1, PrefixFacts
  <2>. QED
    BY <2>1, <2>2 DEF p
<1> HIDE DEF u, r
<1>8. /\ j \in Nat /\ Len(l) = s + j /\ j <= Len(dr) /\ j <= a + 1
      /\ Len(l) \in Nat /\ Len(b) \in Nat /\ s <= Len(l) /\ s <= Len(b) /\ Len(l) <= Len(b)
  <2> DEFINE p == Len(l)
             q == Len(b)
             x == Len(dr)
  <2>1. p = (IF s + 1 + a < q THEN s + 1 + a ELSE q) /\ q = s + x /\ x \in Nat /\ a <= x
    BY <1>1, <1>2
  <2> HIDE DEF p, q, x
  <2>2. /\ p - s \in Nat /\ p = s + (p - s) /\ p - s <= x /\ p - s <= a + 1
        /\ p \in Nat /\ q \in Nat /\ s <= p /\ s <= q /\ p <= q
    BY <2>1
  <2>. QED
    BY <2>2 DEF p, q, x
<1> HIDE DEF j
<1>9. ASSUME NEW i \in 1 .. s PROVE v[i] = u[i]
  <2>1. i \in 1 .. Len(l) /\ i \in 1 .. Len(b)
    BY <1>8
  <2>2. v[i] = l[i].tok /\ u[i] = full_[i]
    BY <1>4, <1>6, <2>1
  <2>3. l[i] = b[i] /\ full_[i] = b[i].tok
    BY <1>2, <1>3, <2>1
  <2>. QED
    BY <2>2, <2>3
<1>10. ASSUME NEW i \in 1 .. n - 1 PROVE t[i] = r[i]
  <2>1. i \in 1 .. n /\ i <= Len(t)
    <3> DEFINE lt == Len(t)
    <3>1. lt = n + a /\ n \in Nat \ {0} /\ i \in 1 .. n - 1
      BY <1>1
    <3> HIDE DEF n, lt
    <3>2. i \in 1 .. n /\ i <= lt
      BY <3>1
    <3>. QED
      BY <3>2 DEF lt
  <2>2. t[i] = out[i].tok
    BY <2>1 DEF Spells
  <2>. QED
    BY <1>5, <1>7, <2>1, <2>2
<1>11. ASSUME NEW i \in 1 .. j PROVE v[s + i] = t[n - 1 + i]
  <2>1. s + i \in 1 .. Len(l) /\ i \in 1 .. Len(dr)
    BY <1>1, <1>8
  <2>2. v[s + i] = IF i = 1 THEN w ELSE dr[i - 1]
    BY <1>2, <1>4, <2>1
  <2>3. CASE i = 1
    <3>1. n - 1 + i = n /\ n \in 1 .. n /\ n <= Len(t)
      <4> DEFINE lt == Len(t)
      <4>1. lt = n + a /\ n \in Nat \ {0}
        BY <1>1
      <4> HIDE DEF n, lt
      <4>2. n - 1 + i = n /\ n \in 1 .. n /\ n <= lt
        BY <2>3, <4>1
      <4>. QED
        BY <4>2 DEF lt
    <3>2. t[n] = out[n].tok
      BY <3>1 DEF Spells
    <3>. QED
      BY <2>2, <2>3, <3>1, <3>2
  <2>4. CASE i # 1
    <3> DEFINE h == i - 1
    <3>1. h \in 1 .. a /\ n - 1 + i = n + h
      BY <1>1, <1>8, <2>4
    <3> HIDE DEF h
    <3>2. t[n + h] = dr[h]
      BY <3>1 DEF Goes
    <3>. QED
      BY <2>2, <2>4, <3>1, <3>2 DEF h
  <2>. QED
    BY <2>3, <2>4
<1>12. /\ Len(u) <= Len(v) /\ Len(r) <= Len(t) /\ Len(v) - Len(u) <= Len(t) - Len(r)
       /\ Len(v) - Len(u) = j
  <2> DEFINE lv == Len(v)
             lu == Len(u)
             lr == Len(r)
             lt == Len(t)
  <2>1. lv = s + j /\ lu = s
    BY <1>4, <1>6, <1>8
  <2>2. lr = n - 1
    BY <1>7
  <2>3. lt = n + a
    OBVIOUS
  <2>4. n \in Nat /\ j \in Nat /\ j <= a + 1
    BY <1>1, <1>8
  <2> HIDE DEF n, lv, lu, lr, lt
  <2>5. lu <= lv /\ lr <= lt /\ lv - lu <= lt - lr /\ lv - lu = j
    BY <2>1, <2>2, <2>3, <2>4
  <2>. QED
    BY <2>5 DEF lv, lu, lr, lt
<1>13. \A i \in 1 .. Len(v) - Len(u) : v[Len(u) + i] = t[Len(r) + i]
  BY <1>6, <1>7, <1>11, <1>12
<1>14. (\A i \in 1 .. Len(u) : v[i] = u[i]) /\ (\A i \in 1 .. Len(r) : t[i] = r[i])
  BY <1>6, <1>7, <1>9, <1>10
<1>15. u \in Seq(Nat) /\ r \in Seq(Nat) /\ v \in Seq(Nat) /\ t \in Seq(Nat) /\ IsPart(u, r)
  BY <1>2, <1>4, <1>6, <1>7
<1> HIDE DEF n
<1>. QED
  BY <1>12, <1>13, <1>14, <1>15, PartExtend

\* A step keeps the draft's cache behind the target's.
LEMMA LagsStep ==
    ASSUME TypeOK, TypeOK', Places, Places', Agreement, Agreement', Starts, Reads, Reads', Lags,
           [Next]_vars
    PROVE  Lags'
<1> DEFINE k == setup.draft_k
           d == Len(draft.layer)
           s == start.draft
           o == Len(output)
<1>1. setup' = setup /\ NoCut' = NoCut
  BY SetupStays DEF NoCut, NoEviction
<1> SUFFICES ASSUME Live', setup.mode = "draft"
             PROVE  /\ ~InStep' => /\ Len(draft'.layer) + full' = Len(target'.layer)
                                   /\ IsPart(TokensOf(draft'.layer), Text')
                    /\ InStep' => /\ DraftReads(draft'.layer, start'.draft, drafts', current_token')
                                  /\ IsPart(Before', Front(TokensOf(output')))
                                  /\ start'.draft + full' =
                                        IF phase' = "rollback" /\ accepted' = k
                                        THEN Len(output') ELSE Len(output') - 1
  BY <1>1, Zenon DEF Lags, DraftReads
<1>2. Live =>
        /\ ~InStep => d + full = Len(target.layer) /\ IsPart(TokensOf(draft.layer), Text)
        /\ InStep => /\ DraftReads(draft.layer, s, drafts, current_token)
                     /\ IsPart(Before, Front(TokensOf(output)))
                     /\ s + full = IF phase = "rollback" /\ accepted = k THEN o ELSE o - 1
  BY DEF Lags, DraftReads
<1>3. /\ k \in Nat /\ d \in Nat /\ s \in Nat /\ o \in Nat \ {0} /\ full \in Nat /\ accepted \in Nat
      /\ draft \in Caches /\ draft.seq_len = d
      /\ Live => Exact(m, target, Text)
      /\ Exact(m', target', Text')
  <2>1. k \in Nat
    BY SetupFacts DEF TypeOK
  <2>2. o \in Nat \ {0}
    BY LastFacts DEF TypeOK
  <2>3. draft \in Caches /\ s \in Nat /\ full \in Nat /\ accepted \in Nat
    BY DEF TypeOK
  <2>4. d \in Nat /\ draft.seq_len = d
    BY <2>3 DEF Caches, Agreement, Agree
  <2>5. NoCut /\ NoCut'
    BY <1>1 DEF NoCut
  <2>. QED
    BY <2>1, <2>2, <2>3, <2>4, <2>5 DEF Reads
<1>4. CASE EndLoop \/ Fail
  BY <1>4 DEF EndLoop, Fail, Live
<1>5. CASE DecodeOk \/ BeginEagleOk \/ DraftHead
  BY <1>5 DEF DecodeOk, BeginEagleOk, DraftHead, InLoop
<1>6. CASE BeginDraft
  <2>1. /\ phase = "loop" /\ phase' = "draft" /\ output' = output /\ draft' = draft
        /\ full' = full /\ drafts' = <<>> /\ start'.draft = d
    BY <1>3, <1>6 DEF BeginDraft, InLoop
  <2>2. final = <<>> /\ Len(final) = 0 /\ Live /\ ~InStep
    BY <2>1, EmptySeq DEF Places, Live, InStep
  <2>3. Text = Front(TokensOf(output))
    <3>1. output \o <<>> = output
      BY ConcatEmptySeq DEF TypeOK
    <3>. QED
      BY <2>1, <2>2, <3>1 DEF Text, ReadIn
  <2>4. Len(Text) = o - 1
    <3>1. IsRead(Text, phase, setup.mode, output, drafts, final)
      BY TextFacts
    <3>. QED
      BY <1>3, <2>1, <2>2, <3>1 DEF IsRead, Verified, Headed
  <2>5. d + full = o - 1
    BY <1>2, <1>3, <2>2, <2>4 DEF Exact
  <2>6. Before' = TokensOf(draft.layer)
    <3> DEFINE b == draft.layer
    <3>1. b \in Seq(Pairs) /\ \A e \in Pairs : e.tok \in Nat
      BY <1>3 DEF Caches, Pairs
    <3> HIDE DEF b
    <3>2. TokensOf(b) \in Seq(Nat) /\ Len(TokensOf(b)) = Len(b)
      BY <3>1, PairTokens
    <3>3. SubSeq(TokensOf(b), 1, Len(b)) = TokensOf(b)
      BY <3>2, WholePrefix
    <3>. QED
      BY <2>1, <3>3 DEF Before, b
  <2>7. DraftReads(draft'.layer, start'.draft, drafts', current_token')
    BY <1>3, <2>1, EmptySeq DEF DraftReads
  <2>. QED
    BY <1>2, <2>1, <2>2, <2>3, <2>5, <2>6, <2>7 DEF InStep
<1>7. CASE DraftToken
  <2>1. /\ phase = "draft" /\ phase' = "draft" /\ output' = output /\ full' = full /\ start' = start
    BY <1>7 DEF DraftToken
  <2>2. /\ DraftReads(draft.layer, s, drafts, current_token)
        /\ IsPart(Before, Front(TokensOf(output)))
        /\ s + full = o - 1
    BY <1>2, <2>1 DEF Live, InStep
  <2>3. /\ DraftReads(draft'.layer, s, drafts', current_token)
        /\ SubSeq(TokensOf(draft'.layer), 1, s) = Before
    BY <1>7, <2>2, DraftOn
  <2>4. Before' = Before /\ current_token' = current_token
    BY <2>1, <2>3 DEF Before, current_token
  <2>. QED
    BY <2>1, <2>2, <2>3, <2>4 DEF InStep
<1>8. CASE VerifyOk \/ Accept \/ Reject \/ Bonus
  <2>1. /\ phase \in {"draft", "judge"} /\ phase' \in {"judge", "rollback"} /\ output' = output
        /\ draft' = draft /\ drafts' = drafts /\ start' = start
        /\ full' = (IF Bonus THEN full + 1 ELSE full)
        /\ (phase' = "rollback" /\ accepted' = k) <=> Bonus
    <3>1. CASE VerifyOk
      BY <3>1 DEF VerifyOk, Bonus
    <3>2. CASE Accept
      BY <1>3, <3>2 DEF Accept, Bonus
    <3>3. CASE Reject
      BY <1>3, <3>3 DEF Reject, Bonus, step
    <3>4. CASE Bonus
      BY <1>3, <3>4 DEF Bonus, step
    <3>. QED
      BY <1>8, <3>1, <3>2, <3>3, <3>4
  <2>2. /\ DraftReads(draft.layer, s, drafts, current_token)
        /\ IsPart(Before, Front(TokensOf(output)))
        /\ s + full = o - 1
    BY <1>2, <2>1 DEF Live, InStep
  <2>3. Before' = Before /\ current_token' = current_token
    BY <2>1 DEF Before, current_token
  <2>4. s + full' = IF phase' = "rollback" /\ accepted' = k THEN o ELSE o - 1
    BY <1>3, <2>1, <2>2
  <2>. QED
    BY <2>1, <2>2, <2>3, <2>4 DEF InStep
<1>9. CASE Rollback
  <2>1. /\ phase = "rollback" /\ phase' = "print" /\ output' = output /\ full' = full /\ ~InStep'
        /\ draft' = TruncateKv(draft, s + 1 + accepted) /\ final' = final
    BY <1>9 DEF Rollback, InStep
  <2>2. /\ DraftReads(draft.layer, s, drafts, current_token)
        /\ IsPart(SubSeq(TokensOf(draft.layer), 1, s), Front(TokensOf(output)))
        /\ s + full = IF accepted = k THEN o ELSE o - 1
    BY <1>2, <2>1 DEF Live, InStep, Before
  <2>3. /\ Len(drafts) = k /\ accepted <= k /\ Len(final) = accepted + 1
        /\ \A i \in 1 .. accepted : final[i].tok = drafts[i]
    BY <2>1 DEF Places, Judged
  <2> DEFINE n == s + 1 + accepted
             e == draft'
             t == Text'
  <2>4. /\ e \in Caches /\ Len(e.layer) = (IF n < d THEN n ELSE d)
        /\ \A i \in 1 .. Len(e.layer) : e.layer[i] = draft.layer[i]
    <3>1. n \in Nat /\ Agree(m, draft)
      BY <1>3 DEF Agreement
    <3> HIDE DEF n
    <3>. QED
      BY ONLY <1>3, <2>1, <3>1, TruncFacts, SMTT(30) DEF n
  <2>5. /\ t \in Seq(Nat) /\ Len(t) = o + accepted /\ Spells(t, output)
        /\ Goes(t, o, drafts, accepted)
    <3>1. IsRead(t, phase', setup'.mode, output', drafts', final')
      BY TextFactsNext
    <3>2. /\ t \in Seq(Nat) /\ Len(t) = o + Len(final) - 1 /\ Spells(t, output)
          /\ Goes(t, o, TokensOf(final), Len(final) - 1)
      BY <1>1, <2>1, <3>1 DEF IsRead, Verified, Headed
    <3>3. /\ \A i \in 1 .. Len(final) : TokensOf(final)[i] = final[i].tok
      BY PrintedFacts DEF TypeOK
    <3>4. Len(final) - 1 = accepted /\ \A i \in 1 .. accepted : i \in 1 .. Len(final)
      BY <1>3, <2>3
    <3>5. Goes(t, o, drafts, accepted)
      <4> HIDE DEF t
      <4>. QED
        BY <2>3, <3>2, <3>3, <3>4 DEF Goes
    <3>. QED
      BY <1>3, <3>2, <3>4, <3>5
  <2>6. d = s + k
    BY <2>2, <2>3 DEF DraftReads
  <2>7. Len(target'.layer) = o + accepted
    BY <1>3, <2>5 DEF Exact
  <2>8. Len(e.layer) + full = o + accepted
    <3>1. CASE accepted = k
      <4>1. s + full = o
        BY <2>2, <3>1
      <4> DEFINE l == Len(e.layer)
      <4>2. l = (IF s + 1 + accepted < d THEN s + 1 + accepted ELSE d) /\ d = s + k
        BY <2>4, <2>6
      <4>3. k \in Nat /\ s \in Nat /\ o \in Nat /\ accepted \in Nat /\ full \in Nat
        BY <1>3
      <4> HIDE DEF l, d, s, k, o
      <4>4. l + full = o + accepted
        BY <3>1, <4>1, <4>2, <4>3
      <4>. QED
        BY <4>4 DEF l, o
    <3>2. CASE accepted # k
      <4>1. accepted < k /\ s + full = o - 1
        BY <1>3, <2>2, <2>3, <3>2
      <4> DEFINE l == Len(e.layer)
      <4>2. l = (IF n < d THEN n ELSE d) /\ d = s + k
        BY <2>4, <2>6
      <4>3. k \in Nat /\ s \in Nat /\ o \in Nat /\ accepted \in Nat /\ full \in Nat
        BY <1>3
      <4> HIDE DEF l, d, s, k, o
      <4>4. l + full = o + accepted
        BY <4>1, <4>2, <4>3
      <4>. QED
        BY <4>4 DEF l, o
    <3>. QED
      BY <3>1, <3>2
  <2>9. IsPart(TokensOf(e.layer), t)
    <3> DEFINE w == current_token
               c == draft
    <3>1. /\ output \in Seq(Drawn) /\ output # <<>> /\ w = output[Len(output)].tok
          /\ drafts \in Seq(Tokens) /\ accepted <= Len(drafts) /\ s \in Nat /\ accepted \in Nat
          /\ c \in Caches
      BY <1>3, <2>3, LastFacts DEF TypeOK
    <3>2. Len(e.layer) = IF s + 1 + accepted < Len(c.layer) THEN s + 1 + accepted ELSE Len(c.layer)
      BY <2>4
    <3>3. /\ DraftReads(c.layer, s, drafts, w)
          /\ IsPart(SubSeq(TokensOf(c.layer), 1, s), Front(TokensOf(output)))
      BY <2>2
    <3>4. e \in Caches /\ \A i \in 1 .. Len(e.layer) : e.layer[i] = c.layer[i]
      BY <2>4
    <3> HIDE DEF e, t, w, s, c
    <3>. QED
      BY <2>5, <3>1, <3>2, <3>3, <3>4, DraftBack
  <2>. QED
    BY <2>1, <2>7, <2>8, <2>9
<1>10. CASE Emit
  <2>1. /\ phase = "print" /\ output' = Append(output, Head(final)) /\ final # <<>>
        /\ final' = Tail(final) /\ phase' \in {"loop", "print"}
        /\ target' = target /\ draft' = draft /\ full' = full
    BY <1>10 DEF Emit, Places, Live
  <2>2. output' \o final' = output \o final
    BY <2>1, EmitWhole DEF TypeOK
  <2>3. Text' = Text /\ Live /\ ~InStep /\ ~InStep'
    BY <2>1, <2>2 DEF Text, ReadIn, Live, InStep
  <2>. QED
    BY <1>2, <2>1, <2>3
<1>11. CASE UNCHANGED vars
  <2>1. /\ phase' = phase /\ output' = output /\ drafts' = drafts /\ final' = final
        /\ target' = target /\ draft' = draft /\ start' = start /\ accepted' = accepted
        /\ full' = full
    BY <1>11 DEF vars, step
  <2>2. /\ Text' = Text /\ Live /\ InStep' = InStep /\ Before' = Before
        /\ current_token' = current_token
    BY <1>1, <2>1 DEF Text, Live, InStep, Before, current_token
  <2>. QED
    BY <1>2, <2>1, <2>2
<1>. QED
  BY <1>4, <1>5, <1>6, <1>7, <1>8, <1>9, <1>10, <1>11, Steps

---------------------------------------------------------------------------
(* Theorems *)

\* Every step keeps the invariant.
LEMMA InvStep ==
    ASSUME IInv, [Next]_vars
    PROVE  IInv'
<1>1. /\ TypeOK /\ Places /\ Agreement /\ Starts /\ Reads /\ Sounds /\ Givens
      /\ Ahead /\ Lags /\ WithinBudget
  BY DEF IInv
<1>2. TypeOK' /\ Places'
  BY <1>1, TypeStep, PlacesStep
<1>3. Agreement'
  BY <1>1, <1>2, AgreementStep
<1>4. Starts' /\ Reads'
  BY <1>1, <1>2, StartsStep, ReadsStep
<1>5. Sounds'
  BY <1>1, <1>2, SoundsStep
<1>6. Givens'
  BY <1>1, <1>2, <1>4, <1>5, GivensStep
<1>7. Ahead'
  BY <1>1, <1>2, <1>4, AheadStep
<1>8. Lags'
  BY <1>1, <1>2, <1>3, <1>4, LagsStep
<1>9. WithinBudget'
  BY <1>1, <1>2, <1>3, BudgetStep
<1>. QED
  BY <1>2, <1>3, <1>4, <1>5, <1>6, <1>7, <1>8, <1>9 DEF IInv

\* The invariant holds always: of the command line, of the locals of a step, and
\* of what the two caches and the tokens that were drawn have to do with the text.
THEOREM Inductive == Spec => []IInv
<1>1. Init => IInv
  BY InitInv
<1>2. IInv /\ [Next]_vars => IInv'
  BY InvStep
<1>. QED
  BY <1>1, <1>2, PTL DEF Spec

\* A decode step leaves no more entries than the budget or the protected ones
\* allow, and keeps the token it has read (h2o.rs, evict_h2o).
THEOREM BudgetIsKept == Spec => []WithinBudget
<1>1. IInv => WithinBudget
  BY DEF IInv
<1>. QED
  BY <1>1, Inductive, PTL

\* What is printed was drawn given all that was printed before it.
LEMMA PrintGiven ==
    ASSUME IInv, [Next]_vars, NoEviction, setup.mode = "plain" \/ m.recurrent = "none"
    PROVE  D!Generate \/ UNCHANGED output
<1>1. CASE Emit
  <2> DEFINE h == Head(final)
  <2>1. /\ phase = "print" /\ output' = Append(output, h) /\ final # <<>>
        /\ output \in Seq(Drawn) /\ final \in Seq(Drawn)
    BY <1>1 DEF Emit, IInv, Places, TypeOK
  <2>2. h = final[1] /\ 1 \in 1 .. Len(final)
    BY <2>1, EmptySeq
  <2>3. h.given = SubSeq(TokensOf(output \o final), 1, Len(output) + 1 - 1)
    BY <2>1, <2>2 DEF IInv, Givens, Live, Clean
  <2>4. h.given = TokensOf(output)
    <3> DEFINE n == Len(output)
               all == TokensOf(output \o final)
               o == TokensOf(output)
    <3>1. all \in Seq(Nat) /\ Len(all) = n + Len(final) /\ \A i \in 1 .. n : all[i] = output[i].tok
      BY <2>1, WholeFacts
    <3>2. o \in Seq(Nat) /\ Len(o) = n /\ \A i \in 1 .. n : o[i] = output[i].tok
      BY <2>1, PrintedFacts
    <3>3. n \in Nat /\ Len(final) \in Nat /\ n + 1 - 1 = n
      BY <2>1
    <3> HIDE DEF n, all, o
    <3>4. n <= Len(all) /\ n <= Len(o) /\ \A i \in 1 .. n : all[i] = o[i]
      <4>1. n <= Len(all) /\ n <= Len(o)
        BY <3>1, <3>2, <3>3
      <4>2. ASSUME NEW i \in 1 .. n PROVE all[i] = o[i]
        BY <3>1, <3>2
      <4>. QED
        BY <4>1, <4>2
    <3>5. SubSeq(all, 1, n) = SubSeq(o, 1, n)
      BY <3>1, <3>2, <3>3, <3>4, SameStart
    <3>6. SubSeq(o, 1, Len(o)) = o
      BY <3>2, WholePrefix
    <3>. QED
      BY <2>3, <3>2, <3>3, <3>5, <3>6 DEF n, all, o
  <2>5. h \in Drawn
    BY <2>1, <2>2
  <2> HIDE DEF h
  <2>6. h.tok \in Tokens /\ h = [tok |-> h.tok, given |-> TokensOf(output)]
    BY <2>4, <2>5 DEF Drawn
  <2>. QED
    BY <2>1, <2>6 DEF D!Generate, D!Words, TokensOf
<1>2. CASE ~Emit
  BY <1>2, Steps DEF EndLoop, DecodeOk, BeginDraft, BeginEagleOk, DraftToken, DraftHead,
                     VerifyOk, Accept, Reject, Bonus, Rollback, Fail, vars
<1>. QED
  BY <1>1, <1>2

\* Without eviction every token is drawn in the context of the text before it, with
\* a draft or without one: for dense models, and for any model that decodes one
\* token at a time (SpeculativeDecoder::step, Eagle3SpecDecoder::step, main.rs).
THEOREM DrawnInItsContext == Spec => DrawnInContextIfDense
<1> DEFINE A == NoEviction /\ (setup.mode = "plain" \/ m.recurrent = "none") => D!Generate
<1>1. IInv /\ [Next]_vars => [A]_output
  BY PrintGiven
<1>. QED
  BY <1>1, Inductive, PTL DEF Spec, DrawnInContextIfDense

\* The text between two steps is all that was printed but the last token.
LEMMA IdleText ==
    ASSUME IInv, Idle
    PROVE  /\ Text = TokensOf(Front(output)) /\ Text \in Seq(Nat)
           /\ Len(Text) = Len(output) - 1
<1> DEFINE w == TokensOf(output)
           n == Len(output) - 1
           f == SubSeq(output, 1, n)
           v == TokensOf(f)
           s == SubSeq(w, 1, n)
<1>1. /\ output \in Seq(Drawn) /\ output # <<>> /\ final = <<>> /\ phase = "loop" /\ TypeOK
      /\ Len(output) \in Nat \ {0}
  <2>1. TypeOK /\ Places /\ phase = "loop"
    BY DEF IInv, Idle
  <2>2. Len(output) \in Nat \ {0}
    BY <2>1, LastFacts DEF TypeOK
  <2>. QED
    BY <2>1, <2>2 DEF TypeOK, Places
<1>2. w \in Seq(Nat) /\ Len(w) = Len(output) /\ \A i \in 1 .. Len(output) : w[i] = output[i].tok
  BY <1>1, PrintedFacts
<1>3. n \in Nat /\ n <= Len(output)
  BY <1>1
<1>4. Front(output) = f
  BY DEF Front
<1>5. Text = s
  <2>1. output \o <<>> = output
    BY <1>1, ConcatEmptySeq
  <2>. QED
    BY <1>1, <1>2, <2>1 DEF Text, ReadIn, Front
<1> HIDE DEF w, n
<1>6. f \in Seq(Drawn) /\ Len(f) = n /\ \A i \in 1 .. n : f[i] = output[i]
  BY <1>1, <1>3, PrefixFacts
<1>7. s \in Seq(Nat) /\ Len(s) = n /\ \A i \in 1 .. n : s[i] = w[i]
  BY <1>2, <1>3, PrefixFacts
<1> HIDE DEF f, s
<1>8. v \in Seq(Nat) /\ Len(v) = Len(f) /\ \A i \in 1 .. Len(f) : v[i] = f[i].tok
  BY <1>6, PrintedFacts
<1> HIDE DEF v
<1>9. ASSUME NEW i \in 1 .. n PROVE v[i] = s[i]
  <2>1. i \in 1 .. Len(output)
    BY <1>1, <1>3
  <2>. QED
    BY <1>2, <1>6, <1>7, <1>8, <2>1
<1>10. Len(v) = Len(s) /\ \A i \in 1 .. Len(v) : v[i] = s[i]
  BY <1>6, <1>7, <1>8, <1>9
<1>11. v = s
  BY <1>7, <1>8, <1>10, SeqEqual
<1>. QED
  BY <1>4, <1>5, <1>7, <1>11 DEF v, n

\* The caches agree with themselves, with the text and with each other.
LEMMA InvCoherent ==
    ASSUME IInv
    PROVE  Coherent
<1> DEFINE b == target.layer
           c == draft.layer
<1>1. /\ TypeOK /\ target \in Caches /\ draft \in Caches /\ setup.mode \in {"plain", "draft", "eagle3"}
      /\ Agree(m, target) /\ Agree(m, draft)
  BY SetupFacts DEF IInv, TypeOK, Agreement
<1>2. InAgreement
  BY <1>1 DEF InAgreement, Agree
<1>3. ASSUME Idle
      PROVE  /\ Text = TokensOf(Front(output)) /\ Text \in Seq(Nat)
             /\ Len(Text) = Len(output) - 1 /\ Live /\ ~InStep
             /\ NoCut => Exact(m, target, Text)
             /\ setup.mode = "plain" => IsPart(TokensOf(b), Text)
  BY <1>3, IdleText DEF IInv, Idle, Live, InStep, Reads
<1>4. /\ TokensOf(b) \in Seq(Nat) /\ TokensOf(c) \in Seq(Nat)
      /\ Len(TokensOf(b)) = Len(b) /\ Len(TokensOf(c)) = Len(c)
  <2>1. b \in Seq(Pairs) /\ c \in Seq(Pairs) /\ \A e \in Pairs : e.tok \in Nat
    BY <1>1 DEF Caches, Pairs
  <2> HIDE DEF b, c
  <2>. QED
    BY <2>1, PairTokens
<1>5. NoRejectedToken
  <2> SUFFICES ASSUME Idle, setup.mode = "eagle3" => NoEviction
               PROVE  IF NoCut THEN TokensOf(b) = Text
                      ELSE \E kept \in SUBSET (DOMAIN Text) : Gather(Text, kept) = TokensOf(b)
    BY <1>3 DEF NoRejectedToken, NoCut
  <2>1. CASE NoCut
    BY <1>1, <1>3, <2>1, ExactFacts
  <2>2. CASE ~NoCut
    <3>1. setup.mode = "plain"
      BY <1>1, <2>2 DEF NoCut
    <3> DEFINE s == TokensOf(b)
               t == Text
    <3>2. IsPart(s, t) /\ s \in Seq(Nat) /\ t \in Seq(Nat)
      BY <1>3, <1>4, <3>1
    <3> HIDE DEF s, t
    <3>3. PICK K \in SUBSET (1 .. Len(t)) : Gather(t, K) = s
      BY <3>2, PicksGather
    <3>4. DOMAIN t = 1 .. Len(t)
      BY <3>2
    <3>. QED
      BY <2>2, <3>3, <3>4 DEF s, t
  <2>. QED
    BY <2>1, <2>2
<1>6. PositionsAscend
  <2>1. ASSUME m.mrope \/ NoEviction \/ setup.mode = "draft"
        PROVE  \A i, j \in DOMAIN b : i < j => b[i].pos < b[j].pos
    <3>1. Rises(target)
      BY <2>1 DEF IInv, Ahead, NoCut
    <3>2. DOMAIN b = 1 .. Len(b)
      BY <1>1 DEF Caches
    <3>. QED
      BY <3>1, <3>2 DEF Rises
  <2>2. ASSUME Idle, m.mrope, setup.mode = "eagle3" => NoEviction
        PROVE  target.text_pos = Len(output) - 1
    <3>1. CASE NoCut
      BY <1>1, <1>3, <2>2, <3>1, ExactFacts
    <3>2. CASE ~NoCut
      <4>1. setup.mode = "plain"
        BY <1>1, <2>2, <3>2 DEF NoCut
      <4>. QED
        BY <1>3, <2>2, <4>1 DEF IInv, Ahead
    <3>. QED
      BY <3>1, <3>2
  <2>. QED
    BY <2>1, <2>2 DEF PositionsAscend
<1>7. DraftFollows
  <2> SUFFICES ASSUME Idle, setup.mode = "draft"
               PROVE  \E kept \in kSubset(draft.seq_len, DOMAIN b) :
                          Gather(TokensOf(b), kept) = TokensOf(c)
    BY DEF DraftFollows
  <2>1. Len(c) + full = Len(b) /\ IsPart(TokensOf(c), Text) /\ Exact(m, target, Text)
    BY <1>3 DEF IInv, Lags, NoCut
  <2>2. TokensOf(b) = Text
    BY <1>1, <1>3, <2>1, ExactFacts
  <2>3. draft.seq_len = Len(c) /\ target.seq_len = Len(b) /\ DOMAIN b = 1 .. Len(b)
    BY <1>1 DEF Agree, Caches
  <2> DEFINE s == TokensOf(c)
             t == TokensOf(b)
  <2>4. s \in Seq(Nat) /\ t \in Seq(Nat) /\ IsPart(s, t)
    BY <1>4, <2>1, <2>2
  <2> HIDE DEF s, t
  <2>5. PICK K \in SUBSET (1 .. Len(t)) : Cardinality(K) = Len(s) /\ Gather(t, K) = s
    BY <2>4, PicksGather
  <2>6. K \in kSubset(draft.seq_len, DOMAIN b)
    BY <1>4, <2>3, <2>5 DEF kSubset, s, t
  <2>. QED
    BY <2>1, <2>3, <2>5, <2>6 DEF s, t
<1>. QED
  BY <1>2, <1>5, <1>6, <1>7 DEF Coherent

\* Whatever was accepted, cut back, evicted or failed (truncate_kv, evict_h2o,
\* speculative_step), a step leaves both caches coherent.
THEOREM CachesAreCoherent == Spec => []Coherent
<1>1. IInv => Coherent
  BY InvCoherent
<1>. QED
  BY <1>1, Inductive, PTL
=============================================================================
