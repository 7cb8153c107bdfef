--------------------------- MODULE PrefixCacheProofs ---------------------------
(***************************************************************************)
(* Proofs about the prefix cache on disk, for any processes, prompts,      *)
(* models, lengths and limits: what is published under a name is whole,    *)
(* what is loaded is what would have been computed, a hit is the longest,  *)
(* and a save leaves no more than the limit.                               *)
(***************************************************************************)
EXTENDS PrefixCache, FiniteSetTheorems, FunctionTheorems, SequenceTheorems,
        WellFoundedInduction, TLAPS

---------------------------------------------------------------------------
(* Induction over the natural numbers, for a set instead of a predicate: the
   library's theorem takes the predicate as a parameter *)

Smaller == {p \in Nat \X Nat : p[1] < p[2]}

\* A set with 0 that has with every number the next one has them all: no number is
\* the smallest that is missing.
LEMMA SetInduction ==
    ASSUME NEW S, 0 \in S, \A n \in Nat : n \in S => n + 1 \in S
    PROVE  \A n \in Nat : n \in S
<1> DEFINE T == {n \in Nat : n \notin S}
<1> SUFFICES ASSUME T # {} PROVE FALSE
  OBVIOUS
<1>1. IsWellFoundedOn(Smaller, Nat)
  BY NatLessThanWellFounded DEF OpToRel, Smaller
<1>2. PICK n \in T : \A k \in T : ~(<<k, n>> \in Smaller)
  BY <1>1, WFMin
<1>3. n # 0 /\ n - 1 \in T
  OBVIOUS
<1>4. <<n - 1, n>> \in Smaller
  BY <1>3 DEF Smaller
<1>. QED
  BY <1>2, <1>3, <1>4

---------------------------------------------------------------------------
(* Small numbers *)

\* The smaller of two numbers, as the code takes it.
LEMMA MinTwo ==
    ASSUME NEW a \in Int, NEW b \in Int
    PROVE  Min({a, b}) = IF a <= b THEN a ELSE b
BY DEF Min

\* The larger of two numbers.
LEMMA MaxTwo ==
    ASSUME NEW a \in Int, NEW b \in Int
    PROVE  Max({a, b}) = IF a <= b THEN b ELSE a
BY DEF Max

\* Cut to a length: nothing is added, and what stays is as it was.
LEMMA ShortenFacts ==
    ASSUME NEW S, NEW s \in Seq(S), NEW n \in Nat
    PROVE  /\ Shorten(s, n) \in Seq(S)
           /\ Len(Shorten(s, n)) = IF n <= Len(s) THEN n ELSE Len(s)
           /\ \A i \in 1 .. Len(Shorten(s, n)) : Shorten(s, n)[i] = s[i]
<1> DEFINE k == IF n <= Len(s) THEN n ELSE Len(s)
<1>1. k \in Nat /\ k <= Len(s) /\ Shorten(s, n) = SubSeq(s, 1, k)
  BY MinTwo DEF Shorten
<1> HIDE DEF k
<1>2. \A i \in 1 .. k : s[i] \in S
  BY <1>1
<1>3. /\ SubSeq(s, 1, k) \in Seq(S)
      /\ Len(SubSeq(s, 1, k)) = IF 1 <= k THEN k - 1 + 1 ELSE 0
      /\ \A i \in 1 .. k - 1 + 1 : SubSeq(s, 1, k)[i] = s[1 + i - 1]
  BY <1>1, <1>2, SubSeqProperties
<1>4. Len(Shorten(s, n)) = k /\ \A i \in 1 .. k : Shorten(s, n)[i] = s[i]
  BY <1>1, <1>3
<1>. QED
  BY <1>1, <1>3, <1>4 DEF k

\* The tokens of entries, or of words that were drawn.
LEMMA TokensFacts ==
    ASSUME NEW S, NEW s \in Seq(S), \A i \in 1 .. Len(s) : s[i].tok \in Nat
    PROVE  /\ TokensOf(s) \in Seq(Nat)
           /\ Len(TokensOf(s)) = Len(s)
           /\ \A i \in 1 .. Len(s) : TokensOf(s)[i] = s[i].tok
BY DEF TokensOf

---------------------------------------------------------------------------
(* A forward pass *)

Pairs == [tok : Nat, pos : Nat, sound : BOOLEAN]

Spots == [tok : Nat, pos : Nat]

Caches == [layer : Seq(Pairs), flat : Seq(Pairs), state : Seq(Spots),
           seq_len : Nat, text_pos : Nat]

\* The tokens of a cache.
LEMMA PairTokens ==
    ASSUME NEW s \in Seq(Pairs)
    PROVE  /\ TokensOf(s) \in Seq(Nat)
           /\ Len(TokensOf(s)) = Len(s)
           /\ \A i \in 1 .. Len(s) : TokensOf(s)[i] = s[i].tok
<1>1. \A e \in Pairs : e.tok \in Nat
  BY DEF Pairs
<1>2. \A i \in 1 .. Len(s) : s[i] \in Pairs
  OBVIOUS
<1>3. \A i \in 1 .. Len(s) : s[i].tok \in Nat
  BY <1>1, <1>2
<1> HIDE DEF Pairs
<1>. QED
  BY <1>3, TokensFacts

\* The entries and counters of cache f are those of c after a pass over toks.
IsFed(x, c, toks, f) ==
    /\ Len(f.layer) = Len(c.layer) + Len(toks)
    /\ \A i \in 1 .. Len(c.layer) : f.layer[i] = c.layer[i]
    /\ \A i \in 1 .. Len(toks) : /\ f.layer[Len(c.layer) + i].tok = toks[i]
                                 /\ f.layer[Len(c.layer) + i].pos = Position(x, c) + i - 1
    /\ f.seq_len = c.seq_len + Len(toks)
    /\ f.text_pos = IF x.mrope THEN c.text_pos + Len(toks) ELSE c.text_pos

\* Whether the i-th of the tokens sees what a computation from scratch would.
RawOf(x, c, toks) ==
    c.layer \o [i \in DOMAIN toks |->
        [tok |-> toks[i], pos |-> Position(x, c) + i - 1, sound |-> FALSE]]

SeenBy(x, c, toks, prefill, i) ==
    IF prefill THEN Shorten(RawOf(x, c, toks), c.seq_len + i) ELSE RawOf(x, c, toks)

GoodAt(x, c, toks, prefill, i) ==
    /\ Len(SeenBy(x, c, toks, prefill, i)) = Len(c.layer) + i
    /\ FromScratch(x, SeenBy(x, c, toks, prefill, i),
                   StateAfter(x, c, SubSeq(toks, 1, i), prefill))

NewOf(x, c, toks, prefill) ==
    [i \in DOMAIN toks |->
        [RawOf(x, c, toks)[Len(c.layer) + i] EXCEPT !.sound =
            /\ \A j \in 1 .. Len(c.layer) : c.layer[j].sound
            /\ \A j \in 1 .. i : GoodAt(x, c, toks, prefill, j)]]

\* A pass, by its parts.
LEMMA FeedParts ==
    ASSUME NEW x, NEW c, NEW toks, NEW prefill
    PROVE  Feed(x, c, toks, prefill) =
             [layer    |-> c.layer \o NewOf(x, c, toks, prefill),
              flat     |-> IF x.bf16 THEN c.flat \o NewOf(x, c, toks, prefill) ELSE c.flat,
              state    |-> StateAfter(x, c, toks, prefill),
              seq_len  |-> c.seq_len + Len(toks),
              text_pos |-> IF x.mrope THEN c.text_pos + Len(toks) ELSE c.text_pos]
BY DEF Feed, NewOf, GoodAt, SeenBy, RawOf

\* What is appended, before it is known whether it is sound.
LEMMA RawFacts ==
    ASSUME NEW x \in Models, NEW c \in Caches, NEW toks \in Seq(Nat)
    PROVE  /\ RawOf(x, c, toks) \in Seq(Pairs)
           /\ Len(RawOf(x, c, toks)) = Len(c.layer) + Len(toks)
           /\ \A i \in 1 .. Len(c.layer) : RawOf(x, c, toks)[i] = c.layer[i]
           /\ \A i \in 1 .. Len(toks) :
                RawOf(x, c, toks)[Len(c.layer) + i] =
                    [tok |-> toks[i], pos |-> Position(x, c) + i - 1, sound |-> FALSE]
<1> DEFINE E(i) == [tok |-> toks[i], pos |-> Position(x, c) + i - 1, sound |-> FALSE]
           t == [i \in DOMAIN toks |-> E(i)]
           a == c.layer
<1>1. Position(x, c) \in Nat /\ a \in Seq(Pairs) /\ Len(a) \in Nat /\ DOMAIN toks = 1 .. Len(toks)
  BY DEF Position, Caches, Models
<1>2. \A i \in 1 .. Len(toks) : E(i) \in Pairs
  BY <1>1 DEF Pairs
<1>3. RawOf(x, c, toks) = a \o t
  BY DEF RawOf
<1> HIDE DEF E, a
<1>4. t \in Seq(Pairs) /\ Len(t) = Len(toks) /\ \A i \in 1 .. Len(toks) : t[i] = E(i)
  BY <1>1, <1>2
<1> HIDE DEF t
<1>5. /\ a \o t \in Seq(Pairs)
      /\ Len(a \o t) = Len(a) + Len(t)
      /\ \A i \in 1 .. Len(a) + Len(t) :
           (a \o t)[i] = IF i <= Len(a) THEN a[i] ELSE t[i - Len(a)]
  BY <1>1, <1>4, ConcatProperties
<1>6. ASSUME NEW i \in 1 .. Len(toks)
      PROVE  (a \o t)[Len(a) + i] = E(i)
  <2>1. /\ Len(a) + i \in 1 .. Len(a) + Len(t)
        /\ ~(Len(a) + i <= Len(a)) /\ Len(a) + i - Len(a) = i
    BY <1>1, <1>4
  <2>2. (a \o t)[Len(a) + i] = t[i]
    BY <1>5, <2>1
  <2>. QED
    BY <1>4, <2>2
<1>7. \A i \in 1 .. Len(a) : (a \o t)[i] = a[i]
  BY <1>1, <1>4, <1>5
<1>. QED
  BY <1>3, <1>4, <1>5, <1>6, <1>7 DEF a, E

\* What is appended.
LEMMA NewFacts ==
    ASSUME NEW x \in Models, NEW c \in Caches, NEW toks \in Seq(Nat), NEW prefill \in BOOLEAN
    PROVE  /\ NewOf(x, c, toks, prefill) \in Seq(Pairs)
           /\ Len(NewOf(x, c, toks, prefill)) = Len(toks)
           /\ \A i \in 1 .. Len(toks) :
                /\ NewOf(x, c, toks, prefill)[i].tok = toks[i]
                /\ NewOf(x, c, toks, prefill)[i].pos = Position(x, c) + i - 1
                /\ NewOf(x, c, toks, prefill)[i].sound =
                     /\ \A j \in 1 .. Len(c.layer) : c.layer[j].sound
                     /\ \A j \in 1 .. i : GoodAt(x, c, toks, prefill, j)
<1> DEFINE All(i) == /\ \A j \in 1 .. Len(c.layer) : c.layer[j].sound
                     /\ \A j \in 1 .. i : GoodAt(x, c, toks, prefill, j)
           N == NewOf(x, c, toks, prefill)
<1>1. \A i \in 1 .. Len(toks) : All(i) \in BOOLEAN
  OBVIOUS
<1>2. Position(x, c) \in Nat /\ DOMAIN toks = 1 .. Len(toks)
  BY DEF Position, Caches, Models
<1>3. N = [i \in DOMAIN toks |-> [RawOf(x, c, toks)[Len(c.layer) + i] EXCEPT !.sound = All(i)]]
  BY DEF NewOf
<1> HIDE DEF N, All
<1>4. ASSUME NEW i \in 1 .. Len(toks)
      PROVE  N[i] = [tok |-> toks[i], pos |-> Position(x, c) + i - 1, sound |-> All(i)]
  <2>1. RawOf(x, c, toks)[Len(c.layer) + i] =
            [tok |-> toks[i], pos |-> Position(x, c) + i - 1, sound |-> FALSE]
    BY RawFacts
  <2>2. N[i] = [RawOf(x, c, toks)[Len(c.layer) + i] EXCEPT !.sound = All(i)]
    BY <1>2, <1>3
  <2>. QED
    BY <2>1, <2>2
<1>5. ASSUME NEW i \in 1 .. Len(toks)
      PROVE  N[i] \in Pairs /\ N[i].tok = toks[i] /\ N[i].pos = Position(x, c) + i - 1
             /\ N[i].sound = All(i)
  <2>1. toks[i] \in Nat /\ Position(x, c) + i - 1 \in Nat /\ All(i) \in BOOLEAN
    BY <1>1, <1>2
  <2> DEFINE q == toks[i]
             p == Position(x, c) + i - 1
             b == All(i)
  <2>2. q \in Nat /\ p \in Nat /\ b \in BOOLEAN /\ N[i] = [tok |-> q, pos |-> p, sound |-> b]
    BY <1>4, <2>1
  <2> HIDE DEF q, p, b
  <2>3. N[i] \in Pairs
    BY <2>2 DEF Pairs
  <2>4. N[i].tok = q /\ N[i].pos = p /\ N[i].sound = b
    BY <2>2
  <2>. QED
    BY <2>3, <2>4 DEF q, p, b
<1>6. N = [i \in 1 .. Len(toks) |-> N[i]]
  BY <1>2, <1>3
<1>7. N \in Seq(Pairs) /\ Len(N) = Len(toks)
  BY <1>5, <1>6
<1>. QED
  BY <1>5, <1>7 DEF N, All

\* The recorded length and the flat copy agree with the entries.
Agree(x, c) == /\ c.seq_len = Len(c.layer)
               /\ c.flat = IF x.bf16 THEN c.layer ELSE <<>>

\* Tokens at the positions they follow on from.
LEMMA PlacedFacts ==
    ASSUME NEW toks \in Seq(Nat), NEW p \in Nat
    PROVE  /\ Placed(toks, p) \in Seq(Spots)
           /\ Len(Placed(toks, p)) = Len(toks)
           /\ \A i \in 1 .. Len(toks) : Placed(toks, p)[i] = [tok |-> toks[i], pos |-> p + i - 1]
<1> DEFINE E(i) == [tok |-> toks[i], pos |-> p + i - 1]
<1>1. DOMAIN toks = 1 .. Len(toks) /\ Len(toks) \in Nat
  OBVIOUS
<1>2. ASSUME NEW i \in 1 .. Len(toks) PROVE E(i) \in Spots
  <2>1. toks[i] \in Nat /\ p + i - 1 \in Nat
    OBVIOUS
  <2>. QED
    BY <2>1 DEF Spots
<1>3. Placed(toks, p) = [i \in 1 .. Len(toks) |-> E(i)]
  BY <1>1 DEF Placed
<1> HIDE DEF E
<1>4. /\ Placed(toks, p) \in Seq(Spots) /\ Len(Placed(toks, p)) = Len(toks)
      /\ \A i \in 1 .. Len(toks) : Placed(toks, p)[i] = E(i)
  BY <1>1, <1>2, <1>3
<1>. QED
  BY <1>4 DEF E

\* No tokens are placed nowhere.
LEMMA PlacedEmpty == Placed(<<>>, 0) = <<>>
<1>1. <<>> \in Seq(Nat) /\ Len(<<>>) = 0 /\ 0 \in Nat
  BY EmptySeq
<1>2. Placed(<<>>, 0) \in Seq(Spots) /\ Len(Placed(<<>>, 0)) = 0
  BY <1>1, PlacedFacts
<1>. QED
  BY <1>2, EmptySeq

\* One text after another, from the start.
LEMMA PlacedConcat ==
    ASSUME NEW s \in Seq(Nat), NEW u \in Seq(Nat)
    PROVE  Placed(s \o u, 0) = Placed(s, 0) \o Placed(u, Len(s))
<1> DEFINE a == Placed(s, 0)
           b == Placed(u, Len(s))
           w == Placed(s \o u, 0)
<1>1. Len(s) \in Nat /\ Len(u) \in Nat /\ 0 \in Nat
  OBVIOUS
<1>2. /\ s \o u \in Seq(Nat) /\ Len(s \o u) = Len(s) + Len(u)
      /\ \A i \in 1 .. Len(s) + Len(u) : (s \o u)[i] = IF i <= Len(s) THEN s[i] ELSE u[i - Len(s)]
  BY ConcatProperties
<1>3. /\ a \in Seq(Spots) /\ Len(a) = Len(s)
      /\ \A i \in 1 .. Len(s) : a[i] = [tok |-> s[i], pos |-> 0 + i - 1]
  BY <1>1, PlacedFacts
<1>4. /\ b \in Seq(Spots) /\ Len(b) = Len(u)
      /\ \A i \in 1 .. Len(u) : b[i] = [tok |-> u[i], pos |-> Len(s) + i - 1]
  BY <1>1, PlacedFacts
<1>5. /\ w \in Seq(Spots) /\ Len(w) = Len(s) + Len(u)
      /\ \A i \in 1 .. Len(s) + Len(u) : w[i] = [tok |-> (s \o u)[i], pos |-> 0 + i - 1]
  BY <1>1, <1>2, PlacedFacts
<1> HIDE DEF a, b, w
<1>6. /\ a \o b \in Seq(Spots) /\ Len(a \o b) = Len(a) + Len(b)
      /\ \A i \in 1 .. Len(a) + Len(b) : (a \o b)[i] = IF i <= Len(a) THEN a[i] ELSE b[i - Len(a)]
  BY <1>3, <1>4, ConcatProperties
<1>7. ASSUME NEW i \in 1 .. Len(s) + Len(u) PROVE w[i] = (a \o b)[i]
  <2>1. CASE i <= Len(s)
    <3>1. i \in 1 .. Len(s) /\ (a \o b)[i] = a[i] /\ (s \o u)[i] = s[i]
      BY <1>1, <1>2, <1>3, <1>4, <1>6, <2>1
    <3>. QED
      BY <1>3, <1>5, <3>1
  <2>2. CASE ~(i <= Len(s))
    <3> DEFINE k == i - Len(s)
    <3>1. k \in 1 .. Len(u) /\ Len(s) + k - 1 = 0 + i - 1
      BY <1>1, <2>2
    <3>2. (a \o b)[i] = b[k] /\ (s \o u)[i] = u[k]
      BY <1>1, <1>2, <1>3, <1>4, <1>6, <2>2
    <3> HIDE DEF k
    <3>3. b[k] = [tok |-> u[k], pos |-> Len(s) + k - 1]
      BY <1>4, <3>1
    <3>4. w[i] = [tok |-> (s \o u)[i], pos |-> 0 + i - 1]
      BY <1>5
    <3>. QED
      BY <3>1, <3>2, <3>3, <3>4
  <2>. QED
    BY <2>1, <2>2
<1>8. w = a \o b
  BY <1>3, <1>4, <1>5, <1>6, <1>7, SeqEqual
<1>. QED
  BY <1>8 DEF a, b, w

\* The tokens and positions of entries that hold a text from the start.
LEMMA FoldedIs ==
    ASSUME NEW e \in Seq(Pairs), \A i \in 1 .. Len(e) : e[i].pos = i - 1
    PROVE  Folded(e) = Placed(TokensOf(e), 0)
<1> DEFINE t == TokensOf(e)
<1>1. DOMAIN e = 1 .. Len(e) /\ Len(e) \in Nat
  OBVIOUS
<1>2. t \in Seq(Nat) /\ Len(t) = Len(e) /\ \A i \in 1 .. Len(e) : t[i] = e[i].tok
  BY PairTokens
<1> HIDE DEF t
<1>3. DOMAIN t = 1 .. Len(e)
  BY <1>2
<1>4. Folded(e) = [i \in 1 .. Len(e) |-> [tok |-> e[i].tok, pos |-> e[i].pos]]
  BY <1>1 DEF Folded
<1>5. Placed(t, 0) = [i \in 1 .. Len(e) |-> [tok |-> t[i], pos |-> 0 + i - 1]]
  BY <1>3 DEF Placed
<1>6. \A i \in 1 .. Len(e) :
         [tok |-> e[i].tok, pos |-> e[i].pos] = [tok |-> t[i], pos |-> 0 + i - 1]
  <2> SUFFICES ASSUME NEW i \in 1 .. Len(e)
               PROVE  [tok |-> e[i].tok, pos |-> e[i].pos] = [tok |-> t[i], pos |-> 0 + i - 1]
    OBVIOUS
  <2>1. e[i].tok = t[i] /\ e[i].pos = 0 + i - 1
    BY <1>1, <1>2
  <2>. QED
    BY <2>1
<1>7. Folded(e) = Placed(t, 0)
  BY <1>4, <1>5, <1>6
<1>. QED
  BY <1>7 DEF t

\* The recurrent state holds tokens, each with its position.
LEMMA StateType ==
    ASSUME NEW x \in Models, NEW c \in Caches, NEW toks \in Seq(Nat), NEW prefill \in BOOLEAN
    PROVE  StateAfter(x, c, toks, prefill) \in Seq(Spots)
<1> DEFINE b == Placed(toks, Position(x, c))
           a == c.state
<1>1. a \in Seq(Spots) /\ Position(x, c) \in Nat
  BY DEF Caches, Position, Models
<1>2. b \in Seq(Spots)
  BY <1>1, PlacedFacts
<1>3. StateAfter(x, c, toks, prefill) \in {<<>>, b, a \o b}
  BY DEF StateAfter
<1> HIDE DEF a, b
<1>4. a \o b \in Seq(Spots) /\ <<>> \in Seq(Spots)
  BY <1>1, <1>2, ConcatProperties, EmptySeq
<1>. QED
  BY <1>2, <1>3, <1>4

\* A pass leaves a cache, that has what it had and what was fed, in agreement.
LEMMA FeedFacts ==
    ASSUME NEW x \in Models, NEW c \in Caches, NEW toks \in Seq(Nat), NEW prefill \in BOOLEAN
    PROVE  /\ Feed(x, c, toks, prefill) \in Caches
           /\ IsFed(x, c, toks, Feed(x, c, toks, prefill))
           /\ Feed(x, c, toks, prefill).state = StateAfter(x, c, toks, prefill)
           /\ Agree(x, c) => Agree(x, Feed(x, c, toks, prefill))
<1> DEFINE new == NewOf(x, c, toks, prefill)
           f == Feed(x, c, toks, prefill)
           a == c.layer
           n == Len(a)
<1>1. /\ f.layer = a \o new
      /\ f.flat = IF x.bf16 THEN c.flat \o new ELSE c.flat
      /\ f.state = StateAfter(x, c, toks, prefill)
      /\ f.seq_len = c.seq_len + Len(toks)
      /\ f.text_pos = IF x.mrope THEN c.text_pos + Len(toks) ELSE c.text_pos
  BY FeedParts
<1>2. f = [layer |-> f.layer, flat |-> f.flat, state |-> f.state, seq_len |-> f.seq_len,
           text_pos |-> f.text_pos]
  BY FeedParts
<1>3. /\ new \in Seq(Pairs) /\ Len(new) = Len(toks)
      /\ \A i \in 1 .. Len(toks) : new[i].tok = toks[i] /\ new[i].pos = Position(x, c) + i - 1
  BY NewFacts
<1>4. /\ a \in Seq(Pairs) /\ n \in Nat /\ c.flat \in Seq(Pairs) /\ c.seq_len \in Nat
      /\ c.text_pos \in Nat /\ Len(toks) \in Nat /\ StateAfter(x, c, toks, prefill) \in Seq(Spots)
  BY StateType DEF Caches
<1>5. Agree(x, c) => c.seq_len = n /\ c.flat = IF x.bf16 THEN a ELSE <<>>
  BY DEF Agree
<1> HIDE DEF new, f, a
<1>6. /\ a \o new \in Seq(Pairs) /\ Len(a \o new) = Len(a) + Len(new)
      /\ \A i \in 1 .. Len(a) + Len(new) :
            (a \o new)[i] = IF i <= Len(a) THEN a[i] ELSE new[i - Len(a)]
      /\ c.flat \o new \in Seq(Pairs)
  <2>1. a \in Seq(Pairs) /\ new \in Seq(Pairs) /\ c.flat \in Seq(Pairs)
    BY <1>3, <1>4
  <2>2. /\ a \o new \in Seq(Pairs) /\ Len(a \o new) = Len(a) + Len(new)
        /\ \A i \in 1 .. Len(a) + Len(new) :
              (a \o new)[i] = IF i <= Len(a) THEN a[i] ELSE new[i - Len(a)]
    BY <2>1, ConcatProperties
  <2>3. c.flat \o new \in Seq(Pairs)
    BY <2>1, ConcatProperties
  <2>. QED
    BY <2>2, <2>3
<1>7. f \in Caches
  <2>1. /\ f.layer \in Seq(Pairs) /\ f.flat \in Seq(Pairs) /\ f.state \in Seq(Spots)
        /\ f.seq_len \in Nat /\ f.text_pos \in Nat
    BY <1>1, <1>4, <1>6
  <2>. QED
    BY <1>2, <2>1 DEF Caches
<1>8. IsFed(x, c, toks, f)
  <2>1. Len(f.layer) = n + Len(toks)
    BY <1>1, <1>3, <1>6
  <2>2. \A i \in 1 .. n : f.layer[i] = a[i]
    BY <1>1, <1>3, <1>4, <1>6
  <2>3. ASSUME NEW i \in 1 .. Len(toks)
        PROVE  f.layer[n + i].tok = toks[i] /\ f.layer[n + i].pos = Position(x, c) + i - 1
    <3>1. n + i \in 1 .. Len(a) + Len(new) /\ ~(n + i <= Len(a)) /\ n + i - Len(a) = i
      BY <1>3, <1>4
    <3>2. f.layer[n + i] = new[i]
      BY <1>1, <1>6, <3>1
    <3>. QED
      BY <1>3, <3>2
  <2>. QED
    BY <1>1, <2>1, <2>2, <2>3 DEF IsFed, a
<1>9. Agree(x, c) => Agree(x, f)
  <2> SUFFICES ASSUME Agree(x, c) PROVE Agree(x, f)
    OBVIOUS
  <2>1. f.seq_len = Len(f.layer)
    BY <1>1, <1>3, <1>4, <1>5, <1>6
  <2>2. f.flat = IF x.bf16 THEN f.layer ELSE <<>>
    BY <1>1, <1>5
  <2>. QED
    BY <2>1, <2>2 DEF Agree
<1>. QED
  BY <1>1, <1>7, <1>8, <1>9 DEF f

\* The cache holds text s, each token in its place.
Exact(x, c, s) ==
    /\ Len(c.layer) = Len(s)
    /\ \A i \in 1 .. Len(s) : c.layer[i].tok = s[i] /\ c.layer[i].pos = i - 1
    /\ x.mrope => c.text_pos = Len(s)

\* What the pieces of a pass over a cache that holds text s see of it.
LEMMA SeenFacts ==
    ASSUME NEW x \in Models, NEW c \in Caches, NEW toks \in Seq(Nat), NEW prefill \in BOOLEAN,
           NEW s \in Seq(Nat), Exact(x, c, s), c.seq_len = Len(c.layer),
           prefill \/ Len(toks) = 1, NEW j \in 1 .. Len(toks)
    PROVE  /\ SeenBy(x, c, toks, prefill, j) \in Seq(Pairs)
           /\ Len(SeenBy(x, c, toks, prefill, j)) = Len(c.layer) + j
           /\ \A i \in 1 .. Len(c.layer) + j : SeenBy(x, c, toks, prefill, j)[i].pos = i - 1
           /\ TokensOf(SeenBy(x, c, toks, prefill, j)) = s \o SubSeq(toks, 1, j)
<1> DEFINE raw == RawOf(x, c, toks)
           see == SeenBy(x, c, toks, prefill, j)
           n == Len(c.layer)
           u == SubSeq(toks, 1, j)
<1>1. /\ n \in Nat /\ n = Len(s) /\ Position(x, c) = n /\ Len(toks) \in Nat
      /\ \A i \in 1 .. n : c.layer[i].tok = s[i] /\ c.layer[i].pos = i - 1
  BY DEF Exact, Position, Caches, Models
<1>2. /\ raw \in Seq(Pairs) /\ Len(raw) = n + Len(toks)
      /\ \A i \in 1 .. n : raw[i] = c.layer[i]
      /\ \A i \in 1 .. Len(toks) :
           raw[n + i] = [tok |-> toks[i], pos |-> Position(x, c) + i - 1, sound |-> FALSE]
  BY RawFacts
<1>3. see = IF prefill THEN Shorten(raw, n + j) ELSE raw
  BY DEF SeenBy
<1> HIDE DEF raw, see
<1>4. see \in Seq(Pairs) /\ Len(see) = n + j /\ \A i \in 1 .. n + j : see[i] = raw[i]
  <2>1. CASE prefill
    <3> DEFINE k == n + j
    <3>1. k \in Nat /\ k <= Len(raw)
      BY <1>1, <1>2
    <3> HIDE DEF k
    <3>2. /\ Shorten(raw, k) \in Seq(Pairs)
          /\ Len(Shorten(raw, k)) = IF k <= Len(raw) THEN k ELSE Len(raw)
          /\ \A i \in 1 .. Len(Shorten(raw, k)) : Shorten(raw, k)[i] = raw[i]
      BY <1>2, <3>1, ShortenFacts
    <3>. QED
      BY <1>3, <2>1, <3>1, <3>2 DEF k
  <2>2. CASE ~prefill
    <3>0. Len(toks) = 1
      BY <2>2
    <3>1. j = 1 /\ Len(toks) = 1
      BY <3>0
    <3>2. see = raw
      BY <1>3, <2>2
    <3>. QED
      BY <1>1, <1>2, <3>1, <3>2
  <2>. QED
    BY <2>1, <2>2
<1>5. u \in Seq(Nat) /\ Len(u) = j /\ \A i \in 1 .. j : u[i] = toks[i]
  <2>1. \A i \in 1 .. j : toks[i] \in Nat
    BY <1>1
  <2>2. /\ SubSeq(toks, 1, j) \in Seq(Nat)
        /\ Len(SubSeq(toks, 1, j)) = IF 1 <= j THEN j - 1 + 1 ELSE 0
        /\ \A i \in 1 .. j - 1 + 1 : SubSeq(toks, 1, j)[i] = toks[1 + i - 1]
    BY <2>1, SubSeqProperties
  <2>. QED
    BY <2>2
<1> HIDE DEF u
<1>6. /\ s \o u \in Seq(Nat) /\ Len(s \o u) = Len(s) + Len(u)
      /\ \A i \in 1 .. Len(s) + Len(u) :
           (s \o u)[i] = IF i <= Len(s) THEN s[i] ELSE u[i - Len(s)]
  <2>1. u \in Seq(Nat)
    BY <1>5
  <2>. QED
    BY <2>1, ConcatProperties
<1>7. ASSUME NEW i \in 1 .. n + j
      PROVE  see[i].pos = i - 1 /\ see[i].tok = (s \o u)[i]
  <2>1. see[i] = raw[i]
    BY <1>4
  <2>2. CASE i <= n
    <3>1. i \in 1 .. n /\ i \in 1 .. Len(s) + Len(u)
      BY <1>1, <1>5, <2>2
    <3>2. raw[i] = c.layer[i] /\ c.layer[i].tok = s[i] /\ c.layer[i].pos = i - 1
      BY <1>1, <1>2, <3>1
    <3>3. (s \o u)[i] = s[i]
      BY <1>1, <1>6, <2>2, <3>1
    <3>. QED
      BY <2>1, <3>2, <3>3
  <2>3. CASE ~(i <= n)
    <3> DEFINE h == i - n
    <3>1. h \in 1 .. Len(toks) /\ h \in 1 .. j /\ i = n + h /\ i \in 1 .. Len(s) + Len(u)
      BY <1>1, <1>5, <2>3
    <3>2. (s \o u)[i] = u[h] /\ u[h] = toks[h]
      BY <1>1, <1>5, <1>6, <2>3, <3>1
    <3>3. raw[n + h] = [tok |-> toks[h], pos |-> Position(x, c) + h - 1, sound |-> FALSE]
      BY <1>2, <3>1
    <3> HIDE DEF h
    <3>4. raw[i] = [tok |-> toks[h], pos |-> n + h - 1, sound |-> FALSE]
      BY <1>1, <3>1, <3>3
    <3>5. raw[i].tok = toks[h] /\ raw[i].pos = n + h - 1
      BY <3>4
    <3>6. n + h - 1 = i - 1
      BY <1>1, <3>1
    <3>. QED
      BY <2>1, <3>2, <3>5, <3>6
  <2>. QED
    BY <2>2, <2>3
<1>8. TokensOf(see) = s \o u
  <2>1. \A i \in 1 .. Len(see) : see[i].tok \in Nat
    <3>1. \A e \in Pairs : e.tok \in Nat
      BY DEF Pairs
    <3>2. see \in Seq(Pairs)
      BY <1>4
    <3>. QED
      BY <3>1, <3>2
  <2>2. /\ TokensOf(see) \in Seq(Nat) /\ Len(TokensOf(see)) = Len(see)
        /\ \A i \in 1 .. Len(see) : TokensOf(see)[i] = see[i].tok
    BY <1>4, <2>1, PairTokens
  <2>3. Len(TokensOf(see)) = Len(s \o u)
    BY <1>1, <1>4, <1>5, <1>6, <2>2
  <2>4. \A i \in 1 .. Len(TokensOf(see)) : TokensOf(see)[i] = (s \o u)[i]
    BY <1>4, <1>7, <2>2
  <2>. QED
    BY <1>6, <2>2, <2>3, <2>4, SeqEqual
<1>. QED
  BY <1>4, <1>7, <1>8 DEF see, u

\* A pass over more of the text leaves the cache with more of the text; as from
\* scratch, unless a convolution of a prefill forgets what came before.
LEMMA FeedExact ==
    ASSUME NEW x \in Models, NEW c \in Caches, NEW toks \in Seq(Nat), NEW prefill \in BOOLEAN,
           NEW s \in Seq(Nat), Exact(x, c, s), c.seq_len = Len(c.layer)
    PROVE  Exact(x, Feed(x, c, toks, prefill), s \o toks)
<1> DEFINE f == Feed(x, c, toks, prefill)
           st == s \o toks
<1>1. IsFed(x, c, toks, f)
  BY FeedFacts
<1>2. /\ st \in Seq(Nat) /\ Len(st) = Len(s) + Len(toks)
      /\ \A i \in 1 .. Len(s) + Len(toks) :
           st[i] = IF i <= Len(s) THEN s[i] ELSE toks[i - Len(s)]
  BY ConcatProperties
<1>3. /\ Len(c.layer) = Len(s) /\ Len(s) \in Nat /\ Len(toks) \in Nat
      /\ Position(x, c) = Len(s)
      /\ x.mrope => c.text_pos = Len(s)
  BY DEF Exact, Position, Caches, Models
<1>4. \A i \in 1 .. Len(s) : c.layer[i].tok = s[i] /\ c.layer[i].pos = i - 1
  BY DEF Exact
<1> HIDE DEF f, st
<1>5. ASSUME NEW i \in 1 .. Len(st) PROVE f.layer[i].tok = st[i] /\ f.layer[i].pos = i - 1
  <2>1. CASE i <= Len(s)
    <3>1. i \in 1 .. Len(s) /\ i \in 1 .. Len(s) + Len(toks)
      BY <1>2, <1>3, <2>1
    <3>2. f.layer[i] = c.layer[i]
      BY <1>1, <1>3, <3>1 DEF IsFed
    <3>. QED
      BY <1>2, <1>4, <2>1, <3>1, <3>2
  <2>2. CASE ~(i <= Len(s))
    <3> DEFINE h == i - Len(s)
    <3>1. h \in 1 .. Len(toks) /\ i = Len(s) + h /\ i \in 1 .. Len(s) + Len(toks)
      BY <1>2, <1>3, <2>2
    <3>2. st[i] = toks[h]
      BY <1>2, <2>2, <3>1
    <3> HIDE DEF h
    <3>3. f.layer[Len(s) + h].tok = toks[h] /\ f.layer[Len(s) + h].pos = Len(s) + h - 1
      BY <1>1, <1>3, <3>1 DEF IsFed
    <3>. QED
      BY <3>1, <3>2, <3>3
  <2>. QED
    BY <2>1, <2>2
<1>6. Len(f.layer) = Len(st) /\ (x.mrope => f.text_pos = Len(st))
  BY <1>1, <1>2, <1>3 DEF IsFed
<1>. QED
  BY <1>5, <1>6 DEF Exact, f, st

---------------------------------------------------------------------------
(* Truncation *)

\* What a truncation keeps.
LEMMA TruncFacts ==
    ASSUME NEW x, NEW c \in Caches, NEW n \in Nat, Agree(x, c)
    PROVE  /\ TruncateKv(c, n) \in Caches
           /\ Agree(x, TruncateKv(c, n))
           /\ Len(TruncateKv(c, n).layer) = IF n < Len(c.layer) THEN n ELSE Len(c.layer)
           /\ \A i \in 1 .. Len(TruncateKv(c, n).layer) : TruncateKv(c, n).layer[i] = c.layer[i]
           /\ TruncateKv(c, n).state = c.state
           /\ TruncateKv(c, n).text_pos =
                IF n < Len(c.layer) /\ Len(c.layer) - n <= c.text_pos THEN c.text_pos - (Len(c.layer) - n)
                ELSE IF n < Len(c.layer) THEN 0 ELSE c.text_pos
<1> DEFINE a == c.layer
           p == c.text_pos
<1>1. /\ a \in Seq(Pairs) /\ Len(a) \in Nat /\ p \in Nat /\ c.state \in Seq(Spots)
      /\ c.seq_len = Len(a) /\ c.flat = IF x.bf16 THEN a ELSE <<>>
  BY DEF Caches, Agree
<1>2. c = [layer |-> a, flat |-> c.flat, state |-> c.state, seq_len |-> c.seq_len, text_pos |-> p]
  BY DEF Caches
<1>3. CASE ~(n < Len(a))
  <2>1. TruncateKv(c, n) = c
    BY <1>1, <1>3 DEF TruncateKv
  <2>. QED
    BY <1>1, <1>3, <2>1
<1>4. CASE n < Len(a)
  <2> DEFINE q == p - (Len(a) - n)
             t == TruncateKv(c, n)
             r == Max({0, q})
  <2>1. t = [c EXCEPT !.layer = Shorten(a, n), !.flat = Shorten(c.flat, n), !.seq_len = n,
                      !.text_pos = r]
    BY <1>1, <1>4 DEF TruncateKv
  <2>2. q \in Int
    BY <1>1
  <2>3. r = IF 0 <= q THEN q ELSE 0
    BY <2>2, MaxTwo
  <2>4. /\ Shorten(a, n) \in Seq(Pairs) /\ Len(Shorten(a, n)) = n
        /\ \A i \in 1 .. n : Shorten(a, n)[i] = a[i]
    <3>1. /\ Shorten(a, n) \in Seq(Pairs)
          /\ Len(Shorten(a, n)) = IF n <= Len(a) THEN n ELSE Len(a)
          /\ \A i \in 1 .. Len(Shorten(a, n)) : Shorten(a, n)[i] = a[i]
      BY <1>1, ShortenFacts
    <3>. QED
      BY <1>1, <1>4, <3>1
  <2>5. Shorten(<<>>, n) = <<>>
    <3>1. <<>> \in Seq(Pairs) /\ Len(<<>>) = 0
      BY EmptySeq
    <3>2. /\ Shorten(<<>>, n) \in Seq(Pairs)
          /\ Len(Shorten(<<>>, n)) = IF n <= Len(<<>>) THEN n ELSE Len(<<>>)
      BY <3>1, ShortenFacts
    <3>3. Len(Shorten(<<>>, n)) = 0
      BY <3>1, <3>2
    <3>. QED
      BY <3>2, <3>3, EmptySeq
  <2> HIDE DEF a, p, q, r, t
  <2>6. t = [layer |-> Shorten(a, n), flat |-> Shorten(c.flat, n), state |-> c.state,
             seq_len |-> n, text_pos |-> r]
    BY <1>2, <2>1
  <2>7. Shorten(c.flat, n) = IF x.bf16 THEN Shorten(a, n) ELSE <<>>
    BY <1>1, <2>5
  <2>8. Shorten(c.flat, n) \in Seq(Pairs) /\ r \in Nat
    BY <2>2, <2>3, <2>4, <2>7, EmptySeq
  <2>9. t \in Caches
    BY <1>1, <2>4, <2>6, <2>8 DEF Caches
  <2>10. /\ t.layer = Shorten(a, n) /\ t.flat = Shorten(c.flat, n) /\ t.state = c.state
         /\ t.seq_len = n /\ t.text_pos = r
    BY <2>6
  <2>11. Agree(x, t)
    BY <2>4, <2>7, <2>10 DEF Agree
  <2>12. r = IF Len(a) - n <= p THEN p - (Len(a) - n) ELSE 0
    BY <1>1, <2>3 DEF q
  <2>. QED
    BY <1>1, <1>4, <2>4, <2>9, <2>10, <2>11, <2>12 DEF a, p, t
<1>. QED
  BY <1>1, <1>3, <1>4

\* A prefix of a text.
LEMMA PrefixFacts ==
    ASSUME NEW S, NEW s \in Seq(S), NEW n \in Nat, n <= Len(s)
    PROVE  /\ SubSeq(s, 1, n) \in Seq(S)
           /\ Len(SubSeq(s, 1, n)) = n
           /\ \A i \in 1 .. n : SubSeq(s, 1, n)[i] = s[i]
<1>1. \A i \in 1 .. n : s[i] \in S
  OBVIOUS
<1>2. /\ SubSeq(s, 1, n) \in Seq(S)
      /\ Len(SubSeq(s, 1, n)) = IF 1 <= n THEN n - 1 + 1 ELSE 0
      /\ \A i \in 1 .. n - 1 + 1 : SubSeq(s, 1, n)[i] = s[1 + i - 1]
  BY <1>1, SubSeqProperties
<1>. QED
  BY <1>2

\* A truncation leaves a prefix of the text.
LEMMA TruncExact ==
    ASSUME NEW x, NEW c \in Caches, NEW s \in Seq(Nat), NEW n \in Nat, n <= Len(s),
           Agree(x, c), Exact(x, c, s)
    PROVE  Exact(x, TruncateKv(c, n), SubSeq(s, 1, n))
<1> DEFINE t == TruncateKv(c, n)
           u == SubSeq(s, 1, n)
<1>1. /\ Len(c.layer) = Len(s) /\ Len(s) \in Nat /\ (x.mrope => c.text_pos = Len(s))
      /\ \A i \in 1 .. Len(s) : c.layer[i].tok = s[i] /\ c.layer[i].pos = i - 1
  BY DEF Exact
<1>2. Len(u) = n /\ \A i \in 1 .. n : u[i] = s[i]
  BY PrefixFacts
<1>3. /\ Len(t.layer) = IF n < Len(c.layer) THEN n ELSE Len(c.layer)
      /\ \A i \in 1 .. Len(t.layer) : t.layer[i] = c.layer[i]
      /\ t.text_pos =
            IF n < Len(c.layer) /\ Len(c.layer) - n <= c.text_pos THEN c.text_pos - (Len(c.layer) - n)
            ELSE IF n < Len(c.layer) THEN 0 ELSE c.text_pos
  BY TruncFacts
<1> HIDE DEF t, u
<1>4. Len(t.layer) = n
  BY <1>1, <1>3
<1>5. ASSUME NEW i \in 1 .. n PROVE t.layer[i].tok = u[i] /\ t.layer[i].pos = i - 1
  <2>1. i \in 1 .. Len(s) /\ i \in 1 .. Len(t.layer)
    BY <1>1, <1>4
  <2>2. t.layer[i] = c.layer[i] /\ u[i] = s[i]
    BY <1>2, <1>3, <2>1
  <2>. QED
    BY <1>1, <2>1, <2>2
<1>6. x.mrope => t.text_pos = n
  BY <1>1, <1>3
<1>. QED
  BY <1>2, <1>4, <1>5, <1>6 DEF Exact, t, u

---------------------------------------------------------------------------
(* A pass of a prefill *)

\* The last token of a text is that of a longer one.
LEMMA WindowOfOne ==
    ASSUME ConvLCache = 1, NEW s \in Seq(Spots), NEW u \in Seq(Spots), u # <<>>
    PROVE  Window(u) = Window(s \o u)
<1> DEFINE w == s \o u
<1>1. /\ w \in Seq(Spots) /\ Len(w) = Len(s) + Len(u)
      /\ \A i \in 1 .. Len(s) + Len(u) : w[i] = IF i <= Len(s) THEN s[i] ELSE u[i - Len(s)]
  BY ConcatProperties
<1>2. Len(s) \in Nat /\ Len(u) \in Nat \ {0}
  BY EmptySeq
<1> HIDE DEF w
<1>3. ASSUME NEW v \in Seq(Spots), Len(v) \in Nat \ {0}
      PROVE  /\ Window(v) \in Seq(Spots) /\ Len(Window(v)) = 1
             /\ Window(v)[1] = v[Len(v)]
  <2> DEFINE n == Len(v)
  <2>1. n \in Nat \ {0} /\ v[n] \in Spots
    BY <1>3
  <2>2. Max({1, n - ConvLCache + 1}) = n
    <3>1. n - ConvLCache + 1 = n /\ n \in Int /\ 1 <= n
      BY <2>1
    <3> HIDE DEF n
    <3>2. Max({1, n}) = IF 1 <= n THEN n ELSE 1
      BY <3>1, MaxTwo
    <3>. QED
      BY <3>1, <3>2
  <2>3. Window(v) = SubSeq(v, n, n)
    BY <2>2 DEF Window
  <2> HIDE DEF n
  <2>4. \A i \in n .. n : v[i] \in Spots
    BY <2>1
  <2>5. /\ SubSeq(v, n, n) \in Seq(Spots)
        /\ Len(SubSeq(v, n, n)) = IF n <= n THEN n - n + 1 ELSE 0
        /\ \A i \in 1 .. n - n + 1 : SubSeq(v, n, n)[i] = v[n + i - 1]
    BY <2>1, SMTT(30)
  <2>6. Len(SubSeq(v, n, n)) = 1 /\ SubSeq(v, n, n)[1] = v[n]
    BY <2>1, <2>5
  <2>. QED
    BY <2>3, <2>5, <2>6 DEF n
<1>4. w[Len(w)] = u[Len(u)] /\ Len(w) \in Nat \ {0}
  <2>1. /\ Len(w) \in 1 .. Len(s) + Len(u) /\ ~(Len(w) <= Len(s))
        /\ Len(w) - Len(s) = Len(u)
    BY <1>1, <1>2
  <2>2. w[Len(w)] = u[Len(w) - Len(s)]
    BY <1>1, <2>1
  <2>3. Len(w) \in Nat \ {0}
    BY <1>1, <1>2
  <2>. QED
    BY <2>1, <2>2, <2>3
<1>5. /\ Window(u) \in Seq(Spots) /\ Len(Window(u)) = 1 /\ Window(u)[1] = u[Len(u)]
  BY <1>2, <1>3
<1>6. /\ Window(w) \in Seq(Spots) /\ Len(Window(w)) = 1 /\ Window(w)[1] = w[Len(w)]
  BY <1>1, <1>3, <1>4
<1>7. Window(u) = Window(w)
  BY <1>4, <1>5, <1>6, SeqEqual
<1>. QED
  BY <1>7 DEF w

\* More of the last tokens differ in number, at least.
LEMMA WindowOfMore ==
    ASSUME ConvLCache # 1, NEW s \in Seq(Spots), NEW u \in Seq(Spots), s # <<>>, Len(u) = 1
    PROVE  Window(u) # Window(s \o u)
<1> DEFINE w == s \o u
<1>1. w \in Seq(Spots) /\ Len(w) = Len(s) + Len(u)
  BY ConcatProperties
<1>2. Len(s) \in Nat \ {0} /\ ConvLCache \in Nat /\ ConvLCache > 1
  BY EmptySeq, KvAssumption
<1> HIDE DEF w
<1>3. ASSUME NEW v \in Seq(Spots), Len(v) \in Nat \ {0}
      PROVE  Len(Window(v)) = IF Len(v) <= ConvLCache THEN Len(v) ELSE ConvLCache
  <2> DEFINE n == Len(v)
             a == Max({1, n - ConvLCache + 1})
  <2>1. n \in Nat \ {0} /\ \A i \in 1 .. n : v[i] \in Spots
    BY <1>3
  <2>2. a = IF 1 <= n - ConvLCache + 1 THEN n - ConvLCache + 1 ELSE 1
    <3> DEFINE m == n - ConvLCache + 1
    <3>1. 1 \in Int /\ m \in Int
      BY <1>2, <2>1
    <3> HIDE DEF m, n
    <3>2. Max({1, m}) = IF 1 <= m THEN m ELSE 1
      BY <3>1, MaxTwo
    <3>. QED
      BY <3>2 DEF m
  <2>3. Window(v) = SubSeq(v, a, n)
    BY DEF Window
  <2> HIDE DEF n, a
  <2>4. a \in 1 .. n
    BY <1>2, <2>1, <2>2
  <2>5. \A i \in a .. n : v[i] \in Spots
    BY <2>1, <2>4
  <2>6. Len(SubSeq(v, a, n)) = IF a <= n THEN n - a + 1 ELSE 0
    BY <2>1, <2>4, <2>5, SubSeqProperties
  <2>7. Len(Window(v)) = IF n <= ConvLCache THEN n ELSE ConvLCache
    BY <1>2, <2>1, <2>2, <2>3, <2>4, <2>6
  <2>. QED
    BY <2>7 DEF n
<1>4. Len(Window(u)) = 1
  <2>1. Len(u) \in Nat \ {0} /\ Len(u) <= ConvLCache
    BY <1>2
  <2>. QED
    BY <1>3, <2>1
<1>5. Len(Window(w)) # 1
  <2>1. Len(w) \in Nat \ {0} /\ Len(w) > 1
    BY <1>1, <1>2
  <2>2. Len(Window(w)) = IF Len(w) <= ConvLCache THEN Len(w) ELSE ConvLCache
    BY <1>1, <1>3, <2>1
  <2>3. Len(w) # 1
    <3> DEFINE m == Len(w)
    <3>1. m \in Nat /\ m > 1
      BY <2>1
    <3> HIDE DEF m
    <3>2. m # 1
      BY <3>1
    <3>. QED
      BY <3>2 DEF m
  <2>4. CASE Len(w) <= ConvLCache
    BY <2>2, <2>3, <2>4, Zenon
  <2>5. CASE ~(Len(w) <= ConvLCache)
    BY <2>2, <2>3, <2>5, Zenon
  <2>. QED
    BY <2>4, <2>5
<1>6. Window(u) # Window(w)
  BY <1>4, <1>5, Zenon
<1>. QED
  BY <1>6 DEF w

\* Whether the i-th entry of a prefill is what a computation from scratch gives: a
\* convolution over more than one token forgets what came before its chunk.
SoundAt(x, i) == \/ x.recurrent # "conv" \/ ConvLCache = 1
                 \/ ChunkSize = 0 \/ x.mrope \/ i <= ChunkSize

\* The cache is what a prefill of text s leaves.
Computes(x, c, s) ==
    /\ c \in Caches /\ Agree(x, c) /\ Exact(x, c, s)
    /\ \A i \in 1 .. Len(s) : c.layer[i].sound = SoundAt(x, i)
    /\ x.recurrent = "none" => c.state = <<>>
    /\ x.recurrent = "deltanet" => c.state = Placed(s, 0)
    /\ ~x.mrope => c.text_pos = 0

\* A chunk goes on after text s: the first of them, or a later one.
Follows(x, s, toks) ==
    \/ s = <<>> /\ (ChunkSize = 0 \/ x.mrope \/ Len(toks) <= ChunkSize)
    \/ s # <<>> /\ ChunkSize # 0 /\ ~x.mrope /\ Len(s) >= ChunkSize

\* When a token of a pass sees what a computation from scratch would.
LEMMA GoodForm ==
    ASSUME NEW x \in Models, NEW c, NEW s \in Seq(Nat), NEW toks \in Seq(Nat),
           Computes(x, c, s), NEW j \in 1 .. Len(toks)
    PROVE  GoodAt(x, c, toks, TRUE, j) <=>
             (x.recurrent = "conv" =>
                  Window(Placed(SubSeq(toks, 1, j), Len(s)))
                      = Window(Placed(s, 0) \o Placed(SubSeq(toks, 1, j), Len(s))))
<1> DEFINE see == SeenBy(x, c, toks, TRUE, j)
           u == SubSeq(toks, 1, j)
           st == StateAfter(x, c, u, TRUE)
<1>1. c \in Caches /\ Exact(x, c, s) /\ c.seq_len = Len(c.layer)
  BY DEF Computes, Agree
<1>2. /\ see \in Seq(Pairs) /\ Len(see) = Len(c.layer) + j
      /\ \A i \in 1 .. Len(c.layer) + j : see[i].pos = i - 1
      /\ TokensOf(see) = s \o u
  <2>2. ASSUME NEW b \in BOOLEAN, b
        PROVE  /\ SeenBy(x, c, toks, b, j) \in Seq(Pairs)
               /\ Len(SeenBy(x, c, toks, b, j)) = Len(c.layer) + j
               /\ \A i \in 1 .. Len(c.layer) + j : SeenBy(x, c, toks, b, j)[i].pos = i - 1
               /\ TokensOf(SeenBy(x, c, toks, b, j)) = s \o SubSeq(toks, 1, j)
    <3>1. b \/ Len(toks) = 1
      BY <2>2
    <3>. QED
      <4>1. x \in Models /\ c \in Caches /\ toks \in Seq(Nat) /\ s \in Seq(Nat) /\ j \in 1 .. Len(toks)
        BY <1>1
      <4>. QED
        BY ONLY <1>1, <3>1, <4>1, b \in BOOLEAN, SeenFacts, SMTT(30)
  <2>. QED
    BY <2>2, TRUE \in BOOLEAN
<1>3. Position(x, c) = Len(s)
  BY <1>1 DEF Position, Exact
<1>4a. u \in Seq(Nat)
  BY PrefixFacts
<1>4. Folded(see) = Placed(s, 0) \o Placed(u, Len(s))
  <2>1. \A i \in 1 .. Len(see) : see[i].pos = i - 1
    BY <1>2
  <2>2. Folded(see) = Placed(TokensOf(see), 0)
    BY <1>2, <2>1, FoldedIs
  <2>3. Placed(s \o u, 0) = Placed(s, 0) \o Placed(u, Len(s))
    BY <1>4a, PlacedConcat
  <2>. QED
    BY <1>2, <2>2, <2>3
<1>4b. x.recurrent = "conv" => st = Placed(u, Len(s))
  BY <1>3 DEF StateAfter
<1>4c. x.recurrent = "deltanet" => st = Folded(see)
  BY <1>3, <1>4 DEF StateAfter, Computes
<1>5. GoodAt(x, c, toks, TRUE, j) <=> Len(see) = Len(c.layer) + j /\ FromScratch(x, see, st)
  BY DEF GoodAt
<1> HIDE DEF see, u, st
<1>6. \A i \in DOMAIN see : see[i].pos = i - 1
  <2>1. DOMAIN see = 1 .. Len(see)
    BY <1>2
  <2>. QED
    BY <1>2, <2>1
<1>7. FromScratch(x, see, st) <=> (x.recurrent = "conv" => Window(st) = Window(Folded(see)))
  BY <1>4c, <1>6 DEF FromScratch
<1>8. GoodAt(x, c, toks, TRUE, j) <=>
        (x.recurrent = "conv" =>
             Window(Placed(u, Len(s))) = Window(Placed(s, 0) \o Placed(u, Len(s))))
  BY <1>2, <1>4, <1>4b, <1>5, <1>7
<1>. QED
  BY <1>8 DEF u

\* A pass leaves the cache of a longer text, its entries marked as they should be.
LEMMA FeedComputes ==
    ASSUME NEW x \in Models, NEW c, NEW s \in Seq(Nat), NEW toks \in Seq(Nat),
           Computes(x, c, s), x.recurrent # "conv" \/ Follows(x, s, toks)
    PROVE  Computes(x, Feed(x, c, toks, TRUE), s \o toks)
<1> DEFINE f == Feed(x, c, toks, TRUE)
           new == NewOf(x, c, toks, TRUE)
           n == Len(s)
           st == s \o toks
<1>1. /\ c \in Caches /\ Agree(x, c) /\ Exact(x, c, s) /\ c.seq_len = Len(c.layer)
      /\ Len(c.layer) = n /\ n \in Nat /\ Len(toks) \in Nat
      /\ \A i \in 1 .. n : c.layer[i].sound = SoundAt(x, i)
  BY DEF Computes, Exact, Agree
<1>2. f \in Caches /\ Agree(x, f) /\ f.state = StateAfter(x, c, toks, TRUE) /\ IsFed(x, c, toks, f)
  BY <1>1, FeedFacts
<1>3. Exact(x, f, st)
  BY <1>1, FeedExact
<1>4. /\ st \in Seq(Nat) /\ Len(st) = n + Len(toks)
      /\ s = <<>> => st = toks
  <2>1. s = <<>> => st = toks
    BY ConcatEmptySeq
  <2>. QED
    BY <2>1, ConcatProperties
<1>5. x.recurrent = "none" => f.state = <<>>
  BY <1>2 DEF StateAfter
<1>6. x.recurrent = "deltanet" => f.state = Placed(st, 0)
  <2>1. Position(x, c) = n /\ Placed(st, 0) = Placed(s, 0) \o Placed(toks, n)
    BY <1>1, PlacedConcat DEF Position, Exact
  <2>. QED
    BY <1>2, <2>1 DEF StateAfter, Computes
<1>7. ~x.mrope => f.text_pos = 0
  BY <1>2 DEF Computes, IsFed
<1>8. ASSUME NEW i \in 1 .. Len(toks)
      PROVE  new[i].sound = SoundAt(x, n + i)
  <2> DEFINE Good(j) == GoodAt(x, c, toks, TRUE, j)
  <2>1. new[i].sound = /\ \A j \in 1 .. Len(c.layer) : c.layer[j].sound
                       /\ \A j \in 1 .. i : Good(j)
    BY <1>1, NewFacts
  <2>2. ChunkSize \in Nat
    BY PrefixAssumption
  <2>3. ASSUME NEW j \in 1 .. i
        PROVE  /\ SubSeq(toks, 1, j) \in Seq(Nat) /\ Len(SubSeq(toks, 1, j)) = j
               /\ Placed(SubSeq(toks, 1, j), n) \in Seq(Spots)
               /\ Len(Placed(SubSeq(toks, 1, j), n)) = j
               /\ Good(j) <=> (x.recurrent = "conv" =>
                                  Window(Placed(SubSeq(toks, 1, j), n))
                                      = Window(Placed(s, 0) \o Placed(SubSeq(toks, 1, j), n)))
    <3>1. j \in Nat /\ j <= Len(toks) /\ j \in 1 .. Len(toks)
      BY <1>1
    <3>2. SubSeq(toks, 1, j) \in Seq(Nat) /\ Len(SubSeq(toks, 1, j)) = j
      BY <3>1, PrefixFacts
    <3>3. /\ Placed(SubSeq(toks, 1, j), n) \in Seq(Spots)
          /\ Len(Placed(SubSeq(toks, 1, j), n)) = j
      BY <1>1, <3>2, PlacedFacts
    <3>. QED
      BY <3>1, <3>2, <3>3, GoodForm
  <2>3a. /\ Placed(s, 0) \in Seq(Spots) /\ Len(Placed(s, 0)) = n
         /\ s = <<>> <=> Placed(s, 0) = <<>>
    <3>1. Placed(s, 0) \in Seq(Spots) /\ Len(Placed(s, 0)) = n
      BY PlacedFacts
    <3>. QED
      BY <3>1, EmptySeq
  <2> HIDE DEF Good, new
  <2>4. CASE x.recurrent # "conv" \/ s = <<>> \/ ConvLCache = 1
    <3>1. ASSUME NEW j \in 1 .. i PROVE Good(j)
      <4> DEFINE u == Placed(SubSeq(toks, 1, j), n)
                 v == Placed(s, 0)
      <4>1. v \in Seq(Spots) /\ u \in Seq(Spots) /\ u # <<>>
        <5>1. u \in Seq(Spots) /\ Len(u) = j /\ j # 0
          BY <2>3
        <5>. QED
          BY <2>3a, <5>1, EmptySeq
      <4>2. s = <<>> => v \o u = u
        BY <2>3a, <4>1, ConcatEmptySeq
      <4>4. Good(j) <=> (x.recurrent = "conv" => Window(u) = Window(v \o u))
        BY <2>3
      <4> HIDE DEF u, v
      <4>3. ConvLCache = 1 => Window(u) = Window(v \o u)
        BY <4>1, WindowOfOne
      <4>. QED
        BY <2>4, <4>2, <4>3, <4>4
    <3>2. \A j \in 1 .. Len(c.layer) : c.layer[j].sound
      <4> SUFFICES ASSUME NEW j \in 1 .. Len(c.layer) PROVE c.layer[j].sound
        OBVIOUS
      <4>1. c.layer[j].sound = SoundAt(x, j) /\ s # <<>>
        BY <1>1
      <4>2. SoundAt(x, j)
        BY <2>4, <4>1 DEF SoundAt
      <4>. QED
        BY <4>1, <4>2
    <3>3. SoundAt(x, n + i)
      <4>1. CASE s = <<>> /\ x.recurrent = "conv"
        <5>1. n + i = i /\ i <= Len(toks)
          BY <1>1, <4>1
        <5>. QED
          BY <1>1, <2>2, <4>1, <5>1 DEF SoundAt, Follows
      <4>2. CASE s # <<>> \/ x.recurrent # "conv"
        BY <2>4, <4>2 DEF SoundAt
      <4>. QED
        BY <4>1, <4>2
    <3>. QED
      BY <2>1, <3>1, <3>2, <3>3 DEF SoundAt
  <2>5. CASE x.recurrent = "conv" /\ s # <<>> /\ ConvLCache # 1
    <3> DEFINE u == Placed(SubSeq(toks, 1, 1), n)
               v == Placed(s, 0)
    <3>1. 1 \in 1 .. i
      OBVIOUS
    <3>2. u \in Seq(Spots) /\ Len(u) = 1 /\ v \in Seq(Spots) /\ v # <<>>
      BY <2>3, <2>3a, <2>5, <3>1
    <3>2a. Good(1) <=> (x.recurrent = "conv" => Window(u) = Window(v \o u))
      BY <2>3, <3>1
    <3> HIDE DEF u, v
    <3>3. Window(u) # Window(v \o u)
      BY <2>5, <3>2, WindowOfMore
    <3>4. ~Good(1)
      BY <2>5, <3>2a, <3>3
    <3>5. ChunkSize # 0 /\ ~x.mrope /\ n >= ChunkSize
      BY <2>5 DEF Follows
    <3>6. ~(n + i <= ChunkSize)
      BY <1>1, <2>2, <3>5
    <3>7. ~SoundAt(x, n + i)
      BY <2>5, <3>5, <3>6 DEF SoundAt
    <3>. QED
      BY <2>1, <3>1, <3>4, <3>7 DEF SoundAt
  <2>. QED
    BY <2>4, <2>5
<1>9. \A i \in 1 .. Len(st) : f.layer[i].sound = SoundAt(x, i)
  <2> DEFINE a == c.layer
  <2>1. f.layer = a \o new
    BY FeedParts
  <2>2. a \in Seq(Pairs) /\ new \in Seq(Pairs) /\ Len(a) = n /\ Len(new) = Len(toks)
    BY <1>1, NewFacts DEF Caches
  <2>3. \A i \in 1 .. n : a[i].sound = SoundAt(x, i)
    BY <1>1
  <2> HIDE DEF a, new
  <2>4. \A i \in 1 .. Len(a) + Len(new) : (a \o new)[i] = IF i <= Len(a) THEN a[i] ELSE new[i - Len(a)]
    BY <2>2, ConcatProperties
  <2> SUFFICES ASSUME NEW i \in 1 .. n + Len(toks) PROVE (a \o new)[i].sound = SoundAt(x, i)
    BY <1>4, <2>1
  <2>5. CASE i <= n
    <3>1. i \in 1 .. n /\ (a \o new)[i] = a[i]
      BY <1>1, <2>2, <2>4, <2>5
    <3>. QED
      BY <2>3, <3>1
  <2>6. CASE ~(i <= n)
    <3> DEFINE j == i - n
    <3>0. i \in 1 .. Len(a) + Len(new) /\ ~(i <= Len(a)) /\ i - Len(a) = j
      BY <1>1, <2>2, <2>6
    <3>1. j \in 1 .. Len(toks) /\ n + j = i
      BY <1>1, <2>6
    <3>3. (a \o new)[i] = new[j]
      BY <2>4, <3>0
    <3> HIDE DEF j
    <3>2. new[j].sound = SoundAt(x, n + j)
      BY <1>8, <3>1
    <3>. QED
      BY <3>1, <3>2, <3>3
  <2>. QED
    BY <2>5, <2>6
<1>. QED
  BY <1>2, <1>3, <1>5, <1>6, <1>7, <1>9 DEF Computes

---------------------------------------------------------------------------
(* A prefill in chunks *)

\* The chunks end at the end of the prompt, and each begins before it.
LEMMA ChunkEnds ==
    ASSUME NEW n \in Nat \ {0}, NEW k \in Nat \ {0}
    PROVE  /\ (n + k - 1) \div k \in Nat \ {0}
           /\ n <= ((n + k - 1) \div k) * k
           /\ \A i \in 0 .. (n + k - 1) \div k - 1 : i * k < n
<1> DEFINE q == (n + k - 1) \div k
           r == (n + k - 1) % k
<1>1. q \in Int /\ r \in 0 .. k - 1 /\ n + k - 1 = k * q + r
  OBVIOUS
<1> HIDE DEF q, r
<1>2. q >= 1
  BY <1>1
<1>3. n <= q * k
  BY <1>1
<1>4. ASSUME NEW i \in 0 .. q - 1 PROVE i * k < n
  <2> DEFINE d == q - 1 - i
  <2>1. d \in Nat /\ i \in Nat /\ q = i + 1 + d
    BY <1>1, <1>2
  <2> HIDE DEF d
  <2>2. k * q = k * i + k + k * d
    BY <1>1, <2>1
  <2>3. k * d \in Nat /\ k * i \in Nat /\ i * k = k * i
    BY <2>1
  <2>. QED
    BY <1>1, <2>2, <2>3
<1>. QED
  BY <1>1, <1>2, <1>3, <1>4 DEF q

\* A text and the piece that follows.
LEMMA NextPiece ==
    ASSUME NEW S, NEW s \in Seq(S), NEW a \in Nat, NEW b \in Nat, a <= b, b <= Len(s)
    PROVE  /\ SubSeq(s, a + 1, b) \in Seq(S) /\ Len(SubSeq(s, a + 1, b)) = b - a
           /\ \A i \in 1 .. b - a : SubSeq(s, a + 1, b)[i] = s[a + i]
           /\ SubSeq(s, 1, a) \o SubSeq(s, a + 1, b) = SubSeq(s, 1, b)
<1> DEFINE u == SubSeq(s, 1, a)
           v == SubSeq(s, a + 1, b)
           w == SubSeq(s, 1, b)
<1>1. u \in Seq(S) /\ Len(u) = a /\ \A i \in 1 .. a : u[i] = s[i]
  BY PrefixFacts
<1>2. w \in Seq(S) /\ Len(w) = b /\ \A i \in 1 .. b : w[i] = s[i]
  BY PrefixFacts
<1>3. v \in Seq(S) /\ Len(v) = b - a /\ \A i \in 1 .. b - a : v[i] = s[a + i]
  <2> DEFINE m == a + 1
  <2>1. m \in Nat /\ \A i \in m .. b : s[i] \in S
    OBVIOUS
  <2>2. /\ SubSeq(s, m, b) \in Seq(S)
        /\ Len(SubSeq(s, m, b)) = IF m <= b THEN b - m + 1 ELSE 0
        /\ \A i \in 1 .. b - m + 1 : SubSeq(s, m, b)[i] = s[m + i - 1]
    BY <2>1, SubSeqProperties
  <2>3. b - m + 1 = b - a /\ \A i \in 1 .. b - a : m + i - 1 = a + i
    OBVIOUS
  <2> HIDE DEF m
  <2>4. Len(SubSeq(s, m, b)) = b - a
    BY <2>1, <2>2, <2>3
  <2>5. \A i \in 1 .. b - a : SubSeq(s, m, b)[i] = s[a + i]
    BY <2>2, <2>3
  <2>. QED
    BY <2>2, <2>4, <2>5 DEF m
<1> HIDE DEF u, v, w
<1>4. /\ u \o v \in Seq(S) /\ Len(u \o v) = Len(u) + Len(v)
      /\ \A i \in 1 .. Len(u) + Len(v) : (u \o v)[i] = IF i <= Len(u) THEN u[i] ELSE v[i - Len(u)]
  BY <1>1, <1>3, ConcatProperties
<1>5. Len(u \o v) = Len(w)
  BY <1>1, <1>2, <1>3, <1>4
<1>6. ASSUME NEW i \in 1 .. Len(u \o v) PROVE (u \o v)[i] = w[i]
  <2>1. i \in 1 .. b /\ w[i] = s[i]
    BY <1>2, <1>5
  <2>2. CASE i <= a
    <3>1. i \in 1 .. a /\ (u \o v)[i] = u[i]
      BY <1>1, <1>4, <2>1, <2>2
    <3>. QED
      BY <1>1, <2>1, <3>1
  <2>3. CASE ~(i <= a)
    <3> DEFINE j == i - a
    <3>1. j \in 1 .. b - a /\ a + j = i
      BY <2>1, <2>3
    <3>2. (u \o v)[i] = v[j]
      BY <1>1, <1>4, <2>1, <2>3
    <3> HIDE DEF j
    <3>. QED
      BY <1>3, <2>1, <3>1, <3>2
  <2>. QED
    BY <2>2, <2>3
<1>7. u \o v = w
  BY <1>2, <1>4, <1>5, <1>6, SeqEqual
<1>. QED
  BY <1>3, <1>7 DEF u, v, w

\* The caches after the first chunks of a prefill.
IsAfter(f, chunks, n) ==
    f = [i \in 0 .. n |-> IF i = 0 THEN Empty ELSE Feed(model, f[i - 1], chunks[i], TRUE)]

\* There are such caches, for any number of chunks.
LEMMA AfterExists ==
    ASSUME NEW chunks
    PROVE  \A n \in Nat : \E f : IsAfter(f, chunks, n)
<1> DEFINE S == {n \in Nat : \E f : IsAfter(f, chunks, n)}
<1>1. 0 \in S
  <2> DEFINE f == [i \in 0 .. 0 |-> Empty]
  <2>1. f = [i \in 0 .. 0 |-> IF i = 0 THEN Empty ELSE Feed(model, f[i - 1], chunks[i], TRUE)]
    OBVIOUS
  <2> HIDE DEF f
  <2>2. IsAfter(f, chunks, 0)
    BY <2>1 DEF IsAfter
  <2>. QED
    BY <2>2
<1>2. ASSUME NEW n \in Nat, n \in S PROVE n + 1 \in S
  <2>1. PICK f : IsAfter(f, chunks, n)
    BY <1>2
  <2> DEFINE g == [i \in 0 .. n + 1 |-> IF i \in 0 .. n THEN f[i]
                                        ELSE Feed(model, f[n], chunks[i], TRUE)]
  <2>2. ASSUME NEW i \in 0 .. n + 1
        PROVE  g[i] = IF i = 0 THEN Empty ELSE Feed(model, g[i - 1], chunks[i], TRUE)
    <3>1. CASE i = n + 1
      <4>1. i - 1 = n /\ n \in 0 .. n /\ n \in 0 .. n + 1 /\ i \notin 0 .. n /\ i # 0
        BY <3>1
      <4>2. g[i] = Feed(model, f[n], chunks[i], TRUE) /\ g[i - 1] = f[n]
        BY <4>1
      <4>. QED
        BY <4>1, <4>2
    <3>2. CASE i \in 0 .. n
      <4>1. /\ g[i] = f[i]
            /\ i # 0 => i - 1 \in 0 .. n /\ i - 1 \in 0 .. n + 1 /\ g[i - 1] = f[i - 1]
        BY <3>2
      <4>2. f[i] = IF i = 0 THEN Empty ELSE Feed(model, f[i - 1], chunks[i], TRUE)
        BY <2>1, <3>2 DEF IsAfter
      <4>. QED
        BY <4>1, <4>2
    <3>3. i = n + 1 \/ i \in 0 .. n
      OBVIOUS
    <3> HIDE DEF g
    <3>. QED
      BY <3>1, <3>2, <3>3
  <2>3. g = [i \in 0 .. n + 1 |-> g[i]]
    OBVIOUS
  <2> HIDE DEF g
  <2>4. IsAfter(g, chunks, n + 1)
    BY <2>2, <2>3 DEF IsAfter
  <2>. QED
    BY <2>4
<1> HIDE DEF S
<1>3. \A n \in Nat : n \in S
  BY <1>1, <1>2, SetInduction
<1>. QED
  BY <1>3 DEF S

\* A prefill is the last of them.
LEMMA PrefilledRun ==
    ASSUME NEW tokens, Len(Chunks(tokens)) \in Nat
    PROVE  \E f : /\ IsAfter(f, Chunks(tokens), Len(Chunks(tokens)))
                  /\ Prefilled(tokens) = f[Len(Chunks(tokens))]
<1> DEFINE chunks == Chunks(tokens)
           n == Len(chunks)
           g == CHOOSE f : f = [i \in 0 .. n |->
                    IF i = 0 THEN Empty ELSE Feed(model, f[i - 1], chunks[i], TRUE)]
<1>1. PICK h : h = [i \in 0 .. n |-> IF i = 0 THEN Empty ELSE Feed(model, h[i - 1], chunks[i], TRUE)]
  <2>1. PICK h : IsAfter(h, chunks, n)
    BY AfterExists
  <2>. QED
    BY <2>1 DEF IsAfter
<1>2. g = [i \in 0 .. n |-> IF i = 0 THEN Empty ELSE Feed(model, g[i - 1], chunks[i], TRUE)]
  BY <1>1
<1>3. Prefilled(tokens) = g[n]
  BY DEF Prefilled
<1>. QED
  BY <1>2, <1>3 DEF IsAfter

\* One chunk more.
LEMMA AfterStep ==
    ASSUME NEW chunks, NEW n \in Nat, NEW f, IsAfter(f, chunks, n)
    PROVE  /\ f[0] = Empty
           /\ \A i \in 0 .. n - 1 : f[i + 1] = Feed(model, f[i], chunks[i + 1], TRUE)
<1> DEFINE F(i) == IF i = 0 THEN Empty ELSE Feed(model, f[i - 1], chunks[i], TRUE)
<1>1. f = [i \in 0 .. n |-> F(i)]
  BY DEF IsAfter
<1>2. 0 \in 0 .. n
  OBVIOUS
<1> HIDE DEF F
<1>3. \A i \in 0 .. n : f[i] = F(i)
  BY <1>1
<1>4. f[0] = Empty
  BY <1>2, <1>3 DEF F
<1>5. ASSUME NEW i \in 0 .. n - 1
      PROVE  f[i + 1] = Feed(model, f[i], chunks[i + 1], TRUE)
  <2> DEFINE k == i + 1
  <2>1. k \in 0 .. n /\ k # 0 /\ k - 1 = i
    OBVIOUS
  <2> HIDE DEF k
  <2>2. f[k] = F(k)
    BY <1>3, <2>1
  <2>3. f[k] = Feed(model, f[k - 1], chunks[k], TRUE)
    BY <2>1, <2>2 DEF F
  <2>. QED
    BY <2>1, <2>3 DEF k
<1>. QED
  BY <1>4, <1>5

\* The empty cache has computed the empty text.
LEMMA EmptyComputes ==
    ASSUME NEW x \in Models
    PROVE  Computes(x, Empty, <<>>)
<1>1. <<>> \in Seq(Pairs) /\ <<>> \in Seq(Nat) /\ Len(<<>>) = 0
  BY EmptySeq
<1>2. Empty \in Caches
  BY <1>1 DEF Empty, Caches
<1>3. Agree(x, Empty) /\ Exact(x, Empty, <<>>)
  BY <1>1 DEF Agree, Exact, Empty
<1>. QED
  BY <1>1, <1>2, <1>3, PlacedEmpty DEF Computes, Empty

\* One chunk of a prefill that goes in chunks.
LEMMA ChunkStep ==
    ASSUME model \in Models, NEW tokens \in Seq(Nat), ChunkSize # 0, ~model.mrope,
           NEW a \in Nat, a < Len(tokens), a = 0 \/ a >= ChunkSize,
           NEW c, Computes(model, c, SubSeq(tokens, 1, a)),
           NEW b, b = Min({a + ChunkSize, Len(tokens)})
    PROVE  Computes(model, Feed(model, c, SubSeq(tokens, a + 1, b), TRUE), SubSeq(tokens, 1, b))
<1> DEFINE piece == SubSeq(tokens, a + 1, b)
           s == SubSeq(tokens, 1, a)
<1>1. Len(tokens) \in Nat /\ ChunkSize \in Nat
  BY PrefixAssumption
<1>2. b \in Nat /\ a <= b /\ b <= Len(tokens) /\ b - a <= ChunkSize
  <2>1. b = IF a + ChunkSize <= Len(tokens) THEN a + ChunkSize ELSE Len(tokens)
    BY <1>1, MinTwo
  <2>. QED
    BY <1>1, <2>1
<1>3. piece \in Seq(Nat) /\ Len(piece) = b - a /\ s \o piece = SubSeq(tokens, 1, b)
  BY ONLY <1>2, NextPiece, tokens \in Seq(Nat), a \in Nat
<1>4. s \in Seq(Nat) /\ Len(s) = a
  BY PrefixFacts
<1> HIDE DEF piece, s
<1>5. Follows(model, s, piece)
  <2>1. CASE a = 0
    <3>1. s = <<>>
      BY <1>4, <2>1, EmptySeq
    <3>. QED
      BY <1>2, <1>3, <2>1, <3>1 DEF Follows
  <2>2. CASE a # 0
    <3>1. s # <<>>
      BY <1>4, <2>2, EmptySeq
    <3>. QED
      BY <1>4, <2>2, <3>1 DEF Follows
  <2>. QED
    BY <2>1, <2>2
<1>6. Computes(model, c, s)
  BY DEF s
<1>7. Computes(model, Feed(model, c, piece, TRUE), s \o piece)
  BY <1>3, <1>4, <1>5, <1>6, FeedComputes
<1>. QED
  BY <1>3, <1>7 DEF piece

\* A prefill computes its prompt, whatever the chunks.
LEMMA PrefilledComputes ==
    ASSUME model \in Models, NEW tokens \in Seq(Nat), tokens # <<>>
    PROVE  Computes(model, Prefilled(tokens), tokens)
<1> DEFINE chunks == Chunks(tokens)
           K == Len(chunks)
           n == Len(tokens)
           C == ChunkSize
<1>1. n \in Nat \ {0} /\ C \in Nat /\ SubSeq(tokens, 1, n) = tokens
  BY EmptySeq, SubSeqFull, PrefixAssumption
<1>2. CASE C = 0 \/ model.mrope
  <2>1. chunks = <<tokens>> /\ K = 1 /\ chunks[1] = tokens
    BY <1>2 DEF Chunks
  <2>2. PICK f : IsAfter(f, chunks, K) /\ Prefilled(tokens) = f[K]
    BY <2>1, PrefilledRun
  <2>3. f[0] = Empty /\ f[1] = Feed(model, f[0], chunks[1], TRUE)
    <3> HIDE DEF chunks, K
    <3>1. K \in Nat /\ 0 \in 0 .. K - 1 /\ 0 + 1 = 1
      BY <2>1
    <3>2. f[0] = Empty /\ \A i \in 0 .. K - 1 : f[i + 1] = Feed(model, f[i], chunks[i + 1], TRUE)
      BY <2>2, <3>1, AfterStep
    <3>. QED
      BY <3>1, <3>2
  <2>4. Follows(model, <<>>, tokens) /\ <<>> \in Seq(Nat) /\ <<>> \o tokens = tokens
    BY <1>2, EmptySeq, ConcatEmptySeq DEF Follows
  <2>5. Computes(model, Feed(model, Empty, tokens, TRUE), tokens)
    BY <2>4, EmptyComputes, FeedComputes
  <2>. QED
    BY <2>1, <2>2, <2>3, <2>5
<1>3. CASE C # 0 /\ ~model.mrope
  <2> DEFINE End(i) == Min({i * C, n})
             Text(i) == SubSeq(tokens, 1, End(i))
  <2>1. /\ K \in Nat \ {0} /\ n <= K * C
        /\ \A i \in 0 .. K - 1 : i * C < n
        /\ \A i \in 1 .. K : chunks[i] = SubSeq(tokens, (i - 1) * C + 1, Min({i * C, n}))
    <3> DEFINE q == (n + C - 1) \div C
    <3>1. chunks = [i \in 1 .. q |-> SubSeq(tokens, (i - 1) * C + 1, Min({i * C, n}))]
      BY <1>3 DEF Chunks
    <3>2. q \in Nat \ {0} /\ n <= q * C /\ \A i \in 0 .. q - 1 : i * C < n
      BY <1>1, <1>3, ChunkEnds
    <3> HIDE DEF q, chunks
    <3>3. K = q
      BY <3>1, <3>2
    <3>. QED
      BY <3>1, <3>2, <3>3
  <2>2. PICK f : IsAfter(f, chunks, K) /\ Prefilled(tokens) = f[K]
    BY <2>1, PrefilledRun
  <2> HIDE DEF chunks, K
  <2>3. f[0] = Empty /\ \A i \in 0 .. K - 1 : f[i + 1] = Feed(model, f[i], chunks[i + 1], TRUE)
    BY <2>1, <2>2, AfterStep
  <2> DEFINE S == {i \in Nat : i \in 0 .. K => Computes(model, f[i], Text(i))}
  <2>4. 0 \in S
    <3>1. 0 * C = 0
      BY <1>1
    <3>2. End(0) = 0
      BY <1>1, <3>1, MinTwo
    <3>3. Text(0) = <<>>
      BY <3>2, SubSeqEmpty
    <3>. QED
      BY <2>3, <3>3, EmptyComputes
  <2>5. ASSUME NEW i \in Nat, i \in S PROVE i + 1 \in S
    <3> SUFFICES ASSUME i + 1 \in 0 .. K PROVE Computes(model, f[i + 1], Text(i + 1))
      OBVIOUS
    <3> DEFINE a == i * C
               b == End(i + 1)
    <3>1. i \in 0 .. K - 1 /\ i \in 0 .. K /\ i + 1 \in 1 .. K /\ i + 1 - 1 = i
      BY <2>1
    <3>2. a \in Nat /\ a < n /\ (i + 1) * C = a + C
      BY <1>1, <2>1, <3>1
    <3>3. End(i) = a /\ b = Min({a + C, n})
      <4>1. Min({a, n}) = a
        <5> HIDE DEF a
        <5>. QED
          BY <1>1, <3>2, MinTwo
      <4>. QED
        BY <3>2, <4>1
    <3>4. chunks[i + 1] = SubSeq(tokens, a + 1, b)
      <4> DEFINE k == i + 1
      <4>1. k \in 1 .. K /\ k - 1 = i /\ End(k) = b
        BY <3>1
      <4>2. (k - 1) * C = a
        BY <4>1
      <4> HIDE DEF k, a, b
      <4>3. chunks[k] = SubSeq(tokens, (k - 1) * C + 1, End(k))
        BY <2>1, <4>1
      <4> HIDE DEF End
      <4>4. chunks[k] = SubSeq(tokens, a + 1, b)
        BY <4>1, <4>2, <4>3
      <4>. QED
        BY <4>4 DEF k
    <3>5. a = 0 \/ a >= C
      <4>1. CASE i = 0
        BY <1>1, <4>1
      <4>2. CASE i # 0
        <5> DEFINE d == i - 1
        <5>1. d \in Nat /\ i = 1 + d
          BY <4>2
        <5> HIDE DEF d
        <5>2. a = C + d * C /\ d * C \in Nat
          BY <1>1, <5>1
        <5> HIDE DEF a
        <5>. QED
          BY <1>1, <5>2
      <4>. QED
        BY <4>1, <4>2
    <3>6. Computes(model, f[i], SubSeq(tokens, 1, a))
      BY <2>5, <3>1, <3>3
    <3> HIDE DEF a, b
    <3>7. Computes(model, Feed(model, f[i], SubSeq(tokens, a + 1, b), TRUE), SubSeq(tokens, 1, b))
      BY <1>3, <3>2, <3>3, <3>5, <3>6, ChunkStep
    <3>8. f[i + 1] = Feed(model, f[i], SubSeq(tokens, a + 1, b), TRUE)
      BY <2>3, <3>1, <3>4
    <3>. QED
      BY <3>7, <3>8 DEF b
  <2> HIDE DEF S
  <2>6. K \in S
    BY <2>1, <2>4, <2>5, SetInduction
  <2>7. End(K) = n
    <3> DEFINE e == K * C
    <3>1. e \in Nat /\ n <= e
      BY <1>1, <2>1
    <3> HIDE DEF e
    <3>2. Min({e, n}) = n
      BY <1>1, <3>1, MinTwo
    <3>. QED
      BY <3>2 DEF e
  <2>8. Text(K) = tokens
    BY <1>1, <2>7
  <2>9. Computes(model, f[K], Text(K))
    <3>1. K \in 0 .. K
      BY <2>1
    <3>. QED
      BY <2>6, <3>1 DEF S
  <2>. QED
    BY <2>2, <2>8, <2>9
<1>. QED
  BY <1>2, <1>3

---------------------------------------------------------------------------
(* What is saved, and what is loaded *)

\* The entries of a prefill follow from its text.
LEMMA EntryOf ==
    ASSUME NEW x, NEW c, NEW s \in Seq(Nat), Computes(x, c, s)
    PROVE  \A i \in 1 .. Len(s) : c.layer[i] = [tok |-> s[i], pos |-> i - 1, sound |-> SoundAt(x, i)]
<1> SUFFICES ASSUME NEW i \in 1 .. Len(s)
             PROVE  c.layer[i] = [tok |-> s[i], pos |-> i - 1, sound |-> SoundAt(x, i)]
  OBVIOUS
<1>1. /\ c.layer \in Seq(Pairs) /\ Len(c.layer) = Len(s)
      /\ c.layer[i].tok = s[i] /\ c.layer[i].pos = i - 1 /\ c.layer[i].sound = SoundAt(x, i)
  BY DEF Computes, Exact, Caches
<1> DEFINE e == c.layer[i]
<1>2. e \in Pairs
  BY <1>1
<1>3. e.tok = s[i] /\ e.pos = i - 1 /\ e.sound = SoundAt(x, i)
  BY <1>1
<1> HIDE DEF e
<1>4. e = [tok |-> e.tok, pos |-> e.pos, sound |-> e.sound]
  BY <1>2 DEF Pairs
<1>5. e = [tok |-> s[i], pos |-> i - 1, sound |-> SoundAt(x, i)]
  BY <1>3, <1>4, Zenon
<1>. QED
  BY <1>5 DEF e

\* Two caches that have computed the same text are the same, without a recurrent state.
LEMMA SameCache ==
    ASSUME NEW x, NEW c, NEW d, NEW s \in Seq(Nat), x.recurrent = "none",
           Computes(x, c, s), Computes(x, d, s)
    PROVE  c = d
<1>1. /\ c \in Caches /\ d \in Caches /\ Agree(x, c) /\ Agree(x, d)
      /\ Exact(x, c, s) /\ Exact(x, d, s) /\ c.state = <<>> /\ d.state = <<>>
      /\ ~x.mrope => c.text_pos = 0 /\ d.text_pos = 0
  BY DEF Computes
<1>2. \A i \in 1 .. Len(s) : c.layer[i] = d.layer[i]
  <2> SUFFICES ASSUME NEW i \in 1 .. Len(s) PROVE c.layer[i] = d.layer[i]
    OBVIOUS
  <2>1. c.layer[i] = [tok |-> s[i], pos |-> i - 1, sound |-> SoundAt(x, i)]
    BY EntryOf
  <2>2. d.layer[i] = [tok |-> s[i], pos |-> i - 1, sound |-> SoundAt(x, i)]
    BY EntryOf
  <2>. QED
    BY <2>1, <2>2, Zenon
<1>3. /\ c.layer \in Seq(Pairs) /\ d.layer \in Seq(Pairs)
      /\ Len(c.layer) = Len(s) /\ Len(d.layer) = Len(s)
  BY <1>1 DEF Caches, Exact
<1> DEFINE a == c.layer
           b == d.layer
<1>4. a = b
  <2>1. a \in Seq(Pairs) /\ b \in Seq(Pairs) /\ Len(a) = Len(b) /\ \A i \in 1 .. Len(a) : a[i] = b[i]
    BY <1>2, <1>3
  <2> HIDE DEF a, b
  <2>. QED
    BY <2>1, SeqEqual
<1>5. c.flat = d.flat /\ c.seq_len = d.seq_len
  BY <1>1, <1>4 DEF Agree
<1>6. c.text_pos = d.text_pos
  BY <1>1 DEF Exact
<1>. QED
  BY <1>1, <1>4, <1>5, <1>6 DEF Caches

\* What the file of a prefix of the prompt should hold is in the flat copy.
LEMMA FlatOfPrefix ==
    ASSUME model \in Models, model.bf16, NEW tokens \in Seq(Nat), NEW k \in 1 .. Len(tokens)
    PROVE  /\ Prefilled(tokens).flat \in Seq(Pairs)
           /\ Len(Prefilled(tokens).flat) = Len(tokens)
           /\ SubSeq(Prefilled(tokens).flat, 1, k) = Prefilled(SubSeq(tokens, 1, k)).flat
<1> DEFINE c == Prefilled(tokens)
           s == SubSeq(tokens, 1, k)
           d == Prefilled(s)
<1>1. k \in Nat /\ k <= Len(tokens) /\ k # 0 /\ Len(tokens) \in Nat
  OBVIOUS
<1>2. s \in Seq(Nat) /\ Len(s) = k /\ \A i \in 1 .. k : s[i] = tokens[i]
  BY <1>1, PrefixFacts
<1>3. tokens # <<>> /\ s # <<>>
  BY <1>1, <1>2, EmptySeq
<1>4. Computes(model, c, tokens)
  BY <1>3, PrefilledComputes
<1> HIDE DEF s
<1>5. Computes(model, d, s)
  BY <1>2, <1>3, PrefilledComputes
<1> HIDE DEF c, d
<1>6. /\ c.flat = c.layer /\ c.layer \in Seq(Pairs) /\ Len(c.layer) = Len(tokens)
      /\ d.flat = d.layer /\ d.layer \in Seq(Pairs) /\ Len(d.layer) = k
  BY <1>2, <1>4, <1>5 DEF Computes, Agree, Exact, Caches
<1>7. ASSUME NEW i \in 1 .. k PROVE c.layer[i] = d.layer[i]
  <2>1. i \in 1 .. Len(tokens) /\ i \in 1 .. Len(s) /\ tokens[i] = s[i]
    BY <1>1, <1>2
  <2>. QED
    <3>1. c.layer[i] = [tok |-> tokens[i], pos |-> i - 1, sound |-> SoundAt(model, i)]
      BY <1>4, <2>1, EntryOf
    <3>2. d.layer[i] = [tok |-> s[i], pos |-> i - 1, sound |-> SoundAt(model, i)]
      <4>1. s \in Seq(Nat) /\ i \in 1 .. Len(s)
        BY <1>2, <2>1
      <4>. QED
        BY <1>5, <4>1, EntryOf
    <3>. QED
      BY <2>1, <3>1, <3>2, Zenon
<1> DEFINE a == c.layer
           b == d.layer
           u == SubSeq(a, 1, k)
<1>8. a \in Seq(Pairs) /\ b \in Seq(Pairs) /\ Len(a) = Len(tokens) /\ Len(b) = k
      /\ \A i \in 1 .. k : a[i] = b[i]
  BY <1>6, <1>7
<1> HIDE DEF a, b
<1>9. u \in Seq(Pairs) /\ Len(u) = k /\ \A i \in 1 .. k : u[i] = a[i]
  BY <1>1, <1>8, PrefixFacts
<1> HIDE DEF u
<1>10. u = b
  BY <1>8, <1>9, SeqEqual
<1>. QED
  BY <1>6, <1>10 DEF a, b, c, d, s, u

\* What a file should hold: its header, and an entry for every token.
LEMMA WholeFile ==
    ASSUME model \in Models, model.bf16, NEW name \in Seq(Nat), name # <<>>
    PROVE  /\ Prefilled(name).flat \in Seq(Pairs)
           /\ Len(Prefilled(name).flat) = Len(name)
           /\ Whole(name) \in Seq(Pairs)
           /\ Len(Whole(name)) = Len(name) + 1
           /\ Whole(name)[1] = Header
           /\ SubSeq(Whole(name), 2, Len(name) + 1) = Prefilled(name).flat
<1> DEFINE a == Prefilled(name).flat
           h == <<Header>>
           w == h \o a
           n == Len(name)
<1>1. n \in Nat \ {0}
  BY EmptySeq
<1>2. a \in Seq(Pairs) /\ Len(a) = n
  <2>1. n \in 1 .. Len(name)
    BY <1>1
  <2>. QED
    BY <2>1, FlatOfPrefix
<1>3. h \in Seq(Pairs) /\ Len(h) = 1 /\ h[1] = Header
  BY DEF Header, Pairs
<1>4. Whole(name) = w
  BY DEF Whole
<1> HIDE DEF a, h, n
<1>5. /\ w \in Seq(Pairs) /\ Len(w) = Len(h) + Len(a)
      /\ \A i \in 1 .. Len(h) + Len(a) : w[i] = IF i <= Len(h) THEN h[i] ELSE a[i - Len(h)]
  <2>1. a \in Seq(Pairs)
    BY <1>2
  <2>2. h \in Seq(Pairs)
    BY <1>3
  <2>. QED
    BY <2>1, <2>2, ConcatProperties
<1> HIDE DEF w
<1>6. Len(w) = n + 1 /\ w[1] = Header
  BY <1>1, <1>2, <1>3, <1>5
<1>7. SubSeq(w, 2, n + 1) = a
  <2> DEFINE m == n + 1
             u == SubSeq(w, 2, m)
  <2>2. m \in Nat /\ m - 2 + 1 = n /\ 2 <= m /\ m = Len(w)
    BY <1>1, <1>6
  <2> HIDE DEF m
  <2>1. \A i \in 2 .. m : w[i] \in Pairs
    BY <1>5, <2>2
  <2>3. /\ u \in Seq(Pairs) /\ Len(u) = IF 2 <= m THEN m - 2 + 1 ELSE 0
        /\ \A i \in 1 .. m - 2 + 1 : u[i] = w[2 + i - 1]
    BY <2>1, <2>2, SubSeqProperties
  <2> HIDE DEF u
  <2>4. Len(u) = n
    BY <2>2, <2>3
  <2>5. ASSUME NEW i \in 1 .. n PROVE u[i] = a[i]
    <3>1. u[i] = w[2 + i - 1]
      BY <2>2, <2>3
    <3> DEFINE j == i + 1
    <3>2. 2 + i - 1 = j /\ j \in 1 .. Len(h) + Len(a) /\ ~(j <= Len(h)) /\ j - Len(h) = i
      BY <1>1, <1>2, <1>3
    <3> HIDE DEF j
    <3>3. w[j] = a[j - Len(h)]
      BY <1>5, <3>2
    <3>. QED
      BY <3>1, <3>2, <3>3
  <2>6. u = a
    BY <1>2, <2>3, <2>4, <2>5, SeqEqual
  <2>. QED
    BY <2>6 DEF u, m
<1>. QED
  BY <1>2, <1>4, <1>5, <1>6, <1>7 DEF a, n

\* The prefixes of a prompt.
Cut(name, tokens) == \E k \in 1 .. Len(tokens) : name = SubSeq(tokens, 1, k)

\* A cache without a recurrent state that was cut back has computed what is left.
LEMMA TruncComputes ==
    ASSUME NEW x, NEW c, NEW s \in Seq(Nat), NEW n \in Nat, n <= Len(s),
           x.recurrent = "none", Computes(x, c, s)
    PROVE  Computes(x, TruncateKv(c, n), SubSeq(s, 1, n))
<1> DEFINE d == TruncateKv(c, n)
           u == SubSeq(s, 1, n)
<1>1. /\ c \in Caches /\ Agree(x, c) /\ Exact(x, c, s) /\ c.state = <<>>
      /\ ~x.mrope => c.text_pos = 0
      /\ \A i \in 1 .. Len(s) : c.layer[i].sound = SoundAt(x, i)
  BY DEF Computes
<1>2. Len(c.layer) = Len(s) /\ Len(s) \in Nat /\ c.text_pos \in Nat
  BY <1>1 DEF Exact, Caches
<1>3. Exact(x, d, u) /\ Len(u) = n
  BY <1>1, TruncExact, PrefixFacts
<1>4. /\ d \in Caches /\ Agree(x, d) /\ d.state = c.state
      /\ Len(d.layer) = IF n < Len(c.layer) THEN n ELSE Len(c.layer)
      /\ \A i \in 1 .. Len(d.layer) : d.layer[i] = c.layer[i]
      /\ d.text_pos =
            IF n < Len(c.layer) /\ Len(c.layer) - n <= c.text_pos THEN c.text_pos - (Len(c.layer) - n)
            ELSE IF n < Len(c.layer) THEN 0 ELSE c.text_pos
  BY <1>1, TruncFacts
<1> HIDE DEF d, u
<1>5. ~x.mrope => d.text_pos = 0
  BY <1>1, <1>2, <1>4
<1>6. \A i \in 1 .. Len(u) : d.layer[i].sound = SoundAt(x, i)
  <2> SUFFICES ASSUME NEW i \in 1 .. n PROVE d.layer[i].sound = SoundAt(x, i)
    BY <1>3
  <2>1. i \in 1 .. Len(s) /\ i \in 1 .. Len(d.layer)
    BY <1>2, <1>4
  <2>. QED
    BY <1>1, <1>4, <2>1
<1>. QED
  BY <1>1, <1>3, <1>4, <1>5, <1>6 DEF Computes, d, u

\* Of a whole file, the cache that is loaded is that of a prefill.
LEMMA LoadedComputes ==
    ASSUME model \in Models, model.bf16, model.recurrent = "none",
           NEW name \in Seq(Nat), name # <<>>
    PROVE  Computes(model, Loaded(name, Whole(name)), name)
<1> DEFINE P == Prefilled(name)
           k == Len(name)
<1>1. Computes(model, P, name) /\ k \in Nat
  BY PrefilledComputes
<1>2. SubSeq(Whole(name), 2, k + 1) = P.flat
  BY WholeFile
<1> HIDE DEF P, k
<1>3. Loaded(name, Whole(name)) =
        [Empty EXCEPT !.flat = P.flat, !.layer = P.flat, !.seq_len = k,
                      !.text_pos = IF model.mrope THEN k ELSE 0]
  BY <1>2 DEF Loaded, k
<1>4. Loaded(name, Whole(name)) =
        [layer |-> P.flat, flat |-> P.flat, state |-> <<>>, seq_len |-> k,
         text_pos |-> IF model.mrope THEN k ELSE 0]
  BY <1>3 DEF Empty
<1>5. /\ P \in Caches /\ P.layer = P.flat /\ P.state = <<>> /\ P.seq_len = k
      /\ P.text_pos = IF model.mrope THEN k ELSE 0
  BY <1>1 DEF Computes, Agree, Exact, k
<1>6. P = [layer |-> P.layer, flat |-> P.flat, state |-> P.state, seq_len |-> P.seq_len,
           text_pos |-> P.text_pos]
  BY <1>5 DEF Caches
<1>7. Loaded(name, Whole(name)) = P
  BY <1>4, <1>5, <1>6
<1>. QED
  BY <1>1, <1>7

\* Prefill after a hit leaves the cache that prefill from nothing would.
LEMMA ResumedSame ==
    ASSUME model \in Models, model.bf16, model.recurrent = "none",
           NEW tokens \in Seq(Nat), NEW name, Cut(name, tokens)
    PROVE  Resumed(Loaded(name, Whole(name)), tokens) = Feed(model, Empty, tokens, TRUE)
<1> DEFINE c == Loaded(name, Whole(name))
           n == Len(tokens)
           from == Min({c.seq_len, n - 1})
           rest == SubSeq(tokens, from + 1, n)
           s == SubSeq(tokens, 1, from)
<1>1. PICK k \in 1 .. n : name = SubSeq(tokens, 1, k)
  BY DEF Cut
<1>2. n \in Nat /\ k \in Nat /\ k <= n /\ k # 0
  OBVIOUS
<1>3. name \in Seq(Nat) /\ Len(name) = k /\ \A i \in 1 .. k : name[i] = tokens[i]
  BY <1>1, <1>2, PrefixFacts
<1>4. name # <<>>
  BY <1>2, <1>3, EmptySeq
<1>5. Computes(model, c, name) /\ c.seq_len = k
  <2>1. Computes(model, c, name)
    BY <1>3, <1>4, LoadedComputes
  <2>. QED
    BY <1>3, <2>1 DEF Computes, Agree, Exact
<1>6. from \in Nat /\ from <= k /\ from <= n
  <2>1. n - 1 \in Int /\ k \in Int
    BY <1>2
  <2>2. Min({k, n - 1}) = IF k <= n - 1 THEN k ELSE n - 1
    BY <2>1, MinTwo
  <2>. QED
    BY <1>2, <1>5, <2>2
<1>7. Resumed(c, tokens) = Feed(model, TruncateKv(c, from), rest, TRUE)
  BY DEF Resumed
<1> HIDE DEF c, from, n
<1>8. s \in Seq(Nat) /\ rest \in Seq(Nat) /\ s \o rest = tokens
  <2>1. n <= Len(tokens) /\ SubSeq(tokens, 1, n) = tokens
    BY SubSeqFull DEF n
  <2>2. s \in Seq(Nat)
    BY <1>2, <1>6, <2>1, PrefixFacts
  <2>3. rest \in Seq(Nat) /\ SubSeq(tokens, 1, from) \o rest = SubSeq(tokens, 1, n)
    BY <1>2, <1>6, <2>1, NextPiece
  <2>. QED
    BY <2>1, <2>2, <2>3
<1>9. SubSeq(name, 1, from) = s
  <2> DEFINE u == SubSeq(name, 1, from)
  <2>1. u \in Seq(Nat) /\ Len(u) = from /\ \A i \in 1 .. from : u[i] = name[i]
    BY <1>3, <1>6, PrefixFacts
  <2>2. s \in Seq(Nat) /\ Len(s) = from /\ \A i \in 1 .. from : s[i] = tokens[i]
    <3>1. from <= Len(tokens)
      BY <1>6 DEF n
    <3>. QED
      BY <1>6, <3>1, PrefixFacts
  <2> HIDE DEF u, s
  <2>3. ASSUME NEW i \in 1 .. from PROVE u[i] = s[i]
    <3>1. i \in 1 .. k
      BY <1>2, <1>6
    <3>2. u[i] = name[i] /\ name[i] = tokens[i] /\ s[i] = tokens[i]
      BY <1>3, <2>1, <2>2, <3>1
    <3>. QED
      BY <3>2
  <2>4. u = s
    BY <2>1, <2>2, <2>3, SeqEqual
  <2>. QED
    BY <2>4 DEF u
<1> HIDE DEF s, rest
<1>10. Computes(model, TruncateKv(c, from), s)
  <2>1. Computes(model, TruncateKv(c, from), SubSeq(name, 1, from))
    BY <1>3, <1>5, <1>6, TruncComputes
  <2>. QED
    BY <1>9, <2>1
<1>11. Computes(model, Resumed(c, tokens), tokens)
  <2>1. Computes(model, Feed(model, TruncateKv(c, from), rest, TRUE), s \o rest)
    BY <1>8, <1>10, FeedComputes
  <2>. QED
    BY <1>7, <1>8, <2>1
<1>12. Computes(model, Feed(model, Empty, tokens, TRUE), tokens)
  <2>1. <<>> \in Seq(Nat) /\ <<>> \o tokens = tokens
    BY EmptySeq, ConcatEmptySeq
  <2>2. Computes(model, Feed(model, Empty, tokens, TRUE), <<>> \o tokens)
    BY <2>1, EmptyComputes, FeedComputes
  <2>. QED
    BY <2>1, <2>2
<1>13. Resumed(c, tokens) = Feed(model, Empty, tokens, TRUE)
  BY <1>11, <1>12, SameCache
<1>. QED
  BY <1>13 DEF c

\* So does prefill in chunks.
LEMMA PrefilledSame ==
    ASSUME model \in Models, model.recurrent = "none", NEW tokens \in Seq(Nat), tokens # <<>>
    PROVE  Prefilled(tokens) = Feed(model, Empty, tokens, TRUE)
<1>1. Computes(model, Prefilled(tokens), tokens)
  BY PrefilledComputes
<1>2. <<>> \in Seq(Nat) /\ <<>> \o tokens = tokens
  BY EmptySeq, ConcatEmptySeq
<1>3. Computes(model, Feed(model, Empty, tokens, TRUE), <<>> \o tokens)
  BY <1>2, EmptyComputes, FeedComputes
<1>. QED
  BY <1>1, <1>2, <1>3, SameCache

---------------------------------------------------------------------------
(* The inductive invariant *)

Names == Seq(Nat \ {0}) \ {<<>>}
Files == Seq(Pairs)
Prefills == [stage : {"ready", "load", "save", "write", "rename", "stat"},
             tokens : Seq(Nat \ {0}), hit : Seq(Nat \ {0}), kv : Caches,
             todo : Seq(Names), fd : {"none", "tmp", "dir", "gone"}, written : Nat]

\* The index is left out: what is in it never matters to what a file holds.
TypeOK ==
    /\ model \in Models /\ concurrent \in BOOLEAN
    /\ proc \in [Procs -> Prefills]
    /\ DOMAIN dir \subseteq Names /\ \A n \in DOMAIN dir : dir[n] \in Files
    /\ DOMAIN tmp \subseteq Names /\ \A n \in DOMAIN tmp : tmp[n] \in Files

Saves == {"save", "write", "rename", "stat"}

\* A file is open while it is written, and has the name of the save.
Opened ==
    \A p \in Procs :
        /\ proc[p].fd # "none" <=> proc[p].stage \in {"write", "rename"}
        /\ proc[p].stage \in {"write", "rename", "stat"} => proc[p].todo # <<>>
        /\ proc[p].fd = "tmp" => Saving(p) \in DOMAIN tmp

\* Only a name that was raced has two writers, or one whose file was moved.
Alone ==
    /\ \A p \in Procs : proc[p].fd # "none" /\ Saving(p) \notin raced => proc[p].fd = "tmp"
    /\ \A p, q \in Procs :
           p # q /\ proc[p].fd = "tmp" /\ proc[q].fd = "tmp" /\ Saving(p) = Saving(q)
           => Saving(p) \in raced

\* What is saved are prefixes of the prompt, from a cache that was computed.
Planned ==
    \A p \in Procs :
        /\ proc[p].stage # "ready" => proc[p].tokens # <<>>
        /\ proc[p].stage # "ready" /\ proc[p].hit # NoName => Cut(proc[p].hit, proc[p].tokens)
        /\ proc[p].stage \in Saves => \A i \in 1 .. Len(proc[p].todo) : Cut(proc[p].todo[i], proc[p].tokens)
        /\ proc[p].stage \in Saves /\ proc[p].todo # <<>> => proc[p].kv = Prefilled(proc[p].tokens)

\* A temporary file has what was written of it.
Drafted ==
    \A p \in Procs :
        /\ proc[p].stage \in {"ready", "load", "save"} => proc[p].written = 0
        /\ proc[p].stage = "write" => proc[p].written \in {0, Half(p)}
        /\ proc[p].stage = "rename" => proc[p].written = Len(Saving(p)) + 1
        /\ model.bf16 /\ proc[p].fd = "tmp" /\ Saving(p) \notin raced
           => tmp[Saving(p)] = SubSeq(Whole(Saving(p)), 1, proc[p].written)

\* What a prefill leaves stays there while it is saved.
Computed ==
    model.bf16 /\ model.recurrent = "none" =>
        \A p \in Procs : proc[p].stage \in Saves /\ proc[p].hit \notin raced =>
            proc[p].kv = Feed(model, Empty, proc[p].tokens, TRUE)

IInv == TypeOK /\ Opened /\ Alone /\ Planned /\ Drafted /\ Published /\ Computed

---------------------------------------------------------------------------
(* The steps *)

\* What a file should hold is settled when the model is.
LEMMA ModelStays ==
    ASSUME model' = model
    PROVE  \A t : Prefilled(t)' = Prefilled(t) /\ Whole(t)' = Whole(t)
<1> SUFFICES ASSUME NEW t PROVE Prefilled(t)' = Prefilled(t) /\ Whole(t)' = Whole(t)
  OBVIOUS
<1>1. Chunks(t)' = Chunks(t)
  BY DEF Chunks
<1>2. Prefilled(t)' = Prefilled(t)
  BY <1>1 DEF Prefilled
<1>. QED
  BY <1>2 DEF Whole

\* A prefill that writes to no file, as the invariant wants it.
Resting(r) ==
    /\ r \in Prefills /\ r.stage \in {"ready", "load", "save"} /\ r.fd = "none" /\ r.written = 0
    /\ r.stage # "ready" => r.tokens # <<>>
    /\ r.stage # "ready" /\ r.hit # NoName => Cut(r.hit, r.tokens)
    /\ r.stage = "save" => \A i \in 1 .. Len(r.todo) : Cut(r.todo[i], r.tokens)
    /\ r.stage = "save" /\ r.todo # <<>> => r.kv = Prefilled(r.tokens)
    /\ model.bf16 /\ model.recurrent = "none" /\ r.stage = "save" /\ r.hit \notin raced =>
           r.kv = Feed(model, Empty, r.tokens, TRUE)

\* A step that touches no file, of prefills that write to none before and after it
\* or are as they were.
LEMMA NoFileStep ==
    ASSUME IInv, UNCHANGED <<model, concurrent, dir, tmp, raced>>, DOMAIN proc' = Procs,
           proc' = [p \in Procs |-> proc'[p]],
           \A p \in Procs : proc'[p] = proc[p] \/ Resting(proc'[p])
    PROVE  IInv'
<1>1. \A p \in Procs : proc'[p] \in Prefills
  BY DEF IInv, TypeOK, Resting
<1>2. TypeOK'
  BY <1>1 DEF IInv, TypeOK
<1>3. ASSUME NEW p \in Procs, proc'[p].fd # "none" PROVE proc'[p] = proc[p]
  BY <1>3 DEF Resting
<1>4. Opened'
  <2> SUFFICES ASSUME NEW p \in Procs
               PROVE  /\ proc'[p].fd # "none" <=> proc'[p].stage \in {"write", "rename"}
                      /\ proc'[p].stage \in {"write", "rename", "stat"} => proc'[p].todo # <<>>
                      /\ proc'[p].fd = "tmp" => Saving(p)' \in DOMAIN tmp
    BY DEF Opened
  <2>1. CASE proc'[p] = proc[p]
    <3>1. Saving(p)' = Saving(p)
      BY <2>1 DEF Saving
    <3>. QED
      BY <2>1, <3>1 DEF IInv, Opened
  <2>2. CASE Resting(proc'[p])
    BY <2>2 DEF Resting
  <2>. QED
    BY <2>1, <2>2
<1>5. Alone'
  <2>1. ASSUME NEW p \in Procs, proc'[p].fd # "none"
        PROVE  proc'[p].fd = proc[p].fd /\ Saving(p)' = Saving(p)
    BY <1>3, <2>1 DEF Saving
  <2>2. ASSUME NEW p \in Procs, proc'[p].fd # "none", Saving(p)' \notin raced PROVE proc'[p].fd = "tmp"
    BY <2>1, <2>2 DEF IInv, Alone
  <2>3. ASSUME NEW p \in Procs, NEW q \in Procs, p # q, proc'[p].fd = "tmp", proc'[q].fd = "tmp",
               Saving(p)' = Saving(q)'
        PROVE  Saving(p)' \in raced
    <3>1. /\ proc[p].fd = "tmp" /\ Saving(p)' = Saving(p)
          /\ proc[q].fd = "tmp" /\ Saving(q)' = Saving(q)
      BY <2>1, <2>3
    <3>. QED
      BY <2>3, <3>1 DEF IInv, Alone
  <2>. QED
    BY <2>2, <2>3 DEF Alone
<1>6. Planned'
  <2> SUFFICES ASSUME NEW p \in Procs
               PROVE  /\ proc'[p].stage # "ready" => proc'[p].tokens # <<>>
                      /\ proc'[p].stage # "ready" /\ proc'[p].hit # NoName => Cut(proc'[p].hit, proc'[p].tokens)
                      /\ proc'[p].stage \in Saves =>
                             \A i \in 1 .. Len(proc'[p].todo) : Cut(proc'[p].todo[i], proc'[p].tokens)
                      /\ proc'[p].stage \in Saves /\ proc'[p].todo # <<>> =>
                             proc'[p].kv = Prefilled(proc'[p].tokens)
    BY ModelStays DEF Planned
  <2>1. CASE proc'[p] = proc[p]
    BY <2>1 DEF IInv, Planned
  <2>2. CASE Resting(proc'[p])
    BY <2>2 DEF Resting, Saves
  <2>. QED
    BY <2>1, <2>2
<1>7. Drafted'
  <2> SUFFICES ASSUME NEW p \in Procs
               PROVE  /\ proc'[p].stage \in {"ready", "load", "save"} => proc'[p].written = 0
                      /\ proc'[p].stage = "write" => proc'[p].written \in {0, Half(p)'}
                      /\ proc'[p].stage = "rename" => proc'[p].written = Len(Saving(p)') + 1
                      /\ model.bf16 /\ proc'[p].fd = "tmp" /\ Saving(p)' \notin raced
                         => tmp[Saving(p)'] = SubSeq(Whole(Saving(p)'), 1, proc'[p].written)
    BY ModelStays DEF Drafted
  <2>1. CASE proc'[p] = proc[p]
    <3>1. Saving(p)' = Saving(p) /\ Half(p)' = Half(p)
      BY <2>1 DEF Saving, Half
    <3>. QED
      BY <2>1, <3>1 DEF IInv, Drafted
  <2>2. CASE Resting(proc'[p])
    BY <2>2 DEF Resting
  <2>. QED
    BY <2>1, <2>2
<1>8. Published'
  BY ModelStays DEF IInv, Published
<1>9. Computed'
  <2> SUFFICES ASSUME model.bf16, model.recurrent = "none",
                      NEW p \in Procs, proc'[p].stage \in Saves, proc'[p].hit \notin raced
               PROVE  proc'[p].kv = Feed(model, Empty, proc'[p].tokens, TRUE)
    BY DEF Computed
  <2>1. CASE proc'[p] = proc[p]
    BY <2>1 DEF IInv, Computed
  <2>2. CASE Resting(proc'[p])
    <3>1. proc'[p].stage = "save"
      BY <2>2 DEF Resting, Saves
    <3>. QED
      BY <2>2, <3>1 DEF Resting
  <2>. QED
    BY <2>1, <2>2
<1>. QED
  BY <1>2, <1>4, <1>5, <1>6, <1>7, <1>8, <1>9 DEF IInv

\* The end of a save leaves the prefill at rest.
LEMMA SavedRests ==
    ASSUME IInv, NEW p \in Procs, proc[p].stage \in Saves, proc[p].todo # <<>>
    PROVE  Resting(Saved(p))
<1> DEFINE r == proc[p]
           s == Saved(p)
<1>1. r \in Prefills
  BY DEF IInv, TypeOK
<1>2. /\ s.stage = "save" /\ s.tokens = r.tokens /\ s.hit = r.hit /\ s.kv = r.kv
      /\ s.todo = Tail(r.todo) /\ s.fd = "none" /\ s.written = 0
  BY <1>1 DEF Saved, Prefills
<1>3. r.todo \in Seq(Names)
  BY <1>1 DEF Prefills
<1>4. Tail(r.todo) \in Seq(Names) /\ Len(Tail(r.todo)) = Len(r.todo) - 1
      /\ \A i \in 1 .. Len(Tail(r.todo)) : Tail(r.todo)[i] = r.todo[i + 1]
  BY <1>3, HeadTailProperties
<1>5. s \in Prefills
  <2>1. Saved(p) = [proc[p] EXCEPT !.stage = "save", !.todo = Tail(proc[p].todo), !.fd = "none", !.written = 0]
    BY DEF Saved
  <2>. QED
    <3>1. s = [stage |-> "save", tokens |-> r.tokens, hit |-> r.hit, kv |-> r.kv,
               todo |-> Tail(r.todo), fd |-> "none", written |-> 0]
      BY <1>1, <2>1 DEF Prefills
    <3>2. r.tokens \in Seq(Nat \ {0}) /\ r.hit \in Seq(Nat \ {0}) /\ r.kv \in Caches
      BY <1>1 DEF Prefills
    <3> HIDE DEF r, s
    <3>. QED
      BY <1>4, <3>1, <3>2 DEF Prefills
<1>6. \A i \in 1 .. Len(s.todo) : Cut(s.todo[i], s.tokens)
  <2> SUFFICES ASSUME NEW i \in 1 .. Len(Tail(r.todo)) PROVE Cut(Tail(r.todo)[i], r.tokens)
    BY <1>2
  <2>1. i + 1 \in 1 .. Len(r.todo)
    BY <1>3, <1>4
  <2>2. \A j \in 1 .. Len(r.todo) : Cut(r.todo[j], r.tokens)
    BY DEF IInv, Planned
  <2>. QED
    BY <1>4, <2>1, <2>2
<1>7. /\ r.tokens # <<>> /\ r.kv = Prefilled(r.tokens)
      /\ r.hit # NoName => Cut(r.hit, r.tokens)
  BY DEF IInv, Planned, Saves
<1>8. model.bf16 /\ model.recurrent = "none" /\ s.hit \notin raced =>
          s.kv = Feed(model, Empty, s.tokens, TRUE)
  BY <1>2 DEF IInv, Computed
<1> HIDE DEF s, r
<1>9. Resting(s)
  BY <1>2, <1>5, <1>6, <1>7, <1>8 DEF Resting
<1>. QED
  BY <1>9 DEF s

\* A cut of a prompt is a name.
LEMMA CutName ==
    ASSUME NEW tokens \in Seq(Nat \ {0}), NEW name, Cut(name, tokens)
    PROVE  name \in Names
<1>1. PICK k \in 1 .. Len(tokens) : name = SubSeq(tokens, 1, k)
  BY DEF Cut
<1>2. k \in Nat /\ k <= Len(tokens) /\ k # 0
  OBVIOUS
<1>3. name \in Seq(Nat \ {0}) /\ Len(name) = k
  BY <1>1, <1>2, PrefixFacts
<1>. QED
  BY <1>2, <1>3, EmptySeq DEF Names

\* What is to be saved of a prompt.
LEMMA PlanFacts ==
    ASSUME NEW tokens \in Seq(Nat \ {0})
    PROVE  /\ ToSave(tokens) \in Seq(Names)
           /\ \A i \in 1 .. Len(ToSave(tokens)) : Cut(ToSave(tokens)[i], tokens)
<1> DEFINE N == {n \in Names : Cut(n, tokens)}
           L == Len(tokens)
           save_len == (L \div CheckpointInterval) * CheckpointInterval
<1>1. L \in Nat /\ SystemLen \in Nat /\ MinPrefixLen \in Nat \ {0} /\ CheckpointInterval \in Nat \ {0}
  BY PrefixAssumption
<1>2. ASSUME NEW k \in 1 .. L PROVE SubSeq(tokens, 1, k) \in N
  BY CutName DEF Cut
<1>3. System(tokens) \in Seq(N)
  <2>1. CASE 0 < SystemLen /\ SystemLen < L
    <3>1. SystemLen \in 1 .. L
      BY <1>1, <2>1
    <3>2. SubSeq(tokens, 1, SystemLen) \in N
      BY <1>2, <3>1
    <3> HIDE DEF N
    <3>. QED
      BY <2>1, <3>2 DEF System
  <2>2. CASE ~(0 < SystemLen /\ SystemLen < L)
    BY <2>2 DEF System
  <2>. QED
    BY <2>1, <2>2
<1>4. Checkpoint(tokens) \in Seq(N)
  <2>1. CASE save_len < MinPrefixLen
    BY <2>1 DEF Checkpoint
  <2>2. CASE ~(save_len < MinPrefixLen)
    <3>1. L \div CheckpointInterval \in Nat /\ save_len <= L
      BY <1>1
    <3>2. save_len \in 1 .. L
      <4>1. save_len \in Int
        BY <1>1, <3>1
      <4> HIDE DEF save_len
      <4>. QED
        BY <1>1, <2>2, <3>1, <4>1
    <3>3. SubSeq(tokens, 1, save_len) \in N
      BY <1>2, <3>2
    <3>4. Checkpoint(tokens) = <<SubSeq(tokens, 1, save_len)>>
      BY <2>2 DEF Checkpoint
    <3> HIDE DEF N, save_len
    <3>. QED
      BY <3>3, <3>4
  <2>. QED
    BY <2>1, <2>2
<1> HIDE DEF N
<1>5. ToSave(tokens) \in Seq(N)
  BY <1>3, <1>4 DEF ToSave
<1>6. \A i \in 1 .. Len(ToSave(tokens)) : ToSave(tokens)[i] \in N
  BY <1>5
<1>7. ToSave(tokens) \in Seq(Names)
  BY <1>5 DEF N
<1>. QED
  BY <1>6, <1>7 DEF N

\* Whatever is cut back is a cache.
LEMMA TruncType ==
    ASSUME NEW c \in Caches, NEW n \in Nat
    PROVE  TruncateKv(c, n) \in Caches
<1>1. /\ c.layer \in Seq(Pairs) /\ c.flat \in Seq(Pairs) /\ c.state \in Seq(Spots)
      /\ c.seq_len \in Nat /\ c.text_pos \in Nat
  BY DEF Caches
<1>2. Shorten(c.layer, n) \in Seq(Pairs) /\ Shorten(c.flat, n) \in Seq(Pairs)
  BY <1>1, ShortenFacts
<1>3. Max({0, c.text_pos - (c.seq_len - n)}) \in Nat
  <2> DEFINE a == c.text_pos - (c.seq_len - n)
  <2>1. a \in Int
    BY <1>1
  <2> HIDE DEF a
  <2>2. Max({0, a}) = IF 0 <= a THEN a ELSE 0
    BY <2>1, MaxTwo
  <2>. QED
    BY <2>1, <2>2 DEF a
<1>. QED
  BY <1>2, <1>3 DEF TruncateKv, Caches

\* Whatever is loaded and gone on from is a cache.
LEMMA ResumedType ==
    ASSUME model \in Models, NEW name \in Names, NEW file \in Files, Len(file) > Len(name),
           NEW tokens \in Seq(Nat), tokens # <<>>
    PROVE  Resumed(Loaded(name, file), tokens) \in Caches
<1> DEFINE n == Len(name)
           e == SubSeq(file, 2, n + 1)
           c == Loaded(name, file)
           from == Min({c.seq_len, Len(tokens) - 1})
           rest == SubSeq(tokens, from + 1, Len(tokens))
<1>1. n \in Nat /\ n + 1 <= Len(file)
  BY DEF Names, Files
<1>2. e \in Seq(Pairs)
  <2>1. SubSeq(file, 1 + 1, n + 1) \in Seq(Pairs)
    <3>1. 1 \in Nat /\ n + 1 \in Nat /\ 1 <= n + 1 /\ file \in Seq(Pairs)
      BY <1>1 DEF Files
    <3>. QED
      BY <1>1, <3>1, NextPiece
  <2>. QED
    BY <2>1
<1> HIDE DEF e
<1>3. c \in Caches /\ c.seq_len = n
  <2>1. c = [layer |-> IF model.bf16 THEN e ELSE <<>>, flat |-> e, state |-> <<>>, seq_len |-> n,
             text_pos |-> IF model.mrope THEN n ELSE 0]
    <3>1. c = [Empty EXCEPT !.flat = e, !.layer = IF model.bf16 THEN e ELSE <<>>, !.seq_len = n,
                            !.text_pos = IF model.mrope THEN n ELSE 0]
      BY DEF Loaded, e
    <3> DEFINE b == IF model.bf16 THEN e ELSE <<>>
               m == IF model.mrope THEN n ELSE 0
    <3>2. c = [Empty EXCEPT !.flat = e, !.layer = b, !.seq_len = n, !.text_pos = m]
      BY <3>1
    <3> HIDE DEF b, m, n, c
    <3>3. c = [layer |-> b, flat |-> e, state |-> <<>>, seq_len |-> n, text_pos |-> m]
      BY <3>2 DEF Empty
    <3>. QED
      BY <3>3 DEF b, m
  <2> HIDE DEF c
  <2>2. <<>> \in Seq(Pairs) /\ <<>> \in Seq(Nat) /\ 0 \in Nat
    BY EmptySeq
  <2>3. (IF model.bf16 THEN e ELSE <<>>) \in Seq(Pairs) /\ (IF model.mrope THEN n ELSE 0) \in Nat
    BY <1>1, <1>2, <2>2
  <2>. QED
    BY <1>1, <1>2, <2>1, <2>2, <2>3 DEF Caches
<1> HIDE DEF c, n
<1>4. from \in Nat /\ from <= Len(tokens)
  <2> DEFINE m == Len(tokens) - 1
  <2>1. m \in Nat /\ n \in Int /\ m <= Len(tokens)
    BY <1>1, EmptySeq
  <2>2. Min({n, m}) = IF n <= m THEN n ELSE m
    BY <2>1, MinTwo
  <2>. QED
    BY <1>1, <1>3, <2>1, <2>2
<1> HIDE DEF from
<1>5. rest \in Seq(Nat)
  <2>1. Len(tokens) \in Nat
    OBVIOUS
  <2>. QED
    BY <1>4, <2>1, NextPiece
<1>6. Resumed(c, tokens) = Feed(model, TruncateKv(c, from), rest, TRUE)
  BY DEF Resumed, from
<1> HIDE DEF rest
<1>7. TruncateKv(c, from) \in Caches
  BY <1>3, <1>4, TruncType
<1>8. Feed(model, TruncateKv(c, from), rest, TRUE) \in Caches
  BY <1>5, <1>7, FeedFacts
<1>. QED
  BY <1>6, <1>8 DEF c

\* The prefill p goes on to r, and the others stay.
LEMMA OneRests ==
    ASSUME IInv, UNCHANGED <<model, concurrent, dir, tmp, raced>>, NEW p \in Procs, NEW r,
           proc' = [proc EXCEPT ![p] = r], Resting(r)
    PROVE  IInv'
<1>1. proc \in [Procs -> Prefills]
  BY DEF IInv, TypeOK
<1>2. /\ DOMAIN proc' = Procs /\ proc' = [q \in Procs |-> proc'[q]]
      /\ \A q \in Procs : proc'[q] = IF q = p THEN r ELSE proc[q]
  BY <1>1
<1>3. \A q \in Procs : proc'[q] = proc[q] \/ Resting(proc'[q])
  BY <1>2
<1>. QED
  BY <1>2, <1>3, NoFileStep

\* A hit is a name that a file has, and a prefix of the prompt.
LEMMA LookupStep ==
    ASSUME IInv, NEW p \in Procs, Lookup(p)
    PROVE  IInv'
<1> DEFINE index == IndexOf(p)
           Matches(t) == {i \in DOMAIN index : Len(t) >= MinPrefixLen /\ IsPrefix(index[i].name, t)}
           Found(t) == {i \in Matches(t) : Exists(dir, index[i].name)}
           Tried(t) == {i \in Matches(t) : \A j \in Found(t) : i <= j}
           Hits(t) == IF Found(t) = {} THEN {NoName} ELSE {index[i].name : i \in Found(t) \cap Tried(t)}
           Went(t, hit) == proc' = [proc EXCEPT ![p].tokens = t, ![p].stage = "load", ![p].hit = hit]
<1>1. \E t \in Prompts : \E hit \in Hits(t) : Went(t, hit)
  BY Zenon DEF Lookup
<1>2. \A t : \A hit \in Hits(t) : hit = NoName \/ (hit \in DOMAIN dir /\ IsPrefix(hit, t))
  BY DEF Exists
<1> HIDE DEF Hits, index, Matches, Found, Tried
<1>3. PICK tokens \in Prompts : \E hit \in Hits(tokens) : Went(tokens, hit)
  BY <1>1
<1>4. PICK hit \in Hits(tokens) : Went(tokens, hit)
  BY <1>3
<1>5. /\ hit = NoName \/ (hit \in DOMAIN dir /\ IsPrefix(hit, tokens))
      /\ proc' = [proc EXCEPT ![p].tokens = tokens, ![p].stage = "load", ![p].hit = hit]
  BY <1>2, <1>4
<1>6. proc \in [Procs -> Prefills] /\ proc[p].stage = "ready"
  BY DEF IInv, TypeOK, Lookup
<1>7. proc[p].fd = "none" /\ proc[p].written = 0
  BY <1>6 DEF IInv, Opened, Drafted, TypeOK, Prefills
<1> DEFINE r == [proc[p] EXCEPT !.tokens = tokens, !.stage = "load", !.hit = hit]
<1>8. proc' = [proc EXCEPT ![p] = r]
  BY <1>5
<1>9. tokens \in Seq(Nat \ {0}) /\ tokens # <<>>
  BY PrefixAssumption
<1>10. hit # NoName => Cut(hit, tokens)
  <2> SUFFICES ASSUME hit # NoName PROVE Cut(hit, tokens)
    OBVIOUS
  <2>1. hit \in Names /\ IsPrefix(hit, tokens)
    BY <1>5 DEF IInv, TypeOK
  <2>2. hit \in Seq(Nat \ {0}) /\ Len(hit) \in 1 .. Len(tokens)
    BY <1>9, <2>1, EmptySeq DEF Names, IsPrefix
  <2>3. hit = SubSeq(tokens, 1, Len(hit))
    BY <2>1, <2>2, SubSeqFull DEF IsPrefix
  <2>. QED
    BY <2>2, <2>3 DEF Cut
<1>11. hit \in Seq(Nat \ {0})
  BY <1>5, EmptySeq DEF IInv, TypeOK, Names, NoName
<1>12. r \in Prefills /\ r.stage = "load" /\ r.fd = "none" /\ r.written = 0 /\ r.tokens = tokens /\ r.hit = hit
  BY <1>6, <1>7, <1>9, <1>11 DEF Prefills
<1> HIDE DEF r
<1>13. Resting(r)
  BY <1>9, <1>10, <1>12 DEF Resting
<1>. QED
  BY <1>8, <1>13, OneRests DEF Lookup

\* A prefill, from what was loaded or from nothing.
LEMMA LoadStep ==
    ASSUME IInv, NEW p \in Procs, LoadAndPrefill(p)
    PROVE  IInv'
<1> DEFINE tokens == proc[p].tokens
           name == proc[p].hit
           hit == name # NoName /\ Exists(dir, name) /\ Loads(name, dir[name])
           kv == IF hit THEN Resumed(Loaded(name, dir[name]), tokens) ELSE Prefilled(tokens)
           todo == IF hit THEN <<>> ELSE ToSave(tokens)
           r == [proc[p] EXCEPT !.stage = "save", !.kv = kv, !.todo = todo]
<1>1. proc[p].stage = "load"
  BY DEF LoadAndPrefill
<1>2. /\ proc[p].stage = "load" /\ proc' = [proc EXCEPT ![p] = r]
      /\ UNCHANGED <<model, concurrent, dir, tmp, raced>>
  BY DEF LoadAndPrefill
<1>3. model \in Models /\ proc \in [Procs -> Prefills] /\ proc[p] \in Prefills
  BY DEF IInv, TypeOK
<1>4. proc[p].fd = "none" /\ proc[p].written = 0
  BY <1>2, <1>3 DEF IInv, Opened, Drafted, Prefills
<1>5. /\ tokens \in Seq(Nat \ {0}) /\ tokens \in Seq(Nat) /\ tokens # <<>>
      /\ name # NoName => Cut(name, tokens)
  <2>1. proc[p].tokens \in Seq(Nat \ {0})
    BY <1>3 DEF Prefills
  <2>2. proc[p].tokens \in Seq(Nat)
    BY <2>1
  <2>3. proc[p].tokens # <<>> /\ (proc[p].hit # NoName => Cut(proc[p].hit, proc[p].tokens))
    BY <1>1 DEF IInv, Planned
  <2>. QED
    BY <2>1, <2>2, <2>3
<1>6. Computes(model, Prefilled(tokens), tokens)
  BY <1>3, <1>5, PrefilledComputes
<1>7. kv \in Caches
  <2>1. CASE hit
    <3>1. name \in Names /\ dir[name] \in Files /\ Len(dir[name]) > Len(name)
      BY <1>5, <2>1, CutName DEF IInv, TypeOK, Exists, Loads
    <3>. QED
      BY <1>3, <1>5, <2>1, <3>1, ResumedType
  <2>2. CASE ~hit
    BY <1>6, <2>2 DEF Computes
  <2>. QED
    BY <2>1, <2>2
<1>8. todo \in Seq(Names) /\ \A i \in 1 .. Len(todo) : Cut(todo[i], tokens)
  <2>1. CASE hit
    BY <2>1, EmptySeq
  <2>2. CASE ~hit
    BY <1>5, <2>2, PlanFacts
  <2>. QED
    BY <2>1, <2>2
<1>9. todo # <<>> => kv = Prefilled(tokens)
  OBVIOUS
<1>10. ASSUME model.bf16, model.recurrent = "none", name \notin raced
      PROVE  kv = Feed(model, Empty, tokens, TRUE)
  <2>1. CASE hit
    <3>1. dir[name] = Whole(name)
      BY <1>10, <2>1 DEF IInv, Published, Exists
    <3>2. Resumed(Loaded(name, Whole(name)), tokens) = Feed(model, Empty, tokens, TRUE)
      BY <1>3, <1>5, <1>10, <2>1, ResumedSame
    <3>. QED
      BY <2>1, <3>1, <3>2
  <2>2. CASE ~hit
    <3>1. Prefilled(tokens) = Feed(model, Empty, tokens, TRUE)
      BY <1>3, <1>5, <1>10, PrefilledSame
    <3>. QED
      BY <2>2, <3>1
  <2>. QED
    BY <2>1, <2>2
<1> HIDE DEF kv, todo, hit
<1>11. /\ r \in Prefills /\ r.stage = "save" /\ r.fd = "none" /\ r.written = 0
       /\ r.tokens = tokens /\ r.hit = name /\ r.kv = kv /\ r.todo = todo
  BY <1>3, <1>4, <1>7, <1>8 DEF Prefills
<1> HIDE DEF r
<1>12. Resting(r)
  BY <1>5, <1>8, <1>9, <1>10, <1>11 DEF Resting
<1>. QED
  BY <1>2, <1>12, OneRests

\* The end of a prefill, when all was saved.
LEMMA DoneStep ==
    ASSUME IInv, NEW p \in Procs, PrefillDone(p)
    PROVE  IInv'
<1> DEFINE r == [proc[p] EXCEPT !.stage = "ready", !.kv = Empty, !.tokens = <<>>, !.hit = NoName]
<1>1. /\ proc[p].stage = "save" /\ proc' = [proc EXCEPT ![p] = r]
      /\ UNCHANGED <<model, concurrent, dir, tmp, raced>>
  BY DEF PrefillDone
<1>2. model \in Models /\ proc[p] \in Prefills
  BY DEF IInv, TypeOK
<1>3. proc[p].fd = "none" /\ proc[p].written = 0
  BY <1>1, <1>2 DEF IInv, Opened, Drafted, Prefills
<1>4. Empty \in Caches /\ <<>> \in Seq(Nat \ {0}) /\ NoName \in Seq(Nat \ {0})
  BY <1>2, EmptyComputes, EmptySeq DEF Computes, NoName
<1>5. r \in Prefills /\ r.stage = "ready" /\ r.fd = "none" /\ r.written = 0
  BY <1>2, <1>3, <1>4 DEF Prefills
<1> HIDE DEF r
<1>6. Resting(r)
  BY <1>5 DEF Resting
<1>. QED
  BY <1>1, <1>6, OneRests

\* A save that ends before anything is published.
LEMMA SavedStep ==
    ASSUME IInv, NEW p \in Procs, Skip(p) \/ SaveFails(p)
    PROVE  IInv'
<1>1. /\ MaySave(p) \/ proc[p].stage \in {"write", "rename", "stat"}
      /\ proc' = [proc EXCEPT ![p] = Saved(p)]
      /\ UNCHANGED <<model, concurrent, dir, tmp, raced>>
  BY DEF Skip, SaveFails
<1>2. proc[p].stage \in Saves /\ proc[p].todo # <<>>
  BY <1>1 DEF MaySave, Saves, IInv, Opened
<1>3. Resting(Saved(p))
  BY <1>2, SavedRests
<1>. QED
  BY <1>1, <1>3, OneRests

\* A crash leaves the files as they are, and forgets the prefills.
LEMMA CrashStep ==
    ASSUME IInv, NEW c, Crash(c)
    PROVE  IInv'
<1>1. Empty \in Caches /\ <<>> \in Seq(Nat \ {0}) /\ <<>> \in Seq(Names) /\ NoName = <<>>
  BY EmptyComputes, EmptySeq DEF IInv, TypeOK, Computes, NoName
<1>2. Idle \in Prefills
  BY <1>1 DEF Idle, Prefills
<1>3. Resting(Idle)
  BY <1>2 DEF Resting, Idle
<1>4. /\ proc' = [p \in Procs |-> IF Owner(p) = c THEN Idle ELSE proc[p]]
      /\ UNCHANGED <<model, concurrent, dir, tmp, raced>>
  BY DEF Crash
<1>5. DOMAIN proc' = Procs /\ proc' = [p \in Procs |-> proc'[p]]
  BY <1>4
<1>6. \A p \in Procs : proc'[p] = proc[p] \/ Resting(proc'[p])
  <2> SUFFICES ASSUME NEW p \in Procs PROVE proc'[p] = proc[p] \/ proc'[p] = Idle
    BY <1>3
  <2>. QED
    BY <1>4
<1>. QED
  BY <1>4, <1>5, <1>6, NoFileStep

\* A step that no prefill and no file takes part in.
LEMMA QuietStep ==
    ASSUME IInv, UNCHANGED <<model, concurrent, dir, tmp, raced, proc>>
    PROVE  IInv'
<1>1. proc \in [Procs -> Prefills]
  BY DEF IInv, TypeOK
<1>2. /\ DOMAIN proc' = Procs /\ proc' = [p \in Procs |-> proc'[p]]
      /\ \A p \in Procs : proc'[p] = proc[p]
  BY <1>1
<1>. QED
  BY <1>2, NoFileStep

\* A step of a save changes neither what is planned nor what was computed.
LEMMA PlanKept ==
    ASSUME IInv, model' = model, raced \subseteq raced',
           \A q \in Procs :
               \/ /\ proc'[q].tokens = proc[q].tokens /\ proc'[q].hit = proc[q].hit
                  /\ proc'[q].kv = proc[q].kv /\ proc'[q].todo = proc[q].todo
                  /\ \/ proc'[q].stage = proc[q].stage
                     \/ proc'[q].stage \in Saves /\ proc[q].stage \in Saves
               \/ Resting(proc'[q])
    PROVE  Planned' /\ Computed'
<1> DEFINE Same(q) == /\ proc'[q].tokens = proc[q].tokens /\ proc'[q].hit = proc[q].hit
                      /\ proc'[q].kv = proc[q].kv /\ proc'[q].todo = proc[q].todo
                      /\ \/ proc'[q].stage = proc[q].stage
                         \/ proc'[q].stage \in Saves /\ proc[q].stage \in Saves
<1>1. Planned'
  <2> SUFFICES ASSUME NEW p \in Procs
               PROVE  /\ proc'[p].stage # "ready" => proc'[p].tokens # <<>>
                      /\ proc'[p].stage # "ready" /\ proc'[p].hit # NoName => Cut(proc'[p].hit, proc'[p].tokens)
                      /\ proc'[p].stage \in Saves =>
                             \A i \in 1 .. Len(proc'[p].todo) : Cut(proc'[p].todo[i], proc'[p].tokens)
                      /\ proc'[p].stage \in Saves /\ proc'[p].todo # <<>> =>
                             proc'[p].kv = Prefilled(proc'[p].tokens)
    BY ModelStays DEF Planned
  <2>1. CASE Same(p)
    <3>1. /\ proc'[p].stage # "ready" => proc[p].stage # "ready"
          /\ proc'[p].stage \in Saves => proc[p].stage \in Saves
      BY <2>1 DEF Saves
    <3>. QED
      BY <2>1, <3>1 DEF IInv, Planned
  <2>2. CASE Resting(proc'[p])
    BY <2>2 DEF Resting, Saves
  <2>. QED
    BY <2>1, <2>2
<1>2. Computed'
  <2> SUFFICES ASSUME model.bf16, model.recurrent = "none", NEW p \in Procs,
                      proc'[p].stage \in Saves, proc'[p].hit \notin raced'
               PROVE  proc'[p].kv = Feed(model, Empty, proc'[p].tokens, TRUE)
    BY DEF Computed
  <2>1. CASE Same(p)
    <3>1. proc[p].stage \in Saves /\ proc[p].hit \notin raced
      BY <2>1
    <3>. QED
      BY <2>1, <3>1 DEF IInv, Computed
  <2>2. CASE Resting(proc'[p])
    BY <2>2 DEF Resting, Saves
  <2>. QED
    BY <2>1, <2>2
<1>. QED
  BY <1>1, <1>2

\* What is saved: a prefix of the prompt, as long as its name.
LEMMA SavingFacts ==
    ASSUME IInv, NEW p \in Procs, proc[p].stage \in Saves, proc[p].todo # <<>>
    PROVE  /\ Saving(p) \in Names /\ Len(Saving(p)) \in Nat \ {0}
           /\ Contents(p) \in Files /\ Len(Contents(p)) = Len(Saving(p)) + 1
           /\ model.bf16 => Contents(p) = Whole(Saving(p))
<1> DEFINE name == Saving(p)
           n == Len(name)
           tokens == proc[p].tokens
           flat == proc[p].kv.flat
           body == IF Len(flat) >= n THEN SubSeq(flat, 1, n) ELSE [i \in 1 .. n |-> Zeros]
<1>1. model \in Models /\ proc[p] \in Prefills
  BY DEF IInv, TypeOK
<1>2. proc[p].todo \in Seq(Names)
  BY <1>1 DEF Prefills
<1>3. 1 \in 1 .. Len(proc[p].todo) /\ name = proc[p].todo[1] /\ name \in Names
  BY <1>2, EmptySeq DEF Saving
<1>4. Cut(name, tokens) /\ tokens # <<>> /\ proc[p].kv = Prefilled(tokens)
  <2>1. proc[p].stage # "ready"
    BY DEF Saves
  <2>. QED
    BY <1>3, <2>1 DEF IInv, Planned
<1>5. tokens \in Seq(Nat)
  <2>1. tokens \in Seq(Nat \ {0})
    BY <1>1 DEF Prefills
  <2>. QED
    BY <2>1
<1>6. n \in Nat \ {0} /\ name \in Seq(Nat) /\ name # <<>>
  <2>1. name \in Seq(Nat \ {0}) /\ name # <<>>
    BY <1>3 DEF Names
  <2> HIDE DEF name
  <2>. QED
    BY <2>1, EmptySeq
<1>7. flat \in Seq(Pairs)
  BY <1>1 DEF Prefills, Caches
<1>8. body \in Seq(Pairs) /\ Len(body) = n
  <2>1. CASE Len(flat) >= n
    <3>1. n \in Nat /\ n <= Len(flat)
      BY <1>6, <1>7, <2>1
    <3> HIDE DEF n, flat
    <3>. QED
      BY <1>7, <2>1, <3>1, PrefixFacts
  <2>2. CASE ~(Len(flat) >= n)
    <3>1. Zeros \in Pairs
      BY DEF Zeros, Pairs
    <3> HIDE DEF n, flat
    <3>. QED
      BY <1>6, <2>2, <3>1
  <2>. QED
    BY <2>1, <2>2
<1>9. ASSUME model.bf16 PROVE body = Prefilled(name).flat
  <2>1. PICK k \in 1 .. Len(tokens) : name = SubSeq(tokens, 1, k)
    BY <1>4 DEF Cut
  <2>2. n = k
    <3>1. k \in Nat /\ k <= Len(tokens)
      OBVIOUS
    <3>. QED
      BY <1>5, <2>1, <3>1, PrefixFacts
  <2>3. Len(flat) = Len(tokens) /\ SubSeq(flat, 1, k) = Prefilled(name).flat
    BY <1>1, <1>4, <1>5, <1>9, <2>1, FlatOfPrefix
  <2>4. Len(flat) >= n
    BY <2>2, <2>3
  <2>. QED
    BY <2>2, <2>3, <2>4
<1>10. Contents(p) = <<Header>> \o body
  BY DEF Contents
<1> HIDE DEF body, flat, n, name
<1>11. <<Header>> \in Seq(Pairs) /\ Len(<<Header>>) = 1
  BY DEF Header, Pairs
<1>12. Contents(p) \in Files /\ Len(Contents(p)) = n + 1
  <2> DEFINE h == <<Header>>
  <2>1. h \in Seq(Pairs) /\ Len(h) = 1
    BY <1>11
  <2> HIDE DEF h
  <2>2. h \o body \in Seq(Pairs) /\ Len(h \o body) = Len(h) + Len(body)
    BY <1>8, <2>1, ConcatProperties
  <2>. QED
    BY <1>6, <1>8, <1>10, <2>1, <2>2 DEF h, Files
<1>13. model.bf16 => Contents(p) = Whole(name)
  BY <1>9, <1>10 DEF Whole
<1>. QED
  BY <1>3, <1>6, <1>12, <1>13 DEF name, n

\* A write leaves a file of entries.
LEMMA WriteType ==
    ASSUME NEW file \in Files, NEW from \in Nat, NEW part \in Files
    PROVE  WriteAt(file, from, part) \in Files
<1> DEFINE a == Len(file)
           b == from + Len(part)
           m == Max({a, b})
<1>1. a \in Nat /\ b \in Nat /\ Len(part) \in Nat
  BY DEF Files
<1>2. m \in Nat
  <2> HIDE DEF a, b
  <2>1. m = IF a <= b THEN b ELSE a
    BY <1>1, MaxTwo
  <2>. QED
    BY <1>1, <2>1
<1>3. Zeros \in Pairs
  BY DEF Zeros, Pairs
<1>4. ASSUME NEW i \in 1 .. m
      PROVE  (CASE i \in from + 1 .. from + Len(part) -> part[i - from]
                [] i <= Len(file) -> file[i]
                [] OTHER -> Zeros) \in Pairs
  <2>1. i \in from + 1 .. from + Len(part) => part[i - from] \in Pairs
    BY <1>1 DEF Files
  <2>2. i <= Len(file) => file[i] \in Pairs
    BY <1>1, <1>2 DEF Files
  <2>. QED
    BY <1>3, <2>1, <2>2
<1>5. WriteAt(file, from, part) =
        [i \in 1 .. m |-> CASE i \in from + 1 .. from + Len(part) -> part[i - from]
                            [] i <= Len(file) -> file[i]
                            [] OTHER -> Zeros]
  BY DEF WriteAt
<1> DEFINE E(i) == CASE i \in from + 1 .. from + Len(part) -> part[i - from]
                     [] i <= Len(file) -> file[i]
                     [] OTHER -> Zeros
<1>6. WriteAt(file, from, part) = [i \in 1 .. m |-> E(i)] /\ \A i \in 1 .. m : E(i) \in Pairs
  BY <1>4, <1>5
<1> HIDE DEF m, E
<1>. QED
  BY <1>2, <1>6 DEF Files

\* After what was written of a file, what comes next.
LEMMA WriteNext ==
    ASSUME NEW W \in Files, NEW from \in Nat, NEW upto \in Nat, from <= upto, upto <= Len(W)
    PROVE  WriteAt(SubSeq(W, 1, from), from, SubSeq(W, from + 1, upto)) = SubSeq(W, 1, upto)
<1> DEFINE u == SubSeq(W, 1, from)
           v == SubSeq(W, from + 1, upto)
           w == SubSeq(W, 1, upto)
<1>1. W \in Seq(Pairs) /\ from <= Len(W)
  BY DEF Files
<1>2. u \in Seq(Pairs) /\ Len(u) = from /\ \A i \in 1 .. from : u[i] = W[i]
  BY <1>1, PrefixFacts
<1>3. v \in Seq(Pairs) /\ Len(v) = upto - from /\ \A i \in 1 .. upto - from : v[i] = W[from + i]
  BY <1>1, NextPiece
<1>4. w \in Seq(Pairs) /\ Len(w) = upto /\ \A i \in 1 .. upto : w[i] = W[i]
  BY <1>1, PrefixFacts
<1> HIDE DEF u, v, w
<1>5. Max({Len(u), from + Len(v)}) = upto
  <2>1. Len(u) = from /\ from + Len(v) = upto /\ upto \in Int /\ from \in Int
    BY <1>2, <1>3
  <2>2. Max({from, upto}) = IF from <= upto THEN upto ELSE from
    BY MaxTwo
  <2>. QED
    BY <2>1, <2>2
<1>6. ASSUME NEW i \in 1 .. upto
      PROVE  (CASE i \in from + 1 .. from + Len(v) -> v[i - from]
                [] i <= Len(u) -> u[i]
                [] OTHER -> Zeros) = w[i]
  <2>1. CASE i \in from + 1 .. from + Len(v)
    <3> DEFINE j == i - from
    <3>1. j \in 1 .. upto - from /\ from + j = i /\ ~(i <= Len(u))
      BY <1>2, <1>3, <2>1
    <3> HIDE DEF j
    <3>2. v[j] = W[from + j] /\ w[i] = W[i]
      BY <1>3, <1>4, <3>1
    <3>3. v[j] = w[i]
      BY <3>1, <3>2
    <3>. QED
      BY <2>1, <3>1, <3>3 DEF j
  <2>2. CASE ~(i \in from + 1 .. from + Len(v))
    <3>1. i \in 1 .. from /\ i <= Len(u)
      BY <1>2, <1>3, <2>2
    <3>2. u[i] = w[i]
      BY <1>2, <1>4, <3>1
    <3>. QED
      BY <2>2, <3>1, <3>2
  <2>. QED
    BY <2>1, <2>2
<1>7. WriteAt(u, from, v) =
        [i \in 1 .. upto |-> CASE i \in from + 1 .. from + Len(v) -> v[i - from]
                               [] i <= Len(u) -> u[i]
                               [] OTHER -> Zeros]
  BY <1>5 DEF WriteAt
<1> DEFINE x == WriteAt(u, from, v)
<1>8. /\ x = [i \in 1 .. upto |-> x[i]] /\ \A i \in 1 .. upto : x[i] = w[i]
  BY <1>6, <1>7
<1>9. w = [i \in 1 .. upto |-> w[i]]
  BY <1>4
<1> HIDE DEF x
<1>10. x = w
  BY <1>8, <1>9
<1>. QED
  BY <1>10 DEF u, v, w, x

\* The temporary file of a name that is saved by another prefill too is raced.
LEMMA CreateStep ==
    ASSUME IInv, NEW p \in Procs, Create(p)
    PROVE  IInv'
<1> DEFINE name == Saving(p)
<1>1. /\ proc[p].stage = "save" /\ proc[p].todo # <<>>
      /\ tmp' = Put(tmp, name, <<>>)
      /\ proc' = [proc EXCEPT ![p].stage = "write", ![p].fd = "tmp"]
      /\ raced' = IF \E q \in Procs \ {p} : proc[q].fd = "tmp" /\ Saving(q) = name
                  THEN raced \cup {name} ELSE raced
      /\ UNCHANGED <<model, concurrent, dir>>
  BY DEF Create, MaySave
<1>2. model \in Models /\ proc \in [Procs -> Prefills] /\ proc[p] \in Prefills
  BY DEF IInv, TypeOK
<1>3. proc' \in [Procs -> Prefills] /\ \A q \in Procs \ {p} : proc'[q] = proc[q]
  BY <1>1, <1>2 DEF Prefills
<1>4. /\ proc'[p].stage = "write" /\ proc'[p].fd = "tmp" /\ proc'[p].written = 0
      /\ proc'[p].tokens = proc[p].tokens /\ proc'[p].hit = proc[p].hit
      /\ proc'[p].kv = proc[p].kv /\ proc'[p].todo = proc[p].todo
  <2>1. proc[p].written = 0
    BY <1>1 DEF IInv, Drafted
  <2>. QED
    BY <1>1, <1>2, <2>1 DEF Prefills
<1>5. \A q \in Procs : Saving(q)' = Saving(q)
  BY <1>3, <1>4 DEF Saving
<1>6. name \in Names
  BY <1>1, SavingFacts DEF Saves
<1> HIDE DEF name
<1>7. /\ DOMAIN tmp' = DOMAIN tmp \cup {name} /\ tmp'[name] = <<>>
      /\ \A n \in DOMAIN tmp : n # name => tmp'[n] = tmp[n]
  BY <1>1 DEF Put
<1>8. raced \subseteq raced'
  BY <1>1
<1>9. TypeOK'
  <2>1. <<>> \in Files
    BY EmptySeq DEF Files
  <2>. QED
    BY <1>1, <1>3, <1>6, <1>7, <2>1 DEF IInv, TypeOK
<1>10. Opened'
  <2>1. Saving(p)' \in DOMAIN tmp'
    BY <1>5, <1>7 DEF name
  <2>. QED
    BY <1>1, <1>3, <1>4, <1>5, <1>7, <2>1 DEF IInv, Opened
<1>11. Alone'
  <2>1. ASSUME NEW q \in Procs, proc'[q].fd # "none", Saving(q)' \notin raced' PROVE proc'[q].fd = "tmp"
    <3>1. CASE q = p
      BY <1>4, <3>1
    <3>2. CASE q # p
      BY <1>3, <1>5, <1>8, <2>1, <3>2 DEF IInv, Alone
    <3>. QED
      BY <3>1, <3>2
  <2>2. ASSUME NEW q \in Procs, q # p, proc'[q].fd = "tmp", Saving(q)' = name PROVE name \in raced'
    BY <1>1, <1>3, <1>5, <2>2
  <2>3. ASSUME NEW q \in Procs, NEW r \in Procs, q # r, proc'[q].fd = "tmp", proc'[r].fd = "tmp",
               Saving(q)' = Saving(r)'
        PROVE  Saving(q)' \in raced'
    <3>1. CASE q = p \/ r = p
      BY <1>5, <2>2, <2>3, <3>1 DEF name
    <3>2. CASE q # p /\ r # p
      BY <1>3, <1>5, <1>8, <2>3, <3>2 DEF IInv, Alone
    <3>. QED
      BY <3>1, <3>2
  <2>. QED
    BY <2>1, <2>3 DEF Alone
<1>12. Planned' /\ Computed'
  <2>1. \A q \in Procs : /\ proc'[q].tokens = proc[q].tokens /\ proc'[q].hit = proc[q].hit
                         /\ proc'[q].kv = proc[q].kv /\ proc'[q].todo = proc[q].todo
                         /\ \/ proc'[q].stage = proc[q].stage
                            \/ proc'[q].stage \in Saves /\ proc[q].stage \in Saves
    BY <1>1, <1>3, <1>4 DEF Saves
  <2>. QED
    BY <1>1, <1>8, <2>1, PlanKept
<1>13. Drafted'
  <2> SUFFICES ASSUME NEW q \in Procs
               PROVE  /\ proc'[q].stage \in {"ready", "load", "save"} => proc'[q].written = 0
                      /\ proc'[q].stage = "write" => proc'[q].written \in {0, Half(q)'}
                      /\ proc'[q].stage = "rename" => proc'[q].written = Len(Saving(q)') + 1
                      /\ model.bf16 /\ proc'[q].fd = "tmp" /\ Saving(q)' \notin raced'
                         => tmp'[Saving(q)'] = SubSeq(Whole(Saving(q)'), 1, proc'[q].written)
    BY <1>1, ModelStays DEF Drafted
  <2>1. CASE q = p
    <3>1. tmp'[Saving(q)'] = <<>>
      BY <1>5, <1>7, <2>1 DEF name
    <3>2. SubSeq(Whole(Saving(q)'), 1, 0) = <<>>
      BY SubSeqEmpty
    <3>. QED
      BY <1>4, <2>1, <3>1, <3>2
  <2>2. CASE q # p
    <3>1. proc'[q] = proc[q] /\ Saving(q)' = Saving(q) /\ Half(q)' = Half(q)
      BY <1>3, <1>5, <2>2 DEF Half
    <3>2. ASSUME proc[q].fd = "tmp", Saving(q) \notin raced' PROVE tmp'[Saving(q)] = tmp[Saving(q)]
      <4>1. Saving(q) # name
        BY <1>1, <2>2, <3>2
      <4>2. Saving(q) \in DOMAIN tmp
        BY <3>2 DEF IInv, Opened
      <4>. QED
        BY <1>7, <4>1, <4>2
    <3>. QED
      BY <1>8, <3>1, <3>2 DEF IInv, Drafted
  <2>. QED
    BY <2>1, <2>2
<1>14. Published'
  BY <1>1, <1>8, ModelStays DEF IInv, Published
<1>. QED
  BY <1>9, <1>10, <1>11, <1>12, <1>13, <1>14 DEF IInv

\* Where a write begins and ends.
Upto(p) == IF proc[p].written = 0 THEN Half(p) ELSE Len(Saving(p)) + 1

\* It begins where the last one ended, and stays within what is saved.
LEMMA WriteBounds ==
    ASSUME IInv, NEW p \in Procs, proc[p].stage = "write"
    PROVE  /\ Saving(p) \in Names /\ Len(Saving(p)) \in Nat \ {0}
           /\ Contents(p) \in Files /\ Len(Contents(p)) = Len(Saving(p)) + 1
           /\ model.bf16 => Contents(p) = Whole(Saving(p))
           /\ proc[p].written \in {0, Half(p)} /\ Half(p) \in 1 .. Len(Saving(p))
           /\ proc[p].written \in Nat /\ Upto(p) \in Nat
           /\ proc[p].written <= Upto(p) /\ Upto(p) <= Len(Saving(p)) + 1
           /\ Upto(p) \in {Half(p), Len(Saving(p)) + 1}
           /\ SubSeq(Contents(p), proc[p].written + 1, Upto(p)) \in Files
           /\ Len(SubSeq(Contents(p), proc[p].written + 1, Upto(p))) = Upto(p) - proc[p].written
<1> DEFINE name == Saving(p)
           n == Len(name)
           from == proc[p].written
           upto == Upto(p)
<1>1. /\ name \in Names /\ n \in Nat \ {0} /\ Contents(p) \in Files /\ Len(Contents(p)) = n + 1
      /\ model.bf16 => Contents(p) = Whole(name)
  <2>1. proc[p].stage \in Saves /\ proc[p].todo # <<>>
    BY DEF Saves, IInv, Opened
  <2>. QED
    BY <2>1, SavingFacts
<1>2. from \in {0, Half(p)}
  BY DEF IInv, Drafted
<1>3. Half(p) = 1 + n \div 2 /\ n \div 2 \in Nat /\ n \div 2 < n
  BY <1>1 DEF Half
<1>4. Half(p) \in 1 .. n
  BY <1>1, <1>3
<1>5. upto = IF from = 0 THEN Half(p) ELSE n + 1
  BY DEF Upto
<1> HIDE DEF name, n, from, upto
<1>6. /\ from \in Nat /\ upto \in Nat /\ from <= upto /\ upto <= n + 1
      /\ upto \in {Half(p), n + 1}
  BY <1>1, <1>2, <1>4, <1>5
<1>7. /\ SubSeq(Contents(p), from + 1, upto) \in Files
      /\ Len(SubSeq(Contents(p), from + 1, upto)) = upto - from
  <2>1. Contents(p) \in Seq(Pairs) /\ upto <= Len(Contents(p))
    BY <1>1, <1>6 DEF Files
  <2>2. /\ SubSeq(Contents(p), from + 1, upto) \in Seq(Pairs)
        /\ Len(SubSeq(Contents(p), from + 1, upto)) = upto - from
    BY <1>6, <2>1, NextPiece
  <2>. QED
    BY <2>2 DEF Files
<1>. QED
  BY <1>1, <1>2, <1>4, <1>6, <1>7 DEF name, n, from, upto

\* A write extends the temporary file by the next part of what it should hold.
LEMMA WriteStep ==
    ASSUME IInv, NEW p \in Procs, Write(p)
    PROVE  IInv'
<1> DEFINE name == Saving(p)
           n == Len(name)
           from == proc[p].written
           upto == IF from = 0 THEN Half(p) ELSE n + 1
           part == SubSeq(Contents(p), from + 1, upto)
           New(file) == WriteAt(file, from, part)
           stage == IF upto = n + 1 THEN "rename" ELSE "write"
<1>1. /\ proc[p].stage = "write"
      /\ tmp' = IF proc[p].fd = "tmp" THEN [tmp EXCEPT ![name] = New(tmp[name])] ELSE tmp
      /\ dir' = IF proc[p].fd = "dir" THEN [dir EXCEPT ![name] = New(dir[name])] ELSE dir
      /\ proc' = [proc EXCEPT ![p].written = upto, ![p].stage = stage]
      /\ UNCHANGED <<model, concurrent, raced>>
  BY DEF Write
<1>2. model \in Models /\ proc \in [Procs -> Prefills] /\ proc[p] \in Prefills
  BY DEF IInv, TypeOK
<1>3. /\ name \in Names /\ n \in Nat \ {0} /\ Contents(p) \in Files /\ Len(Contents(p)) = n + 1
      /\ model.bf16 => Contents(p) = Whole(name)
  BY <1>1, WriteBounds
<1>4. /\ from \in {0, Half(p)} /\ Half(p) \in 1 .. n
      /\ from \in Nat /\ upto \in Nat /\ from <= upto /\ upto <= n + 1
      /\ upto \in {Half(p), n + 1} /\ stage = IF upto = n + 1 THEN "rename" ELSE "write"
  <2>1. upto = Upto(p)
    BY DEF Upto
  <2>2. /\ from \in {0, Half(p)} /\ Half(p) \in 1 .. n
        /\ from \in Nat /\ Upto(p) \in Nat /\ from <= Upto(p) /\ Upto(p) <= n + 1
        /\ Upto(p) \in {Half(p), n + 1}
    BY <1>1, WriteBounds
  <2>. QED
    BY <2>1, <2>2
<1>5. part \in Files
  <2>1. upto = Upto(p)
    BY DEF Upto
  <2>. QED
    BY <1>1, <2>1, WriteBounds
<1> HIDE DEF New, part, upto, from, stage, n, name
<1>6. \A file \in Files : New(file) \in Files
  BY <1>4, <1>5, WriteType DEF New
<1>7. proc' \in [Procs -> Prefills] /\ \A q \in Procs \ {p} : proc'[q] = proc[q]
  <2>1. stage \in {"write", "rename"}
    BY <1>4
  <2>. QED
    BY <1>1, <1>2, <1>4, <2>1 DEF Prefills
<1>8. /\ proc'[p].stage = stage /\ proc'[p].written = upto /\ proc'[p].fd = proc[p].fd
      /\ proc'[p].tokens = proc[p].tokens /\ proc'[p].hit = proc[p].hit
      /\ proc'[p].kv = proc[p].kv /\ proc'[p].todo = proc[p].todo
  BY <1>1, <1>2 DEF Prefills
<1>9. \A q \in Procs : /\ Saving(q)' = Saving(q) /\ Half(q)' = Half(q) /\ proc'[q].fd = proc[q].fd
                       /\ proc'[q].todo = proc[q].todo
  BY <1>7, <1>8 DEF Saving, Half
<1>10. /\ DOMAIN tmp' = DOMAIN tmp /\ \A m \in DOMAIN tmp : tmp'[m] \in Files
       /\ proc[p].fd = "tmp" /\ name \in DOMAIN tmp => tmp'[name] = New(tmp[name])
       /\ \A m \in DOMAIN tmp : m # name \/ proc[p].fd # "tmp" => tmp'[m] = tmp[m]
  <2>1. \A m \in DOMAIN tmp : tmp[m] \in Files
    BY DEF IInv, TypeOK
  <2>. QED
    BY <1>1, <1>6, <2>1
<1>11. /\ DOMAIN dir' = DOMAIN dir /\ \A m \in DOMAIN dir : dir'[m] \in Files
       /\ \A m \in DOMAIN dir : m # name \/ proc[p].fd # "dir" => dir'[m] = dir[m]
  <2>1. \A m \in DOMAIN dir : dir[m] \in Files
    BY DEF IInv, TypeOK
  <2>. QED
    BY <1>1, <1>6, <2>1
<1>12. TypeOK'
  BY <1>1, <1>7, <1>10, <1>11 DEF IInv, TypeOK
<1>13. Opened'
  <2>1. stage \in {"write", "rename"}
    BY <1>4
  <2>. QED
    BY <1>1, <1>7, <1>8, <1>9, <1>10, <2>1 DEF IInv, Opened
<1>14. Alone'
  <2>1. \A q \in Procs : proc'[q].fd # "none" /\ Saving(q)' \notin raced' => proc'[q].fd = "tmp"
    BY <1>1, <1>9 DEF IInv, Alone
  <2>2. \A q, r \in Procs :
            q # r /\ proc'[q].fd = "tmp" /\ proc'[r].fd = "tmp" /\ Saving(q)' = Saving(r)'
            => Saving(q)' \in raced'
    <3> SUFFICES ASSUME NEW q \in Procs, NEW r \in Procs, q # r, proc[q].fd = "tmp", proc[r].fd = "tmp",
                        Saving(q) = Saving(r)
                 PROVE  Saving(q) \in raced
      BY <1>1, <1>9
    <3>. QED
      BY DEF IInv, Alone
  <2>. QED
    BY <2>1, <2>2 DEF Alone
<1>15. Planned' /\ Computed'
  <2>1. stage \in {"write", "rename"}
    BY <1>4
  <2>2. \A q \in Procs : /\ proc'[q].tokens = proc[q].tokens /\ proc'[q].hit = proc[q].hit
                         /\ proc'[q].kv = proc[q].kv /\ proc'[q].todo = proc[q].todo
                         /\ \/ proc'[q].stage = proc[q].stage
                            \/ proc'[q].stage \in Saves /\ proc[q].stage \in Saves
    BY <1>1, <1>7, <1>8, <2>1 DEF Saves
  <2>. QED
    BY <1>1, <2>2, PlanKept
<1>16. ASSUME model.bf16, proc[p].fd = "tmp", name \notin raced
       PROVE  tmp'[name] = SubSeq(Whole(name), 1, upto)
  <2>1. tmp'[name] = New(tmp[name])
    BY <1>10, <1>16 DEF IInv, Opened, name
  <2>2. tmp[name] = SubSeq(Whole(name), 1, from)
    BY <1>16 DEF IInv, Drafted, name, from
  <2>3. Whole(name) \in Files /\ Len(Whole(name)) = n + 1 /\ part = SubSeq(Whole(name), from + 1, upto)
    BY <1>3, <1>16 DEF part
  <2>. QED
    BY <1>4, <2>1, <2>2, <2>3, WriteNext DEF New
<1>17. Drafted'
  <2> SUFFICES ASSUME NEW q \in Procs
               PROVE  /\ proc'[q].stage \in {"ready", "load", "save"} => proc'[q].written = 0
                      /\ proc'[q].stage = "write" => proc'[q].written \in {0, Half(q)'}
                      /\ proc'[q].stage = "rename" => proc'[q].written = Len(Saving(q)') + 1
                      /\ model.bf16 /\ proc'[q].fd = "tmp" /\ Saving(q)' \notin raced'
                         => tmp'[Saving(q)'] = SubSeq(Whole(Saving(q)'), 1, proc'[q].written)
    BY <1>1, ModelStays DEF Drafted
  <2>1. CASE q = p
    <3>1. Saving(q)' = name /\ Half(q)' = Half(p) /\ Len(Saving(q)') = n
      BY <1>9, <2>1 DEF name, n
    <3>2. /\ proc'[q].stage = IF upto = n + 1 THEN "rename" ELSE "write"
          /\ proc'[q].written = upto /\ upto \in {Half(p), n + 1}
      BY <1>4, <1>8, <2>1
    <3>3. model.bf16 /\ proc'[q].fd = "tmp" /\ Saving(q)' \notin raced'
             => tmp'[Saving(q)'] = SubSeq(Whole(Saving(q)'), 1, proc'[q].written)
      BY <1>1, <1>8, <1>16, <2>1, <3>1, <3>2
    <3>. QED
      BY <3>1, <3>2, <3>3
  <2>2. CASE q # p
    <3>1. proc'[q] = proc[q] /\ Saving(q)' = Saving(q) /\ Half(q)' = Half(q)
      BY <1>7, <1>9, <2>2
    <3>2. ASSUME proc[q].fd = "tmp", Saving(q) \notin raced PROVE tmp'[Saving(q)] = tmp[Saving(q)]
      <4>1. Saving(q) # name \/ proc[p].fd # "tmp"
        BY <2>2, <3>2 DEF IInv, Alone, name
      <4>2. Saving(q) \in DOMAIN tmp
        BY <3>2 DEF IInv, Opened
      <4>. QED
        BY <1>10, <4>1, <4>2
    <3>. QED
      BY <1>1, <3>1, <3>2 DEF IInv, Drafted
  <2>. QED
    BY <2>1, <2>2
<1>18. Published'
  <2> SUFFICES ASSUME model.bf16, NEW m \in DOMAIN dir, m \notin raced
               PROVE  dir'[m] = Whole(m)
    BY <1>1, <1>11, ModelStays DEF Published
  <2>1. m # name \/ proc[p].fd # "dir"
    BY DEF IInv, Alone, name
  <2>. QED
    BY <1>11, <2>1 DEF IInv, Published
<1>. QED
  BY <1>12, <1>13, <1>14, <1>15, <1>17, <1>18 DEF IInv

\* A rename closes the file of the save, and moves those that others have open.
LEMMA RenameMoves ==
    ASSUME IInv, NEW p \in Procs, Rename(p)
    PROVE  /\ proc'[p] \in Prefills /\ proc'[p].stage = "stat" /\ proc'[p].fd = "none"
           /\ proc'[p].written = proc[p].written
           /\ proc'[p].tokens = proc[p].tokens /\ proc'[p].hit = proc[p].hit
           /\ proc'[p].kv = proc[p].kv /\ proc'[p].todo = proc[p].todo
           /\ \A q \in Procs \ {p} :
                 /\ proc'[q] \in Prefills /\ proc'[q].stage = proc[q].stage /\ proc'[q].written = proc[q].written
                 /\ proc'[q].tokens = proc[q].tokens /\ proc'[q].hit = proc[q].hit
                 /\ proc'[q].kv = proc[q].kv /\ proc'[q].todo = proc[q].todo
                 /\ proc'[q].fd = "none" <=> proc[q].fd = "none"
                 /\ proc'[q].fd = "tmp" => proc[q].fd = "tmp" /\ Saving(q) # Saving(p)
                 /\ proc[q].fd = "tmp" /\ Saving(q) # Saving(p) => proc'[q].fd = "tmp"
<1> DEFINE name == Saving(p)
           where == [tmp |-> "dir", dir |-> "gone"]
           closed == [proc EXCEPT ![p].stage = "stat", ![p].fd = "none"]
<1>1. /\ proc[p].stage = "rename" /\ name \in DOMAIN tmp
      /\ dir' = Put(dir, name, tmp[name]) /\ tmp' = Unlink(tmp, {name})
      /\ proc' = [q \in Procs |-> IF closed[q].fd \in DOMAIN where /\ Saving(q) = name
                                  THEN [closed[q] EXCEPT !.fd = where[closed[q].fd]] ELSE closed[q]]
      /\ UNCHANGED <<model, concurrent, raced>>
  BY DEF Rename, Moved, Exists
<1>2. model \in Models /\ proc \in [Procs -> Prefills] /\ proc[p] \in Prefills
  BY DEF IInv, TypeOK
<1>3. DOMAIN where = {"tmp", "dir"} /\ where["tmp"] = "dir" /\ where["dir"] = "gone"
  OBVIOUS
<1>4. /\ \A q \in Procs \ {p} : closed[q] = proc[q]
      /\ closed[p] \in Prefills /\ closed[p].stage = "stat" /\ closed[p].fd = "none"
      /\ closed[p].written = proc[p].written
      /\ closed[p].tokens = proc[p].tokens /\ closed[p].hit = proc[p].hit
      /\ closed[p].kv = proc[p].kv /\ closed[p].todo = proc[p].todo
  BY <1>2 DEF Prefills
<1> HIDE DEF name, where, closed
<1>5. proc'[p] = closed[p] /\ proc'[p] \in Prefills
  BY <1>1, <1>3, <1>4
<1>6. ASSUME NEW q \in Procs, q # p
      PROVE  /\ proc'[q] \in Prefills /\ proc'[q].stage = proc[q].stage /\ proc'[q].written = proc[q].written
             /\ proc'[q].tokens = proc[q].tokens /\ proc'[q].hit = proc[q].hit
             /\ proc'[q].kv = proc[q].kv /\ proc'[q].todo = proc[q].todo
             /\ proc'[q].fd = "none" <=> proc[q].fd = "none"
             /\ proc'[q].fd = "tmp" => proc[q].fd = "tmp" /\ Saving(q) # name
             /\ proc[q].fd = "tmp" /\ Saving(q) # name => proc'[q].fd = "tmp"
  <2>1. proc[q] \in Prefills /\ closed[q] = proc[q]
    BY <1>2, <1>4, <1>6
  <2>2. CASE proc[q].fd = "tmp" /\ Saving(q) = name
    <3>1. proc'[q] = [proc[q] EXCEPT !.fd = "dir"]
      BY <1>1, <1>3, <2>1, <2>2
    <3>. QED
      BY <2>1, <2>2, <3>1 DEF Prefills
  <2>3. CASE proc[q].fd = "dir" /\ Saving(q) = name
    <3>1. proc'[q] = [proc[q] EXCEPT !.fd = "gone"]
      BY <1>1, <1>3, <2>1, <2>3
    <3>. QED
      BY <2>1, <2>3, <3>1 DEF Prefills
  <2>4. CASE ~(proc[q].fd \in {"tmp", "dir"} /\ Saving(q) = name)
    <3>1. proc'[q] = proc[q]
      BY <1>1, <1>3, <2>1, <2>4
    <3>. QED
      BY <2>1, <2>4, <3>1
  <2>. QED
    BY <2>2, <2>3, <2>4
<1>. QED
  BY <1>4, <1>5, <1>6 DEF name

\* What is renamed is whole, unless it was raced.
LEMMA RenameStep ==
    ASSUME IInv, NEW p \in Procs, Rename(p)
    PROVE  IInv'
<1> DEFINE name == Saving(p)
<1>1. /\ proc[p].stage = "rename" /\ name \in DOMAIN tmp
      /\ dir' = Put(dir, name, tmp[name]) /\ tmp' = Unlink(tmp, {name})
      /\ proc' = [q \in Procs |-> proc'[q]]
      /\ UNCHANGED <<model, concurrent, raced>>
  BY DEF Rename, Moved, Exists
<1>2. model \in Models /\ proc \in [Procs -> Prefills] /\ proc[p] \in Prefills
  BY DEF IInv, TypeOK
<1>4. /\ proc'[p].stage = "stat" /\ proc'[p].fd = "none"
      /\ proc'[p].written = proc[p].written
      /\ proc'[p].tokens = proc[p].tokens /\ proc'[p].hit = proc[p].hit
      /\ proc'[p].kv = proc[p].kv /\ proc'[p].todo = proc[p].todo
  BY RenameMoves
<1>5. proc'[p] \in Prefills
  BY RenameMoves
<1>6. ASSUME NEW q \in Procs, q # p
      PROVE  /\ proc'[q] \in Prefills /\ proc'[q].stage = proc[q].stage /\ proc'[q].written = proc[q].written
             /\ proc'[q].tokens = proc[q].tokens /\ proc'[q].hit = proc[q].hit
             /\ proc'[q].kv = proc[q].kv /\ proc'[q].todo = proc[q].todo
             /\ proc'[q].fd = "none" <=> proc[q].fd = "none"
             /\ proc'[q].fd = "tmp" => proc[q].fd = "tmp" /\ Saving(q) # name
             /\ proc[q].fd = "tmp" /\ Saving(q) # name => proc'[q].fd = "tmp"
  BY <1>6, RenameMoves DEF name
<1> HIDE DEF name
<1>7. proc' \in [Procs -> Prefills]
  <2>1. \A q \in Procs : proc'[q] \in Prefills
    BY <1>5, <1>6
  <2>2. DOMAIN proc' = Procs /\ proc' = [q \in Procs |-> proc'[q]]
    BY <1>1
  <2>. QED
    BY <2>1, <2>2
<1>8. \A q \in Procs : Saving(q)' = Saving(q) /\ Half(q)' = Half(q) /\ proc'[q].todo = proc[q].todo
  BY <1>4, <1>5, <1>6 DEF Saving, Half
<1>9. /\ DOMAIN dir' = DOMAIN dir \cup {name} /\ dir'[name] = tmp[name]
      /\ \A m \in DOMAIN dir : m # name => dir'[m] = dir[m]
  BY <1>1 DEF Put
<1>10. DOMAIN tmp' = DOMAIN tmp \ {name} /\ \A m \in DOMAIN tmp' : tmp'[m] = tmp[m]
  BY <1>1 DEF Unlink, Restrict
<1>11. proc[p].todo # <<>> /\ proc[p].fd # "none"
  BY <1>1 DEF IInv, Opened
<1>12. \* Unless the name was raced, nobody else writes to it.
       name \notin raced => /\ proc[p].fd = "tmp"
                            /\ \A q \in Procs \ {p} : proc[q].fd = "none" \/ Saving(q) # name
  BY <1>11 DEF IInv, Alone, name
<1>13. TypeOK'
  <2>1. DOMAIN dir' \subseteq Names /\ \A m \in DOMAIN dir' : dir'[m] \in Files
    BY <1>1, <1>9 DEF IInv, TypeOK
  <2>2. DOMAIN tmp' \subseteq Names /\ \A m \in DOMAIN tmp' : tmp'[m] \in Files
    BY <1>10 DEF IInv, TypeOK
  <2>. QED
    BY <1>1, <1>7, <2>1, <2>2 DEF IInv, TypeOK
<1>14. Opened'
  <2> SUFFICES ASSUME NEW q \in Procs
               PROVE  /\ proc'[q].fd # "none" <=> proc'[q].stage \in {"write", "rename"}
                      /\ proc'[q].stage \in {"write", "rename", "stat"} => proc'[q].todo # <<>>
                      /\ proc'[q].fd = "tmp" => Saving(q)' \in DOMAIN tmp'
    BY DEF Opened
  <2>1. CASE q = p
    BY <1>4, <1>5, <1>11, <2>1
  <2>2. CASE q # p
    BY <1>6, <1>8, <1>10, <2>2 DEF IInv, Opened
  <2>. QED
    BY <2>1, <2>2
<1>15. Alone'
  <2>1. ASSUME NEW q \in Procs, proc'[q].fd # "none", Saving(q)' \notin raced' PROVE proc'[q].fd = "tmp"
    <3>1. q # p
      BY <1>4, <1>5, <2>1
    <3>2. raced' = raced /\ Saving(q)' = Saving(q)
      BY <1>1, <1>8
    <3>3. proc[q].fd # "none" /\ Saving(q) \notin raced
      BY <1>6, <2>1, <3>1, <3>2
    <3>4. proc[q].fd = "tmp"
      BY <3>3 DEF IInv, Alone
    <3>5. Saving(q) # name
      BY <1>12, <3>1, <3>3
    <3>. QED
      BY <1>6, <3>1, <3>4, <3>5
  <2>2. ASSUME NEW q \in Procs, NEW r \in Procs, q # r, proc'[q].fd = "tmp", proc'[r].fd = "tmp",
               Saving(q)' = Saving(r)'
        PROVE  Saving(q)' \in raced'
    <3>1. proc[q].fd = "tmp" /\ proc[r].fd = "tmp" /\ Saving(q) = Saving(r)
      BY <1>4, <1>5, <1>6, <1>8, <2>2
    <3>2. Saving(q) \in raced
      BY <2>2, <3>1 DEF IInv, Alone
    <3>. QED
      BY <1>1, <1>8, <3>2
  <2>. QED
    BY <2>1, <2>2 DEF Alone
<1>16. Planned' /\ Computed'
  <2>1. \A q \in Procs : /\ proc'[q].tokens = proc[q].tokens /\ proc'[q].hit = proc[q].hit
                         /\ proc'[q].kv = proc[q].kv /\ proc'[q].todo = proc[q].todo
                         /\ \/ proc'[q].stage = proc[q].stage
                            \/ proc'[q].stage \in Saves /\ proc[q].stage \in Saves
    BY <1>1, <1>4, <1>5, <1>6 DEF Saves
  <2>. QED
    BY <1>1, <2>1, PlanKept
<1>17. Drafted'
  <2> SUFFICES ASSUME NEW q \in Procs
               PROVE  /\ proc'[q].stage \in {"ready", "load", "save"} => proc'[q].written = 0
                      /\ proc'[q].stage = "write" => proc'[q].written \in {0, Half(q)'}
                      /\ proc'[q].stage = "rename" => proc'[q].written = Len(Saving(q)') + 1
                      /\ model.bf16 /\ proc'[q].fd = "tmp" /\ Saving(q)' \notin raced'
                         => tmp'[Saving(q)'] = SubSeq(Whole(Saving(q)'), 1, proc'[q].written)
    <3>1. \A t : Whole(t)' = Whole(t)
      BY <1>1, ModelStays
    <3>. QED
      BY <1>1, <3>1 DEF Drafted
  <2>1. CASE q = p
    BY <1>4, <1>5, <2>1
  <2>2. CASE q # p
    <3>1. /\ proc'[q].stage = proc[q].stage /\ proc'[q].written = proc[q].written
          /\ Saving(q)' = Saving(q) /\ Half(q)' = Half(q)
      BY <1>6, <1>8, <2>2
    <3>2. ASSUME proc'[q].fd = "tmp"
          PROVE  proc[q].fd = "tmp" /\ tmp'[Saving(q)] = tmp[Saving(q)]
      <4>1. proc[q].fd = "tmp" /\ Saving(q) # name
        BY <1>6, <2>2, <3>2
      <4>2. Saving(q) \in DOMAIN tmp'
        BY <1>10, <4>1 DEF IInv, Opened
      <4>. QED
        BY <1>10, <4>1, <4>2
    <3>. QED
      BY <1>1, <3>1, <3>2 DEF IInv, Drafted
  <2>. QED
    BY <2>1, <2>2
<1>18. ASSUME model.bf16, name \notin raced PROVE tmp[name] = Whole(name)
  <2>1. name \in Names
    BY <1>1 DEF IInv, TypeOK
  <2>2. name \in Seq(Nat) /\ name # <<>>
    <3>1. name \in Seq(Nat \ {0}) /\ name # <<>>
      BY <2>1 DEF Names
    <3>. QED
      BY <3>1
  <2>3. Whole(name) \in Seq(Pairs) /\ Len(Whole(name)) = Len(name) + 1
    BY <1>2, <1>18, <2>2, WholeFile
  <2>4. tmp[name] = SubSeq(Whole(name), 1, Len(name) + 1)
    <3>1. proc[p].written = Len(name) + 1
      BY <1>1 DEF IInv, Drafted, name
    <3>2. tmp[name] = SubSeq(Whole(name), 1, proc[p].written)
      BY <1>12, <1>18 DEF IInv, Drafted, name
    <3>. QED
      BY <3>1, <3>2
  <2>5. SubSeq(Whole(name), 1, Len(Whole(name))) = Whole(name)
    BY <2>3, SubSeqFull
  <2>. QED
    BY <2>3, <2>4, <2>5
<1>19. Published'
  <2> SUFFICES ASSUME model.bf16, NEW m \in DOMAIN dir', m \notin raced
               PROVE  dir'[m] = Whole(m)
    BY <1>1, ModelStays DEF Published
  <2>1. CASE m = name
    BY <1>9, <1>18, <2>1
  <2>2. CASE m # name
    BY <1>9, <2>2 DEF IInv, Published
  <2>. QED
    BY <2>1, <2>2
<1>. QED
  BY <1>13, <1>14, <1>15, <1>16, <1>17, <1>19 DEF IInv

\* A save that has ended, and an eviction, leave what the others save as it was.
LEMMA EnterMoves ==
    ASSUME IInv, NEW p \in Procs, Enter(p)
    PROVE  /\ proc'[p] = Saved(p) /\ Resting(proc'[p])
           /\ \A q \in Procs \ {p} :
                 /\ proc'[q] \in Prefills /\ proc'[q].stage = proc[q].stage /\ proc'[q].written = proc[q].written
                 /\ proc'[q].tokens = proc[q].tokens /\ proc'[q].hit = proc[q].hit
                 /\ proc'[q].kv = proc[q].kv /\ proc'[q].todo = proc[q].todo
                 /\ proc'[q].fd = "none" <=> proc[q].fd = "none"
                 /\ proc'[q].fd = "tmp" <=> proc[q].fd = "tmp"
<1> DEFINE gone == Evicted(Index(p))
           ps == [proc EXCEPT ![p] = Saved(p)]
<1>1. /\ proc[p].stage = "stat" /\ dir' = Unlink(dir, gone)
      /\ proc' = [q \in Procs |-> IF q # p /\ ps[q].fd = "dir" /\ Saving(q) \in gone
                                  THEN [ps[q] EXCEPT !.fd = "gone"] ELSE ps[q]]
      /\ UNCHANGED <<model, concurrent, tmp, raced>>
  BY DEF Enter
<1>2. model \in Models /\ proc \in [Procs -> Prefills] /\ proc[p] \in Prefills
  BY DEF IInv, TypeOK
<1>3. ps[p] = Saved(p) /\ \A q \in Procs \ {p} : ps[q] = proc[q]
  BY <1>2
<1> HIDE DEF gone, ps
<1>4. proc'[p] = Saved(p) /\ Resting(proc'[p])
  <2>1. proc'[p] = Saved(p)
    BY <1>1, <1>3
  <2>2. proc[p].stage \in Saves /\ proc[p].todo # <<>>
    BY <1>1 DEF Saves, IInv, Opened
  <2>. QED
    BY <2>1, <2>2, SavedRests
<1>5. ASSUME NEW q \in Procs, q # p
      PROVE  /\ proc'[q] \in Prefills /\ proc'[q].stage = proc[q].stage /\ proc'[q].written = proc[q].written
             /\ proc'[q].tokens = proc[q].tokens /\ proc'[q].hit = proc[q].hit
             /\ proc'[q].kv = proc[q].kv /\ proc'[q].todo = proc[q].todo
             /\ proc'[q].fd = "none" <=> proc[q].fd = "none"
             /\ proc'[q].fd = "tmp" <=> proc[q].fd = "tmp"
  <2>1. proc[q] \in Prefills /\ ps[q] = proc[q]
    BY <1>2, <1>3, <1>5
  <2>2. CASE proc[q].fd = "dir" /\ Saving(q) \in gone
    <3>1. proc'[q] = [proc[q] EXCEPT !.fd = "gone"]
      BY <1>1, <1>5, <2>1, <2>2
    <3>. QED
      BY <2>1, <2>2, <3>1 DEF Prefills
  <2>3. CASE ~(proc[q].fd = "dir" /\ Saving(q) \in gone)
    <3>1. proc'[q] = proc[q]
      BY <1>1, <1>5, <2>1, <2>3
    <3>. QED
      BY <2>1, <3>1
  <2>. QED
    BY <2>2, <2>3
<1>. QED
  BY <1>4, <1>5

\* What is evicted disappears, whoever has it open.
LEMMA EnterStep ==
    ASSUME IInv, NEW p \in Procs, Enter(p)
    PROVE  IInv'
<1> DEFINE gone == Evicted(Index(p))
<1>1. /\ proc[p].stage = "stat" /\ dir' = Unlink(dir, gone)
      /\ proc' = [q \in Procs |-> proc'[q]]
      /\ UNCHANGED <<model, concurrent, tmp, raced>>
  BY DEF Enter
<1>2. model \in Models /\ proc \in [Procs -> Prefills] /\ proc[p] \in Prefills
  BY DEF IInv, TypeOK
<1> HIDE DEF gone
<1>4. proc'[p] = Saved(p) /\ Resting(proc'[p])
  BY EnterMoves
<1>5. ASSUME NEW q \in Procs, q # p
      PROVE  /\ proc'[q] \in Prefills /\ proc'[q].stage = proc[q].stage /\ proc'[q].written = proc[q].written
             /\ proc'[q].tokens = proc[q].tokens /\ proc'[q].hit = proc[q].hit
             /\ proc'[q].kv = proc[q].kv /\ proc'[q].todo = proc[q].todo
             /\ proc'[q].fd = "none" <=> proc[q].fd = "none"
             /\ proc'[q].fd = "tmp" <=> proc[q].fd = "tmp"
  BY <1>5, EnterMoves
<1>6. proc' \in [Procs -> Prefills]
  <2>1. \A q \in Procs : proc'[q] \in Prefills
    BY <1>4, <1>5 DEF Resting
  <2>2. DOMAIN proc' = Procs /\ proc' = [q \in Procs |-> proc'[q]]
    BY <1>1
  <2>. QED
    BY <2>1, <2>2
<1>7. proc'[p].fd = "none" /\ proc'[p].written = 0 /\ proc'[p].stage \in {"ready", "load", "save"}
  BY <1>4 DEF Resting
<1>8. \A q \in Procs \ {p} : Saving(q)' = Saving(q) /\ Half(q)' = Half(q)
  BY <1>5 DEF Saving, Half
<1>9. DOMAIN dir' \subseteq DOMAIN dir /\ \A m \in DOMAIN dir' : dir'[m] = dir[m]
  BY <1>1 DEF Unlink, Restrict
<1>10. TypeOK'
  BY <1>1, <1>6, <1>9 DEF IInv, TypeOK
<1>11. Opened'
  <2> SUFFICES ASSUME NEW q \in Procs
               PROVE  /\ proc'[q].fd # "none" <=> proc'[q].stage \in {"write", "rename"}
                      /\ proc'[q].stage \in {"write", "rename", "stat"} => proc'[q].todo # <<>>
                      /\ proc'[q].fd = "tmp" => Saving(q)' \in DOMAIN tmp'
    BY DEF Opened
  <2>1. CASE q = p
    BY <1>7, <2>1
  <2>2. CASE q # p
    <3>1. /\ proc'[q].stage = proc[q].stage /\ proc'[q].todo = proc[q].todo
          /\ proc'[q].fd = "none" <=> proc[q].fd = "none"
          /\ proc'[q].fd = "tmp" <=> proc[q].fd = "tmp"
          /\ Saving(q)' = Saving(q) /\ tmp' = tmp
      BY <1>1, <1>5, <1>8, <2>2
    <3>. QED
      BY <3>1 DEF IInv, Opened
  <2>. QED
    BY <2>1, <2>2
<1>12. Alone'
  <2>1. ASSUME NEW q \in Procs, proc'[q].fd # "none", Saving(q)' \notin raced' PROVE proc'[q].fd = "tmp"
    <3>1. q # p /\ proc[q].fd # "none" /\ Saving(q) \notin raced
      <4>1. q # p
        BY <1>7, <2>1
      <4>2. Saving(q)' = Saving(q) /\ raced' = raced
        BY <1>1, <1>8, <4>1
      <4>. QED
        BY <1>5, <2>1, <4>1, <4>2
    <3>2. proc[q].fd = "tmp"
      BY <3>1 DEF IInv, Alone
    <3>. QED
      BY <1>5, <3>1, <3>2
  <2>2. ASSUME NEW q \in Procs, NEW r \in Procs, q # r, proc'[q].fd = "tmp", proc'[r].fd = "tmp",
               Saving(q)' = Saving(r)'
        PROVE  Saving(q)' \in raced'
    <3>1. q # p /\ r # p /\ proc[q].fd = "tmp" /\ proc[r].fd = "tmp" /\ Saving(q) = Saving(r)
      BY <1>5, <1>7, <1>8, <2>2
    <3>2. Saving(q) \in raced
      BY <2>2, <3>1 DEF IInv, Alone
    <3>. QED
      BY <1>1, <1>8, <3>1, <3>2
  <2>. QED
    BY <2>1, <2>2 DEF Alone
<1>13. Planned' /\ Computed'
  <2>1. \A q \in Procs :
            \/ /\ proc'[q].tokens = proc[q].tokens /\ proc'[q].hit = proc[q].hit
               /\ proc'[q].kv = proc[q].kv /\ proc'[q].todo = proc[q].todo
               /\ \/ proc'[q].stage = proc[q].stage
                  \/ proc'[q].stage \in Saves /\ proc[q].stage \in Saves
            \/ Resting(proc'[q])
    BY <1>4, <1>5
  <2>. QED
    BY <1>1, <2>1, PlanKept
<1>14. Drafted'
  <2> SUFFICES ASSUME NEW q \in Procs
               PROVE  /\ proc'[q].stage \in {"ready", "load", "save"} => proc'[q].written = 0
                      /\ proc'[q].stage = "write" => proc'[q].written \in {0, Half(q)'}
                      /\ proc'[q].stage = "rename" => proc'[q].written = Len(Saving(q)') + 1
                      /\ model.bf16 /\ proc'[q].fd = "tmp" /\ Saving(q)' \notin raced'
                         => tmp'[Saving(q)'] = SubSeq(Whole(Saving(q)'), 1, proc'[q].written)
    BY <1>1, ModelStays DEF Drafted
  <2>1. CASE q = p
    BY <1>7, <2>1
  <2>2. CASE q # p
    <3>1. /\ proc'[q].stage = proc[q].stage /\ proc'[q].written = proc[q].written
          /\ proc'[q].fd = "tmp" <=> proc[q].fd = "tmp"
          /\ Saving(q)' = Saving(q) /\ Half(q)' = Half(q) /\ tmp' = tmp /\ raced' = raced
      BY <1>1, <1>5, <1>8, <2>2
    <3>. QED
      BY <3>1 DEF IInv, Drafted
  <2>. QED
    BY <2>1, <2>2
<1>15. Published'
  <2> SUFFICES ASSUME model.bf16, NEW m \in DOMAIN dir', m \notin raced
               PROVE  dir'[m] = Whole(m)
    BY <1>1, ModelStays DEF Published
  <2>. QED
    BY <1>9 DEF IInv, Published
<1>. QED
  BY <1>10, <1>11, <1>12, <1>13, <1>14, <1>15 DEF IInv

\* At first there are no files and no prefills.
LEMMA InitHolds ==
    ASSUME Init
    PROVE  IInv
<1>1. model \in Models /\ concurrent \in BOOLEAN
  BY PrefixAssumption DEF Init
<1>2. Empty \in Caches /\ <<>> \in Seq(Nat \ {0}) /\ <<>> \in Seq(Names) /\ NoName = <<>>
  BY <1>1, EmptyComputes, EmptySeq DEF Computes, NoName
<1>3. Idle \in Prefills /\ Idle.stage = "ready" /\ Idle.fd = "none" /\ Idle.written = 0
  BY <1>2 DEF Idle, Prefills
<1>4. proc = [p \in Procs |-> Idle] /\ DOMAIN dir = {} /\ DOMAIN tmp = {}
  BY DEF Init, Restrict
<1> HIDE DEF Idle
<1>5. proc \in [Procs -> Prefills] /\ \A p \in Procs : proc[p] = Idle
  BY <1>3, <1>4
<1>6. TypeOK
  BY <1>1, <1>4, <1>5 DEF TypeOK
<1>7. Opened /\ Alone
  BY <1>3, <1>5 DEF Opened, Alone
<1>8. Planned /\ Computed
  BY <1>3, <1>5 DEF Planned, Computed, Saves
<1>9. Drafted
  BY <1>3, <1>5 DEF Drafted
<1>10. Published
  BY <1>4 DEF Published
<1>. QED
  BY <1>6, <1>7, <1>8, <1>9, <1>10 DEF IInv

---------------------------------------------------------------------------
(* The theorems *)

\* The invariant holds in every state, for any processes, prompts and limits.
THEOREM Inductive == Spec => []IInv
<1>1. Init => IInv
  BY InitHolds
<1>2. IInv /\ [Next]_vars => IInv'
  <2> SUFFICES ASSUME IInv, [Next]_vars PROVE IInv'
    OBVIOUS
  <2>1. CASE UNCHANGED vars
    BY <2>1, QuietStep DEF vars
  <2>2. ASSUME NEW p \in Procs, Lookup(p) PROVE IInv'
    BY <2>2, LookupStep
  <2>3. ASSUME NEW p \in Procs, Prefill(p) \/ ConcurrentPrefill(p) PROVE IInv'
    BY <2>3, LoadStep DEF Prefill, ConcurrentPrefill
  <2>4. ASSUME NEW p \in Procs, PrefillDone(p) PROVE IInv'
    BY <2>4, DoneStep
  <2>5. ASSUME NEW p \in Procs, Skip(p) \/ SaveFails(p) PROVE IInv'
    BY <2>5, SavedStep
  <2>6. ASSUME NEW p \in Procs, Create(p) PROVE IInv'
    BY <2>6, CreateStep
  <2>7. ASSUME NEW p \in Procs, Write(p) PROVE IInv'
    BY <2>7, WriteStep
  <2>8. ASSUME NEW p \in Procs, Rename(p) PROVE IInv'
    BY <2>8, RenameStep
  <2>9. ASSUME NEW p \in Procs, Enter(p) PROVE IInv'
    BY <2>9, EnterStep
  <2>10. ASSUME NEW c \in Owners, Start(c) PROVE IInv'
    BY <2>10, QuietStep DEF Start
  <2>11. ASSUME NEW c \in Owners, Crash(c) PROVE IInv'
    BY <2>11, CrashStep
  <2>. QED
    BY <2>1, <2>2, <2>3, <2>4, <2>5, <2>6, <2>7, <2>8, <2>9, <2>10, <2>11 DEF Next
<1>. QED
  BY <1>1, <1>2, PTL DEF Spec

\* Records, open files and the two directories are of their types, always.
THEOREM TypeCorrect == Spec => []TypeOK
<1>1. IInv => TypeOK
  BY DEF IInv
<1>. QED
  BY <1>1, Inductive, PTL

\* A crash, a failed call, a rename or another process's eviction never leaves part of
\* a prefix under its name: unless two processes were saving it at once, a file that is
\* found is whole, whatever the processes, prompts, intervals and limits.
THEOREM FilesAreWhole == Spec => []Published
<1>1. IInv => Published
  BY DEF IInv
<1>. QED
  BY <1>1, Inductive, PTL

\* A dense model in BF16 goes on from the same cache after a hit, an exact hit, a file
\* that vanished or a miss in chunks of any size: that of a prefill from nothing.
THEOREM HitsAreRecomputed == Spec => []RecomputedIfDense
<1>1. IInv => RecomputedIfDense
  BY DEF IInv, Computed, RecomputedIfDense, Saves
<1>. QED
  BY <1>1, Inductive, PTL

---------------------------------------------------------------------------
(* The index of a process *)

\* A set of numbers has a smallest.
LEMMA LeastNat ==
    ASSUME NEW S, S \subseteq Nat, S # {}
    PROVE  \E n \in S : \A m \in S : n <= m
<1>1. IsWellFoundedOn(Smaller, Nat)
  BY NatLessThanWellFounded DEF OpToRel, Smaller
<1>2. PICK n \in S : \A m \in S : ~(<<m, n>> \in Smaller)
  BY <1>1, WFMin
<1>3. ASSUME NEW m \in S PROVE n <= m
  <2>1. m \in Nat /\ n \in Nat
    OBVIOUS
  <2>2. m < n => <<m, n>> \in Smaller
    BY <2>1 DEF Smaller
  <2>. QED
    BY <1>2, <2>1, <2>2
<1>. QED
  BY <1>3

\* One that is bounded has a largest, which is the one that is taken.
LEMMA MaxOf ==
    ASSUME NEW S, NEW b \in Nat, S \subseteq 0 .. b, S # {}
    PROVE  Max(S) \in S /\ \A m \in S : m <= Max(S)
<1> DEFINE T == {k \in 0 .. b : b - k \in S}
<1>1. PICK x \in S : TRUE
  OBVIOUS
<1>2. b - x \in T /\ T \subseteq Nat
  <2>1. x \in 0 .. b
    OBVIOUS
  <2>2. b - x \in 0 .. b /\ b - (b - x) = x
    BY <2>1
  <2>. QED
    BY <1>1, <2>2
<1>3. PICK n \in T : \A m \in T : n <= m
  BY <1>2, LeastNat
<1>4. b - n \in S /\ n \in 0 .. b
  BY <1>3
<1>5. ASSUME NEW m \in S PROVE m <= b - n
  <2>1. m \in 0 .. b
    OBVIOUS
  <2>2. b - m \in 0 .. b /\ b - (b - m) = m
    BY <2>1
  <2>3. n <= b - m
    BY <1>3, <2>2
  <2>. QED
    BY <1>4, <2>1, <2>3
<1>6. \E k \in S : \A m \in S : m <= k
  BY <1>4, <1>5
<1>. QED
  BY <1>6 DEF Max

Entries == [name : Names, size : Nat, last_access : Nat]

\* What an entry has.
LEMMA EntryFacts ==
    ASSUME NEW s \in Seq(Entries)
    PROVE  /\ Len(s) \in Nat /\ DOMAIN s = 1 .. Len(s)
           /\ \A i \in 1 .. Len(s) :
                  /\ s[i] \in Entries /\ s[i].name \in Names /\ Len(s[i].name) \in Nat
                  /\ s[i].size \in Nat /\ s[i].last_access \in Nat
<1>1. Len(s) \in Nat /\ DOMAIN s = 1 .. Len(s) /\ \A i \in 1 .. Len(s) : s[i] \in Entries
  BY LenProperties
<1>2. ASSUME NEW x \in Entries
      PROVE  /\ x.name \in Names /\ x.name \in Seq(Nat \ {0})
             /\ x.size \in Nat /\ x.last_access \in Nat
  BY DEF Entries, Names
<1>3. \A x \in Entries : Len(x.name) \in Nat
  BY <1>2, LenProperties
<1>. QED
  BY <1>1, <1>2, <1>3

\* The longest names are first.
Ordered(s) == \A i, j \in 1 .. Len(s) : i < j => Len(s[j].name) <= Len(s[i].name)

\* An insertion adds the entry, and keeps the order.
LEMMA InsertFacts ==
    ASSUME NEW s \in Seq(Entries), Ordered(s), NEW e \in Entries
    PROVE  /\ Insert(s, e) \in Seq(Entries) /\ Ordered(Insert(s, e))
           /\ \A i \in 1 .. Len(Insert(s, e)) :
                  Insert(s, e)[i] = e \/ \E j \in 1 .. Len(s) : Insert(s, e)[i] = s[j]
<1> DEFINE N == {0} \cup {i \in DOMAIN s : Len(s[i].name) >= Len(e.name)}
           n == Max(N)
           u == SubSeq(s, 1, n)
           v == SubSeq(s, n + 1, Len(s))
           t == Insert(s, e)
<1>1. Len(s) \in Nat /\ DOMAIN s = 1 .. Len(s)
  BY LenProperties
<1>2. /\ Len(e.name) \in Nat
      /\ \A i \in 1 .. Len(s) : s[i] \in Entries /\ Len(s[i].name) \in Nat
  <2>1. e.name \in Seq(Nat \ {0})
    BY DEF Entries, Names
  <2>2. Len(e.name) \in Nat
    BY <2>1, LenProperties
  <2>. QED
    BY <2>2, EntryFacts
<1>3. n \in N /\ \A m \in N : m <= n
  <2>1. N \subseteq 0 .. Len(s) /\ N # {}
    BY <1>1
  <2> HIDE DEF N
  <2>. QED
    BY <1>1, <2>1, MaxOf
<1>4. n \in 0 .. Len(s)
  BY <1>1, <1>3
<1>5. t = u \o <<e>> \o v
  <2>1. t = InsertAt(s, n + 1, e)
    BY DEF Insert
  <2>2. (n + 1) - 1 = n
    BY <1>4
  <2> HIDE DEF N, n
  <2>. QED
    BY <2>1, <2>2 DEF InsertAt
<1>6. \A i \in 1 .. n : Len(s[i].name) >= Len(e.name)
  <2> SUFFICES ASSUME NEW i \in 1 .. n PROVE Len(s[i].name) >= Len(e.name)
    OBVIOUS
  <2>1. n # 0 /\ n \in 1 .. Len(s) /\ Len(s[n].name) >= Len(e.name)
    BY <1>1, <1>3, <1>4
  <2>2. i \in 1 .. Len(s) /\ i <= n
    BY <1>4
  <2>3. i < n => Len(s[n].name) <= Len(s[i].name)
    BY <2>1, <2>2 DEF Ordered
  <2>4. i = n \/ i < n
    BY <1>4
  <2>. QED
    BY <1>2, <2>1, <2>2, <2>3, <2>4
<1>7. \A i \in n + 1 .. Len(s) : Len(s[i].name) <= Len(e.name)
  <2> SUFFICES ASSUME NEW i \in n + 1 .. Len(s), ~(Len(s[i].name) <= Len(e.name)) PROVE FALSE
    OBVIOUS
  <2>1. i \in 1 .. Len(s) /\ i > n
    BY <1>1, <1>4
  <2>2. i \in N
    BY <1>1, <1>2, <2>1
  <2>. QED
    BY <1>3, <1>4, <2>1, <2>2
<1> HIDE DEF N, n, t
<1>8. /\ u \in Seq(Entries) /\ Len(u) = n /\ \A i \in 1 .. n : u[i] = s[i]
      /\ v \in Seq(Entries) /\ Len(v) = Len(s) - n /\ \A i \in 1 .. Len(s) - n : v[i] = s[n + i]
  <2>1. u \in Seq(Entries) /\ Len(u) = n /\ \A i \in 1 .. n : u[i] = s[i]
    BY <1>1, <1>4, PrefixFacts
  <2>2. v \in Seq(Entries) /\ Len(v) = Len(s) - n /\ \A i \in 1 .. Len(s) - n : v[i] = s[n + i]
    <3>1. Len(s) \in Nat /\ n \in Nat /\ n <= Len(s)
      BY <1>1, <1>4
    <3>. QED
      BY <3>1, NextPiece
  <2>. QED
    BY <2>1, <2>2
<1> HIDE DEF u, v
<1>9. /\ u \o <<e>> \in Seq(Entries) /\ Len(u \o <<e>>) = n + 1
      /\ \A i \in 1 .. n + 1 : (u \o <<e>>)[i] = IF i <= n THEN u[i] ELSE e
  BY <1>4, <1>8
<1>10. /\ t \in Seq(Entries) /\ Len(t) = Len(s) + 1
       /\ \A i \in 1 .. Len(s) + 1 : t[i] = IF i <= n + 1 THEN (u \o <<e>>)[i] ELSE v[i - (n + 1)]
  <2> DEFINE w == u \o <<e>>
  <2>1. w \in Seq(Entries) /\ Len(w) = n + 1
    BY <1>9
  <2> HIDE DEF w
  <2>2. /\ w \o v \in Seq(Entries) /\ Len(w \o v) = Len(w) + Len(v)
        /\ \A i \in 1 .. Len(w) + Len(v) : (w \o v)[i] = IF i <= Len(w) THEN w[i] ELSE v[i - Len(w)]
    BY <1>8, <2>1, ConcatProperties
  <2>3. Len(w) + Len(v) = Len(s) + 1
    BY <1>1, <1>4, <1>8, <2>1
  <2>4. t = w \o v
    BY <1>5 DEF w
  <2>. QED
    BY <2>1, <2>2, <2>3, <2>4 DEF w
<1>11. ASSUME NEW i \in 1 .. Len(s) + 1
       PROVE  /\ i <= n => t[i] = s[i]
              /\ i = n + 1 => t[i] = e
              /\ i > n + 1 => t[i] = s[i - 1]
  <2>1. i <= n => t[i] = s[i]
    BY <1>4, <1>8, <1>9, <1>10
  <2>2. i = n + 1 => t[i] = e
    BY <1>4, <1>9, <1>10
  <2>3. ASSUME i > n + 1 PROVE t[i] = s[i - 1]
    <3> DEFINE k == i - (n + 1)
    <3>1. k \in 1 .. Len(s) - n /\ n + k = i - 1 /\ ~(i <= n + 1)
      BY <1>1, <1>4, <2>3
    <3> HIDE DEF k
    <3>2. v[k] = s[i - 1]
      BY <1>8, <3>1
    <3>. QED
      BY <1>10, <3>1, <3>2 DEF k
  <2>. QED
    BY <2>1, <2>2, <2>3
<1>12. Ordered(t)
  <2> SUFFICES ASSUME NEW i \in 1 .. Len(s) + 1, NEW j \in 1 .. Len(s) + 1, i < j
               PROVE  Len(t[j].name) <= Len(t[i].name)
    BY <1>10 DEF Ordered
  <2>1. CASE j <= n
    <3>1. i \in 1 .. Len(s) /\ j \in 1 .. Len(s) /\ t[i] = s[i] /\ t[j] = s[j]
      BY <1>4, <1>11, <2>1
    <3>. QED
      BY <3>1 DEF Ordered
  <2>2. CASE j = n + 1
    <3>1. i \in 1 .. n /\ t[i] = s[i] /\ t[j] = e
      BY <1>4, <1>11, <2>2
    <3>. QED
      BY <1>2, <1>4, <1>6, <3>1
  <2>3. CASE j > n + 1 /\ i <= n
    <3>1. i \in 1 .. Len(s) /\ j - 1 \in 1 .. Len(s) /\ i < j - 1 /\ t[i] = s[i] /\ t[j] = s[j - 1]
      BY <1>1, <1>4, <1>11, <2>3
    <3>. QED
      BY <3>1 DEF Ordered
  <2>4. CASE j > n + 1 /\ i = n + 1
    <3>1. j - 1 \in n + 1 .. Len(s) /\ t[i] = e /\ t[j] = s[j - 1]
      BY <1>1, <1>4, <1>11, <2>4
    <3>. QED
      BY <1>7, <3>1
  <2>5. CASE j > n + 1 /\ i > n + 1
    <3>1. /\ i - 1 \in 1 .. Len(s) /\ j - 1 \in 1 .. Len(s) /\ i - 1 < j - 1
          /\ t[i] = s[i - 1] /\ t[j] = s[j - 1]
      BY <1>1, <1>4, <1>11, <2>5
    <3>. QED
      BY <3>1 DEF Ordered
  <2>6. \/ j <= n \/ j = n + 1
        \/ j > n + 1 /\ (i <= n \/ i = n + 1 \/ i > n + 1)
    BY <1>1, <1>4
  <2>. QED
    BY <2>1, <2>2, <2>3, <2>4, <2>5, <2>6
<1>13. ASSUME NEW i \in 1 .. Len(t)
       PROVE  t[i] = e \/ \E j \in 1 .. Len(s) : t[i] = s[j]
  <2>1. i \in 1 .. Len(s) + 1
    BY <1>10
  <2>2. i <= n => i \in 1 .. Len(s)
    BY <1>1, <1>4, <2>1
  <2>3. i > n + 1 => i - 1 \in 1 .. Len(s)
    BY <1>1, <1>4, <2>1
  <2>4. i <= n \/ i = n + 1 \/ i > n + 1
    BY <1>4, <2>1
  <2>. QED
    BY <1>11, <2>1, <2>2, <2>3, <2>4
<1>. QED
  BY <1>10, <1>12, <1>13 DEF t

\* The entries at some of the first places, inserted one after the other.
IsSorting(f, s, places, n) ==
    f = [i \in 0 .. n |-> IF i = 0 THEN <<>>
                          ELSE IF i \in places THEN Insert(f[i - 1], s[i]) ELSE f[i - 1]]

\* They can be, however many there are.
LEMMA SortingExists ==
    ASSUME NEW s, NEW places
    PROVE  \A n \in Nat : \E f : IsSorting(f, s, places, n)
<1> DEFINE S == {n \in Nat : \E f : IsSorting(f, s, places, n)}
<1>1. 0 \in S
  <2> DEFINE f == [i \in 0 .. 0 |-> <<>>]
  <2>1. f = [i \in 0 .. 0 |-> IF i = 0 THEN <<>>
                              ELSE IF i \in places THEN Insert(f[i - 1], s[i]) ELSE f[i - 1]]
    OBVIOUS
  <2> HIDE DEF f
  <2>2. IsSorting(f, s, places, 0)
    BY <2>1 DEF IsSorting
  <2>. QED
    BY <2>2
<1>2. ASSUME NEW n \in Nat, n \in S PROVE n + 1 \in S
  <2>1. PICK f : IsSorting(f, s, places, n)
    BY <1>2
  <2> DEFINE g == [i \in 0 .. n + 1 |-> IF i \in 0 .. n THEN f[i]
                                        ELSE IF i \in places THEN Insert(f[n], s[i]) ELSE f[n]]
  <2>2. ASSUME NEW i \in 0 .. n + 1
        PROVE  g[i] = IF i = 0 THEN <<>>
                      ELSE IF i \in places THEN Insert(g[i - 1], s[i]) ELSE g[i - 1]
    <3>1. CASE i = n + 1
      <4>1. i - 1 = n /\ n \in 0 .. n /\ n \in 0 .. n + 1 /\ i \notin 0 .. n /\ i # 0
        BY <3>1
      <4>2. g[i] = (IF i \in places THEN Insert(f[n], s[i]) ELSE f[n]) /\ g[i - 1] = f[n]
        BY <4>1
      <4>. QED
        BY <4>1, <4>2
    <3>2. CASE i \in 0 .. n
      <4>1. /\ g[i] = f[i]
            /\ i # 0 => i - 1 \in 0 .. n /\ i - 1 \in 0 .. n + 1 /\ g[i - 1] = f[i - 1]
        BY <3>2
      <4>2. f[i] = IF i = 0 THEN <<>>
                   ELSE IF i \in places THEN Insert(f[i - 1], s[i]) ELSE f[i - 1]
        BY <2>1, <3>2 DEF IsSorting
      <4>. QED
        BY <4>1, <4>2
    <3>3. i = n + 1 \/ i \in 0 .. n
      OBVIOUS
    <3> HIDE DEF g
    <3>. QED
      BY <3>1, <3>2, <3>3
  <2>3. g = [i \in 0 .. n + 1 |-> g[i]]
    OBVIOUS
  <2> HIDE DEF g
  <2>4. IsSorting(g, s, places, n + 1)
    BY <2>2, <2>3 DEF IsSorting
  <2>. QED
    BY <2>4
<1> HIDE DEF S
<1>3. \A n \in Nat : n \in S
  BY <1>1, <1>2, SetInduction
<1>. QED
  BY <1>3 DEF S

\* What is at some places of an index, sorted.
Sorted(t, s, places) ==
    /\ t \in Seq(Entries) /\ Ordered(t)
    /\ \A i \in 1 .. Len(t) : \E j \in 1 .. Len(s) : j \in places /\ t[i] = s[j]

\* Sorting is what it says.
LEMMA LongestFacts ==
    ASSUME NEW s \in Seq(Entries), NEW places
    PROVE  Sorted(Longest(s, places), s, places)
<1> DEFINE n == Len(s)
           f == CHOOSE h : h = [i \in 0 .. n |->
                    IF i = 0 THEN <<>>
                    ELSE IF i \in places THEN Insert(h[i - 1], s[i]) ELSE h[i - 1]]
<1>1. n \in Nat /\ \A i \in 1 .. n : s[i] \in Entries
  OBVIOUS
<1>2. PICK h : h = [i \in 0 .. n |->
                    IF i = 0 THEN <<>>
                    ELSE IF i \in places THEN Insert(h[i - 1], s[i]) ELSE h[i - 1]]
  <2>1. PICK h : IsSorting(h, s, places, n)
    BY <1>1, SortingExists
  <2>. QED
    BY <2>1 DEF IsSorting
<1>3. f = [i \in 0 .. n |->
              IF i = 0 THEN <<>>
              ELSE IF i \in places THEN Insert(f[i - 1], s[i]) ELSE f[i - 1]]
  BY <1>2
<1>4. Longest(s, places) = f[n]
  BY DEF Longest
<1> HIDE DEF f, n
<1> DEFINE F(i) == IF i = 0 THEN <<>>
                   ELSE IF i \in places THEN Insert(f[i - 1], s[i]) ELSE f[i - 1]
<1>5. \A i \in 0 .. n : f[i] = F(i)
  <2>1. f = [i \in 0 .. n |-> F(i)]
    BY <1>3
  <2> HIDE DEF F
  <2>. QED
    BY <2>1
<1> HIDE DEF F
<1> DEFINE S == {k \in Nat : k <= n => Sorted(f[k], s, places)}
<1>6. 0 \in S
  <2>1. f[0] = <<>>
    BY <1>1, <1>5 DEF F
  <2>2. Sorted(<<>>, s, places)
    BY DEF Sorted, Ordered
  <2>. QED
    BY <2>1, <2>2
<1>7. ASSUME NEW k \in Nat, k \in S PROVE k + 1 \in S
  <2> SUFFICES ASSUME k + 1 <= n PROVE Sorted(f[k + 1], s, places)
    OBVIOUS
  <2>1. Sorted(f[k], s, places)
    BY <1>1, <1>7
  <2>2. /\ k + 1 \in 0 .. n /\ k + 1 \in 1 .. n /\ k + 1 # 0 /\ (k + 1) - 1 = k
    BY <1>1
  <2>3. f[k + 1] = IF k + 1 \in places THEN Insert(f[k], s[k + 1]) ELSE f[k]
    <3> DEFINE m == k + 1
    <3>1. m \in 0 .. n /\ m # 0 /\ m - 1 = k
      BY <2>2
    <3> HIDE DEF m
    <3>2. f[m] = F(m)
      BY <1>5, <3>1
    <3>3. f[m] = IF m \in places THEN Insert(f[m - 1], s[m]) ELSE f[m - 1]
      BY <3>1, <3>2 DEF F
    <3>. QED
      BY <3>1, <3>3 DEF m
  <2>4. CASE k + 1 \notin places
    BY <2>1, <2>3, <2>4
  <2>5. CASE k + 1 \in places
    <3> DEFINE e == s[k + 1]
               u == f[k]
    <3>1. e \in Entries /\ u \in Seq(Entries) /\ Ordered(u) /\ f[k + 1] = Insert(u, e)
      BY <1>1, <2>1, <2>2, <2>3, <2>5 DEF Sorted
    <3>2. \A i \in 1 .. Len(u) : \E j \in 1 .. Len(s) : j \in places /\ u[i] = s[j]
      BY <2>1 DEF Sorted
    <3>3. \E j \in 1 .. Len(s) : j \in places /\ e = s[j]
      BY <2>2, <2>5 DEF n
    <3> HIDE DEF e, u
    <3>4. /\ Insert(u, e) \in Seq(Entries) /\ Ordered(Insert(u, e))
          /\ \A i \in 1 .. Len(Insert(u, e)) :
                 Insert(u, e)[i] = e \/ \E j \in 1 .. Len(u) : Insert(u, e)[i] = u[j]
      BY <3>1, InsertFacts
    <3> DEFINE t == Insert(u, e)
    <3> HIDE DEF t
    <3>5. ASSUME NEW i \in 1 .. Len(t)
          PROVE  \E j \in 1 .. Len(s) : j \in places /\ t[i] = s[j]
      <4>1. t[i] = e \/ \E j \in 1 .. Len(u) : t[i] = u[j]
        BY <3>4 DEF t
      <4>. QED
        BY <3>2, <3>3, <4>1
    <3>6. Sorted(t, s, places)
      BY <3>4, <3>5 DEF Sorted, t
    <3>. QED
      BY <3>1, <3>6 DEF t
  <2>. QED
    BY <2>4, <2>5
<1> HIDE DEF S
<1>8. \A k \in Nat : k \in S
  BY <1>6, <1>7, SetInduction
<1>9. n \in S
  BY <1>1, <1>8
<1>. QED
  BY <1>1, <1>4, <1>9 DEF S

\* How much some entries take is a number.
LEMMA SizeFinite ==
    ASSUME NEW s \in Seq(Entries), NEW P, P \subseteq 1 .. Len(s)
    PROVE  IsFiniteSet(UNION {{i} \X (1 .. s[i].size) : i \in P})
<1> DEFINE Row(i) == {i} \X (1 .. s[i].size)
           Rows(k) == UNION {Row(i) : i \in P \cap (1 .. k)}
           S == {k \in Nat : k <= Len(s) => IsFiniteSet(Rows(k))}
<1>1. Len(s) \in Nat /\ \A i \in 1 .. Len(s) : s[i].size \in Nat
  BY EntryFacts
<1>2. ASSUME NEW i \in 1 .. Len(s) PROVE IsFiniteSet(Row(i))
  <2> DEFINE n == s[i].size
             f == [d \in Row(i) |-> d[2]]
  <2>1. n \in Nat /\ Row(i) = {i} \X (1 .. n)
    BY <1>1
  <2> HIDE DEF n
  <2>2. IsFiniteSet(1 .. n)
    BY <2>1, FS_Interval
  <2>3. \A d \in Row(i) : d = <<i, d[2]>> /\ d[2] \in 1 .. n
    BY <2>1
  <2> HIDE DEF Row
  <2>4. f \in Injection(Row(i), 1 .. n)
    <3>1. f \in [Row(i) -> 1 .. n] /\ DOMAIN f = Row(i)
      BY <2>3
    <3>2. \A a, b \in Row(i) : f[a] = f[b] => a = b
      BY <2>3
    <3> HIDE DEF f
    <3>. QED
      BY <3>1, <3>2 DEF Injection, IsInjective
  <2> HIDE DEF f
  <2>. QED
    BY <2>2, <2>4, FS_Injection
<1> HIDE DEF Row
<1>3. 0 \in S
  <2>1. Rows(0) = {}
    OBVIOUS
  <2>. QED
    BY <2>1, FS_EmptySet
<1>4. ASSUME NEW k \in Nat, k \in S PROVE k + 1 \in S
  <2> SUFFICES ASSUME k + 1 <= Len(s) PROVE IsFiniteSet(Rows(k + 1))
    OBVIOUS
  <2>1. IsFiniteSet(Rows(k)) /\ k + 1 \in 1 .. Len(s)
    BY <1>1, <1>4
  <2>2. 1 .. k + 1 = (1 .. k) \cup {k + 1}
    OBVIOUS
  <2> DEFINE m == k + 1
  <2>3. 1 .. m = (1 .. k) \cup {m} /\ m \in 1 .. Len(s)
    BY <2>1, <2>2
  <2> HIDE DEF m
  <2>4. CASE m \in P
    <3>1. Rows(m) = Rows(k) \cup Row(m)
      BY <2>3, <2>4
    <3>2. IsFiniteSet(Row(m))
      BY <1>2, <2>3
    <3> HIDE DEF Rows
    <3>3. IsFiniteSet(Rows(m))
      BY ONLY <2>1, <3>1, <3>2, FS_Union, ZenonT(30)
    <3>. QED
      BY <3>3 DEF m
  <2>5. CASE m \notin P
    <3>1. Rows(m) = Rows(k)
      BY <2>3, <2>5
    <3>. QED
      BY <2>1, <3>1 DEF m
  <2>. QED
    BY <2>4, <2>5
<1> HIDE DEF S
<1>5. \A k \in Nat : k \in S
  BY <1>3, <1>4, SetInduction
<1>6. IsFiniteSet(Rows(Len(s)))
  BY <1>1, <1>5 DEF S
<1>7. P \cap (1 .. Len(s)) = P
  OBVIOUS
<1>. QED
  BY <1>6, <1>7 DEF Row

\* What is not evicted fits: what is known of the files that are there, each of the
\* size that the index has for it, is within the limit.
LEMMA EvictedFits ==
    ASSUME NEW s \in Seq(Entries), NEW known, known \subseteq DOMAIN dir,
           \A n \in known : /\ n \notin Evicted(s)
                            /\ \E j \in 1 .. Len(s) : s[j].name = n /\ DOMAIN dir[n] = 1 .. s[j].size
    PROVE  Cardinality(UNION {{n} \X DOMAIN dir[n] : n \in known}) <= MaxSize
<1> DEFINE there == {i \in DOMAIN s : Exists(dir, s[i].name)}
           IsBefore(j, i) == \/ s[j].last_access < s[i].last_access
                             \/ s[j].last_access = s[i].last_access /\ j < i
           Left(i) == {j \in DOMAIN s : j \in there => ~IsBefore(j, i)}
           kept == {i \in there : ~(Size(s, Left(i)) > MaxSize)}
           used == UNION {{n} \X DOMAIN dir[n] : n \in known}
<1>1. /\ Len(s) \in Nat /\ DOMAIN s = 1 .. Len(s)
      /\ \A i \in 1 .. Len(s) : s[i] \in Entries
      /\ \A i \in 1 .. Len(s) : s[i].last_access \in Nat /\ s[i].size \in Nat
  BY EntryFacts
<1>2. MaxSize \in Nat
  BY PrefixAssumption
<1>3. \A i \in there : s[i].name \notin Evicted(s) => i \in kept
  BY DEF Evicted
<1> HIDE DEF IsBefore
<1>4. \A n \in known : \E j \in kept : s[j].name = n /\ DOMAIN dir[n] = 1 .. s[j].size
  <2> SUFFICES ASSUME NEW n \in known
               PROVE  \E j \in kept : s[j].name = n /\ DOMAIN dir[n] = 1 .. s[j].size
    OBVIOUS
  <2>1. PICK j \in 1 .. Len(s) : s[j].name = n /\ DOMAIN dir[n] = 1 .. s[j].size
    OBVIOUS
  <2>2. j \in there
    BY <1>1, <2>1 DEF Exists
  <2>. QED
    BY <1>3, <2>1, <2>2
<1>5. CASE known = {}
  <2>1. used = {}
    BY <1>5
  <2> HIDE DEF used
  <2>2. Cardinality(used) = 0
    BY <2>1, FS_EmptySet
  <2>. QED
    BY <1>2, <2>2 DEF used
<1>6. CASE known # {}
  <2>1. kept # {} /\ kept \subseteq 1 .. Len(s)
    BY <1>1, <1>4, <1>6
  <2>2. PICK a \in kept : \A j \in kept : ~IsBefore(j, a)
    <3> DEFINE times == {s[i].last_access : i \in kept}
    <3> HIDE DEF kept
    <3>1. times \subseteq Nat /\ times # {}
      <4>1. \A i \in kept : s[i].last_access \in Nat
        BY <1>1, <2>1
      <4>2. PICK i \in kept : TRUE
        BY <2>1
      <4>3. s[i].last_access \in times
        BY <4>2
      <4>. QED
        BY <4>1, <4>3
    <3>2. PICK t \in times : \A u \in times : t <= u
      BY <3>1, LeastNat
    <3> DEFINE oldest == {i \in kept : s[i].last_access = t}
    <3>3. oldest \subseteq Nat /\ oldest # {}
      <4>1. kept \subseteq Nat
        BY <1>1, <2>1
      <4>2. PICK i \in kept : s[i].last_access = t
        BY <3>2
      <4>. QED
        BY <4>1, <4>2
    <3>4. PICK b \in oldest : \A j \in oldest : b <= j
      BY <3>3, LeastNat
    <3>5. ASSUME NEW j \in kept PROVE ~IsBefore(j, b)
      <4>1. /\ s[b].last_access = t /\ t \in Nat /\ b \in Nat /\ j \in Nat
            /\ s[j].last_access \in Nat /\ t <= s[j].last_access
        BY <1>1, <2>1, <3>1, <3>2, <3>4
      <4>2. s[j].last_access = t => b <= j
        BY <3>4
      <4>. QED
        BY <4>1, <4>2 DEF IsBefore
    <3>. QED
      BY <3>4, <3>5
  <2>3. kept \subseteq Left(a) /\ Left(a) \subseteq 1 .. Len(s) /\ ~(Size(s, Left(a)) > MaxSize)
    BY <1>1, <2>1, <2>2
  <2> DEFINE left == UNION {{i} \X (1 .. s[i].size) : i \in Left(a)}
  <2> HIDE DEF Left, kept
  <2>4. IsFiniteSet(left) /\ Cardinality(left) \in Nat /\ Cardinality(left) <= MaxSize
    <3>1. IsFiniteSet(left)
      BY <2>3, SizeFinite
    <3>2. Size(s, Left(a)) = Cardinality(left)
      BY DEF Size
    <3> HIDE DEF left
    <3>3. Cardinality(left) \in Nat
      BY <3>1, FS_CardinalityType
    <3>. QED
      BY <1>2, <2>3, <3>1, <3>2, <3>3
  <2> DEFINE Place(n) == CHOOSE j \in kept : s[j].name = n /\ DOMAIN dir[n] = 1 .. s[j].size
             f == [d \in used |-> <<Place(d[1]), d[2]>>]
  <2>5. \A n \in known : /\ Place(n) \in kept /\ s[Place(n)].name = n
                         /\ DOMAIN dir[n] = 1 .. s[Place(n)].size
    BY <1>4
  <2> HIDE DEF Place
  <2>6. \A d \in used : d = <<d[1], d[2]>> /\ d[1] \in known /\ d[2] \in DOMAIN dir[d[1]]
    OBVIOUS
  <2>7. ASSUME NEW n \in known, NEW k \in DOMAIN dir[n] PROVE <<Place(n), k>> \in left
    <3> DEFINE j == Place(n)
    <3>1. j \in Left(a) /\ k \in 1 .. s[j].size
      BY <2>3, <2>5
    <3> HIDE DEF j
    <3>2. <<j, k>> \in {j} \X (1 .. s[j].size)
      BY <3>1
    <3>3. <<j, k>> \in left
      BY <3>1, <3>2
    <3>. QED
      BY <3>3 DEF j
  <2> HIDE DEF used, left
  <2>8. f \in Injection(used, left)
    <3>1. f \in [used -> left] /\ DOMAIN f = used
      BY <2>6, <2>7
    <3>2. ASSUME NEW c \in used, NEW d \in used, f[c] = f[d] PROVE c = d
      <4>1. f[c] = <<Place(c[1]), c[2]>> /\ f[d] = <<Place(d[1]), d[2]>>
        OBVIOUS
      <4> HIDE DEF f
      <4>2. Place(c[1]) = Place(d[1]) /\ c[2] = d[2]
        <5> DEFINE i == Place(c[1])
                   j == Place(d[1])
        <5>1. <<i, c[2]>> = <<j, d[2]>>
          BY <3>2, <4>1
        <5> HIDE DEF i, j
        <5>2. i = j /\ c[2] = d[2]
          BY <5>1
        <5>. QED
          BY <5>2 DEF i, j
      <4>3. c[1] = d[1]
        BY <2>5, <2>6, <4>2
      <4>. QED
        BY <2>6, <4>2, <4>3
    <3> HIDE DEF f
    <3>. QED
      BY <3>1, <3>2 DEF Injection, IsInjective
  <2> HIDE DEF f
  <2>9. Cardinality(used) <= Cardinality(left) /\ IsFiniteSet(used)
    BY <2>4, <2>8, FS_Injection
  <2>10. Cardinality(used) \in Nat
    BY <2>9, FS_CardinalityType
  <2>11. Cardinality(used) <= MaxSize
    BY <1>2, <2>4, <2>9, <2>10
  <2>. QED
    BY <2>11 DEF used
<1>. QED
  BY <1>5, <1>6

---------------------------------------------------------------------------
(* What the index and the lengths of the files are *)

Processes == [on : BOOLEAN, index : Seq(Entries), clock : Nat]

\* The sizes in an index are those of whole files, except for names that were raced.
Right(s, names) == \A i \in 1 .. Len(s) : s[i].name \notin names => s[i].size = Len(s[i].name) + 1

\* Every index has the longest names first, and the right sizes.
Indexed ==
    /\ cache \in [Owners -> Processes]
    /\ \A c \in Owners : Ordered(cache[c].index) /\ Right(cache[c].index, raced)

\* A file is as long as its name says, or as what was written of it.
Lengths ==
    /\ IsFiniteSet(DOMAIN dir)
    /\ \A n \in DOMAIN dir \ raced : Len(dir[n]) = Len(n) + 1
    /\ \A p \in Procs : proc[p].fd = "tmp" /\ Saving(p) \notin raced
                        => Len(tmp[Saving(p)]) = proc[p].written

\* A prefill that has not begun has no hit.
Fresh == \A p \in Procs : proc[p].stage = "ready" => proc[p].hit = NoName

IndexInv == Indexed /\ Lengths /\ Fresh

\* A process goes on with another index, or starts, or ends.
LEMMA CacheStep ==
    ASSUME Indexed, concurrent' = concurrent, raced' = raced, NEW c \in Owners,
           NEW r \in Processes, cache' = [cache EXCEPT ![c] = r],
           Ordered(r.index), Right(r.index, raced)
    PROVE  Indexed'
<1>1. Owners' = Owners
  BY DEF Owners, Owner
<1>2. cache' \in [Owners -> Processes] /\ \A d \in Owners : cache'[d] = IF d = c THEN r ELSE cache[d]
  BY DEF Indexed
<1>3. \A d \in Owners : Ordered(cache'[d].index) /\ Right(cache'[d].index, raced)
  BY <1>2 DEF Indexed
<1>. QED
  BY <1>1, <1>2, <1>3 DEF Indexed

\* The others leave every index as it is.
LEMMA CacheKept ==
    ASSUME Indexed, UNCHANGED <<concurrent, cache>>, raced \subseteq raced'
    PROVE  Indexed'
<1>1. Owners' = Owners
  BY DEF Owners, Owner
<1>2. \A c \in Owners : Right(cache[c].index, raced')
  BY DEF Indexed, Right
<1>. QED
  BY <1>1, <1>2 DEF Indexed

\* A lookup changes when entries were used, and nothing else.
LEMMA LookupIndex ==
    ASSUME Indexed, NEW p \in Procs, Lookup(p)
    PROVE  Indexed'
<1> DEFINE c == Owner(p)
           s == IndexOf(p)
           clock == Clock(p) + 1
           New(T) == [i \in DOMAIN s |-> IF i \in T THEN [s[i] EXCEPT !.last_access = clock] ELSE s[i]]
           Went(T) == cache' = [cache EXCEPT ![c].clock = clock, ![c].index = New(T)]
           Matches(t) == {i \in DOMAIN s : Len(t) >= MinPrefixLen /\ IsPrefix(s[i].name, t)}
           Found(t) == {i \in Matches(t) : Exists(dir, s[i].name)}
           Tried(t) == {i \in Matches(t) : \A j \in Found(t) : i <= j}
<1>1. \E t \in Prompts : Went(Tried(t))
  BY Zenon DEF Lookup
<1>2. \E T : Went(T)
  BY <1>1
<1>3. concurrent' = concurrent /\ raced' = raced
  BY DEF Lookup
<1>4. c \in Owners /\ cache[c] \in Processes /\ s = cache[c].index /\ Clock(p) = cache[c].clock
      /\ cache \in [Owners -> Processes]
  BY DEF Indexed, Owners, IndexOf, Clock
<1>5. s \in Seq(Entries) /\ clock \in Nat /\ cache[c].on \in BOOLEAN /\ Ordered(s) /\ Right(s, raced)
  BY <1>4 DEF Processes, Indexed
<1> HIDE DEF c, s, clock, New
<1>6. PICK T : Went(T)
  BY <1>2
<1> DEFINE t == New(T)
<1>7. t \in Seq(Entries) /\ Len(t) = Len(s)
      /\ \A i \in 1 .. Len(s) : t[i].name = s[i].name /\ t[i].size = s[i].size
  <2>1. Len(s) \in Nat /\ DOMAIN s = 1 .. Len(s) /\ \A i \in 1 .. Len(s) : s[i] \in Entries
    BY <1>5, EntryFacts
  <2>2. \A e \in Entries : /\ [e EXCEPT !.last_access = clock] \in Entries
                           /\ [e EXCEPT !.last_access = clock].name = e.name
                           /\ [e EXCEPT !.last_access = clock].size = e.size
    BY <1>5 DEF Entries
  <2>3. t = [i \in 1 .. Len(s) |-> IF i \in T THEN [s[i] EXCEPT !.last_access = clock] ELSE s[i]]
    BY <2>1 DEF New
  <2> HIDE DEF t
  <2>4. \A i \in 1 .. Len(s) : t[i] \in Entries /\ t[i].name = s[i].name /\ t[i].size = s[i].size
    BY <2>1, <2>2, <2>3
  <2>5. t = [i \in 1 .. Len(s) |-> t[i]]
    BY <2>3
  <2>. QED
    BY <2>1, <2>4, <2>5
<1>8. Ordered(t) /\ Right(t, raced)
  <2> HIDE DEF t
  <2>1. Ordered(t)
    BY <1>5, <1>7 DEF Ordered
  <2>2. Right(t, raced)
    BY <1>5, <1>7 DEF Right
  <2>. QED
    BY <2>1, <2>2
<1> DEFINE r == [cache[c] EXCEPT !.clock = clock, !.index = t]
<1>9. cache' = [cache EXCEPT ![c] = r]
  BY <1>4, <1>6
<1> HIDE DEF t
<1>10. r \in Processes /\ r.index = t
  BY <1>4, <1>5, <1>7 DEF Processes
<1> HIDE DEF r
<1>. QED
  BY <1>3, <1>4, <1>8, <1>9, <1>10, CacheStep

\* What is at some places of an index has the right sizes if the index has.
LEMMA SortedRight ==
    ASSUME NEW s, NEW places, NEW t, Sorted(t, s, places), Right(s, raced)
    PROVE  Right(t, raced)
BY DEF Sorted, Right

\* A process that starts finds the files that there are.
LEMMA StartIndex ==
    ASSUME IInv, Indexed, Lengths, NEW c \in Owners, Start(c)
    PROVE  Indexed'
<1> DEFINE Files0(s) == [i \in DOMAIN s |-> Entry(s[i], Len(dir[s[i]]), 0)]
           r(s) == [Off EXCEPT !.on = TRUE, !.index = Longest(Files0(s), DOMAIN Files0(s))]
<1>1. /\ \E s \in SetToSeqs(DOMAIN dir) : cache' = [cache EXCEPT ![c] = r(s)]
      /\ concurrent' = concurrent /\ raced' = raced
  BY DEF Start
<1>2. PICK s \in SetToSeqs(DOMAIN dir) : cache' = [cache EXCEPT ![c] = r(s)]
  BY <1>1
<1> DEFINE n == Cardinality(DOMAIN dir)
           f == Files0(s)
<1>3. n \in Nat
  BY FS_CardinalityType DEF Lengths
<1>4. s \in [1 .. n -> DOMAIN dir]
  BY DEF SetToSeqs
<1> HIDE DEF n
<1>5. \A i \in 1 .. n : s[i] \in DOMAIN dir /\ s[i] \in Names /\ Len(dir[s[i]]) \in Nat
  <2>1. \A m \in DOMAIN dir : m \in Names /\ dir[m] \in Seq(Pairs)
    BY DEF IInv, TypeOK, Files
  <2>2. \A m \in DOMAIN dir : m \in Names /\ Len(dir[m]) \in Nat
    BY <2>1, LenProperties
  <2>. QED
    BY <1>4, <2>2
<1>6. f = [i \in 1 .. n |-> Entry(s[i], Len(dir[s[i]]), 0)]
  BY <1>4
<1>7. \A i \in 1 .. n : Entry(s[i], Len(dir[s[i]]), 0) \in Entries
  BY <1>5 DEF Entry, Entries
<1> HIDE DEF Files0, f
<1>8. f \in Seq(Entries) /\ Len(f) = n /\ \A i \in 1 .. n : f[i] = Entry(s[i], Len(dir[s[i]]), 0)
  <2>1. \A i \in 1 .. n : f[i] = Entry(s[i], Len(dir[s[i]]), 0) /\ f[i] \in Entries
    BY <1>6, <1>7
  <2>2. f = [i \in 1 .. n |-> f[i]]
    BY <1>6
  <2>. QED
    BY <1>3, <2>1, <2>2
<1>9. Right(f, raced)
  <2> SUFFICES ASSUME NEW i \in 1 .. n, f[i].name \notin raced PROVE f[i].size = Len(f[i].name) + 1
    BY <1>8 DEF Right
  <2>1. f[i].name = s[i] /\ f[i].size = Len(dir[s[i]])
    BY <1>8 DEF Entry
  <2>. QED
    BY <1>5, <2>1 DEF Lengths
<1> DEFINE t == Longest(f, DOMAIN f)
<1>10. Sorted(t, f, DOMAIN f)
  BY <1>8, LongestFacts
<1> HIDE DEF t
<1>11. t \in Seq(Entries) /\ Ordered(t) /\ Right(t, raced)
  BY <1>9, <1>10, SortedRight DEF Sorted
<1> DEFINE g == [Off EXCEPT !.on = TRUE, !.index = t]
<1>12. g \in Processes /\ g.index = t
  <2>1. Off \in Processes
    BY EmptySeq DEF Off, Processes
  <2> HIDE DEF t
  <2>. QED
    BY <1>11, <2>1 DEF Processes
<1>13. cache' = [cache EXCEPT ![c] = g]
  BY <1>2 DEF f, t
<1> HIDE DEF g
<1>. QED
  BY <1>1, <1>11, <1>12, <1>13, CacheStep

\* The index with the new file.
LEMMA IndexFacts ==
    ASSUME IInv, Indexed, Lengths, NEW p \in Procs, proc[p].stage = "stat", Exists(dir, Saving(p))
    PROVE  Index(p) \in Seq(Entries) /\ Ordered(Index(p)) /\ Right(Index(p), raced)
<1> DEFINE s == IndexOf(p)
           e == Entry(Saving(p), Len(dir[Saving(p)]), Clock(p))
           t == Append(s, e)
<1>1. s \in Seq(Entries) /\ Right(s, raced) /\ Clock(p) \in Nat
  BY DEF Indexed, Processes, IndexOf, Clock, Owners
<1>2. Saving(p) \in DOMAIN dir /\ Saving(p) \in Names /\ Len(dir[Saving(p)]) \in Nat
  <2>1. Saving(p) \in DOMAIN dir
    BY DEF Exists
  <2>2. Saving(p) \in Names /\ dir[Saving(p)] \in Seq(Pairs)
    BY <2>1 DEF IInv, TypeOK, Files
  <2>. QED
    BY <2>1, <2>2, LenProperties
<1>3. e \in Entries /\ e.name = Saving(p) /\ e.size = Len(dir[Saving(p)])
  BY <1>1, <1>2 DEF Entry, Entries
<1>4. e.name \notin raced => e.size = Len(e.name) + 1
  BY <1>2, <1>3 DEF Lengths
<1> HIDE DEF e, s
<1>5. /\ t \in Seq(Entries) /\ Len(t) = Len(s) + 1
      /\ \A i \in 1 .. Len(s) : t[i] = s[i]
      /\ t[Len(s) + 1] = e
  BY <1>1, <1>3, AppendProperties
<1> HIDE DEF t
<1>6. Right(t, raced)
  <2> SUFFICES ASSUME NEW i \in 1 .. Len(s) + 1, t[i].name \notin raced PROVE t[i].size = Len(t[i].name) + 1
    BY <1>5 DEF Right
  <2>1. i \in 1 .. Len(s) \/ i = Len(s) + 1
    BY <1>1
  <2>. QED
    BY <1>1, <1>4, <1>5, <2>1 DEF Right
<1>7. Index(p) = Longest(t, DOMAIN t)
  BY DEF Index, t, s, e
<1>8. Sorted(Index(p), t, DOMAIN t)
  BY <1>5, <1>7, LongestFacts
<1>. QED
  BY <1>6, <1>8, SortedRight DEF Sorted

\* What an index becomes when a save enters it: nothing is in it that was not.
LEMMA EnterIndex ==
    ASSUME IInv, Indexed, Lengths, NEW p \in Procs, Enter(p)
    PROVE  /\ Indexed'
           /\ \A i \in 1 .. Len(IndexOf(p)') :
                  \E j \in 1 .. Len(Index(p)) : IndexOf(p)'[i] = Index(p)[j]
<1> DEFINE c == Owner(p)
           s == Index(p)
           gone == Evicted(s)
           stay == {i \in DOMAIN s : Exists(dir, s[i].name) /\ s[i].name \notin gone}
           t == IF gone = {} THEN s ELSE Longest(s, stay)
<1>1. /\ proc[p].stage = "stat" /\ Exists(dir, Saving(p))
      /\ cache' = [cache EXCEPT ![c].index = t]
      /\ concurrent' = concurrent /\ raced' = raced
  BY DEF Enter
<1>2. s \in Seq(Entries) /\ Ordered(s) /\ Right(s, raced)
  BY <1>1, IndexFacts
<1>3. c \in Owners /\ cache[c] \in Processes /\ cache \in [Owners -> Processes]
  BY DEF Indexed, Owners
<1> HIDE DEF s, gone, stay
<1>4. Sorted(Longest(s, stay), s, stay)
  BY <1>2, LongestFacts
<1>5. /\ t \in Seq(Entries) /\ Ordered(t) /\ Right(t, raced)
      /\ \A i \in 1 .. Len(t) : \E j \in 1 .. Len(s) : t[i] = s[j]
  <2>1. CASE gone = {}
    BY <1>2, <2>1
  <2>2. CASE gone # {}
    <3> DEFINE u == Longest(s, stay)
    <3>1. t = u
      BY <2>2
    <3> HIDE DEF u
    <3>2. Sorted(u, s, stay) /\ Right(u, raced)
      BY <1>2, <1>4, SortedRight DEF u
    <3>. QED
      BY <3>1, <3>2 DEF Sorted
  <2>. QED
    BY <2>1, <2>2
<1> HIDE DEF t
<1> DEFINE r == [cache[c] EXCEPT !.index = t]
<1>6. cache' = [cache EXCEPT ![c] = r]
  BY <1>1, <1>3
<1>7. r \in Processes /\ r.index = t
  BY <1>3, <1>5 DEF Processes
<1> HIDE DEF r
<1>8. Indexed'
  BY <1>1, <1>3, <1>5, <1>6, <1>7, CacheStep
<1>9. IndexOf(p)' = t
  <2>1. Owner(p)' = c
    BY <1>1 DEF Owner, c
  <2>. QED
    BY <1>3, <1>6, <1>7, <2>1 DEF IndexOf
<1>. QED
  BY <1>5, <1>8, <1>9 DEF s

\* A step that writes to no file: every file that is left is as it was, and who writes
\* a temporary file goes on with it.
LEMMA LengthsKept ==
    ASSUME Lengths, DOMAIN dir' \subseteq DOMAIN dir, \A n \in DOMAIN dir' : dir'[n] = dir[n],
           UNCHANGED <<tmp, raced>>,
           \A q \in Procs : proc'[q].fd = "tmp" => /\ proc[q].fd = "tmp"
                                                   /\ proc'[q].todo = proc[q].todo
                                                   /\ proc'[q].written = proc[q].written
    PROVE  Lengths'
<1>1. IsFiniteSet(DOMAIN dir')
  BY FS_Subset DEF Lengths
<1>2. \A n \in DOMAIN dir' \ raced' : Len(dir'[n]) = Len(n) + 1
  BY DEF Lengths
<1>3. ASSUME NEW q \in Procs, proc'[q].fd = "tmp", Saving(q)' \notin raced'
      PROVE  Len(tmp'[Saving(q)']) = proc'[q].written
  <2>1. Saving(q)' = Saving(q) /\ proc[q].fd = "tmp" /\ proc'[q].written = proc[q].written
    BY <1>3 DEF Saving
  <2>. QED
    BY <1>3, <2>1 DEF Lengths
<1>. QED
  BY <1>1, <1>2, <1>3 DEF Lengths

\* A prefill that goes on without a file.
LEMMA OneKept ==
    ASSUME IInv, Lengths, Fresh, UNCHANGED <<dir, tmp, raced>>, NEW p \in Procs, NEW r,
           proc' = [proc EXCEPT ![p] = r], r.fd # "tmp", r.stage = "ready" => r.hit = NoName
    PROVE  Lengths' /\ Fresh'
<1>1. \A q \in Procs : proc'[q] = IF q = p THEN r ELSE proc[q]
  BY DEF IInv, TypeOK
<1>2. \A q \in Procs : proc'[q].fd = "tmp" => proc'[q] = proc[q]
  BY <1>1
<1>3. Lengths'
  BY <1>2, LengthsKept
<1>4. Fresh'
  BY <1>1 DEF Fresh
<1>. QED
  BY <1>3, <1>4

\* A new temporary file is empty.
LEMMA CreateLengths ==
    ASSUME IInv, Lengths, Fresh, NEW p \in Procs, Create(p)
    PROVE  Lengths' /\ Fresh' /\ raced \subseteq raced'
<1> DEFINE name == Saving(p)
<1>1. /\ proc[p].stage = "save"
      /\ tmp' = Put(tmp, name, <<>>) /\ dir' = dir
      /\ proc' = [proc EXCEPT ![p].stage = "write", ![p].fd = "tmp"]
      /\ raced' = IF \E q \in Procs \ {p} : proc[q].fd = "tmp" /\ Saving(q) = name
                  THEN raced \cup {name} ELSE raced
  BY DEF Create, MaySave
<1>2. proc \in [Procs -> Prefills] /\ proc[p] \in Prefills
  BY DEF IInv, TypeOK
<1>3. /\ \A q \in Procs \ {p} : proc'[q] = proc[q]
      /\ proc'[p].stage = "write" /\ proc'[p].written = proc[p].written /\ proc'[p].todo = proc[p].todo
  BY <1>1, <1>2 DEF Prefills
<1>4. proc[p].written = 0
  BY <1>1 DEF IInv, Drafted
<1>5. \A q \in Procs : Saving(q)' = Saving(q)
  BY <1>3 DEF Saving
<1> HIDE DEF name
<1>6. /\ tmp'[name] = <<>> /\ \A m \in DOMAIN tmp : m # name => tmp'[m] = tmp[m]
  BY <1>1 DEF Put
<1>7. raced \subseteq raced'
  BY <1>1
<1>8. ASSUME NEW q \in Procs, proc'[q].fd = "tmp", Saving(q)' \notin raced'
      PROVE  Len(tmp'[Saving(q)']) = proc'[q].written
  <2>1. CASE q = p
    <3>1. Len(<<>>) = 0
      OBVIOUS
    <3>. QED
      BY <1>3, <1>4, <1>5, <1>6, <2>1, <3>1 DEF name
  <2>2. CASE q # p
    <3>1. proc[q].fd = "tmp" /\ Saving(q) \notin raced' /\ proc'[q].written = proc[q].written
      BY <1>3, <1>5, <1>8, <2>2
    <3>2. Saving(q) # name /\ Saving(q) \notin raced
      BY <1>1, <2>2, <3>1
    <3>3. Saving(q) \in DOMAIN tmp
      BY <3>1 DEF IInv, Opened
    <3>4. tmp'[Saving(q)] = tmp[Saving(q)]
      BY <1>6, <3>2, <3>3
    <3>. QED
      BY <1>5, <3>1, <3>2, <3>4 DEF Lengths
  <2>. QED
    BY <2>1, <2>2
<1>9. Lengths'
  BY <1>1, <1>7, <1>8 DEF Lengths
<1>10. Fresh'
  BY <1>3 DEF Fresh
<1>. QED
  BY <1>7, <1>9, <1>10

\* A file is as long as what was written last, if it began where the file ended.
LEMMA WriteLength ==
    ASSUME NEW file \in Files, NEW part \in Files
    PROVE  Len(WriteAt(file, Len(file), part)) = Len(file) + Len(part)
<1> DEFINE a == Len(file)
           b == a + Len(part)
           E(i) == CASE i \in a + 1 .. a + Len(part) -> part[i - a]
                     [] i <= a -> file[i]
                     [] OTHER -> Zeros
<1>1. a \in Nat /\ b \in Nat /\ a <= b
  BY DEF Files
<1>2. Max({a, b}) = b
  <2> HIDE DEF a, b
  <2>1. Max({a, b}) = IF a <= b THEN b ELSE a
    BY <1>1, MaxTwo
  <2>. QED
    BY <1>1, <2>1
<1>3. WriteAt(file, a, part) = [i \in 1 .. Max({a, b}) |-> E(i)]
  BY DEF WriteAt
<1> HIDE DEF a, b, E
<1>4. WriteAt(file, a, part) = [i \in 1 .. b |-> E(i)]
  BY <1>2, <1>3
<1>5. Len(WriteAt(file, a, part)) = b
  BY <1>1, <1>4
<1>. QED
  BY <1>5 DEF a, b

\* A write goes on from where the file ended.
LEMMA WriteLengths ==
    ASSUME IInv, Lengths, Fresh, NEW p \in Procs, Write(p)
    PROVE  Lengths' /\ Fresh'
<1> DEFINE name == Saving(p)
           from == proc[p].written
           upto == Upto(p)
           part == SubSeq(Contents(p), from + 1, upto)
           New(file) == WriteAt(file, from, part)
<1>1. /\ proc[p].stage = "write"
      /\ tmp' = IF proc[p].fd = "tmp" THEN [tmp EXCEPT ![name] = New(tmp[name])] ELSE tmp
      /\ dir' = IF proc[p].fd = "dir" THEN [dir EXCEPT ![name] = New(dir[name])] ELSE dir
      /\ proc' = [proc EXCEPT ![p].written = upto,
                              ![p].stage = IF upto = Len(name) + 1 THEN "rename" ELSE "write"]
      /\ UNCHANGED raced
  BY DEF Write, Upto
<1>2. /\ from \in Nat /\ upto \in Nat /\ part \in Files /\ Len(part) = upto - from
  BY <1>1, WriteBounds
<1>3. proc \in [Procs -> Prefills] /\ proc[p] \in Prefills
  BY DEF IInv, TypeOK
<1> HIDE DEF New, part, upto, from, name
<1>4. /\ proc'[p].written = upto /\ proc'[p].fd = proc[p].fd /\ proc'[p].todo = proc[p].todo
      /\ proc'[p].stage \in {"rename", "write"}
      /\ \A q \in Procs \ {p} : proc'[q] = proc[q]
  BY <1>1, <1>3 DEF Prefills
<1>5. \A q \in Procs : Saving(q)' = Saving(q) /\ proc'[q].fd = proc[q].fd
  BY <1>4 DEF Saving
<1>6. ASSUME NEW q \in Procs, proc'[q].fd = "tmp", Saving(q)' \notin raced'
      PROVE  Len(tmp'[Saving(q)']) = proc'[q].written
  <2>1. proc[q].fd = "tmp" /\ Saving(q) \notin raced /\ Saving(q)' = Saving(q) /\ Saving(q) \in DOMAIN tmp
    BY <1>1, <1>5, <1>6 DEF IInv, Opened
  <2>2. Len(tmp[Saving(q)]) = proc[q].written
    BY <2>1 DEF Lengths
  <2>3. CASE q = p
    <3> DEFINE file == tmp[name]
    <3>1. file \in Files
      BY <2>1, <2>3 DEF IInv, TypeOK, name
    <3>2. Len(file) = from
      BY <2>2, <2>3 DEF name, from
    <3>3. tmp'[name] = New(file)
      BY <1>1, <2>1, <2>3 DEF name
    <3> HIDE DEF file
    <3>4. Len(WriteAt(file, Len(file), part)) = Len(file) + Len(part)
      BY <1>2, <3>1, WriteLength
    <3>5. Len(New(file)) = from + Len(part)
      BY <3>2, <3>4 DEF New
    <3>6. Len(New(file)) = upto
      BY <1>2, <3>5
    <3>. QED
      BY <1>4, <2>1, <2>3, <3>3, <3>6 DEF name
  <2>4. CASE q # p
    <3>1. proc'[q].written = proc[q].written
      BY <1>4, <2>4
    <3>2. tmp'[Saving(q)] = tmp[Saving(q)]
      <4>1. CASE proc[p].fd = "tmp"
        <5>1. Saving(q) # name
          BY <2>1, <2>4, <4>1 DEF IInv, Alone, name
        <5>. QED
          BY <1>1, <4>1, <5>1
      <4>2. CASE proc[p].fd # "tmp"
        BY <1>1, <4>2
      <4>. QED
        BY <4>1, <4>2
    <3>. QED
      BY <2>1, <2>2, <3>1, <3>2
  <2>. QED
    BY <2>3, <2>4
<1>7. DOMAIN dir' = DOMAIN dir /\ \A n \in DOMAIN dir \ raced : dir'[n] = dir[n]
  <2>1. CASE proc[p].fd = "dir"
    <3>1. name \in raced
      BY <2>1 DEF IInv, Alone, name
    <3>. QED
      BY <1>1, <3>1
  <2>2. CASE proc[p].fd # "dir"
    BY <1>1, <2>2
  <2>. QED
    BY <2>1, <2>2
<1>8. Lengths'
  <2>1. IsFiniteSet(DOMAIN dir')
    BY <1>7 DEF Lengths
  <2>2. \A n \in DOMAIN dir' \ raced' : Len(dir'[n]) = Len(n) + 1
    BY <1>1, <1>7 DEF Lengths
  <2>. QED
    BY <1>6, <2>1, <2>2 DEF Lengths
<1>9. Fresh'
  BY <1>4 DEF Fresh
<1>. QED
  BY <1>8, <1>9

\* What is renamed is as long as its name says.
LEMMA RenameLengths ==
    ASSUME IInv, Lengths, Fresh, NEW p \in Procs, Rename(p)
    PROVE  Lengths' /\ Fresh'
<1> DEFINE name == Saving(p)
<1>1. /\ proc[p].stage = "rename" /\ name \in DOMAIN tmp
      /\ dir' = Put(dir, name, tmp[name]) /\ tmp' = Unlink(tmp, {name})
      /\ UNCHANGED raced
  BY DEF Rename, Exists
<1>2. /\ proc'[p].stage = "stat" /\ proc'[p].fd = "none"
      /\ \A q \in Procs \ {p} :
             /\ proc'[q].stage = proc[q].stage /\ proc'[q].written = proc[q].written
             /\ proc'[q].hit = proc[q].hit /\ proc'[q].todo = proc[q].todo
             /\ proc'[q].fd = "tmp" => proc[q].fd = "tmp" /\ Saving(q) # name
  BY RenameMoves
<1>3. name \notin raced => Len(tmp[name]) = Len(name) + 1
  <2>1. proc[p].fd # "none" /\ proc[p].written = Len(name) + 1
    BY <1>1 DEF IInv, Opened, Drafted
  <2>2. name \notin raced => proc[p].fd = "tmp"
    BY <2>1 DEF IInv, Alone
  <2>. QED
    BY <2>1, <2>2 DEF Lengths
<1> HIDE DEF name
<1>4. /\ DOMAIN dir' = DOMAIN dir \cup {name} /\ dir'[name] = tmp[name]
      /\ \A n \in DOMAIN dir : n # name => dir'[n] = dir[n]
  BY <1>1 DEF Put
<1>5. \A n \in DOMAIN tmp : n # name => tmp'[n] = tmp[n]
  BY <1>1 DEF Unlink, Restrict
<1>6. IsFiniteSet(DOMAIN dir')
  BY <1>4, FS_AddElement DEF Lengths
<1>7. \A n \in DOMAIN dir' \ raced' : Len(dir'[n]) = Len(n) + 1
  <2> SUFFICES ASSUME NEW n \in DOMAIN dir', n \notin raced PROVE Len(dir'[n]) = Len(n) + 1
    BY <1>1
  <2>1. CASE n = name
    BY <1>3, <1>4, <2>1
  <2>2. CASE n # name
    BY <1>4, <2>2 DEF Lengths
  <2>. QED
    BY <2>1, <2>2
<1>8. ASSUME NEW q \in Procs, proc'[q].fd = "tmp", Saving(q)' \notin raced'
      PROVE  Len(tmp'[Saving(q)']) = proc'[q].written
  <2>1. q # p
    BY <1>2, <1>8
  <2>2. /\ proc[q].fd = "tmp" /\ Saving(q) # name /\ Saving(q)' = Saving(q)
        /\ proc'[q].written = proc[q].written
    BY <1>2, <1>8, <2>1 DEF Saving
  <2>3. Saving(q) \in DOMAIN tmp /\ Saving(q) \notin raced
    BY <1>1, <1>8, <2>2 DEF IInv, Opened
  <2>. QED
    BY <1>5, <2>2, <2>3 DEF Lengths
<1>9. Lengths'
  BY <1>6, <1>7, <1>8 DEF Lengths
<1>10. Fresh'
  <2> SUFFICES ASSUME NEW q \in Procs, proc'[q].stage = "ready" PROVE proc'[q].hit = NoName
    BY DEF Fresh
  <2>1. q # p
    BY <1>2
  <2>. QED
    BY <1>2, <2>1 DEF Fresh
<1>. QED
  BY <1>9, <1>10

\* An eviction removes whole files.
LEMMA EnterLengths ==
    ASSUME IInv, Lengths, Fresh, NEW p \in Procs, Enter(p)
    PROVE  Lengths' /\ Fresh'
<1>1. /\ \E gone : dir' = Unlink(dir, gone)
      /\ UNCHANGED <<tmp, raced>>
  BY DEF Enter
<1>2. DOMAIN dir' \subseteq DOMAIN dir /\ \A n \in DOMAIN dir' : dir'[n] = dir[n]
  BY <1>1 DEF Unlink, Restrict
<1>3. proc'[p].stage = "save" /\ proc'[p].fd = "none"
  <2>1. proc'[p] = Saved(p) /\ proc[p] \in Prefills
    BY EnterMoves DEF IInv, TypeOK
  <2>. QED
    BY <2>1 DEF Saved, Prefills
<1>4. \A q \in Procs \ {p} : /\ proc'[q].stage = proc[q].stage /\ proc'[q].written = proc[q].written
                             /\ proc'[q].hit = proc[q].hit /\ proc'[q].todo = proc[q].todo
                             /\ proc'[q].fd = "tmp" <=> proc[q].fd = "tmp"
  BY EnterMoves
<1>5. \A q \in Procs : proc'[q].fd = "tmp" => /\ proc[q].fd = "tmp" /\ proc'[q].todo = proc[q].todo
                                              /\ proc'[q].written = proc[q].written
  BY <1>3, <1>4
<1>6. Lengths'
  BY <1>1, <1>2, <1>5, LengthsKept
<1>7. Fresh'
  <2> SUFFICES ASSUME NEW q \in Procs, proc'[q].stage = "ready" PROVE proc'[q].hit = NoName
    BY DEF Fresh
  <2>1. q # p
    BY <1>3
  <2>. QED
    BY <1>4, <2>1 DEF Fresh
<1>. QED
  BY <1>6, <1>7

\* A lookup that hits has found the first entry that has a file.
LEMMA LookupHit ==
    ASSUME IInv, NEW p \in Procs, Lookup(p)
    PROVE  \E t, hit :
               /\ proc' = [proc EXCEPT ![p].tokens = t, ![p].stage = "load", ![p].hit = hit]
               /\ hit # NoName =>
                      \E i \in DOMAIN IndexOf(p) :
                          /\ hit = IndexOf(p)[i].name
                          /\ \A j \in DOMAIN IndexOf(p) :
                                 Exists(dir, IndexOf(p)[j].name) /\ IsPrefix(IndexOf(p)[j].name, t) => i <= j
<1> DEFINE index == IndexOf(p)
           Matches(t) == {i \in DOMAIN index : Len(t) >= MinPrefixLen /\ IsPrefix(index[i].name, t)}
           Found(t) == {i \in Matches(t) : Exists(dir, index[i].name)}
           Tried(t) == {i \in Matches(t) : \A j \in Found(t) : i <= j}
           Hits(t) == IF Found(t) = {} THEN {NoName} ELSE {index[i].name : i \in Found(t) \cap Tried(t)}
           Went(t, hit) == proc' = [proc EXCEPT ![p].tokens = t, ![p].stage = "load", ![p].hit = hit]
           First(t, i) == \A j \in DOMAIN index :
                              Exists(dir, index[j].name) /\ IsPrefix(index[j].name, t) => i <= j
<1>1. \E t \in Prompts : \E hit \in Hits(t) : Went(t, hit)
  BY Zenon DEF Lookup
<1>2. ASSUME NEW t, NEW hit \in Hits(t), hit # NoName
      PROVE  \E i \in DOMAIN index : hit = index[i].name /\ First(t, i)
  <2>1. PICK i \in Found(t) \cap Tried(t) : hit = index[i].name
    BY <1>2
  <2>2. i \in DOMAIN index /\ Len(t) >= MinPrefixLen /\ \A j \in Found(t) : i <= j
    BY <2>1
  <2>3. First(t, i)
    BY <2>2
  <2>. QED
    BY <2>1, <2>2, <2>3
<1> HIDE DEF Hits, First
<1>3. PICK t \in Prompts : \E hit \in Hits(t) : Went(t, hit)
  BY <1>1
<1>4. PICK hit \in Hits(t) : Went(t, hit)
  BY <1>3
<1>5. hit # NoName => \E i \in DOMAIN index : hit = index[i].name /\ First(t, i)
  BY <1>2
<1>. QED
  BY <1>4, <1>5 DEF First

\* The steps of the prefill p.
Own(p) == \/ Lookup(p) \/ LoadAndPrefill(p) \/ PrefillDone(p)
          \/ Skip(p) \/ Create(p) \/ Write(p) \/ SaveFails(p) \/ Rename(p) \/ Enter(p)

\* A step of another prefill leaves p where it is, and a crash makes it idle.
LEMMA Others ==
    ASSUME IInv, Next, NEW p \in Procs
    PROVE  \/ Own(p)
           \/ proc'[p].stage = proc[p].stage /\ proc'[p].hit = proc[p].hit
           \/ proc'[p] = Idle
<1>1. proc \in [Procs -> Prefills]
  BY DEF IInv, TypeOK
<1>2. ASSUME NEW q \in Procs, NEW r, proc' = [proc EXCEPT ![q] = r] PROVE q = p \/ proc'[p] = proc[p]
  BY <1>1, <1>2
<1>3. ASSUME NEW q \in Procs, Lookup(q) PROVE q = p \/ proc'[p] = proc[p]
  <2>1. PICK t, hit :
            proc' = [proc EXCEPT ![q].tokens = t, ![q].stage = "load", ![q].hit = hit]
    BY <1>3, LookupHit
  <2>. QED
    BY <1>1, <2>1
<1>4. ASSUME NEW q \in Procs,
             LoadAndPrefill(q) \/ PrefillDone(q) \/ Skip(q) \/ Create(q) \/ Write(q) \/ SaveFails(q)
      PROVE  q = p \/ proc'[p] = proc[p]
  <2>1. LoadAndPrefill(q) \/ PrefillDone(q) => \A x \in Procs \ {q} : proc'[x] = proc[x]
    BY <1>1 DEF LoadAndPrefill, PrefillDone
  <2>2. Skip(q) \/ SaveFails(q) => \A x \in Procs \ {q} : proc'[x] = proc[x]
    BY <1>1 DEF Skip, SaveFails
  <2>3. Create(q) => \A x \in Procs \ {q} : proc'[x] = proc[x]
    BY <1>1 DEF Create
  <2>4. Write(q) => \A x \in Procs \ {q} : proc'[x] = proc[x]
    BY <1>1 DEF Write
  <2>. QED
    BY <1>4, <2>1, <2>2, <2>3, <2>4
<1>5. ASSUME NEW q \in Procs, Rename(q) \/ Enter(q)
      PROVE  q = p \/ (proc'[p].stage = proc[p].stage /\ proc'[p].hit = proc[p].hit)
  BY <1>5, RenameMoves, EnterMoves
<1>6. ASSUME NEW c \in Owners, Start(c) PROVE proc'[p] = proc[p]
  BY <1>6 DEF Start
<1>7. ASSUME NEW c \in Owners, Crash(c) PROVE proc'[p] = proc[p] \/ proc'[p] = Idle
  BY <1>7 DEF Crash
<1>8. ASSUME NEW q \in Procs, Prefill(q) \/ ConcurrentPrefill(q) PROVE LoadAndPrefill(q)
  BY <1>8 DEF Prefill, ConcurrentPrefill
<1>. QED
  BY <1>3, <1>4, <1>5, <1>6, <1>7, <1>8 DEF Next, Own

\* At first there are no files, and no index.
LEMMA InitIndex ==
    ASSUME Init
    PROVE  IndexInv
<1>1. /\ proc = [p \in Procs |-> Idle] /\ dir = Restrict(<<>>, {})
      /\ cache = [c \in Owners |-> Off] /\ raced = {}
  BY DEF Init
<1>2. DOMAIN dir = {} /\ IsFiniteSet(DOMAIN dir)
  BY <1>1, FS_EmptySet DEF Restrict
<1>3. Off \in Processes /\ Off.index = <<>>
  BY EmptySeq DEF Off, Processes
<1>4. Ordered(<<>>) /\ Right(<<>>, raced)
  BY DEF Ordered, Right
<1> HIDE DEF Off
<1>5. Indexed
  BY <1>1, <1>3, <1>4 DEF Indexed
<1>6. Idle.fd = "none" /\ Idle.hit = NoName
  BY DEF Idle
<1> HIDE DEF Idle
<1>7. Lengths
  BY <1>1, <1>2, <1>6 DEF Lengths
<1>8. Fresh
  BY <1>1, <1>6 DEF Fresh
<1>. QED
  BY <1>5, <1>7, <1>8 DEF IndexInv

\* The steps that no file and no index takes part in.
LEMMA QuietIndex ==
    ASSUME IInv, IndexInv, NEW p \in Procs,
           LoadAndPrefill(p) \/ PrefillDone(p) \/ Skip(p) \/ SaveFails(p)
    PROVE  IndexInv'
<1>1. UNCHANGED <<concurrent, dir, tmp, cache, raced>>
  BY DEF LoadAndPrefill, PrefillDone, Skip, SaveFails
<1>2. Indexed'
  BY <1>1, CacheKept DEF IndexInv
<1>3. proc[p] \in Prefills
  BY DEF IInv, TypeOK
<1>4. \E r : proc' = [proc EXCEPT ![p] = r] /\ r.fd # "tmp" /\ (r.stage = "ready" => r.hit = NoName)
  <2>1. ASSUME LoadAndPrefill(p)
        PROVE  \E r : proc' = [proc EXCEPT ![p] = r] /\ r.fd # "tmp" /\ (r.stage = "ready" => r.hit = NoName)
    <3>1. PICK kv, todo : proc' = [proc EXCEPT ![p].stage = "save", ![p].kv = kv, ![p].todo = todo]
      BY <2>1 DEF LoadAndPrefill
    <3> DEFINE r == [proc[p] EXCEPT !.stage = "save", !.kv = kv, !.todo = todo]
    <3>2. proc' = [proc EXCEPT ![p] = r]
      BY <3>1
    <3>3. proc[p].fd = "none"
      BY <1>3, <2>1 DEF IInv, Opened, LoadAndPrefill, Prefills
    <3>4. r.fd = "none" /\ r.stage = "save"
      BY <1>3, <3>3 DEF Prefills
    <3> HIDE DEF r
    <3>. QED
      BY <3>2, <3>4
  <2>2. ASSUME PrefillDone(p)
        PROVE  \E r : proc' = [proc EXCEPT ![p] = r] /\ r.fd # "tmp" /\ (r.stage = "ready" => r.hit = NoName)
    <3> DEFINE r == [proc[p] EXCEPT !.stage = "ready", !.kv = Empty, !.tokens = <<>>, !.hit = NoName]
    <3>1. proc' = [proc EXCEPT ![p] = r] /\ proc[p].stage = "save"
      BY <2>2 DEF PrefillDone
    <3>2. proc[p].fd = "none"
      BY <1>3, <3>1 DEF IInv, Opened, Prefills
    <3>3. r.fd = "none" /\ r.hit = NoName
      BY <1>3, <3>2 DEF Prefills
    <3> HIDE DEF r
    <3>. QED
      BY <3>1, <3>3
  <2>3. ASSUME Skip(p) \/ SaveFails(p)
        PROVE  \E r : proc' = [proc EXCEPT ![p] = r] /\ r.fd # "tmp" /\ (r.stage = "ready" => r.hit = NoName)
    <3>1. proc' = [proc EXCEPT ![p] = Saved(p)]
      BY <2>3 DEF Skip, SaveFails
    <3>2. Saved(p).fd = "none" /\ Saved(p).stage = "save"
      BY <1>3 DEF Saved, Prefills
    <3>. QED
      BY <3>1, <3>2
  <2>. QED
    BY <2>1, <2>2, <2>3
<1>5. Lengths' /\ Fresh'
  BY <1>1, <1>4, OneKept DEF IndexInv
<1>. QED
  BY <1>2, <1>5 DEF IndexInv

\* Every step keeps the indexes and the lengths.
LEMMA IndexStep ==
    ASSUME IInv, IndexInv, Next
    PROVE  IndexInv'
<1>1. ASSUME NEW p \in Procs, Lookup(p) PROVE IndexInv'
  <2>1. Indexed' /\ UNCHANGED <<dir, tmp, raced>>
    BY <1>1, LookupIndex DEF IndexInv, Lookup
  <2>2. proc[p] \in Prefills /\ proc[p].stage = "ready" /\ proc[p].fd = "none"
    BY <1>1 DEF IInv, TypeOK, Opened, Lookup, Prefills
  <2>3. PICK t, hit :
            proc' = [proc EXCEPT ![p].tokens = t, ![p].stage = "load", ![p].hit = hit]
    BY <1>1, LookupHit
  <2> DEFINE r == [proc[p] EXCEPT !.tokens = t, !.stage = "load", !.hit = hit]
  <2>4. proc' = [proc EXCEPT ![p] = r]
    BY <2>3
  <2>5. r.fd = "none" /\ r.stage = "load"
    BY <2>2 DEF Prefills
  <2> HIDE DEF r
  <2>6. Lengths' /\ Fresh'
    BY <2>1, <2>4, <2>5, OneKept DEF IndexInv
  <2>. QED
    BY <2>1, <2>6 DEF IndexInv
<1>2. ASSUME NEW p \in Procs, Prefill(p) \/ ConcurrentPrefill(p) PROVE IndexInv'
  BY <1>2, QuietIndex DEF Prefill, ConcurrentPrefill
<1>3. ASSUME NEW p \in Procs, PrefillDone(p) \/ Skip(p) \/ SaveFails(p) PROVE IndexInv'
  BY <1>3, QuietIndex
<1>4. ASSUME NEW p \in Procs, Create(p) PROVE IndexInv'
  <2>1. Lengths' /\ Fresh' /\ raced \subseteq raced'
    BY <1>4, CreateLengths DEF IndexInv
  <2>2. Indexed'
    BY <1>4, <2>1, CacheKept DEF IndexInv, Create
  <2>. QED
    BY <2>1, <2>2 DEF IndexInv
<1>5. ASSUME NEW p \in Procs, Write(p) \/ Rename(p) PROVE IndexInv'
  <2>1. Lengths' /\ Fresh'
    BY <1>5, WriteLengths, RenameLengths DEF IndexInv
  <2>2. Indexed'
    BY <1>5, CacheKept DEF IndexInv, Write, Rename
  <2>. QED
    BY <2>1, <2>2 DEF IndexInv
<1>6. ASSUME NEW p \in Procs, Enter(p) PROVE IndexInv'
  BY <1>6, EnterIndex, EnterLengths DEF IndexInv
<1>7. ASSUME NEW c \in Owners, Start(c) PROVE IndexInv'
  <2>1. UNCHANGED <<dir, tmp, proc, raced>>
    BY <1>7 DEF Start
  <2>2. Lengths' /\ Fresh'
    BY <2>1, LengthsKept DEF IndexInv, Fresh
  <2>3. Indexed'
    BY <1>7, StartIndex DEF IndexInv
  <2>. QED
    BY <2>2, <2>3 DEF IndexInv
<1>8. ASSUME NEW c \in Owners, Crash(c) PROVE IndexInv'
  <2>1. /\ cache' = [cache EXCEPT ![c] = Off]
        /\ proc' = [p \in Procs |-> IF Owner(p) = c THEN Idle ELSE proc[p]]
        /\ UNCHANGED <<concurrent, dir, tmp, raced>>
    BY <1>8 DEF Crash
  <2>2. Off \in Processes /\ Off.index = <<>>
    BY EmptySeq DEF Off, Processes
  <2>3. Ordered(<<>>) /\ Right(<<>>, raced)
    BY DEF Ordered, Right
  <2> HIDE DEF Off
  <2>4. Indexed'
    BY <2>1, <2>2, <2>3, CacheStep DEF IndexInv
  <2>5. Idle.fd = "none" /\ Idle.hit = NoName
    BY DEF Idle
  <2>6. \A p \in Procs : proc'[p] = Idle \/ proc'[p] = proc[p]
    BY <2>1
  <2> HIDE DEF Idle
  <2>7. Lengths'
    BY <2>1, <2>5, <2>6, LengthsKept DEF IndexInv
  <2>8. Fresh'
    BY <2>5, <2>6 DEF IndexInv, Fresh
  <2>. QED
    BY <2>4, <2>7, <2>8 DEF IndexInv
<1>. QED
  BY <1>1, <1>2, <1>3, <1>4, <1>5, <1>6, <1>7, <1>8 DEF Next

---------------------------------------------------------------------------
(* The theorems about the index *)

\* The invariant of the index holds in every state, for any processes and limits.
THEOREM IndexIsKept == Spec => []IndexInv
<1>1. Init => IndexInv
  BY InitIndex
<1>2. IInv /\ IndexInv /\ [Next]_vars => IndexInv'
  <2> SUFFICES ASSUME IInv, IndexInv, [Next]_vars PROVE IndexInv'
    OBVIOUS
  <2>1. CASE Next
    BY <2>1, IndexStep
  <2>2. CASE UNCHANGED vars
    <3>1. UNCHANGED <<concurrent, dir, tmp, proc, cache, raced>>
      BY <2>2 DEF vars
    <3>2. Lengths' /\ Fresh'
      BY <3>1, LengthsKept DEF IndexInv, Fresh
    <3>3. Indexed'
      BY <3>1, CacheKept DEF IndexInv
    <3>. QED
      BY <3>2, <3>3 DEF IndexInv
  <2>. QED
    BY <2>1, <2>2
<1>. QED
  BY <1>1, <1>2, Inductive, PTL DEF Spec

\* The first entry that has a file is the longest.
LEMMA HitStep ==
    ASSUME IInv, IndexInv, Next, NEW p \in Procs, proc[p].stage = "ready", proc'[p].hit # NoName,
           NEW e \in ToSet(IndexOf(p)), Exists(dir, e.name), IsPrefix(e.name, proc'[p].tokens)
    PROVE  Len(e.name) <= Len(proc'[p].hit)
<1> DEFINE s == IndexOf(p)
<1>1. Lookup(p)
  <2>1. proc[p].hit = NoName /\ Idle.hit = NoName
    BY DEF IndexInv, Fresh, Idle
  <2>2. Own(p)
    BY <2>1, Others
  <2>3. \/ Lookup(p)
        \/ proc[p].stage \in {"load", "save", "write", "rename", "stat"}
    BY <2>2 DEF Own, LoadAndPrefill, PrefillDone, Skip, Create, MaySave, Write, SaveFails, Rename, Enter
  <2>. QED
    BY <2>3
<1>2. s \in Seq(Entries) /\ Ordered(s)
  BY DEF IndexInv, Indexed, Processes, IndexOf, Owners
<1>3. PICK t, hit :
          /\ proc' = [proc EXCEPT ![p].tokens = t, ![p].stage = "load", ![p].hit = hit]
          /\ hit # NoName =>
                 \E i \in DOMAIN s :
                     /\ hit = s[i].name
                     /\ \A j \in DOMAIN s : Exists(dir, s[j].name) /\ IsPrefix(s[j].name, t) => i <= j
  BY <1>1, LookupHit
<1>4. proc'[p].tokens = t /\ proc'[p].hit = hit
  BY <1>3 DEF IInv, TypeOK, Prefills
<1>5. PICK i \in DOMAIN s : /\ hit = s[i].name
                            /\ \A j \in DOMAIN s : Exists(dir, s[j].name) /\ IsPrefix(s[j].name, t) => i <= j
  BY <1>3, <1>4
<1>6. PICK j \in DOMAIN s : e = s[j]
  BY DEF ToSet
<1> HIDE DEF s
<1>7. /\ DOMAIN s = 1 .. Len(s) /\ Len(s) \in Nat /\ Len(s[i].name) \in Nat
  BY <1>2, EntryFacts
<1>8. i <= j
  BY <1>4, <1>5, <1>6
<1>9. i < j => Len(s[j].name) <= Len(s[i].name)
  BY <1>2, <1>7 DEF Ordered
<1>. QED
  BY <1>4, <1>5, <1>6, <1>7, <1>8, <1>9

\* A hit is the longest prefix of the prompt that the process knows and finds, whatever
\* other processes add and remove.
THEOREM HitsAreLongest == Spec => LongestHit
<1> DEFINE A == \A p \in Procs : proc[p].stage = "ready" /\ proc'[p].hit # NoName =>
                    \A e \in ToSet(IndexOf(p)) :
                        Exists(dir, e.name) /\ IsPrefix(e.name, proc'[p].tokens)
                        => Len(e.name) <= Len(proc'[p].hit)
<1>1. IInv /\ IndexInv /\ [Next]_vars => [A]_vars
  BY HitStep
<1>. QED
  BY <1>1, Inductive, IndexIsKept, PTL DEF Spec, LongestHit

\* A save that has evicted what it could leaves no more than the limit.
LEMMA SizeStep ==
    ASSUME IInv, IndexInv, Next, NEW p \in Procs, proc[p].stage = "stat", proc'[p].stage = "save",
           cache' # cache
    PROVE  LET known == {e.name : e \in ToSet(IndexOf(p)')} \cap (DOMAIN dir' \ raced)
           IN  Cardinality(UNION {{n} \X DOMAIN dir'[n] : n \in known}) <= MaxSize
<1> DEFINE s == Index(p)
           u == IndexOf(p)'
           known == {e.name : e \in ToSet(u)} \cap (DOMAIN dir' \ raced)
<1>1. Enter(p)
  <2>1. Idle.stage = "ready"
    BY DEF Idle
  <2>2. Own(p)
    BY <2>1, Others
  <2>3. \/ Enter(p)
        \/ proc[p].stage \in {"ready", "load", "save", "write", "rename"}
        \/ cache' = cache
    BY <2>2 DEF Own, Lookup, LoadAndPrefill, PrefillDone, Skip, Create, MaySave, Write, SaveFails, Rename
  <2>. QED
    BY <2>3
<1>2. Exists(dir, Saving(p)) /\ dir' = Unlink(dir, Evicted(s)) /\ raced' = raced
  BY <1>1 DEF Enter
<1>3. s \in Seq(Entries) /\ Right(s, raced)
  BY <1>2, IndexFacts DEF IndexInv
<1>4. \A i \in 1 .. Len(u) : \E j \in 1 .. Len(s) : u[i] = s[j]
  BY <1>1, EnterIndex DEF IndexInv
<1>5. DOMAIN u = 1 .. Len(u)
  <2>1. concurrent' = concurrent
    BY <1>1 DEF Enter
  <2>2. Indexed' /\ Owner(p)' \in Owners'
    BY <1>1, EnterIndex DEF IndexInv, Owners
  <2>3. u \in Seq(Entries)
    BY <2>2 DEF Indexed, Processes, IndexOf
  <2>. QED
    BY <2>3, EntryFacts
<1> HIDE DEF s, u
<1>6. DOMAIN dir' = DOMAIN dir \ Evicted(s) /\ \A n \in DOMAIN dir' : dir'[n] = dir[n]
  BY <1>2 DEF Unlink, Restrict
<1>7. ASSUME NEW n \in known
      PROVE  /\ n \in DOMAIN dir /\ n \notin Evicted(s) /\ dir'[n] = dir[n]
             /\ \E j \in 1 .. Len(s) : s[j].name = n /\ DOMAIN dir[n] = 1 .. s[j].size
  <2>1. n \in DOMAIN dir' /\ n \notin raced
    OBVIOUS
  <2>2. PICK e \in ToSet(u) : n = e.name
    OBVIOUS
  <2>3. PICK i \in 1 .. Len(u) : e = u[i]
    BY <1>5, <2>2 DEF ToSet
  <2>4. PICK j \in 1 .. Len(s) : s[j].name = n
    BY <1>4, <2>2, <2>3
  <2>5. n \in DOMAIN dir /\ n \notin Evicted(s) /\ dir'[n] = dir[n]
    BY <1>6, <2>1
  <2>6. s[j].size = Len(n) + 1
    BY <1>3, <2>1, <2>4 DEF Right
  <2>7. Len(dir[n]) = Len(n) + 1
    BY <2>1, <2>5 DEF IndexInv, Lengths
  <2>8. DOMAIN dir[n] = 1 .. Len(dir[n])
    <3>1. dir[n] \in Seq(Pairs)
      BY <2>5 DEF IInv, TypeOK, Files
    <3>. QED
      BY <3>1, LenProperties
  <2>. QED
    BY <2>4, <2>5, <2>6, <2>7, <2>8
<1> HIDE DEF known
<1>8. UNION {{n} \X DOMAIN dir'[n] : n \in known} = UNION {{n} \X DOMAIN dir[n] : n \in known}
  <2>1. \A n \in known : dir'[n] = dir[n]
    BY <1>7
  <2>2. {{n} \X DOMAIN dir'[n] : n \in known} = {{n} \X DOMAIN dir[n] : n \in known}
    BY ONLY <2>1, ZenonT(30)
  <2>. QED
    BY <2>2
<1>9. Cardinality(UNION {{n} \X DOMAIN dir[n] : n \in known}) <= MaxSize
  <2>1. known \subseteq DOMAIN dir
    BY <1>7
  <2>. QED
    BY <1>3, <1>7, <2>1, EvictedFits
<1>. QED
  BY <1>8, <1>9 DEF known, u

\* A save leaves what the process knows within the limit, whatever has been removed
\* and added in the meantime.
THEOREM SavesAreWithinLimit == Spec => WithinMaxSize
<1> DEFINE A == \A p \in Procs :
                    proc[p].stage = "stat" /\ proc'[p].stage = "save" /\ cache' # cache =>
                        LET known == {e.name : e \in ToSet(IndexOf(p)')} \cap (DOMAIN dir' \ raced)
                        IN  Cardinality(UNION {{n} \X DOMAIN dir'[n] : n \in known}) <= MaxSize
<1>1. IInv /\ IndexInv /\ [Next]_vars => [A]_vars
  <2> SUFFICES ASSUME IInv, IndexInv, Next PROVE A
    OBVIOUS
  <2>. QED
    BY SizeStep
<1>. QED
  BY <1>1, Inductive, IndexIsKept, PTL DEF Spec, WithinMaxSize

=============================================================================
