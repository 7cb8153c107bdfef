----------------------------- MODULE ForwardPass -----------------------------
(***************************************************************************)
(* A forward pass, layer by layer (generic_model.rs, generic_layer.rs and  *)
(* generic_attention of backend_common), and the operations of the CPU     *)
(* backend that start one on a cache (cpu_backend.rs).                     *)
(*                                                                         *)
(* A row of hidden values is the expression that computed it: the row of a *)
(* token after a layer names the rows it was made from, in order, and the  *)
(* angles they were rotated by.  Two rows are the same numbers if they are *)
(* the same expression.  What mixes no tokens (norms, projections,         *)
(* residuals, the feed-forward part) is left out of it.                    *)
(***************************************************************************)
EXTENDS Integers, Sequences, SequencesExt, FiniteSetsExt

CONSTANTS
    Networks,       \* the models that may be loaded: see PassAssumption
    Tokens,
    Prompts,        \* prompts: sequences of tokens and images
    ConvLCache,     \* conv_l_cache
    SlidingPeriod,  \* every how many layers one is not sliding: 6
    MaxPos,         \* max_position_embeddings
    MaxChunk,       \* chunks of a prefill
    MaxText,        \* bound: rows a cache is of
    MaxFolded       \* bound: rows folded into a recurrent state

\* The block of a layer: LayerBlock.
Blocks == {"attn", "conv", "deltanet"}
\* The recurrent layers of a model are of one kind (loader_common.rs 1017), and the
\* only one with two tables of cosines, Gemma3, has no MRoPE.  deepstack is how many
\* layers the features of an image go to.
IsNetwork(m) ==
    /\ m.blocks \in Seq(Blocks) \ {<<>>}
    /\ \/ \A l \in DOMAIN m.blocks : m.blocks[l] # "conv"
       \/ \A l \in DOMAIN m.blocks : m.blocks[l] # "deltanet"
    /\ m.dual \in BOOLEAN /\ m.mrope \in BOOLEAN /\ (m.mrope => ~m.dual)
    /\ m.deepstack \in Nat
\* What a prompt is made of: tokens, and images, which are known by their grids.
Pieces == [tok : Tokens \cup {0}, grid : (Nat \ {0}) \X (Nat \ {0})]
ASSUME PassAssumption ==
    /\ \A m \in Networks : IsNetwork(m)
    /\ Tokens \subseteq Nat \ {0}
    /\ Prompts \subseteq Seq(Pieces)
    /\ {ConvLCache, SlidingPeriod, MaxPos} \subseteq Nat \ {0} /\ MaxChunk \in Nat
    /\ MaxText \in Nat /\ MaxFolded \in Nat

VARIABLES
    model,
    kv,     \* CpuKvCache: data and recurrent state of each layer, seq_len,
            \* text_pos, bidirectional
    pass,   \* the pass in progress; pass.next = 0 if there is none
    text,   \* (history) what was fed: tokens and patches, with their positions
    abs,    \* (history) the cache as KvCache keeps it, fed the same tokens
    out     \* the rows a pass that has ended gave

vars == <<model, kv, pass, text, abs, out>>

Cache == INSTANCE KvCache WITH SinkCount <- 0, RecentWindow <- 1,
                               HysteresisDiv <- 1, HysteresisMax <- 0

NumLayers == Len(model.blocks)
Layers == 1 .. NumLayers

---------------------------------------------------------------------------
(* Rows *)

Embed(what) == [op |-> "embed", of |-> what, over |-> <<>>]
Zero == [op |-> "zero", of |-> <<>>, over |-> <<>>]
Mix(op, rows) == [op |-> op, of |-> <<>>, over |-> rows]
KeyValue(x, angle) == [op |-> "kv", of |-> angle, over |-> <<x>>]
Attention(x, angle, entries) == [op |-> "attn", of |-> angle, over |-> <<x>> \o entries]
AddFeature(what, x) == [op |-> "deepstack", of |-> what, over |-> <<x>>]

\* The last n of a sequence, with zeros before its first.
LastOf(s, n) == [i \in 1 .. n |-> LET j == Len(s) - n + i IN IF j > 0 THEN s[j] ELSE Zero]

\* Position3D: (t, h, w).
TextPosition(p) == <<p, p, p>>
ImagePosition(row, col) == <<0, row, col>>

\* Which cosines and sines a layer reads: 1 for those of a sliding layer.
IsSliding(m, l) == m.dual /\ l % SlidingPeriod # 0
RopeCache(m, l) == IF IsSliding(m, l) THEN 1 ELSE 0

\* The patches of an image, row by row.
Patches(image) ==
    [k \in 1 .. image.grid[1] * image.grid[2] |->
        [what |-> <<0, k>>,
         pos  |-> ImagePosition((k - 1) \div image.grid[2], (k - 1) % image.grid[2])]]

\* build_vl_position_ids and build_vl_embeddings: text counts on after an image.
Then(acc, piece) ==
    IF piece.tok # 0
    THEN [items |-> Append(acc.items, [what |-> <<piece.tok>>, pos |-> TextPosition(acc.text_pos)]),
          text_pos |-> acc.text_pos + 1]
    ELSE [items |-> acc.items \o Patches(piece), text_pos |-> acc.text_pos]
Expand(prompt) ==
    LET upto[i \in 0 .. Len(prompt)] ==
            IF i = 0 THEN [items |-> <<>>, text_pos |-> 0] ELSE Then(upto[i - 1], prompt[i])
    IN upto[Len(prompt)]

\* Tokens at positions p, p + 1, ...
TextItems(toks, p) ==
    [i \in DOMAIN toks |-> [what |-> <<toks[i]>>, pos |-> TextPosition(p + i - 1)]]

IsImage(what) == what[1] = 0

---------------------------------------------------------------------------
(* What the rows should be: all layers, from scratch, over the whole text *)

\* The block of layer l of m for row i of x.  A pass that keeps nothing, one for
\* an embedding, reads the main cosines in all layers.
ScratchBlock(m, items, bidirectional, keeps, l, x, i) ==
    LET Turned(j) == <<IF keeps THEN RopeCache(m, l) ELSE 0>> \o items[j].pos
    IN CASE m.blocks[l] = "conv" -> Mix("conv", LastOf(SubSeq(x, 1, i), ConvLCache))
         [] m.blocks[l] = "deltanet" -> Mix("deltanet", SubSeq(x, 1, i))
         [] OTHER -> Attention(x[i], Turned(i),
                         [j \in 1 .. (IF bidirectional THEN Len(items) ELSE i) |->
                             KeyValue(x[j], Turned(j))])
ScratchLayer(m, items, bidirectional, keeps, l, x) ==
    [i \in 1 .. Len(items) |->
        LET row == ScratchBlock(m, items, bidirectional, keeps, l, x, i)
        IN IF m.mrope /\ IsImage(items[i].what) /\ l <= m.deepstack
           THEN AddFeature(items[i].what, row) ELSE row]
\* The rows after each layer; those after none are embeddings.
Scratch(m, items, bidirectional, keeps) ==
    LET rows[l \in 0 .. Len(m.blocks)] ==
            IF l = 0 THEN [i \in 1 .. Len(items) |-> Embed(items[i].what)]
            ELSE ScratchLayer(m, items, bidirectional, keeps, l, rows[l - 1])
    IN rows

---------------------------------------------------------------------------
(* A pass over the layers *)

\* The input of the next layer: layers read a and write b, read b and write a.
In(p) == IF p.next % 2 = 1 THEN p.a ELSE p.b
Wrote(p, rows) == IF p.next % 2 = 1 THEN [p EXCEPT !.b = rows, !.next = @ + 1]
                                    ELSE [p EXCEPT !.a = rows, !.next = @ + 1]
\* MUTANT: the other buffer.
Result_A(p) == p.a
\* The result is in a if the number of layers is even.
Result(p) == IF NumLayers % 2 = 0 THEN p.a ELSE p.b

Angle(p, l, i) == <<IF p.main THEN 0 ELSE RopeCache(model, l)>> \o p.items[i].pos
KeyValues(p, l, x) == [i \in DOMAIN x |-> KeyValue(x[i], Angle(p, l, i))]
Appended(l, new) == kv.data[l] \o new

\* Row i sees the rows before it in the cache and in the pass, or all.
Kernel(p, l, x, entries) ==
    LET Seen(i) == IF kv.bidirectional THEN Len(entries) ELSE Min({p.start + i, Len(entries)})
    IN [i \in DOMAIN x |-> Attention(x[i], Angle(p, l, i), SubSeq(entries, 1, Seen(i)))]

\* All keys go to the cache before any is read.
AttentionPrefill(p, l, x) ==
    LET entries == Appended(l, KeyValues(p, l, x))
    IN [data |-> entries, state |-> kv.state[l], rows |-> Kernel(p, l, x, entries)]

\* The same in two: queries, keys and values; then the cache and the kernel.
PhaseA(p, l, x) == [x |-> x, new |-> KeyValues(p, l, x)]
PhaseB(p, l, a) ==
    LET entries == Appended(l, a.new)
    IN [data |-> entries, state |-> kv.state[l], rows |-> Kernel(p, l, a.x, entries)]

AttentionDecode(p, l, x) ==
    LET entries == Appended(l, KeyValues(p, l, x))
    IN [data |-> entries, state |-> kv.state[l],
        rows |-> <<Attention(x[1], Angle(p, l, 1), entries)>>]

\* The convolution of a prefill looks at the rows of this pass alone.
ConvPrefill(l, x) ==
    [data |-> kv.data[l], state |-> LastOf(x, ConvLCache),
     rows |-> [i \in DOMAIN x |-> Mix("conv", LastOf(SubSeq(x, 1, i), ConvLCache))]]

ConvDecode(l, x) ==
    LET state == Tail(kv.state[l]) \o x
    IN [data |-> kv.data[l], state |-> state, rows |-> <<Mix("conv", state)>>]

\* The recurrent state is known by the rows folded into it, one after the other.
RecurrentSteps(state, rows) == state \o rows
DeltanetPrefill(l, x) ==
    LET After(i) == RecurrentSteps(kv.state[l], SubSeq(x, 1, i))
    IN [data |-> kv.data[l], state |-> After(Len(x)),
        rows |-> [i \in DOMAIN x |-> Mix("deltanet", After(i))]]
DeltanetDecode(l, x) ==
    LET state == RecurrentSteps(kv.state[l], x)
    IN [data |-> kv.data[l], state |-> state, rows |-> <<Mix("deltanet", state)>>]

ForwardPrefill(p, l, x) ==
    CASE model.blocks[l] = "attn" -> AttentionPrefill(p, l, x)
      [] model.blocks[l] = "conv" -> ConvPrefill(l, x)
      [] model.blocks[l] = "deltanet" -> DeltanetPrefill(l, x)
ForwardPhaseA(p, l, x) == PhaseA(p, l, x)
ForwardPhaseB(p, l, a) == PhaseB(p, l, a)
ForwardDecode(p, l, x) ==
    CASE model.blocks[l] = "attn" -> AttentionDecode(p, l, x)
      [] model.blocks[l] = "conv" -> ConvDecode(l, x)
      [] model.blocks[l] = "deltanet" -> DeltanetDecode(l, x)

\* DeepStackInfo: the features of layer l go to the rows of the images.
Inject(p, l, rows) ==
    [i \in DOMAIN rows |->
        IF l <= p.features /\ IsImage(p.items[i].what)
        THEN AddFeature(p.items[i].what, rows[i]) ELSE rows[i]]

---------------------------------------------------------------------------
(* The passes of GenericModel: what each is given, reads and leaves *)

NoPass == [items |-> <<>>, start |-> 0, next |-> 0, a |-> <<>>, b |-> <<>>, main |-> FALSE,
           form |-> "prefill", features |-> 0, keeps |-> TRUE, all |-> FALSE,
           rest |-> <<>>, size |-> 0, text_pos |-> 0]

Fits(start, n) == n > 0 /\ start + n <= MaxPos

Run(items, start) ==
    [items |-> items, start |-> start, next |-> 1,
     a |-> [i \in DOMAIN items |-> Embed(items[i].what)], b |-> <<>>, main |-> FALSE,
     form |-> "prefill", features |-> 0, keeps |-> TRUE, all |-> FALSE,
     rest |-> <<>>, size |-> 0, text_pos |-> kv.text_pos]

\* A pass that is refused is no pass, and leaves the cache alone.
Pass(items, start) == IF Fits(start, Len(items)) THEN Run(items, start) ELSE NoPass

PrefillWithToken(toks, start) == Pass(TextItems(toks, start), start)

\* The callbacks before and after each layer: none is given in this repository.
PrefillWithTokenLayerHooks(toks, start) ==
    [Pass(TextItems(toks, start), start) EXCEPT !.form = "hooks"]

\* A chunk of a prompt; the rest waits.  All chunks fit, or none.
Chunk(toks, size, start) ==
    LET end == Min({size, Len(toks)})
    IN [PrefillWithToken(SubSeq(toks, 1, end), start) EXCEPT
            !.rest = SubSeq(toks, end + 1, Len(toks)), !.size = size]
PrefillWithTokenChunked(toks, size) ==
    IF kv.seq_len + Len(toks) > MaxPos THEN NoPass
    ELSE IF size = 0 \/ size >= Len(toks) THEN PrefillWithToken(toks, 0)
    ELSE Chunk(toks, size, 0)

DecodeStep(tok) ==
    [Pass(TextItems(<<tok>>, kv.seq_len), kv.seq_len) EXCEPT !.form = "decode"]

VerifyDraftTokens(toks, start) == [PrefillWithToken(toks, start) EXCEPT !.all = TRUE]

\* The cosines and sines are made for the positions given, for every layer.
PrefillWithEmbedsMrope(items, features, start) ==
    [Pass(items, start) EXCEPT !.main = TRUE, !.features = features]
PrefillWithEmbedsMropeLayerHooks(items, start) ==
    [Pass(items, start) EXCEPT !.main = TRUE, !.form = "hooks"]
VerifyDraftTokensMrope(toks, text_pos, start) ==
    [Pass(TextItems(toks, text_pos), start) EXCEPT !.main = TRUE, !.all = TRUE]

DecodeStepMrope(tok) ==
    [Pass(TextItems(<<tok>>, kv.text_pos), kv.seq_len) EXCEPT
        !.main = TRUE, !.form = "decode", !.text_pos = kv.text_pos + 1]

\* One place in the text to each row, patches too.
PrefillWithEmbeds(whats, start) ==
    Pass([i \in DOMAIN whats |-> [what |-> whats[i], pos |-> TextPosition(start + i - 1)]], start)

\* The cache is not advanced.
PrefillForEmbedding(toks) ==
    [Pass(TextItems(toks, 0), 0) EXCEPT !.main = TRUE, !.keeps = FALSE]
PrefillAllEmbeddings(toks) ==
    [Pass(TextItems(toks, 0), 0) EXCEPT !.main = TRUE, !.keeps = FALSE, !.all = TRUE]

\* Only attention has the two phases; the window is not looked at.
PrefillWithTokenDecomposed(toks, start) ==
    IF toks = <<>> THEN NoPass
    ELSE [Run(TextItems(toks, start), start) EXCEPT !.form = "phases"]

---------------------------------------------------------------------------
(* The operations of CpuBackend *)

FreshCache ==
    [data |-> [l \in Layers |-> <<>>],
     state |-> [l \in Layers |-> IF model.blocks[l] = "conv"
                                 THEN [j \in 1 .. ConvLCache |-> Zero] ELSE <<>>],
     seq_len |-> 0, text_pos |-> 0, bidirectional |-> FALSE]

Idle == pass.next = 0
\* A prefill makes a cache of its own; the others go on with one.
New == Idle /\ kv = FreshCache /\ text = <<>>
Used == Idle /\ kv.seq_len > 0

Texts == UNION {[1 .. n -> Tokens] : n \in 1 .. MaxText}
TextPos == Cardinality({i \in DOMAIN text : ~IsImage(text[i].what)})
\* Tokens that follow the text, at the positions they belong to.
Follow(toks) == TextItems(toks, IF model.mrope THEN TextPos ELSE Len(text))

\* The pass p makes the cache one of more text.
Begin(p, more) ==
    /\ p.next # 0 /\ Len(text) + Len(more) <= MaxText
    /\ Len(abs.state) + Len(more) <= MaxFolded
    /\ pass' = p /\ text' = text \o more /\ out' = <<>>
    /\ UNCHANGED <<model, abs>>

Prefill(toks, size) ==
    /\ New
    /\ Begin(IF model.mrope
             THEN [PrefillWithEmbedsMrope(TextItems(toks, 0), 0, 0)
                       EXCEPT !.text_pos = Len(toks)]
             ELSE PrefillWithTokenChunked(toks, size), Follow(toks))
    /\ UNCHANGED kv

\* MUTANT: the text is not counted on.
ContinuePrefill_Uncounted(toks) ==
    /\ Used
    /\ Begin(IF model.mrope
             THEN PrefillWithEmbedsMrope(TextItems(toks, kv.text_pos), 0, kv.seq_len)
             ELSE PrefillWithToken(toks, kv.seq_len), Follow(toks))
    /\ UNCHANGED kv
ContinuePrefill(toks) ==
    /\ Used
    /\ Begin(IF model.mrope
             THEN [PrefillWithEmbedsMrope(TextItems(toks, kv.text_pos), 0, kv.seq_len)
                       EXCEPT !.text_pos = kv.text_pos + Len(toks)]
             ELSE PrefillWithToken(toks, kv.seq_len), Follow(toks))
    /\ UNCHANGED kv

DecodeNext(tok) ==
    /\ Used
    /\ Begin(IF model.mrope THEN DecodeStepMrope(tok) ELSE DecodeStep(tok), Follow(<<tok>>))
    /\ UNCHANGED kv

VerifyDraft(toks) ==
    /\ Used
    /\ Begin(IF model.mrope
             THEN [VerifyDraftTokensMrope(toks, kv.text_pos, kv.seq_len)
                       EXCEPT !.text_pos = kv.text_pos + Len(toks)]
             ELSE VerifyDraftTokens(toks, kv.seq_len), Follow(toks))
    /\ UNCHANGED kv

\* text_pos becomes the number of text tokens.
PrefillVl(prompt) ==
    LET expanded == Expand(prompt)
        whats == [i \in DOMAIN expanded.items |-> expanded.items[i].what]
        p == IF model.mrope THEN PrefillWithEmbedsMrope(expanded.items, model.deepstack, 0)
                            ELSE PrefillWithEmbeds(whats, 0)
    IN /\ New
       /\ Begin([p EXCEPT !.text_pos = expanded.text_pos],
                IF model.mrope THEN expanded.items ELSE p.items)
       /\ UNCHANGED kv

\* The passes no operation of the backend runs.
OtherPrefill(toks) ==
    /\ New \/ Used
    /\ \/ /\ ~model.mrope
          /\ \/ Begin(PrefillWithTokenLayerHooks(toks, kv.seq_len), Follow(toks))
             \/ Begin(PrefillWithTokenDecomposed(toks, kv.seq_len), Follow(toks))
       \/ /\ model.mrope
          /\ Begin([PrefillWithEmbedsMropeLayerHooks(TextItems(toks, kv.text_pos), kv.seq_len)
                        EXCEPT !.text_pos = kv.text_pos + Len(toks)], Follow(toks))
    /\ UNCHANGED kv

\* An embedding has a cache of its own, which nothing else sees.
Embedding(toks) ==
    /\ New
    /\ Begin(PrefillForEmbedding(toks), TextItems(toks, 0))
    /\ UNCHANGED kv
EmbedAll(toks, bidirectional) ==
    /\ New
    /\ Begin(PrefillAllEmbeddings(toks), TextItems(toks, 0))
    /\ kv' = [kv EXCEPT !.bidirectional = bidirectional]

---------------------------------------------------------------------------
(* The steps of a pass *)

Fails(p) == p.form = "phases" /\ (model.blocks[p.next] # "attn" \/ ~Fits(p.start, Len(p.items)))

LayerStep ==
    LET l == pass.next
        step == CASE pass.form = "decode" -> ForwardDecode(pass, l, In(pass))
                  [] pass.form = "phases" ->
                         ForwardPhaseB(pass, l, ForwardPhaseA(pass, l, In(pass)))
                  [] OTHER -> ForwardPrefill(pass, l, In(pass))
    IN /\ l \in Layers
       /\ ~Fails(pass)
       /\ kv' = [kv EXCEPT !.data[l] = step.data, !.state[l] = step.state]
       /\ pass' = Wrote(pass, Inject(pass, l, step.rows))
       /\ UNCHANGED <<model, text, abs, out>>

\* A layer that returns an error ends the pass; its caller gives the cache up.
LayerFails ==
    /\ pass.next \in Layers
    /\ kv' = FreshCache /\ pass' = NoPass
    /\ text' = <<>> /\ abs' = Cache!Empty /\ out' = <<>>
    /\ UNCHANGED model

AbsModel == [mrope |-> model.mrope, bf16 |-> FALSE,
             recurrent |-> IF \E l \in Layers : model.blocks[l] = "conv" THEN "conv"
                           ELSE IF \E l \in Layers : model.blocks[l] = "deltanet"
                           THEN "deltanet" ELSE "none"]

Finish ==
    LET rows == Result(pass)
        n == Len(pass.items)
    IN /\ pass.next = NumLayers + 1
       /\ IF pass.keeps
          THEN /\ kv' = [kv EXCEPT !.seq_len = @ + n, !.text_pos = pass.text_pos]
               /\ abs' = Cache!Feed(AbsModel, abs,
                             [i \in 1 .. n |-> pass.items[i].what[1]], pass.form # "decode")
          ELSE kv' = FreshCache /\ UNCHANGED abs
       /\ IF pass.rest # <<>>
          THEN /\ pass' = Chunk(pass.rest, pass.size, pass.start + n)
               /\ UNCHANGED out
          ELSE /\ pass' = NoPass
               /\ out' = [rows |-> IF pass.all THEN rows ELSE <<Last(rows)>>,
                          keeps |-> pass.keeps, bidirectional |-> kv.bidirectional]
       /\ UNCHANGED <<model, text>>

TruncateKv(n) ==
    /\ Used
    /\ kv.seq_len > n
    /\ \A i \in n + 1 .. Len(text) : ~IsImage(text[i].what)
    /\ kv' = [kv EXCEPT !.data = [l \in Layers |-> SubSeq(@[l], 1, Min({n, Len(@[l])}))],
                        !.seq_len = n,
                        !.text_pos = Max({0, @ - (kv.seq_len - n)})]
    /\ text' = SubSeq(text, 1, n)
    /\ abs' = Cache!TruncateKv(abs, n)
    /\ out' = <<>>
    /\ UNCHANGED <<model, pass>>

\* The session ends and its cache is dropped.
Drop ==
    /\ Idle /\ text # <<>>
    /\ kv' = FreshCache
    /\ text' = <<>> /\ abs' = Cache!Empty /\ out' = <<>>
    /\ UNCHANGED <<model, pass>>

Init ==
    /\ model \in Networks
    /\ kv = FreshCache
    /\ pass = NoPass
    /\ text = <<>> /\ abs = Cache!Empty /\ out = <<>>

Next ==
    \/ \E toks \in Texts :
          \/ \E size \in 0 .. MaxChunk : Prefill(toks, size)
          \/ ContinuePrefill(toks) \/ VerifyDraft(toks) \/ OtherPrefill(toks)
          \/ Embedding(toks) \/ \E bidirectional \in BOOLEAN : EmbedAll(toks, bidirectional)
    \/ \E tok \in Tokens : DecodeNext(tok)
    \/ \E prompt \in Prompts : PrefillVl(prompt)
    \/ LayerStep \/ LayerFails \/ Finish
    \/ \E n \in 1 .. MaxText : TruncateKv(n)
    \/ Drop

Spec == Init /\ [][Next]_vars

---------------------------------------------------------------------------
(* Properties *)

\* Between two layers of a pass the attention caches of the layers run so far
\* are the rows of the pass longer than seq_len, and the others are not: every
\* layer of a pass is given the same rows, and a pass that has ended leaves all
\* layers of one length.
LayersInStep ==
    \A l \in Layers : model.blocks[l] = "attn" =>
        Len(kv.data[l]) = kv.seq_len + (IF l < pass.next THEN Len(pass.items) ELSE 0)

\* The cache is the one KvCache describes, fed the same tokens: every layer
\* holds the entries in that order at those angles, the counters are equal, and
\* the state of a recurrent first layer has seen what KvCache says.
SameAsKvCache ==
    Idle /\ kv.seq_len > 0 /\ (\A i \in DOMAIN text : ~IsImage(text[i].what)) =>
        /\ kv.seq_len = abs.seq_len
        /\ model.mrope => kv.text_pos = abs.text_pos
        /\ \A l \in Layers : model.blocks[l] = "attn" =>
               [j \in DOMAIN kv.data[l] |-> Tail(kv.data[l][j].of)]
                   = [j \in DOMAIN abs.layer |-> TextPosition(abs.layer[j].pos)]
        /\ CASE model.blocks[1] = "deltanet" ->
                    kv.state[1] = [j \in DOMAIN abs.state |-> Embed(<<abs.state[j].tok>>)]
             [] model.blocks[1] = "conv" ->
                    kv.state[1] = LastOf([j \in DOMAIN abs.state |-> Embed(<<abs.state[j].tok>>)],
                                         ConvLCache)
             [] OTHER -> TRUE

\* Layer by layer, a pass does to every cache of a model what KvCache does to one.
ImplementsKvCache == LayersInStep /\ SameAsKvCache

\* Where KvCache calls the last entry sound, and always for an embedding and
\* for a model without recurrent layers, the rows a pass gives are those that
\* all layers computed from scratch over the whole text would give: through
\* both buffers, after chunks, drafts, truncations and images.
Sound == \/ ~out.keeps
         \/ \A l \in Layers : model.blocks[l] = "attn"
         \/ /\ \A i \in DOMAIN text : ~IsImage(text[i].what)
            /\ Last(abs.layer).sound
RowsFromScratch ==
    Idle /\ out # <<>> /\ Sound =>
        out.rows = LastOf(Scratch(model, text, out.bidirectional, out.keeps)[NumLayers],
                          Len(out.rows))
=============================================================================
