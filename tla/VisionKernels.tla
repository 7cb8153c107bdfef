---------------------------- MODULE VisionKernels ----------------------------
(***************************************************************************)
(* The two vision encoders that run on the CPU: the one of the Qwen models *)
(* (encoder.rs, image_process.rs), whose tokens go window by window, and   *)
(* Pixtral (pixtral.rs), whose tokens go row by row until the projector.   *)
(*                                                                         *)
(* A token is a row of a buffer, one cell; its value is what was done to   *)
(* which patch of the image, as in AttentionKernels.  The terms a sum      *)
(* attends to are a set.  A call v has an image of v.h by v.w patches (a   *)
(* single frame, as patchify makes it) and windows of v.merge by v.merge.  *)
(***************************************************************************)
EXTENDS RowKernels, AttentionKernels

CONSTANTS
    TileM,          \* TILE_M: 4 rows of input share the loads of a weight
    FmaLanes,       \* 8: the columns of one load
    Channels,       \* hidden_size of Pixtral
    MaxPatches      \* max_patches_per_side of Pixtral

ASSUME VisionAssumption == {TileM, FmaLanes, Channels, MaxPatches} \subseteq Nat \ {0}
------------------------------------------------------------------------------
(***************************************************************************)
(* Products: rows s to e - 1 of the input are a thread's.                  *)
(***************************************************************************)
Span(w, i, row, from, upto) ==
    [j \in 1..upto - from |-> <<X(i, from + j - 1, w.k), Data(w, row * w.k + from + j - 1)>>]

LinearRow(w, i, row, dot) == [to |-> Out(w, i * w.n + row), val |-> [bias |-> <<w.name, row>>, dot |-> dot]]

LinearForwardChunk(w, s, e) ==
    { LinearRow(w, i, row, Span(w, i, row, 0, w.k)) : i \in s..e - 1, row \in 0..w.n - 1 }

\* Rows by TileM, whole loads and then the tail; the rows that are left alone.
LinearForwardChunkTiled(w, s, e) ==
    LET mFull == ((e - s) \div TileM) * TileM
        kFull == (w.k \div FmaLanes) * FmaLanes
    IN  { LinearRow(w, s + i, row, Span(w, s + i, row, 0, kFull) \o Span(w, s + i, row, kFull, w.k)) :
          i \in 0..mFull - 1, row \in 0..w.n - 1 }
        \cup LinearForwardChunk(w, s + mFull, e)

LinearForward(c, w, s, e) ==
    IF c.simd # "none" /\ e - s >= TileM THEN LinearForwardChunkTiled(w, s, e)
                                         ELSE LinearForwardChunk(w, s, e)

LinearNoBiasChunk(w, s, e) ==
    { [to |-> Out(w, i * w.n + row), val |-> Span(w, i, row, 0, w.k)] : i \in s..e - 1, row \in 0..w.n - 1 }
------------------------------------------------------------------------------
(* What both encoders do with tokens.                                      *)

NumTokens(v) == v.t * v.h * v.w
MergedTokens(v) == NumTokens(v) \div (v.merge * v.merge)

\* linear_forward, layer_norm, rms_norm, gelu: a row of from gives one of to.
EachRow(mem, op, from, to, s, e) ==
    { Write(<<to, t>>, Done(op, Read(mem, <<from, t>>))) : t \in s..e - 1 }

Plus(x, y) == <<"+", x, y>>
AddTo(v, mem, name) ==
    { Write(<<"hidden", t>>, Plus(Read(mem, <<"hidden", t>>), Read(mem, <<name, t>>))) :
      t \in 0..NumTokens(v) - 1 }

\* Every token of the sequence from start, for one head of token qi.
AttendTo(mem, start, seqLen, h, qi) ==
    LET score(ki) == <<Read(mem, <<"q", start + qi, h>>), Read(mem, <<"k", start + ki, h>>)>>
    IN  Write(<<"attn_output", start + qi, h>>,
              [terms |-> { <<score(ki), Read(mem, <<"v", start + ki, h>>)>> : ki \in 0..seqLen - 1 },
               over  |-> { score(ki) : ki \in 0..seqLen - 1 }])

\* The output projection takes the heads of a token together.
OutputProj(v, mem, s, e) ==
    { Write(<<"attn_out", t>>, Done("proj", [h \in 0..v.heads - 1 |-> Read(mem, <<"attn_output", t, h>>)])) :
      t \in s..e - 1 }

Projection(x, h, val) == <<x, h, val>>
Rotated(at, val) == <<"rotated", at, val>>
------------------------------------------------------------------------------
(***************************************************************************)
(* Qwen.  Three loops go over the image window by window: the patches, the *)
(* embeddings of their positions and the coordinates that rotate them.     *)
(***************************************************************************)
MergedH(v) == v.h \div v.merge
MergedW(v) == v.w \div v.merge
Windows(v) == [bh : 0..MergedH(v) - 1, bw : 0..MergedW(v) - 1, mh : 0..v.merge - 1, mw : 0..v.merge - 1]
PatchRow(v, at) == at.bh * v.merge + at.mh
PatchCol(v, at) == at.bw * v.merge + at.mw
PatchIdx(v, at) == (at.bh * MergedW(v) + at.bw) * (v.merge * v.merge) + at.mh * v.merge + at.mw

Patchify(v) ==
    { Write(<<"patches", PatchIdx(v, at)>>, <<"patch", PatchRow(v, at), PatchCol(v, at)>>) : at \in Windows(v) }

\* Mutant: coordinates row by row, as the patches of Pixtral are.
BuildVisionPosIds_ByRows(v) ==
    [n \in 1..NumTokens(v) |-> <<((n - 1) % (v.h * v.w)) \div v.w, (n - 1) % v.w>>]

\* One pair after the other is pushed, frame by frame.
BuildVisionPosIds(v) ==
    LET window == v.merge * v.merge
        pair(n) == LET block == n \div window
                       within == n % window
                   IN  <<((block \div MergedW(v)) * v.merge) + (within \div v.merge),
                         ((block % MergedW(v)) * v.merge) + (within % v.merge)>>
    IN  [n \in 1..NumTokens(v) |-> pair((n - 1) % (v.h * v.w))]

\* The embeddings of the grid, row by row, then brought into window order.
InterpolatePosEmbed(v) ==
    LET hwEmbeds == [src \in 0..v.h * v.w - 1 |-> <<"pos", src \div v.w, src % v.w>>]
    IN  [patch \in 0..NumTokens(v) - 1 |->
            LET at == CHOOSE at \in Windows(v) : PatchIdx(v, at) = patch % (v.h * v.w)
            IN  hwEmbeds[PatchRow(v, at) * v.w + PatchCol(v, at)]]

AddPositions(v, mem) ==
    LET embeds == InterpolatePosEmbed(v)
    IN  { Write(<<"hidden", t>>, Plus(Read(mem, <<"hidden", t>>), embeds[t])) : t \in 0..NumTokens(v) - 1 }

\* The rows of qkv into heads, queries and keys rotated by their coordinates.
SplitQkv(v, mem) ==
    LET posIds == BuildVisionPosIds(v)
    IN  UNION { LET qkv == Read(mem, <<"qkv", t>>)
                IN  { Write(<<"q", t, h>>, Rotated(posIds[t + 1], Projection("q", h, qkv))),
                      Write(<<"k", t, h>>, Rotated(posIds[t + 1], Projection("k", h, qkv))),
                      Write(<<"v", t, h>>, Projection("v", h, qkv)) } :
                t \in 0..NumTokens(v) - 1, h \in 0..v.heads - 1 }

\* A work item is a frame and a head.
CuSeqlens(v) == [frame \in 0..v.t |-> frame * v.h * v.w]
AttentionForward(v, mem, s, e) ==
    UNION { LET frame == work \div v.heads
                start == CuSeqlens(v)[frame]
                seqLen == CuSeqlens(v)[frame + 1] - start
            IN  { AttendTo(mem, start, seqLen, work % v.heads, qi) : qi \in 0..seqLen - 1 } :
            work \in s..e - 1 }

\* A window becomes one row: its tokens normed and then joined, or joined and
\* normed together.
Joined(v, mem, from, to) ==
    { Write(<<to, i>>, [j \in 0..v.merge * v.merge - 1 |-> Read(mem, <<from, i * v.merge * v.merge + j>>)]) :
      i \in 0..MergedTokens(v) - 1 }
------------------------------------------------------------------------------
(***************************************************************************)
(* Pixtral.                                                                *)
(***************************************************************************)
PixtralPreprocess(v) ==
    { Write(<<"patches", ph * v.w + pw>>, <<"patch", ph, pw>>) : ph \in 0..v.h - 1, pw \in 0..v.w - 1 }

\* precompute_2d_rope: the angles of position idx of the table.
RopeTable(idx) == <<idx \div MaxPatches, idx % MaxPatches>>
PositionIds(v) == [t \in 0..v.h * v.w - 1 |-> (t \div v.w) * MaxPatches + (t % v.w)]

TruncateToBf16(v, mem, name) ==
    { Write(<<name, t>>, Done("bf16", Read(mem, <<name, t>>))) : t \in 0..NumTokens(v) - 1 }
CopyToHidden(v, mem, name) == { Write(<<"hidden", t>>, Read(mem, <<name, t>>)) : t \in 0..NumTokens(v) - 1 }

\* One of the three projections, and the rotation of the two.
ProjectHeads(v, mem, x, s, e) ==
    { Write(<<x, t, h>>, Projection(x, h, Read(mem, <<"normed", t>>))) : t \in s..e - 1, h \in 0..v.heads - 1 }
RotateHeads(v, mem) ==
    { Write(<<x, t, h>>, Rotated(RopeTable(PositionIds(v)[t]), Read(mem, <<x, t, h>>))) :
      x \in {"q", "k"}, t \in 0..NumTokens(v) - 1, h \in 0..v.heads - 1 }

\* A work item is a head, for all tokens.
PixtralAttentionForward(v, mem, s, e) ==
    { AttendTo(mem, 0, NumTokens(v), h, qi) : h \in s..e - 1, qi \in 0..NumTokens(v) - 1 }

GateTimesUp(v, mem) ==
    { Write(<<"gate", t>>, <<"silu", Read(mem, <<"gate", t>>), Read(mem, <<"up", t>>)>>) : t \in 0..NumTokens(v) - 1 }

\* F.unfold: channel by channel, then the places of the window.
Unfold(v, mem) ==
    LET window == v.merge * v.merge
    IN  { Write(<<"joined", bh * MergedW(v) + bw>>,
                [at \in 0..Channels * window - 1 |->
                    LET row == bh * v.merge + ((at % window) \div v.merge)
                        col == bw * v.merge + ((at % window) % v.merge)
                    IN  <<Read(mem, <<"normed", row * v.w + col>>), at \div window>>]) :
          bh \in 0..MergedH(v) - 1, bw \in 0..MergedW(v) - 1 }
------------------------------------------------------------------------------
(***************************************************************************)
(* What the encoders make of the patch at a row and a column, whatever the *)
(* order of the tokens: it attends to every patch, each with its own       *)
(* place, and the output has a token per window, row by row.               *)
(***************************************************************************)
Places(v) == (0..v.h - 1) \X (0..v.w - 1)

Heads2D(v, Normed(_), qkv, place) ==
    [h \in 0..v.heads - 1 |->
        LET Proj(x, p) == Projection(x, h, IF qkv THEN Done("qkv", Normed(p)) ELSE Normed(p))
            Score(p) == <<Rotated(place, Proj("q", place)), Rotated(p, Proj("k", p))>>
        IN  [terms |-> { <<Score(p), Proj("v", p)>> : p \in Places(v) },
             over  |-> { Score(p) : p \in Places(v) }]]

QwenHidden(v, place) ==
    LET Embedded(p) == Plus(Done("patch_embed", <<"patch", p[1], p[2]>>), <<"pos", p[1], p[2]>>)
        Normed(p) == Done("norm1", Embedded(p))
        attended == Plus(Embedded(place), Done("proj", Heads2D(v, Normed, TRUE, place)))
    IN  Plus(attended, Done("fc2", Done("gelu", Done("fc1", Done("norm2", attended)))))

PixtralHidden(v, place) ==
    LET Embedded(p) == Done("bf16", Done("ln_pre", Done("bf16", Done("patch_conv", <<"patch", p[1], p[2]>>))))
        Normed(p) == Done("attention_norm", Embedded(p))
        attended == Plus(Embedded(place), Done("proj", Heads2D(v, Normed, FALSE, place)))
        normed == Done("ffn_norm", attended)
    IN  Done("bf16", Plus(attended, Done("down_proj", <<"silu", Done("gate_proj", normed), Done("up_proj", normed)>>)))

WindowPlace(v, o, j) ==
    <<(o \div MergedW(v)) * v.merge + (j \div v.merge), (o % MergedW(v)) * v.merge + (j % v.merge)>>

\* Output o: of the encoder, or of a merger for the features of a block.
VisionOf(v, o, postshuffle) ==
    LET window == v.merge * v.merge
        Fc(x) == Done("merger_fc2", Done("gelu", Done("merger_fc1", x)))
        tokens == [j \in 0..window - 1 |-> QwenHidden(v, WindowPlace(v, o, j))]
    IN  IF v.model = "qwen"
        THEN Fc(IF postshuffle THEN Done("merger_norm", tokens)
                               ELSE [j \in 0..window - 1 |-> Done("merger_norm", tokens[j])])
        ELSE Done("linear_2", Done("gelu", Done("linear_1", Done("merging_layer",
                 [at \in 0..Channels * window - 1 |->
                     <<Done("projector_norm", PixtralHidden(v, WindowPlace(v, o, at % window))), at \div window>>]))))
=============================================================================
