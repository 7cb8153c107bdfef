------------------------------ MODULE Q4Kernels ------------------------------
(***************************************************************************)
(* The matrix products of the Q4 backend (backend_q4): how a weight is     *)
(* packed (weight.rs) and how the kernels of kernels_x86.rs and kernels.rs *)
(* walk it.                                                                *)
(*                                                                         *)
(* Arithmetic is symbolic.  A number is the name of where it comes from,   *)
(* <<"x", i, col>> or <<"w", row, col>>, and a sum is the sequence of what *)
(* was added, in order: a result tells which products it is made of, with  *)
(* which scales and which correction of the bias.  The result of a kernel  *)
(* is a set of writes [to, val], for a range of the items a worker is      *)
(* given; the modules that use this one run the ranges.                    *)
(*                                                                         *)
(* A product y[i, row] of input row i is the cell <<y, i, row>>.  A weight *)
(* is [name, n, k]: n rows of k columns.                                   *)
(***************************************************************************)
EXTENDS Integers, Sequences, SequencesExt

CONSTANTS
    TileN,      \* TILE_N: 32 rows in a tile, in four blocks a SIMD lane apart
    KGroup,     \* 4 columns in a K-group, one load of VPDPBUSD
    GroupSize,  \* Q4_GROUP_SIZE: 32 columns of a row share a scale
    MBlock      \* M_BLOCK: 32 rows of input are kept in accumulators at once

ASSUME Q4Assumption ==
    /\ {TileN, KGroup, GroupSize, MBlock} \subseteq Nat \ {0}
    /\ TileN % 4 = 0 /\ GroupSize % KGroup = 0

CeilDiv(a, b) == (a + b - 1) \div b
Smaller(a, b) == IF a < b THEN a ELSE b

HalfTile == TileN \div 2
KgBytes == HalfTile * KGroup            \* TILE_N * 2 bytes: two nibbles each
KgsPerSg == GroupSize \div KGroup
KGroups(w) == CeilDiv(w.k, KGroup)
ScaleGroups(w) == CeilDiv(w.k, GroupSize)
Tiles(w) == CeilDiv(w.n, TileN)
TileRows(w, tile) == Smaller(w.n - tile * TileN, TileN)
FullTile(w, tile) == TileRows(w, tile) = TileN

\* What is read where nothing of the matrix is.
Outside == <<"outside">>
ZeroBias == <<"zero">>

X(i, col, k) == IF col < k THEN <<"x", i, col>> ELSE Outside
W(w, row, col) == IF row < w.n /\ col < w.k THEN <<w.name, row, col>> ELSE ZeroBias
------------------------------------------------------------------------------
(***************************************************************************)
(* The packed weight: tiles of K-groups of half lanes, a row in the low    *)
(* nibbles and the row half a tile further in the high ones.  Scales go    *)
(* column by column, and tile by tile for the fused kernel.                *)
(***************************************************************************)
PackedByte(w, at) ==
    LET tile == at \div (KGroups(w) * KgBytes)
        kg == (at \div KgBytes) % KGroups(w)
        hl == (at % KgBytes) \div KGroup
        nibble(lane) == W(w, tile * TileN + lane, kg * KGroup + (at % KGroup))
    IN  IF tile < Tiles(w) THEN [lo |-> nibble(hl), hi |-> nibble(hl + HalfTile)]
                           ELSE [lo |-> Outside, hi |-> Outside]

UnpackLane(w, kgBase, lane, ki) ==
    IF lane < HalfTile THEN PackedByte(w, kgBase + lane * KGroup + ki).lo
                       ELSE PackedByte(w, kgBase + (lane - HalfTile) * KGroup + ki).hi

Scale(w, row, g) == <<"scale", w.name, row, g>>
Scales(w, at) == IF at < w.n * ScaleGroups(w) THEN Scale(w, at % w.n, at \div w.n) ELSE Outside

ScalesTiled(w, at) ==
    LET tile == at \div (ScaleGroups(w) * TileN)
        sg == (at \div TileN) % ScaleGroups(w)
        lane == at % TileN
    IN  IF lane < TileRows(w, tile) THEN Scales(w, sg * w.n + tile * TileN + lane) ELSE ZeroBias

\* One group of input row i, as quantize_x_and_colsums leaves it.
ColSum(i, g) == <<"colsum", i, g>>
XScale(i, g) == <<"xscale", i, g>>

Dequantized(products, i, g, scale) ==
    [dot |-> products, bias |-> ColSum(i, g), scale |-> scale, xscale |-> XScale(i, g)]
------------------------------------------------------------------------------
(***************************************************************************)
(* The kernels of one tile.  simd says what the processor has: "avx512",   *)
(* "avx2" or "none".  The AVX2 kernel leaves the two middle blocks of a    *)
(* tile swapped, ASM_LANE_TO_ACC and AVX2_LANE_TO_ACC undo it.             *)
(***************************************************************************)
LaneToAcc(simd, lane) ==
    LET block == TileN \div 4
    IN  IF simd = "avx2" /\ lane \div block = 1 THEN lane + block
        ELSE IF simd = "avx2" /\ lane \div block = 2 THEN lane - block
        ELSE lane

\* The accumulators of kgs K-groups from byte wOffset, input from xOffset.
TileKernel(i, w, xOffset, wOffset, kgs, simd) ==
    [acc \in 0..TileN - 1 |->
        LET lane == CHOOSE l \in 0..TileN - 1 : LaneToAcc(simd, l) = acc
        IN  [j \in 1..kgs * KGroup |->
                LET kg == (j - 1) \div KGroup
                    ki == (j - 1) % KGroup
                IN  <<X(i, xOffset + j - 1, w.k), UnpackLane(w, wOffset + kg * KgBytes, lane, ki)>>]]

TileBase(w, tile) == tile * KGroups(w) * KgBytes
KgsOf(w, sg) == Smaller((sg + 1) * KgsPerSg, KGroups(w)) - sg * KgsPerSg

ScaleGroupKernel(i, w, tile, sg, simd) ==
    TileKernel(i, w, sg * GroupSize, TileBase(w, tile) + sg * KgsPerSg * KgBytes, KgsOf(w, sg), simd)

\* One scale group after the other: the kernel, then its dequantization.
InterleavedTile(i, w, tile, simd) ==
    [lane \in 0..TileRows(w, tile) - 1 |->
        [g \in 1..ScaleGroups(w) |->
            LET acc == ScaleGroupKernel(i, w, tile, g - 1, simd)
            IN  Dequantized(acc[LaneToAcc(simd, lane)], i, g - 1,
                            Scales(w, (g - 1) * w.n + tile * TileN + lane))]]

\* All kernels into one buffer, then all dequantizations.
DeferredTile(i, w, tile, simd) ==
    LET sgAccs == [at \in 0..ScaleGroups(w) * TileN - 1 |->
                      ScaleGroupKernel(i, w, tile, at \div TileN, simd)[at % TileN]]
    IN  [lane \in 0..TileRows(w, tile) - 1 |->
            [g \in 1..ScaleGroups(w) |->
                Dequantized(sgAccs[(g - 1) * TileN + LaneToAcc(simd, lane)], i, g - 1,
                            Scales(w, (g - 1) * w.n + tile * TileN + lane))]]

\* avx512_q4_tile_fused: one call for all scale groups, each taken as full.
FusedTile(i, w, tile) ==
    [lane \in 0..TileN - 1 |->
        [g \in 1..ScaleGroups(w) |->
            LET acc == TileKernel(i, w, (g - 1) * GroupSize,
                                  TileBase(w, tile) + (g - 1) * KgsPerSg * KgBytes, KgsPerSg, "avx512")
            IN  Dequantized(acc[lane], i, g - 1,
                            ScalesTiled(w, tile * ScaleGroups(w) * TileN + (g - 1) * TileN + lane))]]

TilesAsm(i, w, tile) ==
    IF FullTile(w, tile) THEN FusedTile(i, w, tile) ELSE InterleavedTile(i, w, tile, "avx512")
TilesAsmDeferred(i, w, tile) == DeferredTile(i, w, tile, "avx512")
TilesAvx2(i, w, tile) == InterleavedTile(i, w, tile, "avx2")
TilesAvx2Deferred(i, w, tile) == DeferredTile(i, w, tile, "avx2")

\* scalar_q4_matvec and scalar_q4_matmul, which stop at column k.
ScalarTile(i, w, tile) ==
    [lane \in 0..TileRows(w, tile) - 1 |->
        [g \in 1..ScaleGroups(w) |->
            LET kgStart == (g - 1) * KgsPerSg
                columns == Smaller(KgsOf(w, g - 1) * KGroup, w.k - kgStart * KGroup)
            IN  Dequantized(
                    [j \in 1..columns |->
                        <<X(i, kgStart * KGroup + j - 1, w.k),
                          UnpackLane(w, TileBase(w, tile) + (kgStart + (j - 1) \div KGroup) * KgBytes,
                                     lane, (j - 1) % KGroup)>>],
                    i, g - 1, Scales(w, (g - 1) * w.n + tile * TileN + lane))]]

\* matvec_q4_float_dequant: every weight is scaled, the input is not quantized.
FloatDequantTile(i, w, tile) ==
    [lane \in 0..TileRows(w, tile) - 1 |->
        [col \in 1..w.k |->
            LET kg == (col - 1) \div KGroup
            IN  [x |-> X(i, col - 1, w.k),
                 w |-> UnpackLane(w, TileBase(w, tile) + kg * KgBytes, lane, (col - 1) % KGroup),
                 scale |-> Scales(w, (kg \div KgsPerSg) * w.n + tile * TileN + lane)]]]
------------------------------------------------------------------------------
Store(y, i, tile, values) ==
    { [to |-> <<y, i, tile * TileN + lane>>, val |-> values[lane]] : lane \in DOMAIN values }

TileFor(c, i, w, tile) ==
    IF c.deferred THEN DeferredTile(i, w, tile, c.simd) ELSE InterleavedTile(i, w, tile, c.simd)

(***************************************************************************)
(* The kernels, for a call c with weights c.ws and c.m rows of input.  A   *)
(* kernel that is given a range works for the items from s to e - 1.       *)
(***************************************************************************)
MatvecQ4Single(c, w, i) ==
    UNION { Store(w.name, i, tile,
                CASE c.simd = "avx512" /\ c.deferred -> TilesAsmDeferred(i, w, tile)
                  [] c.simd = "avx512" /\ ~c.deferred -> TilesAsm(i, w, tile)
                  [] c.simd = "avx2" /\ c.deferred -> TilesAvx2Deferred(i, w, tile)
                  [] c.simd = "avx2" /\ ~c.deferred -> TilesAvx2(i, w, tile)
                  [] OTHER -> ScalarTile(i, w, tile)) : tile \in 0..Tiles(w) - 1 }

\* The parallel branch of matvec_q4_prequant: full tiles take the fused kernel.
MatvecQ4Prequant(c, w, s, e) ==
    UNION { Store(w.name, 0, tile,
                CASE c.simd = "none" -> ScalarTile(0, w, tile)
                  [] c.simd = "avx512" /\ ~c.deferred -> TilesAsm(0, w, tile)
                  [] OTHER -> TileFor(c, 0, w, tile)) : tile \in s..e - 1 }

MatvecQ4FloatDequant(w, s, e) ==
    UNION { Store(w.name, 0, tile, FloatDequantTile(0, w, tile)) : tile \in s..e - 1 }

\* Mutant: every chunk takes its input from the first.
MatmulQ4Chunks_First(c, w, s, e) ==
    UNION { UNION { UNION { Store(w.name, s + chunk * MBlock + bi, tile, InterleavedTile(s + bi, w, tile, c.simd)) :
                            bi \in 0..Smaller(MBlock, e - s - chunk * MBlock) - 1 } :
                    chunk \in 0..CeilDiv(e - s, MBlock) - 1 } : tile \in 0..Tiles(w) - 1 }

\* The rows from s to e - 1, in chunks of M_BLOCK: item bi of chunk mOff is
\* accumulated from quants[mOff + bi] and stored in row s + mOff + bi.
MatmulQ4Chunks(c, w, s, e) ==
    LET quant == [j \in 0..e - s - 1 |-> s + j]
    IN  UNION { UNION {
            LET accs == [bi \in 0..Smaller(MBlock, e - s - chunk * MBlock) - 1 |->
                            InterleavedTile(quant[chunk * MBlock + bi], w, tile, c.simd)]
            IN  UNION { Store(w.name, s + chunk * MBlock + bi, tile, accs[bi]) : bi \in DOMAIN accs }
            : chunk \in 0..CeilDiv(e - s, MBlock) - 1 } : tile \in 0..Tiles(w) - 1 }

MatmulQ4Sequential(c, w) ==
    IF c.simd = "none" THEN UNION { UNION { Store(w.name, i, tile, ScalarTile(i, w, tile)) :
                                            tile \in 0..Tiles(w) - 1 } : i \in 0..c.m - 1 }
                       ELSE MatmulQ4Chunks(c, w, 0, c.m)

\* Without SIMD a parallel product is of floats, a sequential one of bytes.
MatmulQ4Float(w, s, e) ==
    UNION { UNION { Store(w.name, i, tile, FloatDequantTile(i, w, tile)) : tile \in 0..Tiles(w) - 1 } :
            i \in s..e - 1 }

MatmulQ4(c, w, s, e) == IF c.simd = "none" THEN MatmulQ4Float(w, s, e) ELSE MatmulQ4Chunks(c, w, s, e)

FusedGateUpMatmulQ4St(c, gate, up) ==
    IF c.simd = "none" THEN MatmulQ4Sequential(c, gate) \cup MatmulQ4Sequential(c, up)
                       ELSE MatmulQ4Chunks(c, gate, 0, c.m) \cup MatmulQ4Chunks(c, up, 0, c.m)

\* Never deferred, whatever the switch says.
FusedGateUpMatvecQ4St(c, gate, up) ==
    LET direct == [c EXCEPT !.deferred = FALSE]
    IN  MatvecQ4Single(direct, gate, 0) \cup MatvecQ4Single(direct, up, 0)

\* The weight and its tile that tile global of two or three weights is.
Of2(w1, w2, global) ==
    IF global < Tiles(w1) THEN [w |-> w1, tile |-> global]
                          ELSE [w |-> w2, tile |-> global - Tiles(w1)]
Of3(w1, w2, w3, global) ==
    LET split12 == Tiles(w1) + Tiles(w2)
    IN  IF global < split12 THEN Of2(w1, w2, global) ELSE [w |-> w3, tile |-> global - split12]

StoreDeferred(c, at) == Store(at.w.name, 0, at.tile, DeferredTile(0, at.w, at.tile, c.simd))
StoreDirect(c, at) == Store(at.w.name, 0, at.tile, InterleavedTile(0, at.w, at.tile, c.simd))

Fused2Deferred(c, w1, w2, s, e) == UNION { StoreDeferred(c, Of2(w1, w2, global)) : global \in s..e - 1 }
Fused2Direct(c, w1, w2, s, e) == UNION { StoreDirect(c, Of2(w1, w2, global)) : global \in s..e - 1 }
Fused2MatvecQ4(c, w1, w2, s, e) ==
    CASE c.simd = "none" -> {}
      [] c.simd # "none" /\ c.deferred -> Fused2Deferred(c, w1, w2, s, e)
      [] OTHER -> Fused2Direct(c, w1, w2, s, e)

\* One result, silu(gate) * up, where the gate was.
SiluGate(g, u) == [lane \in DOMAIN g |-> [silu |-> g[lane], times |-> u[lane]]]
FusedGateUpSwiglu2MatvecQ4(c, gate, up, s, e) ==
    IF c.simd = "none" THEN {}
    ELSE UNION { Store(gate.name, 0, tile, SiluGate(TileFor(c, 0, gate, tile), TileFor(c, 0, up, tile))) :
                 tile \in s..e - 1 }

\* Three weights in one row of tiles.
Fused3Deferred(c, w1, w2, w3, s, e) == UNION { StoreDeferred(c, Of3(w1, w2, w3, global)) : global \in s..e - 1 }
Fused3Direct(c, w1, w2, w3, s, e) == UNION { StoreDirect(c, Of3(w1, w2, w3, global)) : global \in s..e - 1 }
Fused3MatvecQ4(c, w1, w2, w3, s, e) ==
    CASE c.simd = "none" -> {}
      [] c.simd # "none" /\ c.deferred -> Fused3Deferred(c, w1, w2, w3, s, e)
      [] OTHER -> Fused3Direct(c, w1, w2, w3, s, e)

\* The experimental form: the tiles the three weights share, three at a time,
\* then what is left of the first.
Fused3Shared(c, w1, w2, w3) ==
    /\ c.simd = "avx512" /\ c.experimental
    /\ Tiles(w1) >= Tiles(w2) /\ Tiles(w2) = Tiles(w3) /\ Tiles(w2) > 0

Fused3SharedTiles(w1, w2, w3, s, e) ==
    UNION { UNION { Store(w.name, 0, tile, InterleavedTile(0, w, tile, "avx512")) : w \in {w1, w2, w3} } :
            tile \in s..e - 1 }

Fused3QTail(w1, w2, s, e) ==
    UNION { LET tile == Tiles(w2) + offset
            IN  Store(w1.name, 0, tile, InterleavedTile(0, w1, tile, "avx512")) : offset \in s..e - 1 }
------------------------------------------------------------------------------
(***************************************************************************)
(* kernels.rs: weights kept as floats, and as bytes for routers and heads. *)
(***************************************************************************)
DotF32(i, w, row) == [col \in 1..w.k |-> <<X(i, col - 1, w.k), W(w, row, col - 1)>>]

MatvecF32(w, s, e) == { [to |-> <<w.name, 0, row>>, val |-> DotF32(0, w, row)] : row \in s..e - 1 }

MatmulF32(w, s, e) ==
    { [to |-> <<w.name, idx \div w.n, idx % w.n>>, val |-> DotF32(idx \div w.n, w, idx % w.n)] :
      idx \in s..e - 1 }

\* A row's bytes are w.data[row * k ..] and its scales w.scales[row * n_groups ..].
\* The products of columns from to upto - 1.
Int8Columns(i, w, row, from, upto) ==
    [j \in 1..upto - from |->
        LET at == row * w.k + from + j - 1
        IN  <<X(i, from + j - 1, w.k), W(w, at \div w.k, at % w.k)>>]

\* VPMADDUBSW: neighbours are added in 16 bits, and a sum that does not fit
\* is cut to the largest number that does.
InPairs(products) == [j \in 1..Len(products) \div 2 |-> <<"i16", products[2 * j - 1], products[2 * j]>>]

GroupEnd(w, g) == Smaller((g + 1) * GroupSize, w.k)

DotInt8RowScalar(i, w, row) ==
    [g \in 1..ScaleGroups(w) |->
        Dequantized(Int8Columns(i, w, row, (g - 1) * GroupSize, GroupEnd(w, g - 1)),
                    i, g - 1, Scale(w, row, g - 1))]

\* A full group in pairs, a short one column by column.
Int8Group(i, w, row, g) ==
    LET products == Int8Columns(i, w, row, g * GroupSize, GroupEnd(w, g))
    IN  IF Len(products) = GroupSize THEN InPairs(products) ELSE products

DotInt8RowAvx2(i, w, row) ==
    [g \in 1..ScaleGroups(w) |-> Dequantized(Int8Group(i, w, row, g - 1), i, g - 1, Scale(w, row, g - 1))]

\* Two groups in one load, whatever the second has, and then the odd one.
DotInt8RowVnni(i, w, row) ==
    LET load(g) == Int8Columns(i, w, row, g * GroupSize, (g + 2) * GroupSize)
        even(g) == (g \div 2) * 2
        dot(g) == IF even(g) + 1 < ScaleGroups(w)
                  THEN SubSeq(load(even(g)), (g - even(g)) * GroupSize + 1, (g - even(g) + 1) * GroupSize)
                  ELSE Int8Group(i, w, row, g)
    IN  [g \in 1..ScaleGroups(w) |-> Dequantized(dot(g - 1), i, g - 1, Scale(w, row, g - 1))]

DotInt8Row(simd, i, w, row) ==
    CASE simd = "avx512" -> DotInt8RowVnni(i, w, row)
      [] simd = "avx2"   -> DotInt8RowAvx2(i, w, row)
      [] OTHER           -> DotInt8RowScalar(i, w, row)

MatvecInt8(simd, w, s, e) ==
    { [to |-> <<w.name, 0, row>>, val |-> DotInt8Row(simd, 0, w, row)] : row \in s..e - 1 }

MatvecInt8Pq(simd, w) == MatvecInt8(simd, w, 0, w.n)

MatmulInt8(simd, w, s, e) ==
    { [to |-> <<w.name, idx \div w.n, idx % w.n>>, val |-> DotInt8Row(simd, idx \div w.n, w, idx % w.n)] :
      idx \in s..e - 1 }
------------------------------------------------------------------------------
(***************************************************************************)
(* What a product is, whatever the kernel: row by column, every column     *)
(* once, in groups with their scales and corrections.                      *)
(***************************************************************************)
Columns(w, g) == Smaller(GroupSize, w.k - g * GroupSize)

Product(i, w, row) ==
    [g \in 1..ScaleGroups(w) |->
        Dequantized([j \in 1..Columns(w, g - 1) |->
                        LET col == (g - 1) * GroupSize + j - 1
                        IN  <<<<"x", i, col>>, <<w.name, row, col>>>>],
                    i, g - 1, Scale(w, row, g - 1))]

\* The same with bytes for weights, where the processor adds full groups in
\* pairs: AVX2 all of them, AVX-512 the one without a second.
ByteProduct(simd, i, w, row) ==
    LET paired(g) == /\ Columns(w, g) = GroupSize
                     /\ simd = "avx2" \/ (simd = "avx512" /\ g % 2 = 0 /\ g = ScaleGroups(w) - 1)
        product == Product(i, w, row)
    IN  [g \in DOMAIN product |->
            [product[g] EXCEPT !.dot = IF paired(g - 1) THEN InPairs(@) ELSE @]]

FloatProduct(i, w, row) ==
    [col \in 1..w.k |->
        [x |-> <<"x", i, col - 1>>, w |-> <<w.name, row, col - 1>>,
         scale |-> Scale(w, row, (col - 1) \div GroupSize)]]
=============================================================================
