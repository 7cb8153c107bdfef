------------------------------ MODULE RowKernels ------------------------------
(***************************************************************************)
(* The matrix products of the backends whose weights are rows: BF16        *)
(* (backend_bf16), BF16 with AVX-512 (backend_bf16_avx512), and INT8 with  *)
(* AVX-512 (backend_int8_avx512), which scales a weight row by row and an  *)
(* input token by token.  The last two have scalar kernels for processors  *)
(* without the instructions they are written for.  Numbers and writes are those of Q4Kernels.       *)
(***************************************************************************)
EXTENDS Q4Kernels

CONSTANT RowTile    \* TILE_ROWS: 64 rows of a weight are a work item

ASSUME RowAssumption == RowTile \in Nat \ {0}

RowTiles(w) == CeilDiv(w.n, RowTile)
RowsOf(w, tile) == Smaller(tile * RowTile + RowTile, w.n) - tile * RowTile

\* data[at] of a weight and c[at] of its output: rows one after the other.
Data(w, at) == W(w, at \div w.k, at % w.k)
Out(w, at) == <<w.name, at \div w.n, at % w.n>>
------------------------------------------------------------------------------
(* BF16 with floats for inputs: rows of w, all m rows of input.            *)

Bf16Loop(w, rows, m) ==
    { [to  |-> Out(w, mi * w.n + row),
       val |-> [col \in 1..w.k |-> <<X(mi, col - 1, w.k), Data(w, row * w.k + col - 1)>>]] :
      mi \in 0..m - 1, row \in rows }

MatmulBf16(w, m, s, e) ==
    UNION { Bf16Loop(w, tile * RowTile..tile * RowTile + RowsOf(w, tile) - 1, m) : tile \in s..e - 1 }
MatvecBf16(w, s, e) == MatmulBf16(w, 1, s, e)
MatmulBf16St(w, m) == Bf16Loop(w, 0..w.n - 1, m)
MatvecBf16St(w) == MatmulBf16St(w, 1)

\* matmul_scalar and matvec_scalar of the backend with AVX-512.
Bf16Scalar(w, m) == Bf16Loop(w, 0..w.n - 1, m)
------------------------------------------------------------------------------
(* BF16 with AVX-512, which rounds the input as well.                      *)

InBf16(x) == <<"bf16", x>>

\* avx512_bf16_matmul_tile: weights from rowStart, outputs a row of c apart.
Bf16Tile(w, rowStart, rows, m) ==
    { [to  |-> Out(w, mi * w.n + rowStart + r),
       val |-> [col \in 1..w.k |->
                  <<InBf16(X(mi, col - 1, w.k)), Data(w, (rowStart + r) * w.k + col - 1)>>]] :
      mi \in 0..m - 1, r \in 0..rows - 1 }

MatmulBf16Avx512(w, m, s, e) == UNION { Bf16Tile(w, tile * RowTile, RowsOf(w, tile), m) : tile \in s..e - 1 }
MatvecBf16Avx512(w, s, e) == MatmulBf16Avx512(w, 1, s, e)
MatmulBf16Avx512St(w, m) == Bf16Tile(w, 0, w.n, m)
MatvecBf16Avx512St(w) == MatmulBf16Avx512St(w, 1)
------------------------------------------------------------------------------
(* INT8: the dot products of a whole tile, then their corrections.         *)

\* quantize_x_pertoken of input row i.
TokenSum(i) == <<"sum", i>>
TokenScale(i) == <<"tokenscale", i>>
RowScale(w, row) == <<"rowscale", w.name, row>>

\* avx512_int8_raw_dot_tile and avx512_int8_matvec_v2.
MatvecDot(w, rowStart, rows, i) ==
    [r \in 0..rows - 1 |->
        [col \in 1..w.k |-> <<X(i, col - 1, w.k), Data(w, (rowStart + r) * w.k + col - 1)>>]]

Int8Tile(w, rowStart, rows, mi) ==
    LET rawDots == MatvecDot(w, rowStart, rows, mi)
    IN  { [to  |-> Out(w, mi * w.n + rowStart + r),
           val |-> [dot |-> rawDots[r], bias |-> TokenSum(mi),
                    scale |-> RowScale(w, rowStart + r), xscale |-> TokenScale(mi)]] : r \in DOMAIN rawDots }

MatmulInt8Avx512(w, m, s, e) ==
    UNION { UNION { Int8Tile(w, tile * RowTile, RowsOf(w, tile), mi) : mi \in 0..m - 1 } : tile \in s..e - 1 }
MatvecInt8Avx512(w, s, e) == MatmulInt8Avx512(w, 1, s, e)
MatmulInt8Avx512St(w, m) == UNION { Int8Tile(w, 0, w.n, mi) : mi \in 0..m - 1 }
MatvecInt8Avx512St(w) == MatmulInt8Avx512St(w, 1)

\* matvec_scalar, and matmul_scalar, which is one after the other.
Int8MatvecScalar(w, mi) ==
    { [to |-> Out(w, mi * w.n + row),
       val |-> [dot |-> [col \in 1..w.k |-> <<X(mi, col - 1, w.k), Data(w, row * w.k + col - 1)>>],
                bias |-> TokenSum(mi), scale |-> RowScale(w, row), xscale |-> TokenScale(mi)]] :
      row \in 0..w.n - 1 }
Int8MatmulScalar(w, m) == UNION { Int8MatvecScalar(w, mi) : mi \in 0..m - 1 }

\* The weight and its tile that a tile of the fused kernels is.
Tiles8Before(ws, j) == FoldLeft(LAMBDA sum, w : sum + RowTiles(w), 0, SubSeq(ws, 1, j - 1))
FusedInt8(ws, s, e) ==
    UNION { LET j == CHOOSE j \in DOMAIN ws : /\ Tiles8Before(ws, j) <= global
                                              /\ global < Tiles8Before(ws, j + 1)
                tile == global - Tiles8Before(ws, j)
            IN  Int8Tile(ws[j], tile * RowTile, RowsOf(ws[j], tile), 0) : global \in s..e - 1 }

Fused2Int8(w1, w2, s, e) == FusedInt8(<<w1, w2>>, s, e)
Fused3Int8(w1, w2, w3, s, e) == FusedInt8(<<w1, w2, w3>>, s, e)
------------------------------------------------------------------------------
(* What the products are.                                                  *)

Bf16Product(i, w, row) == [col \in 1..w.k |-> <<<<"x", i, col - 1>>, <<w.name, row, col - 1>>>>]

Bf16RoundedProduct(i, w, row) == [col \in 1..w.k |-> <<InBf16(<<"x", i, col - 1>>), <<w.name, row, col - 1>>>>]

Int8Product(i, w, row) ==
    [dot |-> Bf16Product(i, w, row), bias |-> TokenSum(i),
     scale |-> RowScale(w, row), xscale |-> TokenScale(i)]
=============================================================================
