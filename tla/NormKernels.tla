------------------------------ MODULE NormKernels ------------------------------
(***************************************************************************)
(* The RMS norms of a row (kernels.rs of backend_common), with the addition *)
(* of a residual and the quantization to groups of bytes the Q4 backend    *)
(* fuses with them (kernels.rs of backend_q4).                             *)
(*                                                                         *)
(* A call v is dim columns wide and has rows rows; v.simd is what the      *)
(* processor has, v.residual says that b is added to a first, v.quantize   *)
(* that the norm is quantized too.  Numbers and writes are those of        *)
(* Q4Kernels; a sum of squares is how often each square is in it.          *)
(***************************************************************************)
EXTENDS Integers, FiniteSets

CONSTANTS
    NormWidth,  \* 64: columns of one turn of the AVX-512 loops, in four registers
    NormGroup   \* Q4_GROUP_SIZE: 32 columns of a row share a scale

ASSUME NormAssumption ==
    /\ {NormWidth, NormGroup} \subseteq Nat \ {0}
    /\ NormWidth % 8 = 0

Cols(v) == 0..v.dim - 1

\* The columns of a turn of the loop rms_norm_bf16 chooses, 0 without one.
Turn(v) == IF v.simd = "avx512" /\ v.dim >= NormWidth THEN NormWidth
           ELSE IF v.simd \in {"avx512", "avx2"} /\ v.dim >= NormWidth \div 2 THEN NormWidth \div 2
           ELSE 0
Chunks(v) == IF Turn(v) = 0 THEN 0 ELSE v.dim \div Turn(v)

\* The columns the turns of a loop reach, register by register, and the rest.
Unrolled(v) == { i * Turn(v) + reg * (Turn(v) \div 4) + lane :
                 i \in 0..Chunks(v) - 1, reg \in 0..3, lane \in 0..(Turn(v) \div 4) - 1 }
Remainder(v) == Chunks(v) * Turn(v)..v.dim - 1

\* Pass 1: what is normed, and its squares, in four accumulators and after them.
Normed(v, row, col) ==
    IF ~v.residual THEN <<"x", row, col>>
    ELSE IF col \in Unrolled(v) \cup Remainder(v) THEN <<"sum", <<"a", row, col>>, <<"b", row, col>>>>
    ELSE <<"a", row, col>>

\* Mutant: the squares after the turns are forgotten.
SumSq_TurnsOnly(v, row) ==
    [x \in { Normed(v, row, col) : col \in Cols(v) } |->
        Cardinality({ col \in Unrolled(v) : Normed(v, row, col) = x })]

SumSq(v, row) ==
    [x \in { Normed(v, row, col) : col \in Cols(v) } |->
        Cardinality({ <<reg, i, lane>> \in (0..3) \X (0..Chunks(v) - 1) \X (0..(Turn(v) \div 4) - 1) :
                      Normed(v, row, i * Turn(v) + reg * (Turn(v) \div 4) + lane) = x })
        + Cardinality({ col \in Remainder(v) : Normed(v, row, col) = x })]

NormValue(v, row, col) == <<Normed(v, row, col), "over", SumSq(v, row), "times", <<"weight", col>>>>

\* Pass 2 writes the columns it walks, in turns or group by group.
NormOutput(v, row, columns) ==
    { [to |-> <<"norm", row, col>>, val |-> NormValue(v, row, col)] : col \in columns }

\* rms_norm_bf16 writes one buffer, rms_norm_residual_bf16 keeps the sums in
\* the one it read them from.
RmsNorm(v, row) == NormOutput(v, row, Unrolled(v) \cup Remainder(v))
ResidualKept(v, row) == { [to |-> <<"a", row, col>>, val |-> Normed(v, row, col)] : col \in Cols(v) }
RmsNormResidual(v, row) == RmsNorm(v, row) \cup ResidualKept(v, row)
PlainNorm(v, row) == IF v.residual THEN RmsNormResidual(v, row) ELSE RmsNorm(v, row)
------------------------------------------------------------------------------
(* The quantization, group by group, the last one shorter.                  *)

NormGroups(v) == (v.dim + NormGroup - 1) \div NormGroup
GroupCols(v, g) == g * NormGroup..(IF (g + 1) * NormGroup < v.dim THEN (g + 1) * NormGroup ELSE v.dim) - 1

\* A group from the norms of its columns: bytes, their scale and their sum.
Quantized(v, row, g, norm) ==
    LET scale == <<"absmax", { norm[col] : col \in DOMAIN norm }>>
        byte(col) == <<"i8", norm[col], scale>>
    IN  { [to |-> <<"i8", row, col>>, val |-> byte(col)] : col \in DOMAIN norm }
        \cup { [to |-> <<"gscale", row, g>>, val |-> scale],
               [to |-> <<"gsum", row, g>>, val |-> { byte(col) : col \in DOMAIN norm }] }

GroupNorm(v, row, g) == [col \in GroupCols(v, g) |-> NormValue(v, row, col)]

\* quantize_x_and_colsums after the norm, which reads its output again, ..
NormThenQuantize(v, row) ==
    LET output == PlainNorm(v, row)
        normAt(col) == (CHOOSE o \in output : o.to = <<"norm", row, col>>).val
    IN  output \cup UNION { Quantized(v, row, g, [col \in GroupCols(v, g) |-> normAt(col)]) :
                            g \in 0..NormGroups(v) - 1 }

\* .. and the fused kernels, whose second pass goes group by group.
FusedNormQuantize(v, row) ==
    UNION { NormOutput(v, row, GroupCols(v, g)) \cup Quantized(v, row, g, GroupNorm(v, row, g)) :
            g \in 0..NormGroups(v) - 1 }
    \cup (IF v.residual THEN ResidualKept(v, row) ELSE {})

\* fused_rmsnorm_prequantize, fused_residual_rmsnorm_prequantize, and
\* rms_norm_batch for the rows from s to e - 1.
NormRow(v, row) ==
    IF ~v.quantize THEN PlainNorm(v, row)
    ELSE IF v.simd = "avx512" /\ v.dim >= NormWidth THEN FusedNormQuantize(v, row)
    ELSE NormThenQuantize(v, row)

NormRows(v, s, e) == UNION { NormRow(v, row) : row \in s..e - 1 }
------------------------------------------------------------------------------
(* What a norm is: every column over the squares of all, each once.         *)

Summed(v, row, col) == IF v.residual THEN <<"sum", <<"a", row, col>>, <<"b", row, col>>>>
                                     ELSE <<"x", row, col>>

NormOf(v, row, col) ==
    <<Summed(v, row, col), "over", [x \in { Summed(v, row, c) : c \in Cols(v) } |-> 1],
      "times", <<"weight", col>>>>

ByteOf(v, row, col) ==
    LET mates == { c \in Cols(v) : c \div NormGroup = col \div NormGroup }
    IN  <<"i8", NormOf(v, row, col), <<"absmax", { NormOf(v, row, c) : c \in mates }>>>>
=============================================================================
