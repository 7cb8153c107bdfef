------------------------------- MODULE MCKernels -------------------------------
(* Small tiles and the calls for them: full, short and single tiles, groups *)
(* and blocks, head groups as wide as the lanes and narrower ones, experts  *)
(* with equal scores and unequal loads.                                     *)
EXTENDS Kernels

Weight(name, n, k, kind) == [name |-> name, n |-> n, k |-> k, kind |-> kind]
Q4Weight(name, n, k) == Weight(name, n, k, "q4")

Call(op, ws, m, par, simd) ==
    [unit |-> "product", backend |-> "q4", op |-> op, ws |-> ws, m |-> m, par |-> par,
     simd |-> simd, deferred |-> FALSE, experimental |-> FALSE]

Simd == {"avx512", "avx2", "none"}
WithDeferred(calls) == calls \cup { [c EXCEPT !.deferred = TRUE] : c \in calls }

\* Two tiles and a scale group; a short tile and a short group; three tiles.
OneWeight == { Q4Weight("y", 6, 8), Q4Weight("y", 3, 6), Q4Weight("y", 9, 4) }

Q4Matvecs ==
    WithDeferred({ Call(op, <<w>>, 1, TRUE, simd) : op \in {"matvec", "float"}, w \in OneWeight, simd \in Simd })
    \cup WithDeferred({ Call(op, <<w>>, 1, FALSE, simd) :
                        op \in {"matvec", "matvec_st", "pq_st", "float"}, w \in OneWeight, simd \in Simd })
Q4Matmuls ==
    { Call(op, <<w>>, 5, par, simd) : op \in {"matmul", "matmul_st"}, par \in BOOLEAN,
                                      w \in { Q4Weight("y", 6, 8), Q4Weight("y", 3, 6) }, simd \in Simd }
    \cup { Call("gate_up_matmul_st", <<Q4Weight("g", 6, 8), Q4Weight("u", 6, 8)>>, 3, FALSE, simd) : simd \in Simd }

\* Without SIMD the fused kernels of several weights store nothing.
Q4Fused ==
    WithDeferred(
        { Call(op, <<Q4Weight("g", 6, 8), Q4Weight("u", 6, 8)>>, 1, FALSE, simd) :
          op \in {"gate_up_matvec_st", "gate_up_pq_st"}, simd \in Simd }
        \cup UNION { { Call("fused_2", <<Q4Weight("y", 6, 8), Q4Weight("z", 3, 8)>>, 1, TRUE, simd),
                       Call("swiglu", <<Q4Weight("g", 9, 8), Q4Weight("u", 9, 8)>>, 1, TRUE, simd),
                       Call("fused_3", <<Q4Weight("q", 9, 8), Q4Weight("k", 3, 8), Q4Weight("v", 6, 8)>>, 1, TRUE, simd) } :
                     simd \in {"avx512", "avx2"} })
    \cup { [Call("fused_3", <<Q4Weight("q", n, 6), Q4Weight("k", 3, 6), Q4Weight("v", 4, 6)>>, 1, TRUE, "avx512")
                EXCEPT !.experimental = TRUE] : n \in {4, 14} }

\* Weights that are not Q4, alone and among others.  Bytes: two full groups,
\* one, and where groups are not loaded by pairs a full and a short one.
Bytes(simd) == IF simd = "avx512" THEN { Weight("y", 5, k, "int8") : k \in {4, 8, 10, 12} }
                                  ELSE { Weight("y", 5, k, "int8") : k \in {6, 8} }
OtherKinds ==
    UNION { { Call(op, <<w>>, 1, par, simd) : op \in {"matvec", "matvec_st", "float"}, par \in BOOLEAN,
                                              w \in Bytes(simd) \cup { Weight("y", 5, 6, "bf16") } }
            \cup { Call(op, <<w>>, 2, par, simd) : op \in {"matmul", "matmul_st"}, par \in BOOLEAN,
                                                   w \in Bytes(simd) \cup { Weight("y", 3, 6, "bf16") } }
            \cup { Call("pq_st", <<w>>, 1, FALSE, simd) : w \in Bytes(simd) } : simd \in Simd }
    \cup { Call("fused_2", <<Weight("y", 5, 8, "int8"), Q4Weight("z", 6, 8)>>, 1, TRUE, "avx512"),
           Call("fused_3", <<Q4Weight("q", 6, 8), Q4Weight("k", 3, 8), Weight("v", 3, 8, "bf16")>>, 1, TRUE, "avx2"),
           Call("gate_up_matvec_st", <<Q4Weight("g", 6, 8), Weight("u", 6, 8, "bf16")>>, 1, FALSE, "avx2"),
           Call("gate_up_matmul_st", <<Weight("g", 3, 8, "int8"), Q4Weight("u", 3, 8)>>, 2, TRUE, "avx512") }

RowCalls ==
    { [Call("matmul", <<Weight("y", 5, 3, "rows")>>, m, par, simd) EXCEPT !.backend = backend] :
      backend \in {"bf16", "bf16_avx512", "int8"}, m \in 1..2, par \in BOOLEAN, simd \in {"avx512", "none"} }
    \cup { [Call("fused", ws, 1, TRUE, simd) EXCEPT !.backend = backend] :
           backend \in {"bf16", "bf16_avx512", "int8"}, simd \in {"avx512", "none"},
           ws \in { <<Weight("g", 5, 3, "rows"), Weight("u", 3, 3, "rows")>>,
                    <<Weight("q", 5, 3, "rows"), Weight("k", 1, 3, "rows"), Weight("v", 2, 3, "rows")>> } }
    \cup { [Call("matmul", <<Weight("y", 2, 3, "rows")>>, m, TRUE, simd) EXCEPT !.backend = backend] :
           backend \in {"vision", "pixtral"}, m \in {1, 5}, simd \in {"avx2", "none"} }
------------------------------------------------------------------------------
Attention(heads, kvheads, seq, past, decode, plain) ==
    [unit |-> "attention", heads |-> heads, kvheads |-> kvheads, seq |-> seq, past |-> past, start |-> past,
     decode |-> decode, bidir |-> FALSE, bias |-> ~plain, norm |-> ~plain, rope |-> ~plain, gated |-> FALSE,
     format |-> "f32", simd |-> "avx512", dpbf16 |-> FALSE, twopass |-> FALSE, par |-> TRUE]

InEveryFormat(a) ==
    { [a EXCEPT !.format = format] : format \in {"f32", "bf16", "int8", "int4"} }
    \cup (IF a.decode THEN {}
          ELSE { [a EXCEPT !.format = "bf16", !.dpbf16 = TRUE, !.twopass = twopass] : twopass \in BOOLEAN }
               \cup { [a EXCEPT !.format = "int8", !.twopass = TRUE],
                      [a EXCEPT !.format = "int8", !.simd = "avx2"] })

AttentionCalls ==
    UNION { InEveryFormat(a) : a \in
        { Attention(2, 1, 3, 0, FALSE, plain) : plain \in BOOLEAN }
        \cup { Attention(4, 2, 2, 1, FALSE, FALSE), Attention(2, 2, 2, 1, FALSE, FALSE) }
        \cup { [Attention(2, 1, 3, 0, FALSE, TRUE) EXCEPT !.bidir = TRUE] }
        \cup { Attention(4, 2, 1, 2, TRUE, FALSE), Attention(3, 1, 1, 1, TRUE, TRUE),
               [Attention(4, 2, 1, 2, TRUE, FALSE) EXCEPT !.par = FALSE] } }

\* A gated attention of one head and one row, where nothing is to be moved up.
Gated(heads, seq) ==
    [Attention(heads, 1, seq, 0, FALSE, TRUE) EXCEPT !.gated = TRUE]
GatedCalls == { Gated(heads, seq) : heads \in 1..2, seq \in 1..2 }
                  \cup { [Gated(heads, 1) EXCEPT !.decode = TRUE] : heads \in {1, 2, 4} }
------------------------------------------------------------------------------
Moe(op, scores, k, shared) ==
    [unit |-> "experts", op |-> op, seq |-> Cardinality(DOMAIN scores), k |-> k, scores |-> scores,
     bias |-> <<0, 0, 1, 0>>, usage |-> <<2, 0, 1, 3>>, tie |-> <<2, 4, 1, 3>>,
     floor |-> -1, norm |-> TRUE, shared |-> shared, par |-> TRUE]

Tokens1 == 0 :> <<3, 1, 2, 3>>
Tokens3 == 0 :> <<3, 1, 2, 3>> @@ 1 :> <<0, 1, 2, 2>> @@ 2 :> <<5, 1, 2, 0>>

ExpertCalls ==
    { [Moe("decode", Tokens1, k, shared) EXCEPT !.par = par, !.norm = norm] :
      k \in 1..3, shared \in {"gated", "plain", "none"}, par \in BOOLEAN, norm \in BOOLEAN }
    \cup { [Moe(op, Tokens3, k, "gated") EXCEPT !.norm = norm] :
           op \in {"v5", "v6", "v8"}, k \in 1..2, norm \in BOOLEAN }
    \cup { [Moe("decode", Tokens1, 2, "none") EXCEPT !.floor = floor] : floor \in {2, 9} }
    \cup { [Moe(op, Tokens3, 2, "none") EXCEPT !.floor = floor] :
           op \in {"v5", "v6", "v8"}, floor \in {2, 9} }

\* rms_norm_batch shares its rows; the fused norms are of one row.
NormCalls ==
    { [unit |-> "norm", dim |-> dim, rows |-> 3, par |-> par, simd |-> simd,
       residual |-> FALSE, quantize |-> FALSE] : dim \in {3, 6, 9}, par \in BOOLEAN, simd \in Simd }
    \cup { [unit |-> "norm", dim |-> dim, rows |-> 1, par |-> FALSE, simd |-> simd,
            residual |-> residual, quantize |-> quantize] :
           dim \in {3, 8, 18}, simd \in Simd, residual \in BOOLEAN, quantize \in BOOLEAN }

\* Images of two windows side by side, of one above the other, and of one.
VisionCalls ==
    { [unit |-> "vision", model |-> model, t |-> 1, h |-> size[1], w |-> size[2], merge |-> size[3],
       heads |-> 2, deepstack |-> model = "qwen"] :
      model \in {"qwen", "pixtral"}, size \in { <<2, 4, 2>>, <<4, 2, 2>>, <<2, 2, 2>>, <<1, 2, 1>> } }

AllCalls == Q4Matvecs \cup Q4Matmuls \cup Q4Fused \cup OtherKinds \cup RowCalls
            \cup AttentionCalls \cup { Gated(1, 1), Gated(2, 1) } \cup ExpertCalls \cup NormCalls \cup VisionCalls
=============================================================================
