-------------------------------- MODULE Kernels --------------------------------
(***************************************************************************)
(* The kernels at work: what is asked of the CPU (a product, an attention, *)
(* a mixture of experts, a norm, an image to encode) is a sequence of      *)
(* phases, and a phase is a parallel_for whose workers store into the same *)
(* memory in any order, without a lock.  How a thread pool runs a parallel_for is *)
(* in ThreadPool; here it is what that module promises: every worker runs  *)
(* its range once, and the next phase starts after all of them.            *)
(***************************************************************************)
EXTENDS RowKernels, AttentionKernels, ExpertKernels, NormKernels, VisionKernels

CONSTANTS
    Calls,          \* the calls: [unit, op, ..]
    MaxWorkers      \* the workers of a pool, 1 to MaxWorkers

VARIABLES
    call,           \* what is asked
    pool,           \* num_workers, or what the tuner makes of it
    todo,           \* the phases to come, the first of them running
    left,           \* its workers that have not run yet
    mem,            \* what is stored, cell by cell
    out             \* what every worker stored in the running phase

vars == <<call, pool, todo, left, mem, out>>
------------------------------------------------------------------------------
(***************************************************************************)
(* parallel_for_with_max_workers: a contiguous range for every worker, and *)
(* no more workers than items.  A phase that is not parallel is the         *)
(* caller's.                                                               *)
(***************************************************************************)
Phase(what, items, par) == [what |-> what, ws |-> <<>>, items |-> items, par |-> par]
PhaseOf(what, ws, items, par) == [what |-> what, ws |-> ws, items |-> items, par |-> par]
Alone(what, ws) == PhaseOf(what, ws, 1, FALSE)

ActiveWorkers(ph) == IF ph.par THEN Smaller(pool, ph.items) ELSE 1
ChunkSize(ph) == CeilDiv(ph.items, ActiveWorkers(ph))
Start(ph, w) == w * ChunkSize(ph)
\* Mutant: every range runs one item into the next.
End_OneMore(ph, w) == Smaller(Start(ph, w) + ChunkSize(ph) + 1, ph.items)
End(ph, w) == Smaller(Start(ph, w) + ChunkSize(ph), ph.items)
Workers(ph) == IF ph.items = 0 THEN {}
               ELSE { w \in 0..ActiveWorkers(ph) - 1 : Start(ph, w) < End(ph, w) }
------------------------------------------------------------------------------
(***************************************************************************)
(* The products of the Q4 backend (kernels.rs): a weight that is not Q4    *)
(* goes to the kernels for floats or bytes, and takes the fused forms of   *)
(* its companions with it.  c.par is the tuner's decision or a threshold's.*)
(***************************************************************************)
IsQ4(ws) == \A j \in DOMAIN ws : ws[j].kind = "q4"
Each(ws, Plan(_)) == FlattenSeq([j \in DOMAIN ws |-> Plan(ws[j])])

MatvecPlan(c, w) ==
    CASE w.kind = "bf16"        -> <<PhaseOf("matvec_f32", <<w>>, w.n, c.par)>>
      [] w.kind = "int8"        -> <<PhaseOf("matvec_int8", <<w>>, w.n, c.par)>>
      [] w.kind = "q4" /\ c.par -> <<PhaseOf("matvec_q4_prequant", <<w>>, Tiles(w), TRUE)>>
      [] OTHER                  -> <<Alone("matvec_q4_single", <<w>>)>>

MatvecStPlan(c, w) == IF w.kind = "q4" THEN <<Alone("matvec_q4_single", <<w>>)>> ELSE MatvecPlan(c, w)

MatmulPlan(c, w) ==
    CASE w.kind = "bf16"        -> <<PhaseOf("matmul_f32", <<w>>, c.m * w.n, c.par)>>
      [] w.kind = "int8"        -> <<PhaseOf("matmul_int8", <<w>>, c.m * w.n, c.par)>>
      [] w.kind = "q4" /\ c.par -> <<PhaseOf("matmul_q4", <<w>>, c.m, TRUE)>>
      [] OTHER                  -> <<Alone("matmul_q4_sequential", <<w>>)>>

MatmulStPlan(c, w) == IF w.kind = "q4" THEN <<Alone("matmul_q4_sequential", <<w>>)>> ELSE MatmulPlan(c, w)

MatvecPqStPlan(w) == IF w.kind = "int8" THEN <<Alone("matvec_int8_pq", <<w>>)>>
                                        ELSE <<Alone("matvec_q4_pq_st", <<w>>)>>

FloatPlan(c, w) == IF w.kind = "q4" THEN <<PhaseOf("matvec_q4_float_dequant", <<w>>, Tiles(w), c.par)>>
                                    ELSE MatvecPlan(c, w)

TilesOf(ws) == FoldLeft(LAMBDA sum, w : sum + Tiles(w), 0, ws)

Fused3Plan(c) ==
    LET ws == c.ws
    IN  IF ~Fused3Shared(c, ws[1], ws[2], ws[3]) THEN <<PhaseOf("fused_3", ws, TilesOf(ws), TRUE)>>
        ELSE <<PhaseOf("fused_3_shared", ws, Tiles(ws[2]), TRUE),
               PhaseOf("fused_3_q_tail", ws, Tiles(ws[1]) - Tiles(ws[2]), TRUE)>>

Q4Plan(c) ==
    CASE c.op = "matvec"    -> MatvecPlan(c, c.ws[1])
      [] c.op = "matvec_st" -> MatvecStPlan(c, c.ws[1])
      [] c.op = "matmul"    -> MatmulPlan(c, c.ws[1])
      [] c.op = "matmul_st" -> MatmulStPlan(c, c.ws[1])
      [] c.op = "pq_st"     -> MatvecPqStPlan(c.ws[1])
      [] c.op = "float"     -> FloatPlan(c, c.ws[1])
      [] c.op = "gate_up_matmul_st" -> IF IsQ4(c.ws) THEN <<Alone("gate_up_matmul_st", c.ws)>>
                                       ELSE Each(c.ws, LAMBDA w : MatmulStPlan(c, w))
      [] c.op = "gate_up_matvec_st" -> IF IsQ4(c.ws) THEN <<Alone("gate_up_matvec_st", c.ws)>>
                                       ELSE Each(c.ws, LAMBDA w : MatvecStPlan(c, w))
      [] c.op = "gate_up_pq_st"     -> <<Alone("gate_up_matvec_st", c.ws)>>
      [] c.op = "swiglu"            -> <<PhaseOf("swiglu", c.ws, Tiles(c.ws[1]), TRUE)>>
      [] ~IsQ4(c.ws)                -> Each(c.ws, LAMBDA w : MatvecPlan(c, w))
      [] c.op = "fused_2"           -> <<PhaseOf("fused_2", c.ws, TilesOf(c.ws), TRUE)>>
      [] OTHER                      -> Fused3Plan(c)

\* The backends whose weights are rows, and what they fuse.
RowPlan(c) ==
    LET alone(form) == [j \in DOMAIN c.ws |-> Alone(c.backend \o form, <<c.ws[j]>>)]
    IN  CASE c.backend \in {"vision", "pixtral"} -> <<PhaseOf(c.backend, c.ws, c.m, TRUE)>>
          [] c.backend \in {"bf16_avx512", "int8"} /\ c.simd # "avx512" -> alone("_scalar")
          [] c.backend \in {"bf16", "bf16_avx512", "int8"} /\ ~c.par    -> alone("_st")
          [] OTHER -> <<PhaseOf(c.backend, c.ws, FoldLeft(LAMBDA sum, w : sum + RowTiles(w), 0, c.ws), TRUE)>>

\* What LinearOps does for a backend that fuses nothing: one after the other.
DefaultPlan(c) == Each(c.ws, LAMBDA w : RowPlan([c EXCEPT !.ws = <<w>>]))

Q4Body(c, ph, s, e) ==
    LET ws == ph.ws
        w == ws[1]
    IN  CASE ph.what = "matvec_f32"              -> MatvecF32(w, s, e)
          [] ph.what = "matvec_int8"             -> MatvecInt8(c.simd, w, s, e)
          [] ph.what = "matmul_f32"              -> MatmulF32(w, s, e)
          [] ph.what = "matmul_int8"             -> MatmulInt8(c.simd, w, s, e)
          [] ph.what = "matvec_int8_pq"          -> MatvecInt8Pq(c.simd, w)
          [] ph.what = "matvec_q4_single"        -> MatvecQ4Single(c, w, 0)
          [] ph.what = "matvec_q4_pq_st"         -> MatvecQ4Single([c EXCEPT !.deferred = FALSE], w, 0)
          [] ph.what = "matvec_q4_prequant"      -> MatvecQ4Prequant(c, w, s, e)
          [] ph.what = "matvec_q4_float_dequant" -> MatvecQ4FloatDequant(w, s, e)
          [] ph.what = "matmul_q4"               -> MatmulQ4(c, w, s, e)
          [] ph.what = "matmul_q4_sequential"    -> MatmulQ4Sequential(c, w)
          [] ph.what = "gate_up_matmul_st"       -> FusedGateUpMatmulQ4St(c, w, ws[2])
          [] ph.what = "gate_up_matvec_st"       -> FusedGateUpMatvecQ4St(c, w, ws[2])
          [] ph.what = "swiglu"                  -> FusedGateUpSwiglu2MatvecQ4(c, w, ws[2], s, e)
          [] ph.what = "fused_2"                 -> Fused2MatvecQ4(c, w, ws[2], s, e)
          [] ph.what = "fused_3"                 -> Fused3MatvecQ4(c, w, ws[2], ws[3], s, e)
          [] ph.what = "fused_3_shared"          -> Fused3SharedTiles(w, ws[2], ws[3], s, e)
          [] OTHER                               -> Fused3QTail(w, ws[2], s, e)

RowBody(c, ph, s, e) ==
    LET w == ph.ws[1]
        one == c.m = 1
    IN  CASE ph.what = "vision"             -> LinearForward(c, w, s, e)
          [] ph.what = "pixtral"            -> LinearNoBiasChunk(w, s, e)
          [] ph.what = "bf16"               -> IF one THEN MatvecBf16(w, s, e) ELSE MatmulBf16(w, c.m, s, e)
          [] ph.what = "bf16_st"            -> IF one THEN MatvecBf16St(w) ELSE MatmulBf16St(w, c.m)
          [] ph.what = "bf16_avx512"        -> IF one THEN MatvecBf16Avx512(w, s, e)
                                                      ELSE MatmulBf16Avx512(w, c.m, s, e)
          [] ph.what = "bf16_avx512_st"     -> IF one THEN MatvecBf16Avx512St(w) ELSE MatmulBf16Avx512St(w, c.m)
          [] ph.what = "bf16_avx512_scalar" -> Bf16Scalar(w, c.m)
          [] ph.what = "int8_st"            -> IF one THEN MatvecInt8Avx512St(w) ELSE MatmulInt8Avx512St(w, c.m)
          [] ph.what = "int8_scalar"        -> Int8MatmulScalar(w, c.m)
          [] Len(ph.ws) = 3                 -> Fused3Int8(w, ph.ws[2], ph.ws[3], s, e)
          [] Len(ph.ws) = 2                 -> Fused2Int8(w, ph.ws[2], s, e)
          [] OTHER                          -> IF one THEN MatvecInt8Avx512(w, s, e)
                                                      ELSE MatmulInt8Avx512(w, c.m, s, e)
------------------------------------------------------------------------------
(***************************************************************************)
(* GenericAttention: forward_prefill and forward_decode of a layer.        *)
(***************************************************************************)
If(condition, phases) == IF condition THEN phases ELSE <<>>

AttentionPlan(a) ==
    <<Phase("project", 1, FALSE)>>
    \o (IF a.decode
        THEN If(a.norm, <<Phase("q_norm", 1, FALSE), Phase("k_norm", 1, FALSE)>>)
             \o If(a.rope, <<Phase("rope_q", 1, FALSE), Phase("rope_k", 1, FALSE)>>)
             \o <<Phase("append", 1, FALSE), Phase("decode", a.heads, a.par)>>
        ELSE If(a.norm, <<Phase("norms", a.seq, TRUE)>>)
             \o If(a.rope, <<Phase("rope_q", a.seq, a.par), Phase("rope_k", a.seq, a.par)>>)
             \o <<Phase("append", 1, FALSE), Phase("prefill", a.seq * a.kvheads, TRUE)>>)
    \o If(a.gated, <<Phase("output_gate", 1, FALSE)>>)

AttentionBody(a, what, w, s, e) ==
    CASE what = "project" -> Project(a)
      [] what = "norms"   -> HeadNorms(a, mem, s, e)
      [] what = "q_norm"  -> QNorm(a, mem)
      [] what = "k_norm"  -> KNorm(a, mem)
      [] what = "rope_q"  -> ApplyRope(a, mem, [pos \in Rows(a) |-> QCells(a, {pos})], s, e)
      [] what = "rope_k"  -> ApplyRope(a, mem, [pos \in Rows(a) |-> KCells(a, {pos})], s, e)
      [] what = "append"  -> Append_(a, mem)
      [] what = "prefill" -> PrefillKernel(a, mem, s, e)
      [] what = "decode"  -> DecodeKernel(a, mem, w, s, e)
      [] OTHER            -> OutputGate(a, mem)

\* GenericSparseMoeBlock: forward_decode and the forms of forward_prefill.
ExpertPlan(x) ==
    CASE x.op = "decode" /\ x.par /\ x.k > 1 ->
             <<Phase("experts", Len(DecodeRoute(x, 0)), TRUE), Phase("reduce", 1, FALSE)>>
      [] x.op = "decode" /\ ~(x.par /\ x.k > 1) -> <<Phase("sequential", 1, FALSE)>>
      [] x.op = "v8" -> <<Phase("v8_experts", LptWorkers(Assignments(x), pool), TRUE), Phase("v8_scatter", 1, FALSE)>>
      [] OTHER -> <<Phase(x.op, 1, FALSE)>>

ExpertOut(x) == [idx \in 0..x.seq * x.k - 1 |-> Read(mem, <<"expert_out", idx>>)]

\* The layer of the routed tokens: batch is their expert_assignments.
ExpertBody(x, batch, what, s, e) ==
    CASE what = "experts"    -> DecodeExperts(x, s, e)
      [] what = "reduce"     -> DecodeReduce(x, ExpertOut(x))
      [] what = "sequential" -> DecodeSequential(x)
      [] what = "v5"         -> PrefillV5(x)
      [] what = "v6"         -> PrefillV6(x, batch)
      [] what = "v8_experts" -> V8Worker(ActiveExperts(x, batch), FlatAssignments(batch),
                                         LptWorkers(batch, pool), s)
      [] OTHER               -> V8Scatter(x, ActiveExperts(x, batch), FlatAssignments(batch), ExpertOut(x))
------------------------------------------------------------------------------
(***************************************************************************)
(* The vision encoders: the threads of a scope instead of a pool, with the *)
(* same ranges.  A phase is a step and, for a product or a norm of every   *)
(* row, the buffers it goes from and to.                                   *)
(***************************************************************************)
Step(name) == <<Phase(<<name>>, 1, FALSE)>>
Shared(name, items) == <<Phase(<<name>>, items, TRUE)>>
Rowwise(op, from, to, rows) == <<Phase(<<"row", op, from, to>>, rows, TRUE)>>
Whole(op, from, to, rows) == <<Phase(<<"row", op, from, to>>, rows, FALSE)>>

\* attention_forward and the feed-forward part of block_forward.
QwenBlockPlan(v) ==
    LET n == NumTokens(v)
    IN  Rowwise("norm1", "hidden", "normed", n) \o Rowwise("qkv", "normed", "qkv", n) \o Step("split_qkv")
        \o Shared("attend", v.t * v.heads) \o Shared("proj", n) \o Step("add_attn")
        \o Rowwise("norm2", "hidden", "normed", n) \o Rowwise("fc1", "normed", "mlp_hidden", n)
        \o Rowwise("gelu", "mlp_hidden", "mlp_hidden", n) \o Rowwise("fc2", "mlp_hidden", "mlp_out", n)
        \o Step("add_mlp")

\* merger_forward, with its norm after or before the tokens are joined.
MergerPlan(v, postshuffle, to) ==
    LET m == MergedTokens(v)
    IN  (IF postshuffle
         THEN Step("join_hidden") \o Rowwise("merger_norm", "joined", "joined", m)
         ELSE Rowwise("merger_norm", "hidden", "normed", NumTokens(v)) \o Step("join_normed"))
        \o Rowwise("merger_fc1", "joined", "fc1_out", m) \o Rowwise("gelu", "fc1_out", "fc1_out", m)
        \o Rowwise("merger_fc2", "fc1_out", to, m)

QwenPlan(v) ==
    Step("patchify") \o Rowwise("patch_embed", "patches", "hidden", NumTokens(v)) \o Step("add_positions")
    \o QwenBlockPlan(v)
    \o If(v.deepstack, MergerPlan(v, TRUE, "deepstack"))
    \o MergerPlan(v, FALSE, "merged")

PixtralBlockPlan(v) ==
    LET n == NumTokens(v)
    IN  Rowwise("attention_norm", "hidden", "normed", n)
        \o Shared("q", n) \o Shared("k", n) \o Shared("v", n) \o Step("rotate")
        \o Shared("attend", v.heads) \o Shared("proj", n) \o Step("add_attn")
        \o Rowwise("ffn_norm", "hidden", "normed", n) \o Rowwise("gate_proj", "normed", "gate", n)
        \o Rowwise("up_proj", "normed", "up", n) \o Step("gate_times_up")
        \o Rowwise("down_proj", "gate", "mlp_out", n) \o Step("add_mlp") \o Step("bf16_hidden")

PixtralPlan(v) ==
    LET n == NumTokens(v)
    IN  Step("preprocess") \o Rowwise("patch_conv", "patches", "hidden", n) \o Step("bf16_hidden")
        \o Rowwise("ln_pre", "hidden", "normed", n) \o Step("bf16_normed") \o Step("copy")
        \o PixtralBlockPlan(v)

ProjectorPlan(v) ==
    LET n == NumTokens(v)
        m == MergedTokens(v)
    IN  Rowwise("projector_norm", "hidden", "normed", n) \o Step("unfold")
        \o Rowwise("merging_layer", "joined", "proj_hidden", m)
        \o Rowwise("linear_1", "proj_hidden", "lin1_out", m) \o Whole("gelu", "lin1_out", "lin1_out", m)
        \o Rowwise("linear_2", "lin1_out", "merged", m)

VisionPlan(v) == IF v.model = "qwen" THEN QwenPlan(v) ELSE PixtralPlan(v) \o ProjectorPlan(v)

VisionBody(v, what, s, e) ==
    LET name == what[1]
    IN  CASE name = "row"           -> EachRow(mem, what[2], what[3], what[4], s, e)
          [] name = "patchify"      -> Patchify(v)
          [] name = "add_positions" -> AddPositions(v, mem)
          [] name = "split_qkv"     -> SplitQkv(v, mem)
          [] name = "attend"        -> IF v.model = "qwen" THEN AttentionForward(v, mem, s, e)
                                                           ELSE PixtralAttentionForward(v, mem, s, e)
          [] name = "proj"          -> OutputProj(v, mem, s, e)
          [] name = "add_attn"      -> AddTo(v, mem, "attn_out")
          [] name = "add_mlp"       -> AddTo(v, mem, "mlp_out")
          [] name = "join_hidden"   -> Joined(v, mem, "hidden", "joined")
          [] name = "join_normed"   -> Joined(v, mem, "normed", "joined")
          [] name = "preprocess"    -> PixtralPreprocess(v)
          [] name = "bf16_hidden"   -> TruncateToBf16(v, mem, "hidden")
          [] name = "bf16_normed"   -> TruncateToBf16(v, mem, "normed")
          [] name = "copy"          -> CopyToHidden(v, mem, "normed")
          [] name = "rotate"        -> RotateHeads(v, mem)
          [] name = "gate_times_up" -> GateTimesUp(v, mem)
          [] name = "unfold"        -> Unfold(v, mem)
          [] OTHER                  -> ProjectHeads(v, mem, name, s, e)
------------------------------------------------------------------------------
Plan(c) ==
    CASE c.unit = "product" /\ c.backend = "q4" -> Q4Plan(c)
      [] c.unit = "product" /\ c.backend \in {"bf16", "bf16_avx512"} -> DefaultPlan(c)
      [] c.unit = "product" /\ c.backend \in {"int8", "vision", "pixtral"} -> RowPlan(c)
      [] c.unit = "attention"                   -> AttentionPlan(c)
      [] c.unit = "experts"                     -> ExpertPlan(c)
      [] c.unit = "vision"                      -> VisionPlan(c)
      [] OTHER                                  -> <<Phase("norm", c.rows, c.par)>>

\* The closure of the phase, for worker w.
Body(c, ph, w) ==
    LET s == Start(ph, w)
        e == End(ph, w)
    IN  CASE c.unit = "product" /\ c.backend = "q4" -> Q4Body(c, ph, s, e)
          [] c.unit = "product" /\ c.backend # "q4" -> RowBody(c, ph, s, e)
          [] c.unit = "attention"                   -> AttentionBody(c, ph.what, w, s, e)
          [] c.unit = "experts"                     -> ExpertBody(c, Assignments(c), ph.what, s, e)
          [] c.unit = "vision"                      -> VisionBody(c, ph.what, s, e)
          [] OTHER                                  -> NormRows(c, s, e)

Cells(writes) == { write.to : write \in writes }
After(writes, before) ==
    [cell \in DOMAIN before \cup Cells(writes) |->
        IF cell \in Cells(writes) THEN (CHOOSE write \in writes : write.to = cell).val ELSE before[cell]]

WorkersOf(phases) == IF phases = <<>> THEN {} ELSE Workers(Head(phases))
Nothing == [w \in 0..MaxWorkers - 1 |-> {}]

Init ==
    /\ call \in Calls
    /\ pool \in 1..MaxWorkers
    /\ todo = Plan(call)
    /\ left = WorkersOf(todo)
    /\ mem = After(IF call.unit = "attention" THEN PastEntries(call) ELSE {}, <<>>)
    /\ out = Nothing

Work(w) ==
    /\ w \in left
    /\ out' = [out EXCEPT ![w] = Body(call, Head(todo), w)]
    /\ mem' = After(out'[w], mem)
    /\ left' = left \ {w}
    /\ UNCHANGED <<call, pool, todo>>

\* The caller returns from a parallel_for when every worker is done.
Join ==
    /\ left = {} /\ todo # <<>>
    /\ todo' = Tail(todo)
    /\ left' = WorkersOf(todo')
    /\ out' = Nothing
    /\ UNCHANGED <<call, pool, mem>>

Next == Join \/ \E w \in 0..MaxWorkers - 1 : Work(w)

Spec == Init /\ [][Next]_vars
------------------------------------------------------------------------------
(***************************************************************************)
(* Properties.                                                             *)
(***************************************************************************)
Finished == todo = <<>>

\* The contract of parallel_for (thread_pool.rs, "Disjoint writes"): in a
\* phase no two workers store to the same cell, and none stores two values
\* to one: nothing depends on the order they run in.
OneWriter ==
    /\ \A v, w \in DOMAIN out : v # w => Cells(out[v]) \cap Cells(out[w]) = {}
    /\ \A w \in DOMAIN out : \A a, b \in out[w] : a.to = b.to => a = b

\* The cells of a result are exactly those wanted, each with its value.
Results(name) == { cell \in DOMAIN mem : cell[1] = name }
Exactly(name, cells, Wanted(_)) ==
    Results(name) = cells /\ \A cell \in cells : mem[cell] = Wanted(cell)

ProductOf(c, w, i, row) ==
    CASE c.backend = "int8"                 -> Int8Product(i, w, row)
      [] c.backend = "bf16_avx512" /\ c.simd = "avx512" -> Bf16RoundedProduct(i, w, row)
      [] c.backend \in {"bf16", "bf16_avx512", "pixtral"} -> Bf16Product(i, w, row)
      [] c.backend = "vision"               -> [bias |-> <<w.name, row>>, dot |-> Bf16Product(i, w, row)]
      [] w.kind = "bf16"                    -> Bf16Product(i, w, row)
      [] w.kind = "q4" /\ (c.op = "float" \/ (c.op = "matmul" /\ c.par /\ c.simd = "none"))
                                            -> FloatProduct(i, w, row)
      [] w.kind = "int8"                    -> ByteProduct(c.simd, i, w, row)
      [] OTHER                              -> Product(i, w, row)

\* Whatever the kernel, the split and the order of the workers, every product
\* is made of every column of its row once, each group with its own scales
\* and its own correction, and no row is missing or from another tile.
ProductsExact ==
    Finished /\ call.unit = "product" =>
        \A j \in DOMAIN call.ws :
            LET w == call.ws[j]
                wanted == { <<w.name, i, row>> : i \in 0..call.m - 1, row \in 0..w.n - 1 }
                Wanted(cell) == IF call.op = "swiglu"
                               THEN [silu  |-> ProductOf(call, w, cell[2], cell[3]),
                                     times |-> ProductOf(call, call.ws[2], cell[2], cell[3])]
                               ELSE ProductOf(call, w, cell[2], cell[3])
            IN  Exactly(w.name, IF call.op = "swiglu" /\ j = 2 THEN {} ELSE wanted, Wanted)

\* A query head attends, in its own row, to the entries of its key head from
\* the first to its own (all of them without a mask), each normed once,
\* rotated once by its own position and rounded once, with the weights of
\* those scores; in prefill and in decode, for every format of the cache.
AttentionExact ==
    Finished /\ call.unit = "attention" =>
        LET Wanted(cell) == AttentionOf(call, cell[2] \div call.heads, cell[2] % call.heads)
        IN  Exactly("attn", { <<"attn", slot>> : slot \in 0..call.seq * call.heads - 1 }, Wanted)

\* A token gets the outputs of the experts chosen for it, each once and with
\* its own weight, and the shared expert's, whichever way the experts are
\* grouped, ordered and shared among the workers.  A bias has a say in the choice
\* and none in the weights; whether it is added to the output as well, as the
\* comment of its field has it, is left open.
ExpertsExact ==
    Finished /\ call.unit = "experts" =>
        /\ Results("out") = { <<"out", t>> : t \in Tokens(call) }
        /\ \A t \in Tokens(call) :
              LET outputs == SelectSeq(mem[<<"out", t>>], LAMBDA term : term[2][1] = "mlp")
              IN  /\ Range(outputs) = TermsOfToken(call, t)
                  /\ Len(outputs) = Cardinality(TermsOfToken(call, t))

\* A norm is over the squares of all columns of the row, each once, of the
\* sums where a residual is added; its bytes have the scale of their group.
NormsExact ==
    Finished /\ call.unit = "norm" =>
        LET columns(name) == { <<name, row, col>> : row \in 0..call.rows - 1, col \in Cols(call) }
            Norm(cell) == NormOf(call, cell[2], cell[3])
            Byte(cell) == ByteOf(call, cell[2], cell[3])
            Sum(cell) == Summed(call, cell[2], cell[3])
        IN  /\ Exactly("norm", columns("norm"), Norm)
            /\ Exactly("i8", IF call.quantize THEN columns("i8") ELSE {}, Byte)
            /\ Exactly("a", IF call.residual THEN columns("a") ELSE {}, Sum)

\* An encoder gives one token per window of the image, row by row, made of
\* that window's patches, each with the position and the rotation of its own
\* row and column and attending to every patch with its; so do the features
\* of a block, although three loops order the patches independently.
VisionExact ==
    Finished /\ call.unit = "vision" =>
        LET cells(name) == { <<name, o>> : o \in 0..MergedTokens(call) - 1 }
            Merged(cell) == VisionOf(call, cell[2], FALSE)
            Features(cell) == VisionOf(call, cell[2], TRUE)
        IN  /\ Exactly("merged", cells("merged"), Merged)
            /\ Exactly("deepstack", IF call.deepstack THEN cells("deepstack") ELSE {}, Features)

\* Of the gated projection: after it every head has its own query, not a gate
\* or another head's query.
GatedQueriesKept ==
    call.unit = "attention" /\ todo = Tail(Plan(call)) /\ out = Nothing =>
        \A slot \in 0..call.seq * call.heads - 1 :
            LET q == Projected("q", slot \div call.heads, slot % call.heads)
            IN  mem[<<"q", slot>>] = Biased(call, q)
=============================================================================
