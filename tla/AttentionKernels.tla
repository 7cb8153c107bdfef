--------------------------- MODULE AttentionKernels ---------------------------
(***************************************************************************)
(* What GenericAttention does between the projections that give it its     *)
(* queries, keys and values and the one that takes its output              *)
(* (generic_attention, attention_common.rs and the append of kv_cache.rs): *)
(* gates, biases, head norms, rotation, the append to the cache and the    *)
(* attention kernels of the four cache formats.                            *)
(*                                                                         *)
(* A head of a row is one cell of memory.  Its value is the row the        *)
(* projection made with the operations that were done to it, the last one  *)
(* first.  A call a has heads query heads on kvheads key heads, seq rows   *)
(* at positions start, start + 1, .. and past entries in the cache.        *)
(***************************************************************************)
EXTENDS Integers, Sequences

CONSTANTS
    Lanes,      \* 8: the query heads a SIMD kernel takes at once
    Groups      \* head_dim / 32: the groups of an INT4 head

ASSUME AttentionAssumption == {Lanes, Groups} \subseteq Nat \ {0}

\* What a load gives that no store of this call preceded.
Stale == <<"stale">>
Read(mem, cell) == IF cell \in DOMAIN mem THEN mem[cell] ELSE Stale
Write(cell, val) == [to |-> cell, val |-> val]

Done(op, val) == <<op, val>>
Least(x, y) == IF x < y THEN x ELSE y

Rows(a) == 0..a.seq - 1
Heads(a) == 0..a.heads - 1
KvHeads(a) == 0..a.kvheads - 1
HeadsPerKv(a) == a.heads \div a.kvheads
HeadToKvHead(a, h) == h \div HeadsPerKv(a)
CachedLen(a) == a.past + a.seq

\* Rows of a buffer are one after the other: head h of row i is slot Slot(a, i, h).
Slot(a, i, h) == i * a.heads + h
KvSlot(a, i, kvh) == i * a.kvheads + kvh
------------------------------------------------------------------------------
(***************************************************************************)
(* Before the kernel.  q_proj of a gated model makes a query and a gate    *)
(* for every head; the gates are taken out, then the queries moved up.     *)
(***************************************************************************)
Projected(x, i, h) == <<x, i, h>>

GateExtracted(a) ==
    { Write(<<"gate", Slot(a, i, h)>>, Projected("gate", i, h)) : i \in Rows(a), h \in Heads(a) }

\* The buffer after n moves, from the last item to the first.
Compacted(a) ==
    LET items == a.seq * a.heads
        fused == [s \in 0..2 * items - 1 |->
                     Projected(IF s % 2 = 0 THEN "q" ELSE "gate",
                               s \div (2 * a.heads), (s \div 2) % a.heads)]
        after[n \in 0..items] ==
            IF n = 0 THEN fused
            ELSE LET before == after[n - 1]
                     item == items - n
                 IN  [before EXCEPT ![item] = before[2 * item]]
    IN  after[items]

Queries(a) == IF a.gated THEN Compacted(a)
              ELSE [s \in 0..a.seq * a.heads - 1 |-> Projected("q", s \div a.heads, s % a.heads)]

\* The bias of a projection, once a row.
Biased(a, val) == IF a.bias THEN Done("bias", val) ELSE val

Project(a) ==
    LET q == Queries(a)
    IN  { Write(<<"q", s>>, Biased(a, q[s])) : s \in 0..a.seq * a.heads - 1 }
        \cup UNION { { Write(<<x, KvSlot(a, i, kvh)>>, Biased(a, Projected(x, i, kvh))) :
                       i \in Rows(a), kvh \in KvHeads(a) } : x \in {"k", "v"} }
        \cup (IF a.gated THEN GateExtracted(a) ELSE {})

InPlace(mem, op, cells) == { Write(cell, Done(op, Read(mem, cell))) : cell \in cells }
QCells(a, rows) == { <<"q", Slot(a, i, h)>> : i \in rows, h \in Heads(a) }
KCells(a, rows) == { <<"k", KvSlot(a, i, kvh)>> : i \in rows, kvh \in KvHeads(a) }

\* Prefill norms the heads of both if the model has both norms, decode each
\* that it has.
HeadNorms(a, mem, s, e) ==
    InPlace(mem, "norm", QCells(a, s..e - 1)) \cup InPlace(mem, "norm", KCells(a, s..e - 1))
QNorm(a, mem) == InPlace(mem, "norm", QCells(a, {0}))
KNorm(a, mem) == InPlace(mem, "norm", KCells(a, {0}))

\* apply_rope_batch: the row at pos by the angle of start + pos.
ApplyRope(a, mem, cells, s, e) ==
    UNION { InPlace(mem, <<"rope", a.start + pos>>, cells[pos]) : pos \in s..e - 1 }

GroupsOf(a) == IF a.format = "int4" THEN Groups ELSE 1
Rounded(a, val, g) == IF a.format = "f32" THEN val ELSE <<a.format, val, g>>
ScaleOf(val, g) == <<"scale", val, g>>
Scaled(a) == a.format \in {"int8", "int4"}

\* What is stored for position j of a head: its groups, and their scales.
Stored(a, x, kvh, j, val) ==
    { Write(<<x, kvh, j * GroupsOf(a) + g>>, Rounded(a, val, g)) : g \in 0..GroupsOf(a) - 1 }
    \cup IF Scaled(a) THEN { Write(<<x, "scale", kvh, j * GroupsOf(a) + g>>, ScaleOf(val, g)) :
                             g \in 0..GroupsOf(a) - 1 }
                      ELSE {}

Append_(a, mem) ==
    UNION { Stored(a, "kcache", kvh, a.past + pos, Read(mem, <<"k", KvSlot(a, pos, kvh)>>))
            \cup Stored(a, "vcache", kvh, a.past + pos, Read(mem, <<"v", KvSlot(a, pos, kvh)>>)) :
            pos \in Rows(a), kvh \in KvHeads(a) }

\* The entries that are there before the call.
PastEntries(a) ==
    UNION { Stored(a, "kcache", kvh, j, <<"past", "k", kvh, j>>)
            \cup Stored(a, "vcache", kvh, j, <<"past", "v", kvh, j>>) :
            j \in 0..a.past - 1, kvh \in KvHeads(a) }
------------------------------------------------------------------------------
(***************************************************************************)
(* An entry of the cache as a kernel loads it: the numbers at j * head_dim *)
(* and what they are multiplied by, group by group in INT4.                *)
(***************************************************************************)
Entries(a) == {"kcache", "vcache"} \X KvHeads(a) \X (0..CachedLen(a) - 1)

LoadF32(a, mem) == [entry \in Entries(a) |-> Read(mem, entry)]
LoadInt8(a, mem) ==
    [entry \in Entries(a) |-> <<Read(mem, entry), Read(mem, <<entry[1], "scale", entry[2], entry[3]>>)>>]
LoadInt4(a, mem) ==
    [entry \in Entries(a) |->
        [g \in 0..Groups - 1 |->
            LET at == entry[3] * Groups + g
            IN  <<Read(mem, <<entry[1], entry[2], at>>), Read(mem, <<entry[1], "scale", entry[2], at>>)>>]]

\* A head of the output: what was weighted by what, and what the weights are
\* divided by.
Output(scores, values) ==
    [terms |-> [j \in DOMAIN scores |-> <<scores[j], values[j]>>], over |-> scores]

(***************************************************************************)
(* Prefill kernels: a work item is a key head and a row, rows from both    *)
(* ends in turn, and gives the query heads of the key head.                *)
(***************************************************************************)
KvHeadOf(a, work) == work \div a.seq
RowOf(a, work) ==
    LET local == work % a.seq
    IN  IF local % 2 = 0 THEN local \div 2 ELSE a.seq - 1 - local \div 2

\* Mutant: a row's entries counted as if the chunk were the first.
ValidLen_FromZero(a, i) == IF a.bidir THEN CachedLen(a) ELSE Least(i + 1, CachedLen(a))
ValidLen(a, i) == IF a.bidir THEN CachedLen(a) ELSE Least(a.start + i + 1, CachedLen(a))
QueryHead(a, kvh, local) == kvh * HeadsPerKv(a) + local
Attn(a, i, kvh, local, val) == Write(<<"attn", Slot(a, i, QueryHead(a, kvh, local))>>, val)

\* One query head after the other: prefill_kernel_f32, prefill_kernel_int4.
PerHead(a, mem, load, work) ==
    LET kvh == KvHeadOf(a, work)
        i == RowOf(a, work)
        valid == 0..ValidLen(a, i) - 1
    IN  { LET q == Read(mem, <<"q", Slot(a, i, QueryHead(a, kvh, local))>>)
          IN  Attn(a, i, kvh, local,
                   Output([j \in valid |-> <<q, load["kcache", kvh, j]>>],
                          [j \in valid |-> load["vcache", kvh, j]])) :
          local \in 0..HeadsPerKv(a) - 1 }

\* VDPBF16PS multiplies queries rounded once, for a BF16 cache.
UsesDpBf16(a) == a.dpbf16 /\ a.format = "bf16"

\* The queries of the lanes; lanes without a head repeat the first.
QPtrArray(a, mem, kvh, i) ==
    [lane \in 0..Lanes - 1 |->
        LET local == IF lane < HeadsPerKv(a) THEN lane ELSE 0
            q == Read(mem, <<"q", Slot(a, i, QueryHead(a, kvh, local))>>)
        IN  IF UsesDpBf16(a) THEN <<"qbf16", q>> ELSE q]

\* A score per lane for every entry, then the softmax of each lane.
TwoPass(q, keys, values) ==
    LET scores == [j \in DOMAIN keys |-> [lane \in 0..Lanes - 1 |-> <<q[lane], keys[j]>>]]
    IN  [lane \in 0..Lanes - 1 |-> Output([j \in DOMAIN keys |-> scores[j][lane]], values)]

\* The online softmax of all lanes.  With a head for every lane the fused
\* kernel keeps the sums of the weights after their maxima, in ml[Lanes ..].
OnlineSoftmax(a, q, keys, values) ==
    LET fused == HeadsPerKv(a) = Lanes /\ a.simd = "avx512"
        sums == [lane \in 0..Lanes - 1 |-> [j \in DOMAIN keys |-> <<q[lane], keys[j]>>]]
        o == [lane \in 0..Lanes - 1 |->
                 [j \in DOMAIN keys |-> <<<<q[lane], keys[j]>>, values[j]>>]]
        ml == [at \in 0..2 * Lanes - 1 |-> IF fused /\ at >= Lanes THEN sums[at - Lanes] ELSE <<>>]
        l == [lane \in 0..Lanes - 1 |-> IF fused THEN ml[Lanes + lane] ELSE sums[lane]]
    IN  [lane \in 0..Lanes - 1 |-> [terms |-> o[lane], over |-> l[lane]]]

\* prefill_kernel_bf16, prefill_kernel_int8.
ByLanes(a, mem, load, work) ==
    LET kvh == KvHeadOf(a, work)
        i == RowOf(a, work)
        valid == 0..ValidLen(a, i) - 1
        q == QPtrArray(a, mem, kvh, i)
        keys == [j \in valid |-> load["kcache", kvh, j]]
        values == [j \in valid |-> load["vcache", kvh, j]]
        lanes == IF a.twopass /\ HeadsPerKv(a) = Lanes /\ a.simd = "avx512"
                 THEN TwoPass(q, keys, values) ELSE OnlineSoftmax(a, q, keys, values)
    IN  { Attn(a, i, kvh, local, lanes[local]) : local \in 0..HeadsPerKv(a) - 1 }

PrefillKernelF32(a, mem, s, e) == UNION { PerHead(a, mem, LoadF32(a, mem), work) : work \in s..e - 1 }
PrefillKernelBf16(a, mem, s, e) == UNION { ByLanes(a, mem, LoadF32(a, mem), work) : work \in s..e - 1 }
PrefillKernelInt8(a, mem, s, e) == UNION { ByLanes(a, mem, LoadInt8(a, mem), work) : work \in s..e - 1 }
PrefillKernelInt4(a, mem, s, e) == UNION { PerHead(a, mem, LoadInt4(a, mem), work) : work \in s..e - 1 }

PrefillKernel(a, mem, s, e) ==
    CASE a.format = "f32"  -> PrefillKernelF32(a, mem, s, e)
      [] a.format = "bf16" -> PrefillKernelBf16(a, mem, s, e)
      [] a.format = "int8" -> PrefillKernelInt8(a, mem, s, e)
      [] OTHER             -> PrefillKernelInt4(a, mem, s, e)
------------------------------------------------------------------------------
(***************************************************************************)
(* Decode: one query row, the heads shared among workers that keep their   *)
(* scores in buffers of their own.                                         *)
(***************************************************************************)
DecodeHead(a, mem, load, h, buffer) ==
    LET kvh == HeadToKvHead(a, h)
        q == Read(mem, <<"q", h>>)
        scores == [j \in 0..CachedLen(a) - 1 |-> <<q, load["kcache", kvh, j]>>]
        values == [j \in 0..CachedLen(a) - 1 |-> load["vcache", kvh, j]]
    IN  [scores |-> { [to |-> <<"scores", buffer, j>>, val |-> scores[j]] : j \in DOMAIN scores },
         attn   |-> Write(<<"attn", h>>, Output(scores, values))]

\* The scores that are left are those of the last head.
DecodeHeads(a, mem, load, buffer, s, e) ==
    DecodeHead(a, mem, load, e - 1, buffer).scores
    \cup { DecodeHead(a, mem, load, h, buffer).attn : h \in s..e - 1 }

DecodeF32(a, mem, buffer, s, e) == DecodeHeads(a, mem, LoadF32(a, mem), buffer, s, e)
DecodeBf16(a, mem, buffer, s, e) == DecodeHeads(a, mem, LoadF32(a, mem), buffer, s, e)
DecodeInt8(a, mem, buffer, s, e) == DecodeHeads(a, mem, LoadInt8(a, mem), buffer, s, e)
DecodeInt4(a, mem, buffer, s, e) == DecodeHeads(a, mem, LoadInt4(a, mem), buffer, s, e)

DecodeKernel(a, mem, worker, s, e) ==
    CASE a.format = "f32"  -> DecodeF32(a, mem, worker, s, e)
      [] a.format = "bf16" -> DecodeBf16(a, mem, worker, s, e)
      [] a.format = "int8" -> DecodeInt8(a, mem, worker, s, e)
      [] OTHER             -> DecodeInt4(a, mem, worker, s, e)

\* The output, multiplied by the sigmoid of the gate at its place.
OutputGate(a, mem) ==
    { LET cell == <<"attn", slot>>
      IN  Write(cell, Done(<<"gate", Read(mem, <<"gate", slot>>)>>, Read(mem, cell))) :
      slot \in 0..a.seq * a.heads - 1 }
------------------------------------------------------------------------------
(***************************************************************************)
(* What attention is: head h of row i over the entries up to its own (or   *)
(* all of them), each normed, rotated by its position, and stored.         *)
(***************************************************************************)
Query(a, i, h) ==
    LET biased == Biased(a, Projected("q", i, h))
        normed == IF a.norm THEN Done("norm", biased) ELSE biased
        q == IF a.rope THEN Done(<<"rope", a.start + i>>, normed) ELSE normed
    IN  IF UsesDpBf16(a) /\ ~a.decode THEN <<"qbf16", q>> ELSE q

Key(a, kvh, j) ==
    LET i == j - a.past
        biased == Biased(a, Projected("k", i, kvh))
        normed == IF a.norm THEN Done("norm", biased) ELSE biased
    IN  IF j < a.past THEN <<"past", "k", kvh, j>>
        ELSE IF a.rope THEN Done(<<"rope", a.start + i>>, normed) ELSE normed

Value(a, kvh, j) == IF j < a.past THEN <<"past", "v", kvh, j>>
                    ELSE Biased(a, Projected("v", j - a.past, kvh))

Loaded(a, val) ==
    CASE a.format = "int8" -> <<Rounded(a, val, 0), ScaleOf(val, 0)>>
      [] a.format = "int4" -> [g \in 0..Groups - 1 |-> <<Rounded(a, val, g), ScaleOf(val, g)>>]
      [] OTHER             -> Rounded(a, val, 0)

AttentionOf(a, i, h) ==
    LET kvh == h \div (a.heads \div a.kvheads)
        entries == 0..(IF a.bidir THEN a.past + a.seq ELSE a.past + i + 1) - 1
        scores == [j \in entries |-> <<Query(a, i, h), Loaded(a, Key(a, kvh, j))>>]
        out == [terms |-> [j \in entries |-> <<scores[j], Loaded(a, Value(a, kvh, j))>>],
                over  |-> scores]
    IN  IF a.gated THEN Done(<<"gate", Projected("gate", i, h)>>, out) ELSE out
=============================================================================
