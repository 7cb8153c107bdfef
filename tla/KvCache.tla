------------------------------- MODULE KvCache -------------------------------
(***************************************************************************)
(* The KV cache of one sequence on the CPU backends and the operations that*)
(* change it: a forward pass over tokens (prefill, verification of a draft,*)
(* decoding), truncation, and H2O eviction (kv_cache.rs, h2o.rs,           *)
(* generic_model.rs, generic_layer.rs, cpu_backend.rs of backend_common).  *)
(*                                                                         *)
(* A key/value pair is known by its token, by the position it was rotated  *)
(* to, and by whether the pass that made it saw what a computation from    *)
(* scratch would have seen.  All attention layers are treated alike: one   *)
(* stands for them.  The recurrent layers of a hybrid model are known by   *)
(* the tokens folded into their state, and by their positions.             *)
(***************************************************************************)
EXTENDS Integers, Sequences, SequencesExt, FiniteSetsExt

CONSTANTS
    SinkCount,      \* H2O_SINK_COUNT
    RecentWindow,   \* H2O_RECENT_WINDOW
    HysteresisDiv, HysteresisMax,   \* the 8 and the 512 of hysteresis
    ConvLCache      \* tokens a convolution looks at

ASSUME KvAssumption ==
    /\ SinkCount \in Nat /\ RecentWindow \in Nat \ {0}
    /\ HysteresisDiv \in Nat \ {0} /\ HysteresisMax \in Nat
    /\ ConvLCache \in Nat \ {0}

\* A model: how positions are encoded, what its recurrent layers are, and
\* whether its cache is kept in the format that also fills the flat arrays.
Models == [mrope : BOOLEAN, recurrent : {"none", "deltanet", "conv"}, bf16 : BOOLEAN]

Empty == [layer |-> <<>>, flat |-> <<>>, state |-> <<>>, seq_len |-> 0, text_pos |-> 0]

TokensOf(entries) == [i \in DOMAIN entries |-> entries[i].tok]

Shorten(s, n) == SubSeq(s, 1, Min({n, Len(s)}))
Window(s) == SubSeq(s, Max({1, Len(s) - ConvLCache + 1}), Len(s))

---------------------------------------------------------------------------
(* A forward pass *)

\* Where the next token is rotated to: MRoPE counts the text, RoPE the cache.
Position(m, c) == IF m.mrope THEN c.text_pos ELSE c.seq_len

\* What a recurrent layer is given: a row is of a token and of its position, for
\* it may come from an attention layer.
Placed(toks, p) == [i \in DOMAIN toks |-> [tok |-> toks[i], pos |-> p + i - 1]]
Folded(entries) == [j \in DOMAIN entries |-> [tok |-> entries[j].tok, pos |-> entries[j].pos]]

\* A decode step and a DeltaNet layer go on from the state; the prefill of a
\* convolution starts from nothing, and leaves its own last inputs.
StateAfter(m, c, toks, prefill) ==
    IF m.recurrent = "none" THEN <<>>
    ELSE IF m.recurrent = "conv" /\ prefill THEN Placed(toks, Position(m, c))
    ELSE c.state \o Placed(toks, Position(m, c))

\* The attention cache and the recurrent state agree with a computation from
\* scratch over the tokens in the cache.
FromScratch(m, entries, state) ==
    /\ \A j \in DOMAIN entries : entries[j].pos = j - 1
    /\ m.recurrent = "deltanet" => state = Folded(entries)
    /\ m.recurrent = "conv" => Window(state) = Window(Folded(entries))

\* All keys are appended before any is read: a prefill then limits the i-th
\* token to the seq_len + i first entries of the cache.
Feed(m, c, toks, prefill) ==
    LET old == Len(c.layer)
        raw == c.layer \o [i \in DOMAIN toks |->
                   [tok |-> toks[i], pos |-> Position(m, c) + i - 1, sound |-> FALSE]]
        Seen(i) == IF prefill THEN Shorten(raw, c.seq_len + i) ELSE raw
        Good(i) == /\ Len(Seen(i)) = old + i
                   /\ FromScratch(m, Seen(i), StateAfter(m, c, SubSeq(toks, 1, i), prefill))
        new == [i \in DOMAIN toks |->
                   [raw[old + i] EXCEPT !.sound =
                        /\ \A j \in 1 .. old : c.layer[j].sound
                        /\ \A j \in 1 .. i : Good(j)]]
    IN [layer    |-> c.layer \o new,
        flat     |-> IF m.bf16 THEN c.flat \o new ELSE c.flat,
        state    |-> StateAfter(m, c, toks, prefill),
        seq_len  |-> c.seq_len + Len(toks),
        text_pos |-> IF m.mrope THEN c.text_pos + Len(toks) ELSE c.text_pos]

\* The text that the logits after the n-th entry are conditioned on.
Garbled == <<0>>
Context(c, n) == IF c.layer[n].sound THEN TokensOf(SubSeq(c.layer, 1, n)) ELSE Garbled

---------------------------------------------------------------------------
(* Truncation *)

TruncateKv(c, n) ==
    IF c.seq_len > n
    THEN [c EXCEPT !.layer = Shorten(@, n), !.flat = Shorten(@, n), !.seq_len = n,
                   !.text_pos = Max({0, @ - (c.seq_len - n)})]
    ELSE c

---------------------------------------------------------------------------
(* H2O eviction: sinks and the recent window stay, and of the rest those with
   the best scores, which may be any *)

Hysteresis(budget) == Min({budget \div HysteresisDiv, HysteresisMax})

\* MUTANT: the room does not allow for what is protected.
Kept_RoomForAll(n, budget) ==
    LET sinks == 1 .. Min({SinkCount, n})
        recent == Max({n - RecentWindow, 0}) + 1 .. n
        middle == (1 .. n) \ (sinks \cup recent)
    IN {sinks \cup best \cup recent : best \in kSubset(Min({budget, Cardinality(middle)}), middle)}
Kept(n, budget) ==
    LET sinks == 1 .. Min({SinkCount, n})
        recent == Max({n - RecentWindow, 0}) + 1 .. n
        middle == (1 .. n) \ (sinks \cup recent)
        room == Max({0, budget - Cardinality(sinks) - Cardinality(recent)})
    IN {sinks \cup best \cup recent : best \in kSubset(Min({room, Cardinality(middle)}), middle)}

\* The i-th of the places that are kept.
Nth(kept, i) == CHOOSE k \in kept : Cardinality({j \in kept : j <= k}) = i
Gather(s, kept) == [i \in 1 .. Cardinality(kept) |-> s[Nth(kept, i)]]

\* A budget of 0 stands for none.  The caches a decode step may leave.
Over(c, budget) == budget # 0 /\ c.seq_len > budget + Hysteresis(budget)
Evictions(m, c, budget) ==
    IF Over(c, budget)
    THEN {[c EXCEPT !.layer = Gather(@, kept),
                    !.flat = IF m.bf16 THEN Gather(@, kept) ELSE @,
                    !.seq_len = Cardinality(kept)] : kept \in Kept(c.seq_len, budget)}
    ELSE {c}
=============================================================================
