----------------------------- MODULE Speculation -----------------------------
(***************************************************************************)
(* The decode loop of the command line and its three ways to produce tokens*)
(* (cli/src/main.rs): one at a time, with a draft model                    *)
(* (backend_common/src/speculative.rs) and with an EAGLE-3 head            *)
(* (eagle3_speculative.rs), over the KV caches of KvCache.                 *)
(*                                                                         *)
(* Which token a model prefers, and whether a draft token is accepted, may *)
(* be anything.  Every set of logits is known by the text that the pass    *)
(* that computed it had seen.                                              *)
(***************************************************************************)
EXTENDS KvCache

CONSTANTS
    Tokens,
    Prompt,         \* the tokens of the prompt
    MaxTokens,      \* --max-tokens
    Setups          \* the command lines: see SpecAssumption

ASSUME SpecAssumption ==
    /\ Tokens \subseteq Nat \ {0}
    /\ Prompt \in Seq(Tokens) \ {<<>>} /\ MaxTokens \in Nat
    /\ \A u \in Setups : /\ u.mode \in {"plain", "draft", "eagle3"}
                         /\ u.draft_k \in Nat
                         /\ u.kv_budget \in Nat
                         /\ u.model \in Models
                         /\ u.max_pos \in Nat /\ u.max_pos >= Len(Prompt)

VARIABLES
    setup,
    phase,      \* place: loop, draft, judge, rollback, print, done, error
    output,     \* prompt and generated tokens, each with what it was drawn given
    target,     \* KV cache of the target model
    draft,      \* KV cache of the draft model
    start,      \* draft_start_pos and target_start_pos
    drafts,     \* draft_tokens
    logits,     \* target logits of this step: the context of each
    accepted,   \* accepted_count
    final,      \* final_tokens not printed yet
    full        \* (history) steps that accepted their whole draft

step == <<start, drafts, logits, accepted>>   \* locals of step(), and of one iteration
vars == <<setup, phase, output, target, draft, step, final, full>>

m == setup.model
\* The draft model: dense, of the same position encoding, and without a budget.
dm == [m EXCEPT !.recurrent = "none"]

NoStart == [draft |-> 0, target |-> 0]
\* The locals of a step go out of scope.
EndStep == start' = NoStart /\ drafts' = <<>> /\ logits' = <<>> /\ accepted' = 0

current_token == Last(output).tok
total == Len(output) - Len(Prompt) - 1

\* A prompt is prefilled by the target and, if there is one, by the draft; the
\* first token is the target's.
Init ==
    /\ setup \in Setups
    /\ \E t \in Tokens :
           output = Append([i \in DOMAIN Prompt |->
                                [tok |-> Prompt[i], given |-> SubSeq(Prompt, 1, i - 1)]],
                           [tok |-> t, given |-> Prompt])
    /\ target = Feed(m, Empty, Prompt, TRUE)
    /\ draft = IF setup.mode = "draft" THEN Feed(dm, Empty, Prompt, TRUE)
                                       ELSE Empty
    /\ phase = "loop"
    /\ start = NoStart /\ drafts = <<>> /\ logits = <<>> /\ accepted = 0
    /\ final = <<>> /\ full = 0

---------------------------------------------------------------------------
(* The backend's operations on the target *)

\* An error, or the panic of an eviction that meets the empty vectors of a
\* recurrent layer, ends the program.
Fail == /\ phase' = "error"
        /\ UNCHANGED <<setup, output, target, draft, step, final, full>>

\* max_pos is max_position_embeddings.
DecodeFails(c) == c.seq_len >= setup.max_pos
EvictionPanics(c) == m.recurrent # "none" /\ Over(c, setup.kv_budget)

\* decode_next: a forward pass over one token, then eviction.
DecodeNext(token) ==
    LET c == Feed(m, target, <<token>>, FALSE)
    IN /\ ~DecodeFails(target) /\ ~EvictionPanics(c)
       /\ target' \in Evictions(m, c, setup.kv_budget)
       /\ logits' = <<Context(c, Len(c.layer))>>

DecodeNextFails(token) == \/ DecodeFails(target)
                          \/ EvictionPanics(Feed(m, target, <<token>>, FALSE))

\* verify_draft: one forward pass over the tokens, with the logits of each.
VerifyFails(tokens) == tokens = <<>> \/ target.seq_len + Len(tokens) > setup.max_pos
VerifyDraft(tokens, before) ==
    LET c == Feed(m, target, tokens, TRUE)
        n == Len(target.layer)
    IN /\ ~VerifyFails(tokens)
       /\ target' = c
       /\ logits' = before \o [i \in DOMAIN tokens |-> Context(c, n + i)]

---------------------------------------------------------------------------
(* The loop *)

\* max_tokens is reached, or a signal asked for the end.
EndLoop == /\ phase = "loop"
           /\ phase' = "done"
           /\ UNCHANGED <<setup, output, target, draft, step, final, full>>

InLoop(mode) == phase = "loop" /\ setup.mode = mode /\ total < MaxTokens

\* One token: decode, then choose from the logits.
Decode ==
    /\ InLoop("plain")
    /\ \/ /\ DecodeNext(current_token)
          /\ \E t \in Tokens : final' = <<[tok |-> t, given |-> logits'[1]]>>
          /\ phase' = "print"
          /\ UNCHANGED <<setup, output, draft, start, drafts, accepted, full>>
       \/ DecodeNextFails(current_token) /\ Fail

---------------------------------------------------------------------------
(* One step with a draft model, or with an EAGLE-3 head *)

BeginDraft ==
    /\ InLoop("draft")
    /\ start' = [draft |-> draft.seq_len, target |-> target.seq_len]
    /\ drafts' = <<>> /\ accepted' = 0 /\ logits' = <<>>
    /\ phase' = "draft"
    /\ UNCHANGED <<setup, output, target, draft, final, full>>

\* The head keeps nothing from step to step; the target reads current_token
\* before the draft.
BeginEagle ==
    /\ InLoop("eagle3")
    /\ \/ /\ start' = [start EXCEPT !.target = target.seq_len]
          /\ DecodeNext(current_token)
          /\ drafts' = <<>> /\ accepted' = 0
          /\ phase' = "draft"
          /\ UNCHANGED <<setup, output, draft, final, full>>
       \/ DecodeNextFails(current_token) /\ Fail

\* The draft model reads current_token first, then its own drafts.
Draft ==
    /\ phase = "draft" /\ Len(drafts) < setup.draft_k
    /\ \/ /\ setup.mode = "draft" /\ ~DecodeFails(draft)
          /\ draft' = Feed(dm, draft, <<IF drafts = <<>> THEN current_token
                                                         ELSE Last(drafts)>>, FALSE)
          /\ \E t \in Tokens : drafts' = Append(drafts, t)
          /\ UNCHANGED <<setup, phase, output, target, start, logits, accepted, final, full>>
       \/ /\ setup.mode = "eagle3"
          /\ \E t \in Tokens : drafts' = Append(drafts, t)
          /\ UNCHANGED <<setup, phase, output, target, draft, start, logits, accepted, final, full>>
       \/ setup.mode = "draft" /\ DecodeFails(draft) /\ Fail

Verify ==
    LET tokens == IF setup.mode = "draft" THEN <<current_token>> \o drafts ELSE drafts
    IN /\ phase = "draft" /\ Len(drafts) = setup.draft_k
       /\ \/ /\ VerifyDraft(tokens, logits)
             /\ phase' = "judge"
             /\ UNCHANGED <<setup, output, draft, start, drafts, accepted, final, full>>
          \/ VerifyFails(tokens) /\ Fail

Produce(t, i) == final' = Append(final, [tok |-> t, given |-> logits[i]])

Accept ==
    /\ phase = "judge" /\ accepted < setup.draft_k
    /\ Produce(drafts[accepted + 1], accepted + 1)
    /\ accepted' = accepted + 1
    /\ UNCHANGED <<setup, phase, output, target, draft, start, drafts, logits, full>>

\* MUTANT: the replacement is drawn from the logits of the next position.
Reject_NextLogits ==
    /\ phase = "judge" /\ accepted < setup.draft_k
    /\ \E t \in Tokens : Produce(t, Min({accepted + 2, Len(logits)}))
    /\ phase' = "rollback"
    /\ UNCHANGED <<setup, output, target, draft, step, full>>
\* The residual distribution may give any token.
Reject ==
    /\ phase = "judge" /\ accepted < setup.draft_k
    /\ \E t \in Tokens : Produce(t, accepted + 1)
    /\ phase' = "rollback"
    /\ UNCHANGED <<setup, output, target, draft, step, full>>

Bonus ==
    /\ phase = "judge" /\ accepted = setup.draft_k
    /\ \E t \in Tokens : Produce(t, accepted + 1)
    /\ phase' = "rollback"
    /\ full' = full + 1
    /\ UNCHANGED <<setup, output, target, draft, step>>

\* MUTANT: the caches keep the rejected draft token.
Rollback_OneMore ==
    /\ phase = "rollback"
    /\ draft' = IF setup.mode = "draft" THEN TruncateKv(draft, start.draft + 2 + accepted) ELSE draft
    /\ target' = TruncateKv(target, start.target + 2 + accepted)
    /\ phase' = "print"
    /\ EndStep
    /\ UNCHANGED <<setup, output, final, full>>
\* current_token and the accepted drafts stay.
Rollback ==
    /\ phase = "rollback"
    /\ draft' = IF setup.mode = "draft" THEN TruncateKv(draft, start.draft + 1 + accepted) ELSE draft
    /\ target' = TruncateKv(target, start.target + 1 + accepted)
    /\ phase' = "print"
    /\ EndStep
    /\ UNCHANGED <<setup, output, final, full>>

\* A token is printed.  If it ends the text (end of sequence, stop sequence) the
\* rest of the step is dropped with the loop.
Emit ==
    /\ phase = "print"
    /\ output' = Append(output, Head(final))
    /\ \/ final' = Tail(final) /\ phase' = IF Tail(final) = <<>> THEN "loop" ELSE "print"
       \/ final' = <<>> /\ phase' = "done"
    /\ EndStep
    /\ UNCHANGED <<setup, target, draft, full>>

Next == \/ EndLoop \/ Decode
        \/ BeginDraft \/ BeginEagle \/ Draft \/ Verify
        \/ Accept \/ Reject \/ Bonus \/ Rollback
        \/ Emit

Spec == Init /\ [][Next]_vars

---------------------------------------------------------------------------
(* Properties *)

\* Between steps nothing of a step is under way.
Idle == phase = "loop"
NoEviction == setup.kv_budget = 0
D == INSTANCE Decoding WITH text <- output
\* Every token, with a draft or without one, is drawn from the logits of the text
\* before it.  So it is, without eviction, for dense models, and for any model
\* without a draft: a recurrent state cannot be cut back.
DrawnInContextIfDense ==
    [][NoEviction /\ (setup.mode = "plain" \/ m.recurrent = "none") => D!Generate]_output

\* The vectors of every layer, the flat copy for the prefix cache and the
\* recorded length agree, however often the cache was cut or compacted.
InAgreement == \A c \in {target, draft} :
    /\ c.seq_len = Len(c.layer)
    /\ c.flat = IF m.bf16 THEN c.layer ELSE <<>>

\* No token that was rejected stays in the target's cache: it holds tokens of
\* the text, in their order, and in their place unless some were evicted.
NoRejectedToken ==
    Idle /\ (setup.mode = "eagle3" => NoEviction) =>
        LET text == TokensOf(Front(output))
        IN IF NoEviction \/ setup.mode = "draft" THEN TokensOf(target.layer) = text
           ELSE \E kept \in SUBSET (DOMAIN text) : Gather(text, kept) = TokensOf(target.layer)

\* Keys are rotated to increasing positions.  With RoPE this needs that nothing
\* is evicted: the position is then the length of the cache, which shrinks.  With
\* MRoPE the next position is the place in the text, also after evictions.
PositionsAscend ==
    /\ m.mrope \/ NoEviction \/ setup.mode = "draft" =>
           \A i, j \in DOMAIN target.layer : i < j => target.layer[i].pos < target.layer[j].pos
    /\ Idle /\ m.mrope /\ (setup.mode = "eagle3" => NoEviction) =>
           target.text_pos = Len(output) - 1

\* The draft's cache holds tokens that the target's holds, in their order, and so
\* never one that the target rejected.
DraftFollows ==
    Idle /\ setup.mode = "draft" =>
        \E kept \in kSubset(draft.seq_len, DOMAIN target.layer) :
            Gather(TokensOf(target.layer), kept) = TokensOf(draft.layer)

\* What a step leaves in the caches of both models, whatever was accepted, cut
\* back, evicted or failed: they are in agreement with themselves, with the text
\* and with each other.
Coherent == InAgreement /\ NoRejectedToken /\ PositionsAscend /\ DraftFollows

\* A decode step leaves no more than the budget allows, or than is protected, and
\* never evicts the token it has just read.
Decoded == \/ phase = "print" /\ setup.mode = "plain"
           \/ phase = "draft" /\ setup.mode = "eagle3" /\ drafts = <<>>
WithinBudget ==
    /\ Decoded /\ ~NoEviction =>
           target.seq_len <= Max({setup.kv_budget + Hysteresis(setup.kv_budget),
                                  SinkCount + RecentWindow})
    /\ phase = "print" /\ setup.mode = "plain" => Last(target.layer).tok = current_token
=============================================================================
