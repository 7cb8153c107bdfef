---------------------------- MODULE MCSpeculation ----------------------------
(* The command lines that are checked, with all distributions of three tokens *)
(* in quarters.                                                               *)
EXTENDS RejectionSampling

APrompt == <<1, 2>>

\* Both position encodings, each with one cache format, and every kind of layer.
MCModels == {x \in Models : x.bf16 = x.mrope}
Dense == {x \in MCModels : x.recurrent = "none"}
Ropes == {x \in MCModels : ~x.mrope}

Setup(modes, ks, budgets, models, max_pos) ==
    [mode : modes, draft_k : ks, kv_budget : budgets, model : models, max_pos : {max_pos}, odds : {Open}]

\* Every way to decode, and draft lengths from none.  A budget of 3 leaves room
\* between sinks and recent window, one of 1 is below what they take.  A draft
\* model's steps never evict: one setup with a budget shows it.  Some models end
\* within the text.
AllSetups ==
    Setup({"plain"}, {0}, {0, 1, 3}, MCModels, 9)
    \cup Setup({"draft"}, {0, 1}, {0}, MCModels, 9)
    \cup Setup({"draft"}, {2}, {0}, Dense \cup Ropes, 9)
    \cup Setup({"draft"}, {1}, {1}, Dense, 9)
    \cup Setup({"eagle3"}, {0, 1}, {0, 3}, MCModels, 9)
    \cup Setup({"eagle3"}, {2}, {0, 3}, Dense, 9)
    \cup Setup({"plain", "draft", "eagle3"}, {1}, {0}, Dense, 4)

\* One draft token, of a draft model that knows fewer tokens than the target, the
\* same or more, or of a head that knows some of them.
Distributions(tokens) == {f \in [tokens -> 0 .. Certain] : SumFunction(f) = Certain}
WithOdds(mode, ps, qs) ==
    {[u EXCEPT !.odds = [p |-> p, q |-> q]] :
        u \in Setup({mode}, {1}, {0}, {x \in Dense : ~x.mrope}, 9), p \in ps, q \in qs}
SameOdds == WithOdds("draft", Distributions(Tokens), Distributions(Tokens))
            \cup WithOdds("eagle3", Distributions(Tokens), Distributions(Tokens))
AllOdds == SameOdds
           \cup WithOdds("draft", Distributions({1, 2}), Distributions(Tokens))
           \cup WithOdds("draft", Distributions(Tokens), Distributions({1, 2}))
           \cup WithOdds("eagle3", Distributions(Tokens),
                         UNION {Distributions(known) : known \in SUBSET Tokens \ {{}, Tokens}})

Everything == AllSetups \cup AllOdds
=============================================================================
