----------------------------- MODULE ExpertKernels -----------------------------
(***************************************************************************)
(* The mixture of experts (generic_moe.rs, expert_pool.rs): the routing of *)
(* a token, and the three ways its experts are run: one token at a time,   *)
(* the tokens of an expert together, and the experts of a batch shared     *)
(* among the workers.                                                      *)
(*                                                                         *)
(* A call x has seq tokens; x.scores[t][e] is what the router gives expert *)
(* e for token t, x.bias[e] what is added to choose, x.usage[e] how often  *)
(* the expert was used before, by whatever request, and x.tie[e] the place *)
(* an unstable sort leaves e at among its equals; the probability of a     *)
(* score of x.floor or less is 0 in f32.  The output of a token is the     *)
(* sequence of what is added up.                                           *)
(***************************************************************************)
EXTENDS Integers, Sequences, SequencesExt, FiniteSets

Experts(x) == DOMAIN x.usage
Tokens(x) == 0..x.seq - 1

\* The members of S in the order of Before, an order of them all.
Sorted(S, Before(_, _)) ==
    [i \in 1..Cardinality(S) |->
        CHOOSE m \in S : Cardinality({ o \in S : o # m /\ Before(o, m) }) = i - 1]

\* top_k_indices: the k greatest values, the greatest first.
TopKIndices(values, k, tie) ==
    LET all == Sorted(DOMAIN values,
                      LAMBDA e, f : \/ values[e] > values[f]
                                    \/ values[e] = values[f] /\ tie[e] < tie[f])
    IN  SubSeq(all, 1, IF k < Len(all) THEN k ELSE Len(all))

\* route_token: a bias has a say in who is chosen, not in the weight.
Vanished == <<"0">>
Probability(x, t, e) == IF x.scores[t][e] <= x.floor THEN Vanished ELSE <<"p", t, e>>
RouteToken(x, t) ==
    LET biased == [e \in Experts(x) |-> x.scores[t][e] + x.bias[e]]
        selected == TopKIndices(biased, x.k, x.tie)
    IN  [i \in DOMAIN selected |-> [expert |-> selected[i], weight |-> Probability(x, t, selected[i])]]

\* norm_topk_prob: weights are divided by the sum of the selected ones, if it is
\* more than 0.
Normalized(x, route) ==
    IF x.norm /\ \E i \in DOMAIN route : route[i].weight # Vanished
              THEN [i \in DOMAIN route |->
                       [route[i] EXCEPT !.weight = <<@, "of", { route[j].weight : j \in DOMAIN route }>>]]
              ELSE route

\* Mutant: the experts are put in the order of use, their weights are not.
SortedByFrequency_Apart(x, route) ==
    LET Used(i) == x.usage[route[i].expert]
        order == Sorted(DOMAIN route, LAMBDA i, j : Used(i) > Used(j) \/ (Used(i) = Used(j) /\ i < j))
    IN  [n \in DOMAIN route |-> [route[n] EXCEPT !.expert = route[order[n]].expert]]

\* record_and_sort_by_frequency: the most used first, this use included.
SortedByFrequency(x, route) ==
    LET used == [e \in Experts(x) |->
                    IF \E i \in DOMAIN route : route[i].expert = e THEN x.usage[e] + 1 ELSE x.usage[e]]
        order == Sorted(DOMAIN route, LAMBDA i, j : LET u == used[route[i].expert]
                                                        v == used[route[j].expert]
                                                    IN  u > v \/ (u = v /\ i < j))
    IN  [n \in DOMAIN route |-> route[order[n]]]

Mlp(e, t) == <<"mlp", e, t>>
Term(weight, val) == <<weight, val>>

\* add_shared_expert, add_shared_expert_prefill.
SharedTerm(x, t) ==
    CASE x.shared = "gated" -> <<Term(<<"sigmoid", t>>, Mlp("shared", t))>>
      [] x.shared = "plain" -> <<Term(<<"one">>, Mlp("shared", t))>>
      [] OTHER              -> <<>>
------------------------------------------------------------------------------
(* One token: forward_decode_with_pq, and forward_prefill_v5.               *)

DecodeRoute(x, t) == Normalized(x, SortedByFrequency(x, RouteToken(x, t)))

\* The experts from s to e - 1 of the selected ones, each to its slice.
DecodeExperts(x, s, e) ==
    LET route == DecodeRoute(x, 0)
    IN  { [to |-> <<"expert_out", idx>>, val |-> Mlp(route[idx + 1].expert, 0)] : idx \in s..e - 1 }

\* outs[idx]: the slice of the buffer with the output of the idx-th.
DecodeReduce(x, outs) ==
    LET route == DecodeRoute(x, 0)
    IN  { [to |-> <<"out", 0>>,
           val |-> [i \in DOMAIN route |-> Term(route[i].weight, outs[i - 1])] \o SharedTerm(x, 0)] }

Sequentially(x, t, route) ==
    [i \in DOMAIN route |-> Term(route[i].weight, Mlp(route[i].expert, t))] \o SharedTerm(x, t)

DecodeSequential(x) == { [to |-> <<"out", 0>>, val |-> Sequentially(x, 0, DecodeRoute(x, 0))] }
PrefillV5(x) == { [to |-> <<"out", t>>, val |-> Sequentially(x, t, Normalized(x, RouteToken(x, t)))] :
                  t \in Tokens(x) }
------------------------------------------------------------------------------
(* A batch: forward_prefill_v6 and forward_prefill_v8_parallel.             *)

Routes(x) == [t \in Tokens(x) |-> Normalized(x, RouteToken(x, t))]

\* The tokens of e and their weights, tokens in order.
Assigned(routes, e) ==
    LET order == Sorted({ t \in DOMAIN routes : \E r \in Range(routes[t]) : r.expert = e },
                        LAMBDA t, u : t < u)
    IN  [n \in DOMAIN order |->
            [token  |-> order[n],
             weight |-> (CHOOSE r \in Range(routes[order[n]]) : r.expert = e).weight]]

\* expert_assignments, and the experts with a token, in order.
Assignments(x) == [e \in Experts(x) |-> Assigned(Routes(x), e)]
Active(batch) == Sorted({ e \in DOMAIN batch : batch[e] # <<>> }, LAMBDA e, f : e < f)

\* v6: an expert runs over its gathered tokens, and its rows are scattered.
ScatteredTo(batch, t, e) ==
    LET rows == [n \in DOMAIN batch[e] |-> Mlp(e, batch[e][n].token)]
        mine == SelectSeq([n \in DOMAIN rows |-> n], LAMBDA n : batch[e][n].token = t)
    IN  [m \in DOMAIN mine |-> Term(batch[e][mine[m]].weight, rows[mine[m]])]

ScatteredV6(x, batch, order) ==
    { [to  |-> <<"out", t>>,
       val |-> FlattenSeq([i \in DOMAIN order |-> ScatteredTo(batch, t, order[i])]) \o SharedTerm(x, t)] :
      t \in Tokens(x) }

PrefillV6(x, batch) == ScatteredV6(x, batch, Active(batch))

\* v8: the assignments of the active experts flattened, and where the rows of
\* each begin.
Flattened(batch, experts) == FlattenSeq([i \in DOMAIN experts |-> batch[experts[i]]])
FlatAssignments(batch) == Flattened(batch, Active(batch))
OffsetOf(batch, e) == Len(Flattened(batch, SelectSeq(Active(batch), LAMBDA f : f < e)))

\* active_experts, those with most tokens first.
ActiveExperts(x, batch) ==
    LET order == Sorted(Range(Active(batch)), LAMBDA e, f :
                     \/ Len(batch[e]) > Len(batch[f])
                     \/ Len(batch[e]) = Len(batch[f]) /\ x.tie[e] < x.tie[f])
    IN  [i \in DOMAIN order |-> [expert |-> order[i], offset |-> OffsetOf(batch, order[i]),
                                 count |-> Len(batch[order[i]])]]

LptWorkers(batch, workers) ==
    LET active == Len(Active(batch)) IN IF workers < active THEN workers ELSE active

\* Longest processing time first: the next expert to the worker with least,
\* the first of those.
WorkerLists(active, lpt) ==
    LET W == 0..lpt - 1
        after[n \in 0..Len(active)] ==
            IF n = 0 THEN [load |-> [w \in W |-> 0], lists |-> [w \in W |-> <<>>]]
            ELSE LET before == after[n - 1]
                     min == CHOOSE w \in W : \A v \in W : \/ before.load[w] < before.load[v]
                                                          \/ before.load[w] = before.load[v] /\ w <= v
                 IN  [load  |-> [before.load EXCEPT ![min] = @ + active[n].count],
                      lists |-> [before.lists EXCEPT ![min] = Append(@, n)]]
    IN  after[Len(active)].lists

\* A worker runs the list its range begins with, whatever else is in it.
V8Worker(active, flat, lpt, start) ==
    LET mine == WorkerLists(active, lpt)[start]
    IN  UNION { LET info == active[mine[ai]]
                IN  { [to  |-> <<"expert_out", info.offset + i>>,
                       val |-> Mlp(info.expert, flat[info.offset + i + 1].token)] :
                      i \in 0..info.count - 1 } : ai \in DOMAIN mine }

V8Scatter(x, active, flat, outs) ==
    LET rows == FlattenSeq([n \in DOMAIN active |->
                    [i \in 1..active[n].count |-> active[n].offset + i - 1]])
        TermsOf(t) == LET mine == SelectSeq(rows, LAMBDA at : flat[at + 1].token = t)
                      IN  [m \in DOMAIN mine |-> Term(flat[mine[m] + 1].weight, outs[mine[m]])]
    IN  { [to |-> <<"out", t>>, val |-> TermsOf(t) \o SharedTerm(x, t)] : t \in Tokens(x) }
------------------------------------------------------------------------------
(* What the layer is: the terms of a token, in whatever order.              *)

Chosen(x, t) ==
    { e \in Experts(x) :
        Cardinality({ f \in Experts(x) :
            LET vf == x.scores[t][f] + x.bias[f]
                ve == x.scores[t][e] + x.bias[e]
            IN  vf > ve \/ (vf = ve /\ x.tie[f] < x.tie[e]) }) < x.k }

WeightOf(x, t, e) ==
    LET all == { Probability(x, t, f) : f \in Chosen(x, t) }
    IN  IF x.norm /\ all # {Vanished} THEN <<Probability(x, t, e), "of", all>>
                                      ELSE Probability(x, t, e)

TermsOfToken(x, t) == { Term(WeightOf(x, t, e), Mlp(e, t)) : e \in Chosen(x, t) } \cup Range(SharedTerm(x, t))
=============================================================================
