---------------------------- MODULE MCPrefixCache ----------------------------
(* The prompts and models that are checked.                                   *)
EXTENDS PrefixCache

\* A prompt that is a checkpoint, and a longer one with the same beginning.
MCPrompts == {<<1, 2>>, <<1, 2, 3>>}
\* Two prefills of a process while no name is raced, one when one is, and one with
\* MRoPE, which differs in its positions only.
Bound == \/ raced = {} /\ ~model.mrope
         \/ /\ \A c \in Owners : cache[c].clock <= 1
            /\ Cardinality(raced) <= IF model.mrope THEN 0 ELSE 1
Symmetry == Permutations(Procs)

DenseModels == {m \in Models : m.bf16 /\ m.recurrent = "none"}
=============================================================================
