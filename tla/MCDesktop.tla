------------------------------ MODULE MCDesktop ------------------------------
(* Conversations, like calls, are interchangeable.                            *)
EXTENDS Desktop

\* Images meet clicks, the stop button and files that a save has spoilt only in the
\* sends they all accompany: either is enough, and so is one file spoilt.  Without a
\* click only the active conversation is ever touched.
Bound == /\ \/ \A i \in Images : encode[i] = "new"
            \/ /\ spoilt = {} /\ \A k \in Clicks : click[k].stage = "new"
               /\ Cardinality(DOMAIN files) = 1 /\ ~stopping
         /\ Cardinality(spoilt) <= 1
Symmetry == Permutations(Sends) \cup Permutations(Convs)
=============================================================================
