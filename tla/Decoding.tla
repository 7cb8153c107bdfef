------------------------------ MODULE Decoding ------------------------------
(***************************************************************************)
(* What decoding does to the text, with a draft or without one: each token *)
(* is drawn given the text before it, all of it and nothing else.  With    *)
(* which probability is the subject of RejectionSampling.                  *)
(***************************************************************************)
EXTENDS Integers, Sequences

CONSTANT Tokens
VARIABLE text   \* tokens, each with the text it was drawn given

Words(t) == [i \in DOMAIN t |-> t[i].tok]

InContext == \A i \in DOMAIN text : text[i].given = Words(SubSeq(text, 1, i - 1))

Generate == \E t \in Tokens : text' = Append(text, [tok |-> t, given |-> Words(text)])

Spec == InContext /\ [][Generate]_text
=============================================================================
