---------------------------- MODULE MCForwardPass ----------------------------
(* Five kinds of models, one token and two, a prompt with an image in it.   *)
EXTENDS ForwardPass

Plain == [blocks |-> <<"attn", "attn", "attn">>, dual |-> FALSE, mrope |-> FALSE, deepstack |-> 0]
MCModels == {
    Plain,
    [Plain EXCEPT !.dual = TRUE, !.blocks = <<"attn", "attn">>],
    [Plain EXCEPT !.mrope = TRUE, !.deepstack = 1],
    [Plain EXCEPT !.blocks = <<"conv", "conv", "attn">>],
    [Plain EXCEPT !.blocks = <<"deltanet", "attn">>, !.mrope = TRUE] }

Tok(t) == [tok |-> t, grid |-> <<1, 1>>]
Image(h, w) == [tok |-> 0, grid |-> <<h, w>>]
MCPrompts == { <<Tok(1), Image(1, 2), Tok(1)>>, <<Image(2, 1), Tok(1), Image(1, 1)>> }
=============================================================================
