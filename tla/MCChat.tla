------------------------------- MODULE MCChat -------------------------------
(* Models for the chat loop: one that calls tools by their tokens, one whose *)
(* tokenizer has no such tokens, one that thinks, one of another family that *)
(* splits a character over three tokens, one of it that writes calls in its  *)
(* own way, without the check for repetitions.                               *)
EXTENDS Chat

MCSpelling ==
    [t \in {"a", "<tool_call>", "</tool_call>", Json, Eos, ImEnd, Think, Unthink, Newline, "lead",
            "rest", "[TOOL_CALLS]", Args} |->
        CASE t \in {"<tool_call>", "</tool_call>", Eos, ImEnd, "[TOOL_CALLS]"} -> <<>>
          [] t = "lead" -> <<3>>
          [] t = "rest" -> <<0>>
          [] OTHER -> <<1>>]

Model(vocab, tools, open, close, mistral, family, system, budgets) ==
    [vocab |-> vocab, tools |-> tools, open |-> open, close |-> close, mistral |-> mistral,
     family |-> family, system |-> system, budgets |-> budgets, repeat_check |-> TRUE]

ThinkingModel == Model({Think, Unthink, Newline, ImEnd}, FALSE, None, None, None, "ChatMl", FALSE, {0, 2})
MistralModel ==
    [Model({Args, Json, "[TOOL_CALLS]", Eos}, TRUE, None, None, "[TOOL_CALLS]", "Mistral3", FALSE, {0})
        EXCEPT !.repeat_check = FALSE]

MCModels ==
    {Model({"<tool_call>", "</tool_call>", Json, ImEnd}, TRUE, "<tool_call>",
           "</tool_call>", None, "ChatMl", TRUE, {0}),
     Model({"<tool_call>", "</tool_call>", Json, Eos}, TRUE, None, None, None, "ChatMl", FALSE, {0}),
     ThinkingModel, MistralModel,
     Model({"a", "lead", "rest", "[TOOL_CALLS]", Eos}, TRUE, None, None, "[TOOL_CALLS]", "Mistral3",
           TRUE, {0})}
=============================================================================
