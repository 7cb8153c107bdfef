-------------------------------- MODULE Chat --------------------------------
(***************************************************************************)
(* The chat loop of the command line (chat.rs) with its think budget       *)
(* (sampler.rs) and its tools (tools/): what goes to the cache from turn   *)
(* to turn, what is printed while tokens come, and when a reply ends.      *)
(*                                                                         *)
(* A token is known by its role and by its bytes; the cache by the pieces  *)
(* of template, messages and replies fed to it, a token of a reply being   *)
(* its place in it.  A text is the sequence of the lengths of its          *)
(* characters, 0 for a replacement character.  Commands that only print,   *)
(* the sampling parameters, statistics and the embedding model are left    *)
(* out.                                                                    *)
(***************************************************************************)
EXTENDS Integers, Sequences, SequencesExt, FiniteSetsExt

CONSTANTS
    Models,             \* what may be loaded: see ChatAssumption
    Spelling,           \* the bytes of a token: 0 continues a character, n
                        \* starts one of n bytes; special tokens have none
    MaxTokens,          \* --max-tokens
    MaxToolIterations,  \* MAX_TOOL_ITERATIONS: 10
    MinPat, MaxPat, Reps,
    MaxTurns,           \* bound: messages of the user
    None

\* What tokens are, where the program tells them apart.
Think == "<think>"
Unthink == "</think>"
Newline == "newline"
Json == "json"          \* a tool call that parses, of a known tool
Args == "args"          \* name and arguments as Mistral writes them: no JSON with a name
Eos == "eos"
ImEnd == "im_end"

\* What a cache is made of: pieces of template, and tokens of a reply by their place.
Pieces == {"<s>", "system", "[IMG]", "vision", "[INST]", "user", "assistant", ImEnd,
           "tool_response"} \cup Nat

\* tool_call_open_id, tool_call_close_id and mistral_tool_calls_id may be None;
\* budgets: what the user tries with /think, nothing but 0 if it does not think.
ASSUME ChatAssumption ==
    /\ \A m \in Models :
           /\ m.vocab \subseteq DOMAIN Spelling /\ {m.tools, m.repeat_check} \subseteq BOOLEAN
           /\ {m.open, m.close, m.mistral} \subseteq DOMAIN Spelling \cup {None}
           /\ m.family \in {"ChatMl", "Mistral3"} /\ m.system \in BOOLEAN
           /\ m.budgets \subseteq Nat /\ m.budgets # {}
    /\ \A t \in DOMAIN Spelling : Spelling[t] \in Seq(0 .. 4)
    /\ {Unthink, Newline, Eos, ImEnd} \subseteq DOMAIN Spelling
    /\ Spelling[Eos] = <<>> /\ Spelling[ImEnd] = <<>>
    /\ {MaxTokens, MinPat, Reps} \subseteq Nat \ {0}
    /\ {MaxPat, MaxToolIterations, MaxTurns} \subseteq Nat
    /\ None \notin Seq(Pieces)

VARIABLES
    cfg,        \* ChatConfig
    pc,         \* "input", "reply", "decoded" or "ended"
    kv,         \* the pieces in the cache, or None
    last_stop,
    think,      \* ThinkBudget
    nothink,    \* thinking was disabled (/nothink, --nothink)
    image,      \* pending_image
    reply,      \* the reply being decoded
    round,      \* tool_iterations
    conv        \* (history) the messages since the cache was last begun

vars == <<cfg, pc, kv, last_stop, think, nothink, image, reply, round, conv>>

---------------------------------------------------------------------------
(* Text *)

Replacement == 0
\* tokenizer.decode without the special tokens: a character whose bytes are not
\* all there is replaced, and so is each byte that continues none.
Decode(toks) ==
    LET bytes == FlattenSeq([i \in DOMAIN toks |-> Spelling[toks[i]]])
        Continues(i) == bytes[i] = 0 /\ \E j \in 1 .. i - 1 : /\ i - j < bytes[j]
                                                             /\ \A k \in j + 1 .. i : bytes[k] = 0
        Whole(i) == i + bytes[i] - 1 <= Len(bytes) /\ \A k \in 1 .. bytes[i] - 1 : bytes[i + k] = 0
    IN FlattenSeq([i \in DOMAIN bytes |-> IF Continues(i) THEN <<>>
                                          ELSE <<IF Whole(i) THEN bytes[i] ELSE Replacement>>])

SafeLen(text) == Max({0} \cup {i \in DOMAIN text : text[i] # Replacement})

---------------------------------------------------------------------------
(* ThinkBudget *)

SetMaxTokens(b, n) == [b EXCEPT !.max_tokens = n]
Reset(b) == [b EXCEPT !.in_think = FALSE, !.count = 0]

Track(b, t) ==
    IF t \in {Think, Unthink} THEN [b EXCEPT !.in_think = (t = Think), !.count = 0]
    ELSE IF b.in_think THEN [b EXCEPT !.count = @ + 1] ELSE b

\* MUTANT: the block is closed one token late.
ApplyToLogits_Late(b) ==
    IF b.in_think /\ b.max_tokens > 0 /\ b.count > b.max_tokens THEN {Unthink} ELSE cfg.vocab
\* apply_to_logits: the tokens that may be drawn.
ApplyToLogits(b) ==
    IF ~b.in_think \/ b.max_tokens = 0 THEN cfg.vocab
    ELSE IF b.count + 1 = b.max_tokens THEN {Newline}
    ELSE IF b.count + 1 > b.max_tokens THEN {Unthink}
    ELSE cfg.vocab

---------------------------------------------------------------------------
(* Tools *)

\* The calls between an opening and the next closing tag.
Between(toks, open, close) ==
    LET Close(i) == SelectInSubSeq(toks, i + 1, Len(toks), LAMBDA t : t = close)
        calls[i \in 1 .. Len(toks) + 1] ==
            IF i > Len(toks) THEN 0
            ELSE IF toks[i] # open THEN calls[i + 1]
            ELSE IF Close(i) = 0 THEN 0
            ELSE (IF SubSeq(toks, i + 1, Close(i) - 1) = <<Json>> THEN 1 ELSE 0)
                 + calls[Close(i) + 1]
    IN calls[1]
ExtractToolCallsFromTokens(toks) ==
    IF None \in {cfg.open, cfg.close} THEN 0 ELSE Between(toks, cfg.open, cfg.close)
ParseToolCalls(toks) == Between(toks, "<tool_call>", "</tool_call>")
ParseRawToolCall(toks) == Cardinality({i \in DOMAIN toks : toks[i] = Json})

\* By token, else by text, else as bare JSON.
Calls(toks) ==
    IF ExtractToolCallsFromTokens(toks) > 0 THEN ExtractToolCallsFromTokens(toks)
    ELSE IF ParseToolCalls(toks) > 0 THEN ParseToolCalls(toks)
    ELSE ParseRawToolCall(toks)

---------------------------------------------------------------------------
(* The decode loop: run_decode_loop *)

NoReply == [toks |-> <<>>, muted |-> FALSE, text |-> <<>>, printed_len |-> 0, out |-> <<>>]

\* detect_repetition_loop: the end of the reply repeats.
DetectRepetitionLoop(toks) ==
    \E pat \in MinPat .. MaxPat :
        LET base == Len(toks) - pat * Reps
        IN base >= 0 /\ \A i \in base + 1 .. Len(toks) - pat : toks[i] = toks[i + pat]

StopReason(toks) ==
    CASE Last(toks) = Eos -> "Eos"
      [] Last(toks) = ImEnd -> "ImEnd"
      [] Last(toks) \notin {Eos, ImEnd} /\ cfg.repeat_check /\ DetectRepetitionLoop(toks)
            -> "RepetitionLoop"
      [] OTHER -> IF Len(toks) >= MaxTokens THEN "MaxTokens" ELSE None

Mutes(t) == cfg.tools /\ t \in {cfg.open, cfg.mistral}

\* MUTANT: a character in the making is printed as it stands.
Show_Unsafe(r, text) ==
    [r EXCEPT !.out = @ \o SubSeq(text, r.printed_len + 1, Len(text)),
              !.printed_len = Len(text), !.text = text]

\* What is new of a text is printed, but for replacement characters at its end.
Show(r, text) ==
    LET common == {n \in 0 .. Min({r.printed_len, Len(text)}) :
                       SubSeq(text, 1, n) = SubSeq(r.text, 1, n)}
    IN [r EXCEPT !.out = @ \o SubSeq(text, Max(common) + 1, SafeLen(text)),
                 !.printed_len = SafeLen(text), !.text = text]
Flush(r) ==
    IF r.muted THEN r ELSE [r EXCEPT !.out = @ \o SubSeq(r.text, r.printed_len + 1, Len(r.text))]

\* The first token: what the loop does before it draws another.
FirstToken(t) ==
    LET r == [NoReply EXCEPT !.toks = <<t>>, !.muted = Mutes(t)]
    IN IF r.muted THEN r ELSE Show(r, Decode(<<t>>))

NextToken(t) ==
    LET r == [reply EXCEPT !.toks = Append(@, t), !.muted = @ \/ Mutes(t)]
    IN IF r.muted THEN r ELSE Show(r, Decode(r.toks))

Message(role, n) ==
    [role |-> role, n |-> n, stop |-> None, calls |-> 0, mistral |-> FALSE, nothink |-> nothink]
Reply(r, stop) ==
    [role |-> "reply", n |-> Len(r.toks), stop |-> stop, calls |-> Calls(r.toks),
     mistral |-> cfg.mistral \in ToSet(r.toks), nothink |-> nothink]

\* After a prefill: the budget starts again, and the first token is drawn.
StartReply ==
    /\ pc' = "reply"
    /\ \E t \in ApplyToLogits(Reset(think)) :
           /\ think' = Track(Reset(think), t)
           /\ reply' = FirstToken(t)

\* One turn of the loop: the last token is fed, another is drawn.
DecodeStep ==
    /\ pc = "reply" /\ StopReason(reply.toks) = None
    /\ kv' = Append(kv, Len(reply.toks))
    /\ \E t \in ApplyToLogits(think) :
           /\ think' = Track(think, t)
           /\ reply' = NextToken(t)
    /\ UNCHANGED <<cfg, pc, last_stop, nothink, image, round, conv>>

\* The loop returns.
EndReply ==
    /\ pc = "reply" /\ StopReason(reply.toks) # None
    /\ pc' = "decoded"
    /\ last_stop' = StopReason(reply.toks)
    /\ reply' = IF Len(reply.toks) = 1 /\ reply.toks[1] \in {Eos, ImEnd} THEN reply ELSE Flush(reply)
    /\ conv' = Append(conv, Reply(reply, StopReason(reply.toks)))
    /\ UNCHANGED <<cfg, kv, think, nothink, image, round>>

---------------------------------------------------------------------------
(* The chat loop: run_chat *)

\* A block of a template counts as one piece, with the marks around it.
BuildPrompt(images) ==
    IF cfg.family = "Mistral3"
    THEN <<"<s>">> \o (IF cfg.system THEN <<"system">> ELSE <<>>)
         \o [i \in 1 .. images |-> "[IMG]"] \o <<"[INST]">>
    ELSE (IF cfg.system THEN <<"system">> ELSE <<>>)
         \o [i \in 1 .. images |-> "vision"] \o <<"user", "assistant">>

FormatTurnTokens(needs_im_end_prefix) ==
    (IF needs_im_end_prefix THEN <<ImEnd>> ELSE <<>>) \o <<"user", "assistant">>

FormatToolResponse(results) ==
    <<ImEnd>> \o [i \in 1 .. results |-> "tool_response"] \o <<"assistant">>

Clear ==
    /\ pc = "input"
    /\ kv' = None /\ last_stop' = "ImEnd" /\ image' = FALSE
    /\ conv' = <<>>
    /\ UNCHANGED <<cfg, pc, think, nothink, reply, round>>

ThinkCommand ==
    /\ pc = "input"
    /\ \E n \in cfg.budgets : think' = SetMaxTokens(think, n)
    /\ nothink' = FALSE
    /\ UNCHANGED <<cfg, pc, kv, last_stop, image, reply, round, conv>>

NoThink ==
    /\ pc = "input" /\ cfg.budgets # {0}
    /\ think' = SetMaxTokens(think, 1)
    /\ nothink' = TRUE
    /\ UNCHANGED <<cfg, pc, kv, last_stop, image, reply, round, conv>>

ImageCommand ==
    /\ pc = "input"
    /\ image' \in BOOLEAN
    /\ UNCHANGED <<cfg, pc, kv, last_stop, think, nothink, reply, round, conv>>

Turns == Len(SelectSeq(conv, LAMBDA m : m.role \in {"user", "image"}))

\* A message with an image begins a new cache.
AskVision ==
    /\ pc = "input" /\ image /\ cfg.family # "Mistral3"
    /\ image' = FALSE /\ round' = 0
    /\ kv' = BuildPrompt(1)
    /\ conv' = <<Message("image", 0)>>
    /\ StartReply
    /\ UNCHANGED <<cfg, last_stop, nothink>>

\* The program ends, and its memory goes.
End ==
    /\ pc' = "ended" /\ kv' = None /\ image' = FALSE /\ reply' = NoReply /\ conv' = <<>>
    /\ UNCHANGED <<cfg, last_stop, think, nothink, round>>

\* There is no <|image_pad|> in the prompt of another family.
AskVisionFails ==
    /\ pc = "input" /\ image /\ cfg.family = "Mistral3"
    /\ End

\* MUTANT: only a reply cut by its length is closed.
NeedsImEndPrefix_MaxTokens == last_stop = "MaxTokens"
NeedsImEndPrefix == last_stop \in {"MaxTokens", "RepetitionLoop"}

AskText ==
    /\ pc = "input" /\ ~image /\ Turns < MaxTurns
    /\ round' = 0
    /\ kv' = IF kv = None THEN BuildPrompt(0) ELSE kv \o FormatTurnTokens(NeedsImEndPrefix)
    /\ conv' = Append(conv, Message("user", 0))
    /\ StartReply
    /\ UNCHANGED <<cfg, last_stop, nothink, image>>

\* MUTANT: one round too many.
WantsTools_Extra ==
    /\ pc = "decoded" /\ cfg.tools /\ last_stop \in {"ImEnd", "Eos"}
    /\ round <= MaxToolIterations /\ Calls(reply.toks) > 0
WantsTools ==
    /\ pc = "decoded" /\ cfg.tools /\ last_stop \in {"ImEnd", "Eos"}
    /\ round < MaxToolIterations /\ Calls(reply.toks) > 0

ToolRound ==
    /\ WantsTools
    /\ round' = round + 1
    /\ kv' = kv \o FormatToolResponse(Calls(reply.toks))
    /\ conv' = Append(conv, Message("tools", Calls(reply.toks)))
    /\ StartReply
    /\ UNCHANGED <<cfg, last_stop, nothink, image>>

\* A result, or arguments, cut for the log inside a character.
ToolPanics ==
    /\ WantsTools /\ End

NextInput ==
    /\ pc = "decoded" /\ ~WantsTools
    /\ pc' = "input" /\ reply' = NoReply
    /\ UNCHANGED <<cfg, kv, last_stop, think, nothink, image, round, conv>>

\* A prefill, a decode or the tokenizer fails, or the user leaves.
Ends ==
    /\ pc \in {"input", "reply"} /\ End

Init ==
    /\ cfg \in Models
    /\ pc = "input" /\ kv = None /\ last_stop = "ImEnd" /\ image = FALSE
    /\ nothink \in {FALSE, cfg.budgets # {0}}
    /\ \E n \in IF nothink THEN {1} ELSE cfg.budgets :
           think = [max_tokens |-> n, in_think |-> FALSE, count |-> 0]
    /\ reply = NoReply /\ round = 0 /\ conv = <<>>

Next ==
    \/ Clear \/ ThinkCommand \/ NoThink \/ ImageCommand
    \/ AskVision \/ AskVisionFails \/ AskText
    \/ DecodeStep \/ EndReply \/ ToolRound \/ ToolPanics \/ NextInput \/ Ends

Spec == Init /\ [][Next]_vars

---------------------------------------------------------------------------
(* Properties *)

\* What the cache should hold for the messages since it was begun.
Rendered(i) ==
    LET m == conv[i]
    IN IF m.role = "image" THEN BuildPrompt(1)
       ELSE IF m.role = "user" /\ i = 1 THEN BuildPrompt(0)
       ELSE IF m.role = "user"
            THEN FormatTurnTokens(conv[i - 1].stop \in {"MaxTokens", "RepetitionLoop"})
       ELSE IF m.role = "tools" THEN FormatToolResponse(m.n)
       ELSE [j \in 1 .. m.n - 1 |-> j]

\* Of a reply being decoded every token but the last, which is to be fed yet.
Fed == IF pc = "reply" THEN [j \in 1 .. Len(reply.toks) - 1 |-> j] ELSE <<>>

\* Turn after turn, with images, tools and /clear between, the cache holds the
\* whole conversation and nothing else: every message once, in order, every
\* reply without its last token (which is drawn and never fed), and an end mark
\* after each reply that was cut short or that called for tools.  Conversations in
\* which thinking was disabled are left out: the comments of the code promise an
\* empty <think> block there, and no template has one.
CacheIsConversation ==
    /\ (kv = None) <=> (conv = <<>>)
    /\ kv # None /\ (\A i \in DOMAIN conv : ~conv[i].nothink) =>
           kv = FlattenSeq([i \in DOMAIN conv |-> Rendered(i)]) \o Fed

\* What is printed of a reply is its text, each character once and whole, up to
\* the call of a tool: what was held back because its bytes were not all there
\* comes with the last of them, or at the end of the reply.
PrintedOnce ==
    LET calls == {i \in DOMAIN reply.toks : Mutes(reply.toks[i])}
        text == Decode(IF calls = {} THEN reply.toks ELSE SubSeq(reply.toks, 1, Min(calls) - 1))
    IN pc \in {"reply", "decoded"} =>
           reply.out = IF pc = "decoded" /\ calls = {} THEN text ELSE SubSeq(text, 1, SafeLen(text))

\* A block begins at the i-th token of the reply and has not ended.
Open(i) == /\ reply.toks[i] = Think
           /\ \A j \in i + 1 .. Len(reply.toks) : reply.toks[j] \notin {Think, Unthink}

\* Between <think> and </think> there are never more tokens than the budget,
\* whenever in a reply the block begins and however often.
ThinkBounded ==
    think.max_tokens > 0 =>
        \A i \in DOMAIN reply.toks : Open(i) => Len(reply.toks) - i <= think.max_tokens

\* The tool rounds of the turn, as of the i-th message.
Rounds(i) == Cardinality({j \in 1 .. i : /\ conv[j].role = "tools"
                                         /\ \A k \in j .. i : conv[k].role # "user"})
Answered(i) == /\ cfg.tools /\ conv[i].calls > 0 /\ conv[i].stop \in {"Eos", "ImEnd"}
               /\ Rounds(i) < MaxToolIterations

\* Every reply that ends by itself and calls for tools is answered, with a
\* result for each call, before the user is asked again, unless the turn has
\* had its rounds; and no other reply is.  Replies with [TOOL_CALLS] are left out:
\* the comment of the code begins its chain with them, and the chain does not.
ToolsAnswered ==
    \A i \in 1 .. Len(conv) - 1 :
        conv[i].role = "reply" /\ ~conv[i].mistral =>
            IF Answered(i) THEN conv[i + 1].role = "tools" /\ conv[i + 1].n = conv[i].calls
            ELSE conv[i + 1].role = "user"
=============================================================================
