------------------------------ MODULE SseStream ------------------------------
(***************************************************************************)
(* The content blocks of one response: how the decode loop of              *)
(* run_inference turns tokens into events, what a streaming client makes of*)
(* them, and what the handler's JSON path collects from the same events    *)
(* (src/crates/server/src/handlers.rs).                                    *)
(*                                                                         *)
(* A token is known by what the loop tests: the special tokens, whether it *)
(* decodes to some text, and whether the text with it completes a          *)
(* <tool_call> element.  Of a text only its number of deltas is kept.      *)
(***************************************************************************)
EXTENDS Integers, Sequences

CONSTANT MaxTokens   \* bound: tokens of a response

ASSUME SseAssumption == MaxTokens \in Nat \ {0}

VARIABLES
    phase,                              \* place: first token, loop, end, done
    tokens,                             \* tokens so far
    disciplined,                        \* (history) the model opened no tool call
                                        \* while thinking, nor thought amid text
    in_think, text_block_started, in_tool_call,
    current_block_index,
    tool_tokens,                        \* length of tool_call_tokens
    tagged,                             \* parseable elements in generated_text
    tool_calls_emitted, stop_reason,
    client,                             \* what the events say to a client
    json                                \* state of the collecting loop

flags == <<in_think, text_block_started, in_tool_call, current_block_index>>
calls == <<tool_tokens, tagged, tool_calls_emitted>>
vars == <<phase, tokens, disciplined, flags, calls, stop_reason, client, json>>

---------------------------------------------------------------------------
(* Events and their receivers *)

Start(i, k) == [type |-> "start", index |-> i, kind |-> k]
Delta(i, k) == [type |-> "delta", index |-> i, kind |-> k]
Stop(i) == [type |-> "stop", index |-> i, kind |-> "none"]

\* A tool_use block is sent at once, with its arguments in one delta.
ToolUse(i) == <<Start(i, "tool_use"), Delta(i, "tool_use"), Stop(i)>>

\* The streaming Messages API: blocks are numbered from 0, one is open at a
\* time, and a delta or a stop is for the open block.
Receive(cl, e) ==
    CASE e.type = "start" ->
            [blocks  |-> Append(cl.blocks, [kind |-> e.kind, size |-> 0]),
             open    |-> cl.open \cup {e.index},
             orderly |-> cl.orderly /\ cl.open = {} /\ e.index = Len(cl.blocks)]
      [] e.type = "delta" ->
            IF e.index \in cl.open /\ e.index = Len(cl.blocks) - 1
               /\ cl.blocks[e.index + 1].kind = e.kind
            THEN [cl EXCEPT !.blocks[e.index + 1].size = @ + 1]
            ELSE [cl EXCEPT !.orderly = FALSE]
      [] e.type = "stop" ->
            [cl EXCEPT !.open = @ \ {e.index}, !.orderly = @ /\ e.index \in cl.open]

\* The type the collecting loop gives the block that a stop closes.
Finished(js) == IF js.current_tool THEN "tool_use"
                ELSE IF js.current_block_type = "thinking" THEN "thinking" ELSE "text"

\* The `while let Some(payload) = rx.recv()` loop of messages_handler.
Collect(js, e) ==
    CASE e.type = "start" ->
            IF e.kind = "tool_use" THEN [js EXCEPT !.current_tool = TRUE]
                                   ELSE [js EXCEPT !.current_block_type = e.kind]
      [] e.type = "delta" ->
            IF e.kind = "tool_use" THEN js ELSE [js EXCEPT !.size[e.kind] = @ + 1]
      [] e.type = "stop" ->
            LET k == Finished(js)
            IN [js EXCEPT !.blocks = Append(@, [kind |-> k,
                                                size |-> IF k \in DOMAIN js.size THEN js.size[k] ELSE 1]),
                          !.size = [q \in DOMAIN @ |-> IF q = k THEN 0 ELSE @[q]],
                          !.current_tool = FALSE,
                          !.current_block_type = "none"]

\* What the two receivers are once they have had the events, in order.
Take(st, e) == [client |-> Receive(st.client, e), json |-> Collect(st.json, e)]
After(st, events) ==
    LET f[n \in 0 .. Len(events)] == IF n = 0 THEN st ELSE Take(f[n - 1], events[n])
    IN f[Len(events)]

Send(events) ==
    LET st == After([client |-> client, json |-> json], events)
    IN client' = st.client /\ json' = st.json

Init == /\ phase = "first"
        /\ tokens = 0 /\ disciplined = TRUE
        /\ in_think = FALSE /\ text_block_started = FALSE /\ in_tool_call = FALSE
        /\ current_block_index = 0
        /\ tool_tokens = 0 /\ tagged = 0 /\ tool_calls_emitted = FALSE
        /\ stop_reason = "max_tokens"
        /\ client = [blocks |-> <<>>, open |-> {}, orderly |-> TRUE]
        /\ json = [blocks |-> <<>>, current_tool |-> FALSE, current_block_type |-> "none",
                   size |-> [k \in {"text", "thinking"} |-> 0]]

---------------------------------------------------------------------------
(* One token *)

Token(where, expected) ==
    /\ phase = where /\ tokens < MaxTokens
    /\ tokens' = tokens + 1
    /\ disciplined' = (disciplined /\ expected)

OpenText == IF text_block_started THEN <<>> ELSE <<Start(current_block_index, "text")>>

\* A token of text: "silent" decodes to nothing, "tagged" completes a
\* <tool_call> element whose body parses.
Texts == {"plain", "silent", "tagged"}
DeltaOf(k, text) == IF text = "silent" THEN <<>> ELSE <<Delta(current_block_index, k)>>

\* Ordinary text, outside thinking and tool calls.
Say(text) ==
    /\ Send(OpenText \o DeltaOf("text", text))
    /\ text_block_started' = TRUE
    /\ tagged' = tagged + IF text = "tagged" THEN 1 ELSE 0
    /\ UNCHANGED <<in_think, in_tool_call, current_block_index, tool_tokens,
                   tool_calls_emitted>>

FirstThinks ==
    /\ Token("first", TRUE)
    /\ in_think' = TRUE
    /\ Send(<<Start(current_block_index, "thinking")>>)
    /\ phase' = "loop"
    /\ UNCHANGED <<text_block_started, in_tool_call, current_block_index, calls, stop_reason>>

FirstCalls ==
    /\ Token("first", TRUE)
    /\ in_tool_call' = TRUE
    /\ phase' = "loop"
    /\ UNCHANGED <<in_think, text_block_started, current_block_index, calls, stop_reason,
                   client, json>>

FirstSays(text) ==
    /\ Token("first", TRUE)
    /\ Say(text)
    /\ phase' = "loop"
    /\ UNCHANGED stop_reason

\* An end of text, first or later, ends the response, whatever is open.
End ==
    /\ Token(phase, TRUE) /\ phase \in {"first", "loop"}
    /\ stop_reason' = "end_turn"
    /\ phase' = "end"
    /\ UNCHANGED <<flags, calls, client, json>>

\* max_tokens is reached.
Limit ==
    /\ phase = "loop"
    /\ phase' = "end"
    /\ UNCHANGED <<tokens, disciplined, flags, calls, stop_reason, client, json>>

\* MUTANT: the text block is closed but its number is used again.
ToolOpen_SameIndex ==
    /\ Token("loop", ~in_think)
    /\ Send(IF text_block_started THEN <<Stop(current_block_index)>> ELSE <<>>)
    /\ text_block_started' = FALSE
    /\ in_tool_call' = TRUE
    /\ tool_tokens' = 0
    /\ UNCHANGED <<phase, in_think, current_block_index, tagged, tool_calls_emitted, stop_reason>>
ToolOpen ==
    /\ Token("loop", ~in_think)
    /\ Send(IF text_block_started THEN <<Stop(current_block_index)>> ELSE <<>>)
    /\ current_block_index' = current_block_index + IF text_block_started THEN 1 ELSE 0
    /\ text_block_started' = FALSE
    /\ in_tool_call' = TRUE
    /\ tool_tokens' = 0
    /\ UNCHANGED <<phase, in_think, tagged, tool_calls_emitted, stop_reason>>

\* MUTANT: the tool call is sent but not remembered.
ToolClose_Forgets(parses) ==
    /\ Token("loop", TRUE) /\ in_tool_call
    /\ in_tool_call' = FALSE
    /\ \/ /\ parses /\ tool_tokens > 0
          /\ Send(ToolUse(current_block_index))
          /\ current_block_index' = current_block_index + 1
          /\ UNCHANGED text_block_started
       \/ /\ ~parses
          /\ Send(OpenText \o DeltaOf("text", "plain"))
          /\ text_block_started' = TRUE
          /\ UNCHANGED current_block_index
    /\ UNCHANGED <<phase, in_think, calls, stop_reason>>
\* The call is sent as a tool_use block if its JSON parses, else as text.
ToolClose(parses) ==
    /\ Token("loop", TRUE) /\ in_tool_call
    /\ in_tool_call' = FALSE
    /\ \/ /\ parses /\ tool_tokens > 0
          /\ Send(ToolUse(current_block_index))
          /\ current_block_index' = current_block_index + 1
          /\ tool_calls_emitted' = TRUE
          /\ UNCHANGED text_block_started
       \/ /\ ~parses
          /\ Send(OpenText \o DeltaOf("text", "plain"))
          /\ text_block_started' = TRUE
          /\ UNCHANGED <<current_block_index, tool_calls_emitted>>
    /\ UNCHANGED <<phase, in_think, tool_tokens, tagged, stop_reason>>

\* Any other token inside a tool call is kept for its JSON.
InToolCall ==
    /\ Token("loop", TRUE) /\ in_tool_call
    /\ tool_tokens' = tool_tokens + 1
    /\ UNCHANGED <<phase, flags, tagged, tool_calls_emitted, stop_reason, client, json>>

ThinkOpen ==
    /\ Token("loop", in_think \/ ~text_block_started) /\ ~in_tool_call
    /\ Send(IF in_think THEN <<>> ELSE <<Start(current_block_index, "thinking")>>)
    /\ in_think' = TRUE
    /\ UNCHANGED <<phase, text_block_started, in_tool_call, current_block_index, calls, stop_reason>>

ThinkClose ==
    /\ Token("loop", TRUE) /\ ~in_tool_call
    /\ Send(IF in_think THEN <<Stop(current_block_index)>> ELSE <<>>)
    /\ current_block_index' = current_block_index + IF in_think THEN 1 ELSE 0
    /\ in_think' = FALSE
    /\ UNCHANGED <<phase, text_block_started, in_tool_call, calls, stop_reason>>

\* A stop sequence or a repetition loop ends the response after a text token.
MayStop == \/ UNCHANGED <<phase, stop_reason>>
           \/ phase' = "end" /\ stop_reason' = "end_turn"

Think(text) ==
    /\ Token("loop", TRUE) /\ ~in_tool_call /\ in_think
    /\ Send(DeltaOf("thinking", text))
    /\ MayStop
    /\ UNCHANGED <<flags, calls>>

Speak(text) ==
    /\ Token("loop", TRUE) /\ ~in_tool_call /\ ~in_think
    /\ Say(text)
    /\ MayStop

---------------------------------------------------------------------------
(* After the loop *)

\* The calls the fallbacks find: an unterminated one whose JSON parses, else
\* the elements in the text, whose text block is closed first.
Unterminated(parses) == parses /\ in_tool_call /\ tool_tokens > 0 /\ ~tool_calls_emitted
InText(parses) == ~tool_calls_emitted /\ ~Unterminated(parses) /\ tagged > 0

ToolUses(first, n) == [k \in 1 .. 3 * n |-> ToolUse(first + ((k - 1) \div 3))[((k - 1) % 3) + 1]]

\* MUTANT: the text block stays open while its tool calls are sent.
Fallback_KeepsText(parses) ==
    IF Unterminated(parses) THEN ToolUse(current_block_index)
    ELSE IF InText(parses)
    THEN ToolUses(current_block_index, tagged)
    ELSE <<>>
Fallback(parses) ==
    IF Unterminated(parses) THEN ToolUse(current_block_index)
    ELSE IF InText(parses)
    THEN IF text_block_started
         THEN <<Stop(current_block_index)>> \o ToolUses(current_block_index + 1, tagged)
         ELSE ToolUses(current_block_index, tagged)
    ELSE <<>>

\* The number of blocks the fallbacks closed.
Advance(parses) ==
    IF Unterminated(parses) THEN 1
    ELSE IF InText(parses) THEN tagged + (IF text_block_started THEN 1 ELSE 0)
    ELSE 0

Finish(parses) ==
    /\ phase = "end"
    /\ LET text == text_block_started /\ ~InText(parses)
           emitted == tool_calls_emitted \/ Unterminated(parses) \/ InText(parses)
           i == current_block_index + Advance(parses)
           j == i + IF in_think THEN 1 ELSE 0
       IN /\ Send(Fallback(parses)
                  \o (IF in_think THEN <<Stop(i)>> ELSE <<>>)
                  \o (IF text THEN <<Stop(j)>>
                      ELSE IF ~in_think /\ ~emitted THEN <<Start(j, "text"), Stop(j)>> ELSE <<>>))
          /\ current_block_index' = j
          /\ text_block_started' = text
          /\ tool_calls_emitted' = emitted
          /\ stop_reason' = IF emitted THEN "tool_use" ELSE stop_reason
    /\ in_tool_call' = (in_tool_call /\ ~Unterminated(parses))
    /\ phase' = "done"
    /\ UNCHANGED <<tokens, disciplined, in_think, tool_tokens, tagged>>

Next == \/ FirstThinks \/ FirstCalls
        \/ End \/ Limit
        \/ ToolOpen \/ InToolCall \/ ThinkOpen \/ ThinkClose
        \/ \E text \in Texts : FirstSays(text) \/ Think(text) \/ Speak(text)
        \/ \E parses \in BOOLEAN : ToolClose(parses) \/ Finish(parses)

Spec == Init /\ [][Next]_vars

---------------------------------------------------------------------------
(* Properties *)

\* The events of a disciplined model's response are those of the Messages
\* API: blocks numbered in order, one open at a time, every delta in the open
\* block and of its kind.
OrderlyIfDisciplined == disciplined => client.orderly

\* Whatever the model generates, at the end every block is closed, there is at
\* least one, and the message ends for tool use exactly when one is a tool call.
WellClosed ==
    phase = "done" =>
        /\ client.open = {}
        /\ client.blocks # <<>>
        /\ stop_reason = "tool_use"
               <=> \E i \in DOMAIN client.blocks : client.blocks[i].kind = "tool_use"

\* The JSON response has the blocks that a streaming client was sent, each
\* with all of its text.
JsonAgrees == phase = "done" /\ disciplined => json.blocks = client.blocks
=============================================================================
