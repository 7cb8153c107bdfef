------------------------------- MODULE Desktop -------------------------------
(***************************************************************************)
(* The desktop application: the window (useChat.ts, useVision.ts, the      *)
(* conversation store) and the commands it invokes (src-tauri/src/commands)*)
(*                                                                         *)
(* The window is one thread, whose functions are cut at their awaits;      *)
(* commands run in parallel, and are cut between their accesses to the     *)
(* files and to the application's state.  A call of the window and the     *)
(* command it awaits are one record.  What the window displays (messages,  *)
(* streamed text, the list) is left out; so are loading and unloading the  *)
(* model: to the functions here, a missing model is one more failure.      *)
(***************************************************************************)
EXTENDS Integers, Sequences, FiniteSets, SequencesExt

CONSTANTS
    Sends,      \* calls of sendMessage
    Clicks,     \* selections, creations and deletions in the sidebar
    Images,     \* images that may be dropped on the window
    Convs,      \* conversation ids
    None

ASSUME DesktopAssumption == None \notin Convs

VARIABLES
    files,          \* conversations/*.json: their messages, and whether they parse
    generating, cancel_flag, embeddings, cancel_vision,     \* AppState
    active,         \* activeConversation: its id, or None
    busy,           \* modelStore.generating
    pending,        \* pendingImages: the status of each
    send, click, encode, remove, stopping,      \* calls that are under way
    saved,          \* (history) the messages whose saving has succeeded, in each conversation
    spoilt,         \* (history) conversations a failed save left empty, or half written
    deleted,        \* (history) conversations that were deleted
    overlapped,     \* (history) conversations two commands were changing at once
    asked, stopped  \* (history) generations to be stopped, and that did stop

state == <<generating, cancel_flag, embeddings, cancel_vision>>
window == <<active, busy, pending>>
history == <<saved, spoilt, deleted, overlapped, asked, stopped>>
vars == <<files, state, window, send, click, encode, remove, stopping, history>>

Put(f, x, v) == [y \in DOMAIN f \cup {x} |-> IF y = x THEN v ELSE f[y]]
Whole(msgs) == [msgs |-> msgs, whole |-> TRUE]
Truncated == [msgs |-> <<>>, whole |-> FALSE]
NotSent == [stage |-> "new", conv |-> None, images |-> {}, copy |-> <<>>, linked |-> TRUE]

Init ==
    /\ \E S \in SUBSET Convs : files = [c \in S |-> Whole(<<>>)] /\ active \in S
    /\ generating = FALSE /\ cancel_flag = FALSE
    /\ embeddings = {} /\ cancel_vision = {}
    /\ busy = FALSE /\ pending = Restrict(<<>>, {}) /\ stopping = FALSE
    /\ send = [s \in Sends |-> NotSent]
    /\ click = [k \in Clicks |-> [stage |-> "new", conv |-> None]]
    /\ encode = [i \in Images |-> "new"] /\ remove = [i \in Images |-> "new"]
    /\ saved = [c \in Convs |-> <<>>]
    /\ spoilt = {} /\ deleted = {} /\ overlapped = {} /\ asked = {} /\ stopped = {}

---------------------------------------------------------------------------
(* Files *)

Loads(c) == c \in DOMAIN files /\ files[c].whole

\* A command that has read a conversation and not yet saved it.
Editing(c) == \E s \in Sends :
    send[s].conv = c /\ send[s].stage \in {"add_save", "add_write", "answer_save", "answer_write"}
Overlap(c) == IF Editing(c) THEN overlapped \cup {c} ELSE overlapped

To(s, stage) == [send EXCEPT ![s].stage = stage]
WithMessage(s, role, stage) ==
    [send EXCEPT ![s].stage = stage, ![s].copy = Append(files[send[s].conv].msgs, <<s, role>>)]

\* save_conversation, first half: fs::write creates the file, or empties it.
Truncate(s) ==
    /\ send[s].stage \in {"add_save", "answer_save"}
    /\ files' = Put(files, send[s].conv, Truncated)
    /\ send' = [send EXCEPT ![s].stage = IF @ = "add_save" THEN "add_write" ELSE "answer_write",
                            ![s].linked = TRUE]
    /\ UNCHANGED <<state, window, click, encode, remove, stopping, history>>

\* Second half.  Over what another command has written in between, the end of a
\* longer text remains.
Write(s) ==
    LET c == send[s].conv
    IN /\ send[s].stage \in {"add_write", "answer_write"}
       /\ IF send[s].linked
          THEN \E whole \in IF files[c].msgs = <<>> THEN {TRUE} ELSE BOOLEAN :
                   files' = [files EXCEPT ![c] = [msgs |-> send[s].copy, whole |-> whole]]
          ELSE UNCHANGED files
       /\ saved' = [saved EXCEPT ![c] = Append(@, Last(send[s].copy))]
       /\ send' = [send EXCEPT ![s].stage = IF @ = "add_write" THEN "added" ELSE "leave",
                               ![s].copy = <<>>]
       /\ UNCHANGED <<state, window, click, encode, remove, stopping,
                      spoilt, deleted, overlapped, asked, stopped>>

\* A save that fails: fs::write has not opened the file, and has changed nothing, or
\* has emptied it, and a part of the text is there at most.
SaveFails(s) ==
    LET c == send[s].conv
    IN IF send[s].stage \in {"add_write", "answer_write"}
       THEN /\ spoilt' = spoilt \cup {c}
            /\ \/ UNCHANGED files
               \/ send[s].linked /\ files' = [files EXCEPT ![c] = [msgs |-> send[s].copy, whole |-> FALSE]]
       ELSE UNCHANGED <<files, spoilt>>

---------------------------------------------------------------------------
(* The end of sendMessage *)

Waiting == {i \in DOMAIN pending : pending[i] = "encoding"}

\* The finally block, with clearImages.
Finally(s) ==
    /\ send' = [send EXCEPT ![s] = [NotSent EXCEPT !.stage = "ended"]]
    /\ busy' = FALSE
    /\ IF send[s].images # {}
       THEN /\ pending' = Restrict(pending, {})
            /\ remove' = [i \in Images |-> IF i \in Waiting /\ remove[i] = "new"
                                           THEN "cancel" ELSE remove[i]]
       ELSE UNCHANGED <<pending, remove>>

---------------------------------------------------------------------------
(* sendMessage, first part: the message is added *)

Send(s) ==
    /\ send[s].stage = "new" /\ active # None /\ ~busy
    /\ send' = [send EXCEPT ![s].stage = "add", ![s].conv = active,
                            ![s].images = {i \in DOMAIN pending : pending[i] = "ready"}]
    /\ UNCHANGED <<files, state, window, click, encode, remove, stopping, history>>

\* add_message reads the conversation; without it the call ends.
AddLoad(s) ==
    LET c == send[s].conv
    IN /\ send[s].stage = "add"
       /\ IF Loads(c) THEN send' = WithMessage(s, "user", "add_save") /\ overlapped' = Overlap(c)
          ELSE send' = [send EXCEPT ![s] = [NotSent EXCEPT !.stage = "ended"]]
               /\ UNCHANGED overlapped
       /\ UNCHANGED <<files, state, window, click, encode, remove, stopping,
                      saved, spoilt, deleted, asked, stopped>>

\* The conversation is not read, the message not saved or the list not read again:
\* addMessage throws, and so does sendMessage, outside its try block.
AddFails(s) ==
    /\ send[s].stage \in {"add", "add_save", "add_write", "list"}
    /\ send' = [send EXCEPT ![s] = [NotSent EXCEPT !.stage = "ended"]]
    /\ SaveFails(s)
    /\ UNCHANGED <<state, window, click, encode, remove, stopping,
                   saved, deleted, overlapped, asked, stopped>>

\* The store's addMessage shows the message in what is the active conversation by
\* now, and throws if there is none.
AddReply(s) ==
    /\ send[s].stage = "added"
    /\ send' = IF active = None THEN [send EXCEPT ![s] = [NotSent EXCEPT !.stage = "ended"]]
               ELSE To(s, "list")
    /\ UNCHANGED <<files, state, window, click, encode, remove, stopping, history>>

\* After loadConversations: the conversation to generate in is read again.
Generate(s) ==
    /\ send[s].stage = "list"
    /\ IF active = None THEN Finally(s) /\ UNCHANGED active
       ELSE /\ send' = [send EXCEPT ![s].stage = "gen", ![s].conv = active]
            /\ busy' = TRUE
            /\ UNCHANGED <<active, pending, remove>>
    /\ UNCHANGED <<files, state, click, encode, stopping, history>>

---------------------------------------------------------------------------
(* generate *)

Running(s) == send[s].stage \in
    {"load", "prefill", "decode", "answer", "answer_save", "answer_write", "leave"}

\* MUTANT: the request to stop an earlier generation stays.
Enter_KeepsCancel(s) ==
    /\ send[s].stage = "gen"
    /\ send' = To(s, IF generating THEN "failed" ELSE "load")
    /\ generating' = TRUE
    /\ UNCHANGED <<files, cancel_flag, embeddings, cancel_vision, window, click, encode, remove,
                   stopping, history>>
Enter(s) ==
    /\ send[s].stage = "gen"
    /\ send' = To(s, IF generating THEN "failed" ELSE "load")
    /\ generating' = TRUE
    /\ cancel_flag' = (generating /\ cancel_flag)
    /\ UNCHANGED <<files, embeddings, cancel_vision, window, click, encode, remove, stopping, history>>

\* MUTANT: a conversation that does not load leaves the flag set.
LoadPrompt_KeepsFlag(s) ==
    /\ send[s].stage = "load"
    /\ send' = To(s, IF Loads(send[s].conv) THEN "prefill" ELSE "failed")
    /\ embeddings' = IF Loads(send[s].conv) THEN embeddings \ send[s].images ELSE embeddings
    /\ UNCHANGED <<files, generating, cancel_flag, cancel_vision, window, click, encode, remove,
                   stopping, history>>
\* MUTANT: all embeddings are taken, not only those of the message.
LoadPrompt_TakesAll(s) ==
    /\ send[s].stage = "load"
    /\ send' = To(s, IF Loads(send[s].conv) THEN "prefill" ELSE "failed")
    /\ embeddings' = IF Loads(send[s].conv) THEN {} ELSE embeddings
    /\ generating' = Loads(send[s].conv)
    /\ UNCHANGED <<files, cancel_flag, cancel_vision, window, click, encode, remove, stopping, history>>
\* The conversation is read, and the embeddings of the message's images are taken.
LoadPrompt(s) ==
    /\ send[s].stage = "load"
    /\ send' = To(s, IF Loads(send[s].conv) THEN "prefill" ELSE "failed")
    /\ embeddings' = IF Loads(send[s].conv) THEN embeddings \ send[s].images ELSE embeddings
    /\ generating' = Loads(send[s].conv)
    /\ UNCHANGED <<files, cancel_flag, cancel_vision, window, click, encode, remove, stopping, history>>

\* No conversation read, no model, no tokens, no prefill, no next token.
Fail(s) ==
    /\ send[s].stage \in {"load", "prefill", "decode"}
    /\ send' = To(s, "failed")
    /\ generating' = FALSE
    /\ UNCHANGED <<files, cancel_flag, embeddings, cancel_vision, window, click, encode, remove,
                   stopping, history>>

\* A panic ends the command's task without a reply.
Panic(s) ==
    /\ send[s].stage \in {"prefill", "decode"}
    /\ send' = To(s, "stuck")
    /\ UNCHANGED <<files, state, window, click, encode, remove, stopping, history>>

\* The first token may be the last.
Prefill(s) ==
    /\ send[s].stage = "prefill"
    /\ \E next \in {"decode", "answer"} : send' = To(s, next)
    /\ UNCHANGED <<files, state, window, click, encode, remove, stopping, history>>

\* The end of the text, of its length or of patience with its repetitions.
DecodeEnds(s) ==
    /\ send[s].stage = "decode"
    /\ send' = To(s, "answer")
    /\ UNCHANGED <<files, state, window, click, encode, remove, stopping, history>>

Cancelled(s) ==
    /\ send[s].stage = "decode" /\ cancel_flag
    /\ send' = To(s, "answer")
    /\ stopped' = stopped \cup {s}
    /\ UNCHANGED <<files, state, window, click, encode, remove, stopping,
                   saved, spoilt, deleted, overlapped, asked>>

\* MUTANT: a conversation that does not load is started anew.
AnswerLoad_OrNew(s) ==
    LET c == send[s].conv
    IN /\ send[s].stage = "answer"
       /\ send' = IF Loads(c) THEN WithMessage(s, "assistant", "answer_save")
                  ELSE [send EXCEPT ![s].stage = "answer_save", ![s].copy = <<<<s, "assistant">>>>]
       /\ overlapped' = Overlap(c)
       /\ UNCHANGED <<files, state, window, click, encode, remove, stopping,
                      saved, spoilt, deleted, asked, stopped>>
\* save_assistant_message reads the conversation.
AnswerLoad(s) ==
    LET c == send[s].conv
    IN /\ send[s].stage = "answer"
       /\ send' = IF Loads(c) THEN WithMessage(s, "assistant", "answer_save") ELSE To(s, "leave")
       /\ overlapped' = Overlap(c)
       /\ UNCHANGED <<files, state, window, click, encode, remove, stopping,
                      saved, spoilt, deleted, asked, stopped>>

\* Nobody hears of an answer that is not saved: the call goes on.
AnswerFails(s) ==
    /\ send[s].stage \in {"answer", "answer_save", "answer_write"}
    /\ send' = [send EXCEPT ![s].stage = "leave", ![s].copy = <<>>]
    /\ SaveFails(s)
    /\ UNCHANGED <<state, window, click, encode, remove, stopping,
                   saved, deleted, overlapped, asked, stopped>>

Leave(s) ==
    /\ send[s].stage = "leave"
    /\ send' = To(s, "done")
    /\ generating' = FALSE
    /\ UNCHANGED <<files, cancel_flag, embeddings, cancel_vision, window, click, encode, remove,
                   stopping, history>>

---------------------------------------------------------------------------
(* sendMessage, last part: the active conversation is loaded again *)

Reload(s) ==
    /\ send[s].stage = "done"
    /\ send' = IF active = None THEN To(s, "relist")
               ELSE [send EXCEPT ![s].stage = "reload", ![s].conv = active]
    /\ UNCHANGED <<files, state, window, click, encode, remove, stopping, history>>

Reloaded(s) ==
    /\ send[s].stage = "reload"
    /\ IF Loads(send[s].conv)
       THEN /\ active' = send[s].conv /\ send' = To(s, "relist")
            /\ UNCHANGED <<busy, pending, remove>>
       ELSE Finally(s) /\ UNCHANGED active
    /\ UNCHANGED <<files, state, click, encode, stopping, history>>

\* Whatever fails within the try block, the finally block follows.
End(s) ==
    /\ send[s].stage \in {"reload", "relist", "failed"}
    /\ Finally(s)
    /\ UNCHANGED <<files, state, active, click, encode, stopping, history>>

---------------------------------------------------------------------------
(* The stop button *)

Stop ==
    /\ busy /\ ~stopping
    /\ stopping' = TRUE
    /\ UNCHANGED <<files, state, window, send, click, encode, remove, history>>

CancelGeneration ==
    /\ stopping
    /\ stopping' = FALSE
    /\ cancel_flag' = TRUE
    /\ asked' = asked \cup {s \in Sends : Running(s)}
    /\ UNCHANGED <<files, generating, embeddings, cancel_vision, window, send, click, encode, remove,
                   saved, spoilt, deleted, overlapped, stopped>>

---------------------------------------------------------------------------
(* The sidebar *)

\* The id of a new conversation is the time in milliseconds: taken to be new.
NewId(c) == c \notin DOMAIN files /\ c \notin deleted /\ \A k \in Clicks : click[k].conv # c

Click(k, c) ==
    /\ click[k].stage = "new"
    /\ \E kind \in (IF c \in DOMAIN files THEN {"select", "delete"}
                    ELSE IF NewId(c) THEN {"create"} ELSE {}) :
           click' = [click EXCEPT ![k] = [stage |-> kind, conv |-> c]]
    /\ UNCHANGED <<files, state, window, send, encode, remove, stopping, history>>

\* get_conversation and its reply.
Selected(k) ==
    /\ click[k].stage = "select"
    /\ active' = IF Loads(click[k].conv) THEN click[k].conv ELSE active
    /\ click' = [click EXCEPT ![k].stage = "ended"]
    /\ UNCHANGED <<files, state, busy, pending, send, encode, remove, stopping, history>>

\* The file is not read, or not removed.
ClickFails(k) ==
    /\ click[k].stage \in {"select", "delete"}
    /\ click' = [click EXCEPT ![k].stage = "ended"]
    /\ UNCHANGED <<files, state, window, send, encode, remove, stopping, history>>

\* A command that has the file open writes to a file without a name.
Delete(k) ==
    LET c == click[k].conv
    IN /\ click[k].stage = "delete"
       /\ files' = Restrict(files, DOMAIN files \ {c})
       /\ deleted' = deleted \cup {c} /\ overlapped' = Overlap(c)
       /\ send' = [s \in Sends |-> IF send[s].conv = c THEN [send[s] EXCEPT !.linked = FALSE]
                                   ELSE send[s]]
       /\ click' = [click EXCEPT ![k].stage = "deleted"]
       /\ UNCHANGED <<state, window, encode, remove, stopping, saved, spoilt, asked, stopped>>

DeleteReply(k) ==
    /\ click[k].stage = "deleted"
    /\ active' = IF active = click[k].conv THEN None ELSE active
    /\ click' = [click EXCEPT ![k].stage = "ended"]
    /\ UNCHANGED <<files, state, busy, pending, send, encode, remove, stopping, history>>

Create(k) ==
    LET c == click[k].conv
    IN /\ click[k].stage = "create"
       /\ files' = Put(files, c, Whole(<<>>))
       /\ click' = [click EXCEPT ![k].stage = "created"]
       /\ UNCHANGED <<state, window, send, encode, remove, stopping, history>>

\* The new file is not there, or not whole.
CreateFails(k) ==
    LET c == click[k].conv
    IN /\ click[k].stage = "create"
       /\ \/ UNCHANGED <<files, spoilt>>
          \/ files' = Put(files, c, Truncated) /\ spoilt' = spoilt \cup {c}
       /\ click' = [click EXCEPT ![k].stage = "ended"]
       /\ UNCHANGED <<state, window, send, encode, remove, stopping,
                      saved, deleted, overlapped, asked, stopped>>

CreateReply(k) ==
    /\ click[k].stage = "created"
    /\ active' = click[k].conv
    /\ click' = [click EXCEPT ![k].stage = "ended"]
    /\ UNCHANGED <<files, state, busy, pending, send, encode, remove, stopping, history>>

---------------------------------------------------------------------------
(* Images.  The model's lock only delays an encoding *)

AddImage(i) ==
    /\ encode[i] = "new"
    /\ encode' = [encode EXCEPT ![i] = "prepare"]
    /\ pending' = Put(pending, i, "encoding")
    /\ UNCHANGED <<files, state, active, busy, send, click, remove, stopping, history>>

Status(i, status) == IF i \in DOMAIN pending THEN [pending EXCEPT ![i] = status] ELSE pending

\* Cancellation is looked for after the image is prepared, and once it is encoded.
Check(i) ==
    /\ encode[i] \in {"prepare", "encode"}
    /\ encode' = [encode EXCEPT ![i] = IF i \in cancel_vision THEN "ended"
                                       ELSE IF @ = "prepare" THEN "encode" ELSE "store"]
    /\ UNCHANGED <<files, state, window, send, click, remove, stopping, history>>

EncodeFails(i) ==
    /\ encode[i] \in {"prepare", "encode"}
    /\ encode' = [encode EXCEPT ![i] = "ended"]
    /\ pending' = Status(i, "error")
    /\ UNCHANGED <<files, state, active, busy, send, click, remove, stopping, history>>

Store(i) ==
    /\ encode[i] = "store"
    /\ embeddings' = embeddings \cup {i}
    /\ encode' = [encode EXCEPT ![i] = "stored"]
    /\ UNCHANGED <<files, generating, cancel_flag, cancel_vision, window, send, click, remove,
                   stopping, history>>

\* The event that says so arrives.
Encoded(i) ==
    /\ encode[i] = "stored"
    /\ encode' = [encode EXCEPT ![i] = "ended"]
    /\ pending' = Status(i, "ready")
    /\ UNCHANGED <<files, state, active, busy, send, click, remove, stopping, history>>

RemoveImage(i) ==
    /\ i \in DOMAIN pending /\ remove[i] = "new"
    /\ remove' = [remove EXCEPT ![i] = "cancel"]
    /\ UNCHANGED <<files, state, window, send, click, encode, stopping, history>>

\* remove_image, in its two parts.
CancelVision(i) ==
    /\ remove[i] = "cancel"
    /\ cancel_vision' = cancel_vision \cup {i}
    /\ remove' = [remove EXCEPT ![i] = "drop"]
    /\ UNCHANGED <<files, generating, cancel_flag, embeddings, window, send, click, encode,
                   stopping, history>>
DropEmbedding(i) ==
    /\ remove[i] = "drop"
    /\ embeddings' = embeddings \ {i}
    /\ remove' = [remove EXCEPT ![i] = "reply"]
    /\ UNCHANGED <<files, generating, cancel_flag, cancel_vision, window, send, click, encode,
                   stopping, history>>

RemoveReply(i) ==
    /\ remove[i] = "reply"
    /\ remove' = [remove EXCEPT ![i] = "ended"]
    /\ pending' = Restrict(pending, DOMAIN pending \ {i})
    /\ UNCHANGED <<files, state, active, busy, send, click, encode, stopping, history>>

Next ==
    \/ \E s \in Sends :
           \/ Send(s) \/ AddLoad(s) \/ Truncate(s) \/ Write(s) \/ AddFails(s) \/ AddReply(s)
           \/ Generate(s) \/ Enter(s) \/ LoadPrompt(s) \/ Fail(s) \/ Panic(s) \/ Prefill(s) \/ DecodeEnds(s)
           \/ Cancelled(s) \/ AnswerLoad(s) \/ AnswerFails(s) \/ Leave(s)
           \/ Reload(s) \/ Reloaded(s) \/ End(s)
    \/ Stop \/ CancelGeneration
    \/ \E k \in Clicks :
           \/ \E c \in Convs : Click(k, c)
           \/ Selected(k) \/ ClickFails(k) \/ Delete(k) \/ DeleteReply(k)
           \/ Create(k) \/ CreateFails(k) \/ CreateReply(k)
    \/ \E i \in Images :
           \/ AddImage(i) \/ Check(i) \/ EncodeFails(i) \/ Store(i) \/ Encoded(i)
           \/ RemoveImage(i) \/ CancelVision(i) \/ DropEmbedding(i) \/ RemoveReply(i)

Spec == Init /\ [][Next]_vars

---------------------------------------------------------------------------
(* Properties *)

\* Every message whose saving succeeded is in the file, once and in order, until the
\* conversation is deleted, and a deleted conversation does not come back.  A save
\* that fails before it has emptied the file loses its own message alone; one that
\* fails later leaves a file that never loads again, so that nothing is added to a
\* conversation that has lost messages.  For a conversation that two commands were
\* not changing at once, which nothing in the code prevents.  Nothing is said of an
\* answer whose saving failed: generate reports it all the same.
Kept == \A c \in Convs \ overlapped :
    IF c \in deleted THEN c \notin DOMAIN files
    ELSE c \in DOMAIN files /\ ~Editing(c) =>
             IF c \in spoilt THEN ~files[c].whole ELSE files[c] = Whole(saved[c])

\* "Already generating" is the answer exactly while one generation runs (or has
\* panicked), and the window waits only while a call of sendMessage is to end.
FlagsAccounted ==
    /\ Cardinality({s \in Sends : Running(s) \/ send[s].stage = "stuck"}) = IF generating THEN 1 ELSE 0
    /\ busy => \E s \in Sends : \/ Running(s)
                                \/ send[s].stage \in {"gen", "failed", "stuck", "done", "reload", "relist"}

\* A generation is stopped only by a request that reached it, not by one that came
\* before it began or was meant for another.
StoppedIfAsked == stopped \subseteq asked

\* The window offers no image whose embedding is gone: it is stored, or taken for
\* the message that is being sent with it, or about to be removed.
ReadyIsStored == \A i \in DOMAIN pending : pending[i] = "ready" =>
    \/ i \in embeddings \/ remove[i] # "new"
    \/ \E s \in Sends : i \in send[s].images /\ send[s].stage # "ended"
=============================================================================
