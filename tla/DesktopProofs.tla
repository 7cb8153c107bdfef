---------------------------- MODULE DesktopProofs ----------------------------
(***************************************************************************)
(* The safety of the desktop application, for any number of calls, clicks, *)
(* images and conversations.                                               *)
(*                                                                         *)
(* IInv is the inductive invariant: the types, the generation and its      *)
(* flags, the images and their embeddings, the ids that have been used,    *)
(* and the files with the commands that are changing them.  Records are    *)
(* opened once, where an action is described by what it does to each field *)
(* (Sets); one lemma per part then shows that every step keeps it.         *)
(***************************************************************************)
EXTENDS Desktop, FiniteSetTheorems, TLAPS

EditStages == {"add_save", "add_write", "answer_save", "answer_write"}
RunStages == {"load", "prefill", "decode", "answer", "answer_save", "answer_write", "leave"}
\* Before its conversation is read, a message has taken no embedding.
EarlyStages == {"new", "add", "add_save", "add_write", "added", "list", "ended"}
SendStages == EarlyStages \cup {"gen", "failed", "stuck", "done", "reload", "relist"}
                          \cup RunStages
ClickStages == {"new", "select", "delete", "deleted", "create", "created", "ended"}
EncodeStages == {"new", "prepare", "encode", "store", "stored", "ended"}
ImageStatus == {"encoding", "ready", "error"}
RemoveStages == {"new", "cancel", "drop", "reply", "ended"}

Msg == Sends \X {"user", "assistant"}
File == [msgs : Seq(Msg), whole : BOOLEAN]
SendType == [stage : SendStages, conv : Convs \cup {None}, images : SUBSET Images,
             copy : Seq(Msg), linked : BOOLEAN]
ClickType == [stage : ClickStages, conv : Convs \cup {None}]

FileTypes == /\ DOMAIN files \subseteq Convs /\ files \in [DOMAIN files -> File]
             /\ saved \in [Convs -> Seq(Msg)]
             /\ spoilt \subseteq Convs
             /\ deleted \subseteq Convs /\ overlapped \subseteq Convs
CallTypes == /\ send \in [Sends -> SendType] /\ click \in [Clicks -> ClickType]
             /\ \A s \in Sends : /\ send[s].stage \notin {"new", "ended"} => send[s].conv \in Convs
                                 /\ send[s].stage \in EditStages => send[s].copy # <<>>
             /\ \A k \in Clicks : click[k].stage # "new" => click[k].conv \in Convs
             /\ asked \subseteq Sends /\ stopped \subseteq Sends
ImageTypes == /\ DOMAIN pending \subseteq Images
              /\ pending \in [DOMAIN pending -> ImageStatus]
              /\ encode \in [Images -> EncodeStages] /\ remove \in [Images -> RemoveStages]
              /\ embeddings \subseteq Images /\ cancel_vision \subseteq Images
TypeOK == /\ generating \in BOOLEAN /\ cancel_flag \in BOOLEAN
          /\ busy \in BOOLEAN /\ stopping \in BOOLEAN
          /\ active \in Convs \cup {None}
          /\ FileTypes
          /\ CallTypes
          /\ ImageTypes

---------------------------------------------------------------------------
(* The inductive invariant *)

\* One generation at a time, whose request to stop is its own.
Generations == {s \in Sends : Running(s) \/ send[s].stage = "stuck"}
WaitStages == RunStages \cup {"gen", "failed", "stuck", "done", "reload", "relist"}
Flags ==
    /\ ~generating => Generations = {}
    /\ generating => \E s \in Sends : Generations = {s}
    /\ busy => \E s \in Sends : send[s].stage \in WaitStages
    /\ stopped \subseteq asked
    /\ cancel_flag => \A s \in Sends : Running(s) => s \in asked

\* An image that is offered has its embedding, or a message has it that will
\* clear the images when it ends.  No message has an image that is not yet ready.
ImagesInPlace ==
    \A i \in Images :
        /\ i \in DOMAIN pending /\ pending[i] = "ready" =>
               \/ i \in embeddings \/ remove[i] # "new"
               \/ \E s \in Sends : i \in send[s].images /\ send[s].stage \notin EarlyStages
        /\ encode[i] = "stored" => i \in embeddings \/ remove[i] # "new"
        /\ encode[i] # "ended" => /\ i \in DOMAIN pending => pending[i] # "ready"
                                  /\ \A s \in Sends : i \notin send[s].images
        /\ encode[i] = "new" => i \notin DOMAIN pending

\* An id that was never that of a file is known only to the click to create it.
Fresh(c) == c \notin DOMAIN files /\ c \notin deleted
IdsInPlace ==
    /\ active # None => ~Fresh(active)
    /\ \A s \in Sends : send[s].conv # None => ~Fresh(send[s].conv)
    /\ \A k \in Clicks :
           /\ click[k].stage = "create" =>
                  /\ Fresh(click[k].conv)
                  /\ \A j \in Clicks \ {k} : click[j].conv # click[k].conv
           /\ click[k].stage \notin {"new", "create", "ended"} => ~Fresh(click[k].conv)

\* The command that changes a conversation, alone, has read what has been saved; it
\* finds the file as it left it.
Edits(s, c) == send[s].conv = c /\ send[s].stage \in EditStages
EditInPlace(s, c) ==
    /\ \A x \in Sends : Edits(x, c) => x = s
    /\ \E m \in Msg : send[s].copy = Append(saved[c], m)
    /\ c \in DOMAIN files /\ c \notin spoilt
    /\ send[s].stage \in {"add_save", "answer_save"} => files[c] = Whole(saved[c])
    /\ send[s].stage \in {"add_write", "answer_write"} => files[c] = Truncated /\ send[s].linked
FilePlace(c) ==
    /\ Fresh(c) => saved[c] = <<>> /\ c \notin spoilt
    /\ c \notin overlapped =>
           /\ c \in deleted => c \notin DOMAIN files
           /\ c \in DOMAIN files /\ ~Editing(c) =>
                  IF c \in spoilt THEN ~files[c].whole ELSE files[c] = Whole(saved[c])
           /\ \A s \in Sends : Edits(s, c) => EditInPlace(s, c)
FilesInPlace == \A c \in Convs : FilePlace(c)

IInv == /\ TypeOK
        /\ Flags
        /\ ImagesInPlace
        /\ IdsInPlace
        /\ FilesInPlace

---------------------------------------------------------------------------
(* What the actions do to the record of a call, field by field *)

Sets(s, stage, conv, images, copy, linked) ==
    /\ send' \in [Sends -> SendType]
    /\ \A x \in Sends \ {s} : send'[x] = send[x]
    /\ send'[s].stage = stage /\ send'[s].conv = conv /\ send'[s].images = images
    /\ send'[s].copy = copy /\ send'[s].linked = linked

\* The fields of a call.
LEMMA SendFields ==
    ASSUME CallTypes, NEW s \in Sends
    PROVE  /\ send[s] \in SendType
           /\ send[s].stage \in SendStages /\ send[s].conv \in Convs \cup {None}
           /\ send[s].images \subseteq Images /\ send[s].copy \in Seq(Msg)
           /\ send[s].linked \in BOOLEAN
  BY DEF CallTypes, SendType

\* No message is a text.
LEMMA NoMessage == <<>> \in Seq(Msg)
  OBVIOUS

\* A record in place of another.
LEMMA SetRecord ==
    ASSUME CallTypes, NEW s \in Sends, NEW j \in SendType, send' = [send EXCEPT ![s] = j]
    PROVE  Sets(s, j.stage, j.conv, j.images, j.copy, j.linked)
  BY DEF CallTypes, Sets

\* A step to another place of the call.
LEMMA SetStage ==
    ASSUME CallTypes, NEW s \in Sends, NEW x \in SendStages, send' = To(s, x)
    PROVE  Sets(s, x, send[s].conv, send[s].images, send[s].copy, send[s].linked)
<1> DEFINE j == [send[s] EXCEPT !.stage = x]
<1>1. send' = [send EXCEPT ![s] = j]
  BY DEF To
<1>2. /\ j \in SendType /\ j.stage = x /\ j.conv = send[s].conv /\ j.images = send[s].images
      /\ j.copy = send[s].copy /\ j.linked = send[s].linked
  BY SendFields DEF SendType
<1> HIDE DEF j
<1>. QED
  BY <1>1, <1>2, SetRecord

\* A step to another place, for the conversation c.
LEMMA SetConv ==
    ASSUME CallTypes, NEW s \in Sends, NEW x \in SendStages, NEW c \in Convs,
           send' = [send EXCEPT ![s].stage = x, ![s].conv = c]
    PROVE  Sets(s, x, c, send[s].images, send[s].copy, send[s].linked)
<1> DEFINE j == [send[s] EXCEPT !.stage = x, !.conv = c]
<1>1. send' = [send EXCEPT ![s] = j]
  OBVIOUS
<1>2. /\ j \in SendType /\ j.stage = x /\ j.conv = c /\ j.images = send[s].images
      /\ j.copy = send[s].copy /\ j.linked = send[s].linked
  BY SendFields DEF SendType
<1> HIDE DEF j
<1>. QED
  BY <1>1, <1>2, SetRecord

\* The end of a call.
LEMMA SetEnded ==
    ASSUME CallTypes, NEW s \in Sends,
           send' = [send EXCEPT ![s] = [NotSent EXCEPT !.stage = "ended"]]
    PROVE  Sets(s, "ended", None, {}, <<>>, TRUE)
<1> DEFINE j == [NotSent EXCEPT !.stage = "ended"]
<1>1. /\ j \in SendType /\ j.stage = "ended" /\ j.conv = None /\ j.images = {}
      /\ j.copy = <<>> /\ j.linked = TRUE
  BY NoMessage DEF NotSent, SendType, SendStages, EarlyStages
<1> HIDE DEF j
<1>2. send' = [send EXCEPT ![s] = j]
  BY DEF j
<1>. QED
  BY <1>1, <1>2, SetRecord

\* The start of one.
LEMMA SetSend ==
    ASSUME CallTypes, NEW s \in Sends, Send(s), active \in Convs \cup {None},
           DOMAIN pending \subseteq Images
    PROVE  Sets(s, "add", active, {i \in DOMAIN pending : pending[i] = "ready"},
                send[s].copy, send[s].linked)
<1> DEFINE I == {i \in DOMAIN pending : pending[i] = "ready"}
           j == [send[s] EXCEPT !.stage = "add", !.conv = active, !.images = I]
<1>1. I \subseteq Images
  OBVIOUS
<1>2. send' = [send EXCEPT ![s] = j]
  BY DEF Send
<1> HIDE DEF I
<1>3. /\ j \in SendType /\ j.stage = "add" /\ j.conv = active /\ j.images = I
      /\ j.copy = send[s].copy /\ j.linked = send[s].linked
  BY <1>1, SendFields DEF SendType, SendStages, EarlyStages
<1> HIDE DEF j
<1>. QED
  BY <1>2, <1>3, SetRecord DEF I

\* The conversation is read, with one message more.
LEMMA SetMessage ==
    ASSUME CallTypes, FileTypes, NEW s \in Sends, NEW role \in {"user", "assistant"},
           NEW x \in SendStages, send[s].conv \in DOMAIN files,
           send' = WithMessage(s, role, x)
    PROVE  /\ Sets(s, x, send[s].conv, send[s].images,
                   Append(files[send[s].conv].msgs, <<s, role>>), send[s].linked)
           /\ files[send[s].conv].msgs \in Seq(Msg) /\ <<s, role>> \in Msg
<1> DEFINE n == Append(files[send[s].conv].msgs, <<s, role>>)
           j == [send[s] EXCEPT !.stage = x, !.copy = n]
<1>1. files[send[s].conv].msgs \in Seq(Msg) /\ <<s, role>> \in Msg
  BY DEF FileTypes, File, Msg
<1>2. n \in Seq(Msg)
  BY <1>1
<1>3. send' = [send EXCEPT ![s] = j]
  BY DEF WithMessage
<1> HIDE DEF n
<1>4. /\ j \in SendType /\ j.stage = x /\ j.conv = send[s].conv /\ j.images = send[s].images
      /\ j.copy = n /\ j.linked = send[s].linked
  BY <1>2, SendFields DEF SendType
<1> HIDE DEF j
<1>. QED
  BY <1>1, <1>3, <1>4, SetRecord DEF n

\* The file is open under its name.
LEMMA SetTruncate ==
    ASSUME CallTypes, NEW s \in Sends, Truncate(s)
    PROVE  Sets(s, IF send[s].stage = "add_save" THEN "add_write" ELSE "answer_write",
                send[s].conv, send[s].images, send[s].copy, TRUE)
<1> DEFINE x == IF send[s].stage = "add_save" THEN "add_write" ELSE "answer_write"
           j == [send[s] EXCEPT !.stage = x, !.linked = TRUE]
<1>1. send' = [send EXCEPT ![s] = j]
  BY DEF Truncate
<1>2. /\ j \in SendType /\ j.stage = x /\ j.conv = send[s].conv /\ j.images = send[s].images
      /\ j.copy = send[s].copy /\ j.linked = TRUE
  BY SendFields DEF SendType, SendStages, EarlyStages, RunStages
<1> HIDE DEF j
<1>. QED
  BY <1>1, <1>2, SetRecord

\* The text leaves the call.
LEMMA SetWrite ==
    ASSUME CallTypes, NEW s \in Sends, Write(s)
    PROVE  Sets(s, IF send[s].stage = "add_write" THEN "added" ELSE "leave",
                send[s].conv, send[s].images, <<>>, send[s].linked)
<1> DEFINE x == IF send[s].stage = "add_write" THEN "added" ELSE "leave"
           j == [send[s] EXCEPT !.stage = x, !.copy = <<>>]
<1>1. send' = [send EXCEPT ![s] = j]
  BY DEF Write
<1>2. /\ j \in SendType /\ j.stage = x /\ j.conv = send[s].conv /\ j.images = send[s].images
      /\ j.copy = <<>> /\ j.linked = send[s].linked
  BY SendFields, NoMessage DEF SendType, SendStages, EarlyStages, RunStages
<1> HIDE DEF j
<1>. QED
  BY <1>1, <1>2, SetRecord

\* A deletion takes the name from the files that are open.
LEMMA SetDelete ==
    ASSUME CallTypes, NEW k \in Clicks, Delete(k)
    PROVE  /\ send' \in [Sends -> SendType]
           /\ \A s \in Sends :
                 /\ send'[s].stage = send[s].stage /\ send'[s].conv = send[s].conv
                 /\ send'[s].images = send[s].images /\ send'[s].copy = send[s].copy
                 /\ send[s].conv # click[k].conv => send'[s].linked = send[s].linked
<1>1. \A s \in Sends : send'[s] = IF send[s].conv = click[k].conv
                                  THEN [send[s] EXCEPT !.linked = FALSE] ELSE send[s]
  BY DEF Delete
<1>2. ASSUME NEW j \in SendType
      PROVE  LET n == [j EXCEPT !.linked = FALSE]
             IN  /\ n \in SendType /\ n.stage = j.stage /\ n.conv = j.conv
                 /\ n.images = j.images /\ n.copy = j.copy
  BY DEF SendType
<1>3. \A s \in Sends : send'[s] \in SendType
  BY <1>1, <1>2, SendFields, ZenonT(30)
<1>4. send' = [s \in Sends |-> send'[s]]
  BY DEF Delete
<1>5. send' \in [Sends -> SendType]
  BY <1>3, <1>4
<1>. QED
  BY <1>1, <1>2, <1>5, SendFields, ZenonT(30)

---------------------------------------------------------------------------
(* What each step of sendMessage does to its record *)

Goes(s, x) == Sets(s, x, send[s].conv, send[s].images, send[s].copy, send[s].linked)
Turns(s, x) == Sets(s, x, active, send[s].images, send[s].copy, send[s].linked)
Ends(s) == Sets(s, "ended", None, {}, <<>>, TRUE)
Ready == {i \in DOMAIN pending : pending[i] = "ready"}
Adds(s, role, x) ==
    LET old == files[send[s].conv].msgs
    IN  /\ send[s].conv \in DOMAIN files /\ files[send[s].conv].whole
        /\ old \in Seq(Msg) /\ <<s, role>> \in Msg
        /\ Sets(s, x, send[s].conv, send[s].images, Append(old, <<s, role>>), send[s].linked)

\* A call that has begun and not ended is about a conversation.
LEMMA CallConv ==
    ASSUME CallTypes, NEW s \in Sends, send[s].stage \notin {"new", "ended"}
    PROVE  send[s].conv \in Convs
  BY DEF CallTypes

\* A message is added to what the file holds.
LEMMA AddsMessage ==
    ASSUME CallTypes, FileTypes, NEW s \in Sends, NEW role \in {"user", "assistant"},
           NEW x \in SendStages, Loads(send[s].conv), send' = WithMessage(s, role, x)
    PROVE  Adds(s, role, x)
  BY SetMessage DEF Loads, Adds

\* A message is sent with the images that are ready, in the active conversation.
LEMMA SendDoes ==
    ASSUME TypeOK, NEW s \in Sends, Send(s)
    PROVE  active \in Convs /\ Sets(s, "add", active, Ready, send[s].copy, send[s].linked)
  BY SetSend DEF Send, TypeOK, ImageTypes, Ready

\* The message is added to what the file holds, or the call ends.
LEMMA AddLoadDoes ==
    ASSUME TypeOK, NEW s \in Sends, AddLoad(s)
    PROVE  \/ Adds(s, "user", "add_save")
           \/ ~Loads(send[s].conv) /\ Ends(s)
<1>1. CASE Loads(send[s].conv)
  BY <1>1, AddsMessage DEF AddLoad, TypeOK, SendStages, EarlyStages, RunStages
<1>2. CASE ~Loads(send[s].conv)
  BY <1>2, SetEnded DEF AddLoad, TypeOK, Ends
<1>. QED
  BY <1>1, <1>2

\* The file is open, and empty.
LEMMA TruncateDoes ==
    ASSUME TypeOK, NEW s \in Sends, Truncate(s)
    PROVE  \/ /\ send[s].stage = "add_save"
              /\ Sets(s, "add_write", send[s].conv, send[s].images, send[s].copy, TRUE)
           \/ /\ send[s].stage = "answer_save"
              /\ Sets(s, "answer_write", send[s].conv, send[s].images, send[s].copy, TRUE)
<1>1. CASE send[s].stage = "add_save"
  BY <1>1, SetTruncate DEF TypeOK
<1>2. CASE send[s].stage = "answer_save"
  BY <1>2, SetTruncate DEF TypeOK
<1>. QED
  BY <1>1, <1>2 DEF Truncate

\* The text is written, and gone from the call.
LEMMA WriteDoes ==
    ASSUME TypeOK, NEW s \in Sends, Write(s)
    PROVE  \/ /\ send[s].stage = "add_write"
              /\ Sets(s, "added", send[s].conv, send[s].images, <<>>, send[s].linked)
           \/ /\ send[s].stage = "answer_write"
              /\ Sets(s, "leave", send[s].conv, send[s].images, <<>>, send[s].linked)
<1>1. CASE send[s].stage = "add_write"
  BY <1>1, SetWrite DEF TypeOK
<1>2. CASE send[s].stage = "answer_write"
  BY <1>2, SetWrite DEF TypeOK
<1>. QED
  BY <1>1, <1>2 DEF Write

\* Without an active conversation the call ends.
LEMMA AddReplyDoes ==
    ASSUME TypeOK, NEW s \in Sends, AddReply(s)
    PROVE  \/ active = None /\ Ends(s)
           \/ Goes(s, "list")
<1>1. CASE active = None
  BY <1>1, SetEnded DEF AddReply, TypeOK, Ends
<1>2. CASE active # None
  BY <1>2, SetStage DEF AddReply, TypeOK, Goes, SendStages, EarlyStages, RunStages
<1>. QED
  BY <1>1, <1>2

\* The answer is for the conversation that is active by now.
LEMMA GenerateDoes ==
    ASSUME TypeOK, NEW s \in Sends, Generate(s)
    PROVE  \/ active = None /\ Ends(s)
           \/ active \in Convs /\ Turns(s, "gen")
<1>1. CASE active = None
  BY <1>1, SetEnded DEF Generate, Finally, TypeOK, Ends
<1>2. CASE active # None
  BY <1>2, SetConv DEF Generate, TypeOK, Turns, SendStages, EarlyStages, RunStages
<1>. QED
  BY <1>1, <1>2

\* One generation at a time enters.
LEMMA EnterDoes ==
    ASSUME TypeOK, NEW s \in Sends, Enter(s)
    PROVE  \/ generating /\ Goes(s, "failed")
           \/ ~generating /\ Goes(s, "load")
<1>1. CASE generating
  BY <1>1, SetStage DEF Enter, TypeOK, Goes, SendStages, EarlyStages, RunStages
<1>2. CASE ~generating
  BY <1>2, SetStage DEF Enter, TypeOK, Goes, SendStages, EarlyStages, RunStages
<1>. QED
  BY <1>1, <1>2

\* A conversation that does not load fails.
LEMMA LoadPromptDoes ==
    ASSUME TypeOK, NEW s \in Sends, LoadPrompt(s)
    PROVE  \/ Loads(send[s].conv) /\ Goes(s, "prefill")
           \/ ~Loads(send[s].conv) /\ Goes(s, "failed")
<1>1. CASE Loads(send[s].conv)
  BY <1>1, SetStage DEF LoadPrompt, TypeOK, Goes, SendStages, EarlyStages, RunStages
<1>2. CASE ~Loads(send[s].conv)
  BY <1>2, SetStage DEF LoadPrompt, TypeOK, Goes, SendStages, EarlyStages, RunStages
<1>. QED
  BY <1>1, <1>2

\* A generation fails.
LEMMA FailDoes ==
    ASSUME TypeOK, NEW s \in Sends, Fail(s)
    PROVE  Goes(s, "failed")
  BY SetStage DEF Fail, TypeOK, Goes, SendStages, EarlyStages, RunStages

\* A generation that panics is never heard of.
LEMMA PanicDoes ==
    ASSUME TypeOK, NEW s \in Sends, Panic(s)
    PROVE  Goes(s, "stuck")
  BY SetStage DEF Panic, TypeOK, Goes, SendStages, EarlyStages, RunStages

\* The answer is complete.
LEMMA DecodeEndsDoes ==
    ASSUME TypeOK, NEW s \in Sends, DecodeEnds(s)
    PROVE  Goes(s, "answer")
  BY SetStage DEF DecodeEnds, TypeOK, Goes, SendStages, EarlyStages, RunStages

\* The answer is as long as it is.
LEMMA CancelledDoes ==
    ASSUME TypeOK, NEW s \in Sends, Cancelled(s)
    PROVE  Goes(s, "answer")
  BY SetStage DEF Cancelled, TypeOK, Goes, SendStages, EarlyStages, RunStages

\* The generation is over.
LEMMA LeaveDoes ==
    ASSUME TypeOK, NEW s \in Sends, Leave(s)
    PROVE  Goes(s, "done")
  BY SetStage DEF Leave, TypeOK, Goes, SendStages, EarlyStages, RunStages

\* The first token may be the last.
LEMMA PrefillDoes ==
    ASSUME TypeOK, NEW s \in Sends, Prefill(s)
    PROVE  Goes(s, "decode") \/ Goes(s, "answer")
  BY SetStage DEF Prefill, TypeOK, Goes, SendStages, EarlyStages, RunStages

\* The answer is added to what the file holds, or lost.
LEMMA AnswerLoadDoes ==
    ASSUME TypeOK, NEW s \in Sends, AnswerLoad(s)
    PROVE  \/ Adds(s, "assistant", "answer_save")
           \/ ~Loads(send[s].conv) /\ Goes(s, "leave")
<1>1. CASE Loads(send[s].conv)
  BY <1>1, AddsMessage DEF AnswerLoad, TypeOK, SendStages, EarlyStages, RunStages
<1>2. CASE ~Loads(send[s].conv)
  BY <1>2, SetStage DEF AnswerLoad, TypeOK, Goes, SendStages, EarlyStages, RunStages
<1>. QED
  BY <1>1, <1>2

\* A message that cannot be added ends the call.
LEMMA AddFailsDoes ==
    ASSUME TypeOK, NEW s \in Sends, AddFails(s)
    PROVE  Ends(s)
  BY SetEnded DEF AddFails, TypeOK, Ends

\* An answer that cannot be saved is dropped.
LEMMA AnswerFailsDoes ==
    ASSUME TypeOK, NEW s \in Sends, AnswerFails(s)
    PROVE  Sets(s, "leave", send[s].conv, send[s].images, <<>>, send[s].linked)
<1> DEFINE j == [send[s] EXCEPT !.stage = "leave", !.copy = <<>>]
<1>1. send' = [send EXCEPT ![s] = j]
  BY DEF AnswerFails
<1>2. /\ j \in SendType /\ j.stage = "leave" /\ j.conv = send[s].conv /\ j.images = send[s].images
      /\ j.copy = <<>> /\ j.linked = send[s].linked
  BY SendFields, NoMessage DEF TypeOK, SendType, SendStages, EarlyStages, RunStages
<1> HIDE DEF j
<1>. QED
  BY <1>1, <1>2, SetRecord DEF TypeOK

\* The active conversation is read again, if there is one.
LEMMA ReloadDoes ==
    ASSUME TypeOK, NEW s \in Sends, Reload(s)
    PROVE  \/ Goes(s, "relist")
           \/ active \in Convs /\ Turns(s, "reload")
<1>1. CASE active = None
  BY <1>1, SetStage DEF Reload, TypeOK, Goes, SendStages, EarlyStages, RunStages
<1>2. CASE active # None
  BY <1>2, SetConv DEF Reload, TypeOK, Turns, SendStages, EarlyStages, RunStages
<1>. QED
  BY <1>1, <1>2

\* One that does not load ends the call.
LEMMA ReloadedDoes ==
    ASSUME TypeOK, NEW s \in Sends, Reloaded(s)
    PROVE  \/ Loads(send[s].conv) /\ Goes(s, "relist")
           \/ ~Loads(send[s].conv) /\ Ends(s)
<1>1. CASE Loads(send[s].conv)
  BY <1>1, SetStage DEF Reloaded, TypeOK, Goes, SendStages, EarlyStages, RunStages
<1>2. CASE ~Loads(send[s].conv)
  BY <1>2, SetEnded DEF Reloaded, Finally, TypeOK, Ends
<1>. QED
  BY <1>1, <1>2

\* The call ends.
LEMMA EndDoes ==
    ASSUME TypeOK, NEW s \in Sends, End(s)
    PROVE  Ends(s)
  BY SetEnded DEF End, Finally, TypeOK, Ends

---------------------------------------------------------------------------
(* The types *)

\* The types, from what a step does to the record of a call.
LEMMA CallMove ==
    ASSUME CallTypes, NEW s \in Sends, NEW x, NEW c, NEW I, NEW m, NEW l, Sets(s, x, c, I, m, l),
           x \notin {"new", "ended"} => c \in Convs,
           x \in EditStages => m # <<>>,
           click' = click, asked' \subseteq Sends, stopped' \subseteq Sends
    PROVE  CallTypes'
  BY DEF CallTypes, Sets

\* A text with one more message is not empty.
LEMMA AppendNotEmpty ==
    ASSUME NEW m \in Seq(Msg), NEW e \in Msg
    PROVE  Append(m, e) \in Seq(Msg) /\ Append(m, e) # <<>>
<1>1. Len(Append(m, e)) = Len(m) + 1 /\ Len(m) \in Nat
  OBVIOUS
<1>2. Len(<<>>) = 0
  OBVIOUS
<1>. QED
  BY <1>1, <1>2

\* The types, for each way to change the record of a call.
LEMMA CallForms ==
    ASSUME CallTypes, NEW s \in Sends, send[s].conv \in Convs,
           click' = click, asked' \subseteq Sends, stopped' \subseteq Sends
    PROVE  /\ \A x \in SendStages \ EditStages : Goes(s, x) => CallTypes'
           /\ \A x \in SendStages \ EditStages : active \in Convs /\ Turns(s, x) => CallTypes'
           /\ \A role, x : Adds(s, role, x) => CallTypes'
           /\ Ends(s) => CallTypes'
<1>1. ASSUME NEW x \in SendStages \ EditStages, Goes(s, x) PROVE CallTypes'
  BY <1>1, CallMove DEF Goes
<1>2. ASSUME NEW x \in SendStages \ EditStages, active \in Convs, Turns(s, x) PROVE CallTypes'
  BY <1>2, CallMove DEF Turns
<1>3. ASSUME NEW role, NEW x, Adds(s, role, x) PROVE CallTypes'
  <2> DEFINE n == Append(files[send[s].conv].msgs, <<s, role>>)
  <2>1. n # <<>>
    BY <1>3, AppendNotEmpty DEF Adds
  <2>2. Sets(s, x, send[s].conv, send[s].images, n, send[s].linked)
    BY <1>3 DEF Adds
  <2> HIDE DEF n
  <2>. QED
    BY <2>1, <2>2, CallMove
<1>4. ASSUME Ends(s) PROVE CallTypes'
  BY <1>4, CallMove DEF Ends, EditStages
<1>. QED
  BY <1>1, <1>2, <1>3, <1>4

\* A call has a conversation until it ends, and a text until it is written.
LEMMA StepCallTypes ==
    ASSUME TypeOK, Next
    PROVE  CallTypes'
<1>1. ASSUME NEW s \in Sends, Send(s) PROVE CallTypes'
  BY <1>1, SendDoes, CallMove DEF Send, TypeOK, CallTypes, EditStages, history
<1>2. ASSUME NEW s \in Sends, AddLoad(s) PROVE CallTypes'
  <2>1. send[s].conv \in Convs /\ CallTypes
    BY <1>2 DEF AddLoad, TypeOK, CallTypes
  <2>2. click' = click /\ asked' \subseteq Sends /\ stopped' \subseteq Sends
    BY <1>2 DEF AddLoad, TypeOK, CallTypes, history
  <2>. QED
    BY <1>2, <2>1, <2>2, AddLoadDoes, CallForms DEF SendStages, EarlyStages, RunStages, EditStages
<1>3. ASSUME NEW s \in Sends, Truncate(s) PROVE CallTypes'
  <2>1. send[s].copy # <<>> /\ send[s].conv \in Convs /\ CallTypes
    BY <1>3 DEF Truncate, TypeOK, CallTypes, EditStages
  <2>2. click' = click /\ asked' \subseteq Sends /\ stopped' \subseteq Sends
    BY <1>3 DEF Truncate, TypeOK, CallTypes, history
  <2>. QED
    BY <1>3, <2>1, <2>2, TruncateDoes, CallMove
<1>4. ASSUME NEW s \in Sends, Write(s) PROVE CallTypes'
  <2>1. send[s].conv \in Convs /\ CallTypes
    BY <1>4 DEF Write, TypeOK, CallTypes
  <2>2. click' = click /\ asked' \subseteq Sends /\ stopped' \subseteq Sends
    BY <1>4 DEF Write, TypeOK, CallTypes
  <2>. QED
    BY <1>4, <2>1, <2>2, WriteDoes, CallMove DEF EditStages
<1>5. ASSUME NEW s \in Sends, AddReply(s) PROVE CallTypes'
  <2>1. send[s].conv \in Convs /\ CallTypes
    BY <1>5 DEF AddReply, TypeOK, CallTypes
  <2>2. click' = click /\ asked' \subseteq Sends /\ stopped' \subseteq Sends
    BY <1>5 DEF AddReply, TypeOK, CallTypes, history
  <2>. QED
    BY <1>5, <2>1, <2>2, AddReplyDoes, CallForms DEF SendStages, EarlyStages, RunStages, EditStages
<1>6. ASSUME NEW s \in Sends, Generate(s) PROVE CallTypes'
  <2>1. send[s].conv \in Convs /\ CallTypes
    BY <1>6 DEF Generate, TypeOK, CallTypes
  <2>2. click' = click /\ asked' \subseteq Sends /\ stopped' \subseteq Sends
    BY <1>6 DEF Generate, TypeOK, CallTypes, history
  <2>. QED
    BY <1>6, <2>1, <2>2, GenerateDoes, CallForms DEF SendStages, EarlyStages, RunStages, EditStages
<1>7. ASSUME NEW s \in Sends, Enter(s) PROVE CallTypes'
  <2>1. send[s].conv \in Convs /\ CallTypes
    BY <1>7 DEF Enter, TypeOK, CallTypes
  <2>2. click' = click /\ asked' \subseteq Sends /\ stopped' \subseteq Sends
    BY <1>7 DEF Enter, TypeOK, CallTypes, history
  <2>. QED
    BY <1>7, <2>1, <2>2, EnterDoes, CallForms DEF SendStages, EarlyStages, RunStages, EditStages
<1>8. ASSUME NEW s \in Sends, LoadPrompt(s) PROVE CallTypes'
  <2>1. send[s].conv \in Convs /\ CallTypes
    BY <1>8 DEF LoadPrompt, TypeOK, CallTypes
  <2>2. click' = click /\ asked' \subseteq Sends /\ stopped' \subseteq Sends
    BY <1>8 DEF LoadPrompt, TypeOK, CallTypes, history
  <2>. QED
    BY <1>8, <2>1, <2>2, LoadPromptDoes, CallForms DEF SendStages, EarlyStages, RunStages, EditStages
<1>9. ASSUME NEW s \in Sends, Fail(s) PROVE CallTypes'
  <2>1. send[s].conv \in Convs /\ CallTypes
    BY <1>9 DEF Fail, TypeOK, CallTypes
  <2>2. click' = click /\ asked' \subseteq Sends /\ stopped' \subseteq Sends
    BY <1>9 DEF Fail, TypeOK, CallTypes, history
  <2>. QED
    BY <1>9, <2>1, <2>2, FailDoes, CallForms DEF SendStages, EarlyStages, RunStages, EditStages
<1>10. ASSUME NEW s \in Sends, Panic(s) PROVE CallTypes'
  <2>1. send[s].conv \in Convs /\ CallTypes
    BY <1>10 DEF Panic, TypeOK, CallTypes
  <2>2. click' = click /\ asked' \subseteq Sends /\ stopped' \subseteq Sends
    BY <1>10 DEF Panic, TypeOK, CallTypes, history
  <2>. QED
    BY <1>10, <2>1, <2>2, PanicDoes, CallForms DEF SendStages, EarlyStages, RunStages, EditStages
<1>11. ASSUME NEW s \in Sends, Prefill(s) PROVE CallTypes'
  <2>1. send[s].conv \in Convs /\ CallTypes
    BY <1>11 DEF Prefill, TypeOK, CallTypes
  <2>2. click' = click /\ asked' \subseteq Sends /\ stopped' \subseteq Sends
    BY <1>11 DEF Prefill, TypeOK, CallTypes, history
  <2>. QED
    BY <1>11, <2>1, <2>2, PrefillDoes, CallForms DEF SendStages, EarlyStages, RunStages, EditStages
<1>12. ASSUME NEW s \in Sends, DecodeEnds(s) PROVE CallTypes'
  <2>1. send[s].conv \in Convs /\ CallTypes
    BY <1>12 DEF DecodeEnds, TypeOK, CallTypes
  <2>2. click' = click /\ asked' \subseteq Sends /\ stopped' \subseteq Sends
    BY <1>12 DEF DecodeEnds, TypeOK, CallTypes, history
  <2>. QED
    BY <1>12, <2>1, <2>2, DecodeEndsDoes, CallForms DEF SendStages, EarlyStages, RunStages, EditStages
<1>13. ASSUME NEW s \in Sends, Cancelled(s) PROVE CallTypes'
  <2>1. send[s].conv \in Convs /\ CallTypes
    BY <1>13 DEF Cancelled, TypeOK, CallTypes
  <2>2. click' = click /\ asked' \subseteq Sends /\ stopped' \subseteq Sends
    BY <1>13 DEF Cancelled, TypeOK, CallTypes, history
  <2>. QED
    BY <1>13, <2>1, <2>2, CancelledDoes, CallForms DEF SendStages, EarlyStages, RunStages, EditStages
<1>14. ASSUME NEW s \in Sends, AnswerLoad(s) PROVE CallTypes'
  <2>1. send[s].conv \in Convs /\ CallTypes
    BY <1>14 DEF AnswerLoad, TypeOK, CallTypes
  <2>2. click' = click /\ asked' \subseteq Sends /\ stopped' \subseteq Sends
    BY <1>14 DEF AnswerLoad, TypeOK, CallTypes, history
  <2>. QED
    BY <1>14, <2>1, <2>2, AnswerLoadDoes, CallForms DEF SendStages, EarlyStages, RunStages, EditStages
<1>15. ASSUME NEW s \in Sends, Leave(s) PROVE CallTypes'
  <2>1. send[s].conv \in Convs /\ CallTypes
    BY <1>15 DEF Leave, TypeOK, CallTypes
  <2>2. click' = click /\ asked' \subseteq Sends /\ stopped' \subseteq Sends
    BY <1>15 DEF Leave, TypeOK, CallTypes, history
  <2>. QED
    BY <1>15, <2>1, <2>2, LeaveDoes, CallForms DEF SendStages, EarlyStages, RunStages, EditStages
<1>16. ASSUME NEW s \in Sends, Reload(s) PROVE CallTypes'
  <2>1. send[s].conv \in Convs /\ CallTypes
    BY <1>16 DEF Reload, TypeOK, CallTypes
  <2>2. click' = click /\ asked' \subseteq Sends /\ stopped' \subseteq Sends
    BY <1>16 DEF Reload, TypeOK, CallTypes, history
  <2>. QED
    BY <1>16, <2>1, <2>2, ReloadDoes, CallForms DEF SendStages, EarlyStages, RunStages, EditStages
<1>17. ASSUME NEW s \in Sends, Reloaded(s) PROVE CallTypes'
  <2>1. send[s].conv \in Convs /\ CallTypes
    BY <1>17 DEF Reloaded, TypeOK, CallTypes
  <2>2. click' = click /\ asked' \subseteq Sends /\ stopped' \subseteq Sends
    BY <1>17 DEF Reloaded, TypeOK, CallTypes, history
  <2>. QED
    BY <1>17, <2>1, <2>2, ReloadedDoes, CallForms DEF SendStages, EarlyStages, RunStages, EditStages
<1>18. ASSUME NEW s \in Sends, End(s) PROVE CallTypes'
  <2>1. send[s].conv \in Convs /\ CallTypes
    BY <1>18 DEF End, TypeOK, CallTypes
  <2>2. click' = click /\ asked' \subseteq Sends /\ stopped' \subseteq Sends
    BY <1>18 DEF End, TypeOK, CallTypes, history
  <2>. QED
    BY <1>18, <2>1, <2>2, EndDoes, CallForms DEF SendStages, EarlyStages, RunStages, EditStages
<1>19. ASSUME Stop PROVE CallTypes'
  BY <1>19 DEF Stop, TypeOK, CallTypes, history
<1>20. ASSUME CancelGeneration PROVE CallTypes'
  BY <1>20 DEF CancelGeneration, TypeOK, CallTypes, history, Running
<1>21. ASSUME NEW k \in Clicks, NEW c \in Convs, Click(k, c) PROVE CallTypes'
  BY <1>21 DEF Click, TypeOK, CallTypes, ClickType, ClickStages, history
<1>22. ASSUME NEW k \in Clicks, Selected(k) PROVE CallTypes'
  BY <1>22 DEF Selected, TypeOK, CallTypes, ClickType, ClickStages, history
<1>23. ASSUME NEW k \in Clicks, Delete(k) PROVE CallTypes'
  BY <1>23, SetDelete, ZenonT(30) DEF Delete, TypeOK, CallTypes, ClickType, ClickStages
<1>24. ASSUME NEW k \in Clicks, DeleteReply(k) PROVE CallTypes'
  BY <1>24 DEF DeleteReply, TypeOK, CallTypes, ClickType, ClickStages, history
<1>25. ASSUME NEW k \in Clicks, Create(k) PROVE CallTypes'
  BY <1>25 DEF Create, TypeOK, CallTypes, ClickType, ClickStages, history
<1>26. ASSUME NEW k \in Clicks, CreateReply(k) PROVE CallTypes'
  BY <1>26 DEF CreateReply, TypeOK, CallTypes, ClickType, ClickStages, history
<1>27. ASSUME NEW i \in Images, AddImage(i) PROVE CallTypes'
  BY <1>27 DEF AddImage, TypeOK, CallTypes, history
<1>28. ASSUME NEW i \in Images, Check(i) PROVE CallTypes'
  BY <1>28 DEF Check, TypeOK, CallTypes, history
<1>29. ASSUME NEW i \in Images, EncodeFails(i) PROVE CallTypes'
  BY <1>29 DEF EncodeFails, TypeOK, CallTypes, history
<1>30. ASSUME NEW i \in Images, Store(i) PROVE CallTypes'
  BY <1>30 DEF Store, TypeOK, CallTypes, history
<1>31. ASSUME NEW i \in Images, Encoded(i) PROVE CallTypes'
  BY <1>31 DEF Encoded, TypeOK, CallTypes, history
<1>32. ASSUME NEW i \in Images, RemoveImage(i) PROVE CallTypes'
  BY <1>32 DEF RemoveImage, TypeOK, CallTypes, history
<1>33. ASSUME NEW i \in Images, CancelVision(i) PROVE CallTypes'
  BY <1>33 DEF CancelVision, TypeOK, CallTypes, history
<1>34. ASSUME NEW i \in Images, DropEmbedding(i) PROVE CallTypes'
  BY <1>34 DEF DropEmbedding, TypeOK, CallTypes, history
<1>35. ASSUME NEW i \in Images, RemoveReply(i) PROVE CallTypes'
  BY <1>35 DEF RemoveReply, TypeOK, CallTypes, history
<1>36. ASSUME NEW s \in Sends, AddFails(s) PROVE CallTypes'
  <2>1. click' = click /\ asked' \subseteq Sends /\ stopped' \subseteq Sends
    BY <1>36 DEF AddFails, TypeOK, CallTypes
  <2>. QED
    BY <1>36, <2>1, AddFailsDoes, CallMove DEF Ends, EditStages, TypeOK
<1>37. ASSUME NEW s \in Sends, AnswerFails(s) PROVE CallTypes'
  <2>1. send[s].conv \in Convs /\ CallTypes
    BY <1>37 DEF AnswerFails, TypeOK, CallTypes
  <2>2. click' = click /\ asked' \subseteq Sends /\ stopped' \subseteq Sends
    BY <1>37 DEF AnswerFails, TypeOK, CallTypes
  <2>. QED
    BY <1>37, <2>1, <2>2, AnswerFailsDoes, CallMove DEF EditStages
<1>38. ASSUME NEW k \in Clicks, ClickFails(k) PROVE CallTypes'
  BY <1>38 DEF ClickFails, TypeOK, CallTypes, ClickType, ClickStages, history
<1>39. ASSUME NEW k \in Clicks, CreateFails(k) PROVE CallTypes'
  BY <1>39 DEF CreateFails, TypeOK, CallTypes, ClickType, ClickStages
<1>. QED
  BY <1>1, <1>2, <1>3, <1>4, <1>5, <1>6, <1>7, <1>8, <1>9, <1>10, <1>11, <1>12, <1>13, <1>14, <1>15, <1>16, <1>17, <1>18, <1>19, <1>20, <1>21, <1>22, <1>23, <1>24, <1>25, <1>26, <1>27, <1>28, <1>29, <1>30, <1>31, <1>32, <1>33, <1>34, <1>35, <1>36, <1>37, <1>38, <1>39 DEF Next

---------------------------------------------------------------------------
(* Files and images: their types *)

\* What is left of a function.
LEMMA RestrictProperties ==
    ASSUME NEW S, NEW f, f \in [DOMAIN f -> S], NEW D, D \subseteq DOMAIN f, NEW g, g = Restrict(f, D)
    PROVE  DOMAIN g = D /\ g \in [DOMAIN g -> S] /\ \A d \in D : g[d] = f[d]
  BY DEF Restrict

\* The last message of a text.
LEMMA LastMessage ==
    ASSUME NEW m \in Seq(Msg), m # <<>>
    PROVE  Last(m) \in Msg
<1>1. Len(m) \in Nat /\ Len(m) # 0
  OBVIOUS
<1>. QED
  BY <1>1 DEF Last

\* What is written is a file.
LEMMA FileRecords ==
    ASSUME NEW m \in Seq(Msg), NEW w \in BOOLEAN
    PROVE  [msgs |-> m, whole |-> w] \in File /\ Truncated \in File /\ Whole(m) \in File
  BY NoMessage DEF File, Truncated, Whole

\* A save that fails leaves its file as it is, or not whole, and no other file changes.
LEMMA SaveFailsDoes ==
    ASSUME TypeOK, NEW s \in Sends, send[s].conv \in Convs, SaveFails(s)
    PROVE  /\ DOMAIN files' = DOMAIN files /\ files' \in [DOMAIN files -> File]
           /\ spoilt' \subseteq Convs
           /\ \A d \in Convs : d # send[s].conv =>
                  ((d \in spoilt') <=> (d \in spoilt)) /\ (d \in DOMAIN files => files'[d] = files[d])
           /\ IF send[s].stage \in {"add_write", "answer_write"}
              THEN /\ send[s].conv \in spoilt'
                   /\ files' = files \/ (send[s].conv \in DOMAIN files => ~files'[send[s].conv].whole)
              ELSE UNCHANGED <<files, spoilt>>
<1>. PICK c \in Convs : c = send[s].conv
  OBVIOUS
<1>1. CASE send[s].stage \notin {"add_write", "answer_write"}
  BY <1>1 DEF SaveFails, TypeOK, FileTypes
<1>2. CASE send[s].stage \in {"add_write", "answer_write"}
  <2>1. spoilt' = spoilt \cup {c}
    BY <1>2 DEF SaveFails
  <2>2. CASE files' = files
    BY <1>2, <2>1, <2>2 DEF TypeOK, FileTypes
  <2>3. CASE files' = [files EXCEPT ![c] = [msgs |-> send[s].copy, whole |-> FALSE]]
    <3>1. [msgs |-> send[s].copy, whole |-> FALSE] \in File
      BY SendFields, FileRecords DEF TypeOK
    <3>2. files \in [DOMAIN files -> File]
      BY DEF TypeOK, FileTypes
    <3>3. DOMAIN files' = DOMAIN files /\ files' \in [DOMAIN files -> File]
      BY <2>3, <3>1, <3>2
    <3>4. c \in DOMAIN files => ~files'[c].whole
      BY <2>3
    <3>5. \A d \in Convs \ {c} : d \in DOMAIN files => files'[d] = files[d]
      BY <2>3
    <3>. QED
      BY <1>2, <2>1, <3>3, <3>4, <3>5 DEF TypeOK, FileTypes
  <2>. QED
    BY <1>2, <2>2, <2>3 DEF SaveFails
<1>. QED
  BY <1>1, <1>2

\* Files hold messages.
LEMMA StepFileTypes ==
    ASSUME TypeOK, Next
    PROVE  FileTypes'
<1>1. ASSUME NEW s \in Sends, Send(s) PROVE FileTypes'
  BY <1>1 DEF Send, TypeOK, FileTypes, history
<1>2. ASSUME NEW s \in Sends, AddLoad(s) PROVE FileTypes'
  <2>1. send[s].conv \in Convs
    BY <1>2, CallConv DEF AddLoad, TypeOK
  <2>. QED
    BY <1>2, <2>1 DEF AddLoad, Overlap, TypeOK, FileTypes
<1>3. ASSUME NEW s \in Sends, Truncate(s) PROVE FileTypes'
  <2>1. send[s].conv \in Convs
    BY <1>3, CallConv DEF Truncate, TypeOK
  <2>2. files' = Put(files, send[s].conv, Truncated)
    BY <1>3 DEF Truncate
  <2>3. DOMAIN files' \subseteq Convs /\ files' \in [DOMAIN files' -> File]
    <3>1. files \in [DOMAIN files -> File] /\ Truncated \in File
      BY FileRecords, NoMessage DEF TypeOK, FileTypes
    <3>2. DOMAIN files' = DOMAIN files \cup {send[s].conv} /\ files' \in [DOMAIN files' -> File]
      BY <2>2, <3>1 DEF Put
    <3>. QED
      BY <2>1, <3>2 DEF TypeOK, FileTypes
  <2>. QED
    BY <1>3, <2>3 DEF Truncate, TypeOK, FileTypes, history
<1>4. ASSUME NEW s \in Sends, Write(s) PROVE FileTypes'
  <2>1. send[s].conv \in Convs /\ send[s].copy \in Seq(Msg) /\ send[s].copy # <<>>
    BY <1>4, SendFields DEF Write, TypeOK, CallTypes, EditStages
  <2>2. saved' = [saved EXCEPT ![send[s].conv] = Append(@, Last(send[s].copy))]
    BY <1>4 DEF Write
  <2>3. saved' \in [Convs -> Seq(Msg)]
    BY <2>1, <2>2, LastMessage DEF TypeOK, FileTypes
  <2>4. DOMAIN files' = DOMAIN files /\ files' \in [DOMAIN files -> File]
    <3>1. CASE send[s].linked
      <4>1. PICK w \in BOOLEAN : files' = [files EXCEPT ![send[s].conv] = [msgs |-> send[s].copy, whole |-> w]]
        BY <1>4, <3>1 DEF Write
      <4>2. [msgs |-> send[s].copy, whole |-> w] \in File
        BY <2>1, FileRecords
      <4>. QED
        BY <4>1, <4>2 DEF TypeOK, FileTypes
    <3>2. CASE ~send[s].linked
      BY <1>4, <3>2 DEF Write, TypeOK, FileTypes
    <3>. QED
      BY <3>1, <3>2
  <2>. QED
    BY <1>4, <2>3, <2>4 DEF Write, TypeOK, FileTypes
<1>5. ASSUME NEW s \in Sends, AddReply(s) PROVE FileTypes'
  BY <1>5 DEF AddReply, TypeOK, FileTypes, history
<1>6. ASSUME NEW s \in Sends, Generate(s) PROVE FileTypes'
  BY <1>6 DEF Generate, TypeOK, FileTypes, history
<1>7. ASSUME NEW s \in Sends, Enter(s) PROVE FileTypes'
  BY <1>7 DEF Enter, TypeOK, FileTypes, history
<1>8. ASSUME NEW s \in Sends, LoadPrompt(s) PROVE FileTypes'
  BY <1>8 DEF LoadPrompt, TypeOK, FileTypes, history
<1>9. ASSUME NEW s \in Sends, Fail(s) PROVE FileTypes'
  BY <1>9 DEF Fail, TypeOK, FileTypes, history
<1>10. ASSUME NEW s \in Sends, Panic(s) PROVE FileTypes'
  BY <1>10 DEF Panic, TypeOK, FileTypes, history
<1>11. ASSUME NEW s \in Sends, Prefill(s) PROVE FileTypes'
  BY <1>11 DEF Prefill, TypeOK, FileTypes, history
<1>12. ASSUME NEW s \in Sends, DecodeEnds(s) PROVE FileTypes'
  BY <1>12 DEF DecodeEnds, TypeOK, FileTypes, history
<1>13. ASSUME NEW s \in Sends, Cancelled(s) PROVE FileTypes'
  BY <1>13 DEF Cancelled, TypeOK, FileTypes, history
<1>14. ASSUME NEW s \in Sends, AnswerLoad(s) PROVE FileTypes'
  <2>1. send[s].conv \in Convs
    BY <1>14, CallConv DEF AnswerLoad, TypeOK
  <2>. QED
    BY <1>14, <2>1 DEF AnswerLoad, Overlap, TypeOK, FileTypes
<1>15. ASSUME NEW s \in Sends, Leave(s) PROVE FileTypes'
  BY <1>15 DEF Leave, TypeOK, FileTypes, history
<1>16. ASSUME NEW s \in Sends, Reload(s) PROVE FileTypes'
  BY <1>16 DEF Reload, TypeOK, FileTypes, history
<1>17. ASSUME NEW s \in Sends, Reloaded(s) PROVE FileTypes'
  BY <1>17 DEF Reloaded, TypeOK, FileTypes, history
<1>18. ASSUME NEW s \in Sends, End(s) PROVE FileTypes'
  BY <1>18 DEF End, TypeOK, FileTypes, history
<1>19. ASSUME Stop PROVE FileTypes'
  BY <1>19 DEF Stop, TypeOK, FileTypes, history
<1>20. ASSUME CancelGeneration PROVE FileTypes'
  BY <1>20 DEF CancelGeneration, TypeOK, FileTypes, history
<1>21. ASSUME NEW k \in Clicks, NEW c \in Convs, Click(k, c) PROVE FileTypes'
  BY <1>21 DEF Click, TypeOK, FileTypes, history
<1>22. ASSUME NEW k \in Clicks, Selected(k) PROVE FileTypes'
  BY <1>22 DEF Selected, TypeOK, FileTypes, history
<1>23. ASSUME NEW k \in Clicks, Delete(k) PROVE FileTypes'
  <2>1. click[k].conv \in Convs
    BY <1>23 DEF Delete, TypeOK, CallTypes
  <2>2. DOMAIN files' \subseteq Convs /\ files' \in [DOMAIN files' -> File]
    <3>1. files \in [DOMAIN files -> File] /\ DOMAIN files \ {click[k].conv} \subseteq DOMAIN files
      BY DEF TypeOK, FileTypes
    <3>2. files' = Restrict(files, DOMAIN files \ {click[k].conv})
      BY <1>23 DEF Delete
    <3>3. DOMAIN files' = DOMAIN files \ {click[k].conv} /\ files' \in [DOMAIN files' -> File]
      BY <3>1, <3>2, RestrictProperties
    <3>. QED
      BY <3>3 DEF TypeOK, FileTypes
  <2>. QED
    BY <1>23, <2>1, <2>2 DEF Delete, Overlap, TypeOK, FileTypes
<1>24. ASSUME NEW k \in Clicks, DeleteReply(k) PROVE FileTypes'
  BY <1>24 DEF DeleteReply, TypeOK, FileTypes, history
<1>25. ASSUME NEW k \in Clicks, Create(k) PROVE FileTypes'
  <2>1. click[k].conv \in Convs
    BY <1>25 DEF Create, TypeOK, CallTypes
  <2>2. DOMAIN files' \subseteq Convs /\ files' \in [DOMAIN files' -> File]
    <3>1. files \in [DOMAIN files -> File] /\ Whole(<<>>) \in File
      BY FileRecords, NoMessage DEF TypeOK, FileTypes
    <3>2. files' = Put(files, click[k].conv, Whole(<<>>))
      BY <1>25 DEF Create
    <3>3. DOMAIN files' = DOMAIN files \cup {click[k].conv} /\ files' \in [DOMAIN files' -> File]
      BY <3>1, <3>2 DEF Put
    <3>. QED
      BY <2>1, <3>3 DEF TypeOK, FileTypes
  <2>. QED
    BY <1>25, <2>2 DEF Create, TypeOK, FileTypes, history
<1>26. ASSUME NEW k \in Clicks, CreateReply(k) PROVE FileTypes'
  BY <1>26 DEF CreateReply, TypeOK, FileTypes, history
<1>27. ASSUME NEW i \in Images, AddImage(i) PROVE FileTypes'
  BY <1>27 DEF AddImage, TypeOK, FileTypes, history
<1>28. ASSUME NEW i \in Images, Check(i) PROVE FileTypes'
  BY <1>28 DEF Check, TypeOK, FileTypes, history
<1>29. ASSUME NEW i \in Images, EncodeFails(i) PROVE FileTypes'
  BY <1>29 DEF EncodeFails, TypeOK, FileTypes, history
<1>30. ASSUME NEW i \in Images, Store(i) PROVE FileTypes'
  BY <1>30 DEF Store, TypeOK, FileTypes, history
<1>31. ASSUME NEW i \in Images, Encoded(i) PROVE FileTypes'
  BY <1>31 DEF Encoded, TypeOK, FileTypes, history
<1>32. ASSUME NEW i \in Images, RemoveImage(i) PROVE FileTypes'
  BY <1>32 DEF RemoveImage, TypeOK, FileTypes, history
<1>33. ASSUME NEW i \in Images, CancelVision(i) PROVE FileTypes'
  BY <1>33 DEF CancelVision, TypeOK, FileTypes, history
<1>34. ASSUME NEW i \in Images, DropEmbedding(i) PROVE FileTypes'
  BY <1>34 DEF DropEmbedding, TypeOK, FileTypes, history
<1>35. ASSUME NEW i \in Images, RemoveReply(i) PROVE FileTypes'
  BY <1>35 DEF RemoveReply, TypeOK, FileTypes, history
<1>36. ASSUME NEW s \in Sends, AddFails(s) PROVE FileTypes'
  <2>1. send[s].conv \in Convs
    BY <1>36, CallConv DEF AddFails, TypeOK
  <2>. QED
    BY <1>36, <2>1, SaveFailsDoes DEF AddFails, TypeOK, FileTypes
<1>37. ASSUME NEW s \in Sends, AnswerFails(s) PROVE FileTypes'
  <2>1. send[s].conv \in Convs
    BY <1>37, CallConv DEF AnswerFails, TypeOK
  <2>. QED
    BY <1>37, <2>1, SaveFailsDoes DEF AnswerFails, TypeOK, FileTypes
<1>38. ASSUME NEW k \in Clicks, ClickFails(k) PROVE FileTypes'
  BY <1>38 DEF ClickFails, TypeOK, FileTypes, history
<1>39. ASSUME NEW k \in Clicks, CreateFails(k) PROVE FileTypes'
  <2>1. click[k].conv \in Convs
    BY <1>39 DEF CreateFails, TypeOK, CallTypes
  <2>2. CASE UNCHANGED <<files, spoilt>>
    BY <1>39, <2>2 DEF CreateFails, TypeOK, FileTypes
  <2>3. CASE files' = Put(files, click[k].conv, Truncated) /\ spoilt' = spoilt \cup {click[k].conv}
    <3>1. files \in [DOMAIN files -> File] /\ Truncated \in File
      BY FileRecords, NoMessage DEF TypeOK, FileTypes
    <3>2. DOMAIN files' = DOMAIN files \cup {click[k].conv} /\ files' \in [DOMAIN files' -> File]
      BY <2>3, <3>1 DEF Put
    <3>. QED
      BY <1>39, <2>1, <2>3, <3>2 DEF CreateFails, TypeOK, FileTypes
  <2>. QED
    BY <1>39, <2>2, <2>3 DEF CreateFails
<1>. QED
  BY <1>1, <1>2, <1>3, <1>4, <1>5, <1>6, <1>7, <1>8, <1>9, <1>10, <1>11, <1>12, <1>13, <1>14, <1>15, <1>16, <1>17, <1>18, <1>19, <1>20, <1>21, <1>22, <1>23, <1>24, <1>25, <1>26, <1>27, <1>28, <1>29, <1>30, <1>31, <1>32, <1>33, <1>34, <1>35, <1>36, <1>37, <1>38, <1>39 DEF Next

\* The end of a call of sendMessage, as far as its images go.
LEMMA FinallyImages ==
    ASSUME ImageTypes, NEW s \in Sends, Finally(s)
    PROVE  /\ DOMAIN pending' \subseteq Images
           /\ pending' \in [DOMAIN pending' -> ImageStatus]
           /\ remove' \in [Images -> RemoveStages]
           /\ \A i \in Images : remove[i] # "new" => remove'[i] # "new"
           /\ send[s].images # {} => DOMAIN pending' = {}
           /\ send[s].images = {} => pending' = pending
<1>1. CASE send[s].images = {}
  BY <1>1 DEF Finally, ImageTypes
<1>2. CASE send[s].images # {}
  <2>1. pending' = Restrict(pending, {})
    BY <1>2 DEF Finally
  <2>2. DOMAIN pending' = {} /\ pending' \in [DOMAIN pending' -> ImageStatus]
    BY <2>1, RestrictProperties DEF ImageTypes
  <2>3. remove' = [i \in Images |-> IF i \in Waiting /\ remove[i] = "new" THEN "cancel" ELSE remove[i]]
    BY <1>2 DEF Finally
  <2>4. remove' \in [Images -> RemoveStages] /\ \A i \in Images : remove[i] # "new" => remove'[i] # "new"
    BY <2>3 DEF ImageTypes, RemoveStages
  <2>. QED
    BY <1>2, <2>2, <2>4
<1>. QED
  BY <1>1, <1>2

\* Images are pending, and have their stages.
LEMMA StepImageTypes ==
    ASSUME TypeOK, Next
    PROVE  ImageTypes'
<1>1. ASSUME NEW s \in Sends, Send(s) PROVE ImageTypes'
  BY <1>1 DEF Send, TypeOK, ImageTypes, state, window
<1>2. ASSUME NEW s \in Sends, AddLoad(s) PROVE ImageTypes'
  BY <1>2 DEF AddLoad, TypeOK, ImageTypes, state, window
<1>3. ASSUME NEW s \in Sends, Truncate(s) PROVE ImageTypes'
  BY <1>3 DEF Truncate, TypeOK, ImageTypes, state, window
<1>4. ASSUME NEW s \in Sends, Write(s) PROVE ImageTypes'
  BY <1>4 DEF Write, TypeOK, ImageTypes, state, window
<1>5. ASSUME NEW s \in Sends, AddReply(s) PROVE ImageTypes'
  BY <1>5 DEF AddReply, TypeOK, ImageTypes, state, window
<1>6. ASSUME NEW s \in Sends, Generate(s) PROVE ImageTypes'
  <2>1. CASE active = None
    BY <1>6, <2>1, FinallyImages DEF Generate, TypeOK, ImageTypes, state
  <2>2. CASE active # None
    BY <1>6, <2>2 DEF Generate, TypeOK, ImageTypes, state
  <2>. QED
    BY <2>1, <2>2
<1>7. ASSUME NEW s \in Sends, Enter(s) PROVE ImageTypes'
  BY <1>7 DEF Enter, TypeOK, ImageTypes, state, window
<1>8. ASSUME NEW s \in Sends, LoadPrompt(s) PROVE ImageTypes'
  BY <1>8 DEF LoadPrompt, TypeOK, ImageTypes, state, window
<1>9. ASSUME NEW s \in Sends, Fail(s) PROVE ImageTypes'
  BY <1>9 DEF Fail, TypeOK, ImageTypes, state, window
<1>10. ASSUME NEW s \in Sends, Panic(s) PROVE ImageTypes'
  BY <1>10 DEF Panic, TypeOK, ImageTypes, state, window
<1>11. ASSUME NEW s \in Sends, Prefill(s) PROVE ImageTypes'
  BY <1>11 DEF Prefill, TypeOK, ImageTypes, state, window
<1>12. ASSUME NEW s \in Sends, DecodeEnds(s) PROVE ImageTypes'
  BY <1>12 DEF DecodeEnds, TypeOK, ImageTypes, state, window
<1>13. ASSUME NEW s \in Sends, Cancelled(s) PROVE ImageTypes'
  BY <1>13 DEF Cancelled, TypeOK, ImageTypes, state, window
<1>14. ASSUME NEW s \in Sends, AnswerLoad(s) PROVE ImageTypes'
  BY <1>14 DEF AnswerLoad, TypeOK, ImageTypes, state, window
<1>15. ASSUME NEW s \in Sends, Leave(s) PROVE ImageTypes'
  BY <1>15 DEF Leave, TypeOK, ImageTypes, state, window
<1>16. ASSUME NEW s \in Sends, Reload(s) PROVE ImageTypes'
  BY <1>16 DEF Reload, TypeOK, ImageTypes, state, window
<1>17. ASSUME NEW s \in Sends, Reloaded(s) PROVE ImageTypes'
  <2>1. CASE ~Loads(send[s].conv)
    BY <1>17, <2>1, FinallyImages DEF Reloaded, TypeOK, ImageTypes, state
  <2>2. CASE Loads(send[s].conv)
    BY <1>17, <2>2 DEF Reloaded, TypeOK, ImageTypes, state
  <2>. QED
    BY <2>1, <2>2
<1>18. ASSUME NEW s \in Sends, End(s) PROVE ImageTypes'
  BY <1>18, FinallyImages DEF End, TypeOK, ImageTypes, state
<1>19. ASSUME Stop PROVE ImageTypes'
  BY <1>19 DEF Stop, TypeOK, ImageTypes, state, window
<1>20. ASSUME CancelGeneration PROVE ImageTypes'
  BY <1>20 DEF CancelGeneration, TypeOK, ImageTypes, state, window
<1>21. ASSUME NEW k \in Clicks, NEW c \in Convs, Click(k, c) PROVE ImageTypes'
  BY <1>21 DEF Click, TypeOK, ImageTypes, state, window
<1>22. ASSUME NEW k \in Clicks, Selected(k) PROVE ImageTypes'
  BY <1>22 DEF Selected, TypeOK, ImageTypes, state, window
<1>23. ASSUME NEW k \in Clicks, Delete(k) PROVE ImageTypes'
  BY <1>23 DEF Delete, TypeOK, ImageTypes, state, window
<1>24. ASSUME NEW k \in Clicks, DeleteReply(k) PROVE ImageTypes'
  BY <1>24 DEF DeleteReply, TypeOK, ImageTypes, state, window
<1>25. ASSUME NEW k \in Clicks, Create(k) PROVE ImageTypes'
  BY <1>25 DEF Create, TypeOK, ImageTypes, state, window
<1>26. ASSUME NEW k \in Clicks, CreateReply(k) PROVE ImageTypes'
  BY <1>26 DEF CreateReply, TypeOK, ImageTypes, state, window
<1>27. ASSUME NEW i \in Images, AddImage(i) PROVE ImageTypes'
  <2>1. pending' = Put(pending, i, "encoding")
    BY <1>27 DEF AddImage
  <2>2. DOMAIN pending' \subseteq Images /\ pending' \in [DOMAIN pending' -> ImageStatus]
    <3>1. pending \in [DOMAIN pending -> ImageStatus] /\ "encoding" \in ImageStatus
      BY DEF TypeOK, ImageTypes, ImageStatus
    <3>2. DOMAIN pending' = DOMAIN pending \cup {i} /\ pending' \in [DOMAIN pending' -> ImageStatus]
      BY <2>1, <3>1 DEF Put
    <3>. QED
      BY <3>2 DEF TypeOK, ImageTypes
  <2>. QED
    BY <1>27, <2>2 DEF AddImage, TypeOK, ImageTypes, EncodeStages, state
<1>28. ASSUME NEW i \in Images, Check(i) PROVE ImageTypes'
  BY <1>28 DEF Check, TypeOK, ImageTypes, state, window, ImageStatus, Status, EncodeStages, RemoveStages
<1>29. ASSUME NEW i \in Images, EncodeFails(i) PROVE ImageTypes'
  BY <1>29 DEF EncodeFails, TypeOK, ImageTypes, state, window, ImageStatus, Status, EncodeStages, RemoveStages
<1>30. ASSUME NEW i \in Images, Store(i) PROVE ImageTypes'
  BY <1>30 DEF Store, TypeOK, ImageTypes, state, window, ImageStatus, Status, EncodeStages, RemoveStages
<1>31. ASSUME NEW i \in Images, Encoded(i) PROVE ImageTypes'
  BY <1>31 DEF Encoded, TypeOK, ImageTypes, state, window, ImageStatus, Status, EncodeStages, RemoveStages
<1>32. ASSUME NEW i \in Images, RemoveImage(i) PROVE ImageTypes'
  BY <1>32 DEF RemoveImage, TypeOK, ImageTypes, state, window, ImageStatus, Status, EncodeStages, RemoveStages
<1>33. ASSUME NEW i \in Images, CancelVision(i) PROVE ImageTypes'
  BY <1>33 DEF CancelVision, TypeOK, ImageTypes, state, window, ImageStatus, Status, EncodeStages, RemoveStages
<1>34. ASSUME NEW i \in Images, DropEmbedding(i) PROVE ImageTypes'
  BY <1>34 DEF DropEmbedding, TypeOK, ImageTypes, state, window, ImageStatus, Status, EncodeStages, RemoveStages
<1>35. ASSUME NEW i \in Images, RemoveReply(i) PROVE ImageTypes'
  <2>1. DOMAIN pending' \subseteq Images /\ pending' \in [DOMAIN pending' -> ImageStatus]
    <3>1. /\ pending \in [DOMAIN pending -> ImageStatus]
          /\ DOMAIN pending \ {i} \subseteq DOMAIN pending
      BY DEF TypeOK, ImageTypes
    <3>2. pending' = Restrict(pending, DOMAIN pending \ {i})
      BY <1>35 DEF RemoveReply
    <3>3. DOMAIN pending' = DOMAIN pending \ {i} /\ pending' \in [DOMAIN pending' -> ImageStatus]
      BY <3>1, <3>2, RestrictProperties
    <3>. QED
      BY <3>3 DEF TypeOK, ImageTypes
  <2>. QED
    BY <1>35, <2>1 DEF RemoveReply, TypeOK, ImageTypes, RemoveStages, state
<1>36. ASSUME NEW s \in Sends, AddFails(s) PROVE ImageTypes'
  BY <1>36 DEF AddFails, TypeOK, ImageTypes, state, window
<1>37. ASSUME NEW s \in Sends, AnswerFails(s) PROVE ImageTypes'
  BY <1>37 DEF AnswerFails, TypeOK, ImageTypes, state, window
<1>38. ASSUME NEW k \in Clicks, ClickFails(k) PROVE ImageTypes'
  BY <1>38 DEF ClickFails, TypeOK, ImageTypes, state, window
<1>39. ASSUME NEW k \in Clicks, CreateFails(k) PROVE ImageTypes'
  BY <1>39 DEF CreateFails, TypeOK, ImageTypes, state, window
<1>. QED
  BY <1>1, <1>2, <1>3, <1>4, <1>5, <1>6, <1>7, <1>8, <1>9, <1>10, <1>11, <1>12, <1>13, <1>14, <1>15, <1>16, <1>17, <1>18, <1>19, <1>20, <1>21, <1>22, <1>23, <1>24, <1>25, <1>26, <1>27, <1>28, <1>29, <1>30, <1>31, <1>32, <1>33, <1>34, <1>35, <1>36, <1>37, <1>38, <1>39 DEF Next

\* Every step keeps the types.
LEMMA StepTypes ==
    ASSUME TypeOK, Next
    PROVE  /\ generating' \in BOOLEAN /\ cancel_flag' \in BOOLEAN
           /\ busy' \in BOOLEAN /\ stopping' \in BOOLEAN
           /\ active' \in Convs \cup {None}
<1>1. ASSUME NEW s \in Sends, Send(s) PROVE /\ generating' \in BOOLEAN /\ cancel_flag' \in BOOLEAN
           /\ busy' \in BOOLEAN /\ stopping' \in BOOLEAN
           /\ active' \in Convs \cup {None}
  BY <1>1 DEF Send, TypeOK, state, window, window
<1>2. ASSUME NEW s \in Sends, AddLoad(s) PROVE /\ generating' \in BOOLEAN /\ cancel_flag' \in BOOLEAN
           /\ busy' \in BOOLEAN /\ stopping' \in BOOLEAN
           /\ active' \in Convs \cup {None}
  BY <1>2 DEF AddLoad, TypeOK, state, window
<1>3. ASSUME NEW s \in Sends, Truncate(s) PROVE /\ generating' \in BOOLEAN /\ cancel_flag' \in BOOLEAN
           /\ busy' \in BOOLEAN /\ stopping' \in BOOLEAN
           /\ active' \in Convs \cup {None}
  BY <1>3 DEF Truncate, TypeOK, state, window
<1>4. ASSUME NEW s \in Sends, Write(s) PROVE /\ generating' \in BOOLEAN /\ cancel_flag' \in BOOLEAN
           /\ busy' \in BOOLEAN /\ stopping' \in BOOLEAN
           /\ active' \in Convs \cup {None}
  BY <1>4 DEF Write, TypeOK, state, window
<1>5. ASSUME NEW s \in Sends, AddReply(s) PROVE /\ generating' \in BOOLEAN /\ cancel_flag' \in BOOLEAN
           /\ busy' \in BOOLEAN /\ stopping' \in BOOLEAN
           /\ active' \in Convs \cup {None}
  BY <1>5 DEF AddReply, TypeOK, state, window
<1>6. ASSUME NEW s \in Sends, Generate(s) PROVE /\ generating' \in BOOLEAN /\ cancel_flag' \in BOOLEAN
           /\ busy' \in BOOLEAN /\ stopping' \in BOOLEAN
           /\ active' \in Convs \cup {None}
  BY <1>6 DEF Generate, TypeOK, state, window, Finally
<1>7. ASSUME NEW s \in Sends, Enter(s) PROVE /\ generating' \in BOOLEAN /\ cancel_flag' \in BOOLEAN
           /\ busy' \in BOOLEAN /\ stopping' \in BOOLEAN
           /\ active' \in Convs \cup {None}
  BY <1>7 DEF Enter, TypeOK, state, window
<1>8. ASSUME NEW s \in Sends, LoadPrompt(s) PROVE /\ generating' \in BOOLEAN /\ cancel_flag' \in BOOLEAN
           /\ busy' \in BOOLEAN /\ stopping' \in BOOLEAN
           /\ active' \in Convs \cup {None}
  BY <1>8, CallConv DEF LoadPrompt, TypeOK, state, window, Loads, FileTypes, File
<1>9. ASSUME NEW s \in Sends, Fail(s) PROVE /\ generating' \in BOOLEAN /\ cancel_flag' \in BOOLEAN
           /\ busy' \in BOOLEAN /\ stopping' \in BOOLEAN
           /\ active' \in Convs \cup {None}
  BY <1>9 DEF Fail, TypeOK, state, window
<1>10. ASSUME NEW s \in Sends, Panic(s) PROVE /\ generating' \in BOOLEAN /\ cancel_flag' \in BOOLEAN
           /\ busy' \in BOOLEAN /\ stopping' \in BOOLEAN
           /\ active' \in Convs \cup {None}
  BY <1>10 DEF Panic, TypeOK, state, window
<1>11. ASSUME NEW s \in Sends, Prefill(s) PROVE /\ generating' \in BOOLEAN /\ cancel_flag' \in BOOLEAN
           /\ busy' \in BOOLEAN /\ stopping' \in BOOLEAN
           /\ active' \in Convs \cup {None}
  BY <1>11 DEF Prefill, TypeOK, state, window
<1>12. ASSUME NEW s \in Sends, DecodeEnds(s) PROVE /\ generating' \in BOOLEAN /\ cancel_flag' \in BOOLEAN
           /\ busy' \in BOOLEAN /\ stopping' \in BOOLEAN
           /\ active' \in Convs \cup {None}
  BY <1>12 DEF DecodeEnds, TypeOK, state, window
<1>13. ASSUME NEW s \in Sends, Cancelled(s) PROVE /\ generating' \in BOOLEAN /\ cancel_flag' \in BOOLEAN
           /\ busy' \in BOOLEAN /\ stopping' \in BOOLEAN
           /\ active' \in Convs \cup {None}
  BY <1>13 DEF Cancelled, TypeOK, state, window
<1>14. ASSUME NEW s \in Sends, AnswerLoad(s) PROVE /\ generating' \in BOOLEAN /\ cancel_flag' \in BOOLEAN
           /\ busy' \in BOOLEAN /\ stopping' \in BOOLEAN
           /\ active' \in Convs \cup {None}
  BY <1>14 DEF AnswerLoad, TypeOK, state, window
<1>15. ASSUME NEW s \in Sends, Leave(s) PROVE /\ generating' \in BOOLEAN /\ cancel_flag' \in BOOLEAN
           /\ busy' \in BOOLEAN /\ stopping' \in BOOLEAN
           /\ active' \in Convs \cup {None}
  BY <1>15 DEF Leave, TypeOK, state, window
<1>16. ASSUME NEW s \in Sends, Reload(s) PROVE /\ generating' \in BOOLEAN /\ cancel_flag' \in BOOLEAN
           /\ busy' \in BOOLEAN /\ stopping' \in BOOLEAN
           /\ active' \in Convs \cup {None}
  BY <1>16 DEF Reload, TypeOK, state, window
<1>17. ASSUME NEW s \in Sends, Reloaded(s) PROVE /\ generating' \in BOOLEAN /\ cancel_flag' \in BOOLEAN
           /\ busy' \in BOOLEAN /\ stopping' \in BOOLEAN
           /\ active' \in Convs \cup {None}
  BY <1>17, CallConv DEF Reloaded, TypeOK, state, window, Finally
<1>18. ASSUME NEW s \in Sends, End(s) PROVE /\ generating' \in BOOLEAN /\ cancel_flag' \in BOOLEAN
           /\ busy' \in BOOLEAN /\ stopping' \in BOOLEAN
           /\ active' \in Convs \cup {None}
  BY <1>18 DEF End, TypeOK, state, window, Finally
<1>19. ASSUME Stop PROVE /\ generating' \in BOOLEAN /\ cancel_flag' \in BOOLEAN
           /\ busy' \in BOOLEAN /\ stopping' \in BOOLEAN
           /\ active' \in Convs \cup {None}
  BY <1>19 DEF Stop, TypeOK, state, window
<1>20. ASSUME CancelGeneration PROVE /\ generating' \in BOOLEAN /\ cancel_flag' \in BOOLEAN
           /\ busy' \in BOOLEAN /\ stopping' \in BOOLEAN
           /\ active' \in Convs \cup {None}
  BY <1>20 DEF CancelGeneration, TypeOK, state, window
<1>21. ASSUME NEW k \in Clicks, NEW c \in Convs, Click(k, c) PROVE /\ generating' \in BOOLEAN /\ cancel_flag' \in BOOLEAN
           /\ busy' \in BOOLEAN /\ stopping' \in BOOLEAN
           /\ active' \in Convs \cup {None}
  BY <1>21 DEF Click, TypeOK, state, window
<1>22. ASSUME NEW k \in Clicks, Selected(k) PROVE /\ generating' \in BOOLEAN /\ cancel_flag' \in BOOLEAN
           /\ busy' \in BOOLEAN /\ stopping' \in BOOLEAN
           /\ active' \in Convs \cup {None}
  BY <1>22 DEF Selected, TypeOK, state, window, CallTypes
<1>23. ASSUME NEW k \in Clicks, Delete(k) PROVE /\ generating' \in BOOLEAN /\ cancel_flag' \in BOOLEAN
           /\ busy' \in BOOLEAN /\ stopping' \in BOOLEAN
           /\ active' \in Convs \cup {None}
  BY <1>23 DEF Delete, TypeOK, state, window
<1>24. ASSUME NEW k \in Clicks, DeleteReply(k) PROVE /\ generating' \in BOOLEAN /\ cancel_flag' \in BOOLEAN
           /\ busy' \in BOOLEAN /\ stopping' \in BOOLEAN
           /\ active' \in Convs \cup {None}
  BY <1>24 DEF DeleteReply, TypeOK, state, window
<1>25. ASSUME NEW k \in Clicks, Create(k) PROVE /\ generating' \in BOOLEAN /\ cancel_flag' \in BOOLEAN
           /\ busy' \in BOOLEAN /\ stopping' \in BOOLEAN
           /\ active' \in Convs \cup {None}
  BY <1>25 DEF Create, TypeOK, state, window
<1>26. ASSUME NEW k \in Clicks, CreateReply(k) PROVE /\ generating' \in BOOLEAN /\ cancel_flag' \in BOOLEAN
           /\ busy' \in BOOLEAN /\ stopping' \in BOOLEAN
           /\ active' \in Convs \cup {None}
  BY <1>26 DEF CreateReply, TypeOK, state, window, CallTypes
<1>27. ASSUME NEW i \in Images, AddImage(i) PROVE /\ generating' \in BOOLEAN /\ cancel_flag' \in BOOLEAN
           /\ busy' \in BOOLEAN /\ stopping' \in BOOLEAN
           /\ active' \in Convs \cup {None}
  BY <1>27 DEF AddImage, TypeOK, state, window
<1>28. ASSUME NEW i \in Images, Check(i) PROVE /\ generating' \in BOOLEAN /\ cancel_flag' \in BOOLEAN
           /\ busy' \in BOOLEAN /\ stopping' \in BOOLEAN
           /\ active' \in Convs \cup {None}
  BY <1>28 DEF Check, TypeOK, state, window
<1>29. ASSUME NEW i \in Images, EncodeFails(i) PROVE /\ generating' \in BOOLEAN /\ cancel_flag' \in BOOLEAN
           /\ busy' \in BOOLEAN /\ stopping' \in BOOLEAN
           /\ active' \in Convs \cup {None}
  BY <1>29 DEF EncodeFails, TypeOK, state, window
<1>30. ASSUME NEW i \in Images, Store(i) PROVE /\ generating' \in BOOLEAN /\ cancel_flag' \in BOOLEAN
           /\ busy' \in BOOLEAN /\ stopping' \in BOOLEAN
           /\ active' \in Convs \cup {None}
  BY <1>30 DEF Store, TypeOK, state, window
<1>31. ASSUME NEW i \in Images, Encoded(i) PROVE /\ generating' \in BOOLEAN /\ cancel_flag' \in BOOLEAN
           /\ busy' \in BOOLEAN /\ stopping' \in BOOLEAN
           /\ active' \in Convs \cup {None}
  BY <1>31 DEF Encoded, TypeOK, state, window
<1>32. ASSUME NEW i \in Images, RemoveImage(i) PROVE /\ generating' \in BOOLEAN /\ cancel_flag' \in BOOLEAN
           /\ busy' \in BOOLEAN /\ stopping' \in BOOLEAN
           /\ active' \in Convs \cup {None}
  BY <1>32 DEF RemoveImage, TypeOK, state, window
<1>33. ASSUME NEW i \in Images, CancelVision(i) PROVE /\ generating' \in BOOLEAN /\ cancel_flag' \in BOOLEAN
           /\ busy' \in BOOLEAN /\ stopping' \in BOOLEAN
           /\ active' \in Convs \cup {None}
  BY <1>33 DEF CancelVision, TypeOK, state, window
<1>34. ASSUME NEW i \in Images, DropEmbedding(i) PROVE /\ generating' \in BOOLEAN /\ cancel_flag' \in BOOLEAN
           /\ busy' \in BOOLEAN /\ stopping' \in BOOLEAN
           /\ active' \in Convs \cup {None}
  BY <1>34 DEF DropEmbedding, TypeOK, state, window
<1>35. ASSUME NEW i \in Images, RemoveReply(i) PROVE /\ generating' \in BOOLEAN /\ cancel_flag' \in BOOLEAN
           /\ busy' \in BOOLEAN /\ stopping' \in BOOLEAN
           /\ active' \in Convs \cup {None}
  BY <1>35 DEF RemoveReply, TypeOK, state, window
<1>36. ASSUME NEW s \in Sends, AddFails(s) PROVE /\ generating' \in BOOLEAN /\ cancel_flag' \in BOOLEAN
           /\ busy' \in BOOLEAN /\ stopping' \in BOOLEAN
           /\ active' \in Convs \cup {None}
  BY <1>36 DEF AddFails, TypeOK, state, window
<1>37. ASSUME NEW s \in Sends, AnswerFails(s) PROVE /\ generating' \in BOOLEAN /\ cancel_flag' \in BOOLEAN
           /\ busy' \in BOOLEAN /\ stopping' \in BOOLEAN
           /\ active' \in Convs \cup {None}
  BY <1>37 DEF AnswerFails, TypeOK, state, window
<1>38. ASSUME NEW k \in Clicks, ClickFails(k) PROVE /\ generating' \in BOOLEAN /\ cancel_flag' \in BOOLEAN
           /\ busy' \in BOOLEAN /\ stopping' \in BOOLEAN
           /\ active' \in Convs \cup {None}
  BY <1>38 DEF ClickFails, TypeOK, state, window
<1>39. ASSUME NEW k \in Clicks, CreateFails(k) PROVE /\ generating' \in BOOLEAN /\ cancel_flag' \in BOOLEAN
           /\ busy' \in BOOLEAN /\ stopping' \in BOOLEAN
           /\ active' \in Convs \cup {None}
  BY <1>39 DEF CreateFails, TypeOK, state, window
<1>. QED
  BY <1>1, <1>2, <1>3, <1>4, <1>5, <1>6, <1>7, <1>8, <1>9, <1>10, <1>11, <1>12, <1>13, <1>14, <1>15, <1>16, <1>17, <1>18, <1>19, <1>20, <1>21, <1>22, <1>23, <1>24, <1>25, <1>26, <1>27, <1>28, <1>29, <1>30, <1>31, <1>32, <1>33, <1>34, <1>35, <1>36, <1>37, <1>38, <1>39 DEF Next

---------------------------------------------------------------------------
(* The generation and its flags *)

InGeneration(x) == x \in RunStages \/ x = "stuck"

\* The calls that are generating, when one call takes a step.
LEMMA GenerationsMove ==
    ASSUME NEW s \in Sends, NEW x, NEW c, NEW I, NEW m, NEW l, Sets(s, x, c, I, m, l)
    PROVE  /\ InGeneration(x) => Generations' = Generations \cup {s}
           /\ ~InGeneration(x) => Generations' = Generations \ {s}
           /\ InGeneration(send[s].stage) <=> s \in Generations
           /\ \A y \in Sends \ {s} : Running(y)' <=> Running(y)
           /\ Running(s)' <=> x \in RunStages
  BY DEF Sets, Generations, InGeneration, Running, RunStages

\* A step within a generation, or outside, leaves the flags what they are.
LEMMA FlagsKept ==
    ASSUME Flags, NEW s \in Sends, NEW x, NEW c, NEW I, NEW m, NEW l, Sets(s, x, c, I, m, l),
           InGeneration(x) <=> InGeneration(send[s].stage),
           x \in RunStages => Running(s),
           send[s].stage \in WaitStages => x \in WaitStages,
           generating' = generating, cancel_flag' = cancel_flag, busy' = busy,
           asked' = asked, stopped' \subseteq asked
    PROVE  Flags'
<1>1. Generations' = Generations
  BY GenerationsMove
<1>2. \A y \in Sends : Running(y)' => Running(y)
  BY GenerationsMove
<1>3. busy' => \E y \in Sends : send'[y].stage \in WaitStages
  BY DEF Flags, Sets
<1>. QED
  BY <1>1, <1>2, <1>3 DEF Flags

\* The end of a call, outside any generation: the window does not wait.
LEMMA FlagsEnded ==
    ASSUME Flags, NEW s \in Sends, Ends(s), ~InGeneration(send[s].stage),
           generating' = generating, cancel_flag' = cancel_flag, busy' = FALSE,
           asked' = asked, stopped' = stopped
    PROVE  Flags'
<1>1. ~InGeneration("ended") /\ "ended" \notin RunStages
  BY DEF InGeneration, RunStages
<1>2. Generations' = Generations /\ \A y \in Sends : Running(y)' => Running(y)
  BY <1>1, GenerationsMove DEF Ends
<1>. QED
  BY <1>2 DEF Flags

\* A generation that ends leaves none.
LEMMA FlagsLeft ==
    ASSUME Flags, NEW s \in Sends, NEW x \in {"failed", "done"}, Goes(s, x), Running(s),
           generating' = FALSE, cancel_flag' = cancel_flag, busy' = busy,
           asked' = asked, stopped' = stopped
    PROVE  Flags'
<1>1. ~InGeneration(x) /\ x \notin RunStages /\ x \in WaitStages
  BY DEF InGeneration, RunStages, WaitStages
<1>2. Generations' = Generations \ {s} /\ s \in Generations
  BY <1>1, GenerationsMove DEF Goes, Generations
<1>3. Generations' = {}
  BY <1>2 DEF Flags
<1>4. \A y \in Sends : Running(y)' => Running(y)
  BY <1>1, GenerationsMove DEF Goes
<1>5. busy' => \E y \in Sends : send'[y].stage \in WaitStages
  BY <1>1 DEF Flags, Sets, Goes
<1>. QED
  BY <1>3, <1>4, <1>5 DEF Flags

\* At most one call generates, and a request to stop is for the one that does.
LEMMA StepFlags ==
    ASSUME TypeOK, Flags, Next
    PROVE  Flags'
<1>1. ASSUME NEW s \in Sends, Send(s) PROVE Flags'
  BY <1>1, SendDoes, FlagsKept, ZenonT(30) DEF Send, InGeneration, Running, RunStages, WaitStages, Goes, Turns, Ends, Adds, Flags, state, window, history
<1>2. ASSUME NEW s \in Sends, AddLoad(s) PROVE Flags'
  <2>1. CASE Adds(s, "user", "add_save")
    BY <1>2, <2>1, FlagsKept DEF AddLoad, InGeneration, Running, RunStages, WaitStages, Adds, Flags, state, window
  <2>2. CASE Ends(s)
    BY <1>2, <2>2, FlagsKept DEF AddLoad, InGeneration, Running, RunStages, WaitStages, Goes, Ends, Flags, state, window
  <2>. QED
    BY <1>2, <2>1, <2>2, AddLoadDoes
<1>3. ASSUME NEW s \in Sends, Truncate(s) PROVE Flags'
  <2>1. CASE send[s].stage = "add_save" /\ Sets(s, "add_write", send[s].conv, send[s].images, send[s].copy, TRUE)
    BY <1>3, <2>1, FlagsKept DEF Truncate, InGeneration, Running, RunStages, WaitStages, Goes, Turns, Ends, Flags, state, window, history
  <2>2. CASE send[s].stage = "answer_save" /\ Sets(s, "answer_write", send[s].conv, send[s].images, send[s].copy, TRUE)
    BY <1>3, <2>2, FlagsKept DEF Truncate, InGeneration, Running, RunStages, WaitStages, Goes, Turns, Ends, Flags, state, window, history
  <2>. QED
    BY <1>3, <2>1, <2>2, TruncateDoes
<1>4. ASSUME NEW s \in Sends, Write(s) PROVE Flags'
  <2>1. CASE send[s].stage = "add_write" /\ Sets(s, "added", send[s].conv, send[s].images, <<>>, send[s].linked)
    BY <1>4, <2>1, FlagsKept DEF Write, InGeneration, Running, RunStages, WaitStages, Goes, Turns, Ends, Flags, state, window, history
  <2>2. CASE send[s].stage = "answer_write" /\ Sets(s, "leave", send[s].conv, send[s].images, <<>>, send[s].linked)
    BY <1>4, <2>2, FlagsKept DEF Write, InGeneration, Running, RunStages, WaitStages, Goes, Turns, Ends, Flags, state, window, history
  <2>. QED
    BY <1>4, <2>1, <2>2, WriteDoes
<1>5. ASSUME NEW s \in Sends, AddReply(s) PROVE Flags'
  <2>1. CASE Ends(s)
    BY <1>5, <2>1, FlagsKept DEF AddReply, InGeneration, Running, RunStages, WaitStages, Goes, Turns, Ends, Flags, state, window, history
  <2>2. CASE Goes(s, "list")
    BY <1>5, <2>2, FlagsKept DEF AddReply, InGeneration, Running, RunStages, WaitStages, Goes, Turns, Ends, Flags, state, window, history
  <2>. QED
    BY <1>5, <2>1, <2>2, AddReplyDoes
<1>6. ASSUME NEW s \in Sends, Generate(s) PROVE Flags'
  <2>1. CASE active = None
    <3>1. Ends(s) /\ busy' = FALSE
      BY <1>6, <2>1, GenerateDoes, DesktopAssumption DEF Generate, Finally
    <3>. QED
      BY <1>6, <3>1, FlagsEnded DEF Generate, InGeneration, RunStages, state, history
  <2>2. CASE active # None
    <3>1. Turns(s, "gen") /\ busy' = TRUE
      BY <1>6, <2>2, GenerateDoes DEF Generate
    <3>2. Generations' = Generations /\ \A y \in Sends : Running(y)' => Running(y)
      BY <1>6, <3>1, GenerationsMove DEF Generate, Turns, InGeneration, RunStages
    <3>3. send'[s].stage \in WaitStages
      BY <3>1 DEF Turns, Sets, WaitStages
    <3>. QED
      BY <1>6, <3>2, <3>3 DEF Generate, Flags, state, history
  <2>. QED
    BY <2>1, <2>2
<1>7. ASSUME NEW s \in Sends, Enter(s) PROVE Flags'
  <2>1. CASE generating
    <3>1. Goes(s, "failed") /\ generating' = generating /\ cancel_flag' = cancel_flag
      BY <1>7, <2>1, EnterDoes DEF Enter, TypeOK
    <3>. QED
      BY <1>7, <3>1, FlagsKept DEF Enter, Goes, InGeneration, Running, RunStages, WaitStages, Flags, window, history
  <2>2. CASE ~generating
    <3>1. Goes(s, "load") /\ generating' /\ ~cancel_flag'
      BY <1>7, <2>2, EnterDoes DEF Enter
    <3>2. Generations' = {} \cup {s}
      BY <2>2, <3>1, GenerationsMove DEF Goes, InGeneration, RunStages, Flags
    <3>3. send'[s].stage \in WaitStages
      BY <3>1 DEF Goes, Sets, RunStages, WaitStages
    <3>. QED
      BY <1>7, <3>1, <3>2, <3>3 DEF Enter, Flags, history
  <2>. QED
    BY <2>1, <2>2
<1>8. ASSUME NEW s \in Sends, LoadPrompt(s) PROVE Flags'
  <2>1. CASE Loads(send[s].conv)
    <3>1. Goes(s, "prefill") /\ generating' = generating
      <4>1. Running(s)
        BY <1>8 DEF LoadPrompt, Running
      <4>2. generating
        BY <4>1 DEF Flags, Generations
      <4>. QED
        BY <1>8, <2>1, <4>2, LoadPromptDoes DEF LoadPrompt, TypeOK
    <3>. QED
      BY <1>8, <3>1, FlagsKept DEF LoadPrompt, Goes, InGeneration, Running, RunStages, WaitStages, Flags, window, history
  <2>2. CASE ~Loads(send[s].conv)
    <3>1. Goes(s, "failed") /\ generating' = FALSE
      BY <1>8, <2>2, LoadPromptDoes DEF LoadPrompt
    <3>. QED
      BY <1>8, <3>1, FlagsLeft DEF LoadPrompt, Running, window, history
  <2>. QED
    BY <2>1, <2>2
<1>9. ASSUME NEW s \in Sends, Fail(s) PROVE Flags'
  BY <1>9, FailDoes, FlagsLeft DEF Fail, Running, window, history
<1>10. ASSUME NEW s \in Sends, Panic(s) PROVE Flags'
  BY <1>10, PanicDoes, FlagsKept DEF Panic, InGeneration, Running, RunStages, WaitStages, Goes, Turns, Ends, Adds, Flags, state, window, history
<1>11. ASSUME NEW s \in Sends, Prefill(s) PROVE Flags'
  <2>1. CASE Goes(s, "decode")
    BY <1>11, <2>1, FlagsKept DEF Prefill, InGeneration, Running, RunStages, WaitStages, Goes, Turns, Ends, Flags, state, window, history
  <2>2. CASE Goes(s, "answer")
    BY <1>11, <2>2, FlagsKept DEF Prefill, InGeneration, Running, RunStages, WaitStages, Goes, Turns, Ends, Flags, state, window, history
  <2>. QED
    BY <1>11, <2>1, <2>2, PrefillDoes
<1>12. ASSUME NEW s \in Sends, DecodeEnds(s) PROVE Flags'
  BY <1>12, DecodeEndsDoes, FlagsKept DEF DecodeEnds, InGeneration, Running, RunStages, WaitStages, Goes, Turns, Ends, Adds, Flags, state, window, history
<1>13. ASSUME NEW s \in Sends, Cancelled(s) PROVE Flags'
  <2>1. stopped' \subseteq asked
    BY <1>13 DEF Cancelled, Flags, Running
  <2>. QED
    BY <1>13, <2>1, CancelledDoes, FlagsKept DEF Cancelled, InGeneration, Running, RunStages, WaitStages, Goes, state, window
<1>14. ASSUME NEW s \in Sends, AnswerLoad(s) PROVE Flags'
  <2>1. CASE Adds(s, "assistant", "answer_save")
    BY <1>14, <2>1, FlagsKept DEF AnswerLoad, InGeneration, Running, RunStages, WaitStages, Adds, Flags, state, window
  <2>2. CASE Goes(s, "leave")
    BY <1>14, <2>2, FlagsKept DEF AnswerLoad, InGeneration, Running, RunStages, WaitStages, Goes, Ends, Flags, state, window
  <2>. QED
    BY <1>14, <2>1, <2>2, AnswerLoadDoes
<1>15. ASSUME NEW s \in Sends, Leave(s) PROVE Flags'
  BY <1>15, LeaveDoes, FlagsLeft DEF Leave, Running, window, history
<1>16. ASSUME NEW s \in Sends, Reload(s) PROVE Flags'
  <2>1. CASE Goes(s, "relist")
    BY <1>16, <2>1, FlagsKept DEF Reload, InGeneration, Running, RunStages, WaitStages, Goes, Turns, Ends, Flags, state, window, history
  <2>2. CASE Turns(s, "reload")
    BY <1>16, <2>2, FlagsKept DEF Reload, InGeneration, Running, RunStages, WaitStages, Goes, Turns, Ends, Flags, state, window, history
  <2>. QED
    BY <1>16, <2>1, <2>2, ReloadDoes
<1>17. ASSUME NEW s \in Sends, Reloaded(s) PROVE Flags'
  <2>1. CASE Loads(send[s].conv)
    BY <1>17, <2>1, ReloadedDoes, FlagsKept DEF Reloaded, Goes, InGeneration, Running, RunStages, WaitStages, Flags, state, history
  <2>2. CASE ~Loads(send[s].conv)
    BY <1>17, <2>2, ReloadedDoes, FlagsEnded DEF Reloaded, Finally, InGeneration, RunStages, state, history
  <2>. QED
    BY <2>1, <2>2
<1>18. ASSUME NEW s \in Sends, End(s) PROVE Flags'
  BY <1>18, EndDoes, FlagsEnded DEF End, Finally, InGeneration, RunStages, state, history
<1>19. ASSUME Stop PROVE Flags'
  BY <1>19 DEF Stop, Flags, Generations, Running, state, window, history
<1>20. ASSUME CancelGeneration PROVE Flags'
  <2>1. Generations' = Generations /\ \A y \in Sends : Running(y)' <=> Running(y)
    BY <1>20 DEF CancelGeneration, Generations, Running
  <2>. QED
    BY <1>20, <2>1 DEF CancelGeneration, Flags, window
<1>21. ASSUME NEW k \in Clicks, NEW c \in Convs, Click(k, c) PROVE Flags'
  BY <1>21 DEF Click, Flags, Generations, Running, state, window, history
<1>22. ASSUME NEW k \in Clicks, Selected(k) PROVE Flags'
  BY <1>22 DEF Selected, Flags, Generations, Running, state, window, history
<1>23. ASSUME NEW k \in Clicks, Delete(k) PROVE Flags'
  <2>1. \A y \in Sends : send'[y].stage = send[y].stage
    BY <1>23, SetDelete DEF TypeOK
  <2>2. Generations' = Generations /\ \A y \in Sends : Running(y)' <=> Running(y)
    BY <2>1 DEF Generations, Running
  <2>. QED
    BY <1>23, <2>1, <2>2 DEF Delete, Flags, state, window
<1>24. ASSUME NEW k \in Clicks, DeleteReply(k) PROVE Flags'
  BY <1>24 DEF DeleteReply, Flags, Generations, Running, state, window, history
<1>25. ASSUME NEW k \in Clicks, Create(k) PROVE Flags'
  BY <1>25 DEF Create, Flags, Generations, Running, state, window, history
<1>26. ASSUME NEW k \in Clicks, CreateReply(k) PROVE Flags'
  BY <1>26 DEF CreateReply, Flags, Generations, Running, state, window, history
<1>27. ASSUME NEW i \in Images, AddImage(i) PROVE Flags'
  BY <1>27 DEF AddImage, Flags, Generations, Running, state, window, history
<1>28. ASSUME NEW i \in Images, Check(i) PROVE Flags'
  BY <1>28 DEF Check, Flags, Generations, Running, state, window, history
<1>29. ASSUME NEW i \in Images, EncodeFails(i) PROVE Flags'
  BY <1>29 DEF EncodeFails, Flags, Generations, Running, state, window, history
<1>30. ASSUME NEW i \in Images, Store(i) PROVE Flags'
  BY <1>30 DEF Store, Flags, Generations, Running, state, window, history
<1>31. ASSUME NEW i \in Images, Encoded(i) PROVE Flags'
  BY <1>31 DEF Encoded, Flags, Generations, Running, state, window, history
<1>32. ASSUME NEW i \in Images, RemoveImage(i) PROVE Flags'
  BY <1>32 DEF RemoveImage, Flags, Generations, Running, state, window, history
<1>33. ASSUME NEW i \in Images, CancelVision(i) PROVE Flags'
  BY <1>33 DEF CancelVision, Flags, Generations, Running, state, window, history
<1>34. ASSUME NEW i \in Images, DropEmbedding(i) PROVE Flags'
  BY <1>34 DEF DropEmbedding, Flags, Generations, Running, state, window, history
<1>35. ASSUME NEW i \in Images, RemoveReply(i) PROVE Flags'
  BY <1>35 DEF RemoveReply, Flags, Generations, Running, state, window, history
<1>36. ASSUME NEW s \in Sends, AddFails(s) PROVE Flags'
  <2>1. Sets(s, "ended", None, {}, <<>>, TRUE)
    BY <1>36, AddFailsDoes DEF Ends
  <2>2. ~InGeneration(send[s].stage) /\ send[s].stage \notin WaitStages
    BY <1>36 DEF AddFails, InGeneration, RunStages, WaitStages
  <2>3. ~InGeneration("ended") /\ "ended" \notin RunStages
    BY DEF InGeneration, RunStages
  <2>4. /\ generating' = generating /\ cancel_flag' = cancel_flag /\ busy' = busy
        /\ asked' = asked /\ stopped' \subseteq asked
    BY <1>36 DEF AddFails, Flags, state, window
  <2>. QED
    BY <2>1, <2>2, <2>3, <2>4, FlagsKept
<1>37. ASSUME NEW s \in Sends, AnswerFails(s) PROVE Flags'
  BY <1>37, AnswerFailsDoes, FlagsKept DEF AnswerFails, InGeneration, Running, RunStages, WaitStages, Flags, state, window
<1>38. ASSUME NEW k \in Clicks, ClickFails(k) PROVE Flags'
  BY <1>38 DEF ClickFails, Flags, Generations, Running, state, window, history
<1>39. ASSUME NEW k \in Clicks, CreateFails(k) PROVE Flags'
  BY <1>39 DEF CreateFails, Flags, Generations, Running, state, window
<1>. QED
  BY <1>1, <1>2, <1>3, <1>4, <1>5, <1>6, <1>7, <1>8, <1>9, <1>10, <1>11, <1>12, <1>13, <1>14, <1>15, <1>16, <1>17, <1>18, <1>19, <1>20, <1>21, <1>22, <1>23, <1>24, <1>25, <1>26, <1>27, <1>28, <1>29, <1>30, <1>31, <1>32, <1>33, <1>34, <1>35, <1>36, <1>37, <1>38, <1>39 DEF Next

---------------------------------------------------------------------------
(* The images and their embeddings *)

\* A step that does not touch the images of the call.
LEMMA ImagesKept ==
    ASSUME ImagesInPlace, NEW s \in Sends, NEW x, NEW c, NEW m, NEW l,
           Sets(s, x, c, send[s].images, m, l),
           send[s].stage \notin EarlyStages => x \notin EarlyStages,
           pending' = pending, encode' = encode, remove' = remove, embeddings' = embeddings
    PROVE  ImagesInPlace'
<1>1. \A y \in Sends : send'[y].images = send[y].images
  BY DEF Sets
<1>2. \A y \in Sends : send[y].stage \notin EarlyStages => send'[y].stage \notin EarlyStages
  BY DEF Sets
<1>. QED
  BY <1>1, <1>2 DEF ImagesInPlace

\* The end of a call that has taken no embedding.
LEMMA ImagesEnded ==
    ASSUME ImagesInPlace, NEW s \in Sends, Ends(s), send[s].stage \in EarlyStages,
           pending' = pending, encode' = encode, remove' = remove, embeddings' = embeddings
    PROVE  ImagesInPlace'
<1>1. \A y \in Sends \ {s} : send'[y] = send[y]
  BY DEF Ends, Sets
<1>2. send'[s].images = {}
  BY DEF Ends, Sets
<1>. QED
  BY <1>1, <1>2 DEF ImagesInPlace

\* The end of a call that clears the images.
LEMMA ImagesFinally ==
    ASSUME TypeOK, ImagesInPlace, NEW s \in Sends, Ends(s), Finally(s),
           encode' = encode, embeddings' = embeddings
    PROVE  ImagesInPlace'
<1>1. \A y \in Sends \ {s} : send'[y] = send[y]
  BY DEF Ends, Sets
<1>2. send'[s].images = {}
  BY DEF Ends, Sets
<1>3. \A i \in Images : remove[i] # "new" => remove'[i] # "new"
  BY FinallyImages DEF TypeOK
<1>4. CASE send[s].images = {}
  <2>1. pending' = pending
    BY <1>4, FinallyImages DEF TypeOK
  <2>. QED
    BY <1>1, <1>2, <1>3, <1>4, <2>1 DEF ImagesInPlace
<1>5. CASE send[s].images # {}
  <2>1. DOMAIN pending' = {}
    BY <1>5, FinallyImages DEF TypeOK
  <2>. QED
    BY <1>1, <1>2, <1>3, <2>1 DEF ImagesInPlace
<1>. QED
  BY <1>4, <1>5

\* A step of the images: no call changes.
LEMMA ImagesMove ==
    ASSUME ImagesInPlace, send' = send, NEW i \in Images,
           \A j \in Images \ {i} :
               /\ (j \in DOMAIN pending') = (j \in DOMAIN pending)
               /\ j \in DOMAIN pending => pending'[j] = pending[j]
               /\ encode'[j] = encode[j] /\ remove'[j] = remove[j]
               /\ (j \in embeddings') = (j \in embeddings),
           /\ i \in DOMAIN pending' /\ pending'[i] = "ready" =>
                  \/ i \in embeddings' \/ remove'[i] # "new"
                  \/ i \in DOMAIN pending /\ pending[i] = "ready" /\ (i \in embeddings => i \in embeddings')
                     /\ (remove[i] # "new" => remove'[i] # "new")
           /\ encode'[i] = "stored" => i \in embeddings' \/ remove'[i] # "new"
           /\ encode'[i] # "ended" => /\ encode[i] # "ended"
                                      /\ i \in DOMAIN pending' => pending'[i] # "ready"
           /\ encode'[i] = "new" => i \notin DOMAIN pending'
    PROVE  ImagesInPlace'
<1> DEFINE Taken(j) == \E s \in Sends : j \in send[s].images /\ send[s].stage \notin EarlyStages
           InNone(j) == \A s \in Sends : j \notin send[s].images
           Place(j) == /\ j \in DOMAIN pending /\ pending[j] = "ready" =>
                              j \in embeddings \/ remove[j] # "new" \/ Taken(j)
                       /\ encode[j] = "stored" => j \in embeddings \/ remove[j] # "new"
                       /\ encode[j] # "ended" => /\ j \in DOMAIN pending => pending[j] # "ready"
                                                 /\ InNone(j)
                       /\ encode[j] = "new" => j \notin DOMAIN pending
<1>1. \A j \in Images : Place(j)
  BY DEF ImagesInPlace
<1>2. \A j : Taken(j)' = Taken(j) /\ InNone(j)' = InNone(j)
  OBVIOUS
<1>3. (\A j \in Images : Place(j)') => ImagesInPlace'
  BY DEF ImagesInPlace
<1> HIDE DEF Taken, InNone
<1>4. ASSUME NEW j \in Images \ {i} PROVE Place(j)'
  BY <1>1, <1>2
<1>5. Place(i)'
  <2>1. Place(i) /\ (Taken(i)' = Taken(i)) /\ (InNone(i)' = InNone(i))
    BY <1>1, <1>2
  <2>2. i \in DOMAIN pending' /\ pending'[i] = "ready" =>
            i \in embeddings' \/ remove'[i] # "new" \/ Taken(i)'
    BY <2>1
  <2>3. encode'[i] # "ended" => (i \in DOMAIN pending' => pending'[i] # "ready") /\ InNone(i)'
    BY <2>1
  <2>. QED
    BY <2>2, <2>3
<1>. QED
  BY <1>3, <1>4, <1>5

\* An image that is offered has its embedding.
LEMMA StepImages ==
    ASSUME TypeOK, ImagesInPlace, Next
    PROVE  ImagesInPlace'
<1>1. ASSUME NEW s \in Sends, Send(s) PROVE ImagesInPlace'
  <2>1. Sets(s, "add", active, Ready, send[s].copy, send[s].linked) /\ send[s].stage = "new"
    BY <1>1, SendDoes DEF Send
  <2>2. /\ \A y \in Sends \ {s} : send'[y] = send[y]
        /\ send'[s].images = Ready
    BY <2>1 DEF Sets
  <2>3. \A i \in Ready : i \in DOMAIN pending /\ pending[i] = "ready"
    BY DEF Ready
  <2>4. UNCHANGED <<pending, encode, remove, embeddings>>
    BY <1>1 DEF Send, state, window
  <2>5. \A y \in Sends : \A j : j \in send'[y].images =>
            j \in send[y].images \/ (j \in DOMAIN pending /\ pending[j] = "ready")
    BY <2>2, <2>3
  <2>6. \A y \in Sends : send[y].stage \notin EarlyStages => send'[y] = send[y]
    BY <2>1, <2>2 DEF EarlyStages
  <2>. QED
    BY <2>4, <2>5, <2>6 DEF ImagesInPlace
<1>2. ASSUME NEW s \in Sends, AddLoad(s) PROVE ImagesInPlace'
  <2>1. CASE Adds(s, "user", "add_save")
    BY <1>2, <2>1, ImagesKept DEF AddLoad, Goes, Turns, Adds, SendStages, EarlyStages, RunStages, state, window
  <2>2. CASE Ends(s)
    BY <1>2, <2>2, ImagesEnded DEF AddLoad, Goes, Turns, Adds, SendStages, EarlyStages, RunStages, state, window
  <2>. QED
    BY <1>2, <2>1, <2>2, AddLoadDoes
<1>3. ASSUME NEW s \in Sends, Truncate(s) PROVE ImagesInPlace'
  <2>1. CASE send[s].stage = "add_save" /\ Sets(s, "add_write", send[s].conv, send[s].images, send[s].copy, TRUE)
    BY <1>3, <2>1, ImagesKept DEF Truncate, Goes, Turns, Adds, SendStages, EarlyStages, RunStages, state, window
  <2>2. CASE send[s].stage = "answer_save" /\ Sets(s, "answer_write", send[s].conv, send[s].images, send[s].copy, TRUE)
    BY <1>3, <2>2, ImagesKept DEF Truncate, Goes, Turns, Adds, SendStages, EarlyStages, RunStages, state, window
  <2>. QED
    BY <1>3, <2>1, <2>2, TruncateDoes
<1>4. ASSUME NEW s \in Sends, Write(s) PROVE ImagesInPlace'
  <2>1. CASE send[s].stage = "add_write" /\ Sets(s, "added", send[s].conv, send[s].images, <<>>, send[s].linked)
    BY <1>4, <2>1, ImagesKept DEF Write, Goes, Turns, Adds, SendStages, EarlyStages, RunStages, state, window
  <2>2. CASE send[s].stage = "answer_write" /\ Sets(s, "leave", send[s].conv, send[s].images, <<>>, send[s].linked)
    BY <1>4, <2>2, ImagesKept DEF Write, Goes, Turns, Adds, SendStages, EarlyStages, RunStages, state, window
  <2>. QED
    BY <1>4, <2>1, <2>2, WriteDoes
<1>5. ASSUME NEW s \in Sends, AddReply(s) PROVE ImagesInPlace'
  <2>1. CASE Ends(s)
    BY <1>5, <2>1, ImagesEnded DEF AddReply, Goes, Turns, Adds, SendStages, EarlyStages, RunStages, state, window
  <2>2. CASE Goes(s, "list")
    BY <1>5, <2>2, ImagesKept DEF AddReply, Goes, Turns, Adds, SendStages, EarlyStages, RunStages, state, window
  <2>. QED
    BY <1>5, <2>1, <2>2, AddReplyDoes
<1>6. ASSUME NEW s \in Sends, Generate(s) PROVE ImagesInPlace'
  <2>1. CASE active = None
    BY <1>6, <2>1, GenerateDoes, DesktopAssumption, ImagesFinally DEF Generate, state
  <2>2. CASE active # None
    BY <1>6, <2>2, GenerateDoes, ImagesKept DEF Generate, Turns, SendStages, EarlyStages, RunStages, state
  <2>. QED
    BY <2>1, <2>2
<1>7. ASSUME NEW s \in Sends, Enter(s) PROVE ImagesInPlace'
  <2>1. CASE Goes(s, "failed")
    BY <1>7, <2>1, ImagesKept DEF Enter, Goes, Turns, Adds, SendStages, EarlyStages, RunStages, state, window
  <2>2. CASE Goes(s, "load")
    BY <1>7, <2>2, ImagesKept DEF Enter, Goes, Turns, Adds, SendStages, EarlyStages, RunStages, state, window
  <2>. QED
    BY <1>7, <2>1, <2>2, EnterDoes
<1>8. ASSUME NEW s \in Sends, LoadPrompt(s) PROVE ImagesInPlace'
  <2>1. CASE Loads(send[s].conv)
    <3>1. Goes(s, "prefill") /\ embeddings' = embeddings \ send[s].images
      BY <1>8, <2>1, LoadPromptDoes DEF LoadPrompt
    <3>2. /\ \A y \in Sends : send'[y].images = send[y].images
          /\ \A y \in Sends : send[y].stage \notin EarlyStages => send'[y].stage \notin EarlyStages
          /\ send'[s].stage \notin EarlyStages
      BY <3>1 DEF Goes, Sets, EarlyStages
    <3>. QED
      BY <1>8, <3>1, <3>2 DEF LoadPrompt, ImagesInPlace, window
  <2>2. CASE ~Loads(send[s].conv)
    <3>1. Goes(s, "failed") /\ embeddings' = embeddings
      BY <1>8, <2>2, LoadPromptDoes DEF LoadPrompt
    <3>. QED
      BY <1>8, <3>1, ImagesKept DEF LoadPrompt, Goes, SendStages, EarlyStages, RunStages, window
  <2>. QED
    BY <2>1, <2>2
<1>9. ASSUME NEW s \in Sends, Fail(s) PROVE ImagesInPlace'
  BY <1>9, FailDoes, ImagesKept DEF Fail, Goes, SendStages, EarlyStages, RunStages, state, window
<1>10. ASSUME NEW s \in Sends, Panic(s) PROVE ImagesInPlace'
  BY <1>10, PanicDoes, ImagesKept DEF Panic, Goes, SendStages, EarlyStages, RunStages, state, window
<1>11. ASSUME NEW s \in Sends, Prefill(s) PROVE ImagesInPlace'
  <2>1. CASE Goes(s, "decode")
    BY <1>11, <2>1, ImagesKept DEF Prefill, Goes, Turns, Adds, SendStages, EarlyStages, RunStages, state, window
  <2>2. CASE Goes(s, "answer")
    BY <1>11, <2>2, ImagesKept DEF Prefill, Goes, Turns, Adds, SendStages, EarlyStages, RunStages, state, window
  <2>. QED
    BY <1>11, <2>1, <2>2, PrefillDoes
<1>12. ASSUME NEW s \in Sends, DecodeEnds(s) PROVE ImagesInPlace'
  BY <1>12, DecodeEndsDoes, ImagesKept DEF DecodeEnds, Goes, SendStages, EarlyStages, RunStages, state, window
<1>13. ASSUME NEW s \in Sends, Cancelled(s) PROVE ImagesInPlace'
  BY <1>13, CancelledDoes, ImagesKept DEF Cancelled, Goes, SendStages, EarlyStages, RunStages, state, window
<1>14. ASSUME NEW s \in Sends, AnswerLoad(s) PROVE ImagesInPlace'
  <2>1. CASE Adds(s, "assistant", "answer_save")
    BY <1>14, <2>1, ImagesKept DEF AnswerLoad, Goes, Turns, Adds, SendStages, EarlyStages, RunStages, state, window
  <2>2. CASE Goes(s, "leave")
    BY <1>14, <2>2, ImagesKept DEF AnswerLoad, Goes, Turns, Adds, SendStages, EarlyStages, RunStages, state, window
  <2>. QED
    BY <1>14, <2>1, <2>2, AnswerLoadDoes
<1>15. ASSUME NEW s \in Sends, Leave(s) PROVE ImagesInPlace'
  BY <1>15, LeaveDoes, ImagesKept DEF Leave, Goes, SendStages, EarlyStages, RunStages, state, window
<1>16. ASSUME NEW s \in Sends, Reload(s) PROVE ImagesInPlace'
  <2>1. CASE Goes(s, "relist")
    BY <1>16, <2>1, ImagesKept DEF Reload, Goes, Turns, Adds, SendStages, EarlyStages, RunStages, state, window
  <2>2. CASE Turns(s, "reload")
    BY <1>16, <2>2, ImagesKept DEF Reload, Goes, Turns, Adds, SendStages, EarlyStages, RunStages, state, window
  <2>. QED
    BY <1>16, <2>1, <2>2, ReloadDoes
<1>17. ASSUME NEW s \in Sends, Reloaded(s) PROVE ImagesInPlace'
  <2>1. CASE Loads(send[s].conv)
    BY <1>17, <2>1, ReloadedDoes, ImagesKept DEF Reloaded, Goes, SendStages, EarlyStages, RunStages, state
  <2>2. CASE ~Loads(send[s].conv)
    BY <1>17, <2>2, ReloadedDoes, ImagesFinally DEF Reloaded, state
  <2>. QED
    BY <2>1, <2>2
<1>18. ASSUME NEW s \in Sends, End(s) PROVE ImagesInPlace'
  BY <1>18, EndDoes, ImagesFinally DEF End, state
<1>19. ASSUME Stop PROVE ImagesInPlace'
  BY <1>19 DEF Stop, ImagesInPlace, state, window
<1>20. ASSUME CancelGeneration PROVE ImagesInPlace'
  BY <1>20 DEF CancelGeneration, ImagesInPlace, state, window
<1>21. ASSUME NEW k \in Clicks, NEW c \in Convs, Click(k, c) PROVE ImagesInPlace'
  BY <1>21 DEF Click, ImagesInPlace, state, window
<1>22. ASSUME NEW k \in Clicks, Selected(k) PROVE ImagesInPlace'
  BY <1>22 DEF Selected, ImagesInPlace, state, window
<1>23. ASSUME NEW k \in Clicks, Delete(k) PROVE ImagesInPlace'
  <2>1. \A y \in Sends : send'[y].stage = send[y].stage /\ send'[y].images = send[y].images
    BY <1>23, SetDelete DEF TypeOK
  <2>. QED
    BY <1>23, <2>1 DEF Delete, ImagesInPlace, state, window
<1>24. ASSUME NEW k \in Clicks, DeleteReply(k) PROVE ImagesInPlace'
  BY <1>24 DEF DeleteReply, ImagesInPlace, state, window
<1>25. ASSUME NEW k \in Clicks, Create(k) PROVE ImagesInPlace'
  BY <1>25 DEF Create, ImagesInPlace, state, window
<1>26. ASSUME NEW k \in Clicks, CreateReply(k) PROVE ImagesInPlace'
  BY <1>26 DEF CreateReply, ImagesInPlace, state, window
<1>27. ASSUME NEW i \in Images, AddImage(i) PROVE ImagesInPlace'
  BY <1>27, ImagesMove DEF AddImage, Put, TypeOK, ImageTypes, ImagesInPlace, state, window
<1>28. ASSUME NEW i \in Images, Check(i) PROVE ImagesInPlace'
  BY <1>28, ImagesMove DEF Check, TypeOK, ImageTypes, ImagesInPlace, state, window
<1>29. ASSUME NEW i \in Images, EncodeFails(i) PROVE ImagesInPlace'
  BY <1>29, ImagesMove DEF EncodeFails, Status, TypeOK, ImageTypes, ImagesInPlace, state, window
<1>30. ASSUME NEW i \in Images, Store(i) PROVE ImagesInPlace'
  BY <1>30, ImagesMove DEF Store, TypeOK, ImageTypes, ImagesInPlace, state, window
<1>31. ASSUME NEW i \in Images, Encoded(i) PROVE ImagesInPlace'
  BY <1>31, ImagesMove DEF Encoded, Status, TypeOK, ImageTypes, ImagesInPlace, state, window
<1>32. ASSUME NEW i \in Images, RemoveImage(i) PROVE ImagesInPlace'
  BY <1>32, ImagesMove DEF RemoveImage, TypeOK, ImageTypes, ImagesInPlace, state, window
<1>33. ASSUME NEW i \in Images, CancelVision(i) PROVE ImagesInPlace'
  BY <1>33, ImagesMove DEF CancelVision, TypeOK, ImageTypes, ImagesInPlace, state, window
<1>34. ASSUME NEW i \in Images, DropEmbedding(i) PROVE ImagesInPlace'
  BY <1>34, ImagesMove DEF DropEmbedding, TypeOK, ImageTypes, ImagesInPlace, state, window
<1>35. ASSUME NEW i \in Images, RemoveReply(i) PROVE ImagesInPlace'
  BY <1>35, ImagesMove DEF RemoveReply, Restrict, TypeOK, ImageTypes, ImagesInPlace, state, window
<1>36. ASSUME NEW s \in Sends, AddFails(s) PROVE ImagesInPlace'
  BY <1>36, AddFailsDoes, ImagesEnded DEF AddFails, EarlyStages, state, window
<1>37. ASSUME NEW s \in Sends, AnswerFails(s) PROVE ImagesInPlace'
  BY <1>37, AnswerFailsDoes, ImagesKept DEF AnswerFails, EarlyStages, state, window
<1>38. ASSUME NEW k \in Clicks, ClickFails(k) PROVE ImagesInPlace'
  BY <1>38 DEF ClickFails, ImagesInPlace, state, window
<1>39. ASSUME NEW k \in Clicks, CreateFails(k) PROVE ImagesInPlace'
  BY <1>39 DEF CreateFails, ImagesInPlace, state, window
<1>. QED
  BY <1>1, <1>2, <1>3, <1>4, <1>5, <1>6, <1>7, <1>8, <1>9, <1>10, <1>11, <1>12, <1>13, <1>14, <1>15, <1>16, <1>17, <1>18, <1>19, <1>20, <1>21, <1>22, <1>23, <1>24, <1>25, <1>26, <1>27, <1>28, <1>29, <1>30, <1>31, <1>32, <1>33, <1>34, <1>35, <1>36, <1>37, <1>38, <1>39 DEF Next

---------------------------------------------------------------------------
(* The ids that have been used *)

\* A step of sendMessage, to a conversation that is known.
LEMMA IdsKept ==
    ASSUME IdsInPlace, NEW s \in Sends, NEW x, NEW c, NEW I, NEW m, NEW l, Sets(s, x, c, I, m, l),
           c = send[s].conv \/ c = active \/ c = None,
           active' = active \/ active' = send[s].conv,
           DOMAIN files' = DOMAIN files, deleted' = deleted, click' = click
    PROVE  IdsInPlace'
<1>1. \A d : Fresh(d)' <=> Fresh(d)
  BY DEF Fresh
<1>2. \A y \in Sends \ {s} : send'[y].conv = send[y].conv
  BY DEF Sets
<1>3. send'[s].conv = c
  BY DEF Sets
<1>. QED
  BY <1>1, <1>2, <1>3 DEF IdsInPlace

\* No id is that of two conversations.
LEMMA StepIds ==
    ASSUME TypeOK, IdsInPlace, Next
    PROVE  IdsInPlace'
<1>1. ASSUME NEW s \in Sends, Send(s) PROVE IdsInPlace'
  BY <1>1, SendDoes, IdsKept DEF Send, window, history
<1>2. ASSUME NEW s \in Sends, AddLoad(s) PROVE IdsInPlace'
  <2>1. CASE Adds(s, "user", "add_save")
    BY <1>2, <2>1, IdsKept DEF AddLoad, Goes, Turns, Adds, Ends, window, history
  <2>2. CASE Ends(s)
    BY <1>2, <2>2, IdsKept DEF AddLoad, Goes, Turns, Adds, Ends, window, history
  <2>. QED
    BY <1>2, <2>1, <2>2, AddLoadDoes
<1>3. ASSUME NEW s \in Sends, Truncate(s) PROVE IdsInPlace'
  <2>1. send[s].conv \in Convs
    BY <1>3, CallConv DEF Truncate, TypeOK
  <2>2. ~Fresh(send[s].conv)
    BY <2>1, DesktopAssumption DEF IdsInPlace
  <2>3. DOMAIN files' = DOMAIN files \cup {send[s].conv} /\ deleted' = deleted
    BY <1>3 DEF Truncate, Put, history
  <2>4. \A d : Fresh(d)' <=> Fresh(d)
    BY <2>2, <2>3 DEF Fresh
  <2>5. \A y \in Sends : send'[y].conv = send[y].conv
    BY <1>3, TruncateDoes DEF Sets
  <2>. QED
    BY <1>3, <2>4, <2>5 DEF Truncate, IdsInPlace, window
<1>4. ASSUME NEW s \in Sends, Write(s) PROVE IdsInPlace'
  <2>3. DOMAIN files' = DOMAIN files
    BY <1>4 DEF Write
  <2>1. CASE send[s].stage = "add_write" /\ Sets(s, "added", send[s].conv, send[s].images, <<>>, send[s].linked)
    BY <1>4, <2>1, <2>3, IdsKept DEF Write, Goes, Turns, Adds, Ends, window, history
  <2>2. CASE send[s].stage = "answer_write" /\ Sets(s, "leave", send[s].conv, send[s].images, <<>>, send[s].linked)
    BY <1>4, <2>2, <2>3, IdsKept DEF Write, Goes, Turns, Adds, Ends, window, history
  <2>. QED
    BY <1>4, <2>1, <2>2, WriteDoes
<1>5. ASSUME NEW s \in Sends, AddReply(s) PROVE IdsInPlace'
  <2>1. CASE Ends(s)
    BY <1>5, <2>1, IdsKept DEF AddReply, Goes, Turns, Adds, Ends, window, history
  <2>2. CASE Goes(s, "list")
    BY <1>5, <2>2, IdsKept DEF AddReply, Goes, Turns, Adds, Ends, window, history
  <2>. QED
    BY <1>5, <2>1, <2>2, AddReplyDoes
<1>6. ASSUME NEW s \in Sends, Generate(s) PROVE IdsInPlace'
  <2>1. CASE Ends(s)
    BY <1>6, <2>1, IdsKept DEF Generate, Goes, Turns, Adds, Ends, Finally, window, history
  <2>2. CASE Turns(s, "gen")
    BY <1>6, <2>2, IdsKept DEF Generate, Goes, Turns, Adds, Ends, Finally, window, history
  <2>. QED
    BY <1>6, <2>1, <2>2, GenerateDoes
<1>7. ASSUME NEW s \in Sends, Enter(s) PROVE IdsInPlace'
  <2>1. CASE Goes(s, "failed")
    BY <1>7, <2>1, IdsKept DEF Enter, Goes, Turns, Adds, Ends, window, history
  <2>2. CASE Goes(s, "load")
    BY <1>7, <2>2, IdsKept DEF Enter, Goes, Turns, Adds, Ends, window, history
  <2>. QED
    BY <1>7, <2>1, <2>2, EnterDoes
<1>8. ASSUME NEW s \in Sends, LoadPrompt(s) PROVE IdsInPlace'
  <2>1. CASE Goes(s, "failed")
    BY <1>8, <2>1, IdsKept DEF LoadPrompt, Goes, Turns, Adds, Ends, window, history
  <2>2. CASE Goes(s, "prefill")
    BY <1>8, <2>2, IdsKept DEF LoadPrompt, Goes, Turns, Adds, Ends, window, history
  <2>. QED
    BY <1>8, <2>1, <2>2, LoadPromptDoes
<1>9. ASSUME NEW s \in Sends, Fail(s) PROVE IdsInPlace'
  BY <1>9, FailDoes, IdsKept DEF Fail, Goes, Ends, window, history
<1>10. ASSUME NEW s \in Sends, Panic(s) PROVE IdsInPlace'
  BY <1>10, PanicDoes, IdsKept DEF Panic, Goes, Ends, window, history
<1>11. ASSUME NEW s \in Sends, Prefill(s) PROVE IdsInPlace'
  <2>1. CASE Goes(s, "decode")
    BY <1>11, <2>1, IdsKept DEF Prefill, Goes, Turns, Adds, Ends, window, history
  <2>2. CASE Goes(s, "answer")
    BY <1>11, <2>2, IdsKept DEF Prefill, Goes, Turns, Adds, Ends, window, history
  <2>. QED
    BY <1>11, <2>1, <2>2, PrefillDoes
<1>12. ASSUME NEW s \in Sends, DecodeEnds(s) PROVE IdsInPlace'
  BY <1>12, DecodeEndsDoes, IdsKept DEF DecodeEnds, Goes, Ends, window, history
<1>13. ASSUME NEW s \in Sends, Cancelled(s) PROVE IdsInPlace'
  BY <1>13, CancelledDoes, IdsKept DEF Cancelled, Goes, Ends, window, history
<1>14. ASSUME NEW s \in Sends, AnswerLoad(s) PROVE IdsInPlace'
  <2>1. CASE Adds(s, "assistant", "answer_save")
    BY <1>14, <2>1, IdsKept DEF AnswerLoad, Goes, Turns, Adds, Ends, window, history
  <2>2. CASE Goes(s, "leave")
    BY <1>14, <2>2, IdsKept DEF AnswerLoad, Goes, Turns, Adds, Ends, window, history
  <2>. QED
    BY <1>14, <2>1, <2>2, AnswerLoadDoes
<1>15. ASSUME NEW s \in Sends, Leave(s) PROVE IdsInPlace'
  BY <1>15, LeaveDoes, IdsKept DEF Leave, Goes, Ends, window, history
<1>16. ASSUME NEW s \in Sends, Reload(s) PROVE IdsInPlace'
  <2>1. CASE Goes(s, "relist")
    BY <1>16, <2>1, IdsKept DEF Reload, Goes, Turns, Adds, Ends, window, history
  <2>2. CASE Turns(s, "reload")
    BY <1>16, <2>2, IdsKept DEF Reload, Goes, Turns, Adds, Ends, window, history
  <2>. QED
    BY <1>16, <2>1, <2>2, ReloadDoes
<1>17. ASSUME NEW s \in Sends, Reloaded(s) PROVE IdsInPlace'
  <2>1. CASE Goes(s, "relist")
    BY <1>17, <2>1, IdsKept DEF Reloaded, Goes, Turns, Adds, Ends, Finally, window, history
  <2>2. CASE Ends(s)
    BY <1>17, <2>2, IdsKept DEF Reloaded, Goes, Turns, Adds, Ends, Finally, window, history
  <2>. QED
    BY <1>17, <2>1, <2>2, ReloadedDoes
<1>18. ASSUME NEW s \in Sends, End(s) PROVE IdsInPlace'
  BY <1>18, EndDoes, IdsKept DEF End, Goes, Ends, window, history
<1>19. ASSUME Stop PROVE IdsInPlace'
  <2>1. \A d : Fresh(d)' <=> Fresh(d)
    BY <1>19 DEF Stop, Fresh, history
  <2>. QED
    BY <1>19, <2>1 DEF Stop, IdsInPlace, window
<1>20. ASSUME CancelGeneration PROVE IdsInPlace'
  <2>1. \A d : Fresh(d)' <=> Fresh(d)
    BY <1>20 DEF CancelGeneration, Fresh, history
  <2>. QED
    BY <1>20, <2>1 DEF CancelGeneration, IdsInPlace, window
<1>21. ASSUME NEW k \in Clicks, NEW c \in Convs, Click(k, c) PROVE IdsInPlace'
  <2>1. PICK kind \in {"select", "delete", "create"} :
            /\ click' = [click EXCEPT ![k] = [stage |-> kind, conv |-> c]]
            /\ kind = "create" => NewId(c)
            /\ kind # "create" => c \in DOMAIN files
    BY <1>21 DEF Click
  <2>2. /\ click'[k].stage = kind /\ click'[k].conv = c
        /\ \A j \in Clicks \ {k} : click'[j] = click[j]
    BY <2>1 DEF TypeOK, CallTypes
  <2>3. UNCHANGED <<files, deleted, active, send>>
    BY <1>21 DEF Click, window, history
  <2>4. \A d : Fresh(d)' <=> Fresh(d)
    BY <2>3 DEF Fresh
  <2>5. \A j \in Clicks \ {k} : click[j].stage = "create" => click[j].conv # c
    BY <2>1 DEF NewId, IdsInPlace, Fresh
  <2>6. kind = "create" => Fresh(c) /\ \A j \in Clicks : click[j].conv # c
    BY <2>1 DEF NewId, Fresh
  <2>7. kind # "create" => ~Fresh(c)
    BY <2>1 DEF Fresh
  <2>8. /\ active' # None => ~Fresh(active)'
        /\ \A y \in Sends : send'[y].conv # None => ~Fresh(send[y].conv)'
    BY <2>3, <2>4 DEF IdsInPlace
  <2>9. ASSUME NEW j \in Clicks
        PROVE  /\ click'[j].stage = "create" =>
                     /\ Fresh(click[j].conv)'
                     /\ \A i \in Clicks \ {j} : click'[i].conv # click'[j].conv
               /\ click'[j].stage \notin {"new", "create", "ended"} => ~Fresh(click[j].conv)'
    <3>1. CASE j = k
      BY <2>1, <2>2, <2>4, <2>6, <2>7, <3>1
    <3>2. CASE j # k
      BY <2>2, <2>4, <2>5, <3>2 DEF IdsInPlace
    <3>. QED
      BY <3>1, <3>2
  <2>. QED
    BY <2>8, <2>9 DEF IdsInPlace
<1>22. ASSUME NEW k \in Clicks, Selected(k) PROVE IdsInPlace'
  <2>1. /\ \A j \in Clicks : click'[j].conv = click[j].conv
        /\ click'[k].stage = "ended" /\ \A j \in Clicks \ {k} : click'[j].stage = click[j].stage
    BY <1>22 DEF Selected, TypeOK, CallTypes, ClickType
  <2>2. ~Fresh(click[k].conv)
    BY <1>22 DEF Selected, IdsInPlace
  <2>3. active' \in {active, click[k].conv, None}
    BY <1>22 DEF Selected
  <2>4. \A d : Fresh(d)' <=> Fresh(d)
    BY <1>22 DEF Selected, Fresh, history
  <2>5. send' = send
    BY <1>22 DEF Selected
  <2>6. active' # None => ~Fresh(active)'
    BY <2>2, <2>3, <2>4 DEF IdsInPlace
  <2>7. \A y \in Sends : send'[y].conv # None => ~Fresh(send[y].conv)'
    BY <2>4, <2>5 DEF IdsInPlace
  <2>. QED
    BY <2>1, <2>2, <2>4, <2>6, <2>7 DEF IdsInPlace
<1>23. ASSUME NEW k \in Clicks, Delete(k) PROVE IdsInPlace'
  <2>1. \A y \in Sends : send'[y].conv = send[y].conv
    BY <1>23, SetDelete DEF TypeOK
  <2>2. DOMAIN files' = DOMAIN files \ {click[k].conv} /\ deleted' = deleted \cup {click[k].conv}
    BY <1>23 DEF Delete, Restrict
  <2>3. ~Fresh(click[k].conv)
    BY <1>23 DEF Delete, IdsInPlace
  <2>4. \A d : Fresh(d)' <=> Fresh(d)
    BY <2>2, <2>3 DEF Fresh
  <2>5. \A j \in Clicks : click'[j].conv = click[j].conv
    BY <1>23 DEF Delete, TypeOK, CallTypes, ClickType
  <2>6. click'[k].stage = "deleted" /\ \A j \in Clicks \ {k} : click'[j].stage = click[j].stage
    BY <1>23 DEF Delete, TypeOK, CallTypes, ClickType
  <2>7. active' = active
    BY <1>23 DEF Delete, window
  <2>. QED
    BY <2>1, <2>3, <2>4, <2>5, <2>6, <2>7 DEF IdsInPlace
<1>24. ASSUME NEW k \in Clicks, DeleteReply(k) PROVE IdsInPlace'
  <2>1. /\ \A j \in Clicks : click'[j].conv = click[j].conv
        /\ click'[k].stage = "ended" /\ \A j \in Clicks \ {k} : click'[j].stage = click[j].stage
    BY <1>24 DEF DeleteReply, TypeOK, CallTypes, ClickType
  <2>2. ~Fresh(click[k].conv)
    BY <1>24 DEF DeleteReply, IdsInPlace
  <2>3. active' \in {active, click[k].conv, None}
    BY <1>24 DEF DeleteReply
  <2>4. \A d : Fresh(d)' <=> Fresh(d)
    BY <1>24 DEF DeleteReply, Fresh, history
  <2>5. send' = send
    BY <1>24 DEF DeleteReply
  <2>6. active' # None => ~Fresh(active)'
    BY <2>2, <2>3, <2>4 DEF IdsInPlace
  <2>7. \A y \in Sends : send'[y].conv # None => ~Fresh(send[y].conv)'
    BY <2>4, <2>5 DEF IdsInPlace
  <2>. QED
    BY <2>1, <2>2, <2>4, <2>6, <2>7 DEF IdsInPlace
<1>25. ASSUME NEW k \in Clicks, Create(k) PROVE IdsInPlace'
  <2>1. DOMAIN files' = DOMAIN files \cup {click[k].conv} /\ deleted' = deleted
    BY <1>25 DEF Create, Put, history
  <2>2. \A d : Fresh(d)' <=> Fresh(d) /\ d # click[k].conv
    BY <2>1 DEF Fresh
  <2>3. \A j \in Clicks : click'[j].conv = click[j].conv
    BY <1>25 DEF Create, TypeOK, CallTypes, ClickType
  <2>4. click'[k].stage = "created" /\ \A j \in Clicks \ {k} : click'[j].stage = click[j].stage
    BY <1>25 DEF Create, TypeOK, CallTypes, ClickType
  <2>5. \A j \in Clicks \ {k} : click[j].conv # click[k].conv
    BY <1>25 DEF Create, IdsInPlace
  <2>6. active' = active /\ send' = send
    BY <1>25 DEF Create, window
  <2>. QED
    BY <2>2, <2>3, <2>4, <2>5, <2>6 DEF IdsInPlace
<1>26. ASSUME NEW k \in Clicks, CreateReply(k) PROVE IdsInPlace'
  <2>1. /\ \A j \in Clicks : click'[j].conv = click[j].conv
        /\ click'[k].stage = "ended" /\ \A j \in Clicks \ {k} : click'[j].stage = click[j].stage
    BY <1>26 DEF CreateReply, TypeOK, CallTypes, ClickType
  <2>2. ~Fresh(click[k].conv)
    BY <1>26 DEF CreateReply, IdsInPlace
  <2>3. active' \in {active, click[k].conv, None}
    BY <1>26 DEF CreateReply
  <2>4. \A d : Fresh(d)' <=> Fresh(d)
    BY <1>26 DEF CreateReply, Fresh, history
  <2>5. send' = send
    BY <1>26 DEF CreateReply
  <2>6. active' # None => ~Fresh(active)'
    BY <2>2, <2>3, <2>4 DEF IdsInPlace
  <2>7. \A y \in Sends : send'[y].conv # None => ~Fresh(send[y].conv)'
    BY <2>4, <2>5 DEF IdsInPlace
  <2>. QED
    BY <2>1, <2>2, <2>4, <2>6, <2>7 DEF IdsInPlace
<1>27. ASSUME NEW i \in Images, AddImage(i) PROVE IdsInPlace'
  <2>1. \A d : Fresh(d)' <=> Fresh(d)
    BY <1>27 DEF AddImage, Fresh, history
  <2>. QED
    BY <1>27, <2>1 DEF AddImage, IdsInPlace, window
<1>28. ASSUME NEW i \in Images, Check(i) PROVE IdsInPlace'
  <2>1. \A d : Fresh(d)' <=> Fresh(d)
    BY <1>28 DEF Check, Fresh, history
  <2>. QED
    BY <1>28, <2>1 DEF Check, IdsInPlace, window
<1>29. ASSUME NEW i \in Images, EncodeFails(i) PROVE IdsInPlace'
  <2>1. \A d : Fresh(d)' <=> Fresh(d)
    BY <1>29 DEF EncodeFails, Fresh, history
  <2>. QED
    BY <1>29, <2>1 DEF EncodeFails, IdsInPlace, window
<1>30. ASSUME NEW i \in Images, Store(i) PROVE IdsInPlace'
  <2>1. \A d : Fresh(d)' <=> Fresh(d)
    BY <1>30 DEF Store, Fresh, history
  <2>. QED
    BY <1>30, <2>1 DEF Store, IdsInPlace, window
<1>31. ASSUME NEW i \in Images, Encoded(i) PROVE IdsInPlace'
  <2>1. \A d : Fresh(d)' <=> Fresh(d)
    BY <1>31 DEF Encoded, Fresh, history
  <2>. QED
    BY <1>31, <2>1 DEF Encoded, IdsInPlace, window
<1>32. ASSUME NEW i \in Images, RemoveImage(i) PROVE IdsInPlace'
  <2>1. \A d : Fresh(d)' <=> Fresh(d)
    BY <1>32 DEF RemoveImage, Fresh, history
  <2>. QED
    BY <1>32, <2>1 DEF RemoveImage, IdsInPlace, window
<1>33. ASSUME NEW i \in Images, CancelVision(i) PROVE IdsInPlace'
  <2>1. \A d : Fresh(d)' <=> Fresh(d)
    BY <1>33 DEF CancelVision, Fresh, history
  <2>. QED
    BY <1>33, <2>1 DEF CancelVision, IdsInPlace, window
<1>34. ASSUME NEW i \in Images, DropEmbedding(i) PROVE IdsInPlace'
  <2>1. \A d : Fresh(d)' <=> Fresh(d)
    BY <1>34 DEF DropEmbedding, Fresh, history
  <2>. QED
    BY <1>34, <2>1 DEF DropEmbedding, IdsInPlace, window
<1>35. ASSUME NEW i \in Images, RemoveReply(i) PROVE IdsInPlace'
  <2>1. \A d : Fresh(d)' <=> Fresh(d)
    BY <1>35 DEF RemoveReply, Fresh, history
  <2>. QED
    BY <1>35, <2>1 DEF RemoveReply, IdsInPlace, window
<1>36. ASSUME NEW s \in Sends, AddFails(s) PROVE IdsInPlace'
  <2>1. DOMAIN files' = DOMAIN files
    BY <1>36 DEF AddFails, SaveFails
  <2>. QED
    BY <1>36, <2>1, AddFailsDoes, IdsKept DEF AddFails, Ends, window
<1>37. ASSUME NEW s \in Sends, AnswerFails(s) PROVE IdsInPlace'
  <2>1. DOMAIN files' = DOMAIN files
    BY <1>37 DEF AnswerFails, SaveFails
  <2>. QED
    BY <1>37, <2>1, AnswerFailsDoes, IdsKept DEF AnswerFails, window
<1>38. ASSUME NEW k \in Clicks, ClickFails(k) PROVE IdsInPlace'
  <2>1. /\ \A j \in Clicks : click'[j].conv = click[j].conv
        /\ click'[k].stage = "ended" /\ \A j \in Clicks \ {k} : click'[j].stage = click[j].stage
    BY <1>38 DEF ClickFails, TypeOK, CallTypes, ClickType
  <2>2. ~Fresh(click[k].conv)
    BY <1>38 DEF ClickFails, IdsInPlace
  <2>3. active' = active /\ send' = send
    BY <1>38 DEF ClickFails, window
  <2>4. \A d : Fresh(d)' <=> Fresh(d)
    BY <1>38 DEF ClickFails, Fresh, history
  <2>. QED
    BY <2>1, <2>2, <2>3, <2>4 DEF IdsInPlace
<1>39. ASSUME NEW k \in Clicks, CreateFails(k) PROVE IdsInPlace'
  <2>1. /\ DOMAIN files' = DOMAIN files \/ DOMAIN files' = DOMAIN files \cup {click[k].conv}
        /\ deleted' = deleted
    BY <1>39 DEF CreateFails, Put
  <2>2. \A d : d # click[k].conv => (Fresh(d)' <=> Fresh(d))
    BY <2>1 DEF Fresh
  <2>3. \A j \in Clicks : click'[j].conv = click[j].conv
    BY <1>39 DEF CreateFails, TypeOK, CallTypes, ClickType
  <2>4. click'[k].stage = "ended" /\ \A j \in Clicks \ {k} : click'[j].stage = click[j].stage
    BY <1>39 DEF CreateFails, TypeOK, CallTypes, ClickType
  <2>5. Fresh(click[k].conv) /\ \A j \in Clicks \ {k} : click[j].conv # click[k].conv
    BY <1>39 DEF CreateFails, IdsInPlace
  <2>6. active' = active /\ send' = send
    BY <1>39 DEF CreateFails, window
  <2>. QED
    BY <2>2, <2>3, <2>4, <2>5, <2>6 DEF IdsInPlace
<1>. QED
  BY <1>1, <1>2, <1>3, <1>4, <1>5, <1>6, <1>7, <1>8, <1>9, <1>10, <1>11, <1>12, <1>13, <1>14, <1>15, <1>16, <1>17, <1>18, <1>19, <1>20, <1>21, <1>22, <1>23, <1>24, <1>25, <1>26, <1>27, <1>28, <1>29, <1>30, <1>31, <1>32, <1>33, <1>34, <1>35, <1>36, <1>37, <1>38, <1>39 DEF Next

---------------------------------------------------------------------------
(* The files and those that change them *)

\* A conversation is being changed when a call edits it.
LEMMA EditingEdits == ASSUME NEW c PROVE Editing(c) <=> \E s \in Sends : Edits(s, c)
  BY DEF Editing, Edits, EditStages

\* A conversation that a step does not touch, and whose editors it does not move.
LEMMA ConvKept ==
    ASSUME NEW c, FilePlace(c), saved'[c] = saved[c],
           (c \in DOMAIN files') <=> (c \in DOMAIN files),
           c \in DOMAIN files => files'[c] = files[c],
           (c \in deleted') <=> (c \in deleted), (c \in overlapped') <=> (c \in overlapped),
           (c \in spoilt') <=> (c \in spoilt),
           \A y \in Sends : Edits(y, c)' <=> Edits(y, c),
           \A y \in Sends : Edits(y, c) =>
               /\ send'[y].conv = c
               /\ send'[y].stage = send[y].stage
               /\ send'[y].copy = send[y].copy
               /\ send'[y].linked = send[y].linked
    PROVE  FilePlace(c)'
<1>1. Fresh(c)' <=> Fresh(c)
  BY DEF Fresh
<1>2. Editing(c)' <=> Editing(c)
  BY EditingEdits DEF Editing, Edits, EditStages
<1>3. ASSUME c \notin overlapped, NEW y \in Sends, Edits(y, c) PROVE EditInPlace(y, c)'
  <2>1. EditInPlace(y, c)
    BY <1>3 DEF FilePlace
  <2>2. Edits(y, c) /\ \A x \in Sends : Edits(x, c)' => x = y
    BY <1>3, <2>1 DEF EditInPlace
  <2>3. \E m \in Msg : send'[y].copy = Append(saved'[c], m)
    BY <2>1, <2>2 DEF EditInPlace
  <2>. QED
    BY <2>1, <2>2, <2>3 DEF EditInPlace
<1>. QED
  BY <1>1, <1>2, <1>3 DEF FilePlace

\* A step of a call that changes no file, before or after.
LEMMA FilesKept ==
    ASSUME FilesInPlace, NEW s \in Sends, NEW x, NEW c, NEW I, NEW m, NEW l, Sets(s, x, c, I, m, l),
           send[s].stage \notin EditStages, x \notin EditStages,
           UNCHANGED <<files, saved, spoilt, deleted, overlapped>>
    PROVE  FilesInPlace'
<1>1. \A y \in Sends \ {s} : send'[y] = send[y]
  BY DEF Sets
<1>2. send'[s].stage = x
  BY DEF Sets
<1>3. ASSUME NEW d \in Convs PROVE FilePlace(d)'
  <2>1. \A y \in Sends : Edits(y, d)' <=> Edits(y, d)
    BY <1>1, <1>2 DEF Edits
  <2>2. \A y \in Sends : Edits(y, d) => y # s
    BY DEF Edits
  <2>3. \A y \in Sends : Edits(y, d) =>
            send'[y].conv = d /\ send'[y].stage = send[y].stage /\ send'[y].copy = send[y].copy
            /\ send'[y].linked = send[y].linked
    BY <1>1, <2>2 DEF Edits
  <2>. QED
    BY <2>1, <2>3, ConvKept DEF FilesInPlace
<1>. QED
  BY <1>3 DEF FilesInPlace

\* The conversations that are not the one a call is about.
LEMMA OthersKept ==
    ASSUME FilesInPlace, NEW s \in Sends, NEW x, NEW c, NEW I, NEW m, NEW l, Sets(s, x, c, I, m, l),
           c = send[s].conv, NEW d \in Convs \ {c},
           saved'[d] = saved[d], (d \in DOMAIN files') <=> (d \in DOMAIN files),
           d \in DOMAIN files => files'[d] = files[d],
           (d \in deleted') <=> (d \in deleted), (d \in overlapped') <=> (d \in overlapped),
           (d \in spoilt') <=> (d \in spoilt)
    PROVE  FilePlace(d)'
<1>1. \A y \in Sends \ {s} : send'[y] = send[y]
  BY DEF Sets
<1>2. send'[s].conv = c
  BY DEF Sets
<1>3. \A y \in Sends : Edits(y, d)' <=> Edits(y, d)
  BY <1>1, <1>2 DEF Edits
<1>4. \A y \in Sends : Edits(y, d) =>
          send'[y].conv = d /\ send'[y].stage = send[y].stage /\ send'[y].copy = send[y].copy
          /\ send'[y].linked = send[y].linked
  BY <1>1, <1>2 DEF Edits
<1>. QED
  BY <1>3, <1>4, ConvKept DEF FilesInPlace

\* A conversation is read to be changed.
LEMMA FilesAdds ==
    ASSUME TypeOK, FilesInPlace, NEW s \in Sends, send[s].conv \in Convs,
           NEW role, NEW x \in {"add_save", "answer_save"}, Adds(s, role, x),
           send[s].stage \notin EditStages, overlapped' = Overlap(send[s].conv),
           UNCHANGED <<files, saved, spoilt, deleted>>
    PROVE  FilesInPlace'
<1>. PICK c \in Convs : c = send[s].conv
  OBVIOUS
<1>1. PICK old : /\ old = files[c].msgs /\ files[c].whole /\ c \in DOMAIN files /\ <<s, role>> \in Msg
                 /\ Sets(s, x, c, send[s].images, Append(old, <<s, role>>), send[s].linked)
  BY DEF Adds
<1>2. ASSUME NEW d \in Convs \ {c} PROVE FilePlace(d)'
  <2>1. (d \in overlapped') <=> (d \in overlapped)
    BY DEF Overlap
  <2>. QED
    BY <1>1, <2>1, OthersKept, ZenonT(30)
<1>3. FilePlace(c)'
  <2>1. ~Fresh(c)'
    BY <1>1 DEF Fresh
  <2>2. CASE Editing(c)
    BY <2>1, <2>2 DEF FilePlace, Overlap
  <2>3. CASE c \in overlapped
    BY <2>1, <2>3 DEF FilePlace, Overlap
  <2>4. CASE ~Editing(c) /\ c \notin overlapped
    <3>1. files[c] = Whole(saved[c]) /\ c \notin deleted /\ c \notin spoilt
      BY <1>1, <2>4 DEF FilesInPlace, FilePlace
    <3>2. old = saved[c]
      BY <1>1, <3>1 DEF Whole
    <3>3. \A y \in Sends : ~Edits(y, c)
      BY <2>4, EditingEdits
    <3>4. /\ \A y \in Sends \ {s} : send'[y] = send[y]
          /\ send'[s].conv = c /\ send'[s].stage = x /\ send'[s].copy = Append(old, <<s, role>>)
      BY <1>1 DEF Sets
    <3>5. \A y \in Sends : Edits(y, c)' => y = s
      BY <3>3, <3>4 DEF Edits
    <3>6. Edits(s, c)'
      BY <3>4 DEF Edits, EditStages
    <3>7. Editing(c)'
      BY <3>6 DEF Editing, Edits, EditStages
    <3>8. EditInPlace(s, c)'
      <4>1. \E m \in Msg : send'[s].copy = Append(saved'[c], m)
        BY <1>1, <3>2, <3>4
      <4>2. x \notin {"add_write", "answer_write"}
        OBVIOUS
      <4>. QED
        BY <1>1, <3>1, <3>4, <3>5, <4>1, <4>2 DEF EditInPlace, Whole
    <3>. QED
      BY <2>1, <3>1, <3>5, <3>7, <3>8 DEF FilePlace
  <2>. QED
    BY <2>2, <2>3, <2>4
<1>. QED
  BY <1>2, <1>3 DEF FilesInPlace

\* A step that touches neither files nor calls.
LEMMA FilesUntouched ==
    ASSUME FilesInPlace, UNCHANGED <<files, send, saved, spoilt, deleted, overlapped>>
    PROVE  FilesInPlace'
  BY DEF FilesInPlace, FilePlace, Fresh, Editing, Edits, EditInPlace

\* A call that fails to read or to save its conversation goes on, or ends.
LEMMA FilesFail ==
    ASSUME TypeOK, IdsInPlace, FilesInPlace, NEW s \in Sends, send[s].conv \in Convs,
           NEW x, NEW e, NEW I, NEW m, NEW l, Sets(s, x, e, I, m, l), x \notin EditStages,
           SaveFails(s), UNCHANGED <<saved, deleted, overlapped>>
    PROVE  FilesInPlace'
<1>. PICK c \in Convs : c = send[s].conv
  OBVIOUS
<1>1. /\ \A y \in Sends \ {s} : send'[y] = send[y]
      /\ send'[s].stage = x
  BY DEF Sets
<1>2. CASE send[s].stage \notin EditStages
  <2>1. UNCHANGED <<files, spoilt>>
    BY <1>2, SaveFailsDoes DEF EditStages
  <2>. QED
    BY <1>2, <2>1, FilesKept
<1>3. CASE send[s].stage \in EditStages
  <2>1. ASSUME NEW d \in Convs \ {c} PROVE FilePlace(d)'
    <3>1. \A y \in Sends : Edits(y, d)' <=> Edits(y, d)
      BY <1>1 DEF Edits
    <3>2. \A y \in Sends : Edits(y, d) => y # s /\ send'[y] = send[y] /\ send[y].conv = d
      BY <1>1 DEF Edits
    <3>3. /\ (d \in spoilt') <=> (d \in spoilt)
          /\ (d \in DOMAIN files') <=> (d \in DOMAIN files)
          /\ d \in DOMAIN files => files'[d] = files[d]
      <4>1. DOMAIN files' = DOMAIN files
        BY SaveFailsDoes
      <4>2. d # send[s].conv
        OBVIOUS
      <4>. QED
        BY <4>1, <4>2, SaveFailsDoes
    <3>. QED
      BY <3>1, <3>2, <3>3, ConvKept DEF FilesInPlace
  <2>2. FilePlace(c)'
    <3>1. DOMAIN files' = DOMAIN files
      BY SaveFailsDoes
    <3>2. ~Fresh(c)'
      BY <3>1, DesktopAssumption DEF IdsInPlace, Fresh
    <3>3. CASE c \in overlapped
      BY <3>2, <3>3 DEF FilePlace
    <3>4. CASE c \notin overlapped
      <4>1. EditInPlace(s, c) /\ (c \in deleted => c \notin DOMAIN files)
        BY <1>3, <3>4 DEF FilesInPlace, FilePlace, Edits
      <4>2. \A y \in Sends : ~Edits(y, c)'
        BY <1>1, <4>1 DEF EditInPlace, Edits
      <4>3. c \notin deleted' /\ c \in DOMAIN files'
        BY <3>1, <4>1 DEF EditInPlace
      <4>4. IF c \in spoilt' THEN ~files'[c].whole ELSE files'[c] = Whole(saved'[c])
        <5>1. CASE send[s].stage \in {"add_write", "answer_write"}
          <6>1. c \in DOMAIN files /\ ~files[c].whole
            BY <4>1, <5>1 DEF EditInPlace, Truncated
          <6>. QED
            BY <5>1, <6>1, SaveFailsDoes
        <5>2. CASE send[s].stage \in {"add_save", "answer_save"}
          <6>1. files[c] = Whole(saved[c]) /\ c \notin spoilt
            BY <4>1, <5>2 DEF EditInPlace
          <6>. QED
            BY <5>2, <6>1, SaveFailsDoes
        <5>. QED
          BY <1>3, <5>1, <5>2 DEF EditStages
      <4>. QED
        BY <3>2, <4>2, <4>3, <4>4 DEF FilePlace
    <3>. QED
      BY <3>3, <3>4
  <2>. QED
    BY <2>1, <2>2 DEF FilesInPlace
<1>. QED
  BY <1>2, <1>3

\* The last of the messages is the one that was added.
LEMMA LastAppended ==
    ASSUME NEW t \in Seq(Msg), NEW m \in Msg
    PROVE  Last(Append(t, m)) = m
  BY DEF Last

\* A file that one command changes at a time holds what has been saved, or does not load.
LEMMA StepFiles ==
    ASSUME TypeOK, IdsInPlace, FilesInPlace, Next
    PROVE  FilesInPlace'
<1>1. ASSUME NEW s \in Sends, Send(s) PROVE FilesInPlace'
  <2>1. UNCHANGED <<files, saved, spoilt, deleted, overlapped>> /\ send[s].stage \notin EditStages
    BY <1>1 DEF Send, EditStages, history
  <2>. QED
    BY <2>1, <1>1, SendDoes, FilesKept DEF Goes, EditStages
<1>2. ASSUME NEW s \in Sends, AddLoad(s) PROVE FilesInPlace'
  <2>1. send[s].conv \in Convs
    BY <1>2, CallConv DEF AddLoad, TypeOK
  <2>2. CASE Adds(s, "user", "add_save")
    <3>1. overlapped' = Overlap(send[s].conv)
      BY <1>2, <2>2 DEF AddLoad, Adds, Loads
    <3>. QED
      BY <1>2, <2>1, <2>2, <3>1, FilesAdds DEF AddLoad, EditStages
  <2>3. CASE ~Loads(send[s].conv) /\ Ends(s)
    BY <1>2, <2>3, FilesKept DEF AddLoad, Ends, EditStages
  <2>. QED
    BY <1>2, <2>2, <2>3, AddLoadDoes
<1>3. ASSUME NEW s \in Sends, Truncate(s) PROVE FilesInPlace'
  <2>. PICK c \in Convs : c = send[s].conv
    BY <1>3, CallConv DEF Truncate, TypeOK
  <2>1. PICK x \in {"add_write", "answer_write"} :
            Sets(s, x, c, send[s].images, send[s].copy, TRUE)
    BY <1>3, TruncateDoes
  <2>2. /\ UNCHANGED <<saved, spoilt, deleted, overlapped>> /\ files' = Put(files, c, Truncated)
        /\ send[s].stage \in {"add_save", "answer_save"}
    BY <1>3 DEF Truncate, history
  <2>3. c \in DOMAIN files' /\ files'[c] = Truncated
    BY <2>2 DEF Put
  <2>4. ASSUME NEW d \in Convs \ {c} PROVE FilePlace(d)'
    <3>1. ((d \in DOMAIN files') <=> (d \in DOMAIN files)) /\ (d \in DOMAIN files => files'[d] = files[d])
      BY <2>2 DEF Put
    <3>. QED
      BY <2>1, <2>2, <3>1, OthersKept
  <2>5. FilePlace(c)'
    <3>1. ~Fresh(c)'
      BY <2>3 DEF Fresh
    <3>2. CASE c \in overlapped
      BY <2>2, <3>1, <3>2 DEF FilePlace
    <3>3. CASE c \notin overlapped
      <4>1. Edits(s, c)
        BY <2>2 DEF Edits, EditStages
      <4>2. EditInPlace(s, c) /\ (c \in deleted => c \notin DOMAIN files)
        BY <3>3, <4>1 DEF FilesInPlace, FilePlace
      <4>3. c \notin deleted'
        BY <2>2, <4>2 DEF EditInPlace
      <4>4. /\ \A y \in Sends \ {s} : send'[y] = send[y]
            /\ send'[s].conv = c /\ send'[s].stage = x /\ send'[s].copy = send[s].copy
            /\ send'[s].linked
        BY <2>1 DEF Sets
      <4>5. \A y \in Sends : Edits(y, c)' => y = s
        BY <4>2, <4>4 DEF EditInPlace, Edits
      <4>6. Editing(c)'
        BY <4>4 DEF Editing
      <4>7. EditInPlace(s, c)'
        <5>1. \E m \in Msg : send'[s].copy = Append(saved'[c], m)
          BY <2>2, <4>2, <4>4 DEF EditInPlace
        <5>2. x \notin {"add_save", "answer_save"}
          OBVIOUS
        <5>3. c \notin spoilt'
          BY <2>2, <4>2 DEF EditInPlace
        <5>. QED
          BY <2>3, <4>4, <4>5, <5>1, <5>2, <5>3 DEF EditInPlace, Truncated
      <4>. QED
        BY <3>1, <4>3, <4>5, <4>6, <4>7 DEF FilePlace
    <3>. QED
      BY <3>2, <3>3
  <2>. QED
    BY <2>4, <2>5 DEF FilesInPlace
<1>4. ASSUME NEW s \in Sends, Write(s) PROVE FilesInPlace'
  <2>. PICK c \in Convs : c = send[s].conv
    BY <1>4, CallConv DEF Write, TypeOK
  <2>1. PICK x \in {"added", "leave"} : Sets(s, x, c, send[s].images, <<>>, send[s].linked)
    BY <1>4, WriteDoes
  <2>2. /\ UNCHANGED <<spoilt, deleted, overlapped>>
        /\ saved' = [saved EXCEPT ![c] = Append(@, Last(send[s].copy))]
        /\ send[s].stage \in {"add_write", "answer_write"}
    BY <1>4 DEF Write
  <2>3. /\ DOMAIN files' = DOMAIN files
        /\ \A d \in DOMAIN files \ {c} : files'[d] = files[d]
    BY <1>4 DEF Write
  <2>4. ASSUME NEW d \in Convs \ {c} PROVE FilePlace(d)'
    <3>1. saved'[d] = saved[d]
      BY <2>2 DEF TypeOK, FileTypes
    <3>. QED
      BY <2>1, <2>2, <2>3, <3>1, OthersKept
  <2>5. FilePlace(c)'
    <3>1. ~Fresh(c)'
      BY <2>2, <2>3, DesktopAssumption DEF IdsInPlace, Fresh
    <3>2. CASE c \in overlapped
      BY <2>2, <3>1, <3>2 DEF FilePlace
    <3>3. CASE c \notin overlapped
      <4>1. Edits(s, c)
        BY <2>2 DEF Edits, EditStages
      <4>2. EditInPlace(s, c) /\ (c \in deleted => c \notin DOMAIN files)
        BY <3>3, <4>1 DEF FilesInPlace, FilePlace
      <4>3. PICK m \in Msg : send[s].copy = Append(saved[c], m)
        BY <4>2 DEF EditInPlace
      <4>4. saved[c] \in Seq(Msg) /\ saved'[c] = Append(saved[c], Last(send[s].copy))
        BY <2>2 DEF TypeOK, FileTypes
      <4>5. Last(send[s].copy) = m
        BY <4>3, <4>4, LastAppended
      <4>6. files[c] = Truncated /\ send[s].linked /\ c \in DOMAIN files
        BY <2>2, <4>2 DEF EditInPlace
      <4>7. files' = [files EXCEPT ![c] = [msgs |-> send[s].copy, whole |-> TRUE]]
        <5>1. files[c].msgs = <<>>
          BY <4>6 DEF Truncated
        <5>. QED
          BY <1>4, <4>6, <5>1 DEF Write
      <4>8. files'[c] = Whole(saved'[c])
        BY <4>3, <4>4, <4>5, <4>6, <4>7 DEF Whole
      <4>9. \A y \in Sends : ~Edits(y, c)'
        BY <2>1, <4>2 DEF EditInPlace, Sets, Edits, EditStages
      <4>10. c \notin deleted' /\ c \notin spoilt'
        BY <2>2, <4>2, <4>6 DEF EditInPlace
      <4>. QED
        BY <3>1, <4>8, <4>9, <4>10 DEF FilePlace
    <3>. QED
      BY <3>2, <3>3
  <2>. QED
    BY <2>4, <2>5 DEF FilesInPlace
<1>5. ASSUME NEW s \in Sends, AddReply(s) PROVE FilesInPlace'
  <2>1. CASE Ends(s)
    BY <1>5, <2>1, FilesKept DEF AddReply, Goes, Turns, Ends, EditStages, history
  <2>2. CASE Goes(s, "list")
    BY <1>5, <2>2, FilesKept DEF AddReply, Goes, Turns, Ends, EditStages, history
  <2>. QED
    BY <1>5, <2>1, <2>2, AddReplyDoes
<1>6. ASSUME NEW s \in Sends, Generate(s) PROVE FilesInPlace'
  <2>1. CASE Ends(s)
    BY <1>6, <2>1, FilesKept DEF Generate, Goes, Turns, Ends, EditStages, history
  <2>2. CASE Turns(s, "gen")
    BY <1>6, <2>2, FilesKept DEF Generate, Goes, Turns, Ends, EditStages, history
  <2>. QED
    BY <1>6, <2>1, <2>2, GenerateDoes
<1>7. ASSUME NEW s \in Sends, Enter(s) PROVE FilesInPlace'
  <2>1. CASE Goes(s, "failed")
    BY <1>7, <2>1, FilesKept DEF Enter, Goes, Turns, Ends, EditStages, history
  <2>2. CASE Goes(s, "load")
    BY <1>7, <2>2, FilesKept DEF Enter, Goes, Turns, Ends, EditStages, history
  <2>. QED
    BY <1>7, <2>1, <2>2, EnterDoes
<1>8. ASSUME NEW s \in Sends, LoadPrompt(s) PROVE FilesInPlace'
  <2>1. CASE Goes(s, "failed")
    BY <1>8, <2>1, FilesKept DEF LoadPrompt, Goes, Turns, Ends, EditStages, history
  <2>2. CASE Goes(s, "prefill")
    BY <1>8, <2>2, FilesKept DEF LoadPrompt, Goes, Turns, Ends, EditStages, history
  <2>. QED
    BY <1>8, <2>1, <2>2, LoadPromptDoes
<1>9. ASSUME NEW s \in Sends, Fail(s) PROVE FilesInPlace'
  <2>1. UNCHANGED <<files, saved, spoilt, deleted, overlapped>> /\ send[s].stage \notin EditStages
    BY <1>9 DEF Fail, EditStages, history
  <2>. QED
    BY <2>1, <1>9, FailDoes, FilesKept DEF Goes, EditStages
<1>10. ASSUME NEW s \in Sends, Panic(s) PROVE FilesInPlace'
  BY <1>10, PanicDoes, FilesKept DEF Panic, Goes, Ends, EditStages, history
<1>11. ASSUME NEW s \in Sends, Prefill(s) PROVE FilesInPlace'
  <2>1. CASE Goes(s, "decode")
    BY <1>11, <2>1, FilesKept DEF Prefill, Goes, Turns, Ends, EditStages, history
  <2>2. CASE Goes(s, "answer")
    BY <1>11, <2>2, FilesKept DEF Prefill, Goes, Turns, Ends, EditStages, history
  <2>. QED
    BY <1>11, <2>1, <2>2, PrefillDoes
<1>12. ASSUME NEW s \in Sends, DecodeEnds(s) PROVE FilesInPlace'
  BY <1>12, DecodeEndsDoes, FilesKept DEF DecodeEnds, Goes, Ends, EditStages, history
<1>13. ASSUME NEW s \in Sends, Cancelled(s) PROVE FilesInPlace'
  BY <1>13, CancelledDoes, FilesKept DEF Cancelled, Goes, Ends, EditStages, history
<1>14. ASSUME NEW s \in Sends, AnswerLoad(s) PROVE FilesInPlace'
  <2>. PICK c \in Convs : c = send[s].conv
    BY <1>14, CallConv DEF AnswerLoad, TypeOK
  <2>1. UNCHANGED <<files, saved, spoilt, deleted>> /\ overlapped' = Overlap(c)
    BY <1>14 DEF AnswerLoad
  <2>2. CASE Adds(s, "assistant", "answer_save")
    BY <1>14, <2>1, <2>2, FilesAdds DEF AnswerLoad, EditStages
  <2>3. CASE ~Loads(c) /\ Goes(s, "leave")
    <3>1. ASSUME NEW d \in Convs \ {c} PROVE FilePlace(d)'
      <4>1. (d \in overlapped') <=> (d \in overlapped)
        BY <2>1 DEF Overlap
      <4>. QED
        BY <2>1, <2>3, <4>1, OthersKept DEF Goes
    <3>2. ~Fresh(c)'
      BY <2>1, DesktopAssumption DEF IdsInPlace, Fresh
    <3>3. FilePlace(c)'
      <4>1. CASE Editing(c) \/ c \in overlapped
        BY <2>1, <3>2, <4>1 DEF FilePlace, Overlap
      <4>2. CASE ~Editing(c) /\ c \notin overlapped
        <5>1. \A y \in Sends : ~Edits(y, c)
          BY <4>2, EditingEdits
        <5>2. \A y \in Sends : ~Edits(y, c)'
          BY <2>3, <5>1 DEF Goes, Sets, Edits, EditStages
        <5>. QED
          BY <2>1, <3>2, <4>2, <5>2 DEF FilesInPlace, FilePlace
      <4>. QED
        BY <4>1, <4>2
    <3>. QED
      BY <3>1, <3>3 DEF FilesInPlace
  <2>. QED
    BY <1>14, <2>2, <2>3, AnswerLoadDoes
<1>15. ASSUME NEW s \in Sends, Leave(s) PROVE FilesInPlace'
  <2>1. UNCHANGED <<files, saved, spoilt, deleted, overlapped>> /\ send[s].stage \notin EditStages
    BY <1>15 DEF Leave, EditStages, history
  <2>. QED
    BY <2>1, <1>15, LeaveDoes, FilesKept DEF Goes, EditStages
<1>16. ASSUME NEW s \in Sends, Reload(s) PROVE FilesInPlace'
  <2>1. CASE Goes(s, "relist")
    BY <1>16, <2>1, FilesKept DEF Reload, Goes, Turns, Ends, EditStages, history
  <2>2. CASE Turns(s, "reload")
    BY <1>16, <2>2, FilesKept DEF Reload, Goes, Turns, Ends, EditStages, history
  <2>. QED
    BY <1>16, <2>1, <2>2, ReloadDoes
<1>17. ASSUME NEW s \in Sends, Reloaded(s) PROVE FilesInPlace'
  <2>1. CASE Goes(s, "relist")
    BY <1>17, <2>1, FilesKept DEF Reloaded, Goes, Turns, Ends, EditStages, history
  <2>2. CASE Ends(s)
    BY <1>17, <2>2, FilesKept DEF Reloaded, Goes, Turns, Ends, EditStages, history
  <2>. QED
    BY <1>17, <2>1, <2>2, ReloadedDoes
<1>18. ASSUME NEW s \in Sends, End(s) PROVE FilesInPlace'
  BY <1>18, EndDoes, FilesKept DEF End, Goes, Ends, EditStages, history
<1>19. ASSUME Stop PROVE FilesInPlace'
  BY <1>19, FilesUntouched DEF Stop, state, window, history
<1>20. ASSUME CancelGeneration PROVE FilesInPlace'
  BY <1>20, FilesUntouched DEF CancelGeneration, state, window, history
<1>21. ASSUME NEW k \in Clicks, NEW c \in Convs, Click(k, c) PROVE FilesInPlace'
  BY <1>21, FilesUntouched DEF Click, state, window, history
<1>22. ASSUME NEW k \in Clicks, Selected(k) PROVE FilesInPlace'
  BY <1>22, FilesUntouched DEF Selected, state, window, history
<1>23. ASSUME NEW k \in Clicks, Delete(k) PROVE FilesInPlace'
  <2>. PICK c \in Convs : c = click[k].conv
    BY <1>23 DEF Delete, TypeOK, CallTypes
  <2>1. /\ DOMAIN files' = DOMAIN files \ {c} /\ \A d \in DOMAIN files \ {c} : files'[d] = files[d]
        /\ deleted' = deleted \cup {c} /\ overlapped' = Overlap(c)
        /\ saved' = saved /\ spoilt' = spoilt
    BY <1>23 DEF Delete, Restrict
  <2>2. \A y \in Sends :
            /\ send'[y].stage = send[y].stage /\ send'[y].conv = send[y].conv
            /\ send'[y].copy = send[y].copy
            /\ send[y].conv # c => send'[y].linked = send[y].linked
    BY <1>23, SetDelete DEF TypeOK
  <2>3. ASSUME NEW d \in Convs \ {c} PROVE FilePlace(d)'
    <3>1. \A y \in Sends : Edits(y, d)' <=> Edits(y, d)
      BY <2>2 DEF Edits
    <3>2. \A y \in Sends : Edits(y, d) =>
              send'[y].conv = d /\ send'[y].stage = send[y].stage /\ send'[y].copy = send[y].copy
              /\ send'[y].linked = send[y].linked
      BY <2>2 DEF Edits
    <3>3. (d \in overlapped') <=> (d \in overlapped)
      BY <2>1 DEF Overlap
    <3>. QED
      BY <2>1, <3>1, <3>2, <3>3, ConvKept DEF FilesInPlace
  <2>4. FilePlace(c)'
    <3>1. ~Fresh(c)' /\ c \notin DOMAIN files'
      BY <2>1 DEF Fresh
    <3>2. CASE Editing(c)
      BY <2>1, <3>1, <3>2 DEF FilePlace, Overlap
    <3>3. CASE ~Editing(c)
      <4>1. \A y \in Sends : ~Edits(y, c)
        BY <3>3, EditingEdits
      <4>2. \A y \in Sends : ~Edits(y, c)'
        BY <2>2, <4>1 DEF Edits
      <4>. QED
        BY <3>1, <4>2 DEF FilePlace
    <3>. QED
      BY <3>2, <3>3
  <2>. QED
    BY <2>3, <2>4 DEF FilesInPlace
<1>24. ASSUME NEW k \in Clicks, DeleteReply(k) PROVE FilesInPlace'
  BY <1>24, FilesUntouched DEF DeleteReply, state, window, history
<1>25. ASSUME NEW k \in Clicks, Create(k) PROVE FilesInPlace'
  <2>. PICK c \in Convs : c = click[k].conv
    BY <1>25 DEF Create, TypeOK, CallTypes
  <2>1. /\ UNCHANGED <<saved, spoilt, deleted, overlapped, send>> /\ files' = Put(files, c, Whole(<<>>))
        /\ Fresh(c)
    BY <1>25 DEF Create, IdsInPlace, history
  <2>2. /\ c \in DOMAIN files' /\ files'[c] = Whole(<<>>)
        /\ \A d \in Convs \ {c} : /\ (d \in DOMAIN files') <=> (d \in DOMAIN files)
                                  /\ d \in DOMAIN files => files'[d] = files[d]
    BY <2>1 DEF Put
  <2>3. \A y \in Sends : \A d : Edits(y, d)' <=> Edits(y, d)
    BY <2>1 DEF Edits
  <2>4. ASSUME NEW d \in Convs \ {c} PROVE FilePlace(d)'
    <3>1. \A y \in Sends : Edits(y, d) => send[y].conv = d
      BY DEF Edits
    <3>. QED
      BY <2>1, <2>2, <2>3, <3>1, ConvKept DEF FilesInPlace
  <2>5. FilePlace(c)'
    <3>1. \A y \in Sends : ~Edits(y, c)'
      BY <2>1, <2>3, DesktopAssumption DEF IdsInPlace, Edits
    <3>2. saved'[c] = <<>> /\ c \notin deleted' /\ c \notin spoilt'
      BY <2>1 DEF FilesInPlace, FilePlace, Fresh
    <3>. QED
      BY <2>2, <3>1, <3>2 DEF FilePlace, Fresh
  <2>. QED
    BY <2>4, <2>5 DEF FilesInPlace
<1>26. ASSUME NEW k \in Clicks, CreateReply(k) PROVE FilesInPlace'
  BY <1>26, FilesUntouched DEF CreateReply, state, window, history
<1>27. ASSUME NEW i \in Images, AddImage(i) PROVE FilesInPlace'
  BY <1>27, FilesUntouched DEF AddImage, state, window, history
<1>28. ASSUME NEW i \in Images, Check(i) PROVE FilesInPlace'
  BY <1>28, FilesUntouched DEF Check, state, window, history
<1>29. ASSUME NEW i \in Images, EncodeFails(i) PROVE FilesInPlace'
  BY <1>29, FilesUntouched DEF EncodeFails, state, window, history
<1>30. ASSUME NEW i \in Images, Store(i) PROVE FilesInPlace'
  BY <1>30, FilesUntouched DEF Store, state, window, history
<1>31. ASSUME NEW i \in Images, Encoded(i) PROVE FilesInPlace'
  BY <1>31, FilesUntouched DEF Encoded, state, window, history
<1>32. ASSUME NEW i \in Images, RemoveImage(i) PROVE FilesInPlace'
  BY <1>32, FilesUntouched DEF RemoveImage, state, window, history
<1>33. ASSUME NEW i \in Images, CancelVision(i) PROVE FilesInPlace'
  BY <1>33, FilesUntouched DEF CancelVision, state, window, history
<1>34. ASSUME NEW i \in Images, DropEmbedding(i) PROVE FilesInPlace'
  BY <1>34, FilesUntouched DEF DropEmbedding, state, window, history
<1>35. ASSUME NEW i \in Images, RemoveReply(i) PROVE FilesInPlace'
  BY <1>35, FilesUntouched DEF RemoveReply, state, window, history
<1>36. ASSUME NEW s \in Sends, AddFails(s) PROVE FilesInPlace'
  <2>1. send[s].conv \in Convs
    BY <1>36, CallConv DEF AddFails, TypeOK
  <2>. QED
    BY <1>36, <2>1, AddFailsDoes, FilesFail DEF AddFails, Ends, EditStages
<1>37. ASSUME NEW s \in Sends, AnswerFails(s) PROVE FilesInPlace'
  <2>1. send[s].conv \in Convs
    BY <1>37, CallConv DEF AnswerFails, TypeOK
  <2>2. Sets(s, "leave", send[s].conv, send[s].images, <<>>, send[s].linked)
    BY <1>37, AnswerFailsDoes
  <2>3. SaveFails(s) /\ UNCHANGED <<saved, deleted, overlapped>>
    BY <1>37 DEF AnswerFails
  <2>4. "leave" \notin EditStages
    BY DEF EditStages
  <2>. QED
    BY <2>1, <2>2, <2>3, <2>4, FilesFail
<1>38. ASSUME NEW k \in Clicks, ClickFails(k) PROVE FilesInPlace'
  BY <1>38, FilesUntouched DEF ClickFails, state, window, history
<1>39. ASSUME NEW k \in Clicks, CreateFails(k) PROVE FilesInPlace'
  <2>. PICK c \in Convs : c = click[k].conv
    BY <1>39 DEF CreateFails, TypeOK, CallTypes
  <2>1. UNCHANGED <<saved, deleted, overlapped, send>> /\ Fresh(c)
    BY <1>39 DEF CreateFails, IdsInPlace
  <2>2. CASE UNCHANGED <<files, spoilt>>
    BY <2>1, <2>2, FilesUntouched
  <2>3. CASE files' = Put(files, c, Truncated) /\ spoilt' = spoilt \cup {c}
    <3>1. /\ c \in DOMAIN files' /\ files'[c] = Truncated
          /\ \A d \in Convs \ {c} : /\ (d \in DOMAIN files') <=> (d \in DOMAIN files)
                                    /\ d \in DOMAIN files => files'[d] = files[d]
      BY <2>3 DEF Put
    <3>2. \A y \in Sends : \A d : Edits(y, d)' <=> Edits(y, d)
      BY <2>1 DEF Edits
    <3>3. ASSUME NEW d \in Convs \ {c} PROVE FilePlace(d)'
      <4>1. \A y \in Sends : Edits(y, d) => send[y].conv = d
        BY DEF Edits
      <4>. QED
        BY <2>1, <2>3, <3>1, <3>2, <4>1, ConvKept DEF FilesInPlace
    <3>4. FilePlace(c)'
      <4>1. \A y \in Sends : ~Edits(y, c)'
        BY <2>1, <3>2, DesktopAssumption DEF IdsInPlace, Edits
      <4>2. c \notin deleted'
        BY <2>1 DEF Fresh
      <4>3. c \in spoilt' /\ ~files'[c].whole
        BY <2>3, <3>1 DEF Truncated
      <4>. QED
        BY <3>1, <4>1, <4>2, <4>3 DEF FilePlace, Fresh
    <3>. QED
      BY <3>3, <3>4 DEF FilesInPlace
  <2>. QED
    BY <1>39, <2>2, <2>3 DEF CreateFails
<1>. QED
  BY <1>1, <1>2, <1>3, <1>4, <1>5, <1>6, <1>7, <1>8, <1>9, <1>10, <1>11, <1>12, <1>13, <1>14, <1>15, <1>16, <1>17, <1>18, <1>19, <1>20, <1>21, <1>22, <1>23, <1>24, <1>25, <1>26, <1>27, <1>28, <1>29, <1>30, <1>31, <1>32, <1>33, <1>34, <1>35, <1>36, <1>37, <1>38, <1>39 DEF Next

---------------------------------------------------------------------------
(* The theorems *)

\* The invariant holds before the first call.
THEOREM InitIInv == Init => IInv
<1> SUFFICES ASSUME Init PROVE IInv
  OBVIOUS
<1>1. PICK S \in SUBSET Convs : files = [c \in S |-> Whole(<<>>)] /\ active \in S
  BY DEF Init
<1>2. DOMAIN files = S /\ \A c \in S : files[c] = Whole(<<>>)
  BY <1>1
<1>3. NotSent \in SendType /\ NotSent.stage = "new" /\ NotSent.conv = None /\ NotSent.images = {}
  BY NoMessage DEF NotSent, SendType, SendStages, EarlyStages
<1>4. /\ send \in [Sends -> SendType]
      /\ \A s \in Sends : send[s].stage = "new" /\ send[s].conv = None /\ send[s].images = {}
  BY <1>3 DEF Init
<1>5. /\ click \in [Clicks -> ClickType]
      /\ \A k \in Clicks : click[k].stage = "new" /\ click[k].conv = None
  BY DEF Init, ClickType, ClickStages
<1>6. DOMAIN pending = {} /\ pending \in [DOMAIN pending -> ImageStatus]
  BY DEF Init, Restrict
<1>7. FileTypes
  <2>1. Whole(<<>>) \in File
    BY FileRecords, NoMessage
  <2>2. files \in [DOMAIN files -> File]
    BY <1>1, <2>1
  <2>. QED
    BY <1>2, <2>2, NoMessage DEF Init, FileTypes
<1>8. CallTypes
  BY <1>4, <1>5 DEF Init, CallTypes, EditStages
<1>9. ImageTypes
  BY <1>6 DEF Init, ImageTypes, EncodeStages, RemoveStages
<1>10. TypeOK
  BY <1>1, <1>7, <1>8, <1>9 DEF Init, TypeOK
<1>11. Flags
  <2>1. \A s \in Sends : ~(Running(s) \/ send[s].stage = "stuck")
    BY <1>4 DEF Running
  <2>2. Generations = {}
    BY <2>1 DEF Generations
  <2>. QED
    BY <2>2 DEF Init, Flags
<1>12. ImagesInPlace
  BY <1>4, <1>6 DEF Init, ImagesInPlace
<1>13. IdsInPlace
  BY <1>1, <1>2, <1>4, <1>5 DEF IdsInPlace, Fresh
<1>14. FilesInPlace
  <2>1. \A c \in Convs : saved[c] = <<>>
    BY DEF Init
  <2>2. \A c \in Convs, s \in Sends : ~Edits(s, c)
    BY <1>4 DEF Edits, EditStages
  <2>3. \A c \in Convs : c \in DOMAIN files => files[c] = Whole(saved[c])
    BY <1>2, <2>1
  <2>4. deleted = {} /\ spoilt = {}
    BY DEF Init
  <2>. QED
    BY <2>1, <2>2, <2>3, <2>4 DEF FilesInPlace, FilePlace
<1>. QED
  BY <1>10, <1>11, <1>12, <1>13, <1>14 DEF IInv

\* Every step of every call, click and image keeps it.
THEOREM StepIInv == IInv /\ [Next]_vars => IInv'
<1> SUFFICES ASSUME IInv, [Next]_vars PROVE IInv'
  OBVIOUS
<1>1. CASE Next
  <2>1. TypeOK'
    BY <1>1, StepTypes, StepFileTypes, StepCallTypes, StepImageTypes DEF IInv, TypeOK
  <2>. QED
    BY <1>1, <2>1, StepFlags, StepImages, StepIds, StepFiles DEF IInv
<1>2. CASE UNCHANGED vars
  <2>1. UNCHANGED <<files, generating, cancel_flag, embeddings, cancel_vision, active, busy, pending,
                    send, click, encode, remove, stopping, saved, spoilt, deleted, overlapped,
                    asked, stopped>>
    BY <1>2 DEF vars, state, window, history
  <2>2. TypeOK'
    BY <2>1 DEF IInv, TypeOK, FileTypes, CallTypes, ImageTypes
  <2>3. Flags'
    BY <2>1 DEF IInv, Flags, Generations, Running
  <2>4. ImagesInPlace'
    BY <2>1 DEF IInv, ImagesInPlace
  <2>5. IdsInPlace'
    BY <2>1 DEF IInv, IdsInPlace, Fresh
  <2>6. FilesInPlace'
    BY <2>1, FilesUntouched DEF IInv
  <2>. QED
    BY <2>2, <2>3, <2>4, <2>5, <2>6 DEF IInv
<1>. QED
  BY <1>1, <1>2

\* The invariant holds of every reachable state.
THEOREM Inductive == Spec => []IInv
  BY InitIInv, StepIInv, PTL DEF Spec

\* Every call, file, image and flag stays what it can be.
THEOREM TypeCorrect == Spec => []TypeOK
<1>1. IInv => TypeOK
  BY DEF IInv
<1>. QED
  BY <1>1, Inductive, PTL

\* However many messages are sent, whatever is deleted or created meanwhile, and
\* whichever files cannot be read or written: a file that loads holds the messages
\* whose saving succeeded, all of them and in order, one that a failed save has
\* emptied does not load again, and a deleted conversation does not come back,
\* unless two commands were changing the conversation at once.
THEOREM MessagesAreKept == Spec => []Kept
<1>1. IInv => Kept
  BY DEF IInv, Kept, FilesInPlace, FilePlace
<1>. QED
  BY <1>1, Inductive, PTL

\* The generating flag is set exactly while one call generates or has panicked,
\* and the window waits only for a call that is to end.
THEOREM FlagsAreAccounted == Spec => []FlagsAccounted
<1>1. IInv => FlagsAccounted
  <2> SUFFICES ASSUME IInv PROVE FlagsAccounted
    OBVIOUS
  <2>1. Cardinality(Generations) = IF generating THEN 1 ELSE 0
    <3>1. CASE generating
      <4>1. PICK s \in Sends : Generations = {s}
        BY <3>1 DEF IInv, Flags
      <4>. QED
        BY <3>1, <4>1, FS_Singleton
    <3>2. CASE ~generating
      BY <3>2, FS_EmptySet DEF IInv, Flags
    <3>. QED
      BY <3>1, <3>2
  <2>2. busy => \E s \in Sends : \/ Running(s)
                                \/ send[s].stage \in {"gen", "failed", "stuck", "done", "reload", "relist"}
    BY DEF IInv, Flags, WaitStages, RunStages, Running
  <2>. QED
    BY <2>1, <2>2 DEF FlagsAccounted, Generations
<1>. QED
  BY <1>1, Inductive, PTL

\* A generation that stops early was asked to.
THEOREM OnlyAskedStop == Spec => []StoppedIfAsked
<1>1. IInv => StoppedIfAsked
  BY DEF IInv, Flags, StoppedIfAsked
<1>. QED
  BY <1>1, Inductive, PTL

\* An image shown as ready has its embedding stored, or with the message being
\* sent, or is about to go.
THEOREM ReadyImagesAreStored == Spec => []ReadyIsStored
<1>1. IInv => ReadyIsStored
  <2> SUFFICES ASSUME IInv, NEW i \in DOMAIN pending, pending[i] = "ready"
               PROVE  \/ i \in embeddings \/ remove[i] # "new"
                      \/ \E s \in Sends : i \in send[s].images /\ send[s].stage # "ended"
    BY DEF ReadyIsStored
  <2>1. i \in Images
    BY DEF IInv, TypeOK, ImageTypes
  <2>. QED
    BY <2>1 DEF IInv, ImagesInPlace, EarlyStages
<1>. QED
  BY <1>1, Inductive, PTL
==============================================================================
