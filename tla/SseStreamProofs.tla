--------------------------- MODULE SseStreamProofs ---------------------------
(***************************************************************************)
(* Proofs about the content blocks of a response, for any number of tokens:*)
(* the events of a disciplined model are in order, the blocks of any model *)
(* are closed at the end, and the JSON response has the blocks of the      *)
(* stream.  What several events do to a receiver is proved first, by       *)
(* induction over their number; then what the loop's flags say of both     *)
(* receivers is shown to hold from token to token.                         *)
(***************************************************************************)
EXTENDS SseStream, FiniteSetTheorems, SequenceTheorems, WellFoundedInduction, TLAPS

---------------------------------------------------------------------------
(* Induction over the natural numbers, for a set instead of a predicate: the
   library's theorem takes the predicate as a parameter *)

Smaller == {p \in Nat \X Nat : p[1] < p[2]}

\* A set with 0 that has with every number the next one has them all: no number is
\* the smallest that is missing.
LEMMA SetInduction ==
    ASSUME NEW S, 0 \in S, \A n \in Nat : n \in S => n + 1 \in S
    PROVE  \A n \in Nat : n \in S
<1> DEFINE T == {n \in Nat : n \notin S}
<1> SUFFICES ASSUME T # {} PROVE FALSE
  OBVIOUS
<1>1. IsWellFoundedOn(Smaller, Nat)
  BY NatLessThanWellFounded DEF OpToRel, Smaller
<1>2. PICK n \in T : \A k \in T : ~(<<k, n>> \in Smaller)
  BY <1>1, WFMin
<1>3. n # 0 /\ n - 1 \in T
  OBVIOUS
<1>4. <<n - 1, n>> \in Smaller
  BY <1>3 DEF Smaller
<1>. QED
  BY <1>2, <1>3, <1>4

---------------------------------------------------------------------------
(* Events, one after another *)

\* The states of the receivers, event after event.
IsRun(f, st, es, n) ==
    f = [k \in 0 .. n |-> IF k = 0 THEN st ELSE Take(f[k - 1], es[k])]

\* There is such a function, for any number of events.
LEMMA RunExists ==
    ASSUME NEW st, NEW es
    PROVE  \A n \in Nat : \E f : IsRun(f, st, es, n)
<1> DEFINE S == {n \in Nat : \E f : IsRun(f, st, es, n)}
<1>1. 0 \in S
  <2> DEFINE f == [k \in 0 .. 0 |-> st]
  <2>1. IsRun(f, st, es, 0)
    BY DEF IsRun
  <2>. QED
    BY <2>1
<1>2. ASSUME NEW n \in Nat, n \in S PROVE n + 1 \in S
  <2>1. PICK f : IsRun(f, st, es, n)
    BY <1>2
  <2> DEFINE g == [k \in 0 .. n + 1 |-> IF k \in 0 .. n THEN f[k] ELSE Take(f[n], es[n + 1])]
  <2>2. ASSUME NEW k \in 0 .. n + 1
        PROVE  g[k] = IF k = 0 THEN st ELSE Take(g[k - 1], es[k])
    <3>1. CASE k = n + 1
      BY <3>1
    <3>2. CASE k \in 1 .. n
      BY <2>1, <3>2 DEF IsRun
    <3>3. CASE k = 0
      BY <2>1, <3>3 DEF IsRun
    <3>. QED
      BY <3>1, <3>2, <3>3
  <2>3. g = [k \in 0 .. n + 1 |-> g[k]]
    OBVIOUS
  <2> HIDE DEF g
  <2>4. IsRun(g, st, es, n + 1)
    BY <2>2, <2>3 DEF IsRun
  <2>. QED
    BY <2>4
<1> HIDE DEF S
<1>3. \A n \in Nat : n \in S
  BY <1>1, <1>2, SetInduction
<1>. QED
  BY <1>3 DEF S

\* After is the last state of one of them.
LEMMA AfterRun ==
    ASSUME NEW st, NEW es, Len(es) \in Nat
    PROVE  \E f : IsRun(f, st, es, Len(es)) /\ After(st, es) = f[Len(es)]
<1> DEFINE g == CHOOSE f : f = [k \in 0 .. Len(es) |-> IF k = 0 THEN st ELSE Take(f[k - 1], es[k])]
<1>1. PICK h : h = [k \in 0 .. Len(es) |-> IF k = 0 THEN st ELSE Take(h[k - 1], es[k])]
  <2>1. PICK h : IsRun(h, st, es, Len(es))
    BY RunExists
  <2>. QED
    BY <2>1 DEF IsRun
<1>2. g = [k \in 0 .. Len(es) |-> IF k = 0 THEN st ELSE Take(g[k - 1], es[k])]
  BY <1>1
<1>3. After(st, es) = g[Len(es)]
  BY DEF After
<1>. QED
  BY <1>2, <1>3 DEF IsRun

\* Two runs of the same events are the same, event by event.
LEMMA RunUnique ==
    ASSUME NEW st, NEW es, NEW ds, NEW n \in Nat, NEW p \in Nat, NEW f, NEW g,
           IsRun(f, st, es, n), IsRun(g, st, ds, p), \A k \in 1 .. n : k <= p /\ es[k] = ds[k]
    PROVE  \A k \in 0 .. n : f[k] = g[k]
<1> DEFINE S == {k \in Nat : k <= n => f[k] = g[k]}
<1>1. 0 \in S
  BY DEF IsRun
<1>2. ASSUME NEW k \in Nat, k \in S PROVE k + 1 \in S
  <2>1. CASE k + 1 <= n
    <3>1. f[k] = g[k]
      BY <1>2, <2>1
    <3>2. f[k + 1] = Take(f[k], es[k + 1])
      BY <2>1 DEF IsRun
    <3>3. g[k + 1] = Take(g[k], ds[k + 1])
      BY <2>1 DEF IsRun
    <3>4. es[k + 1] = ds[k + 1]
      BY <2>1
    <3>. QED
      BY <3>1, <3>2, <3>3, <3>4
  <2>2. CASE ~(k + 1 <= n)
    BY <2>2
  <2>. QED
    BY <2>1, <2>2
<1> HIDE DEF S
<1>3. \A k \in Nat : k \in S
  BY <1>1, <1>2, SetInduction
<1>. QED
  BY <1>3 DEF S

\* No event changes nothing.
LEMMA AfterNone == ASSUME NEW st PROVE After(st, <<>>) = st
<1>1. Len(<<>>) = 0
  OBVIOUS
<1>2. PICK f : IsRun(f, st, <<>>, 0) /\ After(st, <<>>) = f[0]
  BY <1>1, AfterRun
<1>. QED
  BY <1>2 DEF IsRun

\* One event.
LEMMA AfterOne == ASSUME NEW st, NEW e PROVE After(st, <<e>>) = Take(st, e)
<1> DEFINE es == <<e>>
<1>1. Len(es) = 1 /\ es[1] = e
  OBVIOUS
<1> HIDE DEF es
<1>2. PICK f : IsRun(f, st, es, 1) /\ After(st, es) = f[1]
  BY <1>1, AfterRun
<1>3. f[0] = st /\ f[1] = Take(f[0], es[1])
  BY <1>2 DEF IsRun
<1>. QED
  BY <1>1, <1>2, <1>3 DEF es

\* Events, and then others.
LEMMA AfterBoth ==
    ASSUME NEW E, NEW st, NEW es \in Seq(E), NEW ds \in Seq(E)
    PROVE  After(st, es \o ds) = After(After(st, es), ds)
<1> DEFINE n == Len(es)
           p == Len(ds)
           c == es \o ds
<1>1. /\ n \in Nat /\ p \in Nat /\ Len(c) = n + p
      /\ \A k \in 1 .. n : c[k] = es[k]
      /\ \A k \in 1 .. p : c[n + k] = ds[k]
  BY ConcatProperties
<1> HIDE DEF n, p, c
<1>2. PICK f : IsRun(f, st, c, n + p) /\ After(st, c) = f[n + p]
  BY <1>1, AfterRun
<1>3. PICK g : IsRun(g, st, es, n) /\ After(st, es) = g[n]
  BY <1>1, AfterRun DEF n
<1>4. PICK h : IsRun(h, After(st, es), ds, p) /\ After(After(st, es), ds) = h[p]
  BY <1>1, AfterRun DEF p
<1>5. g[n] = f[n]
  <2>1. \A k \in 1 .. n : k <= n + p /\ es[k] = c[k]
    BY <1>1
  <2>2. \A k \in 0 .. n : g[k] = f[k]
    BY <1>1, <1>2, <1>3, <2>1, RunUnique
  <2>. QED
    BY <1>1, <2>2
<1>6. f[n + p] = h[p]
  <2> DEFINE r == [k \in 0 .. p |-> f[n + k]]
  <2>1. \A k \in 0 .. p : r[k] = IF k = 0 THEN After(st, es) ELSE Take(r[k - 1], ds[k])
    <3>1. r[0] = After(st, es)
      BY <1>1, <1>3, <1>5
    <3>2. ASSUME NEW k \in 1 .. p PROVE r[k] = Take(r[k - 1], ds[k])
      <4>1. f[n + k] = Take(f[n + k - 1], c[n + k])
        BY <1>1, <1>2, SMTT(30) DEF IsRun
      <4>2. r[k] = f[n + k] /\ r[k - 1] = f[n + k - 1]
        BY <1>1
      <4>. QED
        BY <1>1, <4>1, <4>2
    <3> HIDE DEF r
    <3>3. ASSUME NEW k \in 0 .. p
          PROVE  r[k] = IF k = 0 THEN After(st, es) ELSE Take(r[k - 1], ds[k])
      <4>1. CASE k = 0
        BY <3>1, <4>1
      <4>2. CASE k # 0
        <5>1. k \in 1 .. p
          BY <1>1, <4>2
        <5>. QED
          BY <3>2, <4>2, <5>1
      <4>. QED
        BY <4>1, <4>2
    <3>. QED
      BY <3>3
  <2>2. r = [k \in 0 .. p |-> r[k]] /\ r[p] = f[n + p]
    BY <1>1
  <2> HIDE DEF r
  <2>3. IsRun(r, After(st, es), ds, p)
    BY <2>1, <2>2 DEF IsRun
  <2>4. \A k \in 1 .. p : k <= p /\ ds[k] = ds[k]
    OBVIOUS
  <2>5. \A k \in 0 .. p : r[k] = h[k]
    BY <1>1, <1>4, <2>3, <2>4, RunUnique
  <2>. QED
    BY <1>1, <2>2, <2>5
<1>. QED
  BY <1>2, <1>4, <1>6 DEF c

---------------------------------------------------------------------------
(* The receivers, event by event *)

Kinds == {"text", "thinking", "tool_use"}
Block == [kind : Kinds, size : Nat]
Client == [blocks : Seq(Block), open : SUBSET Nat, orderly : BOOLEAN]
Json == [blocks : Seq(Block), current_tool : BOOLEAN, current_block_type : Kinds \cup {"none"},
         size : [{"text", "thinking"} -> Nat]]
Receivers == [client : Client, json : Json]
Event == [type : {"start", "delta", "stop"}, index : Nat, kind : Kinds \cup {"none"}]

HasTool(bs) == \E i \in DOMAIN bs : bs[i].kind = "tool_use"

\* The fields of a pair of receivers.
LEMMA ReceiverFields ==
    ASSUME NEW st \in Receivers
    PROVE  /\ st.client \in Client /\ st.json \in Json
           /\ st.client.blocks \in Seq(Block) /\ st.client.open \subseteq Nat
           /\ st.client.orderly \in BOOLEAN
           /\ st.json.blocks \in Seq(Block) /\ st.json.current_tool \in BOOLEAN
           /\ st.json.current_block_type \in Kinds \cup {"none"}
           /\ st.json.size \in [{"text", "thinking"} -> Nat]
  BY DEF Receivers, Client, Json

---------------------------------------------------------------------------
(* What the receivers make of an event of each type.  The definitions by    *)
(* cases are opened here, once.                                             *)

\* A client and a start.
LEMMA ReceiveStartForm ==
    ASSUME NEW cl, NEW n, NEW k
    PROVE  Receive(cl, Start(n, k)) =
               [blocks  |-> Append(cl.blocks, [kind |-> k, size |-> 0]),
                open    |-> cl.open \cup {n},
                orderly |-> cl.orderly /\ cl.open = {} /\ n = Len(cl.blocks)]
<1> DEFINE e == Start(n, k)
<1>1. e.type = "start" /\ e.index = n /\ e.kind = k
  BY DEF Start
<1> HIDE DEF e
<1>2. Receive(cl, e) =
            [blocks  |-> Append(cl.blocks, [kind |-> e.kind, size |-> 0]),
             open    |-> cl.open \cup {e.index},
             orderly |-> cl.orderly /\ cl.open = {} /\ e.index = Len(cl.blocks)]
  BY <1>1, "start" # "delta", "start" # "stop", Zenon DEF Receive
<1>. QED
  BY <1>1, <1>2, Zenon DEF e

\* A client and a delta.
LEMMA ReceiveDeltaForm ==
    ASSUME NEW cl, NEW n, NEW k
    PROVE  Receive(cl, Delta(n, k)) =
               IF n \in cl.open /\ n = Len(cl.blocks) - 1 /\ cl.blocks[n + 1].kind = k
               THEN [cl EXCEPT !.blocks[n + 1].size = @ + 1]
               ELSE [cl EXCEPT !.orderly = FALSE]
<1> DEFINE e == Delta(n, k)
<1>1. e.type = "delta" /\ e.index = n /\ e.kind = k
  BY DEF Delta
<1> HIDE DEF e
<1>2. Receive(cl, e) =
            IF e.index \in cl.open /\ e.index = Len(cl.blocks) - 1
               /\ cl.blocks[e.index + 1].kind = e.kind
            THEN [cl EXCEPT !.blocks[e.index + 1].size = @ + 1]
            ELSE [cl EXCEPT !.orderly = FALSE]
  BY <1>1, "start" # "delta", "delta" # "stop", Zenon DEF Receive
<1>. QED
  BY <1>1, <1>2, Zenon DEF e

\* A client and a stop.
LEMMA ReceiveStopForm ==
    ASSUME NEW cl, NEW n
    PROVE  Receive(cl, Stop(n)) =
               [cl EXCEPT !.open = @ \ {n}, !.orderly = @ /\ n \in cl.open]
<1> DEFINE e == Stop(n)
<1>1. e.type = "stop" /\ e.index = n
  BY DEF Stop
<1> HIDE DEF e
<1>2. Receive(cl, e) = [cl EXCEPT !.open = @ \ {e.index}, !.orderly = @ /\ e.index \in cl.open]
  BY <1>1, "start" # "stop", "delta" # "stop", Zenon DEF Receive
<1>. QED
  BY <1>1, <1>2, Zenon DEF e

\* The JSON path and a start.
LEMMA CollectStartForm ==
    ASSUME NEW js, NEW n, NEW k
    PROVE  Collect(js, Start(n, k)) =
               IF k = "tool_use" THEN [js EXCEPT !.current_tool = TRUE]
                                 ELSE [js EXCEPT !.current_block_type = k]
<1> DEFINE e == Start(n, k)
<1>1. e.type = "start" /\ e.index = n /\ e.kind = k
  BY DEF Start
<1> HIDE DEF e
<1>2. Collect(js, e) = IF e.kind = "tool_use" THEN [js EXCEPT !.current_tool = TRUE]
                                             ELSE [js EXCEPT !.current_block_type = e.kind]
  BY <1>1, "start" # "delta", "start" # "stop", Zenon DEF Collect
<1>. QED
  BY <1>1, <1>2, Zenon DEF e

\* The JSON path and a delta.
LEMMA CollectDeltaForm ==
    ASSUME NEW js, NEW n, NEW k
    PROVE  Collect(js, Delta(n, k)) =
               IF k = "tool_use" THEN js ELSE [js EXCEPT !.size[k] = @ + 1]
<1> DEFINE e == Delta(n, k)
<1>1. e.type = "delta" /\ e.index = n /\ e.kind = k
  BY DEF Delta
<1> HIDE DEF e
<1>2. Collect(js, e) = IF e.kind = "tool_use" THEN js ELSE [js EXCEPT !.size[e.kind] = @ + 1]
  BY <1>1, "start" # "delta", "delta" # "stop", Zenon DEF Collect
<1>. QED
  BY <1>1, <1>2, Zenon DEF e

\* The block that a stop completes, and the sizes it leaves.
Completed(js) == [kind |-> Finished(js),
               size |-> IF Finished(js) \in DOMAIN js.size THEN js.size[Finished(js)] ELSE 1]
SizesLeft(js) == [q \in DOMAIN js.size |-> IF q = Finished(js) THEN 0 ELSE js.size[q]]

\* The JSON path and a stop.
LEMMA CollectStopForm ==
    ASSUME NEW js, NEW n
    PROVE  Collect(js, Stop(n)) =
               [js EXCEPT !.blocks = Append(@, Completed(js)), !.size = SizesLeft(js),
                          !.current_tool = FALSE, !.current_block_type = "none"]
<1> DEFINE e == Stop(n)
<1>1. e.type = "stop"
  BY DEF Stop
<1> HIDE DEF e
<1>2. Collect(js, e) = [js EXCEPT !.blocks = Append(@, Completed(js)), !.size = SizesLeft(js),
                                 !.current_tool = FALSE, !.current_block_type = "none"]
  BY <1>1, "start" # "stop", "delta" # "stop", Zenon DEF Collect, Completed, SizesLeft
<1>. QED
  BY <1>2 DEF e

\* A start, for a client: a block more, whatever was open.
LEMMA ReceiveStart ==
    ASSUME NEW cl \in Client, NEW n \in Nat, NEW k \in Kinds
    PROVE  LET r == Receive(cl, Start(n, k))
           IN  /\ r \in Client
               /\ r.blocks = Append(cl.blocks, [kind |-> k, size |-> 0])
               /\ r.open = cl.open \cup {n}
               /\ r.orderly = (cl.orderly /\ cl.open = {} /\ n = Len(cl.blocks))
<1> DEFINE b == [kind |-> k, size |-> 0]
<1>1. b \in Block
  BY DEF Block
<1> HIDE DEF b
<1>2. Receive(cl, Start(n, k)) =
          [blocks |-> Append(cl.blocks, b), open |-> cl.open \cup {n},
           orderly |-> cl.orderly /\ cl.open = {} /\ n = Len(cl.blocks)]
  BY ReceiveStartForm DEF b
<1>3. cl.blocks \in Seq(Block) /\ cl.open \subseteq Nat
  BY DEF Client
<1>4. Append(cl.blocks, b) \in Seq(Block)
  BY <1>1, <1>3
<1>. QED
  BY <1>2, <1>3, <1>4 DEF Client, b

\* A delta: the kinds of the blocks stay.
LEMMA ReceiveDelta ==
    ASSUME NEW cl \in Client, NEW n \in Nat, NEW k \in Kinds
    PROVE  LET r == Receive(cl, Delta(n, k))
           IN  /\ r \in Client /\ r.open = cl.open
               /\ Len(r.blocks) = Len(cl.blocks)
               /\ \A i \in DOMAIN cl.blocks : r.blocks[i].kind = cl.blocks[i].kind
               /\ n \in cl.open /\ n = Len(cl.blocks) - 1 /\ cl.blocks[n + 1].kind = k =>
                      /\ r.orderly = cl.orderly
                      /\ r.blocks[n + 1] = [kind |-> k, size |-> cl.blocks[n + 1].size + 1]
                      /\ \A i \in DOMAIN cl.blocks \ {n + 1} : r.blocks[i] = cl.blocks[i]
<1>1. cl.blocks \in Seq(Block) /\ cl.open \subseteq Nat /\ cl.orderly \in BOOLEAN
  BY DEF Client
<1>2. CASE n \in cl.open /\ n = Len(cl.blocks) - 1 /\ cl.blocks[n + 1].kind = k
  <2> DEFINE bs == [cl.blocks EXCEPT ![n + 1].size = @ + 1]
  <2>1. Receive(cl, Delta(n, k)) = [cl EXCEPT !.blocks = bs]
    BY <1>2, ReceiveDeltaForm
  <2>2. n + 1 \in DOMAIN cl.blocks /\ cl.blocks[n + 1] \in Block
    BY <1>1, <1>2
  <2>3. [cl.blocks[n + 1] EXCEPT !.size = @ + 1] \in Block
    BY <2>2 DEF Block
  <2>4. /\ bs \in Seq(Block) /\ Len(bs) = Len(cl.blocks)
        /\ bs[n + 1] = [cl.blocks[n + 1] EXCEPT !.size = @ + 1]
        /\ \A i \in DOMAIN cl.blocks \ {n + 1} : bs[i] = cl.blocks[i]
    BY <1>1, <2>2, <2>3
  <2>5. /\ bs[n + 1].kind = cl.blocks[n + 1].kind
        /\ bs[n + 1] = [kind |-> k, size |-> cl.blocks[n + 1].size + 1]
    BY <1>2, <2>2, <2>4 DEF Block
  <2> HIDE DEF bs
  <2>6. \A i \in DOMAIN cl.blocks : bs[i].kind = cl.blocks[i].kind
    BY <2>4, <2>5
  <2>7. /\ Receive(cl, Delta(n, k)) \in Client /\ Receive(cl, Delta(n, k)).blocks = bs
        /\ Receive(cl, Delta(n, k)).open = cl.open /\ Receive(cl, Delta(n, k)).orderly = cl.orderly
    BY <2>1, <2>4 DEF Client
  <2>. QED
    BY <2>4, <2>5, <2>6, <2>7
<1>3. CASE ~(n \in cl.open /\ n = Len(cl.blocks) - 1 /\ cl.blocks[n + 1].kind = k)
  <2>1. Receive(cl, Delta(n, k)) = [cl EXCEPT !.orderly = FALSE]
    BY <1>3, ReceiveDeltaForm
  <2>2. /\ Receive(cl, Delta(n, k)) \in Client /\ Receive(cl, Delta(n, k)).blocks = cl.blocks
        /\ Receive(cl, Delta(n, k)).open = cl.open
    BY <2>1 DEF Client
  <2>. QED
    BY <1>3, <2>2
<1>. QED
  BY <1>2, <1>3

\* A stop.
LEMMA ReceiveStop ==
    ASSUME NEW cl \in Client, NEW n \in Nat
    PROVE  LET r == Receive(cl, Stop(n))
           IN  /\ r \in Client /\ r.blocks = cl.blocks /\ r.open = cl.open \ {n}
               /\ r.orderly = (cl.orderly /\ n \in cl.open)
<1>1. Receive(cl, Stop(n)) = [cl EXCEPT !.open = @ \ {n}, !.orderly = @ /\ n \in cl.open]
  BY ReceiveStopForm
<1>. QED
  BY <1>1 DEF Client

\* The collecting loop, field by field.
LEMMA CollectStart ==
    ASSUME NEW js \in Json, NEW n \in Nat, NEW k \in Kinds
    PROVE  LET r == Collect(js, Start(n, k))
           IN  /\ r \in Json /\ r.blocks = js.blocks /\ r.size = js.size
               /\ r.current_tool = (js.current_tool \/ k = "tool_use")
               /\ r.current_block_type = IF k = "tool_use" THEN js.current_block_type ELSE k
<1>1. Collect(js, Start(n, k)) = IF k = "tool_use" THEN [js EXCEPT !.current_tool = TRUE]
                                 ELSE [js EXCEPT !.current_block_type = k]
  BY CollectStartForm
<1>. QED
  BY <1>1 DEF Json

\* A delta of a text or a thought is counted.
LEMMA CollectDelta ==
    ASSUME NEW js \in Json, NEW n \in Nat, NEW k \in Kinds
    PROVE  LET r == Collect(js, Delta(n, k))
           IN  /\ r \in Json /\ r.blocks = js.blocks /\ r.current_tool = js.current_tool
               /\ r.current_block_type = js.current_block_type
               /\ k = "tool_use" => r.size = js.size
               /\ k # "tool_use" => /\ r.size[k] = js.size[k] + 1
                                    /\ \A q \in {"text", "thinking"} \ {k} : r.size[q] = js.size[q]
<1>1. Collect(js, Delta(n, k)) = IF k = "tool_use" THEN js ELSE [js EXCEPT !.size[k] = @ + 1]
  BY CollectDeltaForm
<1>2. CASE k = "tool_use"
  BY <1>1, <1>2
<1>3. CASE k # "tool_use"
  <2> DEFINE z == [js.size EXCEPT ![k] = @ + 1]
  <2>1. js.size \in [{"text", "thinking"} -> Nat]
    BY DEF Json
  <2>2. z \in [{"text", "thinking"} -> Nat]
    BY <2>1, <1>3 DEF Kinds
  <2>3. Collect(js, Delta(n, k)) = [js EXCEPT !.size = z]
    BY <1>1, <1>3
  <2>5. z[k] = js.size[k] + 1 /\ \A q \in {"text", "thinking"} \ {k} : z[q] = js.size[q]
    BY <2>1, <1>3 DEF Kinds
  <2> HIDE DEF z
  <2>4. /\ [js EXCEPT !.size = z] \in Json /\ [js EXCEPT !.size = z].size = z
        /\ [js EXCEPT !.size = z].blocks = js.blocks
        /\ [js EXCEPT !.size = z].current_tool = js.current_tool
        /\ [js EXCEPT !.size = z].current_block_type = js.current_block_type
    BY <2>2 DEF Json
  <2>. QED
    BY <2>3, <2>4, <2>5, <1>3
<1>. QED
  BY <1>2, <1>3

\* A stop completes the block that is collected.
LEMMA CollectStop ==
    ASSUME NEW js \in Json, NEW n \in Nat
    PROVE  LET r == Collect(js, Stop(n))
           IN  /\ r \in Json /\ r.blocks = Append(js.blocks, Completed(js))
               /\ r.size = SizesLeft(js) /\ r.current_tool = FALSE /\ r.current_block_type = "none"
<1> DEFINE b == Completed(js)
           z == SizesLeft(js)
<1>1. /\ js.blocks \in Seq(Block) /\ js.current_tool \in BOOLEAN
      /\ js.size \in [{"text", "thinking"} -> Nat]
  BY DEF Json
<1>2. Finished(js) \in Kinds
  BY DEF Finished, Kinds
<1>3. b \in Block
  <2>1. (IF Finished(js) \in DOMAIN js.size THEN js.size[Finished(js)] ELSE 1) \in Nat
    BY <1>1
  <2>. QED
    BY <1>2, <2>1 DEF Block, Completed
<1>4. z \in [{"text", "thinking"} -> Nat]
  BY <1>1 DEF SizesLeft
<1>5. Collect(js, Stop(n)) = [js EXCEPT !.blocks = Append(js.blocks, b), !.size = z,
                                        !.current_tool = FALSE, !.current_block_type = "none"]
  BY CollectStopForm DEF Json
<1> HIDE DEF b, z
<1>6. Append(js.blocks, b) \in Seq(Block)
  BY <1>1, <1>3
<1>7. LET r == Collect(js, Stop(n))
      IN  /\ r \in Json /\ r.blocks = Append(js.blocks, b)
          /\ r.size = z /\ r.current_tool = FALSE /\ r.current_block_type = "none"
  BY <1>4, <1>5, <1>6 DEF Json
<1>. QED
  BY <1>7 DEF b, z


---------------------------------------------------------------------------
(* Both receivers, event by event *)

\* Nothing is open, and both have the same n blocks.
Quiet(st, n) ==
    /\ st.client.open = {} /\ st.client.orderly /\ Len(st.client.blocks) = n
    /\ st.json.blocks = st.client.blocks
    /\ ~st.json.current_tool /\ st.json.current_block_type = "none"
    /\ \A q \in {"text", "thinking"} : st.json.size[q] = 0

\* Block n, of kind k, is open, and the JSON path is collecting it.
Opened(st, n, k) ==
    /\ st.client.open = {n} /\ st.client.orderly /\ Len(st.json.blocks) = n
    /\ st.client.blocks = Append(st.json.blocks, [kind |-> k, size |-> st.json.size[k]])
    /\ ~st.json.current_tool /\ st.json.current_block_type = k
    /\ \A q \in {"text", "thinking"} \ {k} : st.json.size[q] = 0

\* Block n, a tool call's, is open, after z deltas.
InTool(st, n, z) ==
    /\ st.client.open = {n} /\ st.client.orderly /\ Len(st.json.blocks) = n
    /\ st.client.blocks = Append(st.json.blocks, [kind |-> "tool_use", size |-> z])
    /\ st.json.current_tool /\ st.json.current_block_type = "none"
    /\ \A q \in {"text", "thinking"} : st.json.size[q] = 0

\* A block more is a tool call, or there was one.
LEMMA HasToolAppend ==
    ASSUME NEW bs \in Seq(Block), NEW b \in Block
    PROVE  HasTool(Append(bs, b)) <=> HasTool(bs) \/ b.kind = "tool_use"
<1>1. DOMAIN Append(bs, b) = DOMAIN bs \cup {Len(bs) + 1}
  OBVIOUS
<1>2. \A i \in DOMAIN bs : Append(bs, b)[i] = bs[i]
  OBVIOUS
<1>3. Append(bs, b)[Len(bs) + 1] = b
  OBVIOUS
<1>. QED
  BY <1>1, <1>2, <1>3 DEF HasTool

\* Both receivers get the same event.
LEMMA TakeFields ==
    ASSUME NEW st, NEW e
    PROVE  /\ Take(st, e).client = Receive(st.client, e)
           /\ Take(st, e).json = Collect(st.json, e)
           /\ Receive(st.client, e) \in Client /\ Collect(st.json, e) \in Json
                  => Take(st, e) \in Receivers
  BY DEF Take, Receivers

\* A start opens its block; in quiet it is the next one, for both.
LEMMA TakeStart ==
    ASSUME NEW st \in Receivers, NEW n \in Nat, NEW k \in Kinds
    PROVE  LET r == Take(st, Start(n, k))
           IN  /\ r \in Receivers
               /\ r.client.open = st.client.open \cup {n}
               /\ r.client.blocks # <<>>
               /\ HasTool(r.client.blocks) <=> HasTool(st.client.blocks) \/ k = "tool_use"
               /\ k # "tool_use" /\ Quiet(st, n) => Opened(r, n, k)
               /\ k = "tool_use" /\ Quiet(st, n) => InTool(r, n, 0)
<1> DEFINE e == Start(n, k)
           r == Take(st, e)
           b == [kind |-> k, size |-> 0]
<1>1. st.client \in Client /\ st.json \in Json /\ st.client.blocks \in Seq(Block)
  BY ReceiverFields
<1>2. /\ Receive(st.client, e) \in Client
      /\ Receive(st.client, e).blocks = Append(st.client.blocks, b)
      /\ Receive(st.client, e).open = st.client.open \cup {n}
      /\ Receive(st.client, e).orderly = (st.client.orderly /\ st.client.open = {}
                                          /\ n = Len(st.client.blocks))
  BY <1>1, ReceiveStart
<1>3. /\ Collect(st.json, e) \in Json /\ Collect(st.json, e).blocks = st.json.blocks
      /\ Collect(st.json, e).size = st.json.size
      /\ Collect(st.json, e).current_tool = (st.json.current_tool \/ k = "tool_use")
      /\ Collect(st.json, e).current_block_type = IF k = "tool_use" THEN st.json.current_block_type ELSE k
  BY <1>1, CollectStart
<1> HIDE DEF e
<1>4. r.client = Receive(st.client, e) /\ r.json = Collect(st.json, e) /\ r \in Receivers
  BY <1>2, <1>3, TakeFields
<1> HIDE DEF r
<1>5. b \in Block /\ b.kind = k
  BY DEF Block
<1>6. HasTool(Append(st.client.blocks, b)) <=> HasTool(st.client.blocks) \/ k = "tool_use"
  BY <1>1, <1>5, HasToolAppend
<1>7. Append(st.client.blocks, b) # <<>>
  <2> HIDE DEF b
  <2>1. Len(Append(st.client.blocks, b)) = Len(st.client.blocks) + 1 /\ Len(st.client.blocks) \in Nat
    BY <1>1, <1>5
  <2>2. Len(<<>>) = 0
    OBVIOUS
  <2> DEFINE x == Append(st.client.blocks, b)
  <2> HIDE DEF x
  <2>3. Len(x) # 0
    BY <2>1 DEF x
  <2>4. x # <<>>
    BY <2>2, <2>3
  <2>. QED
    BY <2>4 DEF x
<1>8. ASSUME k # "tool_use", Quiet(st, n) PROVE Opened(r, n, k)
  <2>1. k \in {"text", "thinking"} /\ st.json.size[k] = 0
    BY <1>8 DEF Quiet, Kinds
  <2>. QED
    BY <1>1, <1>2, <1>3, <1>4, <1>8, <2>1 DEF Quiet, Opened
<1>9. ASSUME k = "tool_use", Quiet(st, n) PROVE InTool(r, n, 0)
  BY <1>1, <1>2, <1>3, <1>4, <1>9 DEF Quiet, InTool
<1>. QED
  BY <1>2, <1>4, <1>6, <1>7, <1>8, <1>9 DEF r, e

\* A delta for the open block counts for both.
LEMMA TakeDelta ==
    ASSUME NEW st \in Receivers, NEW n \in Nat, NEW k \in Kinds
    PROVE  LET r == Take(st, Delta(n, k))
           IN  /\ r \in Receivers
               /\ r.client.open = st.client.open
               /\ st.client.blocks # <<>> => r.client.blocks # <<>>
               /\ HasTool(r.client.blocks) <=> HasTool(st.client.blocks)
               /\ k # "tool_use" /\ Opened(st, n, k) => Opened(r, n, k)
               /\ k = "tool_use" /\ InTool(st, n, 0) => InTool(r, n, 1)
<1> DEFINE e == Delta(n, k)
           r == Take(st, e)
           c == st.client
           d == Receive(c, e)
           g == Collect(st.json, e)
<1>1. /\ c \in Client /\ st.json \in Json /\ c.blocks \in Seq(Block)
      /\ st.json.blocks \in Seq(Block) /\ st.json.size \in [{"text", "thinking"} -> Nat]
  BY ReceiverFields
<1>2. /\ d \in Client /\ d.open = c.open
      /\ Len(d.blocks) = Len(c.blocks)
      /\ \A i \in DOMAIN c.blocks : d.blocks[i].kind = c.blocks[i].kind
      /\ n \in c.open /\ n = Len(c.blocks) - 1 /\ c.blocks[n + 1].kind = k =>
             /\ d.orderly = c.orderly
             /\ d.blocks[n + 1] = [kind |-> k, size |-> c.blocks[n + 1].size + 1]
             /\ \A i \in DOMAIN c.blocks \ {n + 1} : d.blocks[i] = c.blocks[i]
  BY <1>1, ReceiveDelta
<1>3. /\ g \in Json /\ g.blocks = st.json.blocks /\ g.current_tool = st.json.current_tool
      /\ g.current_block_type = st.json.current_block_type
      /\ k = "tool_use" => g.size = st.json.size
      /\ k # "tool_use" =>
             /\ g.size[k] = st.json.size[k] + 1
             /\ \A q \in {"text", "thinking"} \ {k} : g.size[q] = st.json.size[q]
  BY <1>1, CollectDelta
<1> HIDE DEF e
<1>4. r.client = d /\ r.json = g /\ r \in Receivers
  BY <1>2, <1>3, TakeFields
<1> HIDE DEF r, d, g, c
<1>5. d.blocks \in Seq(Block)
  BY <1>2 DEF Client
<1>6. DOMAIN d.blocks = DOMAIN c.blocks
  BY <1>1, <1>2, <1>5
<1>7. HasTool(d.blocks) <=> HasTool(c.blocks)
  BY <1>2, <1>6 DEF HasTool
<1>8. c.blocks # <<>> => d.blocks # <<>>
  BY <1>1, <1>2, <1>5
<1>9. ASSUME NEW j \in Seq(Block), NEW z \in Nat, Len(j) = n,
             c.blocks = Append(j, [kind |-> k, size |-> z]), c.open = {n}, c.orderly
      PROVE  d.orderly /\ d.open = {n} /\ d.blocks = Append(j, [kind |-> k, size |-> z + 1])
  <2> DEFINE b == [kind |-> k, size |-> z]
             b2 == [kind |-> k, size |-> z + 1]
  <2>1. b \in Block /\ b2 \in Block /\ b.kind = k /\ b2 = [kind |-> k, size |-> b.size + 1]
    BY DEF Block
  <2>2. c.blocks = Append(j, b)
    BY <1>9
  <2> HIDE DEF b, b2
  <2>3. /\ c.blocks[n + 1] = b /\ n = Len(c.blocks) - 1
        /\ DOMAIN c.blocks = 1 .. n + 1
        /\ \A i \in 1 .. n : c.blocks[i] = j[i]
    BY <1>9, <2>1, <2>2
  <2>4. n \in c.open /\ c.blocks[n + 1].kind = k
    BY <1>9, <2>1, <2>3
  <2>5. /\ d.orderly = c.orderly
        /\ d.blocks[n + 1] = [kind |-> k, size |-> c.blocks[n + 1].size + 1]
        /\ \A i \in DOMAIN c.blocks \ {n + 1} : d.blocks[i] = c.blocks[i]
    BY <1>2, <2>3, <2>4
  <2>6. d.blocks[n + 1] = b2
    BY <2>1, <2>3, <2>5
  <2>7. \A i \in 1 .. n : d.blocks[i] = j[i]
    <3>1. \A i \in 1 .. n : i \in DOMAIN c.blocks \ {n + 1}
      BY <2>3
    <3>. QED
      BY <2>3, <2>5, <3>1
  <2>8. d.blocks = Append(j, b2)
    <3>1. Append(j, b2) \in Seq(Block) /\ Len(Append(j, b2)) = n + 1
      BY <1>9, <2>1
    <3>2. Len(d.blocks) = n + 1
      BY <1>2, <1>9, <2>1, <2>2
    <3>3. Append(j, b2)[n + 1] = b2 /\ \A i \in 1 .. n : Append(j, b2)[i] = j[i]
      BY <1>9, <2>1
    <3>4. \A i \in 1 .. n + 1 : d.blocks[i] = Append(j, b2)[i]
      <4>1. \A i \in 1 .. n + 1 : i \in 1 .. n \/ i = n + 1
        OBVIOUS
      <4>. QED
        BY <2>6, <2>7, <3>3, <4>1
    <3>. QED
      BY <1>5, <3>1, <3>2, <3>4, SeqEqual
  <2>. QED
    BY <1>2, <1>9, <2>5, <2>8 DEF b2
<1>10. ASSUME k # "tool_use", Opened(st, n, k) PROVE Opened(r, n, k)
  <2>1. k \in {"text", "thinking"} /\ st.json.size[k] \in Nat
    BY <1>1, <1>10 DEF Kinds
  <2>2. /\ c.open = {n} /\ c.orderly /\ Len(st.json.blocks) = n
        /\ c.blocks = Append(st.json.blocks, [kind |-> k, size |-> st.json.size[k]])
    BY <1>10 DEF Opened, c
  <2>3. /\ d.orderly /\ d.open = {n}
        /\ d.blocks = Append(st.json.blocks, [kind |-> k, size |-> st.json.size[k] + 1])
    BY <1>1, <1>9, <2>1, <2>2
  <2>4. g.size[k] = st.json.size[k] + 1 /\ \A q \in {"text", "thinking"} \ {k} : g.size[q] = 0
    BY <1>3, <1>10 DEF Opened
  <2>. QED
    BY <1>3, <1>4, <1>10, <2>2, <2>3, <2>4 DEF Opened
<1>11. ASSUME k = "tool_use", InTool(st, n, 0) PROVE InTool(r, n, 1)
  <2>1. /\ c.open = {n} /\ c.orderly /\ Len(st.json.blocks) = n
        /\ c.blocks = Append(st.json.blocks, [kind |-> k, size |-> 0])
    BY <1>11 DEF InTool, c
  <2>2. /\ d.orderly /\ d.open = {n}
        /\ d.blocks = Append(st.json.blocks, [kind |-> k, size |-> 0 + 1])
    BY <1>1, <1>9, <2>1
  <2>3. d.blocks = Append(g.blocks, [kind |-> "tool_use", size |-> 1])
    BY <1>3, <1>11, <2>2
  <2>4. \A q \in {"text", "thinking"} : g.size[q] = 0
    BY <1>3, <1>11 DEF InTool
  <2>5. Len(g.blocks) = n /\ g.current_tool /\ g.current_block_type = "none"
    BY <1>3, <1>11 DEF InTool
  <2>. QED
    BY <1>4, <2>2, <2>3, <2>4, <2>5 DEF InTool
<1>. QED
  BY <1>2, <1>4, <1>7, <1>8, <1>10, <1>11 DEF r, e, c

\* A stop closes its block; the JSON path then has the block the client has.
LEMMA TakeStop ==
    ASSUME NEW st \in Receivers, NEW n \in Nat
    PROVE  LET r == Take(st, Stop(n))
           IN  /\ r \in Receivers
               /\ r.client.open = st.client.open \ {n}
               /\ r.client.blocks = st.client.blocks
               /\ \A k \in {"text", "thinking"} : Opened(st, n, k) => Quiet(r, n + 1)
               /\ InTool(st, n, 1) => Quiet(r, n + 1)
<1> DEFINE e == Stop(n)
           r == Take(st, e)
           d == Receive(st.client, e)
           g == Collect(st.json, e)
<1>1. /\ st.client \in Client /\ st.json \in Json
      /\ st.json.blocks \in Seq(Block) /\ st.json.size \in [{"text", "thinking"} -> Nat]
  BY ReceiverFields
<1>2. /\ d \in Client /\ d.blocks = st.client.blocks /\ d.open = st.client.open \ {n}
      /\ d.orderly = (st.client.orderly /\ n \in st.client.open)
  BY <1>1, ReceiveStop
<1>3. /\ g \in Json /\ g.blocks = Append(st.json.blocks, Completed(st.json))
      /\ g.size = SizesLeft(st.json) /\ g.current_tool = FALSE /\ g.current_block_type = "none"
  BY <1>1, CollectStop
<1> HIDE DEF e
<1>4. r.client = d /\ r.json = g /\ r \in Receivers
  BY <1>2, <1>3, TakeFields
<1> HIDE DEF r, d, g
<1>5. ASSUME NEW k \in {"text", "thinking"}, Opened(st, n, k) PROVE Quiet(r, n + 1)
  <2>1. Finished(st.json) = k
    BY <1>5 DEF Opened, Finished
  <2>2. Completed(st.json) = [kind |-> k, size |-> st.json.size[k]]
    BY <1>1, <2>1 DEF Completed
  <2>3. \A q \in {"text", "thinking"} : g.size[q] = 0
    BY <1>1, <1>3, <1>5, <2>1 DEF Opened, SizesLeft
  <2>4. [kind |-> k, size |-> st.json.size[k]] \in Block
    BY <1>1 DEF Block, Kinds
  <2>5. Len(Append(st.json.blocks, [kind |-> k, size |-> st.json.size[k]])) = n + 1
    BY <1>1, <1>5, <2>4 DEF Opened
  <2>6. d.blocks = g.blocks /\ Len(d.blocks) = n + 1
    BY <1>2, <1>3, <1>5, <2>2, <2>5 DEF Opened
  <2>7. d.open = {} /\ d.orderly
    BY <1>2, <1>5 DEF Opened
  <2>. QED
    BY <1>3, <1>4, <2>3, <2>6, <2>7 DEF Quiet
<1>6. ASSUME InTool(st, n, 1) PROVE Quiet(r, n + 1)
  <2> DEFINE t == [kind |-> "tool_use", size |-> 1]
  <2>1. Finished(st.json) = "tool_use"
    BY <1>6 DEF InTool, Finished
  <2>2. Completed(st.json) = t /\ t \in Block
    BY <1>1, <2>1 DEF Completed, Block, Kinds
  <2>3. \A q \in {"text", "thinking"} : g.size[q] = 0
    BY <1>1, <1>3, <1>6, <2>1 DEF InTool, SizesLeft
  <2>4. d.blocks = Append(st.json.blocks, t) /\ g.blocks = Append(st.json.blocks, t)
    BY <1>2, <1>3, <1>6, <2>2 DEF InTool
  <2> HIDE DEF t
  <2>5. Len(Append(st.json.blocks, t)) = n + 1
    BY <1>1, <1>6, <2>2 DEF InTool
  <2>6. d.open = {} /\ d.orderly
    BY <1>2, <1>6 DEF InTool
  <2>. QED
    BY <1>3, <1>4, <2>3, <2>4, <2>5, <2>6 DEF Quiet
<1>. QED
  BY <1>2, <1>4, <1>5, <1>6 DEF r, e


---------------------------------------------------------------------------
(* Both receivers, for the events sent together *)

\* Two events.
LEMMA AfterTwo ==
    ASSUME NEW st, NEW a, NEW b
    PROVE  After(st, <<a, b>>) = Take(Take(st, a), b)
<1> DEFINE es == <<a, b>>
<1>1. Len(es) = 2 /\ es[1] = a /\ es[2] = b
  OBVIOUS
<1> HIDE DEF es
<1>2. PICK f : IsRun(f, st, es, 2) /\ After(st, es) = f[2]
  <2>1. Len(es) \in Nat
    BY <1>1
  <2>2. \E f : IsRun(f, st, es, Len(es)) /\ After(st, es) = f[Len(es)]
    BY <2>1, AfterRun
  <2>. QED
    BY <1>1, <2>2
<1>3. f[0] = st /\ f[1] = Take(f[0], es[1]) /\ f[2] = Take(f[1], es[2])
  BY <1>2 DEF IsRun
<1>. QED
  BY <1>1, <1>2, <1>3 DEF es

\* Three events.
LEMMA AfterThree ==
    ASSUME NEW st, NEW a, NEW b, NEW c
    PROVE  After(st, <<a, b, c>>) = Take(Take(Take(st, a), b), c)
<1> DEFINE es == <<a, b, c>>
<1>1. Len(es) = 3 /\ es[1] = a /\ es[2] = b /\ es[3] = c
  OBVIOUS
<1> HIDE DEF es
<1>2. PICK f : IsRun(f, st, es, 3) /\ After(st, es) = f[3]
  <2>1. Len(es) \in Nat
    BY <1>1
  <2>2. \E f : IsRun(f, st, es, Len(es)) /\ After(st, es) = f[Len(es)]
    BY <2>1, AfterRun
  <2>. QED
    BY <1>1, <2>2
<1>3. /\ f[0] = st /\ f[1] = Take(f[0], es[1]) /\ f[2] = Take(f[1], es[2])
      /\ f[3] = Take(f[2], es[3])
  BY <1>2 DEF IsRun
<1>. QED
  BY <1>1, <1>2, <1>3 DEF es

\* The events that the loop sends are events.
LEMMA Events ==
    ASSUME NEW n \in Nat
    PROVE  /\ \A k \in Kinds : Start(n, k) \in Event /\ Delta(n, k) \in Event
           /\ Stop(n) \in Event
           /\ ToolUse(n) \in Seq(Event) /\ Len(ToolUse(n)) = 3
<1>1. \A k \in Kinds : Start(n, k) \in Event /\ Delta(n, k) \in Event
  BY DEF Start, Delta, Event, Kinds
<1>2. Stop(n) \in Event
  BY DEF Stop, Event, Kinds
<1>. QED
  BY <1>1, <1>2 DEF ToolUse, Kinds

\* A tool call's block: nothing stays open at n, and the call is there.
LEMMA AfterToolUse ==
    ASSUME NEW st \in Receivers, NEW n \in Nat
    PROVE  LET r == After(st, ToolUse(n))
           IN  /\ r \in Receivers
               /\ r.client.open = st.client.open \ {n}
               /\ r.client.blocks # <<>>
               /\ HasTool(r.client.blocks)
               /\ Quiet(st, n) => Quiet(r, n + 1)
<1> DEFINE a == Take(st, Start(n, "tool_use"))
           b == Take(a, Delta(n, "tool_use"))
           r == Take(b, Stop(n))
<1>0. "tool_use" \in Kinds
  BY DEF Kinds
<1>1. /\ a \in Receivers /\ a.client.open = st.client.open \cup {n} /\ a.client.blocks # <<>>
      /\ HasTool(a.client.blocks)
      /\ Quiet(st, n) => InTool(a, n, 0)
  BY <1>0, TakeStart
<1> HIDE DEF a
<1>2. /\ b \in Receivers /\ b.client.open = a.client.open /\ b.client.blocks # <<>>
      /\ HasTool(b.client.blocks)
      /\ InTool(a, n, 0) => InTool(b, n, 1)
  BY <1>0, <1>1, TakeDelta
<1> HIDE DEF b
<1>3. /\ r \in Receivers /\ r.client.open = b.client.open \ {n} /\ r.client.blocks = b.client.blocks
      /\ InTool(b, n, 1) => Quiet(r, n + 1)
  BY <1>2, TakeStop
<1> HIDE DEF r
<1>4. After(st, ToolUse(n)) = r
  BY AfterThree DEF ToolUse, a, b, r
<1>. QED
  BY <1>1, <1>2, <1>3, <1>4

\* The calls of a list of elements, one more at a time.
LEMMA ToolUsesForms ==
    ASSUME NEW n \in Nat, NEW first \in Nat
    PROVE  /\ ToolUses(first, 0) = <<>>
           /\ ToolUses(first, n) \in Seq(Event)
           /\ ToolUses(first, n + 1) = ToolUses(first, n) \o ToolUse(first + n)
<1> DEFINE e(k) == ToolUse(first + ((k - 1) \div 3))[((k - 1) % 3) + 1]
<1>1. ASSUME NEW k \in Nat \ {0}
      PROVE  e(k) \in Event
  <2>1. (k - 1) \div 3 \in Nat /\ ((k - 1) % 3) + 1 \in 1 .. 3
    OBVIOUS
  <2>. QED
    BY <2>1, Events
<1>2. ToolUses(first, 0) = <<>>
  BY DEF ToolUses
<1>3. /\ ToolUses(first, n) \in Seq(Event) /\ Len(ToolUses(first, n)) = 3 * n
      /\ \A k \in 1 .. 3 * n : ToolUses(first, n)[k] = e(k)
  BY <1>1 DEF ToolUses
<1>4. /\ ToolUses(first, n + 1) \in Seq(Event) /\ Len(ToolUses(first, n + 1)) = 3 * n + 3
      /\ \A k \in 1 .. 3 * n + 3 : ToolUses(first, n + 1)[k] = e(k)
  BY <1>1 DEF ToolUses
<1>5. /\ e(3 * n + 1) = ToolUse(first + n)[1]
      /\ e(3 * n + 2) = ToolUse(first + n)[2]
      /\ e(3 * n + 3) = ToolUse(first + n)[3]
  <2>1. /\ (3 * n + 1 - 1) \div 3 = n /\ (3 * n + 1 - 1) % 3 = 0
        /\ (3 * n + 2 - 1) \div 3 = n /\ (3 * n + 2 - 1) % 3 = 1
        /\ (3 * n + 3 - 1) \div 3 = n /\ (3 * n + 3 - 1) % 3 = 2
    OBVIOUS
  <2>. QED
    BY <2>1
<1> HIDE DEF e
<1> DEFINE s == ToolUses(first, n)
           t == ToolUse(first + n)
           c == s \o t
<1>6. t \in Seq(Event) /\ Len(t) = 3
  BY Events
<1>7. /\ c \in Seq(Event) /\ Len(c) = 3 * n + 3
      /\ \A k \in 1 .. 3 * n : c[k] = s[k]
      /\ c[3 * n + 1] = t[1] /\ c[3 * n + 2] = t[2] /\ c[3 * n + 3] = t[3]
  <2>1. s \in Seq(Event) /\ Len(s) = 3 * n
    BY <1>3
  <2> HIDE DEF s, t
  <2>2. /\ c \in Seq(Event) /\ Len(c) = Len(s) + Len(t)
        /\ \A k \in 1 .. Len(s) + Len(t) : c[k] = IF k <= Len(s) THEN s[k] ELSE t[k - Len(s)]
    BY <1>6, <2>1, ConcatProperties
  <2> HIDE DEF c
  <2>3. /\ 3 * n + 1 - 3 * n = 1 /\ 3 * n + 2 - 3 * n = 2 /\ 3 * n + 3 - 3 * n = 3
        /\ 3 * n + 1 \in 1 .. 3 * n + 3 /\ ~(3 * n + 1 <= 3 * n)
        /\ 3 * n + 2 \in 1 .. 3 * n + 3 /\ ~(3 * n + 2 <= 3 * n)
        /\ 3 * n + 3 \in 1 .. 3 * n + 3 /\ ~(3 * n + 3 <= 3 * n)
    OBVIOUS
  <2>4. \A k \in 1 .. 3 * n : k \in 1 .. 3 * n + 3 /\ k <= 3 * n
    OBVIOUS
  <2>5. \A k \in 1 .. 3 * n : c[k] = s[k]
    BY <1>6, <2>1, <2>2, <2>4
  <2>6. \A i \in 1 .. 3 * n + 3 : ~(i <= 3 * n) => c[i] = t[i - 3 * n]
    BY <1>6, <2>1, <2>2
  <2>7. c[3 * n + 1] = t[1] /\ c[3 * n + 2] = t[2] /\ c[3 * n + 3] = t[3]
    BY <2>3, <2>6
  <2>. QED
    BY <1>6, <2>1, <2>2, <2>5, <2>7
<1>8. \A k \in 1 .. 3 * n + 3 : ToolUses(first, n + 1)[k] = c[k]
  <2> HIDE DEF c
  <2>1. \A k \in 1 .. 3 * n + 3 : k \in 1 .. 3 * n \/ k = 3 * n + 1 \/ k = 3 * n + 2 \/ k = 3 * n + 3
    OBVIOUS
  <2>. QED
    BY <1>3, <1>4, <1>5, <1>7, <2>1
<1>9. ToolUses(first, n + 1) = c
  BY <1>4, <1>7, <1>8, SeqEqual
<1>. QED
  BY <1>2, <1>3, <1>9

\* The calls of a list: a block for each, and nothing stays open.
LEMMA AfterToolUses ==
    ASSUME NEW st \in Receivers, NEW first \in Nat
    PROVE  \A n \in Nat :
               LET r == After(st, ToolUses(first, n))
               IN  /\ r \in Receivers
                   /\ r.client.open \subseteq st.client.open
                   /\ n > 0 => /\ r.client.open \subseteq st.client.open \ {first}
                               /\ r.client.blocks # <<>> /\ HasTool(r.client.blocks)
                   /\ Quiet(st, first) => Quiet(r, first + n)
<1> DEFINE R(n) == After(st, ToolUses(first, n))
           P(n) == /\ R(n) \in Receivers
                   /\ R(n).client.open \subseteq st.client.open
                   /\ n > 0 => /\ R(n).client.open \subseteq st.client.open \ {first}
                               /\ R(n).client.blocks # <<>> /\ HasTool(R(n).client.blocks)
                   /\ Quiet(st, first) => Quiet(R(n), first + n)
           S == {n \in Nat : P(n)}
<1>1. 0 \in S
  <2>1. R(0) = st
    BY ToolUsesForms, AfterNone
  <2>. QED
    BY <2>1
<1>2. ASSUME NEW n \in Nat, n \in S PROVE n + 1 \in S
  <2>1. R(n + 1) = After(R(n), ToolUse(first + n))
    <3> DEFINE x == ToolUses(first, n)
               y == ToolUse(first + n)
    <3>1. x \in Seq(Event) /\ ToolUses(first, n + 1) = x \o y
      BY ToolUsesForms
    <3>2. first + n \in Nat
      OBVIOUS
    <3>3. y \in Seq(Event)
      BY <3>2, Events
    <3> HIDE DEF x, y
    <3>4. After(st, x \o y) = After(After(st, x), y)
      BY <3>1, <3>3, AfterBoth
    <3>. QED
      BY <3>1, <3>4 DEF x, y
  <2>2. P(n)
    BY <1>2
  <2> HIDE DEF R
  <2> DEFINE a == R(n)
             b == R(n + 1)
  <2> DEFINE m == first + n
  <2>3. a \in Receivers /\ m \in Nat /\ b = After(a, ToolUse(m))
    BY <2>1, <2>2
  <2> HIDE DEF a, b, m
  <2>4. /\ b \in Receivers /\ b.client.open = a.client.open \ {m}
        /\ b.client.blocks # <<>> /\ HasTool(b.client.blocks)
        /\ Quiet(a, m) => Quiet(b, m + 1)
    BY <2>3, AfterToolUse
  <2>5. first + n + 1 = first + (n + 1)
    OBVIOUS
  <2>6. b.client.open \subseteq st.client.open \ {first}
    <3>1. CASE n = 0
      BY <2>2, <2>4, <3>1 DEF a, m
    <3>2. CASE n > 0
      BY <2>2, <2>4, <3>2 DEF a
    <3>. QED
      BY <3>1, <3>2
  <2>7. P(n + 1)
    BY <2>2, <2>4, <2>5, <2>6 DEF a, b, m
  <2>. QED
    BY <2>7
<1> HIDE DEF S
<1>3. \A n \in Nat : n \in S
  BY <1>1, <1>2, SetInduction
<1>. QED
  BY <1>3 DEF S


---------------------------------------------------------------------------
(* The invariant *)

TypeOK ==
    /\ phase \in {"first", "loop", "end", "done"} /\ tokens \in Nat
    /\ disciplined \in BOOLEAN /\ in_think \in BOOLEAN /\ text_block_started \in BOOLEAN
    /\ in_tool_call \in BOOLEAN /\ tool_calls_emitted \in BOOLEAN
    /\ current_block_index \in Nat /\ tool_tokens \in Nat /\ tagged \in Nat
    /\ stop_reason \in {"max_tokens", "end_turn", "tool_use"}
    /\ client \in Client /\ json \in Json

\* No text is open inside a tool call, and elements found in the text are not
\* followed by a thinking block: their text is still open, or a call follows.
Places ==
    /\ phase = "first" => ~in_think /\ ~text_block_started /\ ~in_tool_call
    /\ in_tool_call => ~text_block_started
    /\ tagged > 0 => tool_calls_emitted \/ text_block_started \/ in_tool_call

\* Whatever the model generates: only the current block can be open, only while
\* the flags say so, and the calls sent are those remembered.
Sent ==
    phase # "done" =>
        /\ client.open \subseteq {current_block_index}
        /\ client.open # {} => in_think \/ text_block_started
        /\ in_think \/ text_block_started => client.blocks # <<>>
        /\ tool_calls_emitted <=> HasTool(client.blocks)
        /\ stop_reason # "tool_use"

Received == [client |-> client, json |-> json]

\* What a disciplined model's flags say of both receivers.
InPlace ==
    /\ in_tool_call => ~in_think
    /\ in_think => ~text_block_started /\ Opened(Received, current_block_index, "thinking")
    /\ text_block_started => Opened(Received, current_block_index, "text")
    /\ ~in_think /\ ~text_block_started => Quiet(Received, current_block_index)

InOrder == disciplined => /\ phase = "done" => client.orderly /\ json.blocks = client.blocks
                          /\ phase # "done" => InPlace

IInv == TypeOK /\ Places /\ Sent /\ InOrder /\ WellClosed

\* Initially nothing is sent and nothing is open.
THEOREM InitIInv == Init => IInv
<1> SUFFICES ASSUME Init PROVE IInv
  OBVIOUS
<1>1. client \in Client /\ json \in Json
  <2>1. <<>> \in Seq(Block)
    OBVIOUS
  <2>2. [k \in {"text", "thinking"} |-> 0] \in [{"text", "thinking"} -> Nat]
    OBVIOUS
  <2>. QED
    BY <2>1, <2>2 DEF Init, Client, Json
<1>2. Quiet(Received, 0)
  BY DEF Init, Quiet, Received
<1>3. TypeOK
  BY <1>1 DEF Init, TypeOK
<1>4. Sent
  BY DEF Init, Sent, HasTool
<1>5. InOrder
  BY <1>2 DEF Init, InOrder, InPlace
<1>. QED
  BY <1>3, <1>4, <1>5 DEF Init, IInv, Places, WellClosed

---------------------------------------------------------------------------
(* What is sent *)

\* Send makes the receivers what After says.
LEMMA SendIs ==
    ASSUME NEW events, Send(events), After(Received, events) \in Receivers
    PROVE  Received' = After(Received, events)
<1> DEFINE r == After(Received, events)
<1>1. client' = r.client /\ json' = r.json
  BY DEF Send, Received
<1>2. r = [client |-> r.client, json |-> r.json]
  BY DEF Receivers
<1> HIDE DEF r
<1>. QED
  BY <1>1, <1>2 DEF Received, r

\* The fields of the receivers, now and next.
LEMMA ReceivedIs ==
    /\ Received.client = client /\ Received.json = json
    /\ Received'.client = client' /\ Received'.json = json'
    /\ TypeOK => Received \in Receivers
    /\ Received' \in Receivers => client' \in Client /\ json' \in Json
  BY DEF Received, TypeOK, Receivers

\* Nothing sent, nothing received.
LEMMA SendNothing ==
    ASSUME Send(<<>>), TypeOK
    PROVE  client' = client /\ json' = json
<1>1. Received \in Receivers
  BY ReceivedIs
<1>2. Received' = Received
  BY <1>1, AfterNone, SendIs
<1>. QED
  BY <1>2, ReceivedIs

\* A text or a thinking block is opened.
LEMMA SendStart ==
    ASSUME TypeOK, NEW k \in {"text", "thinking"}, Send(<<Start(current_block_index, k)>>)
    PROVE  /\ client' \in Client /\ json' \in Json
           /\ client'.open = client.open \cup {current_block_index}
           /\ client'.blocks # <<>>
           /\ HasTool(client'.blocks) <=> HasTool(client.blocks)
           /\ Quiet(Received, current_block_index) => Opened(Received', current_block_index, k)
<1> DEFINE r == Take(Received, Start(current_block_index, k))
<1>1. Received \in Receivers /\ k \in Kinds /\ current_block_index \in Nat /\ k # "tool_use"
  BY ReceivedIs DEF Kinds, TypeOK
<1>2. /\ r \in Receivers
      /\ r.client.open = Received.client.open \cup {current_block_index}
      /\ r.client.blocks # <<>>
      /\ HasTool(r.client.blocks) <=> HasTool(Received.client.blocks)
      /\ Quiet(Received, current_block_index) => Opened(r, current_block_index, k)
  BY <1>1, TakeStart
<1>3. After(Received, <<Start(current_block_index, k)>>) = r
  BY AfterOne
<1> HIDE DEF r
<1>4. Received' = r
  BY <1>2, <1>3, SendIs
<1>. QED
  BY <1>2, <1>4, ReceivedIs

\* A delta is sent for the current block.
LEMMA SendDelta ==
    ASSUME TypeOK, NEW k \in {"text", "thinking"}, Send(<<Delta(current_block_index, k)>>)
    PROVE  /\ client' \in Client /\ json' \in Json
           /\ client'.open = client.open
           /\ client.blocks # <<>> => client'.blocks # <<>>
           /\ HasTool(client'.blocks) <=> HasTool(client.blocks)
           /\ Opened(Received, current_block_index, k) => Opened(Received', current_block_index, k)
<1> DEFINE r == Take(Received, Delta(current_block_index, k))
<1>1. Received \in Receivers /\ k \in Kinds /\ current_block_index \in Nat /\ k # "tool_use"
  BY ReceivedIs DEF Kinds, TypeOK
<1>2. /\ r \in Receivers
      /\ r.client.open = Received.client.open
      /\ Received.client.blocks # <<>> => r.client.blocks # <<>>
      /\ HasTool(r.client.blocks) <=> HasTool(Received.client.blocks)
      /\ Opened(Received, current_block_index, k) => Opened(r, current_block_index, k)
  BY <1>1, TakeDelta
<1>3. After(Received, <<Delta(current_block_index, k)>>) = r
  BY AfterOne
<1> HIDE DEF r
<1>4. Received' = r
  BY <1>2, <1>3, SendIs
<1>. QED
  BY <1>2, <1>4, ReceivedIs

\* The current block is closed.
LEMMA SendStop ==
    ASSUME TypeOK, Send(<<Stop(current_block_index)>>)
    PROVE  /\ client' \in Client /\ json' \in Json
           /\ client'.open = client.open \ {current_block_index}
           /\ client'.blocks = client.blocks
           /\ \A k \in {"text", "thinking"} :
                  Opened(Received, current_block_index, k) => Quiet(Received', current_block_index + 1)
<1> DEFINE r == Take(Received, Stop(current_block_index))
<1>1. Received \in Receivers /\ current_block_index \in Nat
  BY ReceivedIs DEF TypeOK
<1>2. /\ r \in Receivers
      /\ r.client.open = Received.client.open \ {current_block_index}
      /\ r.client.blocks = Received.client.blocks
      /\ \A k \in {"text", "thinking"} :
             Opened(Received, current_block_index, k) => Quiet(r, current_block_index + 1)
  BY <1>1, TakeStop
<1>3. After(Received, <<Stop(current_block_index)>>) = r
  BY AfterOne
<1> HIDE DEF r
<1>4. Received' = r
  BY <1>2, <1>3, SendIs
<1>. QED
  BY <1>2, <1>4, ReceivedIs

\* A tool call is sent at once.
LEMMA SendToolUse ==
    ASSUME TypeOK, Send(ToolUse(current_block_index))
    PROVE  /\ client' \in Client /\ json' \in Json
           /\ client'.open = client.open \ {current_block_index}
           /\ client'.blocks # <<>> /\ HasTool(client'.blocks)
           /\ Quiet(Received, current_block_index) => Quiet(Received', current_block_index + 1)
<1> DEFINE r == After(Received, ToolUse(current_block_index))
<1>1. Received \in Receivers /\ current_block_index \in Nat
  BY ReceivedIs DEF TypeOK
<1>2. /\ r \in Receivers
      /\ r.client.open = Received.client.open \ {current_block_index}
      /\ r.client.blocks # <<>> /\ HasTool(r.client.blocks)
      /\ Quiet(Received, current_block_index) => Quiet(r, current_block_index + 1)
  BY <1>1, AfterToolUse
<1>3. Received' = r
  BY <1>2, SendIs
<1> HIDE DEF r
<1>. QED
  BY <1>2, <1>3, ReceivedIs

\* Concatenations of none or one element.
LEMMA Concats ==
    ASSUME NEW a, NEW b
    PROVE  /\ <<>> \o <<>> = <<>> /\ <<>> \o <<b>> = <<b>> /\ <<a>> \o <<>> = <<a>>
           /\ <<a>> \o <<b>> = <<a, b>>
<1> DEFINE S == {a, b}
<1>1. <<>> \in Seq(S) /\ <<a>> \in Seq(S) /\ <<b>> \in Seq(S) /\ <<a, b>> \in Seq(S)
  OBVIOUS
<1>2. <<>> \o <<>> = <<>> /\ <<>> \o <<b>> = <<b>> /\ <<a>> \o <<>> = <<a>>
  <2> HIDE DEF S
  <2>. QED
    BY <1>1, ConcatEmptySeq
<1>3. <<a>> \o <<b>> = <<a, b>>
  <2> DEFINE p == <<a>>
             q == <<b>>
             c == p \o q
             t == <<a, b>>
  <2>1. Len(p) = 1 /\ Len(q) = 1 /\ Len(t) = 2 /\ p[1] = a /\ q[1] = b /\ t[1] = a /\ t[2] = b
    OBVIOUS
  <2>2. p \in Seq(S) /\ q \in Seq(S) /\ t \in Seq(S)
    BY <1>1
  <2> HIDE DEF S, p, q, t
  <2>3. /\ c \in Seq(S) /\ Len(c) = Len(p) + Len(q)
        /\ \A i \in 1 .. Len(p) + Len(q) : c[i] = IF i <= Len(p) THEN p[i] ELSE q[i - Len(p)]
    BY <2>2, ConcatProperties
  <2> HIDE DEF c
  <2>4. \A i \in 1 .. 2 : c[i] = t[i]
    BY <2>1, <2>3
  <2>5. c = t
    BY <2>1, <2>2, <2>3, <2>4, SeqEqual
  <2>. QED
    BY <2>5 DEF c, p, q, t
<1>. QED
  BY <1>2, <1>3

\* Text: a block is opened for it if none is.
LEMMA SendText ==
    ASSUME TypeOK, NEW text \in Texts, Send(OpenText \o DeltaOf("text", text))
    PROVE  /\ client' \in Client /\ json' \in Json
           /\ client'.open \subseteq client.open \cup {current_block_index}
           /\ ~text_block_started \/ client.blocks # <<>> => client'.blocks # <<>>
           /\ HasTool(client'.blocks) <=> HasTool(client.blocks)
           /\ \/ text_block_started /\ Opened(Received, current_block_index, "text")
              \/ ~text_block_started /\ Quiet(Received, current_block_index)
              => Opened(Received', current_block_index, "text")
<1> DEFINE s == Start(current_block_index, "text")
           d == Delta(current_block_index, "text")
<1>1. <<>> \o <<>> = <<>> /\ <<>> \o <<d>> = <<d>> /\ <<s>> \o <<>> = <<s>> /\ <<s>> \o <<d>> = <<s, d>>
  BY Concats
<1>2. CASE text_block_started /\ text = "silent"
  <2>1. Send(<<>>)
    BY <1>1, <1>2 DEF OpenText, DeltaOf
  <2>2. client' = client /\ json' = json
    BY <2>1, SendNothing
  <2>. QED
    BY <1>2, <2>2 DEF TypeOK, Received
<1>3. CASE text_block_started /\ text # "silent"
  <2>1. Send(<<d>>)
    BY <1>1, <1>3 DEF OpenText, DeltaOf
  <2>. QED
    BY <1>3, <2>1, SendDelta
<1>4. CASE ~text_block_started /\ text = "silent"
  <2>1. Send(<<s>>)
    BY <1>1, <1>4 DEF OpenText, DeltaOf
  <2>. QED
    BY <1>4, <2>1, SendStart
<1>5. CASE ~text_block_started /\ text # "silent"
  <2>1. Send(<<s, d>>)
    BY <1>1, <1>5 DEF OpenText, DeltaOf
  <2> DEFINE a == Take(Received, s)
             b == Take(a, d)
             n == current_block_index
  <2>2. Received \in Receivers /\ n \in Nat /\ "text" \in Kinds
    BY ReceivedIs DEF TypeOK, Kinds
  <2>3. /\ a \in Receivers /\ a.client.open = Received.client.open \cup {n}
        /\ a.client.blocks # <<>>
        /\ HasTool(a.client.blocks) <=> HasTool(Received.client.blocks)
        /\ Quiet(Received, n) => Opened(a, n, "text")
    BY <2>2, TakeStart
  <2> HIDE DEF a
  <2>4. /\ b \in Receivers /\ b.client.open = a.client.open /\ b.client.blocks # <<>>
        /\ HasTool(b.client.blocks) <=> HasTool(a.client.blocks)
        /\ Opened(a, n, "text") => Opened(b, n, "text")
    BY <2>2, <2>3, TakeDelta
  <2>5. After(Received, <<s, d>>) = b
    BY AfterTwo DEF a
  <2> HIDE DEF b
  <2>6. Received' = b
    BY <2>1, <2>4, <2>5, SendIs
  <2>. QED
    BY <1>5, <2>3, <2>4, <2>6, ReceivedIs
<1>. QED
  BY <1>2, <1>3, <1>4, <1>5 DEF TypeOK

---------------------------------------------------------------------------
(* The steps *)

\* Before the end, three facts about the flags and what was sent are enough.
LEMMA Going ==
    ASSUME TypeOK', phase' # "done", Places', Sent', disciplined' => InPlace'
    PROVE  IInv'
  BY DEF IInv, InOrder, WellClosed

\* The first token opens a thinking block.
LEMMA FirstThinksKept ==
    ASSUME IInv, FirstThinks PROVE IInv'
<1> USE DEF IInv, FirstThinks, Token, calls
<1>1. TypeOK /\ phase = "first" /\ ~in_think /\ ~text_block_started /\ ~in_tool_call
  BY DEF Places
<1>2. /\ client' \in Client /\ json' \in Json
      /\ client'.open = client.open \cup {current_block_index}
      /\ client'.blocks # <<>>
      /\ HasTool(client'.blocks) <=> HasTool(client.blocks)
      /\ Quiet(Received, current_block_index) => Opened(Received', current_block_index, "thinking")
  BY <1>1, SendStart
<1>3. TypeOK' /\ phase' # "done"
  BY <1>1, <1>2 DEF TypeOK
<1>4. Places'
  BY <1>1 DEF Places
<1>5. Sent'
  BY <1>1, <1>2 DEF Sent
<1>6. disciplined' => InPlace'
  BY <1>1, <1>2 DEF InOrder, InPlace
<1>. QED
  BY <1>3, <1>4, <1>5, <1>6, Going

\* The first token opens a tool call, for which nothing is sent.
LEMMA FirstCallsKept ==
    ASSUME IInv, FirstCalls PROVE IInv'
<1> USE DEF IInv, FirstCalls, Token, calls
<1>1. TypeOK /\ phase = "first" /\ ~in_think /\ ~text_block_started /\ ~in_tool_call
  BY DEF Places
<1>2. Received' = Received
  BY DEF Received
<1>3. TypeOK' /\ phase' # "done"
  BY <1>1 DEF TypeOK
<1>4. Places'
  BY <1>1 DEF Places
<1>5. Sent'
  BY <1>1 DEF Sent
<1>6. disciplined' => InPlace'
  BY <1>1, <1>2 DEF InOrder, InPlace
<1>. QED
  BY <1>3, <1>4, <1>5, <1>6, Going

\* Ordinary text, in the first place or later.
LEMMA SayKept ==
    ASSUME IInv, NEW text \in Texts, Say(text), phase # "done", phase' # "done",
           ~in_think, ~in_tool_call, disciplined' = disciplined,
           phase' \in {"loop", "end"}, tokens' \in Nat,
           stop_reason' \in {"max_tokens", "end_turn"}
    PROVE  IInv'
<1> USE DEF IInv, Say, calls
<1>1. /\ client' \in Client /\ json' \in Json
      /\ client'.open \subseteq client.open \cup {current_block_index}
      /\ ~text_block_started \/ client.blocks # <<>> => client'.blocks # <<>>
      /\ HasTool(client'.blocks) <=> HasTool(client.blocks)
      /\ \/ text_block_started /\ Opened(Received, current_block_index, "text")
         \/ ~text_block_started /\ Quiet(Received, current_block_index)
         => Opened(Received', current_block_index, "text")
  BY SendText
<1>2. TypeOK'
  BY <1>1 DEF TypeOK
<1>3. Places'
  BY DEF Places
<1>4. Sent'
  BY <1>1 DEF Sent
<1>5. disciplined' => InPlace'
  BY <1>1 DEF InOrder, InPlace
<1>. QED
  BY <1>2, <1>3, <1>4, <1>5, Going

\* The first token is text.
LEMMA FirstSaysKept ==
    ASSUME IInv, NEW text \in Texts, FirstSays(text) PROVE IInv'
<1>1. /\ phase = "first" /\ TypeOK /\ ~in_think /\ ~in_tool_call
      /\ disciplined' = disciplined /\ tokens' \in Nat
  BY DEF IInv, Places, FirstSays, Token, TypeOK
<1>2. stop_reason' \in {"max_tokens", "end_turn"}
  BY <1>1 DEF FirstSays, IInv, Sent, TypeOK
<1>. QED
  BY <1>1, <1>2, SayKept DEF FirstSays

\* A later token is text.
LEMMA SpeakKept ==
    ASSUME IInv, NEW text \in Texts, Speak(text) PROVE IInv'
<1>1. /\ phase = "loop" /\ TypeOK /\ ~in_think /\ ~in_tool_call
      /\ disciplined' = disciplined /\ tokens' \in Nat
  BY DEF IInv, Speak, Token, TypeOK
<1>2. stop_reason' \in {"max_tokens", "end_turn"} /\ phase' \in {"loop", "end"}
  BY <1>1 DEF Speak, MayStop, IInv, Sent, TypeOK
<1>. QED
  BY <1>1, <1>2, SayKept DEF Speak

\* The loop ends with whatever is open.
LEMMA EndKept ==
    ASSUME IInv, End \/ Limit PROVE IInv'
<1> USE DEF IInv, End, Limit, Token, flags, calls
<1>1. TypeOK /\ phase # "done" /\ phase' = "end" /\ Received' = Received
  BY DEF Received
<1>2. TypeOK'
  BY <1>1 DEF TypeOK
<1>3. Places'
  BY <1>1 DEF Places
<1>4. Sent'
  BY <1>1 DEF Sent
<1>5. disciplined' => InPlace'
  BY <1>1 DEF InOrder, InPlace
<1>. QED
  BY <1>1, <1>2, <1>3, <1>4, <1>5, Going

\* A tool call closes the text before it.
LEMMA ToolOpenKept ==
    ASSUME IInv, ToolOpen PROVE IInv'
<1> USE DEF IInv, ToolOpen, Token
<1>1. TypeOK /\ phase = "loop" /\ phase' = "loop"
  OBVIOUS
<1>2. CASE text_block_started
  <2>1. Send(<<Stop(current_block_index)>>)
    BY <1>2
  <2>2. /\ client' \in Client /\ json' \in Json
        /\ client'.open = client.open \ {current_block_index}
        /\ client'.blocks = client.blocks
        /\ Opened(Received, current_block_index, "text") => Quiet(Received', current_block_index + 1)
    BY <1>1, <2>1, SendStop
  <2>0. current_block_index' = current_block_index + 1 /\ current_block_index' \in Nat
    BY <1>1, <1>2 DEF TypeOK
  <2>3. TypeOK'
    <3>1. tokens' \in Nat /\ disciplined' \in BOOLEAN
      BY <1>1 DEF TypeOK
    <3>. QED
      BY <1>1, <2>0, <2>2, <3>1 DEF TypeOK
  <2>4. Places'
    BY <1>2 DEF Places
  <2>5. Sent'
    BY <1>1, <1>2, <2>2 DEF Sent
  <2>6. disciplined' => InPlace'
    BY <1>1, <1>2, <2>2 DEF InOrder, InPlace
  <2>. QED
    BY <1>1, <2>3, <2>4, <2>5, <2>6, Going
<1>3. CASE ~text_block_started
  <2>1. Send(<<>>)
    BY <1>3
  <2>2. client' = client /\ json' = json /\ Received' = Received
    BY <1>1, <2>1, SendNothing DEF Received
  <2>0. current_block_index' = current_block_index
    BY <1>1, <1>3 DEF TypeOK
  <2>7. TypeOK'
    <3>1. tokens' \in Nat /\ disciplined' \in BOOLEAN
      BY <1>1 DEF TypeOK
    <3>. QED
      BY <1>1, <2>0, <2>2, <3>1 DEF TypeOK
  <2>3. TypeOK' /\ current_block_index' = current_block_index
    BY <2>0, <2>7
  <2>4. Places'
    BY <1>3 DEF Places
  <2>5. Sent'
    BY <1>1, <1>3, <2>2, <2>3 DEF Sent
  <2>6. disciplined' => InPlace'
    BY <1>1, <1>3, <2>2, <2>3 DEF InOrder, InPlace
  <2>. QED
    BY <1>1, <2>3, <2>4, <2>5, <2>6, Going
<1>. QED
  BY <1>2, <1>3

\* A call that parses is a block; one that does not becomes text.
LEMMA ToolCloseKept ==
    ASSUME IInv, NEW parses \in BOOLEAN, ToolClose(parses) PROVE IInv'
<1> USE DEF IInv, Token
<1>1. /\ TypeOK /\ phase = "loop" /\ phase' = "loop" /\ in_tool_call /\ ~text_block_started
      /\ in_tool_call' = FALSE /\ in_think' = in_think /\ tokens' \in Nat /\ disciplined' = disciplined
      /\ tool_tokens' = tool_tokens /\ tagged' = tagged /\ stop_reason' = stop_reason
  BY DEF ToolClose, Places, TypeOK
<1>2. CASE /\ Send(ToolUse(current_block_index))
           /\ current_block_index' = current_block_index + 1
           /\ tool_calls_emitted' = TRUE
           /\ UNCHANGED text_block_started
  <2>1. /\ client' \in Client /\ json' \in Json
        /\ client'.open = client.open \ {current_block_index}
        /\ client'.blocks # <<>> /\ HasTool(client'.blocks)
        /\ Quiet(Received, current_block_index) => Quiet(Received', current_block_index + 1)
    BY <1>1, <1>2, SendToolUse
  <2>2. TypeOK'
    <3>1. current_block_index' \in Nat /\ tool_calls_emitted' = TRUE /\ text_block_started' = text_block_started
      BY <1>1, <1>2 DEF TypeOK
    <3>. QED
      BY <1>1, <2>1, <3>1 DEF TypeOK
  <2>3. Places'
    BY <1>1, <1>2 DEF Places
  <2>4. Sent'
    BY <1>1, <1>2, <2>1 DEF Sent
  <2>5. disciplined' => InPlace'
    BY <1>1, <1>2, <2>1 DEF InOrder, InPlace
  <2>. QED
    BY <1>1, <2>2, <2>3, <2>4, <2>5, Going
<1>3. CASE /\ Send(OpenText \o DeltaOf("text", "plain"))
           /\ text_block_started' = TRUE
           /\ UNCHANGED <<current_block_index, tool_calls_emitted>>
  <2>1. /\ client' \in Client /\ json' \in Json
        /\ client'.open \subseteq client.open \cup {current_block_index}
        /\ client'.blocks # <<>>
        /\ HasTool(client'.blocks) <=> HasTool(client.blocks)
        /\ Quiet(Received, current_block_index) => Opened(Received', current_block_index, "text")
    BY <1>1, <1>3, SendText DEF Texts
  <2>2. TypeOK'
    <3>1. /\ current_block_index' = current_block_index /\ tool_calls_emitted' = tool_calls_emitted
          /\ text_block_started' = TRUE
      BY <1>3
    <3>. QED
      BY <1>1, <2>1, <3>1 DEF TypeOK
  <2>3. Places'
    BY <1>1, <1>3 DEF Places
  <2>4. Sent'
    BY <1>1, <1>3, <2>1 DEF Sent
  <2>5. disciplined' => InPlace'
    BY <1>1, <1>3, <2>1 DEF InOrder, InPlace
  <2>. QED
    BY <1>1, <2>2, <2>3, <2>4, <2>5, Going
<1>. QED
  BY <1>2, <1>3 DEF ToolClose

\* A token inside a call is only kept.
LEMMA InToolCallKept ==
    ASSUME IInv, InToolCall PROVE IInv'
<1> USE DEF IInv, InToolCall, Token, flags
<1>1. TypeOK /\ phase = "loop" /\ phase' = "loop" /\ Received' = Received
  BY DEF Received
<1>2. TypeOK'
  BY <1>1 DEF TypeOK
<1>3. Places'
  BY <1>1 DEF Places
<1>4. Sent'
  BY <1>1 DEF Sent
<1>5. disciplined' => InPlace'
  BY <1>1 DEF InOrder, InPlace
<1>. QED
  BY <1>1, <1>2, <1>3, <1>4, <1>5, Going

\* A thinking block is opened, unless one is open.
LEMMA ThinkOpenKept ==
    ASSUME IInv, ThinkOpen PROVE IInv'
<1> USE DEF IInv, ThinkOpen, Token, calls
<1>1. TypeOK /\ phase = "loop" /\ phase' = "loop"
  OBVIOUS
<1>2. CASE in_think
  <2>1. Send(<<>>)
    BY <1>2
  <2>2. client' = client /\ json' = json /\ Received' = Received
    BY <1>1, <2>1, SendNothing DEF Received
  <2>3. TypeOK'
    BY <1>1, <2>2 DEF TypeOK
  <2>4. Places'
    BY <1>1 DEF Places
  <2>5. Sent'
    BY <1>1, <1>2, <2>2 DEF Sent
  <2>6. disciplined' => InPlace'
    BY <1>1, <1>2, <2>2 DEF InOrder, InPlace
  <2>. QED
    BY <1>1, <2>3, <2>4, <2>5, <2>6, Going
<1>3. CASE ~in_think
  <2>1. Send(<<Start(current_block_index, "thinking")>>)
    BY <1>3
  <2>2. /\ client' \in Client /\ json' \in Json
        /\ client'.open = client.open \cup {current_block_index}
        /\ client'.blocks # <<>>
        /\ HasTool(client'.blocks) <=> HasTool(client.blocks)
        /\ Quiet(Received, current_block_index) => Opened(Received', current_block_index, "thinking")
    BY <1>1, <2>1, SendStart
  <2>3. TypeOK'
    BY <1>1, <2>2 DEF TypeOK
  <2>4. Places'
    BY <1>1 DEF Places
  <2>5. Sent'
    BY <1>1, <2>2 DEF Sent
  <2>6. disciplined' => InPlace'
    BY <1>1, <1>3, <2>2 DEF InOrder, InPlace
  <2>. QED
    BY <1>1, <2>3, <2>4, <2>5, <2>6, Going
<1>. QED
  BY <1>2, <1>3

\* The thinking block is closed, if one is open.
LEMMA ThinkCloseKept ==
    ASSUME IInv, ThinkClose PROVE IInv'
<1> USE DEF IInv, ThinkClose, Token, calls
<1>1. TypeOK /\ phase = "loop" /\ phase' = "loop"
  OBVIOUS
<1>2. CASE in_think
  <2>1. Send(<<Stop(current_block_index)>>)
    BY <1>2
  <2>2. /\ client' \in Client /\ json' \in Json
        /\ client'.open = client.open \ {current_block_index}
        /\ client'.blocks = client.blocks
        /\ Opened(Received, current_block_index, "thinking") => Quiet(Received', current_block_index + 1)
    BY <1>1, <2>1, SendStop
  <2>0. current_block_index' = current_block_index + 1 /\ current_block_index' \in Nat
    BY <1>1, <1>2 DEF TypeOK
  <2>3. TypeOK'
    <3>1. tokens' \in Nat /\ disciplined' \in BOOLEAN
      BY <1>1 DEF TypeOK
    <3>. QED
      BY <1>1, <2>0, <2>2, <3>1 DEF TypeOK
  <2>4. Places'
    BY <1>1 DEF Places
  <2>5. Sent'
    BY <1>1, <1>2, <2>2 DEF Sent
  <2>6. disciplined' => InPlace'
    BY <1>1, <1>2, <2>2 DEF InOrder, InPlace
  <2>. QED
    BY <1>1, <2>3, <2>4, <2>5, <2>6, Going
<1>3. CASE ~in_think
  <2>1. Send(<<>>)
    BY <1>3
  <2>2. client' = client /\ json' = json /\ Received' = Received
    BY <1>1, <2>1, SendNothing DEF Received
  <2>0. current_block_index' = current_block_index
    BY <1>1, <1>3 DEF TypeOK
  <2>7. TypeOK'
    <3>1. tokens' \in Nat /\ disciplined' \in BOOLEAN
      BY <1>1 DEF TypeOK
    <3>. QED
      BY <1>1, <2>0, <2>2, <3>1 DEF TypeOK
  <2>3. TypeOK' /\ current_block_index' = current_block_index
    BY <2>0, <2>7
  <2>4. Places'
    BY <1>1 DEF Places
  <2>5. Sent'
    BY <1>1, <1>3, <2>2, <2>3 DEF Sent
  <2>6. disciplined' => InPlace'
    BY <1>1, <1>3, <2>2, <2>3 DEF InOrder, InPlace
  <2>. QED
    BY <1>1, <2>3, <2>4, <2>5, <2>6, Going
<1>. QED
  BY <1>2, <1>3

\* A token of a thought.
LEMMA ThinkKept ==
    ASSUME IInv, NEW text \in Texts, Think(text) PROVE IInv'
<1> USE DEF IInv, Think, Token, flags, calls
<1>1. /\ TypeOK /\ phase = "loop" /\ in_think
      /\ stop_reason' \in {"max_tokens", "end_turn"} /\ phase' \in {"loop", "end"}
  BY DEF MayStop, Sent, TypeOK
<1>2. CASE text = "silent"
  <2>1. Send(<<>>)
    BY <1>2 DEF DeltaOf
  <2>2. client' = client /\ json' = json /\ Received' = Received
    BY <1>1, <2>1, SendNothing DEF Received
  <2>3. TypeOK'
    BY <1>1, <2>2 DEF TypeOK
  <2>4. Places'
    BY <1>1 DEF Places
  <2>5. Sent'
    BY <1>1, <1>2, <2>2 DEF Sent
  <2>6. disciplined' => InPlace'
    BY <1>1, <1>2, <2>2 DEF InOrder, InPlace
  <2>. QED
    BY <1>1, <2>3, <2>4, <2>5, <2>6, Going
<1>3. CASE text # "silent"
  <2>1. Send(<<Delta(current_block_index, "thinking")>>)
    BY <1>3 DEF DeltaOf
  <2>2. /\ client' \in Client /\ json' \in Json
        /\ client'.open = client.open
        /\ client.blocks # <<>> => client'.blocks # <<>>
        /\ HasTool(client'.blocks) <=> HasTool(client.blocks)
        /\ Opened(Received, current_block_index, "thinking")
               => Opened(Received', current_block_index, "thinking")
    BY <1>1, <2>1, SendDelta
  <2>3. TypeOK'
    BY <1>1, <2>2 DEF TypeOK
  <2>4. Places'
    BY <1>1 DEF Places
  <2>5. Sent'
    BY <1>1, <2>2 DEF Sent
  <2>6. disciplined' => InPlace'
    BY <1>1, <2>2 DEF InOrder, InPlace
  <2>. QED
    BY <1>1, <2>3, <2>4, <2>5, <2>6, Going
<1>. QED
  BY <1>2, <1>3

---------------------------------------------------------------------------
(* The end *)

\* The blocks the fallbacks and the closing events leave, whatever was open.
LEMMA Closing ==
    ASSUME NEW parses \in BOOLEAN, Finish(parses), IInv
    PROVE  /\ client' \in Client /\ json' \in Json
           /\ client'.open = {} /\ client'.blocks # <<>>
           /\ HasTool(client'.blocks) <=> tool_calls_emitted'
           /\ disciplined => client'.orderly /\ json'.blocks = client'.blocks
<1> USE DEF IInv
<1> DEFINE n == current_block_index
           i == n + Advance(parses)
           j == i + IF in_think THEN 1 ELSE 0
           text == text_block_started /\ ~InText(parses)
           emitted == tool_calls_emitted \/ Unterminated(parses) \/ InText(parses)
           E1 == Fallback(parses)
           E2 == IF in_think THEN <<Stop(i)>> ELSE <<>>
           E3 == IF text THEN <<Stop(j)>>
                 ELSE IF ~in_think /\ ~emitted THEN <<Start(j, "text"), Stop(j)>> ELSE <<>>
           a == After(Received, E1)
           b == After(a, E2)
           c == After(b, E3)
<1>1. /\ phase = "end" /\ TypeOK /\ Places /\ n \in Nat /\ Received \in Receivers
      /\ tagged \in Nat /\ tool_tokens \in Nat
      /\ client.open \subseteq {n}
      /\ client.open # {} => in_think \/ text_block_started
      /\ in_think \/ text_block_started => client.blocks # <<>>
      /\ tool_calls_emitted <=> HasTool(client.blocks)
      /\ disciplined => InPlace
  BY ReceivedIs DEF Finish, Sent, InOrder, TypeOK
<1>2. Received.client = client /\ Received.json = json
  BY ReceivedIs
<1>3. Send(E1 \o E2 \o E3) /\ tool_calls_emitted' = emitted
  BY DEF Finish
<1>4. Advance(parses) \in Nat /\ i \in Nat /\ j \in Nat
  BY <1>1 DEF Advance
<1>5. E1 \in Seq(Event)
  <2>1. ToolUse(n) \in Seq(Event) /\ <<Stop(n)>> \in Seq(Event) /\ <<>> \in Seq(Event)
    BY <1>1, Events
  <2>2. ToolUses(n, tagged) \in Seq(Event) /\ ToolUses(n + 1, tagged) \in Seq(Event)
    BY <1>1, ToolUsesForms
  <2>3. <<Stop(n)>> \o ToolUses(n + 1, tagged) \in Seq(Event)
    BY <2>1, <2>2
  <2>. QED
    BY <2>1, <2>2, <2>3 DEF Fallback
<1>6. E2 \in Seq(Event) /\ E3 \in Seq(Event)
  <2>1. Stop(i) \in Event /\ Stop(j) \in Event /\ Start(j, "text") \in Event
    BY <1>4, Events DEF Kinds
  <2>. QED
    BY <2>1
<1>15. (in_think => j = i + 1) /\ (~in_think => j = i)
  BY <1>4
<1> HIDE DEF j
\* The fallbacks.
<1>7. /\ a \in Receivers
      /\ a.client.open \subseteq client.open
      /\ Unterminated(parses) \/ InText(parses) => /\ a.client.open = {}
                                                  /\ a.client.blocks # <<>> /\ HasTool(a.client.blocks)
      /\ ~Unterminated(parses) /\ ~InText(parses) => a = Received /\ i = n
      /\ disciplined /\ (Unterminated(parses) \/ InText(parses)) => ~in_think /\ Quiet(a, i)
  <2>1. CASE Unterminated(parses)
    <3>1. a = After(Received, ToolUse(n)) /\ i = n + 1
      BY <2>1 DEF Fallback, Advance
    <3>2. /\ a \in Receivers /\ a.client.open = client.open \ {n}
          /\ a.client.blocks # <<>> /\ HasTool(a.client.blocks)
          /\ Quiet(Received, n) => Quiet(a, n + 1)
      BY <1>1, <1>2, <3>1, AfterToolUse
    <3>3. disciplined => ~in_think /\ Quiet(Received, n)
      BY <1>1, <2>1 DEF Unterminated, InPlace, Places
    <3>. QED
      BY <1>1, <2>1, <3>1, <3>2, <3>3
  <2>2. CASE InText(parses) /\ text_block_started
    <3> DEFINE o == Take(Received, Stop(n))
    <3>1. E1 = <<Stop(n)>> \o ToolUses(n + 1, tagged) /\ i = n + 1 + tagged /\ tagged > 0
      BY <1>1, <2>2 DEF Fallback, Advance, InText
    <3>2. /\ o \in Receivers /\ o.client.open = client.open \ {n}
          /\ Opened(Received, n, "text") => Quiet(o, n + 1)
      BY <1>1, <1>2, TakeStop
    <3>3. a = After(o, ToolUses(n + 1, tagged))
      <4>1. <<Stop(n)>> \in Seq(Event) /\ ToolUses(n + 1, tagged) \in Seq(Event)
        BY <1>1, Events, ToolUsesForms
      <4> DEFINE x == <<Stop(n)>>
                 y == ToolUses(n + 1, tagged)
      <4>2. x \in Seq(Event) /\ y \in Seq(Event) /\ E1 = x \o y /\ After(Received, x) = o
        BY <3>1, <4>1, AfterOne
      <4> HIDE DEF x, y, o, E1
      <4>3. After(Received, x \o y) = After(After(Received, x), y)
        BY <4>2, AfterBoth
      <4>4. a = After(Received, E1)
        OBVIOUS
      <4>. QED
        BY <4>2, <4>3, <4>4 DEF y
    <3> HIDE DEF o
    <3>4. /\ a \in Receivers /\ a.client.open \subseteq o.client.open
          /\ a.client.blocks # <<>> /\ HasTool(a.client.blocks)
          /\ Quiet(o, n + 1) => Quiet(a, n + 1 + tagged)
      <4> DEFINE first == n + 1
      <4>1. first \in Nat
        BY <1>1
      <4> HIDE DEF first, a
      <4>2. a = After(o, ToolUses(first, tagged))
        BY <3>3 DEF first
      <4>3. /\ a \in Receivers /\ a.client.open \subseteq o.client.open
            /\ a.client.blocks # <<>> /\ HasTool(a.client.blocks)
            /\ Quiet(o, first) => Quiet(a, first + tagged)
        BY <1>1, <3>1, <3>2, <4>1, <4>2, AfterToolUses, ZenonT(30)
      <4>. QED
        BY <4>3 DEF first
    <3>5. disciplined => ~in_think /\ Opened(Received, n, "text")
      BY <1>1, <2>2 DEF InPlace
    <3>. QED
      BY <1>1, <2>2, <3>1, <3>2, <3>4, <3>5
  <2>3. CASE InText(parses) /\ ~text_block_started
    <3>1. a = After(Received, ToolUses(n, tagged)) /\ i = n + tagged /\ tagged > 0
      BY <1>1, <2>3 DEF Fallback, Advance, InText
    <3>2. /\ a \in Receivers /\ a.client.open \subseteq client.open \ {n}
          /\ a.client.blocks # <<>> /\ HasTool(a.client.blocks)
          /\ Quiet(Received, n) => Quiet(a, n + tagged)
      BY <1>1, <1>2, <3>1, AfterToolUses
    <3>3. disciplined => ~in_think /\ Quiet(Received, n)
      BY <1>1, <2>3, <3>1 DEF InPlace, Places, InText
    <3>. QED
      BY <1>1, <2>3, <3>1, <3>2, <3>3
  <2>4. CASE ~Unterminated(parses) /\ ~InText(parses)
    <3>1. a = Received /\ i = n
      BY <1>1, <2>4, AfterNone DEF Fallback, Advance
    <3>. QED
      BY <1>1, <1>2, <2>4, <3>1
  <2>. QED
    BY <2>1, <2>2, <2>3, <2>4
<1> HIDE DEF a, i
\* A thinking block that is still open.
<1>8. /\ b \in Receivers
      /\ b.client.open \subseteq a.client.open
      /\ in_think => b.client.open = {}
      /\ b.client.blocks = a.client.blocks
      /\ ~in_think => b = a /\ j = i
      /\ disciplined /\ in_think => Quiet(b, j)
  <2>1. CASE in_think
    <3>1. b = Take(a, Stop(i)) /\ j = i + 1
      BY <1>15, <2>1, AfterOne
    <3>2. /\ b \in Receivers /\ b.client.open = a.client.open \ {i}
          /\ b.client.blocks = a.client.blocks
          /\ Opened(a, i, "thinking") => Quiet(b, i + 1)
      <4> HIDE DEF b, E2
      <4>1. "thinking" \in {"text", "thinking"}
        OBVIOUS
      <4>. QED
        BY <4>1, <1>4, <1>7, <3>1, TakeStop
    <3>3. b.client.open = {}
      BY <1>1, <1>7, <3>2
    <3>4. disciplined => Opened(a, i, "thinking")
      BY <1>1, <1>7, <2>1 DEF InPlace
    <3>. QED
      BY <2>1, <3>1, <3>2, <3>3, <3>4
  <2>2. CASE ~in_think
    <3>1. b = a /\ j = i
      BY <1>15, <2>2, AfterNone
    <3>. QED
      BY <1>7, <2>2, <3>1
  <2>. QED
    BY <2>1, <2>2
<1> HIDE DEF b
\* A text block that is, or an empty one when nothing was sent.
<1>9. /\ c \in Receivers /\ c.client.open = {} /\ c.client.blocks # <<>>
      /\ HasTool(c.client.blocks) <=> HasTool(b.client.blocks)
      /\ disciplined => \E m \in Nat : Quiet(c, m)
  <2>1. CASE text
    <3>1. c = Take(b, Stop(j))
      BY <2>1, AfterOne
    <3>2. /\ c \in Receivers /\ c.client.open = b.client.open \ {j}
          /\ c.client.blocks = b.client.blocks
          /\ Opened(b, j, "text") => Quiet(c, j + 1)
      <4> HIDE DEF c, E3
      <4>1. "text" \in {"text", "thinking"}
        OBVIOUS
      <4>. QED
        BY <4>1, <1>4, <1>8, <3>1, TakeStop
    <3>3. ~Unterminated(parses) /\ ~InText(parses)
      BY <1>1, <2>1 DEF Unterminated, Places
    <3>4. a = Received /\ i = n
      BY <1>7, <3>3
    <3>5. c.client.open = {}
      BY <1>1, <1>2, <1>8, <3>2, <3>4
    <3>6. c.client.blocks # <<>>
      BY <1>1, <1>2, <1>8, <2>1, <3>2, <3>4
    <3>7. disciplined => Opened(b, j, "text")
      BY <1>1, <1>8, <2>1, <3>4 DEF InPlace
    <3>8. j + 1 \in Nat
      BY <1>4
    <3>. QED
      BY <3>2, <3>5, <3>6, <3>7, <3>8
  <2>2. CASE ~text /\ ~in_think /\ ~emitted
    <3> DEFINE o == Take(b, Start(j, "text"))
    <3>0. "text" \in Kinds /\ "text" # "tool_use"
      BY DEF Kinds
    <3>1. c = Take(o, Stop(j))
      BY <2>2, AfterTwo
    <3>2. /\ o \in Receivers /\ o.client.open = b.client.open \cup {j}
          /\ o.client.blocks # <<>>
          /\ HasTool(o.client.blocks) <=> HasTool(b.client.blocks)
          /\ Quiet(b, j) => Opened(o, j, "text")
      BY <1>4, <1>8, <3>0, TakeStart
    <3> HIDE DEF o
    <3>3. /\ c \in Receivers /\ c.client.open = o.client.open \ {j}
          /\ c.client.blocks = o.client.blocks
          /\ Opened(o, j, "text") => Quiet(c, j + 1)
      <4> HIDE DEF c, E3
      <4>1. "text" \in {"text", "thinking"}
        OBVIOUS
      <4>. QED
        BY <4>1, <1>4, <3>1, <3>2, TakeStop
    <3>4. a = Received /\ i = n /\ b = a /\ j = n /\ ~text_block_started
      BY <1>7, <1>8, <2>2
    <3>5. client.open = {}
      BY <1>1, <2>2, <3>4
    <3>6. c.client.open = {}
      BY <1>2, <3>2, <3>3, <3>4, <3>5
    <3>7. disciplined => Quiet(b, j)
      BY <1>1, <2>2, <3>4 DEF InPlace
    <3>8. j + 1 \in Nat
      BY <1>4
    <3>. QED
      BY <3>2, <3>3, <3>6, <3>7, <3>8
  <2>3. CASE ~text /\ (in_think \/ emitted)
    <3>1. c = b
      BY <2>3, AfterNone
    <3>2. CASE in_think
      <4>1. b.client.open = {} /\ (disciplined => Quiet(b, j))
        BY <1>8, <3>2
      <4>2. b.client.blocks # <<>>
        BY <1>1, <1>2, <1>7, <1>8, <3>2
      <4>. QED
        BY <1>4, <1>8, <3>1, <4>1, <4>2
    <3>3. CASE ~in_think /\ (Unterminated(parses) \/ InText(parses))
      <4>1. b = a /\ j = i
        BY <1>8, <3>3
      <4>. QED
        BY <1>4, <1>7, <3>1, <3>3, <4>1
    <3>4. CASE ~in_think /\ ~Unterminated(parses) /\ ~InText(parses)
      <4>1. tool_calls_emitted /\ ~text_block_started
        BY <2>3, <3>4
      <4>2. a = Received /\ b = a /\ i = n /\ j = n
        BY <1>7, <1>8, <3>4
      <4>3. client.open = {} /\ HasTool(client.blocks)
        BY <1>1, <3>4, <4>1
      <4>4. client.blocks # <<>>
        BY <4>3 DEF HasTool
      <4>5. disciplined => Quiet(b, j)
        BY <1>1, <3>4, <4>1, <4>2 DEF InPlace
      <4>. QED
        BY <1>2, <1>4, <1>8, <3>1, <4>2, <4>3, <4>4, <4>5
    <3>. QED
      BY <2>3, <3>2, <3>3, <3>4
  <2>. QED
    BY <2>1, <2>2, <2>3
<1>10. HasTool(b.client.blocks) <=> emitted
  <2>1. CASE Unterminated(parses) \/ InText(parses)
    BY <1>7, <1>8, <2>1
  <2>2. CASE ~Unterminated(parses) /\ ~InText(parses)
    BY <1>1, <1>2, <1>7, <1>8, <2>2
  <2>. QED
    BY <2>1, <2>2
<1>11. After(Received, E1 \o E2 \o E3) = c
  <2> HIDE DEF E1, E2, E3
  <2> DEFINE x == E1 \o E2
  <2>1. x \in Seq(Event)
    BY <1>5, <1>6
  <2>2. After(Received, x) = After(After(Received, E1), E2)
    BY <1>5, <1>6, AfterBoth
  <2> HIDE DEF x
  <2>3. After(Received, x \o E3) = After(After(Received, x), E3)
    BY <1>6, <2>1, AfterBoth
  <2>. QED
    BY <2>2, <2>3 DEF a, b, x
<1> HIDE DEF c
<1>12. Received' = c
  <2> HIDE DEF E1, E2, E3, emitted
  <2>. QED
    BY <1>3, <1>9, <1>11, SendIs
<1>13. client' = c.client /\ json' = c.json /\ client' \in Client /\ json' \in Json
  BY <1>9, <1>12, ReceivedIs
<1>14. disciplined => client'.orderly /\ json'.blocks = client'.blocks
  BY <1>9, <1>13 DEF Quiet
<1>. QED
  BY <1>3, <1>9, <1>10, <1>13, <1>14

\* What is left open is closed, and the stop reason agrees with what was sent.
LEMMA FinishKept ==
    ASSUME IInv, NEW parses \in BOOLEAN, Finish(parses) PROVE IInv'
<1>1. /\ client' \in Client /\ json' \in Json
      /\ client'.open = {} /\ client'.blocks # <<>>
      /\ HasTool(client'.blocks) <=> tool_calls_emitted'
      /\ disciplined => client'.orderly /\ json'.blocks = client'.blocks
  BY Closing
<1>2. phase = "end" /\ phase' = "done" /\ disciplined' = disciplined /\ TypeOK /\ Places
  BY DEF Finish, IInv
<1>3. stop_reason # "tool_use"
  BY <1>2 DEF IInv, Sent
<1>4. stop_reason' = "tool_use" <=> tool_calls_emitted'
  BY <1>3 DEF Finish
<1>5. /\ current_block_index' \in Nat /\ text_block_started' \in BOOLEAN
      /\ tool_calls_emitted' \in BOOLEAN /\ in_tool_call' \in BOOLEAN
      /\ stop_reason' \in {"max_tokens", "end_turn", "tool_use"}
  <2>1. Advance(parses) \in Nat
    BY <1>2 DEF Advance, TypeOK
  <2>. QED
    BY <1>2, <2>1 DEF Finish, TypeOK, InText, Unterminated
<1>6. TypeOK'
  BY <1>1, <1>2, <1>5 DEF Finish, TypeOK
<1>7. Places'
  <2>1. /\ in_tool_call' => in_tool_call /\ ~Unterminated(parses)
        /\ text_block_started' => text_block_started
        /\ tool_calls_emitted' <=> tool_calls_emitted \/ Unterminated(parses) \/ InText(parses)
        /\ tagged' = tagged
    BY DEF Finish
  <2>2. tagged > 0 => tool_calls_emitted'
    BY <2>1 DEF InText
  <2>. QED
    BY <1>2, <2>1, <2>2 DEF Places
<1>8. WellClosed'
  BY <1>1, <1>4 DEF WellClosed, HasTool
<1>. QED
  BY <1>1, <1>2, <1>6, <1>7, <1>8 DEF IInv, Sent, InOrder

---------------------------------------------------------------------------
(* The theorems *)

\* Every step keeps the invariant.
THEOREM StepIInv == IInv /\ [Next]_vars => IInv'
<1> SUFFICES ASSUME IInv, [Next]_vars PROVE IInv'
  OBVIOUS
<1>1. CASE Next
  BY <1>1, FirstThinksKept, FirstCallsKept, EndKept, ToolOpenKept, InToolCallKept,
     ThinkOpenKept, ThinkCloseKept, FirstSaysKept, ThinkKept, SpeakKept, ToolCloseKept,
     FinishKept DEF Next
<1>2. CASE UNCHANGED vars
  BY <1>2 DEF vars, flags, calls, IInv, TypeOK, Places, Sent, InOrder, InPlace, Received,
              WellClosed, Quiet, Opened
<1>. QED
  BY <1>1, <1>2

\* The invariant holds in every reachable state.
THEOREM Inductive == Spec => []IInv
<1>. QED
  BY InitIInv, StepIInv, PTL DEF Spec

\* Whatever a disciplined model generates, the events are in the order of the
\* Messages API.
THEOREM EventsAreOrderly == Spec => []OrderlyIfDisciplined
<1>1. IInv => OrderlyIfDisciplined
  BY DEF IInv, InOrder, InPlace, Opened, Quiet, OrderlyIfDisciplined, Received, TypeOK, Client
<1>. QED
  BY <1>1, Inductive, PTL

\* Whatever any model generates, every block is closed at the end, there is one,
\* and the stop reason tells of the tool calls.
THEOREM BlocksAreClosed == Spec => []WellClosed
<1>1. IInv => WellClosed
  BY DEF IInv
<1>. QED
  BY <1>1, Inductive, PTL

\* The JSON response to a disciplined model is the streamed one.
THEOREM JsonIsTheStream == Spec => []JsonAgrees
<1>1. IInv => JsonAgrees
  BY DEF IInv, InOrder, JsonAgrees
<1>. QED
  BY <1>1, Inductive, PTL
=============================================================================
