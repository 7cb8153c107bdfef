---------------------------- MODULE RequestsProofs ----------------------------
(***************************************************************************)
(* The safety of the server's requests, for any number of requests,        *)
(* threads, permits and events.                                            *)
(*                                                                         *)
(* IInv is the inductive invariant: the types, the accounts of the two     *)
(* semaphores and the metrics with the order of their queues, who runs on  *)
(* which thread with whose callback, and what a client has been told at    *)
(* each place of its request.  One lemma per part shows that every step    *)
(* keeps it; the theorems at the end draw the properties from it.          *)
(***************************************************************************)
EXTENDS Requests, FiniteSetTheorems, SequenceTheorems, TLAPS

Ended == {"erring", "failed"}
Stages == {"new", "done"} \cup Queued \cup Holding \cup Ended
Clients == {"reading", "gone", "answered"}
JobStages == {"new", "waiting", "spawned", "begun", "computing", "ended", "done"}

\* Each element of a queue is in it once.
Once(q) == \A i, j \in 1 .. Len(q) : q[i] = q[j] => i = j

Kinds == {"queue", "start", "progress", "delta", "stop", "error"}

ChannelTypes == /\ client \in [Requests -> Clients]
                /\ buffer \in [Requests -> 0 .. Capacity]
                /\ last \in [Requests -> Kinds \cup {"none"}]
PoolTypes == /\ thread \in [Requests -> Threads \cup {None}]
             /\ callback \in [Threads -> Requests \cup {None}]
             /\ lock \in Requests \cup {None} /\ poisoned \in BOOLEAN
PlaceTypes == /\ stage \in [Requests -> Stages]
              /\ left \in [Requests -> Nat]
              /\ \A r \in Requests : stage[r] = "decode" => left[r] > 0
              /\ log \in [Requests -> {"none", "prefilling", "decoding", "complete"}]
EmbedType == [permits : Nat, queue : Seq(Embeds), lock : Embeds \cup {None}, poisoned : BOOLEAN]
JobType == [stage : JobStages, client : Clients, thread : Threads \cup {None}]
EmbedTypes == embed \in EmbedType /\ job \in [Embeds -> JobType]
TypeOK == /\ permits \in Nat /\ queue \in Seq(Requests)
          /\ ChannelTypes
          /\ PoolTypes
          /\ PlaceTypes
          /\ EmbedTypes

---------------------------------------------------------------------------
(* The inductive invariant *)

\* active_requests counts the requests that run and those that ended by an error;
\* total_requests those that completed: so neither is ever taken below 0.
ActiveExplained ==
    /\ active_requests = Cardinality(In(Holding)) + Cardinality(In({"erring", "failed"}))
    /\ total_requests = Cardinality(In({"done"}))

\* The semaphore's queue, its permits, and the metrics.
Accounts == /\ permits + Cardinality(In(Holding)) = MaxConcurrent
            /\ waiting_count = Cardinality(In(Queued))
            /\ ActiveExplained
QueueInPlace == /\ In({"waiting"}) = ToSet(queue)
                /\ Len(queue) = Cardinality(In({"waiting"}))
                /\ Once(queue)

\* The same of the embeddings' semaphore, whose handler answers or leaves.
EmbedAccounts ==
    /\ embed.permits + Cardinality(Holders) = 1
    /\ {e \in Embeds : job[e].stage = "waiting"} = ToSet(embed.queue)
    /\ Once(embed.queue)
    /\ \A e \in Embeds : /\ job[e].stage \in {"new", "waiting"} => job[e].client = "reading"
                         /\ job[e].stage = "done" => job[e].client # "reading"

\* A closure that runs has a thread to itself, with its own callback until its
\* prefill is over.
OnThread == {"begun", "prefill", "first", "decode", "emit", "closing"}
ThreadsInPlace ==
    /\ \A r \in Requests : thread[r] # None <=> stage[r] \in OnThread
    /\ \A r, q \in Requests : thread[r] # None /\ thread[r] = thread[q] => r = q
    /\ \A r \in Requests, e \in Embeds : thread[r] # None => job[e].thread # thread[r]
    /\ OwnProgress

\* A stream ends where its request does.
Told ==
    \A r \in Requests :
        /\ last[r] = "stop" => stage[r] \in {"returned", "done"}
        /\ last[r] = "error" => stage[r] = "failed"
        /\ stage[r] \in {"returned", "done"} /\ client[r] # "gone" => last[r] = "stop"
        /\ stage[r] = "failed" => last[r] = "error"
        /\ client[r] = "answered" => last[r] \in {"stop", "error"}

IInv == /\ TypeOK
        /\ Accounts
        /\ QueueInPlace
        /\ EmbedAccounts
        /\ ThreadsInPlace
        /\ Told

---------------------------------------------------------------------------
(* Queues *)

\* The elements of a sequence are those it has at its positions.
LEMMA ToSetIs ==
    ASSUME NEW S, NEW q \in Seq(S)
    PROVE  \A x : x \in ToSet(q) <=> \E i \in 1 .. Len(q) : q[i] = x
  BY DEF ToSet

\* Taking element i out of a sequence moves those behind it one place ahead
\* (a waiter that leaves tokio's queue).
LEMMA RemoveAtProperties ==
    ASSUME NEW S, NEW q \in Seq(S), NEW i \in 1 .. Len(q)
    PROVE  /\ RemoveAt(q, i) \in Seq(S)
           /\ Len(RemoveAt(q, i)) = Len(q) - 1
           /\ \A j \in 1 .. Len(q) - 1 : RemoveAt(q, i)[j] = IF j < i THEN q[j] ELSE q[j + 1]
<1> DEFINE a == SubSeq(q, 1, i - 1)
           b == SubSeq(q, i + 1, Len(q))
           c == a \o b
<1>0. Len(q) \in Nat
  OBVIOUS
<1>1. a \in Seq(S) /\ Len(a) = i - 1 /\ \A j \in 1 .. i - 1 : a[j] = q[j]
  OBVIOUS
<1>2. b \in Seq(S) /\ Len(b) = Len(q) - i /\ \A j \in 1 .. Len(q) - i : b[j] = q[i + j]
  OBVIOUS
<1> HIDE DEF a, b
<1>3. /\ c \in Seq(S)
      /\ Len(c) = Len(a) + Len(b)
      /\ \A k \in 1 .. Len(a) + Len(b) : c[k] = IF k <= Len(a) THEN a[k] ELSE b[k - Len(a)]
  BY <1>1, <1>2, ConcatProperties
<1> HIDE DEF c
<1>4. Len(c) = Len(q) - 1
  BY <1>0, <1>1, <1>2, <1>3
<1>5. \A k \in 1 .. Len(q) - 1 : c[k] = IF k <= i - 1 THEN a[k] ELSE b[k - (i - 1)]
  BY <1>0, <1>1, <1>2, <1>3
<1>6. ASSUME NEW j \in 1 .. Len(q) - 1 PROVE c[j] = IF j < i THEN q[j] ELSE q[j + 1]
  <2>1. CASE j < i
    BY <1>0, <1>1, <1>5, <2>1
  <2>2. CASE j >= i
    <3>1. j - (i - 1) \in 1 .. Len(q) - i /\ i + (j - (i - 1)) = j + 1
      BY <1>0, <2>2
    <3>2. c[j] = b[j - (i - 1)]
      BY <1>0, <1>5, <2>2
    <3>3. b[j - (i - 1)] = q[i + (j - (i - 1))]
      BY <1>2, <3>1
    <3>. QED
      BY <3>1, <3>2, <3>3, <2>2, <1>0
  <2>. QED
    BY <2>1, <2>2, <1>0
<1>7. RemoveAt(q, i) = c
  BY DEF RemoveAt, a, b, c
<1>. QED
  BY <1>3, <1>4, <1>6, <1>7

\* Taking an element out of a queue it is in once removes that element only.
LEMMA WithoutProperties ==
    ASSUME NEW S, NEW q \in Seq(S), Once(q), NEW x \in ToSet(q)
    PROVE  /\ Without(q, x) \in Seq(S)
           /\ Len(Without(q, x)) = Len(q) - 1
           /\ Once(Without(q, x))
           /\ ToSet(Without(q, x)) = ToSet(q) \ {x}
<1> DEFINE p == CHOOSE i \in DOMAIN q : q[i] = x
           w == Without(q, x)
<1>0. Len(q) \in Nat
  OBVIOUS
<1>1. p \in 1 .. Len(q) /\ q[p] = x
  BY ToSetIs
<1> HIDE DEF p
<1>2. w = RemoveAt(q, p)
  BY DEF Without, p
<1>3. /\ w \in Seq(S)
      /\ Len(w) = Len(q) - 1
      /\ \A j \in 1 .. Len(q) - 1 : w[j] = IF j < p THEN q[j] ELSE q[j + 1]
  BY <1>1, <1>2, RemoveAtProperties
<1> HIDE DEF w
<1>4. \A j \in 1 .. Len(q) : j # p => q[j] # x
  BY <1>1 DEF Once
<1>5. Once(w)
  BY <1>0, <1>1, <1>3 DEF Once
<1>6. \A j \in 1 .. Len(w) : \E i \in 1 .. Len(q) : i # p /\ w[j] = q[i]
  <2> TAKE j \in 1 .. Len(w)
  <2>1. CASE j < p
    BY <1>0, <1>3, <2>1
  <2>2. CASE j >= p
    BY <1>0, <1>3, <2>2
  <2>. QED
    BY <1>0, <1>1, <1>3, <2>1, <2>2
<1>7. \A i \in 1 .. Len(q) : i # p => \E j \in 1 .. Len(w) : w[j] = q[i]
  <2> SUFFICES ASSUME NEW i \in 1 .. Len(q), i # p PROVE \E j \in 1 .. Len(w) : w[j] = q[i]
    OBVIOUS
  <2>1. CASE i < p
    <3>1. i \in 1 .. Len(w) /\ w[i] = q[i]
      BY <1>0, <1>1, <1>3, <2>1
    <3>. QED
      BY <3>1
  <2>2. CASE i > p
    <3>1. i - 1 \in 1 .. Len(w) /\ w[i - 1] = q[i]
      BY <1>0, <1>1, <1>3, <2>2
    <3>. QED
      BY <3>1
  <2>. QED
    BY <1>0, <1>1, <2>1, <2>2
<1>8. ToSet(w) = ToSet(q) \ {x}
  <2>1. \A y : y \in ToSet(w) => y \in ToSet(q) \ {x}
    BY <1>3, <1>4, <1>6, ToSetIs
  <2>2. ASSUME NEW y \in ToSet(q), y # x PROVE y \in ToSet(w)
    <3>1. PICK i \in 1 .. Len(q) : q[i] = y
      BY ToSetIs
    <3>2. PICK j \in 1 .. Len(w) : w[j] = y
      BY <1>1, <1>7, <2>2, <3>1
    <3>. QED
      BY <1>3, <3>2, ToSetIs
  <2>. QED
    BY <2>1, <2>2
<1>. QED
  BY <1>3, <1>5, <1>8 DEF w

\* Joining a queue: one more element, at the end.
LEMMA AppendQueue ==
    ASSUME NEW S, NEW q \in Seq(S), NEW x \in S, Once(q),
           \A i \in 1 .. Len(q) : q[i] # x
    PROVE  /\ Append(q, x) \in Seq(S)
           /\ Len(Append(q, x)) = Len(q) + 1
           /\ Once(Append(q, x))
           /\ ToSet(Append(q, x)) = ToSet(q) \cup {x}
<1> DEFINE a == Append(q, x)
<1>0. Len(q) \in Nat
  OBVIOUS
<1>1. /\ a \in Seq(S)
      /\ Len(a) = Len(q) + 1
      /\ a[Len(q) + 1] = x
      /\ \A i \in 1 .. Len(q) : a[i] = q[i]
  OBVIOUS
<1> HIDE DEF a
<1>2. Once(a)
  BY <1>0, <1>1 DEF Once
<1>3. 1 .. Len(a) = (1 .. Len(q)) \cup {Len(q) + 1}
  BY <1>0, <1>1
<1>4. ToSet(a) = ToSet(q) \cup {x}
  BY <1>0, <1>1, <1>3, ToSetIs
<1>. QED
  BY <1>1, <1>2, <1>4 DEF a

\* Serving the head of a queue.
LEMMA TailQueue ==
    ASSUME NEW S, NEW q \in Seq(S), Once(q), q # <<>>
    PROVE  /\ Tail(q) \in Seq(S)
           /\ Once(Tail(q))
           /\ ToSet(Tail(q)) = ToSet(q) \ {Head(q)}
<1> DEFINE a == Tail(q)
<1>0. Len(q) \in Nat \ {0} /\ Head(q) = q[1]
  OBVIOUS
<1>1. a \in Seq(S) /\ Len(a) = Len(q) - 1 /\ \A i \in 1 .. Len(a) : a[i] = q[i + 1]
  OBVIOUS
<1> HIDE DEF a
<1>2. Once(a)
  BY <1>0, <1>1 DEF Once
<1>3. \A i \in 1 .. Len(q) : i # 1 => q[i] # q[1]
  BY <1>0 DEF Once
<1>4. \A i \in 1 .. Len(a) : i + 1 \in 1 .. Len(q) /\ i + 1 # 1
  BY <1>0, <1>1
<1>5. \A i \in 1 .. Len(q) : i # 1 => i - 1 \in 1 .. Len(a) /\ a[i - 1] = q[i]
  BY <1>0, <1>1
<1>6. ToSet(a) = ToSet(q) \ {q[1]}
  <2>1. ToSet(a) = {a[i] : i \in 1 .. Len(a)} /\ ToSet(q) = {q[i] : i \in 1 .. Len(q)}
    BY <1>1, ToSetIs
  <2>2. \A i \in 1 .. Len(a) : a[i] \in ToSet(q) \ {q[1]}
    BY <1>1, <1>3, <1>4, <2>1
  <2>3. \A i \in 1 .. Len(q) : q[i] # q[1] => q[i] \in ToSet(a)
    BY <1>5, <2>1
  <2>. QED
    BY <2>1, <2>2, <2>3
<1>. QED
  BY <1>0, <1>1, <1>2, <1>6 DEF a

---------------------------------------------------------------------------
(* Counting the requests at some places *)

Delta(S, r, s) == (IF s \in S THEN 1 ELSE 0) - (IF stage[r] \in S THEN 1 ELSE 0)

\* Only a request that comes to a place of S, or leaves one, changes their count.
LEMMA Count ==
    ASSUME stage \in [Requests -> Stages], NEW r \in Requests, NEW s, Goto(r, s), NEW S
    PROVE  /\ Cardinality(In(S)) \in Nat
           /\ Cardinality(In(S)') = Cardinality(In(S)) + Delta(S, r, s)
           /\ s \in S => In(S)' = In(S) \cup {r}
           /\ s \notin S => In(S)' = In(S) \ {r}
<1>1. IsFiniteSet(In(S)) /\ Cardinality(In(S)) \in Nat
  BY RequestsAssumption, FS_Subset, FS_CardinalityType DEF In
<1>2. s \in S => In(S)' = In(S) \cup {r}
  BY DEF In, Goto
<1>3. s \notin S => In(S)' = In(S) \ {r}
  BY DEF In, Goto
<1>4. r \in In(S) <=> stage[r] \in S
  BY DEF In
<1>5. CASE s \in S /\ stage[r] \notin S
  BY <1>1, <1>2, <1>4, <1>5, FS_AddElement DEF Delta
<1>6. CASE s \notin S /\ stage[r] \in S
  <2>1. In(S)' = In(S) \ {r} /\ r \in In(S)
    BY <1>3, <1>4, <1>6
  <2>2. Cardinality(In(S)') = Cardinality(In(S)) - 1
    BY <1>1, <2>1, FS_RemoveElement
  <2>. QED
    BY <1>1, <1>6, <2>1, <2>2 DEF Delta
<1>7. CASE s \in S <=> stage[r] \in S
  <2>1. In(S)' = In(S)
    BY <1>2, <1>3, <1>4, <1>7
  <2>. QED
    BY <1>1, <1>2, <1>3, <1>7, <2>1 DEF Delta
<1>. QED
  BY <1>1, <1>2, <1>3, <1>5, <1>6, <1>7

\* The counters are numbers.
LEMMA CountsAreNumbers ==
    ASSUME TypeOK, Accounts
    PROVE  permits \in Int /\ waiting_count \in Int /\ active_requests \in Int /\ total_requests \in Int
<1>1. \A S : Cardinality(In(S)) \in Nat
  <2> TAKE S
  <2>1. IsFiniteSet(In(S))
    BY RequestsAssumption, FS_Subset DEF In
  <2>. QED
    BY <2>1, FS_CardinalityType
<1>. QED
  BY <1>1 DEF TypeOK, Accounts, ActiveExplained

\* The accounts of a step that moves a request anywhere: what it does to the
\* permits and the metrics is what the accounts ask for.
LEMMA AccountsMove ==
    ASSUME TypeOK, Accounts, NEW r \in Requests, NEW s, Goto(r, s),
           permits' = permits - Delta(Holding, r, s),
           waiting_count' = waiting_count + Delta(Queued, r, s),
           active_requests' = active_requests + Delta(Holding, r, s) + Delta(Ended, r, s),
           total_requests' = total_requests + Delta({"done"}, r, s)
    PROVE  Accounts'
<1> DEFINE Moved(S) == /\ Cardinality(In(S)) \in Nat
                       /\ Cardinality(In(S)') = Cardinality(In(S)) + Delta(S, r, s)
<1>1. Moved(Holding) /\ Moved(Queued) /\ Moved(Ended) /\ Moved({"done"})
  <2>1. stage \in [Requests -> Stages]
    BY DEF TypeOK, PlaceTypes
  <2>. QED
    BY <2>1, Count
<1>2. permits \in Nat /\ MaxConcurrent \in Nat /\ \A S : Delta(S, r, s) \in Int
  BY RequestsAssumption DEF TypeOK, Delta
<1>3. (permits + Cardinality(In(Holding)) = MaxConcurrent)'
  BY <1>1, <1>2 DEF Accounts
<1>4. (waiting_count = Cardinality(In(Queued)))'
  BY <1>1, <1>2 DEF Accounts
<1>5. ActiveExplained'
  BY <1>1, <1>2 DEF Accounts, ActiveExplained, Ended
<1>. QED
  BY <1>3, <1>4, <1>5 DEF Accounts

---------------------------------------------------------------------------
(* The steps of a request for messages *)

MessageNext == \/ \E r \in Requests :
                      \/ Arrive(r) \/ Notice(r) \/ Timeout(r) \/ Admit(r)
                      \/ Step(r)
                      \/ Receive(r) \/ Disconnect(r) \/ EndOfStream(r)
               \/ \E t \in Threads : ThreadExit(t)

\* A closure that has not finished its prefill reports to its own request.
LEMMA ReportsToItself ==
    ASSUME PoolTypes, ThreadsInPlace, NEW r \in Requests, stage[r] \in {"begun", "prefill"}
    PROVE  thread[r] \in Threads /\ callback[thread[r]] = r /\ r # None
  BY RequestsAssumption DEF ThreadsInPlace, OnThread, OwnProgress, PoolTypes

\* A send keeps within the channel's capacity.
LEMMA SendTypes ==
    ASSUME ChannelTypes, NEW r \in Requests, NEW event \in Kinds,
           Send(r, event) \/ UNCHANGED channel
    PROVE  ChannelTypes'
  BY RequestsAssumption DEF ChannelTypes, Send, channel, Clients

\* Every step keeps the types.
LEMMA StepTypes ==
    ASSUME TypeOK, QueueInPlace, ThreadsInPlace, ForMessages(MessageNext)
    PROVE  TypeOK'
<1> USE DEF ForMessages, endpoint
<1>1. ASSUME NEW r \in Requests, Arrive(r) PROVE TypeOK'
  <2>1. ChannelTypes'
    BY <1>1 DEF Arrive, TypeOK, ChannelTypes, channel
  <2>2. PoolTypes'
    BY <1>1 DEF Arrive, TypeOK, PoolTypes, pool, backend
  <2>3. PlaceTypes'
    BY <1>1, RequestsAssumption DEF Arrive, Goto, TypeOK, PlaceTypes, Stages, Queued, Holding, Ended
  <2>4. permits' \in Nat /\ queue' \in Seq(Requests)
    BY <1>1 DEF Arrive, TypeOK, semaphore, FreePermit
  <2>. QED
    BY <2>1, <2>2, <2>3, <2>4 DEF TypeOK, EmbedTypes
<1>2. ASSUME NEW r \in Requests, Notice(r) PROVE TypeOK'
  <2>1. ChannelTypes'
    BY <1>2, SendTypes DEF Notice, TypeOK, Kinds
  <2>2. PoolTypes'
    BY <1>2 DEF Notice, TypeOK, PoolTypes, pool, backend
  <2>3. PlaceTypes'
    BY <1>2, RequestsAssumption DEF Notice, Goto, TypeOK, PlaceTypes, Stages, Queued, Holding, Ended
  <2>4. permits' \in Nat /\ queue' \in Seq(Requests)
    BY <1>2 DEF Notice, TypeOK, semaphore
  <2>. QED
    BY <2>1, <2>2, <2>3, <2>4 DEF TypeOK, EmbedTypes
<1>3. ASSUME NEW r \in Requests, Timeout(r) PROVE TypeOK'
  <2>1. ChannelTypes'
    BY <1>3 DEF Timeout, TypeOK, ChannelTypes, channel
  <2>2. PoolTypes'
    BY <1>3 DEF Timeout, TypeOK, PoolTypes, pool, backend
  <2>3. PlaceTypes'
    BY <1>3, RequestsAssumption DEF Timeout, Goto, TypeOK, PlaceTypes, Stages, Queued, Holding, Ended
  <2>4. r \in ToSet(queue)
    BY <1>3 DEF Timeout, QueueInPlace, In
  <2>5. Leave(r) \in Seq(Requests)
    BY <2>4, WithoutProperties DEF TypeOK, QueueInPlace, Leave
  <2>6. permits' \in Nat /\ queue' \in Seq(Requests)
    BY <1>3, <2>5 DEF Timeout, TypeOK
  <2>. QED
    BY <2>1, <2>2, <2>3, <2>6 DEF TypeOK, EmbedTypes
<1>4. ASSUME NEW r \in Requests, Admit(r) PROVE TypeOK'
  <2>1. ChannelTypes'
    BY <1>4 DEF Admit, TypeOK, ChannelTypes, channel
  <2>2. PoolTypes'
    BY <1>4 DEF Admit, TypeOK, PoolTypes, pool, backend
  <2>3. PlaceTypes'
    BY <1>4, RequestsAssumption DEF Admit, Goto, TypeOK, PlaceTypes, Stages, Queued, Holding, Ended
  <2>4. r \in ToSet(queue) /\ permits > 0
    BY <1>4, ToSetIs DEF Admit, Assigned, TypeOK
  <2>5. Leave(r) \in Seq(Requests)
    BY <2>4, WithoutProperties DEF TypeOK, QueueInPlace, Leave
  <2>6. permits' \in Nat /\ queue' \in Seq(Requests)
    BY <1>4, <2>4, <2>5 DEF Admit, Assigned, TypeOK
  <2>. QED
    BY <2>1, <2>2, <2>3, <2>6 DEF TypeOK, EmbedTypes
<1>5. ASSUME NEW r \in Requests, Prepare(r) PROVE TypeOK'
  <2>1. ChannelTypes'
    BY <1>5 DEF Prepare, TypeOK, ChannelTypes, channel
  <2>2. PoolTypes'
    BY <1>5 DEF Prepare, TypeOK, PoolTypes, pool, backend
  <2>3. PlaceTypes'
    BY <1>5, RequestsAssumption DEF Prepare, Flush, Goto, TypeOK, PlaceTypes, Stages, Queued, Holding, Ended
  <2>4. permits' \in Nat /\ queue' \in Seq(Requests)
    BY <1>5 DEF Prepare, TypeOK, semaphore
  <2>. QED
    BY <2>1, <2>2, <2>3, <2>4 DEF TypeOK, EmbedTypes
<1>6. ASSUME NEW r \in Requests, Greet(r) PROVE TypeOK'
  <2>1. ChannelTypes'
    BY <1>6, SendTypes DEF Greet, TypeOK, Kinds
  <2>2. PoolTypes'
    BY <1>6 DEF Greet, TypeOK, PoolTypes, pool, backend
  <2>3. PlaceTypes'
    BY <1>6, RequestsAssumption DEF Greet, Goto, TypeOK, PlaceTypes, Stages, Queued, Holding, Ended
  <2>4. permits' \in Nat /\ queue' \in Seq(Requests)
    BY <1>6 DEF Greet, TypeOK, semaphore
  <2>. QED
    BY <2>1, <2>2, <2>3, <2>4 DEF TypeOK, EmbedTypes
<1>7. ASSUME NEW r \in Requests, NEW t \in Threads, Begin(r, t) PROVE TypeOK'
  <2>1. ChannelTypes'
    BY <1>7 DEF Begin, TypeOK, ChannelTypes, channel
  <2>2. PoolTypes'
    BY <1>7 DEF Begin, TypeOK, PoolTypes, pool, backend
  <2>3. PlaceTypes'
    BY <1>7, RequestsAssumption DEF Begin, Goto, TypeOK, PlaceTypes, Stages, Queued, Holding, Ended
  <2>4. permits' \in Nat /\ queue' \in Seq(Requests)
    BY <1>7 DEF Begin, TypeOK, semaphore
  <2>. QED
    BY <2>1, <2>2, <2>3, <2>4 DEF TypeOK, EmbedTypes
<1>8. ASSUME NEW r \in Requests, Prefill(r) PROVE TypeOK'
  <2>1. ChannelTypes'
    BY <1>8 DEF Prefill, TypeOK, ChannelTypes, channel
  <2>2. PoolTypes'
    BY <1>8 DEF Prefill, Abort, TypeOK, PoolTypes, pool, backend
  <2>3. PlaceTypes'
    <3>1. PlaceTypes /\ UNCHANGED log
      BY <1>8 DEF Prefill, TypeOK
    <3>2. CASE Abort(r) /\ UNCHANGED left
      BY <3>1, <3>2 DEF Abort, Goto, PlaceTypes, Stages, Holding
    <3>3. CASE Goto(r, "prefill") /\ left' = [left EXCEPT ![r] = MaxReports]
      BY <3>1, <3>3, RequestsAssumption DEF Goto, PlaceTypes, Stages, Holding
    <3>. QED
      BY <1>8, <3>2, <3>3 DEF Prefill
  <2>4. permits' \in Nat /\ queue' \in Seq(Requests)
    BY <1>8 DEF Prefill, TypeOK, semaphore
  <2>. QED
    BY <2>1, <2>2, <2>3, <2>4 DEF TypeOK, EmbedTypes
<1>9. ASSUME NEW r \in Requests, Report(r) PROVE TypeOK'
  <2>1. ChannelTypes'
    BY <1>9, SendTypes, ReportsToItself DEF Report, TypeOK, Kinds, channel
  <2>2. PoolTypes'
    BY <1>9 DEF Report, TypeOK, PoolTypes, pool, backend
  <2>3. PlaceTypes'
    BY <1>9, RequestsAssumption DEF Report, TypeOK, PlaceTypes
  <2>4. permits' \in Nat /\ queue' \in Seq(Requests)
    BY <1>9 DEF Report, TypeOK, semaphore
  <2>. QED
    BY <2>1, <2>2, <2>3, <2>4 DEF TypeOK, EmbedTypes
<1>10. ASSUME NEW r \in Requests, PrefillOk(r) PROVE TypeOK'
  <2>1. ChannelTypes'
    BY <1>10 DEF PrefillOk, TypeOK, ChannelTypes, channel
  <2>2. PoolTypes'
    BY <1>10 DEF PrefillOk, TypeOK, PoolTypes, pool, backend
  <2>3. PlaceTypes'
    BY <1>10, RequestsAssumption DEF PrefillOk, Flush, Goto, TypeOK, PlaceTypes, Stages, Queued, Holding, Ended
  <2>4. permits' \in Nat /\ queue' \in Seq(Requests)
    BY <1>10 DEF PrefillOk, TypeOK, semaphore
  <2>. QED
    BY <2>1, <2>2, <2>3, <2>4 DEF TypeOK, EmbedTypes
<1>11. ASSUME NEW r \in Requests, NEW p \in BOOLEAN, PrefillFails(r, p) PROVE TypeOK'
  <2>1. ChannelTypes'
    BY <1>11 DEF PrefillFails, TypeOK, ChannelTypes, channel
  <2>2. PoolTypes'
    BY <1>11 DEF PrefillFails, Abort, TypeOK, PoolTypes, pool, backend
  <2>3. PlaceTypes'
    BY <1>11, RequestsAssumption DEF PrefillFails, Abort, Goto, TypeOK, PlaceTypes, Stages, Queued, Holding, Ended
  <2>4. permits' \in Nat /\ queue' \in Seq(Requests)
    BY <1>11 DEF PrefillFails, TypeOK, semaphore
  <2>. QED
    BY <2>1, <2>2, <2>3, <2>4 DEF TypeOK, EmbedTypes
<1>12. ASSUME NEW r \in Requests, First(r) PROVE TypeOK'
  <2>1. ChannelTypes'
    BY <1>12, SendTypes DEF First, TypeOK, Kinds, SendToken
  <2>2. PoolTypes'
    BY <1>12 DEF First, TypeOK, PoolTypes, pool, backend
  <2>3. PlaceTypes'
    BY <1>12, RequestsAssumption DEF First, Goto, TypeOK, PlaceTypes, Stages, Queued, Holding, Ended
  <2>4. permits' \in Nat /\ queue' \in Seq(Requests)
    BY <1>12 DEF First, TypeOK, semaphore
  <2>. QED
    BY <2>1, <2>2, <2>3, <2>4 DEF TypeOK, EmbedTypes
<1>13. ASSUME NEW r \in Requests, Decode(r) PROVE TypeOK'
  <2>1. ChannelTypes'
    BY <1>13 DEF Decode, TypeOK, ChannelTypes, channel
  <2>2. PoolTypes'
    BY <1>13 DEF Decode, Abort, TypeOK, PoolTypes, pool, backend
  <2>3. PlaceTypes'
    <3>1. PlaceTypes /\ stage[r] = "decode" /\ UNCHANGED log
      BY <1>13 DEF Decode, TypeOK
    <3>2. CASE Abort(r) /\ UNCHANGED left
      BY <3>1, <3>2 DEF Abort, Goto, PlaceTypes, Stages, Holding
    <3>3. CASE Goto(r, "emit") /\ left' = [left EXCEPT ![r] = @ - 1]
      BY <3>1, <3>3 DEF Goto, PlaceTypes, Stages, Holding
    <3>. QED
      BY <1>13, <3>2, <3>3 DEF Decode
  <2>4. permits' \in Nat /\ queue' \in Seq(Requests)
    BY <1>13 DEF Decode, TypeOK, semaphore
  <2>. QED
    BY <2>1, <2>2, <2>3, <2>4 DEF TypeOK, EmbedTypes
<1>14. ASSUME NEW r \in Requests, Emit(r) PROVE TypeOK'
  <2>1. ChannelTypes'
    BY <1>14, SendTypes DEF Emit, TypeOK, Kinds, SendToken
  <2>2. PoolTypes'
    BY <1>14 DEF Emit, TypeOK, PoolTypes, pool, backend
  <2>3. PlaceTypes'
    BY <1>14, RequestsAssumption DEF Emit, Goto, TypeOK, PlaceTypes, Stages, Queued, Holding, Ended
  <2>4. permits' \in Nat /\ queue' \in Seq(Requests)
    BY <1>14 DEF Emit, TypeOK, semaphore
  <2>. QED
    BY <2>1, <2>2, <2>3, <2>4 DEF TypeOK, EmbedTypes
<1>15. ASSUME NEW r \in Requests, Close(r) PROVE TypeOK'
  <2>1. ChannelTypes'
    BY <1>15, SendTypes DEF Close, TypeOK, Kinds
  <2>2. PoolTypes'
    BY <1>15 DEF Close, TypeOK, PoolTypes, pool, backend
  <2>3. PlaceTypes'
    BY <1>15, RequestsAssumption DEF Close, Goto, TypeOK, PlaceTypes, Stages, Queued, Holding, Ended
  <2>4. permits' \in Nat /\ queue' \in Seq(Requests)
    BY <1>15 DEF Close, TypeOK, semaphore
  <2>. QED
    BY <2>1, <2>2, <2>3, <2>4 DEF TypeOK, EmbedTypes
<1>16. ASSUME NEW r \in Requests, ReturnErr(r) PROVE TypeOK'
  <2>1. ChannelTypes'
    BY <1>16 DEF ReturnErr, TypeOK, ChannelTypes, channel
  <2>2. PoolTypes'
    BY <1>16 DEF ReturnErr, TypeOK, PoolTypes, pool, backend
  <2>3. PlaceTypes'
    BY <1>16, RequestsAssumption DEF ReturnErr, Goto, TypeOK, PlaceTypes, Stages, Queued, Holding, Ended
  <2>4. permits' \in Nat /\ queue' \in Seq(Requests)
    BY <1>16 DEF ReturnErr, TypeOK, semaphore
  <2>. QED
    BY <2>1, <2>2, <2>3, <2>4 DEF TypeOK, EmbedTypes
<1>17. ASSUME NEW r \in Requests, ReportError(r) PROVE TypeOK'
  <2>1. ChannelTypes'
    BY <1>17, SendTypes DEF ReportError, TypeOK, Kinds
  <2>2. PoolTypes'
    BY <1>17 DEF ReportError, TypeOK, PoolTypes, pool, backend
  <2>3. PlaceTypes'
    BY <1>17, RequestsAssumption DEF ReportError, Goto, TypeOK, PlaceTypes, Stages, Queued, Holding, Ended
  <2>4. permits' \in Nat /\ queue' \in Seq(Requests)
    BY <1>17 DEF ReportError, TypeOK, semaphore
  <2>. QED
    BY <2>1, <2>2, <2>3, <2>4 DEF TypeOK, EmbedTypes
<1>18. ASSUME NEW r \in Requests, ReturnOk(r) PROVE TypeOK'
  <2>1. ChannelTypes'
    BY <1>18 DEF ReturnOk, TypeOK, ChannelTypes, channel
  <2>2. PoolTypes'
    BY <1>18 DEF ReturnOk, TypeOK, PoolTypes, pool, backend
  <2>3. PlaceTypes'
    BY <1>18, RequestsAssumption DEF ReturnOk, Flush, Goto, TypeOK, PlaceTypes, Stages, Queued, Holding, Ended
  <2>4. permits' \in Nat /\ queue' \in Seq(Requests)
    BY <1>18 DEF ReturnOk, TypeOK, semaphore
  <2>. QED
    BY <2>1, <2>2, <2>3, <2>4 DEF TypeOK, EmbedTypes
<1>19. ASSUME NEW r \in Requests, Receive(r) PROVE TypeOK'
  <2>1. ChannelTypes'
    BY <1>19, RequestsAssumption DEF Receive, TypeOK, ChannelTypes, Clients
  <2>2. PoolTypes'
    BY <1>19 DEF Receive, TypeOK, PoolTypes, pool, backend
  <2>3. PlaceTypes'
    BY <1>19, RequestsAssumption DEF Receive, TypeOK, PlaceTypes
  <2>4. permits' \in Nat /\ queue' \in Seq(Requests)
    BY <1>19 DEF Receive, TypeOK, semaphore
  <2>. QED
    BY <2>1, <2>2, <2>3, <2>4 DEF TypeOK, EmbedTypes
<1>20. ASSUME NEW r \in Requests, Disconnect(r) PROVE TypeOK'
  <2>1. ChannelTypes'
    BY <1>20, RequestsAssumption DEF Disconnect, TypeOK, ChannelTypes, Clients
  <2>2. PoolTypes'
    BY <1>20 DEF Disconnect, TypeOK, PoolTypes, pool, backend
  <2>3. PlaceTypes'
    BY <1>20, RequestsAssumption DEF Disconnect, TypeOK, PlaceTypes
  <2>4. permits' \in Nat /\ queue' \in Seq(Requests)
    BY <1>20 DEF Disconnect, TypeOK, semaphore
  <2>. QED
    BY <2>1, <2>2, <2>3, <2>4 DEF TypeOK, EmbedTypes
<1>21. ASSUME NEW r \in Requests, EndOfStream(r) PROVE TypeOK'
  <2>1. ChannelTypes'
    BY <1>21, RequestsAssumption DEF EndOfStream, TypeOK, ChannelTypes, Clients
  <2>2. PoolTypes'
    BY <1>21 DEF EndOfStream, TypeOK, PoolTypes, pool, backend
  <2>3. PlaceTypes'
    BY <1>21, RequestsAssumption DEF EndOfStream, TypeOK, PlaceTypes
  <2>4. permits' \in Nat /\ queue' \in Seq(Requests)
    BY <1>21 DEF EndOfStream, TypeOK, semaphore
  <2>. QED
    BY <2>1, <2>2, <2>3, <2>4 DEF TypeOK, EmbedTypes
<1>22. ASSUME NEW t \in Threads, ThreadExit(t) PROVE TypeOK'
  <2>1. ChannelTypes'
    BY <1>22 DEF ThreadExit, TypeOK, ChannelTypes, channel
  <2>2. PoolTypes'
    BY <1>22 DEF ThreadExit, TypeOK, PoolTypes, pool, backend
  <2>3. PlaceTypes'
    BY <1>22, RequestsAssumption DEF ThreadExit, TypeOK, PlaceTypes
  <2>4. permits' \in Nat /\ queue' \in Seq(Requests)
    BY <1>22 DEF ThreadExit, TypeOK, semaphore
  <2>. QED
    BY <2>1, <2>2, <2>3, <2>4 DEF TypeOK, EmbedTypes
<1>. QED
  BY <1>1, <1>2, <1>3, <1>4, <1>5, <1>6, <1>7, <1>8, <1>9, <1>10, <1>11, <1>12, <1>13, <1>14, <1>15, <1>16, <1>17, <1>18, <1>19, <1>20, <1>21, <1>22 DEF MessageNext, Step


\* A request takes its permit and is counted as active when it is admitted, gives
\* it back when run_inference returns, and waits in between two tries.
LEMMA StepAccounts ==
    ASSUME TypeOK, Accounts, ForMessages(MessageNext)
    PROVE  Accounts'
<1> USE DEF ForMessages, endpoint
<1>0. permits \in Int /\ waiting_count \in Int /\ active_requests \in Int /\ total_requests \in Int
  BY CountsAreNumbers
<1>1. ASSUME NEW r \in Requests, Arrive(r) PROVE Accounts'
  BY <1>1, <1>0, AccountsMove DEF Arrive, TypeOK, Delta, Holding, Queued, Ended, RequestStarted, semaphore, metrics
<1>2. ASSUME NEW r \in Requests, Notice(r) PROVE Accounts'
  BY <1>2, <1>0, AccountsMove DEF Notice, TypeOK, Delta, Holding, Queued, Ended, semaphore, metrics
<1>3. ASSUME NEW r \in Requests, Timeout(r) PROVE Accounts'
  BY <1>3, <1>0, AccountsMove DEF Timeout, TypeOK, Delta, Holding, Queued, Ended, semaphore, metrics
<1>4. ASSUME NEW r \in Requests, Admit(r) PROVE Accounts'
  BY <1>4, <1>0, AccountsMove DEF Admit, TypeOK, Delta, Holding, Queued, Ended, RequestStarted, semaphore, metrics
<1>5. ASSUME NEW r \in Requests, Prepare(r) PROVE Accounts'
  BY <1>5, <1>0, AccountsMove DEF Prepare, TypeOK, Delta, Holding, Queued, Ended, semaphore, metrics
<1>6. ASSUME NEW r \in Requests, Greet(r) PROVE Accounts'
  BY <1>6, <1>0, AccountsMove DEF Greet, TypeOK, Delta, Holding, Queued, Ended, semaphore, metrics
<1>7. ASSUME NEW r \in Requests, NEW t \in Threads, Begin(r, t) PROVE Accounts'
  BY <1>7, <1>0, AccountsMove DEF Begin, TypeOK, Delta, Holding, Queued, Ended, semaphore, metrics
<1>8. ASSUME NEW r \in Requests, Prefill(r) PROVE Accounts'
  BY <1>8, <1>0, AccountsMove DEF Prefill, Abort, TypeOK, Delta, Holding, Queued, Ended, semaphore, metrics
<1>9. ASSUME NEW r \in Requests, Report(r) PROVE Accounts'
  BY <1>9 DEF Report, Accounts, ActiveExplained, In, semaphore, metrics
<1>10. ASSUME NEW r \in Requests, PrefillOk(r) PROVE Accounts'
  BY <1>10, <1>0, AccountsMove DEF PrefillOk, TypeOK, Delta, Holding, Queued, Ended, semaphore, metrics
<1>11. ASSUME NEW r \in Requests, NEW p \in BOOLEAN, PrefillFails(r, p) PROVE Accounts'
  BY <1>11, <1>0, AccountsMove DEF PrefillFails, Abort, TypeOK, Delta, Holding, Queued, Ended, semaphore, metrics
<1>12. ASSUME NEW r \in Requests, First(r) PROVE Accounts'
  BY <1>12, <1>0, AccountsMove DEF First, TypeOK, Delta, Holding, Queued, Ended, semaphore, metrics
<1>13. ASSUME NEW r \in Requests, Decode(r) PROVE Accounts'
  BY <1>13, <1>0, AccountsMove DEF Decode, Abort, TypeOK, Delta, Holding, Queued, Ended, semaphore, metrics
<1>14. ASSUME NEW r \in Requests, Emit(r) PROVE Accounts'
  BY <1>14, <1>0, AccountsMove DEF Emit, TypeOK, Delta, Holding, Queued, Ended, semaphore, metrics
<1>15. ASSUME NEW r \in Requests, Close(r) PROVE Accounts'
  BY <1>15, <1>0, AccountsMove DEF Close, TypeOK, Delta, Holding, Queued, Ended, semaphore, metrics
<1>16. ASSUME NEW r \in Requests, ReturnErr(r) PROVE Accounts'
  BY <1>16, <1>0, AccountsMove DEF ReturnErr, TypeOK, Delta, Holding, Queued, Ended, semaphore, metrics
<1>17. ASSUME NEW r \in Requests, ReportError(r) PROVE Accounts'
  BY <1>17, <1>0, AccountsMove DEF ReportError, TypeOK, Delta, Holding, Queued, Ended, semaphore, metrics
<1>18. ASSUME NEW r \in Requests, ReturnOk(r) PROVE Accounts'
  BY <1>18, <1>0, AccountsMove DEF ReturnOk, TypeOK, Delta, Holding, Queued, Ended, semaphore, metrics
<1>19. ASSUME NEW r \in Requests, Receive(r) PROVE Accounts'
  BY <1>19 DEF Receive, Accounts, ActiveExplained, In, semaphore, metrics
<1>20. ASSUME NEW r \in Requests, Disconnect(r) PROVE Accounts'
  BY <1>20 DEF Disconnect, Accounts, ActiveExplained, In, semaphore, metrics
<1>21. ASSUME NEW r \in Requests, EndOfStream(r) PROVE Accounts'
  BY <1>21 DEF EndOfStream, Accounts, ActiveExplained, In, semaphore, metrics
<1>22. ASSUME NEW t \in Threads, ThreadExit(t) PROVE Accounts'
  BY <1>22 DEF ThreadExit, Accounts, ActiveExplained, In, semaphore, metrics
<1>. QED
  BY <1>1, <1>2, <1>3, <1>4, <1>5, <1>6, <1>7, <1>8, <1>9, <1>10, <1>11, <1>12, <1>13, <1>14, <1>15, <1>16, <1>17, <1>18, <1>19, <1>20, <1>21, <1>22 DEF MessageNext, Step

\* A request that moves, but neither into the queue nor out of it.
LEMMA QueueStays ==
    ASSUME TypeOK, QueueInPlace, NEW r \in Requests, NEW s, Goto(r, s),
           s # "waiting", stage[r] # "waiting", UNCHANGED queue
    PROVE  QueueInPlace'
<1>1. In({"waiting"})' = In({"waiting"})
  BY DEF In, Goto, TypeOK, PlaceTypes
<1>. QED
  BY <1>1 DEF QueueInPlace, Once

\* A step that moves no request.
LEMMA QueueSame ==
    ASSUME QueueInPlace, UNCHANGED <<queue, stage>>
    PROVE  QueueInPlace'
<1>1. In({"waiting"})' = In({"waiting"})
  BY DEF In
<1>. QED
  BY <1>1 DEF QueueInPlace, Once

\* A request that leaves the queue, to try again or with a permit.
LEMMA QueueLeave ==
    ASSUME TypeOK, QueueInPlace, NEW r \in Requests, NEW s, Goto(r, s),
           s # "waiting", stage[r] = "waiting", queue' = Leave(r)
    PROVE  QueueInPlace'
<1>1. r \in ToSet(queue)
  BY DEF QueueInPlace, In
<1>2. /\ Len(queue') = Len(queue) - 1
      /\ Once(queue')
      /\ ToSet(queue') = ToSet(queue) \ {r}
  <2>1. queue \in Seq(Requests) /\ Once(queue)
    BY DEF TypeOK, QueueInPlace
  <2>2. /\ Len(Without(queue, r)) = Len(queue) - 1
        /\ Once(Without(queue, r))
        /\ ToSet(Without(queue, r)) = ToSet(queue) \ {r}
    BY <1>1, <2>1, WithoutProperties
  <2>. QED
    BY <2>2, Zenon DEF Leave
<1>3. /\ In({"waiting"})' = In({"waiting"}) \ {r}
      /\ Cardinality(In({"waiting"})') = Cardinality(In({"waiting"})) - 1
  BY Count DEF TypeOK, PlaceTypes, Delta
<1>. QED
  BY <1>2, <1>3 DEF QueueInPlace, Once

\* The queue has the requests that wait, each once: Notice joins it at the end,
\* Timeout and Admit leave it from wherever they are.
LEMMA StepQueue ==
    ASSUME TypeOK, QueueInPlace, ForMessages(MessageNext)
    PROVE  QueueInPlace'
<1> USE DEF ForMessages, endpoint
<1>1. ASSUME NEW r \in Requests, Arrive(r) PROVE QueueInPlace'
  BY <1>1, QueueStays DEF Arrive, semaphore
<1>2. ASSUME NEW r \in Requests, Notice(r) PROVE QueueInPlace'
  <2>1. r \notin In({"waiting"}) /\ Goto(r, "waiting") /\ queue' = Append(queue, r)
    BY <1>2 DEF Notice, In
  <2>2. \A i \in 1 .. Len(queue) : queue[i] # r
    BY <2>1, ToSetIs DEF QueueInPlace, TypeOK
  <2>3. /\ Len(queue') = Len(queue) + 1
        /\ Once(queue')
        /\ ToSet(queue') = ToSet(queue) \cup {r}
    BY <2>1, <2>2, AppendQueue DEF TypeOK, QueueInPlace
  <2>4. /\ In({"waiting"})' = In({"waiting"}) \cup {r}
        /\ Cardinality(In({"waiting"})') = Cardinality(In({"waiting"})) + 1
    <3>1. stage \in [Requests -> Stages] /\ stage[r] = "notice"
      BY <1>2 DEF Notice, TypeOK, PlaceTypes
    <3>2. Delta({"waiting"}, r, "waiting") = 1
      BY <3>1 DEF Delta
    <3>. QED
      BY <2>1, <3>1, <3>2, Count
  <2>. QED
    BY <2>3, <2>4 DEF QueueInPlace, Once
<1>3. ASSUME NEW r \in Requests, Timeout(r) PROVE QueueInPlace'
  BY <1>3, QueueLeave DEF Timeout
<1>4. ASSUME NEW r \in Requests, Admit(r) PROVE QueueInPlace'
  BY <1>4, QueueLeave DEF Admit
<1>5. ASSUME NEW r \in Requests, Prepare(r) PROVE QueueInPlace'
  BY <1>5, QueueStays DEF Prepare, semaphore
<1>6. ASSUME NEW r \in Requests, Greet(r) PROVE QueueInPlace'
  BY <1>6, QueueStays DEF Greet, semaphore
<1>7. ASSUME NEW r \in Requests, NEW t \in Threads, Begin(r, t) PROVE QueueInPlace'
  BY <1>7, QueueStays DEF Begin, semaphore
<1>8. ASSUME NEW r \in Requests, Prefill(r) PROVE QueueInPlace'
  BY <1>8, QueueStays DEF Prefill, Abort, semaphore
<1>9. ASSUME NEW r \in Requests, Report(r) PROVE QueueInPlace'
  BY <1>9, QueueSame DEF Report, semaphore
<1>10. ASSUME NEW r \in Requests, PrefillOk(r) PROVE QueueInPlace'
  BY <1>10, QueueStays DEF PrefillOk, semaphore
<1>11. ASSUME NEW r \in Requests, NEW p \in BOOLEAN, PrefillFails(r, p) PROVE QueueInPlace'
  BY <1>11, QueueStays DEF PrefillFails, Abort, semaphore
<1>12. ASSUME NEW r \in Requests, First(r) PROVE QueueInPlace'
  BY <1>12, QueueStays DEF First, semaphore
<1>13. ASSUME NEW r \in Requests, Decode(r) PROVE QueueInPlace'
  BY <1>13, QueueStays DEF Decode, Abort, semaphore
<1>14. ASSUME NEW r \in Requests, Emit(r) PROVE QueueInPlace'
  BY <1>14, QueueStays DEF Emit, semaphore
<1>15. ASSUME NEW r \in Requests, Close(r) PROVE QueueInPlace'
  BY <1>15, QueueStays DEF Close, semaphore
<1>16. ASSUME NEW r \in Requests, ReturnErr(r) PROVE QueueInPlace'
  BY <1>16, QueueStays DEF ReturnErr, semaphore
<1>17. ASSUME NEW r \in Requests, ReportError(r) PROVE QueueInPlace'
  BY <1>17, QueueStays DEF ReportError, semaphore
<1>18. ASSUME NEW r \in Requests, ReturnOk(r) PROVE QueueInPlace'
  BY <1>18, QueueStays DEF ReturnOk, semaphore
<1>19. ASSUME NEW r \in Requests, Receive(r) PROVE QueueInPlace'
  BY <1>19, QueueSame DEF Receive, semaphore
<1>20. ASSUME NEW r \in Requests, Disconnect(r) PROVE QueueInPlace'
  BY <1>20, QueueSame DEF Disconnect, semaphore
<1>21. ASSUME NEW r \in Requests, EndOfStream(r) PROVE QueueInPlace'
  BY <1>21, QueueSame DEF EndOfStream, semaphore
<1>22. ASSUME NEW t \in Threads, ThreadExit(t) PROVE QueueInPlace'
  BY <1>22, QueueSame DEF ThreadExit, semaphore
<1>. QED
  BY <1>1, <1>2, <1>3, <1>4, <1>5, <1>6, <1>7, <1>8, <1>9, <1>10, <1>11, <1>12, <1>13, <1>14, <1>15, <1>16, <1>17, <1>18, <1>19, <1>20, <1>21, <1>22 DEF MessageNext, Step

\* A request that moves, but neither onto a thread, off it, nor out of a prefill.
LEMMA ThreadsStay ==
    ASSUME TypeOK, ThreadsInPlace, NEW r \in Requests, NEW s, Goto(r, s), UNCHANGED <<pool, job>>,
           stage[r] \in OnThread <=> s \in OnThread,
           stage[r] \in {"begun", "prefill"} <=> s \in {"begun", "prefill"}
    PROVE  ThreadsInPlace'
  BY DEF Goto, TypeOK, PlaceTypes, ThreadsInPlace, OwnProgress, pool

\* A closure that ends, however it does, leaves its thread.
LEMMA ThreadsLeave ==
    ASSUME TypeOK, ThreadsInPlace, NEW r \in Requests, NEW s, Goto(r, s), s \notin OnThread,
           thread' = [thread EXCEPT ![r] = None], UNCHANGED <<callback, job>>
    PROVE  ThreadsInPlace'
  BY DEF Goto, TypeOK, PlaceTypes, PoolTypes, ThreadsInPlace, OwnProgress

\* A thread serves one closure at a time, which installs its own callback before
\* its prefill and clears it after; one that fails leaves it to the next.
LEMMA StepThreads ==
    ASSUME TypeOK, ThreadsInPlace, ForMessages(MessageNext)
    PROVE  ThreadsInPlace'
<1> USE DEF ForMessages, endpoint
<1>1. ASSUME NEW r \in Requests, Arrive(r) PROVE ThreadsInPlace'
  BY <1>1, ThreadsStay DEF Arrive, OnThread, pool
<1>2. ASSUME NEW r \in Requests, Notice(r) PROVE ThreadsInPlace'
  BY <1>2, ThreadsStay DEF Notice, OnThread, pool
<1>3. ASSUME NEW r \in Requests, Timeout(r) PROVE ThreadsInPlace'
  BY <1>3, ThreadsStay DEF Timeout, OnThread, pool
<1>4. ASSUME NEW r \in Requests, Admit(r) PROVE ThreadsInPlace'
  BY <1>4, ThreadsStay DEF Admit, OnThread, pool
<1>5. ASSUME NEW r \in Requests, Prepare(r) PROVE ThreadsInPlace'
  BY <1>5, ThreadsStay DEF Prepare, OnThread, pool
<1>6. ASSUME NEW r \in Requests, Greet(r) PROVE ThreadsInPlace'
  BY <1>6, ThreadsStay DEF Greet, OnThread, pool
<1>7. ASSUME NEW r \in Requests, NEW t \in Threads, Begin(r, t) PROVE ThreadsInPlace'
  BY <1>7, RequestsAssumption DEF Begin, Goto, Idle, TypeOK, PoolTypes, PlaceTypes, ThreadsInPlace, OnThread, OwnProgress
<1>8. ASSUME NEW r \in Requests, Prefill(r) PROVE ThreadsInPlace'
  BY <1>8, ThreadsStay, ThreadsLeave DEF Prefill, Abort, OnThread, pool
<1>9. ASSUME NEW r \in Requests, Report(r) PROVE ThreadsInPlace'
  BY <1>9, RequestsAssumption DEF Report, TypeOK, PoolTypes, PlaceTypes, ThreadsInPlace, OnThread, OwnProgress, pool
<1>10. ASSUME NEW r \in Requests, PrefillOk(r) PROVE ThreadsInPlace'
  BY <1>10, RequestsAssumption DEF PrefillOk, Goto, TypeOK, PoolTypes, PlaceTypes, ThreadsInPlace, OnThread, OwnProgress, pool
<1>11. ASSUME NEW r \in Requests, NEW p \in BOOLEAN, PrefillFails(r, p) PROVE ThreadsInPlace'
  BY <1>11, ThreadsLeave DEF PrefillFails, Abort, OnThread
<1>12. ASSUME NEW r \in Requests, First(r) PROVE ThreadsInPlace'
  BY <1>12, ThreadsStay DEF First, OnThread, pool
<1>13. ASSUME NEW r \in Requests, Decode(r) PROVE ThreadsInPlace'
  BY <1>13, ThreadsStay, ThreadsLeave DEF Decode, Abort, OnThread, pool
<1>14. ASSUME NEW r \in Requests, Emit(r) PROVE ThreadsInPlace'
  BY <1>14, ThreadsStay, ThreadsLeave DEF Emit, OnThread, pool
<1>15. ASSUME NEW r \in Requests, Close(r) PROVE ThreadsInPlace'
  BY <1>15, ThreadsLeave DEF Close, OnThread
<1>16. ASSUME NEW r \in Requests, ReturnErr(r) PROVE ThreadsInPlace'
  BY <1>16, ThreadsStay DEF ReturnErr, OnThread, pool
<1>17. ASSUME NEW r \in Requests, ReportError(r) PROVE ThreadsInPlace'
  BY <1>17, ThreadsStay DEF ReportError, OnThread, pool
<1>18. ASSUME NEW r \in Requests, ReturnOk(r) PROVE ThreadsInPlace'
  BY <1>18, ThreadsStay DEF ReturnOk, OnThread, pool
<1>19. ASSUME NEW r \in Requests, Receive(r) PROVE ThreadsInPlace'
  BY <1>19, RequestsAssumption DEF Receive, TypeOK, PoolTypes, PlaceTypes, ThreadsInPlace, OnThread, OwnProgress, pool
<1>20. ASSUME NEW r \in Requests, Disconnect(r) PROVE ThreadsInPlace'
  BY <1>20, RequestsAssumption DEF Disconnect, TypeOK, PoolTypes, PlaceTypes, ThreadsInPlace, OnThread, OwnProgress, pool
<1>21. ASSUME NEW r \in Requests, EndOfStream(r) PROVE ThreadsInPlace'
  BY <1>21, RequestsAssumption DEF EndOfStream, TypeOK, PoolTypes, PlaceTypes, ThreadsInPlace, OnThread, OwnProgress, pool
<1>22. ASSUME NEW t \in Threads, ThreadExit(t) PROVE ThreadsInPlace'
  BY <1>22, RequestsAssumption DEF ThreadExit, Idle, TypeOK, PoolTypes, PlaceTypes, ThreadsInPlace, OnThread, OwnProgress, pool
<1>. QED
  BY <1>1, <1>2, <1>3, <1>4, <1>5, <1>6, <1>7, <1>8, <1>9, <1>10, <1>11, <1>12, <1>13, <1>14, <1>15, <1>16, <1>17, <1>18, <1>19, <1>20, <1>21, <1>22 DEF MessageNext, Step

\* The event that ends a stream is the last one the request sends.
LEMMA StepTold ==
    ASSUME TypeOK, ThreadsInPlace, Told, ForMessages(MessageNext)
    PROVE  Told'
<1> USE DEF ForMessages, endpoint
<1>1. ASSUME NEW r \in Requests, Arrive(r) PROVE Told'
  BY <1>1 DEF Arrive, Goto, TypeOK, ChannelTypes, PlaceTypes, Told, channel
<1>2. ASSUME NEW r \in Requests, Notice(r) PROVE Told'
  BY <1>2 DEF Notice, Goto, Send, channel, TypeOK, ChannelTypes, PlaceTypes, Told
<1>3. ASSUME NEW r \in Requests, Timeout(r) PROVE Told'
  BY <1>3 DEF Timeout, Goto, TypeOK, ChannelTypes, PlaceTypes, Told, channel
<1>4. ASSUME NEW r \in Requests, Admit(r) PROVE Told'
  BY <1>4 DEF Admit, Goto, TypeOK, ChannelTypes, PlaceTypes, Told, channel
<1>5. ASSUME NEW r \in Requests, Prepare(r) PROVE Told'
  BY <1>5 DEF Prepare, Goto, TypeOK, ChannelTypes, PlaceTypes, Told, channel
<1>6. ASSUME NEW r \in Requests, Greet(r) PROVE Told'
  BY <1>6 DEF Greet, Goto, Send, channel, TypeOK, ChannelTypes, PlaceTypes, Told
<1>7. ASSUME NEW r \in Requests, NEW t \in Threads, Begin(r, t) PROVE Told'
  BY <1>7 DEF Begin, Goto, TypeOK, ChannelTypes, PlaceTypes, Told, channel
<1>8. ASSUME NEW r \in Requests, Prefill(r) PROVE Told'
  <2>1. stage[r] = "begun" /\ (Goto(r, "aborted") \/ Goto(r, "prefill"))
    BY <1>8 DEF Prefill, Abort
  <2>2. client' = client /\ last' = last /\ stage \in [Requests -> Stages]
    BY <1>8 DEF Prefill, channel, TypeOK, PlaceTypes
  <2>. QED
    BY <2>1, <2>2 DEF Goto, Told
<1>9. ASSUME NEW r \in Requests, Report(r) PROVE Told'
  <2>1. Send(r, "progress")
    BY <1>9, ReportsToItself DEF Report, TypeOK
  <2>2. /\ stage' = stage /\ stage[r] = "prefill" /\ client' = client
        /\ last' = [last EXCEPT ![r] = "progress"] /\ last \in [Requests -> Kinds \cup {"none"}]
    BY <1>9, <2>1 DEF Report, Send, TypeOK, ChannelTypes
  <2>3. client[r] # "answered"
    BY <2>2 DEF Told
  <2>. QED
    BY <2>2, <2>3 DEF Told
<1>10. ASSUME NEW r \in Requests, PrefillOk(r) PROVE Told'
  BY <1>10 DEF PrefillOk, Goto, TypeOK, ChannelTypes, PlaceTypes, Told, channel
<1>11. ASSUME NEW r \in Requests, NEW p \in BOOLEAN, PrefillFails(r, p) PROVE Told'
  BY <1>11 DEF PrefillFails, Abort, Goto, TypeOK, ChannelTypes, PlaceTypes, Told, channel
<1>12. ASSUME NEW r \in Requests, First(r) PROVE Told'
  BY <1>12 DEF First, Goto, Send, SendToken, channel, TypeOK, ChannelTypes, PlaceTypes, Told
<1>13. ASSUME NEW r \in Requests, Decode(r) PROVE Told'
  BY <1>13 DEF Decode, Abort, Goto, TypeOK, ChannelTypes, PlaceTypes, Told, channel
<1>14. ASSUME NEW r \in Requests, Emit(r) PROVE Told'
  BY <1>14 DEF Emit, Goto, Send, SendToken, channel, TypeOK, ChannelTypes, PlaceTypes, Told
<1>15. ASSUME NEW r \in Requests, Close(r) PROVE Told'
  BY <1>15 DEF Close, Goto, Send, channel, TypeOK, ChannelTypes, PlaceTypes, Told
<1>16. ASSUME NEW r \in Requests, ReturnErr(r) PROVE Told'
  BY <1>16 DEF ReturnErr, Goto, TypeOK, ChannelTypes, PlaceTypes, Told, channel
<1>17. ASSUME NEW r \in Requests, ReportError(r) PROVE Told'
  BY <1>17 DEF ReportError, Goto, Send, channel, TypeOK, ChannelTypes, PlaceTypes, Told
<1>18. ASSUME NEW r \in Requests, ReturnOk(r) PROVE Told'
  BY <1>18 DEF ReturnOk, Goto, TypeOK, ChannelTypes, PlaceTypes, Told, channel
<1>19. ASSUME NEW r \in Requests, Receive(r) PROVE Told'
  BY <1>19 DEF Receive, TypeOK, ChannelTypes, PlaceTypes, Told, channel
<1>20. ASSUME NEW r \in Requests, Disconnect(r) PROVE Told'
  BY <1>20 DEF Disconnect, TypeOK, ChannelTypes, PlaceTypes, Told, channel
<1>21. ASSUME NEW r \in Requests, EndOfStream(r) PROVE Told'
  BY <1>21 DEF EndOfStream, Closed, TypeOK, ChannelTypes, PlaceTypes, Told, channel
<1>22. ASSUME NEW t \in Threads, ThreadExit(t) PROVE Told'
  BY <1>22 DEF ThreadExit, TypeOK, ChannelTypes, PlaceTypes, Told, channel
<1>. QED
  BY <1>1, <1>2, <1>3, <1>4, <1>5, <1>6, <1>7, <1>8, <1>9, <1>10, <1>11, <1>12, <1>13, <1>14, <1>15, <1>16, <1>17, <1>18, <1>19, <1>20, <1>21, <1>22 DEF MessageNext, Step

\* Nothing follows the event that ends a stream.
Concluded == \A r \in Requests : last[r] \in {"stop", "error"} => last'[r] = last[r]

\* A request whose stream has ended sends nothing, and no other request sends
\* to it, the reports of a thread with an old callback included.
LEMMA StepConcluded ==
    ASSUME TypeOK, ThreadsInPlace, Told, ForMessages(MessageNext)
    PROVE  Concluded
<1> USE DEF ForMessages, endpoint
<1>1. ASSUME NEW r \in Requests, Arrive(r) PROVE Concluded
  BY <1>1 DEF Arrive, channel, TypeOK, ChannelTypes, Told, Concluded
<1>2. ASSUME NEW r \in Requests, Notice(r) PROVE Concluded
  BY <1>2 DEF Notice, Send, channel, TypeOK, ChannelTypes, Told, Concluded
<1>3. ASSUME NEW r \in Requests, Timeout(r) PROVE Concluded
  BY <1>3 DEF Timeout, channel, TypeOK, ChannelTypes, Told, Concluded
<1>4. ASSUME NEW r \in Requests, Admit(r) PROVE Concluded
  BY <1>4 DEF Admit, channel, TypeOK, ChannelTypes, Told, Concluded
<1>5. ASSUME NEW r \in Requests, Prepare(r) PROVE Concluded
  BY <1>5 DEF Prepare, channel, TypeOK, ChannelTypes, Told, Concluded
<1>6. ASSUME NEW r \in Requests, Greet(r) PROVE Concluded
  BY <1>6 DEF Greet, Send, channel, TypeOK, ChannelTypes, Told, Concluded
<1>7. ASSUME NEW r \in Requests, NEW t \in Threads, Begin(r, t) PROVE Concluded
  BY <1>7 DEF Begin, channel, TypeOK, ChannelTypes, Told, Concluded
<1>8. ASSUME NEW r \in Requests, Prefill(r) PROVE Concluded
  BY <1>8 DEF Prefill, channel, TypeOK, ChannelTypes, Told, Concluded
<1>9. ASSUME NEW r \in Requests, Report(r) PROVE Concluded
  <2>1. Send(r, "progress")
    BY <1>9, ReportsToItself DEF Report, TypeOK
  <2>2. stage[r] = "prefill"
    BY <1>9 DEF Report
  <2>. QED
    BY <2>1, <2>2 DEF Send, TypeOK, ChannelTypes, Told, Concluded
<1>10. ASSUME NEW r \in Requests, PrefillOk(r) PROVE Concluded
  BY <1>10 DEF PrefillOk, channel, TypeOK, ChannelTypes, Told, Concluded
<1>11. ASSUME NEW r \in Requests, NEW p \in BOOLEAN, PrefillFails(r, p) PROVE Concluded
  BY <1>11 DEF PrefillFails, channel, TypeOK, ChannelTypes, Told, Concluded
<1>12. ASSUME NEW r \in Requests, First(r) PROVE Concluded
  BY <1>12 DEF First, Send, SendToken, channel, TypeOK, ChannelTypes, Told, Concluded
<1>13. ASSUME NEW r \in Requests, Decode(r) PROVE Concluded
  BY <1>13 DEF Decode, channel, TypeOK, ChannelTypes, Told, Concluded
<1>14. ASSUME NEW r \in Requests, Emit(r) PROVE Concluded
  BY <1>14 DEF Emit, Send, SendToken, channel, TypeOK, ChannelTypes, Told, Concluded
<1>15. ASSUME NEW r \in Requests, Close(r) PROVE Concluded
  BY <1>15 DEF Close, Send, channel, TypeOK, ChannelTypes, Told, Concluded
<1>16. ASSUME NEW r \in Requests, ReturnErr(r) PROVE Concluded
  BY <1>16 DEF ReturnErr, channel, TypeOK, ChannelTypes, Told, Concluded
<1>17. ASSUME NEW r \in Requests, ReportError(r) PROVE Concluded
  BY <1>17 DEF ReportError, Send, channel, TypeOK, ChannelTypes, Told, Concluded
<1>18. ASSUME NEW r \in Requests, ReturnOk(r) PROVE Concluded
  BY <1>18 DEF ReturnOk, channel, TypeOK, ChannelTypes, Told, Concluded
<1>19. ASSUME NEW r \in Requests, Receive(r) PROVE Concluded
  BY <1>19 DEF Receive, channel, TypeOK, ChannelTypes, Told, Concluded
<1>20. ASSUME NEW r \in Requests, Disconnect(r) PROVE Concluded
  BY <1>20 DEF Disconnect, channel, TypeOK, ChannelTypes, Told, Concluded
<1>21. ASSUME NEW r \in Requests, EndOfStream(r) PROVE Concluded
  BY <1>21 DEF EndOfStream, channel, TypeOK, ChannelTypes, Told, Concluded
<1>22. ASSUME NEW t \in Threads, ThreadExit(t) PROVE Concluded
  BY <1>22 DEF ThreadExit, channel, TypeOK, ChannelTypes, Told, Concluded
<1>. QED
  BY <1>1, <1>2, <1>3, <1>4, <1>5, <1>6, <1>7, <1>8, <1>9, <1>10, <1>11, <1>12, <1>13, <1>14, <1>15, <1>16, <1>17, <1>18, <1>19, <1>20, <1>21, <1>22 DEF MessageNext, Step

---------------------------------------------------------------------------
(* The steps of a request for embeddings *)

EmbedNext == \E e \in Embeds : EmbedArrive(e) \/ EmbedStep(e) \/ EmbedLeave(e)

Holds(j) == j.client = "reading" /\ j.stage \notin {"new", "waiting"}

\* A step of e alone.
Only(e) == \A x \in Embeds \ {e} : job'[x] = job[x]

\* Only an embedding whose handler takes the permit, or drops it, changes their
\* count.
LEMMA HoldersCount ==
    ASSUME EmbedTypes, EmbedTypes', NEW e \in Embeds, Only(e)
    PROVE  /\ Cardinality(Holders) \in Nat
           /\ Cardinality(Holders') = Cardinality(Holders)
                + (IF Holds(job'[e]) THEN 1 ELSE 0) - (IF Holds(job[e]) THEN 1 ELSE 0)
<1>1. IsFiniteSet(Holders) /\ Cardinality(Holders) \in Nat
  BY RequestsAssumption, FS_Subset, FS_CardinalityType DEF Holders
<1>2. Holds(job'[e]) => Holders' = Holders \cup {e}
  BY DEF Holders, Holds, Only
<1>3. ~Holds(job'[e]) => Holders' = Holders \ {e}
  BY DEF Holders, Holds, Only
<1>4. e \in Holders <=> Holds(job[e])
  BY DEF Holders, Holds
<1>5. CASE Holds(job'[e]) /\ ~Holds(job[e])
  <2>1. Cardinality(Holders') = Cardinality(Holders) + 1
    BY <1>1, <1>2, <1>4, <1>5, FS_AddElement
  <2>. QED
    BY <1>1, <1>5, <2>1
<1>6. CASE ~Holds(job'[e]) /\ Holds(job[e])
  <2>1. Cardinality(Holders') = Cardinality(Holders) - 1
    BY <1>1, <1>3, <1>4, <1>6, FS_RemoveElement
  <2>. QED
    BY <1>1, <1>6, <2>1
<1>7. CASE Holds(job'[e]) <=> Holds(job[e])
  <2>1. Holders' = Holders
    BY <1>2, <1>3, <1>4, <1>7
  <2>. QED
    BY <1>1, <1>7, <2>1
<1>. QED
  BY <1>1, <1>5, <1>6, <1>7

\* The embeddings that wait for the permit.
Waiters == {e \in Embeds : job[e].stage = "waiting"}

\* The records of the endpoint, field by field.
LEMMA EmbedFields ==
    ASSUME NEW b \in EmbedType
    PROVE  /\ b.permits \in Nat /\ b.queue \in Seq(Embeds)
           /\ b.lock \in Embeds \cup {None} /\ b.poisoned \in BOOLEAN
  BY DEF EmbedType
\* The fields of a job.
LEMMA JobFields ==
    ASSUME NEW j \in JobType
    PROVE  j.stage \in JobStages /\ j.client \in Clients /\ j.thread \in Threads \cup {None}
  BY DEF JobType
\* With the job j for e, the endpoint b has its permits and its queue right.
InAccount(e, j, b) ==
    /\ b.permits = embed.permits + (IF Holds(job[e]) THEN 1 ELSE 0) - (IF Holds(j) THEN 1 ELSE 0)
    /\ Once(b.queue)
    /\ ToSet(b.queue) = IF j.stage = "waiting" THEN ToSet(embed.queue) \cup {e}
                        ELSE ToSet(embed.queue) \ {e}
    /\ j.stage \in {"new", "waiting"} => j.client = "reading"
    /\ j.stage = "done" => j.client # "reading"

\* A step of e that keeps the endpoint in account.
LEMMA EmbedMove ==
    ASSUME EmbedTypes, EmbedAccounts, NEW e \in Embeds, NEW j \in JobType, NEW b \in EmbedType,
           job' = [job EXCEPT ![e] = j], embed' = b,
           InAccount(e, j, b)
    PROVE  EmbedTypes' /\ EmbedAccounts'
<1> USE DEF InAccount
<1>1. embed \in EmbedType /\ embed.permits \in Nat /\ b.permits \in Nat
  BY EmbedFields DEF EmbedTypes
<1>2. EmbedTypes' /\ Only(e) /\ job'[e] = j
  BY DEF EmbedTypes, Only
<1>3. embed'.permits + Cardinality(Holders') = 1
  <2>1. Cardinality(Holders) \in Nat
    BY <1>2, HoldersCount
  <2>2. Cardinality(Holders') = Cardinality(Holders)
                + (IF Holds(j) THEN 1 ELSE 0) - (IF Holds(job[e]) THEN 1 ELSE 0)
    BY <1>2, HoldersCount
  <2>. QED
    BY <1>1, <2>1, <2>2 DEF EmbedAccounts
<1>4. Waiters' = IF j.stage = "waiting" THEN Waiters \cup {e} ELSE Waiters \ {e}
  BY <1>2 DEF Waiters, Only
<1>5. Waiters' = ToSet(embed'.queue)
  BY <1>4 DEF EmbedAccounts, Waiters
<1>6. \A x \in Embeds : /\ job'[x].stage \in {"new", "waiting"} => job'[x].client = "reading"
                        /\ job'[x].stage = "done" => job'[x].client # "reading"
  BY <1>2 DEF Only, EmbedAccounts
<1>. QED
  BY <1>2, <1>3, <1>5, <1>6 DEF EmbedAccounts, Waiters

\* The handler holds the permit from admission until it answers or is dropped,
\* whatever its closure does meanwhile; the queue serves its head.
LEMMA StepEmbed ==
    ASSUME EmbedTypes, EmbedAccounts, EmbedNext
    PROVE  EmbedTypes' /\ EmbedAccounts'
<1> DEFINE Goal == EmbedTypes' /\ EmbedAccounts'
           Q == embed.queue
<1>0. /\ embed \in EmbedType
      /\ embed.permits \in Nat /\ Q \in Seq(Embeds) /\ Once(Q)
  BY EmbedFields DEF EmbedTypes, EmbedAccounts
<1>j. ASSUME NEW e \in Embeds
      PROVE  /\ job[e] \in JobType
             /\ job[e].stage \in JobStages /\ job[e].client \in Clients
             /\ e \in ToSet(Q) <=> job[e].stage = "waiting"
             /\ job[e].stage \in {"new", "waiting"} => job[e].client = "reading"
             /\ job[e].stage = "done" => job[e].client # "reading"
  BY JobFields DEF EmbedTypes, EmbedAccounts
<1> HIDE DEF Goal
<1>1. ASSUME NEW e \in Embeds, EmbedArrive(e) PROVE Goal
  <2>1. CASE job' = [job EXCEPT ![e] = Answer(@)] /\ UNCHANGED embed
    <3> DEFINE j == Answer(job[e])
               b == embed
    <3>1. job' = [job EXCEPT ![e] = j] /\ embed' = b
      BY <1>1, <2>1 DEF EmbedArrive
    <3>2. j \in JobType /\ j.stage = "done" /\ j.client = "answered"
      BY <1>j DEF JobType, JobStages, Clients, Answer
    <3>3. b \in EmbedType /\ b.queue = Q /\ b.permits = embed.permits
      BY <1>0, <1>1, <2>1 DEF EmbedType, EmbedArrive
    <3> HIDE DEF j, b
    <3>4. InAccount(e, j, b)
      BY <1>0, <1>j, <1>1, <2>1, <3>2, <3>3 DEF EmbedArrive, Holds, InAccount
    <3>. QED
      BY <3>1, <3>2, <3>3, <3>4, EmbedMove DEF Goal
  <2>2. CASE /\ job' = [job EXCEPT ![e].stage = "waiting"]
             /\ embed' = [embed EXCEPT !.queue = Append(@, e)]
    <3> DEFINE q == Append(Q, e)
    <3>q. q \in Seq(Embeds) /\ Once(q) /\ ToSet(q) = ToSet(Q) \cup {e}
      <4>1. \A i \in 1 .. Len(Q) : Q[i] # e
        BY <1>0, <1>j, <1>1, ToSetIs DEF EmbedArrive
      <4>. QED
        BY <1>0, <4>1, AppendQueue
    <3> DEFINE j == [job[e] EXCEPT !.stage = "waiting"]
               b == [embed EXCEPT !.queue = q]
    <3>1. job' = [job EXCEPT ![e] = j] /\ embed' = b
      BY <1>1, <2>2 DEF EmbedArrive
    <3>2. j \in JobType /\ j.stage = "waiting" /\ j.client = job[e].client
      BY <1>j DEF JobType, JobStages, Clients, Answer
    <3>3. b \in EmbedType /\ b.queue = q /\ b.permits = embed.permits
      BY <1>0, <1>1, <2>2, <3>q DEF EmbedType, EmbedArrive
    <3> HIDE DEF j, b, q
    <3>4. InAccount(e, j, b)
      BY <1>0, <1>j, <1>1, <2>2, <3>2, <3>3, <3>q DEF EmbedArrive, Holds, InAccount
    <3>. QED
      BY <3>1, <3>2, <3>3, <3>4, EmbedMove DEF Goal
  <2>. QED
    BY <1>1, <2>1, <2>2 DEF EmbedArrive
<1>2. ASSUME NEW e \in Embeds, EmbedAdmit(e) PROVE Goal
  <2> DEFINE q == Tail(Q)
  <2>q. q \in Seq(Embeds) /\ Once(q) /\ ToSet(q) = ToSet(Q) \ {e}
    <3>1. Q # <<>>
      BY <1>0, <1>j, <1>2, ToSetIs DEF EmbedAdmit
    <3>. QED
      BY <1>0, <1>2, <3>1, TailQueue DEF EmbedAdmit
  <2>1. CASE /\ job' = [job EXCEPT ![e] = Answer(@)]
             /\ embed' = [embed EXCEPT !.queue = Tail(@)]
    <3> DEFINE j == Answer(job[e])
               b == [embed EXCEPT !.queue = q]
    <3>1. job' = [job EXCEPT ![e] = j] /\ embed' = b
      BY <1>2, <2>1 DEF EmbedAdmit
    <3>2. j \in JobType /\ j.stage = "done" /\ j.client = "answered"
      BY <1>j DEF JobType, JobStages, Clients, Answer
    <3>3. b \in EmbedType /\ b.queue = q /\ b.permits = embed.permits
      BY <1>0, <1>2, <2>1, <2>q DEF EmbedType, EmbedAdmit
    <3> HIDE DEF j, b, q
    <3>4. InAccount(e, j, b)
      BY <1>0, <1>j, <1>2, <2>1, <3>2, <3>3, <2>q DEF EmbedAdmit, Holds, InAccount
    <3>. QED
      BY <3>1, <3>2, <3>3, <3>4, EmbedMove DEF Goal
  <2>2. CASE /\ job' = [job EXCEPT ![e].stage = "spawned"]
             /\ embed' = [embed EXCEPT !.queue = Tail(@), !.permits = @ - 1]
    <3> DEFINE j == [job[e] EXCEPT !.stage = "spawned"]
               b == [embed EXCEPT !.queue = q, !.permits = embed.permits - 1]
    <3>1. job' = [job EXCEPT ![e] = j] /\ embed' = b
      BY <1>2, <2>2 DEF EmbedAdmit
    <3>2. j \in JobType /\ j.stage = "spawned" /\ j.client = job[e].client
      BY <1>j DEF JobType, JobStages, Clients, Answer
    <3>p. embed.permits - 1 \in Nat
      BY <1>0, <1>2 DEF EmbedAdmit
    <3>3. b \in EmbedType /\ b.queue = q /\ b.permits = embed.permits - 1
      BY <1>0, <2>q, <3>p DEF EmbedType
    <3> HIDE DEF j, b, q
    <3>4. InAccount(e, j, b)
      BY <1>0, <1>j, <1>2, <2>2, <3>2, <3>3, <2>q DEF EmbedAdmit, Holds, InAccount
    <3>. QED
      BY <3>1, <3>2, <3>3, <3>4, EmbedMove DEF Goal
  <2>. QED
    BY <1>2, <2>1, <2>2 DEF EmbedAdmit
<1>3. ASSUME NEW e \in Embeds, NEW t \in Threads, EmbedBegin(e, t) PROVE Goal
  <2> DEFINE j == [job[e] EXCEPT !.stage = "begun", !.thread = t]
             b == embed
  <2>1. job' = [job EXCEPT ![e] = j] /\ embed' = b
    BY <1>3 DEF EmbedBegin
  <2>2. j \in JobType /\ j.stage = "begun" /\ j.client = job[e].client
    BY <1>j DEF JobType, JobStages, Clients, Answer
  <2>3. b \in EmbedType /\ b.queue = Q /\ b.permits = embed.permits
    BY <1>0, <1>3 DEF EmbedType, EmbedBegin
  <2> HIDE DEF j, b
  <2>4. InAccount(e, j, b)
    BY <1>0, <1>j, <1>3, <2>2, <2>3 DEF EmbedBegin, Holds, InAccount
  <2>. QED
    BY <2>1, <2>2, <2>3, <2>4, EmbedMove DEF Goal
<1>4. ASSUME NEW e \in Embeds, EmbedLock(e) PROVE Goal
  <2>1. CASE /\ job' = [job EXCEPT ![e].stage = "ended", ![e].thread = None]
             /\ UNCHANGED embed
    <3> DEFINE j == [job[e] EXCEPT !.stage = "ended", !.thread = None]
               b == embed
    <3>1. job' = [job EXCEPT ![e] = j] /\ embed' = b
      BY <1>4, <2>1 DEF EmbedLock
    <3>2. j \in JobType /\ j.stage = "ended" /\ j.client = job[e].client
      BY <1>j DEF JobType, JobStages, Clients, Answer
    <3>3. b \in EmbedType /\ b.queue = Q /\ b.permits = embed.permits
      BY <1>0, <1>4, <2>1 DEF EmbedType, EmbedLock
    <3> HIDE DEF j, b
    <3>4. InAccount(e, j, b)
      BY <1>0, <1>j, <1>4, <2>1, <3>2, <3>3 DEF EmbedLock, Holds, InAccount
    <3>. QED
      BY <3>1, <3>2, <3>3, <3>4, EmbedMove DEF Goal
  <2>2. CASE /\ job' = [job EXCEPT ![e].stage = "computing"]
             /\ embed' = [embed EXCEPT !.lock = e]
    <3> DEFINE j == [job[e] EXCEPT !.stage = "computing"]
               b == [embed EXCEPT !.lock = e]
    <3>1. job' = [job EXCEPT ![e] = j] /\ embed' = b
      BY <1>4, <2>2 DEF EmbedLock
    <3>2. j \in JobType /\ j.stage = "computing" /\ j.client = job[e].client
      BY <1>j DEF JobType, JobStages, Clients, Answer
    <3>3. b \in EmbedType /\ b.queue = Q /\ b.permits = embed.permits
      BY <1>0, <1>4, <2>2 DEF EmbedType, EmbedLock
    <3> HIDE DEF j, b
    <3>4. InAccount(e, j, b)
      BY <1>0, <1>j, <1>4, <2>2, <3>2, <3>3 DEF EmbedLock, Holds, InAccount
    <3>. QED
      BY <3>1, <3>2, <3>3, <3>4, EmbedMove DEF Goal
  <2>. QED
    BY <1>4, <2>1, <2>2 DEF EmbedLock
<1>5. ASSUME NEW e \in Embeds, EmbedCompute(e) PROVE Goal
  <2>o. PICK o \in BOOLEAN : embed' = [embed EXCEPT !.lock = None, !.poisoned = o]
    BY <1>5 DEF EmbedCompute
  <2> DEFINE j == [job[e] EXCEPT !.stage = "ended", !.thread = None]
             b == [embed EXCEPT !.lock = None, !.poisoned = o]
  <2>1. job' = [job EXCEPT ![e] = j] /\ embed' = b
    BY <1>5, <2>o DEF EmbedCompute
  <2>2. j \in JobType /\ j.stage = "ended" /\ j.client = job[e].client
    BY <1>j DEF JobType, JobStages, Clients, Answer
  <2>3. b \in EmbedType /\ b.queue = Q /\ b.permits = embed.permits
    BY <1>0, <1>5, <2>o DEF EmbedType, EmbedCompute
  <2> HIDE DEF j, b
  <2>4. InAccount(e, j, b)
    BY <1>0, <1>j, <1>5, <2>o, <2>2, <2>3 DEF EmbedCompute, Holds, InAccount
  <2>. QED
    BY <2>1, <2>2, <2>3, <2>4, EmbedMove DEF Goal
<1>6. ASSUME NEW e \in Embeds, EmbedReply(e) PROVE Goal
  <2> DEFINE j == Answer(job[e])
             b == [embed EXCEPT !.permits = embed.permits + 1]
  <2>1. job' = [job EXCEPT ![e] = j] /\ embed' = b
    BY <1>6 DEF EmbedReply
  <2>2. j \in JobType /\ j.stage = "done" /\ j.client = "answered"
    BY <1>j DEF JobType, JobStages, Clients, Answer
  <2>3. b \in EmbedType /\ b.queue = Q /\ b.permits = embed.permits + 1
    BY <1>0, <1>6 DEF EmbedType, EmbedReply
  <2> HIDE DEF j, b
  <2>4. InAccount(e, j, b)
    BY <1>0, <1>j, <1>6, <2>2, <2>3 DEF EmbedReply, Holds, InAccount
  <2>. QED
    BY <2>1, <2>2, <2>3, <2>4, EmbedMove DEF Goal
<1>7. ASSUME NEW e \in Embeds, EmbedLeave(e) PROVE Goal
  <2>1. CASE job[e].stage = "waiting"
    <3> DEFINE q == Without(Q, e)
    <3>q. q \in Seq(Embeds) /\ Once(q) /\ ToSet(q) = ToSet(Q) \ {e}
      BY <1>0, <1>j, <2>1, WithoutProperties
    <3> DEFINE j == [job[e] EXCEPT !.client = "gone", !.stage = "done"]
               b == [embed EXCEPT !.queue = q]
    <3>1. job' = [job EXCEPT ![e] = j] /\ embed' = b
      BY <1>7, <2>1 DEF EmbedLeave
    <3>2. j \in JobType /\ j.stage = "done" /\ j.client = "gone"
      BY <1>j DEF JobType, JobStages, Clients, Answer
    <3>3. b \in EmbedType /\ b.queue = q /\ b.permits = embed.permits
      BY <1>0, <1>7, <2>1, <3>q DEF EmbedType, EmbedLeave
    <3> HIDE DEF j, b, q
    <3>4. InAccount(e, j, b)
      BY <1>0, <1>j, <1>7, <2>1, <3>2, <3>3, <3>q DEF EmbedLeave, Holds, InAccount
    <3>. QED
      BY <3>1, <3>2, <3>3, <3>4, EmbedMove DEF Goal
  <2>2. CASE job[e].stage # "waiting"
    <3> DEFINE j == [job[e] EXCEPT !.client = "gone"]
               b == [embed EXCEPT !.permits = embed.permits + 1]
    <3>1. job' = [job EXCEPT ![e] = j] /\ embed' = b
      BY <1>7, <2>2 DEF EmbedLeave
    <3>2. j \in JobType /\ j.stage = job[e].stage /\ j.client = "gone"
      BY <1>j DEF JobType, JobStages, Clients, Answer
    <3>3. b \in EmbedType /\ b.queue = Q /\ b.permits = embed.permits + 1
      BY <1>0, <1>7, <2>2 DEF EmbedType, EmbedLeave
    <3> HIDE DEF j, b
    <3>4. InAccount(e, j, b)
      BY <1>0, <1>j, <1>7, <2>2, <3>2, <3>3 DEF EmbedLeave, Holds, InAccount
    <3>. QED
      BY <3>1, <3>2, <3>3, <3>4, EmbedMove DEF Goal
  <2>. QED
    BY <2>1, <2>2
<1>. QED
  BY <1>1, <1>2, <1>3, <1>4, <1>5, <1>6, <1>7 DEF EmbedNext, EmbedStep, Goal

\* A closure of embeddings takes an idle thread; the closures of messages, and
\* the callbacks, are not touched.
LEMMA EmbedThreads ==
    ASSUME TypeOK, ThreadsInPlace, EmbedNext, UNCHANGED messages
    PROVE  ThreadsInPlace'
<1>1. ASSUME \A e \in Embeds, r \in Requests : thread[r] # None => job'[e].thread # thread[r]
      PROVE  ThreadsInPlace'
  BY <1>1 DEF ThreadsInPlace, OwnProgress, messages, pool
<1>2. ASSUME NEW e \in Embeds
      PROVE  job[e] \in JobType /\ \A r \in Requests : thread[r] # None => job[e].thread # thread[r]
  BY DEF TypeOK, EmbedTypes, ThreadsInPlace
<1>3. job \in [Embeds -> JobType]
  BY DEF TypeOK, EmbedTypes
<1> DEFINE Clear(j) == \A r \in Requests : thread[r] # None => j.thread # thread[r]
<1>4. ASSUME NEW e \in Embeds, NEW j, job' = [job EXCEPT ![e] = j], Clear(j)
      PROVE  ThreadsInPlace'
  BY <1>1, <1>2, <1>3, <1>4
<1>5. ASSUME NEW j \in JobType, Clear(j), NEW s, NEW t \in Threads \cup {None},
             t # None => Idle(t)
      PROVE  /\ Clear(Answer(j))
             /\ Clear([j EXCEPT !.stage = s])
             /\ Clear([j EXCEPT !.stage = s, !.thread = t])
             /\ Clear([j EXCEPT !.client = "gone", !.stage = "done"])
             /\ Clear([j EXCEPT !.client = "gone"])
  BY <1>5 DEF JobType, Answer, Idle
<1>6. ASSUME NEW e \in Embeds, EmbedArrive(e) PROVE ThreadsInPlace'
  <2> DEFINE j == job[e]
  <2>1. \/ job' = [job EXCEPT ![e] = Answer(j)]
        \/ job' = [job EXCEPT ![e] = [j EXCEPT !.stage = "waiting"]]
    BY <1>6 DEF EmbedArrive
  <2>2. j \in JobType /\ Clear(j)
    BY <1>2
  <2>3. Clear(Answer(j)) /\ Clear([j EXCEPT !.stage = "waiting"])
    BY <1>5, <1>6, <2>2 DEF EmbedArrive
  <2> HIDE DEF j
  <2>. QED
    BY <1>4, <2>1, <2>3
<1>7. ASSUME NEW e \in Embeds, EmbedAdmit(e) PROVE ThreadsInPlace'
  <2> DEFINE j == job[e]
  <2>1. \/ job' = [job EXCEPT ![e] = Answer(j)]
        \/ job' = [job EXCEPT ![e] = [j EXCEPT !.stage = "spawned"]]
    BY <1>7 DEF EmbedAdmit
  <2>2. j \in JobType /\ Clear(j)
    BY <1>2
  <2>3. Clear(Answer(j)) /\ Clear([j EXCEPT !.stage = "spawned"])
    BY <1>5, <1>7, <2>2 DEF EmbedAdmit
  <2> HIDE DEF j
  <2>. QED
    BY <1>4, <2>1, <2>3
<1>8. ASSUME NEW e \in Embeds, NEW t \in Threads, EmbedBegin(e, t) PROVE ThreadsInPlace'
  <2> DEFINE j == job[e]
  <2>1. job' = [job EXCEPT ![e] = [j EXCEPT !.stage = "begun", !.thread = t]]
    BY <1>8 DEF EmbedBegin
  <2>2. j \in JobType /\ Clear(j)
    BY <1>2
  <2>3. Clear([j EXCEPT !.stage = "begun", !.thread = t])
    BY <1>5, <1>8, <2>2 DEF EmbedBegin
  <2> HIDE DEF j
  <2>. QED
    BY <1>4, <2>1, <2>3
<1>9. ASSUME NEW e \in Embeds, EmbedLock(e) PROVE ThreadsInPlace'
  <2> DEFINE j == job[e]
  <2>1. \/ job' = [job EXCEPT ![e] = [j EXCEPT !.stage = "ended", !.thread = None]]
        \/ job' = [job EXCEPT ![e] = [j EXCEPT !.stage = "computing"]]
    BY <1>9 DEF EmbedLock
  <2>2. j \in JobType /\ Clear(j)
    BY <1>2
  <2>3. Clear([j EXCEPT !.stage = "ended", !.thread = None]) /\ Clear([j EXCEPT !.stage = "computing"])
    BY <1>5, <1>9, <2>2 DEF EmbedLock
  <2> HIDE DEF j
  <2>. QED
    BY <1>4, <2>1, <2>3
<1>10. ASSUME NEW e \in Embeds, EmbedCompute(e) PROVE ThreadsInPlace'
  <2> DEFINE j == job[e]
  <2>1. job' = [job EXCEPT ![e] = [j EXCEPT !.stage = "ended", !.thread = None]]
    BY <1>10 DEF EmbedCompute
  <2>2. j \in JobType /\ Clear(j)
    BY <1>2
  <2>3. Clear([j EXCEPT !.stage = "ended", !.thread = None])
    BY <1>5, <1>10, <2>2 DEF EmbedCompute
  <2> HIDE DEF j
  <2>. QED
    BY <1>4, <2>1, <2>3
<1>11. ASSUME NEW e \in Embeds, EmbedReply(e) PROVE ThreadsInPlace'
  <2> DEFINE j == job[e]
  <2>1. job' = [job EXCEPT ![e] = Answer(j)]
    BY <1>11 DEF EmbedReply
  <2>2. j \in JobType /\ Clear(j)
    BY <1>2
  <2>3. Clear(Answer(j))
    BY <1>5, <1>11, <2>2 DEF EmbedReply
  <2> HIDE DEF j
  <2>. QED
    BY <1>4, <2>1, <2>3
<1>12. ASSUME NEW e \in Embeds, EmbedLeave(e) PROVE ThreadsInPlace'
  <2> DEFINE j == job[e]
  <2>1. \/ job' = [job EXCEPT ![e] = [j EXCEPT !.client = "gone", !.stage = "done"]]
        \/ job' = [job EXCEPT ![e] = [j EXCEPT !.client = "gone"]]
    BY <1>12 DEF EmbedLeave
  <2>2. j \in JobType /\ Clear(j)
    BY <1>2
  <2>3. Clear([j EXCEPT !.client = "gone", !.stage = "done"]) /\ Clear([j EXCEPT !.client = "gone"])
    BY <1>5, <1>12, <2>2 DEF EmbedLeave
  <2> HIDE DEF j
  <2>. QED
    BY <1>4, <2>1, <2>3
<1>. QED
  BY <1>6, <1>7, <1>8, <1>9, <1>10, <1>11, <1>12 DEF EmbedNext, EmbedStep

---------------------------------------------------------------------------
(* The inductive invariant is one *)

\* A server that has just started.
THEOREM InitIInv == Init => IInv
<1> SUFFICES ASSUME Init PROVE IInv
  OBVIOUS
<1> USE DEF Init
<1>1. \A S : "new" \notin S => In(S) = {}
  BY DEF In
<1>2. /\ In(Holding) = {} /\ In(Queued) = {} /\ In(Ended) = {} /\ In({"done"}) = {}
      /\ In({"waiting"}) = {} /\ In({"erring", "failed"}) = {}
  BY <1>1 DEF Holding, Queued, Ended
<1>3. Holders = {} /\ \A e \in Embeds : job[e].stage = "new" /\ job[e].client = "reading"
  BY DEF Holders
<1>4. TypeOK
  <2>1. ChannelTypes /\ PlaceTypes
    BY RequestsAssumption DEF ChannelTypes, PlaceTypes, Clients, Stages
  <2>2. PoolTypes
    BY DEF PoolTypes
  <2>3. EmbedTypes
    BY DEF EmbedTypes, EmbedType, JobType, JobStages, Clients
  <2>. QED
    BY <2>1, <2>2, <2>3, RequestsAssumption DEF TypeOK
<1>5. Accounts
  <2>1. Cardinality({}) = 0 /\ MaxConcurrent \in Nat
    BY FS_EmptySet, RequestsAssumption
  <2>2. /\ permits = MaxConcurrent /\ waiting_count = 0
        /\ active_requests = 0 /\ total_requests = 0
    OBVIOUS
  <2>3. permits + Cardinality(In(Holding)) = MaxConcurrent
    BY <1>2, <2>1, <2>2
  <2>4. ActiveExplained
    <3>1. /\ Cardinality(In(Holding)) = 0 /\ Cardinality(In({"erring", "failed"})) = 0
          /\ Cardinality(In({"done"})) = 0
      BY <1>2, <2>1, Zenon
    <3>. QED
      BY <2>2, <3>1 DEF ActiveExplained
  <2>. QED
    BY <1>2, <2>1, <2>2, <2>3, <2>4 DEF Accounts
<1>6. ToSet(<<>>) = {} /\ Once(<<>>) /\ Len(<<>>) = 0
  BY DEF ToSet, Once
<1>7. QueueInPlace
  BY <1>2, <1>6, FS_EmptySet DEF QueueInPlace
<1>8. EmbedAccounts
  <2>1. embed.queue = <<>> /\ embed.permits = 1
    OBVIOUS
  <2>2. {e \in Embeds : job[e].stage = "waiting"} = {}
    BY <1>3
  <2>. QED
    BY <1>3, <1>6, <2>1, <2>2, FS_EmptySet DEF EmbedAccounts
<1>9. ThreadsInPlace
  BY DEF ThreadsInPlace, OnThread, OwnProgress
<1>10. Told
  BY DEF Told
<1>. QED
  BY <1>4, <1>5, <1>7, <1>8, <1>9, <1>10 DEF IInv

\* A step of the server is one of a request for messages, or of one for
\* embeddings.
LEMMA NextIs ==
    Next <=> \/ MessageNext /\ UNCHANGED endpoint
             \/ EmbedNext /\ UNCHANGED messages
  BY DEF Next, ForMessages, ForEmbeddings, MessageNext, EmbedNext

\* Every step keeps the inductive invariant.
THEOREM StepIInv == IInv /\ [Next]_vars => IInv'
<1> SUFFICES ASSUME IInv, [Next]_vars PROVE IInv'
  OBVIOUS
<1>1. CASE MessageNext /\ UNCHANGED endpoint
  <2>1. ForMessages(MessageNext)
    BY <1>1 DEF ForMessages
  <2>2. TypeOK' /\ Accounts' /\ QueueInPlace' /\ ThreadsInPlace' /\ Told'
    BY <2>1, StepTypes, StepAccounts, StepQueue, StepThreads, StepTold DEF IInv
  <2>3. EmbedAccounts'
    BY <1>1 DEF IInv, EmbedAccounts, Holders, Once, endpoint
  <2>. QED
    BY <2>2, <2>3 DEF IInv
<1>2. CASE EmbedNext /\ UNCHANGED messages
  <2>1. EmbedTypes' /\ EmbedAccounts'
    BY <1>2, StepEmbed DEF IInv, TypeOK
  <2>2. ThreadsInPlace'
    BY <1>2, EmbedThreads DEF IInv
  <2> USE <1>2 DEF messages, semaphore, metrics, channel, pool, backend
  <2>3. TypeOK'
    BY <2>1 DEF IInv, TypeOK, ChannelTypes, PoolTypes, PlaceTypes
  <2>4. Accounts'
    BY DEF IInv, Accounts, ActiveExplained, In
  <2>5. QueueInPlace'
    BY QueueSame DEF IInv
  <2>6. Told'
    BY DEF IInv, Told
  <2>. QED
    BY <2>1, <2>2, <2>3, <2>4, <2>5, <2>6 DEF IInv
<1>3. CASE UNCHANGED vars
  <2> USE <1>3 DEF vars, messages, endpoint, semaphore, metrics, channel, pool, backend
  <2>1. TypeOK'
    BY DEF IInv, TypeOK, ChannelTypes, PoolTypes, PlaceTypes, EmbedTypes
  <2>2. Accounts'
    BY DEF IInv, Accounts, ActiveExplained, In
  <2>3. QueueInPlace'
    BY QueueSame DEF IInv
  <2>4. EmbedAccounts'
    BY DEF IInv, EmbedAccounts, Holders, Once
  <2>5. ThreadsInPlace' /\ Told'
    BY DEF IInv, ThreadsInPlace, OwnProgress, Told
  <2>. QED
    BY <2>1, <2>2, <2>3, <2>4, <2>5 DEF IInv
<1>. QED
  BY <1>1, <1>2, <1>3, NextIs

\* The invariant holds of every reachable state.
THEOREM Inductive == Spec => []IInv
  BY InitIInv, StepIInv, PTL DEF Spec

---------------------------------------------------------------------------
(* The properties *)

\* The types of the server's state; no channel ever holds more events than it
\* has places (inference.rs, handlers.rs).
THEOREM TypeCorrect == Spec => []TypeOK
<1>1. IInv => TypeOK
  BY DEF IInv
<1>. QED
  BY <1>1, Inductive, PTL

\* Permits: those held and those free are all of them, whatever way the
\* requests end; the waiting count and the queue have the requests that wait.
THEOREM PermitsAreConserved == Spec => []PermitsConserved
<1>1. IInv => PermitsConserved
  BY DEF IInv, Accounts, QueueInPlace, EmbedAccounts, PermitsConserved
<1>. QED
  BY <1>1, Inductive, PTL

\* A prefill reports to its own request, and later calls of the closure find no
\* callback in their thread.
THEOREM ProgressIsOwn == Spec => []OwnProgress
<1>1. IInv => OwnProgress
  BY DEF IInv, ThreadsInPlace
<1>. QED
  BY <1>1, Inductive, PTL

\* A client that read its stream to the end was told how it ended, and nothing
\* followed that event.
THEOREM StreamIsConcluded == Spec => StreamConcluded
<1>1. IInv => \A r \in Requests : client[r] = "answered" => last[r] \in {"stop", "error"}
  BY DEF IInv, Told
<1>2. IInv /\ [Next]_vars => [Concluded]_vars
  <2> SUFFICES ASSUME IInv, Next PROVE Concluded
    BY DEF Concluded
  <2>1. CASE MessageNext /\ UNCHANGED endpoint
    BY <2>1, StepConcluded DEF IInv, ForMessages
  <2>2. CASE EmbedNext /\ UNCHANGED messages
    BY <2>2 DEF Concluded, messages, channel
  <2>. QED
    BY <2>1, <2>2, NextIs
<1>. QED
  BY <1>1, <1>2, Inductive, PTL DEF Spec, StreamConcluded, Concluded
==============================================================================
