------------------------------- MODULE Requests -------------------------------
(***************************************************************************)
(* The life of the /v1/messages and /v1/embeddings requests of one server  *)
(* (src/crates/server/src/handlers.rs, metrics.rs, inference.rs).          *)
(*                                                                         *)
(* Every request has an async task (run_inference), which queues for a     *)
(* permit of the semaphore, a closure it hands to a thread of the blocking *)
(* pool, which runs prefill and decode under the backend's mutex, and a    *)
(* bounded channel to its client.  An action is what happens between two   *)
(* points where the task or the closure may have to wait: an await, a lock,*)
(* a send on a full channel, the work of the model itself.                 *)
(*                                                                         *)
(* External, as this code uses it: tokio's semaphore is fair (a released   *)
(* permit belongs to the first in its queue), a blocking thread serves one *)
(* closure after another and, idle for long, exits with its thread-locals, *)
(* a send to a dropped receiver fails at once.                             *)
(***************************************************************************)
EXTENDS Integers, Sequences, SequencesExt, FiniteSets

CONSTANTS Requests,       \* the /v1/messages requests that may arrive
          Embeds,         \* the /v1/embeddings requests that may arrive
          MaxClients,     \* bound: requests of both kinds that do arrive
          Threads,        \* threads of tokio's blocking pool
          MaxConcurrent,  \* --max-concurrent, permits of the semaphore
          Capacity,       \* events a channel holds (64 in the code)
          MaxReports,     \* bound: progress reports of a prefill
          MaxSteps,       \* bound: decode_next calls of a request
          SessionDir,     \* session files can be created (HOME is set, ...)
          None

ASSUME RequestsAssumption ==
    /\ MaxConcurrent \in Nat /\ MaxClients \in Nat
    /\ Capacity \in Nat \ {0}
    /\ MaxReports \in Nat
    /\ MaxSteps \in Nat
    /\ SessionDir \in BOOLEAN
    /\ None \notin Requests
    /\ None \notin Threads
    /\ IsFiniteSet(Requests) /\ IsFiniteSet(Embeds)

VARIABLES
    \* the semaphore: permits not held, requests waiting in acquire()
    permits, queue,
    \* InferenceMetrics
    waiting_count, active_requests, peak_concurrent, total_requests,
    \* the channel: its client, events in it, kind of the last event sent
    client, buffer, last,
    \* the blocking pool: the thread that runs r's closure, and each thread's
    \* thread-local progress callback, by the request whose sender it holds
    thread, callback,
    \* the Mutex around the backend
    lock, poisoned,
    \* the task and its closure: place, reports or steps left, session file
    stage, left, log,
    \* EmbedState: its semaphore, of one permit, and its backend's mutex; and
    \* the requests for embeddings: place, client, thread of the closure
    embed, job

semaphore == <<permits, queue>>
metrics == <<waiting_count, active_requests, peak_concurrent, total_requests>>
channel == <<client, buffer, last>>
pool == <<thread, callback>>
backend == <<lock, poisoned>>
messages == <<semaphore, metrics, channel, pool, backend, stage, left, log>>
endpoint == <<embed, job>>
vars == <<messages, endpoint>>

Init == /\ permits = MaxConcurrent
        /\ queue = <<>>
        /\ waiting_count = 0 /\ active_requests = 0
        /\ peak_concurrent = 0 /\ total_requests = 0
        /\ client = [r \in Requests |-> "reading"]
        /\ buffer = [r \in Requests |-> 0]
        /\ last = [r \in Requests |-> "none"]
        /\ thread = [r \in Requests |-> None]
        /\ callback = [t \in Threads |-> None]
        /\ lock = None
        /\ poisoned = FALSE
        /\ stage = [r \in Requests |-> "new"]
        /\ left = [r \in Requests |-> 0]
        /\ log = [r \in Requests |-> "none"]
        /\ embed = [permits |-> 1, queue |-> <<>>, lock |-> None, poisoned |-> FALSE]
        /\ job = [e \in Embeds |-> [stage |-> "new", client |-> "reading", thread |-> None]]

Come == {r \in Requests : stage[r] # "new"} \cup {e \in Embeds : job[e].stage # "new"}

Goto(r, s) == stage' = [stage EXCEPT ![r] = s]

\* Rewrite r's session file, if it has one, with a new status.
Flush(r, status) == log' = IF SessionDir THEN [log EXCEPT ![r] = status] ELSE log

---------------------------------------------------------------------------
(* The channel and its client *)

\* tx.send and tx.blocking_send: wait for room, or fail without a receiver.
Send(r, event) ==
    /\ client[r] = "gone" \/ buffer[r] < Capacity
    /\ buffer' = IF client[r] = "gone" THEN buffer ELSE [buffer EXCEPT ![r] = @ + 1]
    /\ last' = [last EXCEPT ![r] = event]
    /\ UNCHANGED client

Receive(r) ==
    /\ client[r] = "reading" /\ buffer[r] > 0
    /\ buffer' = [buffer EXCEPT ![r] = @ - 1]
    /\ UNCHANGED <<semaphore, metrics, client, last, pool, backend, stage, left, log>>

\* The connection breaks: the handler is dropped and the receiver with it.
Disconnect(r) ==
    /\ client[r] = "reading" /\ stage[r] # "new"
    /\ client' = [client EXCEPT ![r] = "gone"]
    /\ buffer' = [buffer EXCEPT ![r] = 0]
    /\ UNCHANGED <<semaphore, metrics, last, pool, backend, stage, left, log>>

\* Every sender is dropped: those of the task and its closure, and the one
\* in a thread's progress callback.
Closed(r) == stage[r] \in {"done", "failed"} /\ \A t \in Threads : callback[t] # r

\* recv() returns None: the stream ends, or the JSON response is made.
EndOfStream(r) ==
    /\ client[r] = "reading" /\ buffer[r] = 0 /\ Closed(r)
    /\ client' = [client EXCEPT ![r] = "answered"]
    /\ UNCHANGED <<semaphore, metrics, buffer, last, pool, backend, stage, left, log>>

---------------------------------------------------------------------------
(* Admission: run_inference up to request_started *)

\* The first permits places of the queue own the free permits.
FreePermit == permits > Len(queue)
Assigned(r) == \E i \in 1 .. Len(queue) : i <= permits /\ queue[i] = r
Without(q, x) == RemoveAt(q, CHOOSE i \in DOMAIN q : q[i] = x)
Leave(r) == Without(queue, r)

\* InferenceMetrics::request_started.
RequestStarted ==
    /\ active_requests' = active_requests + 1
    /\ peak_concurrent' = IF active_requests + 1 > peak_concurrent
                          THEN active_requests + 1 ELSE peak_concurrent

\* try_acquire, or join the requests that wait.
Arrive(r) ==
    /\ stage[r] = "new" /\ Cardinality(Come) < MaxClients
    /\ \/ /\ FreePermit
          /\ permits' = permits - 1
          /\ RequestStarted
          /\ Goto(r, "admitted")
          /\ UNCHANGED waiting_count
       \/ /\ ~FreePermit
          /\ waiting_count' = waiting_count + 1
          /\ Goto(r, "notice")
          /\ UNCHANGED <<permits, active_requests, peak_concurrent>>
    /\ UNCHANGED <<queue, total_requests, channel, pool, backend, left, log>>

\* Send the Queue event, then (again) wait in acquire() for a second.
Notice(r) ==
    /\ stage[r] = "notice"
    /\ Send(r, "queue")
    /\ queue' = Append(queue, r)
    /\ Goto(r, "waiting")
    /\ UNCHANGED <<permits, metrics, pool, backend, left, log>>

\* MUTANT: the request stays in its loop without going back to the queue.
Timeout_Forgets(r) ==
    /\ stage[r] = "waiting" /\ r \in ToSet(queue) /\ ~Assigned(r)
    /\ queue' = Leave(r)
    /\ UNCHANGED <<permits, metrics, channel, pool, backend, stage, left, log>>

\* The second is over: the acquire future is dropped, and its place with it.
Timeout(r) ==
    /\ stage[r] = "waiting" /\ ~Assigned(r)
    /\ queue' = Leave(r)
    /\ Goto(r, "notice")
    /\ UNCHANGED <<permits, metrics, channel, pool, backend, left, log>>

Admit(r) ==
    /\ stage[r] = "waiting" /\ Assigned(r)
    /\ permits' = permits - 1
    /\ queue' = Leave(r)
    /\ waiting_count' = waiting_count - 1
    /\ RequestStarted
    /\ Goto(r, "admitted")
    /\ UNCHANGED <<total_requests, channel, pool, backend, left, log>>

---------------------------------------------------------------------------
(* The task before and after its closure *)

\* Tokenise the prompt and open the session file; or fail on the prompt,
\* which may be impossible to tokenise or produce no tokens.
Prepare(r) ==
    /\ stage[r] = "admitted"
    /\ \/ Goto(r, "aborted") /\ UNCHANGED log
       \/ Goto(r, "greeting") /\ Flush(r, "prefilling")
    /\ UNCHANGED <<semaphore, metrics, channel, pool, backend, left>>

\* Send MessageStart and hand the closure to the blocking pool.
Greet(r) ==
    /\ stage[r] = "greeting"
    /\ Send(r, "start")
    /\ Goto(r, "spawned")
    /\ UNCHANGED <<semaphore, metrics, pool, backend, left, log>>

\* MUTANT: the permit is given back by request_completed's caller only.
ReturnErr_KeepsPermit(r) ==
    /\ stage[r] = "aborted"
    /\ Goto(r, "erring")
    /\ UNCHANGED <<semaphore, metrics, channel, pool, backend, left, log>>
\* run_inference returns Err: the permit is dropped.
ReturnErr(r) ==
    /\ stage[r] = "aborted"
    /\ permits' = permits + 1
    /\ Goto(r, "erring")
    /\ UNCHANGED <<queue, metrics, channel, pool, backend, left, log>>

\* The spawned task sends the Error event and ends.
ReportError(r) ==
    /\ stage[r] = "erring"
    /\ Send(r, "error")
    /\ Goto(r, "failed")
    /\ UNCHANGED <<semaphore, metrics, pool, backend, left, log>>

\* request_completed, the final session log, and the task ends.
ReturnOk(r) ==
    /\ stage[r] = "returned"
    /\ permits' = permits + 1
    /\ active_requests' = active_requests - 1
    /\ total_requests' = total_requests + 1
    /\ Flush(r, "complete")
    /\ Goto(r, "done")
    /\ UNCHANGED <<queue, waiting_count, peak_concurrent, channel, pool, backend, left>>

---------------------------------------------------------------------------
(* The closure *)

Idle(t) == (\A r \in Requests : thread[r] # t) /\ (\A e \in Embeds : job[e].thread # t)

\* MUTANT: a callback the thread already has is not replaced.
Begin_KeepsCallback(r, t) ==
    /\ stage[r] = "spawned" /\ Idle(t)
    /\ thread' = [thread EXCEPT ![r] = t]
    /\ callback' = [callback EXCEPT ![t] = IF @ = None THEN r ELSE @]
    /\ Goto(r, "begun")
    /\ UNCHANGED <<semaphore, metrics, channel, backend, left, log>>
\* A thread takes the closure, which installs its progress callback.
Begin(r, t) ==
    /\ stage[r] = "spawned" /\ Idle(t)
    /\ thread' = [thread EXCEPT ![r] = t]
    /\ callback' = [callback EXCEPT ![t] = r]
    /\ Goto(r, "begun")
    /\ UNCHANGED <<semaphore, metrics, channel, backend, left, log>>

\* The closure returns an error or unwinds, as lock().unwrap() does once the
\* mutex is poisoned.  A callback stays behind in the thread.
Abort(r) ==
    /\ thread' = [thread EXCEPT ![r] = None]
    /\ Goto(r, "aborted")
    /\ UNCHANGED callback

Prefill(r) ==
    /\ stage[r] = "begun"
    /\ \/ /\ poisoned
          /\ Abort(r)
          /\ UNCHANGED <<lock, left>>
       \/ /\ ~poisoned /\ lock = None
          /\ lock' = r
          /\ left' = [left EXCEPT ![r] = MaxReports]
          /\ Goto(r, "prefill")
          /\ UNCHANGED pool
    /\ UNCHANGED <<semaphore, metrics, channel, poisoned, log>>

\* prefill_progress::report: whatever callback the thread has is called, with
\* the backend locked.
Report(r) ==
    /\ stage[r] = "prefill" /\ left[r] > 0
    /\ LET q == callback[thread[r]] IN IF q = None THEN UNCHANGED channel ELSE Send(q, "progress")
    /\ left' = [left EXCEPT ![r] = @ - 1]
    /\ UNCHANGED <<semaphore, metrics, pool, backend, stage, log>>

\* MUTANT: the callback is left installed.
PrefillOk_KeepsCallback(r) ==
    /\ stage[r] = "prefill"
    /\ lock' = None
    /\ Flush(r, "decoding")
    /\ left' = [left EXCEPT ![r] = MaxSteps]
    /\ Goto(r, "first")
    /\ UNCHANGED <<semaphore, metrics, channel, pool, poisoned>>
\* prefill returns (with fewer reports than MaxReports, if it is short).
PrefillOk(r) ==
    /\ stage[r] = "prefill"
    /\ lock' = None
    /\ callback' = [callback EXCEPT ![thread[r]] = None]
    /\ Flush(r, "decoding")
    /\ left' = [left EXCEPT ![r] = MaxSteps]
    /\ Goto(r, "first")
    /\ UNCHANGED <<semaphore, metrics, channel, thread, poisoned>>

PrefillFails(r, panics) ==
    /\ stage[r] = "prefill"
    /\ lock' = None
    /\ poisoned' = (poisoned \/ panics)
    /\ Abort(r)
    /\ UNCHANGED <<semaphore, metrics, channel, left, log>>

\* The events of one token, if it has any (kept as one event).
SendToken(r) == Send(r, "delta") \/ UNCHANGED channel

\* The first token; end of text, or no more tokens wanted, ends it.
First(r) ==
    /\ stage[r] = "first"
    /\ SendToken(r)
    /\ \/ Goto(r, "closing")
       \/ left[r] > 0 /\ Goto(r, "decode")
    /\ UNCHANGED <<semaphore, metrics, pool, backend, left, log>>

\* decode_next, which returns a token, an error or panics.
Decode(r) ==
    /\ stage[r] = "decode"
    /\ \/ /\ poisoned
          /\ Abort(r)
          /\ UNCHANGED <<poisoned, left>>
       \/ /\ ~poisoned /\ lock = None
          /\ \/ /\ Goto(r, "emit")
                /\ left' = [left EXCEPT ![r] = @ - 1]
                /\ UNCHANGED <<pool, poisoned>>
             \/ /\ \E panics \in BOOLEAN : poisoned' = panics
                /\ Abort(r)
                /\ UNCHANGED left
    /\ UNCHANGED <<semaphore, metrics, channel, lock, log>>

\* The token's events are sent.  An end of text, a stop sequence or the last
\* step ends the loop; so does, on a plain token, a client that is gone.
Emit(r) ==
    /\ stage[r] = "emit"
    /\ SendToken(r)
    /\ \/ /\ Goto(r, "closing")
          /\ UNCHANGED thread
       \/ /\ left[r] > 0
          /\ Goto(r, "decode")
          /\ UNCHANGED thread
       \/ /\ client[r] = "gone"
          /\ thread' = [thread EXCEPT ![r] = None]
          /\ Goto(r, "returned")
    /\ UNCHANGED <<semaphore, metrics, callback, backend, left, log>>

\* The closing events (kept as one); the closure returns.
Close(r) ==
    /\ stage[r] = "closing"
    /\ Send(r, "stop")
    /\ thread' = [thread EXCEPT ![r] = None]
    /\ Goto(r, "returned")
    /\ UNCHANGED <<semaphore, metrics, callback, backend, left, log>>

\* An idle thread exits; its thread-locals are dropped.
ThreadExit(t) ==
    /\ Idle(t) /\ callback[t] # None
    /\ callback' = [callback EXCEPT ![t] = None]
    /\ UNCHANGED <<semaphore, metrics, channel, thread, backend, stage, left, log>>

---------------------------------------------------------------------------
(* Embeddings: a permit of their own, a closure on the same threads *)

Answer(j) == [j EXCEPT !.stage = "done", !.client = "answered"]

\* The handler answers at once (disabled, bad format, nothing to embed) or
\* awaits the permit.
EmbedArrive(e) ==
    /\ job[e].stage = "new" /\ Cardinality(Come) < MaxClients
    /\ \/ job' = [job EXCEPT ![e] = Answer(@)] /\ UNCHANGED embed
       \/ job' = [job EXCEPT ![e].stage = "waiting"] /\ embed' = [embed EXCEPT !.queue = Append(@, e)]

\* With the permit the texts are tokenised, which may fail, and the closure
\* is handed to the blocking pool.
EmbedAdmit(e) ==
    /\ job[e].stage = "waiting" /\ embed.permits > 0 /\ Head(embed.queue) = e
    /\ \/ /\ job' = [job EXCEPT ![e] = Answer(@)]
          /\ embed' = [embed EXCEPT !.queue = Tail(@)]
       \/ /\ job' = [job EXCEPT ![e].stage = "spawned"]
          /\ embed' = [embed EXCEPT !.queue = Tail(@), !.permits = @ - 1]

EmbedBegin(e, t) ==
    /\ job[e].stage = "spawned" /\ Idle(t)
    /\ job' = [job EXCEPT ![e].stage = "begun", ![e].thread = t]
    /\ UNCHANGED embed

\* lock().unwrap(): the closure of a client that left may still have the lock.
EmbedLock(e) ==
    /\ job[e].stage = "begun"
    /\ \/ /\ embed.poisoned
          /\ job' = [job EXCEPT ![e].stage = "ended", ![e].thread = None]
          /\ UNCHANGED embed
       \/ /\ ~embed.poisoned /\ embed.lock = None
          /\ job' = [job EXCEPT ![e].stage = "computing"]
          /\ embed' = [embed EXCEPT !.lock = e]

\* The embeddings are computed, one fails, or it panics.
EmbedCompute(e) ==
    /\ job[e].stage = "computing"
    /\ job' = [job EXCEPT ![e].stage = "ended", ![e].thread = None]
    /\ \E panics \in BOOLEAN : embed' = [embed EXCEPT !.lock = None, !.poisoned = panics]

\* The handler answers, whatever the closure's end, and drops its permit.
EmbedReply(e) ==
    /\ job[e].stage = "ended" /\ job[e].client = "reading"
    /\ job' = [job EXCEPT ![e] = Answer(@)]
    /\ embed' = [embed EXCEPT !.permits = @ + 1]

\* The handler is dropped, its place in the queue or its permit with it; the
\* closure goes on.
EmbedLeave(e) ==
    /\ job[e].stage \notin {"new", "done"} /\ job[e].client = "reading"
    /\ \/ /\ job[e].stage = "waiting"
          /\ job' = [job EXCEPT ![e].client = "gone", ![e].stage = "done"]
          /\ embed' = [embed EXCEPT !.queue = Without(@, e)]
       \/ /\ job[e].stage # "waiting"
          /\ job' = [job EXCEPT ![e].client = "gone"]
          /\ embed' = [embed EXCEPT !.permits = @ + 1]

---------------------------------------------------------------------------
\* What the server does for an admitted request.
Step(r) ==
    \/ Prepare(r) \/ Greet(r)
    \/ \E t \in Threads : Begin(r, t)
    \/ Prefill(r) \/ Report(r) \/ PrefillOk(r)
    \/ \E panics \in BOOLEAN : PrefillFails(r, panics)
    \/ First(r) \/ Decode(r) \/ Emit(r) \/ Close(r)
    \/ ReturnErr(r) \/ ReportError(r) \/ ReturnOk(r)

\* An embedding's step towards its answer.
EmbedStep(e) ==
    \/ EmbedAdmit(e) \/ \E t \in Threads : EmbedBegin(e, t)
    \/ EmbedLock(e) \/ EmbedCompute(e) \/ EmbedReply(e)

ForMessages(A) == A /\ UNCHANGED endpoint
ForEmbeddings(A) == A /\ UNCHANGED messages

Next ==
    \/ ForMessages(\/ \E r \in Requests :
                         \/ Arrive(r) \/ Notice(r) \/ Timeout(r) \/ Admit(r)
                         \/ Step(r)
                         \/ Receive(r) \/ Disconnect(r) \/ EndOfStream(r)
                   \/ \E t \in Threads : ThreadExit(t))
    \/ ForEmbeddings(\E e \in Embeds : EmbedArrive(e) \/ EmbedStep(e) \/ EmbedLeave(e))

Spec == Init /\ [][Next]_vars

\* The runtime polls what is ready, threads run, and a client that stays
\* keeps reading (the JSON path's handler does; a streaming client might not).
Fairness ==
    /\ \A r \in Requests :
           /\ WF_vars(ForMessages(Notice(r))) /\ WF_vars(ForMessages(Admit(r)))
           /\ WF_vars(ForMessages(Step(r)))
           /\ WF_vars(ForMessages(Receive(r))) /\ WF_vars(ForMessages(EndOfStream(r)))
    /\ \A t \in Threads : WF_vars(ForMessages(ThreadExit(t)))
    /\ \A e \in Embeds : WF_vars(ForEmbeddings(EmbedStep(e)))

FairSpec == Spec /\ Fairness

---------------------------------------------------------------------------
(* Properties *)

Holding == {"admitted", "greeting", "spawned", "begun", "prefill", "first", "decode",
            "emit", "closing", "returned", "aborted"}
Queued == {"notice", "waiting"}

In(S) == {r \in Requests : stage[r] \in S}

\* Whatever way a request ends, its permit comes back, once; so does that of an
\* embedding, with its handler, and not with the closure that goes on without it.
\* The queue position shown to clients and in /v1/metrics counts the requests that
\* wait for a permit, also while they are between two turns in the semaphore's
\* queue, and each of those is in that queue once or about to enter it.
Holders == {e \in Embeds : job[e].client = "reading" /\ job[e].stage \notin {"new", "waiting"}}
PermitsConserved ==
    /\ permits + Cardinality(In(Holding)) = MaxConcurrent
    /\ embed.permits + Cardinality(Holders) = 1
    /\ waiting_count = Cardinality(In(Queued))
    /\ In({"waiting"}) = ToSet(queue)
    /\ Len(queue) = Cardinality(In({"waiting"}))

\* Progress goes to the request being prefilled, and nothing is reported on
\* behalf of a request once its prefill is over: a running closure never sees
\* the callback an earlier one left in its thread.
OwnProgress ==
    \A r \in Requests : thread[r] # None =>
        callback[thread[r]] = IF stage[r] \in {"begun", "prefill"} THEN r ELSE None

\* A client that read its stream to the end was told how it ended, and nothing
\* followed the event that told it.
StreamConcluded ==
    /\ [](\A r \in Requests : client[r] = "answered" => last[r] \in {"stop", "error"})
    /\ [][\A r \in Requests : last[r] \in {"stop", "error"} => last'[r] = last[r]]_vars

\* Every client is answered, unless it leaves; a request that queues is not
\* forgotten, whoever fails, panics or disconnects before it.
EveryoneAnswered ==
    /\ \A r \in Requests : stage[r] # "new" ~> client[r] # "reading"
    /\ \A e \in Embeds : job[e].stage # "new" ~> job[e].client # "reading"
==============================================================================
