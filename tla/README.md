# herbert-rs in TLA+

Specifications of [herbert-rs](../src/README.md), a Rust engine that runs large
language models on CPUs and GPUs, with a command line, an HTTP server and a
desktop application. The specifications are about what is hard to test in it:
threads that meet at a condition variable, requests that queue, fail and lose
their clients, streams that may end anywhere, caches that are cut and compacted
while tokens are drawn from them, buffers that are read and written by kernels
in many forms. Numbers are not modelled, but for the probabilities of one draft token:
where the code computes, a value is the expression that made it, and two values are equal
if they were made alike.

TLC checks every property on small instances. TLAPS proves the safety of the thread
pool, of the server's requests and streams, of the desktop application, of the chat, of
speculative decoding, of the prefix cache and of forward passes for every value of the
constants: any number of threads, requests, tokens, messages, drafts or layers. See Proofs.

## The system

| Component | State | Operations | Hard because | Module |
|---|---|---|---|---|
| thread pool (`thread_pool.rs`, `execution_phase.rs`) | dispatch slot and its waiters, published job, generation, completion count, recorded panic, shutdown | `parallel_for*`, `set_dispatch_priority`, `worker_loop`, `Drop` | three condition variables, raw pointer to the caller's closure, panics, hand-off by priority | `ThreadPool`, `ParallelFor`, `ThreadPoolProofs` |
| server requests (`handlers.rs`, `scheduler.rs`, `inference.rs`, `metrics.rs`, `prefill_progress.rs`, `session_log.rs`) | semaphore, counters, one channel per request, thread-local callback, backend mutex, session file | `messages_handler`, `run_inference`, its blocking closure | async task, blocking thread and client interleave; early returns, poisoning, disconnects, a timeout that gives up its place | `Requests` |
| server content blocks (`handlers.rs`, `sse.rs`) | flags of the decode loop, block index, collected JSON | one token, the fallbacks, the closing events | any token may come anywhere; the response may end anywhere | `SseStream` |
| server embeddings (`handlers.rs`) | one permit, one mutex | `embeddings_handler` | permit and mutex have different lifetimes when the client leaves | `Requests` |
| KV cache (`kv_cache.rs`), H2O eviction (`h2o.rs`) | cached positions per layer, `seq_len`, importance scores | append, truncate, snapshot, restore, evict | eviction and rollback in the same step; positions after eviction | `KvCache` (not snapshot, restore) |
| speculative decoding (`speculative.rs`, `eagle3_speculative.rs`) | two KV caches | draft, verify, accept, roll back | caches must stay in step for every number of accepted tokens; what is accepted and redrawn must have the target's probabilities | `Speculation`, `Decoding`, `RejectionSampling` |
| prefix cache on disk (`prefix_cache.rs`) | index in memory, files shared by processes | lookup, load, save, evict | two processes, or two threads of a `ConcurrentBackend`; crashes; the same temporary file | `PrefixCache` |
| weight cache (`weight_cache.rs`) | one file per model | load, save | the same protocol without eviction | not modelled |
| shared prefix cache (`shared_prefix_cache.rs`) | LRU entries, memory total | lookup, insert, evict | nothing uses it | not modelled |
| CPU backend (`cpu_backend.rs`, `generic_model.rs`, `position_ids.rs`) | the caches above | prefill (6 paths), decode, verify, truncate, embed | which path saves what, position ids, layers out of step | `ForwardPass`, `KvCache`, `PrefixCache` |
| layers (`generic_layer.rs`, `generic_attention/`) | a layer's cache: keys and values, convolution window, recurrent state | forward in prefill, in two phases, in decode | two buffers in turn, chunks, state that cannot be cut | `ForwardPass` |
| kernels (`backend_q4`, `backend_bf16*`, `backend_int8_avx512`, `kernels.rs`, `linear_ops.rs`) | rows, tiles and groups of matrices | products, attention, norms, by SIMD level and fused form | edges of tiles and groups; raw pointers in parallel closures | `Q4Kernels`, `RowKernels`, `AttentionKernels`, `NormKernels`, `Kernels` |
| mixture of experts (`generic_moe.rs`, `expert_pool.rs`) | usage counts | route, decode, three prefills | sorting, regrouping and scattering | `ExpertKernels`, `Kernels` |
| vision (`encoder.rs`, `pixtral.rs`, `image_process.rs`) | patches of an image | patchify, encode, merge | three loops that must agree on an order | `VisionKernels`, `Kernels` |
| sampling utilities (`sampler.rs`, `decode_utils.rs`) | thinking budget, recent tokens | `ThinkBudget`, `detect_repetition_loop` | off-by-one automata | `Chat` (not the sampler) |
| desktop (`src-tauri`, `useChat.ts`, `useVision.ts`) | generating and cancel flags, conversation files, encoded images; the window's active conversation | commands, and the window's awaits between them | read-modify-write of files by concurrent commands, state reread after an await | `Desktop` |
| chat (`chat.rs`, `tools/`) | one KV cache kept across turns, think budget | turns, images, tool rounds, `/clear`, `/think` | what the cache holds depends on how the last reply ended | `Chat` |
| command line (`main.rs`) | one KV cache | three decode loops | | `Speculation` |
| Metal, Vulkan, loading, profiling | | | GPU APIs, start-up | not modelled |

How they interact: the server hands each admitted request to a thread of tokio's
blocking pool, which calls the backend under one mutex (`GpuServerBackend`); the
backend runs its layers as `parallel_for` calls on the global thread pool, with
the dispatch priority the request's thread was given; prefill reports progress
through a thread-local callback that sends to the request's channel; the decode
loop turns tokens into events on the same channel, which the client (or the JSON
path of the handler) reads. Embeddings have a backend and a permit of their own, but run on the
same blocking threads. The backend keeps KV caches and consults the prefix
caches at prefill. Several requests are inside their closures at once (as many as
there are permits), but each backend call holds the mutex.

What makes each part correct is what its module's properties say, below; the
hazards they are aimed at are listed with their lines in `PROJECT.json`.

## Modules

### ThreadPool and ParallelFor

`ParallelFor` is the contract (the comment on `thread_pool.rs` 452-470): a call
over n items attempts each item exactly once while the call is open, returns when
nothing is left, and reports a panic exactly if an attempt of this call panicked.

`ThreadPool` is the code. An action is a critical section: from the lock to the
unlock, or to the wait of a condition variable. A caller goes `idle`, `acquire`
(`PriorityDispatcher::acquire`), `queued`/`woken` (asleep in it, or woken and not
yet through the mutex), `publish`, `await`/`awake` (the loop on `done_cv`),
`release` (the guard's drop) and back; a call for a single worker runs in the
caller (`inline`). A worker goes `check` (its critical section), `wait`, `run` (the
closure, outside the lock), `done`, `exited`. `notify_*` moves the threads that
wait; `SpuriousCaller` and `SpuriousWorker` wake any of them at any time. A panic of
a closure is a choice, caught in the worker (`catch_unwind`) and recorded by
`WorkerDone`; in an inline call it unwinds.

Three abstractions keep the state finite while callers call for ever, and lose
nothing: `fresh` is the set of workers with `seen_generation # generation`;
`ahead[c]` the waiters with an older ticket than c's; `hits` and `failed` are
history, what a caller's items went through in the open call. The execution phase
is one process-wide flag that other requests change at any time, so a
phase-aware call may get either cap.

* `TypeOK`, with `completed <= NumWorkers`: proved.
* `NoUseAfterReturn`: a running closure's caller is still waiting, in the call that
  published it. This is the lifetime argument for the raw pointer in `ParallelJob`.
* `OneCoordinator`, `SlotAccounted`: one holder of the dispatch slot, also between
  a hand-over and the wakeup; the slot is taken exactly while it has a holder.
* `NoLostWakeup`: nobody sleeps on a condition that holds.
* `CompletionAccounted`: while a job is awaited, completed + pending = active; when
  none is, no worker owes a completion, so none can disturb the next job.
* `ImplementsParallelFor`: refinement of the contract.
* `NoOvertaking`: the slot goes by priority, then by arrival.
* `TopPriorityCallsReturn`, `DropEnds`: liveness. Only the highest priority is sure to
  be served, by design.

### Requests

One action per piece of `run_inference` and its closure between two points where
they may wait: an await, the backend's lock, a send to a full channel, the model's
own work. `stage` is the place of a request: `notice`/`waiting` (queue loop),
`admitted`, `greeting`, `spawned`, then in the closure `begun`, `prefill`, `first`,
`decode`, `emit`, `closing`, then `returned` (closure returned Ok) or `aborted`
(anything that failed), `erring` (error event to be sent), `done` or `failed`. The
semaphore, the channel, the blocking pool and the client are external and modelled
as the code uses them: the semaphore is FIFO and reserves a released permit for the
first in its queue, a dropped receiver makes sends fail, an idle blocking thread
may exit and drop its thread-locals. Prefill and decode may return an error or
panic; a panic poisons the backend's mutex and every later lock panics.

A request for embeddings (`embed`, `job`) waits in the one-permit semaphore of
`EmbedState`, hands its closure to the same blocking threads and awaits it. When its
client leaves, the handler is dropped and the permit with it; the closure goes on, so
that the next request may wait for the mutex on a thread instead.

* `PermitsConserved`: whatever way a request ends, its permit comes back once, of
  either semaphore; the queue counter is the number of requests that queue, each of
  which is in the semaphore's queue once, or about to enter it again.
* `OwnProgress`: progress is reported to the request being prefilled, although a
  thread may still hold the callback of an earlier request: a prefill that fails does
  not clear it (`handlers.rs` 689), and its client's stream stays open until the thread
  is used again or exits.
* `StreamConcluded`: a client that reads to the end is told how the response ended,
  and nothing follows what told it.
* `EveryoneAnswered` (liveness): a client that stays is answered.

### SseStream

One action per kind of token the decode loop tells apart, with the decode loop's
flags, `Finish` for everything after the loop, and two receivers folded over the
events: a client of the streaming Messages API (blocks numbered from 0, one open
at a time, deltas of the open block's kind) and the JSON path's collecting loop.
Texts are counted, not spelled: whether a token decodes to something, and whether
it completes a `<tool_call>` element.

* `WellClosed`: however the response ends, every block is closed, there is one, and
  `stop_reason` is `tool_use` exactly if a tool call was sent.
* `OrderlyIfDisciplined`, `JsonAgrees`: for a model that opens no tool call while
  thinking, and does not think amid text, the events are well formed, and the JSON
  response has the same blocks with all their text.
  For other models they are not: see Divergences.

### KvCache, Speculation and Decoding

`Decoding` is what decoding does to the text, with a draft or without: every token is
drawn given the text before it, all of it and nothing else. With which probability is the
subject of `RejectionSampling`.

`KvCache` has the operations of the CPU backend on the cache of a sequence. An entry
is a token, the position it was rotated to, and `sound`: whether the pass that made
it saw what a computation from scratch would have seen. `Feed` is a forward pass: keys are
appended, then a prefill (or verification) lets the i-th token see the first
`seq_len + i` entries, a decode step all of them; the recurrent layers of a hybrid
model fold the tokens, with their positions, into `state`. `TruncateKv` is the rollback, `Kept`, `Gather`
and `Evictions` are H2O. Attention layers are all treated alike, so one stands for
them; `flat` is the copy in BF16 that `PrefixCache` saves.

`Speculation` is the decode loop of the command line over these caches, in its three
forms: `Decode`; `BeginDraft`, `Draft`, `Verify`, `Accept`/`Reject`/`Bonus`,
`Rollback` with a draft model; and the same with `BeginEagle` for an EAGLE-3 head,
which reads the current token with a decode step before it drafts. `Emit` prints one
token and may end the text in the middle of a step. `setup` is the command line and
the model: chosen at the start and constant. Probabilities are left out here: which token
is preferred, and whether a draft token is accepted, may be anything (`RejectionSampling`
narrows it), so what is said is which text each token was drawn given (`given`).

* `DrawnInContextIfDense`: refinement of `Decoding`, without eviction, for dense models
  and for any model without a draft. For the others see Divergences.
* `Coherent`, in four parts. `InAgreement`: layers, flat copy and `seq_len` agree.
  `NoRejectedToken`: between steps the target's cache holds the text but its last
  token, or a subsequence of it after evictions, but for an EAGLE-3 head with a budget.
  `PositionsAscend`: keys keep increasing positions, with RoPE only as long as nothing is
  evicted; with MRoPE the next position is the place in the text, also after rejections and
  evictions. `DraftFollows`: the draft's cache holds tokens that the target's holds, in
  order, and so none that was rejected. That the draft's is as long as the target's, as a
  comment asks, is not said: see Divergences, also for what the other parts leave out.
* `WithinBudget`: a decode step leaves no more than budget and hysteresis, or than is
  protected, and never evicts the token it just read.

### RejectionSampling

It extends `Speculation` with the odds of a setup: the distributions p of the target and q of
the draft, over the tokens each knows, the same for every text, or left open. With odds a
token is what they allow: `SampledInit`, `SampledDecode` and `SampleBonus` draw from p,
`Propose` takes the most likely token of q, `AcceptDraft` accepts with probability
min(1, p/q), `Resample` draws from the residual max(0, p - q), or from p when nothing is
left of it. Probabilities are whole numbers of a `Certain`-th, so that comparisons are
exact. A draft model and a target share their tokens' numbers up to the smaller
vocabulary; a head has a vocabulary of its own, which is mapped to the target's.

* `TargetsTokens`. `ExactIfSampled`: for a proposal drawn from q, accepting and redrawing give
  every token the probability p gives it: what the comment of `speculative.rs` rests on. For
  heads of any vocabulary, and drafts that know all of the target's tokens; the others'
  residual stops at the draft's last token. `PossibleOnly`: no token is printed that the
  target would never give.
* `Lossless`, for the proposal the code makes, fails: see Findings.

### ForwardPass

One layer of a pass at a time. `Prefill`, `ContinuePrefill`, `DecodeNext`,
`VerifyDraft`, `PrefillVl`, `Embedding` and `EmbedAll` are the operations of
`CpuBackend` that start a pass, `OtherPrefill` the forms of `GenericModel` that have
callers elsewhere; `LayerStep` runs the next layer from one buffer into the other,
`LayerFails` is a layer that returns an error, `Finish` takes the rows out and counts
them in the cache; `TruncateKv` and `Drop` come between passes. A row is the expression
that computed it: an attention layer's names the rows it saw and their angles, in order;
a convolution's the window; a DeltaNet's all that were folded into the state. `text` is
history, and `abs` is the same cache as `KvCache` keeps it. `KvCache` knows what a recurrent
layer folded by tokens and positions: behind an attention layer its input depends on both,
and after a rollback the token may be right and the position wrong.

* `ImplementsKvCache`: in mid-pass, the layers that have run hold the new entries and
  the others do not; between passes every layer holds what `KvCache`, whose single layer
  stands for all of them in the other modules, says it does.
* `RowsFromScratch`: the last rows are those of one pass over the whole text, after
  chunks, drafts, rollbacks and images, wherever `KvCache` calls the entries sound.

### Chat

`chat.rs` after its first line is read: `AskText`, `AskVision`, `Clear`, `ThinkCommand`,
`NoThink` between replies, `StartReply`, `DecodeStep` and `EndReply` for a reply,
`ToolRound` for its tools. A token is known by its role and its bytes, the cache by the
pieces of template, messages and replies that were fed to it. The check for repetitions is
a choice of the command line (`repeat_check`), as is disabled thinking.

* `CacheIsConversation`: the cache is the conversation, rendered once, whatever ended
  the replies: a reply cut short is closed by `<|im_end|>` before the next turn, one
  that was not is not. Conversations with disabled thinking are left out: see
  Divergences.
* `PrintedOnce`: what is printed is the reply's text up to a tool call, each character
  once and whole.
* `ThinkBounded`: a thought is never longer than the budget.
* `ToolsAnswered`: a reply that calls tools is answered, with a result for each call,
  unless the turn has had its rounds, and no other reply is. Replies with `[TOOL_CALLS]`
  are left out: see Divergences.

### Kernels and the modules it extends

A call (one product, attention, mixture of experts, norm or image) is a sequence of
phases; a phase is a `parallel_for`, each of whose workers stores what its range of the
kernel's code stores (`Work`), in any order; `Join` begins the next phase when all
have. `ThreadPool` says how a pool does that. `Q4Kernels`, `RowKernels`, `AttentionKernels`,
`ExpertKernels`, `NormKernels` and `VisionKernels` are pure: for a range, the set of
cells a kernel stores and the symbolic value of each, with the loops over tiles, groups,
lanes and remainders written as index sets; `Kernels` has the plans, that is which
kernel a call comes to for each kind of weight, SIMD level, size and backend.

* `OneWriter`: no two workers of a phase store to one cell. Their closures share the
  output as a raw pointer, which nothing else protects.
* `ProductsExact`, `AttentionExact`, `ExpertsExact`, `NormsExact`, `VisionExact`: what is
  in memory at the end is, cell by cell, what a definition without tiles or order says:
  every term once, with its own scale, weight, position and rotation. Sums are sets or
  bags of terms, unless the code's grouping shows in the result: bytes that the AVX2 form
  sums by pairs are `InPairs`.
  `ExpertsExact` says of a bias what `route_token` does, that it has a say in the choice of
  experts and not in their weights; whether it is added to the output is left open: see
  Divergences.
* `GatedQueriesKept` fails: see Findings.

### PrefixCache

Processes that share the directory of one model prefill prompts. `Lookup` and
`Prefill` are one call of `CpuBackend::prefill`, cut where another process may
change the directory: between finding a file and reading it. `Prefill` computes the
cache with the operators of `KvCache`: from nothing in chunks (`Prefilled`), or from
what was loaded (`Loaded`, then `Resumed`). A miss saves the system's prefix and the
prompt cut to the checkpoint interval, each by `Skip`, or `Create`, `Write` twice,
`Rename` and `Enter` (index, eviction); any call may fail (`SaveFails`), any process
may end anywhere (`Crash`) and start again from the files (`Start`). In the other
half of the instances (`concurrent`) the two are threads of one process with a
`ConcurrentBackend`: they share the index behind a mutex, which a lookup, a load and
each save take one after the other (`Locked`), and die together. (No binary gives the
server a cache directory, so this is a path of the library today.)

A file is named by its tokens instead of their hash. Its content is a header and an
entry per token; a process with a temporary file open goes on writing to it at its
own offset when another has truncated it, or has renamed it to its final name, as the
code's `File::create` does. `raced` is history: the names that two processes were
saving at once. For these the code does publish a file with holes, until the writer
that is behind has caught up, and for good if that one fails; its index entry, "already
cached", keeps it from being replaced. The properties say what holds for the others.

* `Published`: a file under its final name is whole, whatever crashed, failed or was
  evicted.
* `RecomputedIfDense`: the cache after a prefill (tokens, positions, layers, flat copy,
  `seq_len`, `text_pos`) is what a prefill from nothing gives, after a partial hit, an
  exact hit, a file that vanished or one that did not load. It is for BF16 caches of
  models without recurrent layers; for the others see Divergences.
* `LongestHit`: a process uses the longest prefix that it knows and that is there.
* `WithinMaxSize`: after a save the files a process knows are within the limit, also
  when some that it would evict are gone. The limit is per process: files that another
  has saved meanwhile are not counted by the code either.

### Desktop

The window is one JavaScript thread, so its functions run from one await to the next
without interruption; commands run in parallel on the runtime of the Rust side, and
are cut between their accesses to the files and the application's state. One record
per call of `sendMessage` goes through the window's function and the commands it
awaits: `add` to `added` (`add_message`), `list`, `gen` to `leave` (`generate`), `done`
to `relist`, `ended`. Two such calls overlap, because `modelStore.generating` is set
after the first await only, and is cleared by whichever ends first. `save_conversation`
is two steps, since `fs::write` empties the file first: a reader in between fails to
parse it, and two writers leave a mixture. It may fail before it opens the file, which is
then as it was, or later, which leaves the file empty or half written (`spoilt`, history):
`AddFails`, `AnswerFails` and `CreateFails` also stand for a file that is not read.
`add_message` returns the error; `generate` drops it and answers Ok. Deleting unlinks a file that a writer may
have open. An encoding goes `prepare`, `encode`, `store`, `stored`; `remove_image` is
its two critical sections. The model's mutex is left out of encodings, which it only
delays; what the window displays is left out.

`overlapped` is history: the conversations that one command was changing (between
its load and its save) while another did. There the code does lose messages, and a
deleted conversation may come back.

* `Kept`: for the others, the file holds every message whose saving succeeded, once and in
  order, or does not load any more, after a save that failed half-way; a deleted
  conversation stays deleted. That an answer generate reports is saved is not said: see
  Divergences.
* `FlagsAccounted`: "Already generating" is said exactly while one generation runs, or
  has panicked: every other way out of `generate` gives the flag back. The window
  waits only while a send is under way.
* `StoppedIfAsked`: a generation is stopped by a request that was executed while it ran.
* `ReadyIsStored`: an image the window offers to send has its embedding, or is being
  sent or removed.

## Runs

| Run | Instance | Shows |
|---|---|---|
| `thread_pool` | 2 callers, 3 workers, calls of 1 or 4 items, caps 2 and 3 | the safety properties and the refinement |
| `thread_pool_fair` | 3 callers of 3 priorities, 2 workers | order of service and liveness |
| `requests` | 2 requests for completions, 2 for embeddings, 1 permit for each kind, 2 threads, channel of 1 | safety, action properties and liveness |
| `sse_stream` | responses of up to 8 tokens | the properties of the stream |
| `speculation` | 3 tokens, prompt of 2, 3 tokens asked for, drafts of 0 to 2, budgets 0, 1, 3; all pairs of distributions in quarters, drafts of 2 and 3 tokens, heads that know any of the 3 | the properties of the loop, its caches and the distribution of a step |
| `lossless` | the pairs of distributions, drafts of 3 tokens | a finding |
| `prefix_cache` | 2 processes or threads, prompts of 2 and 3 tokens, system prefix of 1, chunks of 2, room for 4 entries | the properties of the directory and of prefill |
| `desktop` | 2 sends, 2 conversations, a click or an image | the properties of the desktop application |
| `forward_pass` | 5 kinds of models of 2 or 3 layers, 2 tokens, texts of 5 rows, chunks of up to 2, contexts of 4 | the properties of passes over layers |
| `chat` | 5 models, 2 turns, replies of 4 tokens, 1 tool round | the properties of the chat |
| `kernels` | every call of `MCKernels`, pools of 1 to 3 workers | the results of the kernels |
| `gated_query` | gated attention of 1, 2 or 4 heads and 1 or 2 rows | a finding |

Why the bounds are enough. Pool: four items for three workers gives an empty range to the last
one; a cap of two leaves a worker inactive, so that it sleeps through jobs; two callers contend
and hand over, three make one overtake another. Priority 12 is there for the clamp to 9.
Requests: of two
requests of a kind one waits while the other runs, fails or leaves, and gets its permit; two
threads, so that one is reused with the callback of an earlier request while an embedding has
the other; a channel of one event is full as soon as it can be; one report and one decode step
reach every branch of the loops. Two completions that run at once would need a second permit:
the safety properties are proved for any number of requests and permits. Streams: eight tokens
open and close every kind of block twice. Speculation: three tokens are enough to accept,
reject and resample the same or another, and in quarters for ties, certain and impossible
tokens, an empty residual (p = q), and drafts with a token less or more; three tokens asked
for give two steps at least, after every outcome of the first; one sink and one recent entry
leave one entry to choose under a budget of 3, with a hysteresis of 1 that is exceeded within
the run, and a budget of 1 is below what is protected; contexts of 4 end in a decode step of
the target or the draft and in a verification. Both cache formats are there, one with each
position encoding, since nothing relates the two. Prefix cache: the three files are of 2 and 3 entries,
two of which make 5 and exceed the limit of 4, so that every second save evicts; one prompt is a
checkpoint, which makes exact hits, and the other goes on from it. The state constraint `Bound`
lets each process prefill twice while no name is raced, and once when one is or with MRoPE,
whose caches differ in their positions only; processes are symmetric. Desktop: two sends overlap
in every way (the second is refused, runs after, or adds its message during the first one's
generation); one click selects, creates or deletes a conversation at any point of either; one
image is dropped, removed, cleared or sent at any point. `Bound` keeps images apart
from clicks, stops and failed saves: no action of the ones reads what the others write, but for
sends, which any of them may end early. One conversation at most is spoilt by a failed save, since
one that fails to load ends a send before it generates. Calls and conversations are symmetric. Forward
passes: three attention layers leave the result in the second buffer and use the first twice,
models of two in the first; one model has two RoPE tables, one images whose features go to a
layer, and two begin with recurrent layers, one of each kind (two convolutions, so that one
reads the rows of another); five rows are a prompt, a chunk's border, a draft and a rollback.
`MaxFolded` of 4 bounds what a recurrent state has seen, which rollbacks do not shorten: the
context and one draft more. Chat: four tokens hold a character of three, a pattern of two
repeated, a think block longer than its budget of two, or a tool call; two turns follow each
other after each way a reply ends. Kernels: tiles of 4 rows for 32, scale groups of 4 columns
for 32, K-groups of 2 for 4, blocks of 2 input rows for 32, and as small ones for the rest, with
matrices of whole tiles and groups, of short ones, of more tiles than workers and of fewer; the
calls leave out those that the code does not support (fused Q4 kernels without SIMD, see
Observations). MoE: scores that tie, experts without tokens and more experts than workers.
Images: two windows side by side, two above each other, one alone.

Deadlock is not checked, but in `forward_pass`, where a pass can always begin or be
dropped: all callers may stay idle, a dropped pool stops, and a server whose requests have
ended has nothing to do, a decode loop is done or has failed, processes stop prefilling at
their bound, a window is idle when its calls have ended, a chat ends, and a kernel's call is
over. That nothing stops early is what the liveness properties say.

Fairness. `ThreadPool`: weak fairness of every thread's steps, which is what an
operating system gives runnable threads; closures terminate; calls and spurious
wakeups are never assumed. `Requests`: weak fairness of the runtime's tasks and
threads, of idle threads to exit (tokio ends them after a keep-alive), and of a
client that stays to read. The last one is needed: events are sent with
`blocking_send` while the backend is locked (`handlers.rs` 661), so a client that
neither reads nor leaves stalls the server. No fairness is given to the queue's
timeout, to errors, or to disconnects. The other modules are about safety only.

## Proofs

For each of eight components a module `...Proofs` extends the component's and proves, with
no bound on its constants, that an inductive invariant holds (`Inductive`) and what
follows from it. TLC has checked every inductive invariant on the component's run before.
The assumptions are those the specifications state of their constants, no others:
finitely many requests, positive capacities, `None` apart from the rest, a window of
recent entries that is not empty (`h2o.rs` 21), a prompt within the context, prompts that
are not empty, recurrent layers of one kind in a model (`config.rs` 336).

| Module | Theorems about the runs' properties | Also |
|---|---|---|
| `ThreadPoolProofs` | `TypeCorrect`, `Exclusive`, `Completion`, `Awake`, `SafeClosures`, `Implements` (`ImplementsParallelFor`), `InOrder` (`NoOvertaking`) | `EveryItemOnce` |
| `RequestsProofs` | `PermitsAreConserved`, `ProgressIsOwn`, `StreamIsConcluded` | `TypeCorrect` |
| `SseStreamProofs` | `EventsAreOrderly`, `BlocksAreClosed`, `JsonIsTheStream` | |
| `DesktopProofs` | `MessagesAreKept`, `FlagsAreAccounted`, `OnlyAskedStop`, `ReadyImagesAreStored` | `TypeCorrect` |
| `ChatProofs` | `ChatRemembers`, `ThinkIsBounded`, `ToolsAreAnswered`, `RepliesArePrinted` (`PrintedOnce`) | |
| `SpeculationProofs` | `DrawnInItsContext` (`DrawnInContextIfDense`), `CachesAreCoherent`, `BudgetIsKept` | |
| `PrefixCacheProofs` | `FilesAreWhole` (`Published`), `HitsAreRecomputed` (`RecomputedIfDense`), `HitsAreLongest` (`LongestHit`), `SavesAreWithinLimit` (`WithinMaxSize`) | `TypeCorrect`, `IndexIsKept` |
| `ForwardPassProofs` | `PassesImplementKvCache` (`ImplementsKvCache`), `RowsAreFromScratch` (`RowsFromScratch`) | `CachesAgree` (the invariant) |

All have one plan: a part of the invariant for each idea, one lemma for each part with a
step for each action, `StepIInv` (or `InvStep`) to combine them, one temporal step.

**Thread pool.** That a finished job leaves nothing behind rests on what descriptors the
threads hold; that they hold the published one rests on there being one coordinator; that
there is one rests on the books of the dispatcher; and the type of the completion count
rests on the account of the completions. `IInv` is their conjunction with `JobsInPlace`
(the descriptor of an open call is well formed and its own) and `WorkersInPlace` (an
awaiting caller's job is the published one, a busy worker's too).
`ItemsAccounted` adds the items: those of an awaited call that were attempted are all but
the ones in the range of a worker that has not looked at the job or is in its closure, and
the call has failed if the panic is on record or in a worker that has yet to record it.
With `ChunksCover` and `ChunksApart` (`div_ceil` leaves no item out and gives none twice)
each step of the pool is then one of `ParallelFor` or unseen by it (`StepImplements`).
`TicketsInOrder` is what `NoOvertaking` needs: of two waiters one is ahead.

**Requests.** `Accounts` and `EmbedAccounts` count both semaphores: free permits and
requests at the places that hold one make the total. A step takes at most one request
from one place to another, so one lemma about cardinalities (`AccountsMove`) serves every
action.
`QueueInPlace` says who is in the queue, once each; this is what makes a permit that is
released reach somebody. `ThreadsInPlace` says that running closures have threads of their
own, with their own callback while their prefill runs. `Told` ties a stream's last event
to the place of its request.

**Content blocks.** The loop sends several events for a token, and up to any number of tool
blocks at once, so what events do to the two receivers is proved first (`AfterBoth`,
`AfterToolUses`, by induction over their number). `Sent` holds for any model: nothing but
the current block is open, and only while a flag says so; `WellClosed` at the end follows.
`InPlace` holds for disciplined ones: the flags say what is open on both receivers, and
that these agree so far.

**Desktop.** `Flags`: who generates, and that a request to stop is meant for it;
`FilesInPlace`: a command that changes a conversation alone holds in its copy what was
saved and finds the file as it left it, and a file that a failed save has left behind does
not load, so nobody has a copy of it; `ImagesInPlace`; `IdsInPlace`: an id that was
never a file's is known to the click that creates it only. The last part came out of a
proof attempt: in the model, not in the code (an id is the time in milliseconds), a deleted
id could be created again, with three clicks, which no run had.

**Chat.** `LastMessage` says what the last message is at every place of the program: that
`last_stop` is how it ended is what decides whether the next turn closes it, and so what
`CacheIsConversation` rests on. What is fed to the cache is shown to be what rendering the
longer conversation adds (`FlattenAppend`, by induction over its pieces). `InBlock` ties the
budget's counter to the reply's tokens. `RepliesArePrinted`: a longer reply has more bytes
(`BytesGrow`), and decodes to the same text up to a character that is not whole yet
(`TextGrows`); so a character is shown in the step of the token that ends it and never again,
and `PrintedNext` adds what one token shows to what was printed. A special token has no bytes,
which is an assumption on the vocabulary.

**Speculative decoding.** `Text` is what the target should have read. `TargetMoves` says
that a step leaves its cache alone, reads one token, reads the draft, or cuts back, and what
each does to `Text`; `Emit` moves a token from one side of `output \o final` to the other.
The parts: `Places` (lengths of the locals), `Agreement`, `Starts` and `Reads` (without
eviction the cache holds the text, with it a part), `Sounds` (every entry is as computed
from scratch, where nothing was rejected from a recurrent state), `Givens` (what each
vector of logits and each token not yet printed is drawn given), `Ahead` (positions),
`Lags` (the draft's cache, also in mid-step, where it has read all but the last of what it
drafted), and `WithinBudget`. About the operators of `KvCache`: `FeedExact`,
`FeedFaithful`, `TruncExact`, `TruncFaithful`, `EvictFacts`; for eviction, that a set of
places can be listed in order and the list is `Nth` (`ListExists`, `NthListed`), so that
what is gathered is a part of what was there (`IsPart`). `IsPart` is carried through
reading, cutting and evicting (`PartExtend`, `PartConcat`, `PartTrans`). `DrawnInItsContext`
refines `Decoding`: each token that is printed was drawn given all tokens before it.

**Prefix cache.** `Alone` is the heart of it: unless a name was raced, who has its file
open has the temporary one, and nobody else has. With `Planned` (what is saved are cuts of
the prompt, from the cache computed for it) and `Drafted` (how far a temporary file has
got) what `rename` publishes is whole. The index takes no part in that: an entry that is stale
or missing costs time only. That the cuts of one prefill are the prefills of the cuts
(`FlatOfPrefix`) holds for recurrent models too, with a convolution that forgets at each
chunk: chunks are counted from the start. `PrefilledComputes`, by induction over chunks, and
`ResumedSame` say what a prefill and a hit leave; without a recurrent state a cache is
determined by its text (`SameCache`), so the two agree. `NoFileStep` serves every step
that touches no file, crashes included.
`IndexInv` is about the index and rests on the above: `Indexed` (every index has the longest
names first, and the size of a whole file for every name that was not raced), `Lengths` (a file
is as long as its name says, a temporary one as what was written) and `Fresh`. So the first
entry with a file is the longest (`HitStep`). For the limit, take of the files that are left the
one used longest ago: an eviction stops there because what remains, which includes all the
others, fits (`EvictedFits`, by an injection from what is in the files to what the index counts).
An attempt at this proof found a fault in the model: entries were sorted by `SortSeq`, which is
defined for strict orders only, while names may be equally long and be used at the same time;
now by insertion (`Insert`, `Longest`), which keeps equals in order as the code's `sort_by` does.

**Forward passes.** `ImplementsKvCache` says what every layer holds, but `RowsFromScratch` is
not inductive: the rows of the last layer are good because the cache of every layer is, and that
because the rows before each layer were. `Inv` says all of it at once, for the cache between
passes and with the layers that have run in mid-pass. `Good` marks the places where rows are
those from scratch: where `KvCache` calls the entry sound, or wherever, if all layers are
attention. Its parts: `TextOk`; `KvOk` and `CopyOk` (form of the cache and of the history
`abs`); `Parts` and `PassOk` (the text is what is cached, what the pass has and what waits for
its chunk; which pass keeps, is bidirectional, reads the main angles); `InputOk` (the input of
the next layer is the output of the one before, from scratch, where good); `DataOk` (entry j of
an attention layer is made from row j of the layer before); `StateOk` (a recurrent layer holds
the rows before it, where `Current`: the last entry is sound and no draft ran ahead); `Ahead`
and `FirstOk`, which carry that through rollbacks. `AttentionStepped`, `ConvStepped` and
`DeltaStepped` are one layer of each kind, `LayerInv` any layer in any of the four forms of a
pass; `StartInv` and `BeginInv` begin any pass, `AdvanceInv` ends one and begins the next chunk,
`CutCopy`, `CutData` and `CutAll` are the rollback. They rest on `Causal` (the rows from scratch
of a text do not depend on what follows them, so they may be kept), and on `FedSound` (when
`Feed` calls an entry sound). An attempt at this proof found a fault in the model: `KvCache`
knew a recurrent state by its tokens only, which does not tell the rows of a layer behind
attention apart after a rollback; now by tokens and positions.

**Induction.** The library's induction theorems take the predicate as a parameter, which no
installed prover can instantiate. `SetInduction` is induction for a set of numbers instead,
from the well-foundedness of the order of the numbers; the inductions above use it, and
the modules that need it state it. `SpeculationProofs` and `PrefixCacheProofs` each have the
lemmas about the operators of `KvCache` that they need.

Some definitions were put in a form that can be reasoned about, with the same meaning:
counts of an expression by `Cardinality`, records of calls changed by one `EXCEPT`
(`Put`), events of a token as a sequence that is folded by a recursive function
(`SseStream`), `Gather` by `Nth` instead of sorting and `IF` instead of `CASE` (`KvCache`),
the rendered conversation as pieces and decoding by `FlattenSeq` (`Chat`), chunks by a
recursive function, `Put` by its values, sizes by `Cardinality` and the evicted files by what
would be left without those before them (`PrefixCache`), prompts and rows from scratch by
recursive functions, the chunks that wait as the rest of the prompt, and a pass as a record
with all its fields (`ForwardPass`).

Only model-checked:

* liveness (`TopPriorityCallsReturn`, `DropEnds`, `EveryoneAnswered`), which is out of the
  prover's reach;
* the kernels (`OneWriter`, `ProductsExact`, `AttentionExact`, `ExpertsExact`, `NormsExact`,
  `VisionExact`): they compare what loops over tiles and groups compute with a definition, by
  division, sorting and folds, at bounds that are named above;
* `TargetsTokens`: sums over the tokens.

## Findings

Gated attention loses queries (`gated_query`). A gated projection makes, for each token
and head, a query and a gate; the prefill takes the gates out and then moves the
queries together in place, "in reverse order (safe: dst <= src)"
(`generic_attention/prefill/mod.rs` 63-70). Moving to lower places is safe in forward order
only. From three items of token and head on, an item is overwritten before it is moved;
with two tokens of two heads, the second head of the first token attends with the query
of the first head of the second. Phase A (373-379) and decode (`decode.rs` 42-46) have
the same loop.

Speculation is not lossless (`lossless`). "The output distribution is mathematically
identical to target-only generation" (`speculative.rs` 5-6, `eagle3_speculative.rs` 5):
accepting with min(1, p/q) and redrawing from max(0, p - q) give the target's distribution
if the proposal is drawn from q (`ExactIfSampled`). What is proposed is `output.token`
(128-136), the most likely token (`generic_model.rs` 689-694), and so it is with a head
(`eagle3.rs` 474-483). With equal models, p = q, the target's favourite is accepted always.

## Divergences

Met while modelling; the properties are stated for what does hold, and leave these out.

* `speculative.rs` 5-6 calls speculation lossless (see also Findings). `truncate_kv` (`cpu_backend.rs` 527-543)
  cannot cut the state of recurrent layers: a rejected draft token stays in it.
* `speculative.rs` 96: "Both KV caches must be at the same sequence position". After a step
  that accepts all k drafted tokens the target keeps k + 1 entries of it and the draft k
  (128-136, 205-211): it was never fed the last, and stays a position behind.
* `eagle3_speculative.rs` 242: "Keep: current_token + accepted draft tokens". With a budget
  `decode_next` may evict in the same step (`cpu_backend.rs` 453-460); the length to keep, from
  before it, then lies beyond the cache, and `truncate_kv` (533) leaves the rejected tokens.
* `h2o.rs` 337 says positions are absolute after an eviction. A RoPE decode takes the next one
  from `seq_len` (`generic_model.rs` 530), which the eviction has shortened.
* `prefix_cache.rs` 3-5 promises what a prefill would compute, for BF16 (26). Nothing checks
  the format: a quantised cache, the command line's default, is saved as zeros (396) and
  loaded into nothing, but counts as cached.
* A tool call opened in a thought, or a thought amid text, starts a block under the index
  of the open one (`handlers.rs` 835, 906).
* `main.rs` 1276: the loop for one prompt decodes two tokens at a time for "correct join
  behavior"; a character split over three is never joined. The chat decodes whole replies.
* `avx2_q4_kernels.S` 25, "no saturation risk", holds for nibbles; the AVX2 form for bytes
  (`backend_q4/src/kernels.rs` 451, and the odd group of the VNNI form, 367) can saturate.
* `metrics.rs` 22, "Currently active inference requests": the only place that takes a request
  off is after a success (`handlers.rs` 1154), so one that fails is counted ever after.
* `useChat.ts` 59 reloads the conversation "to get the saved assistant message".
  `save_assistant_message` does nothing if the file does not load (`generate.rs` 389) and
  drops the error of a failed save (409): generate answers Ok with an answer in no file.
* `chat.rs` 561, 581 and 798 and `main.rs` 146 and 685: disabled thinking prefills an empty
  `<think></think>`. No template does (`main.rs` 260-297, `chat.rs` 364-383); what is set is a
  budget of one token, which lets the model open its block and closes it.
* `chat.rs` 1174: the detection of tool calls begins with "Mistral [TOOL_CALLS]". The chain
  (1176-1223) has the other three steps; such a call is muted (176-182) and found only if it
  holds a JSON object with the name of a tool.
* `generic_moe.rs` 29: the expert bias is "added after MoE output". `route_token` adds it "for
  selection only" (195), and nothing to the output.

## Observations

What a reader of the code may want to know; none contradicts its documentation.

* Chat: after a reply that ends by itself the cache has no `<|im_end|>` before the next
  turn; turns after the first are ChatML for Mistral3 too; `&result[..200]` (`chat.rs` 1243) panics inside a character (`ToolPanics`).
* Passes: embedding passes of a model with two RoPE tables use the main one in every layer;
  a convolution's prefill starts from an empty window for each chunk;
  `prefill_with_token_decomposed` has no caller.
* Kernels: the parallel fused Q4 kernels store nothing on a CPU with neither AVX2 nor
  AVX-512, while the others have a scalar form; SIMD forms need `k` in multiples of 4, the
  fused ones of 32, which nothing checks; more than 8 heads to a key head, or 8 experts to
  a token, panic.
* Mixture of experts: the order in which a decode step sums experts depends on how often
  other requests used them, so its rounding does.
* The pool's mutexes, the index's and the backends' are poisoned by a panic, and
  `.lock().unwrap()` panics from then on; in `PrefixCache` this is left out.

## Not modelled

* Metal and Vulkan: the order of their effects is decided in shaders and drivers outside
  the Rust code.
* Model loading, configuration, prompts and JSON types, authentication: sequential code
  over strings and files, run once.
* The weight cache: the protocol of `PrefixCache` with a single reader, at start-up.
* The shared prefix cache, with snapshot and restore: nothing creates one.
* The sampler, activation functions, resizing of images: numbers.
* Profiling: changes no state that the program depends on.
* In the thread pool: pinning, statistics and `configure_global_pool`; in the desktop
  application: loading models, settings, export, titles and what is displayed.

## Plan

What would come next: of the kernels, that no two workers write the same place (`OneWriter`),
which follows from how rows are given to chunks (`ChunksApart`); the weight cache, with the
operators of `PrefixCache`; snapshots, once something uses them.
