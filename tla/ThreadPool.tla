------------------------------ MODULE ThreadPool ------------------------------
(***************************************************************************)
(* The persistent worker pool every CPU kernel runs on                     *)
(* (src/crates/backends/backend_common/src/thread_pool.rs).                *)
(*                                                                         *)
(* Callers (inference threads) and workers interleave at the mutexes: a    *)
(* critical section, from the lock to the unlock or to the wait of a       *)
(* condition variable, is one action; a closure running outside the lock   *)
(* is an interval between two actions.  The threads in a condition         *)
(* variable's wait set are those whose pc says so; a notify moves them on, *)
(* and so may a spurious wakeup at any time.                               *)
(*                                                                         *)
(* Two counters are kept as the order they decide: `fresh` holds the       *)
(* workers whose seen_generation differs from generation (both are u64 and *)
(* the counter never comes round), `ahead[c]` the queued callers with a    *)
(* smaller ticket than c's.  So the state space is finite although callers *)
(* call for ever.                                                          *)
(***************************************************************************)
EXTENDS Integers, FiniteSets

CONSTANTS Callers,     \* threads that call parallel_for
          NumWorkers,  \* num_workers of the pool
          MaxTotal,    \* bound: no call has more items than this
          Totals,      \* the item counts of the calls
          Caps,        \* explicit max_workers arguments
          Priorities,  \* arguments of set_dispatch_priority
          Panics,      \* how closures may end: subset of BOOLEAN, TRUE = by a panic
          DecodeCap,   \* PhaseConfig::decode_max_workers, 0 = no cap
          None

Workers == 0 .. NumWorkers - 1

ASSUME PoolAssumption ==
    /\ NumWorkers \in Nat \ {0}
    /\ MaxTotal \in Nat \ {0}
    /\ Totals \subseteq 1 .. MaxTotal
    /\ Caps \subseteq Nat
    /\ Priorities \subseteq Nat
    /\ Panics \subseteq BOOLEAN
    /\ DecodeCap \in Nat
    /\ None \notin Callers
    /\ None \notin Nat

VARIABLES
    priority,      \* priority[c]: c's thread-local DISPATCH_PRIORITY
    \* DispatchState
    active,        \* a parallel_for is executing
    waiters,       \* callers with an entry in the waiters vector
    ahead,         \* ahead[c]: waiters with a smaller ticket than c's
    serving,       \* the caller whose ticket release chose, or None
    \* SharedState
    shutdown,
    fresh,         \* workers that have not seen the current generation
    current_job,   \* the last published descriptor, never cleared, or None
    completed,     \* completed_workers
    panic,         \* worker id of the recorded panic, or None
    \* the threads
    pc, job,       \* callers: place in parallel_for, descriptor of the call
    wpc, wjob,     \* workers: place in worker_loop, copied descriptor
    wfail,         \* wfail[w]: catch_unwind caught a panic of w's closure
    joined,        \* Drop has joined the workers
    \* what a caller observes (history)
    hits, failed, outcome

dispatcher == <<active, waiters, ahead, serving>>
shared == <<shutdown, fresh, current_job, completed, panic>>
callerVars == <<pc, job>>
workerVars == <<wpc, wjob, wfail>>
history == <<hits, failed, outcome>>
vars == <<priority, dispatcher, shared, callerVars, workerVars, joined, history>>

---------------------------------------------------------------------------
(* The descriptor of a call *)

Least(a, b) == IF a < b THEN a ELSE b
Most(a, b) == IF a < b THEN b ELSE a

Items == 0 .. MaxTotal - 1
Untouched == [i \in Items |-> 0]

\* effective_max_workers of execution_phase.rs.  The phase is one global that
\* every request sets at its own prefill and decode boundaries, so a call may
\* read either value of it whatever phase its own request is in.
EffectiveMaxWorkers ==
    {NumWorkers, IF DecodeCap = 0 THEN NumWorkers ELSE Least(DecodeCap, NumWorkers)}

ActiveWorkers(total, cap) == Most(Least(Least(NumWorkers, Most(cap, 1)), total), 1)

\* usize::div_ceil
DivCeil(a, b) == (a + b - 1) \div b

\* ctx is the caller whose stack frame holds the closure.
MakeJob(c, total, cap) ==
    LET n == ActiveWorkers(total, cap)
    IN [ctx |-> c, total |-> total, active |-> n, chunk |-> DivCeil(total, n)]

NoJob == [ctx |-> None, total |-> 0, active |-> 0, chunk |-> 0]

\* MUTANT: the last worker's range is not clipped to the items it was given.
Chunk_DropsTail(j, w) == w * j.chunk .. Least((w + 1) * (j.total \div j.active), j.total) - 1
\* The items of job j that worker w is given, [start, end).
Chunk(j, w) == w * j.chunk .. Least(w * j.chunk + j.chunk, j.total) - 1

Touch(c, S) == [hits EXCEPT ![c] = [i \in Items |-> @[i] + IF i \in S THEN 1 ELSE 0]]

---------------------------------------------------------------------------
Init == /\ priority = [c \in Callers |-> 5]
        /\ active = FALSE
        /\ waiters = {}
        /\ ahead = [c \in Callers |-> {}]
        /\ serving = None
        /\ shutdown = FALSE
        /\ fresh = {}
        /\ current_job = NoJob
        /\ completed = 0
        /\ panic = None
        /\ pc = [c \in Callers |-> "idle"]
        /\ job = [c \in Callers |-> NoJob]
        /\ wpc = [w \in Workers |-> "check"]
        /\ wjob = [w \in Workers |-> NoJob]
        /\ wfail = [w \in Workers |-> FALSE]
        /\ joined = FALSE
        /\ hits = [c \in Callers |-> Untouched]
        /\ failed = [c \in Callers |-> FALSE]
        /\ outcome = [c \in Callers |-> "ok"]

---------------------------------------------------------------------------
(* Callers between calls.  The pool is borrowed while a call is open and   *)
(* owned by Drop afterwards, so nothing is called on a closing pool.       *)

\* Cap of 9: set_dispatch_priority stores priority.min(9).
SetPriority(c, p) ==
    /\ pc[c] = "idle" /\ ~shutdown
    /\ priority' = [priority EXCEPT ![c] = Least(p, 9)]
    /\ UNCHANGED <<dispatcher, shared, callerVars, workerVars, joined, history>>

\* parallel_for_with_max_workers: a job for one worker runs in the caller,
\* others go through the dispatcher.  (A call over no items only returns Ok.)
Call(c, total, cap) ==
    /\ pc[c] = "idle" /\ ~shutdown
    /\ job' = [job EXCEPT ![c] = MakeJob(c, total, cap)]
    /\ pc' = [pc EXCEPT ![c] = IF ActiveWorkers(total, cap) = 1 THEN "inline" ELSE "acquire"]
    /\ UNCHANGED <<priority, dispatcher, shared, workerVars, joined, history>>

\* f(0, 0, total_items) in the caller; a panic unwinds out of parallel_for.
RunInline(c, panics) ==
    /\ pc[c] = "inline"
    /\ pc' = [pc EXCEPT ![c] = "inlined"]
    /\ hits' = Touch(c, 0 .. job[c].total - 1)
    /\ failed' = [failed EXCEPT ![c] = panics]
    /\ UNCHANGED <<priority, dispatcher, shared, job, workerVars, joined, outcome>>

\* The call is over for its caller, which learns whether it went well.
Conclude(c, bad) ==
    /\ job' = [job EXCEPT ![c] = NoJob]
    /\ outcome' = [outcome EXCEPT ![c] = IF bad THEN "panic" ELSE "ok"]
    /\ hits' = [hits EXCEPT ![c] = Untouched]
    /\ failed' = [failed EXCEPT ![c] = FALSE]

LeaveInline(c) ==
    /\ pc[c] = "inlined"
    /\ pc' = [pc EXCEPT ![c] = "idle"]
    /\ Conclude(c, failed[c])
    /\ UNCHANGED <<priority, dispatcher, shared, workerVars, joined>>

---------------------------------------------------------------------------
(* PriorityDispatcher *)

\* acquire, first critical section: take the free slot, or push an entry
\* and go to sleep on the dispatcher's condition variable.
Acquire(c) ==
    /\ pc[c] = "acquire"
    /\ \/ /\ ~active
          /\ active' = TRUE
          /\ pc' = [pc EXCEPT ![c] = "publish"]
          /\ UNCHANGED <<waiters, ahead>>
       \/ /\ active
          /\ waiters' = waiters \cup {c}
          /\ ahead' = [ahead EXCEPT ![c] = waiters]
          /\ pc' = [pc EXCEPT ![c] = "queued"]
          /\ UNCHANGED active
    /\ UNCHANGED <<priority, serving, shared, job, workerVars, joined, history>>

\* MUTANT: the slot is taken over but the ticket stays announced.
AcquireWoken_KeepsTicket(c) ==
    /\ pc[c] = "woken"
    /\ pc' = [pc EXCEPT ![c] = IF serving = c THEN "publish" ELSE "queued"]
    /\ UNCHANGED <<priority, dispatcher, shared, job, workerVars, joined, history>>
\* acquire, after a wakeup: ours only if release announced our ticket.
AcquireWoken(c) ==
    /\ pc[c] = "woken"
    /\ \/ /\ serving = c
          /\ serving' = None
          /\ pc' = [pc EXCEPT ![c] = "publish"]
       \/ /\ serving # c
          /\ pc' = [pc EXCEPT ![c] = "queued"]
          /\ UNCHANGED serving
    /\ UNCHANGED <<priority, active, waiters, ahead, shared, job, workerVars,
                   joined, history>>

\* MUTANT: the newest entry of the best priority is served first.
Beats_Lifo(c, d) == \/ priority[c] < priority[d]
                    \/ priority[c] = priority[d] /\ d \in ahead[c]
\* The order of the keys (priority, ticket).
Beats(c, d) == \/ priority[c] < priority[d]
               \/ priority[c] = priority[d] /\ c \in ahead[d]

WakeQueued == [c \in Callers |-> IF pc[c] = "queued" THEN "woken" ELSE pc[c]]

\* MUTANT: the slot is freed as well as handed over.
Release_Frees(c) ==
    /\ pc[c] = "release"
    /\ active' = FALSE
    /\ \/ /\ waiters = {}
          /\ pc' = [pc EXCEPT ![c] = "idle"]
          /\ UNCHANGED <<waiters, ahead, serving>>
       \/ \E d \in waiters :
            /\ \A e \in waiters \ {d} : Beats(d, e)
            /\ waiters' = waiters \ {d}
            /\ ahead' = [e \in Callers |-> ahead[e] \ {d}]
            /\ serving' = d
            /\ pc' = [WakeQueued EXCEPT ![c] = "idle"]
    /\ UNCHANGED <<priority, shared, job, workerVars, joined, history>>
\* release: free the slot, or hand it to the best waiter (`active` stays
\* set, so nobody can slip in before it wakes) and wake everybody.
Release(c) ==
    /\ pc[c] = "release"
    /\ \/ /\ waiters = {}
          /\ active' = FALSE
          /\ pc' = [pc EXCEPT ![c] = "idle"]
          /\ UNCHANGED <<waiters, ahead, serving>>
       \/ \E d \in waiters :
            /\ \A e \in waiters \ {d} : Beats(d, e)
            /\ waiters' = waiters \ {d}
            /\ ahead' = [e \in Callers |-> IF e = d THEN {} ELSE ahead[e] \ {d}]
            /\ serving' = d
            /\ pc' = [WakeQueued EXCEPT ![c] = "idle"]
            /\ UNCHANGED active
    /\ UNCHANGED <<priority, shared, job, workerVars, joined, history>>

---------------------------------------------------------------------------
(* The coordinator: the caller holding the dispatch slot *)

WakeWorkers == [w \in Workers |-> IF wpc[w] = "wait" THEN "check" ELSE wpc[w]]

\* MUTANT: completed_workers keeps the count of the previous job.
Publish_KeepsCount(c) ==
    /\ pc[c] = "publish"
    /\ panic' = None
    /\ current_job' = job[c]
    /\ fresh' = Workers
    /\ wpc' = WakeWorkers
    /\ pc' = [pc EXCEPT ![c] = IF completed < job[c].active THEN "await" ELSE "awake"]
    /\ UNCHANGED <<priority, dispatcher, shutdown, completed, job, wjob, wfail,
                   joined, history>>
\* Publish the descriptor under the lock, start a generation, wake the
\* workers and, with none completed yet, sleep on done_cv.
Publish(c) ==
    /\ pc[c] = "publish"
    /\ completed' = 0
    /\ panic' = None
    /\ current_job' = job[c]
    /\ fresh' = Workers
    /\ wpc' = WakeWorkers
    /\ pc' = [pc EXCEPT ![c] = "await"]
    /\ UNCHANGED <<priority, dispatcher, shutdown, job, wjob, wfail, joined, history>>

\* After a wakeup on done_cv with workers still to complete.
AwaitAgain(c) ==
    /\ pc[c] = "awake" /\ completed < job[c].active
    /\ pc' = [pc EXCEPT ![c] = "await"]
    /\ UNCHANGED <<priority, dispatcher, shared, job, workerVars, joined, history>>

\* MUTANT: any wakeup is taken for the completion of the job.
Collect_AnyWakeup(c) ==
    /\ pc[c] = "awake"
    /\ panic' = None
    /\ pc' = [pc EXCEPT ![c] = "release"]
    /\ Conclude(c, panic # None)
    /\ UNCHANGED <<priority, dispatcher, shutdown, fresh, current_job, completed,
                   workerVars, joined>>
\* All active workers completed: take the recorded panic and return.  The
\* state lock is dropped before the dispatch guard.
Collect(c) ==
    /\ pc[c] = "awake" /\ completed >= job[c].active
    /\ panic' = None
    /\ pc' = [pc EXCEPT ![c] = "release"]
    /\ Conclude(c, panic # None)
    /\ UNCHANGED <<priority, dispatcher, shutdown, fresh, current_job, completed,
                   workerVars, joined>>

---------------------------------------------------------------------------
(* worker_loop *)

\* One pass over the worker's critical section: leave on shutdown, sleep
\* while there is nothing new, skip a job this worker is not active in, or
\* copy the descriptor and run it (an empty range completes at once).
WorkerCheck(w) ==
    /\ wpc[w] = "check"
    /\ \/ /\ shutdown
          /\ wpc' = [wpc EXCEPT ![w] = "exited"]
          /\ UNCHANGED <<fresh, wjob, wfail>>
       \/ /\ ~shutdown /\ w \notin fresh
          /\ wpc' = [wpc EXCEPT ![w] = "wait"]
          /\ UNCHANGED <<fresh, wjob, wfail>>
       \/ /\ ~shutdown /\ w \in fresh
          /\ w >= current_job.active
          /\ fresh' = fresh \ {w}
          /\ UNCHANGED workerVars
       \/ /\ ~shutdown /\ w \in fresh
          /\ w < current_job.active
          /\ fresh' = fresh \ {w}
          /\ wjob' = [wjob EXCEPT ![w] = current_job]
          /\ UNCHANGED wfail
          /\ wpc' = [wpc EXCEPT ![w] = IF Chunk(current_job, w) = {} THEN "done" ELSE "run"]
    /\ UNCHANGED <<priority, dispatcher, shutdown, current_job, completed, panic,
                   callerVars, joined, history>>

\* The closure returns or panics; catch_unwind keeps the worker alive.
WorkerRun(w, panics) ==
    /\ wpc[w] = "run"
    /\ wpc' = [wpc EXCEPT ![w] = "done"]
    /\ wfail' = [wfail EXCEPT ![w] = panics]
    /\ hits' = Touch(wjob[w].ctx, Chunk(wjob[w], w))
    /\ failed' = [failed EXCEPT ![wjob[w].ctx] = @ \/ panics]
    /\ UNCHANGED <<priority, dispatcher, shared, callerVars, wjob, joined, outcome>>

\* done_cv.notify_one, when the last active worker completed.
NotifyDone(last) ==
    IF last /\ \E c \in Callers : pc[c] = "await"
    THEN \E c \in Callers : pc[c] = "await" /\ pc' = [pc EXCEPT ![c] = "awake"]
    ELSE UNCHANGED pc

\* MUTANT: the path of a panicked closure forgets to notify.
WorkerDone_SilentPanic(w) ==
    /\ wpc[w] = "done"
    /\ panic' = IF wfail[w] /\ panic = None THEN w ELSE panic
    /\ completed' = completed + 1
    /\ NotifyDone(~wfail[w] /\ completed + 1 >= wjob[w].active)
    /\ wpc' = [wpc EXCEPT ![w] = "check"]
    /\ wjob' = [wjob EXCEPT ![w] = NoJob]
    /\ wfail' = [wfail EXCEPT ![w] = FALSE]
    /\ UNCHANGED <<priority, dispatcher, shutdown, fresh, current_job, job, joined, history>>
\* Record the first panic, count the completion, wake the coordinator.
WorkerDone(w) ==
    /\ wpc[w] = "done"
    /\ panic' = IF wfail[w] /\ panic = None THEN w ELSE panic
    /\ completed' = completed + 1
    /\ NotifyDone(completed + 1 >= wjob[w].active)
    /\ wpc' = [wpc EXCEPT ![w] = "check"]
    /\ wjob' = [wjob EXCEPT ![w] = NoJob]
    /\ wfail' = [wfail EXCEPT ![w] = FALSE]
    /\ UNCHANGED <<priority, dispatcher, shutdown, fresh, current_job, job, joined, history>>

---------------------------------------------------------------------------
(* Drop, which needs the pool unborrowed, and the condition variables *)

\* MUTANT: the sleeping workers are not told.
Drop_Silent ==
    /\ ~shutdown /\ \A c \in Callers : pc[c] = "idle"
    /\ shutdown' = TRUE
    /\ UNCHANGED <<priority, dispatcher, fresh, current_job, completed, panic,
                   callerVars, workerVars, joined, history>>
Drop ==
    /\ ~shutdown /\ \A c \in Callers : pc[c] = "idle"
    /\ shutdown' = TRUE
    /\ wpc' = WakeWorkers
    /\ UNCHANGED <<priority, dispatcher, fresh, current_job, completed, panic,
                   callerVars, wjob, wfail, joined, history>>

Join ==
    /\ shutdown /\ ~joined /\ \A w \in Workers : wpc[w] = "exited"
    /\ joined' = TRUE
    /\ UNCHANGED <<priority, dispatcher, shared, callerVars, workerVars, history>>

SpuriousCaller(c) ==
    /\ pc[c] \in {"queued", "await"}
    /\ pc' = [pc EXCEPT ![c] = IF @ = "queued" THEN "woken" ELSE "awake"]
    /\ UNCHANGED <<priority, dispatcher, shared, job, workerVars, joined, history>>

SpuriousWorker(w) ==
    /\ wpc[w] = "wait"
    /\ wpc' = [wpc EXCEPT ![w] = "check"]
    /\ UNCHANGED <<priority, dispatcher, shared, callerVars, wjob, wfail, joined,
                   history>>

---------------------------------------------------------------------------
\* What a caller with an open call does; it ends where the caller sleeps.
CallerStep(c) ==
    \/ \E panics \in Panics : RunInline(c, panics)
    \/ LeaveInline(c)
    \/ Acquire(c)
    \/ AcquireWoken(c)
    \/ Publish(c)
    \/ AwaitAgain(c)
    \/ Collect(c)
    \/ Release(c)

WorkerStep(w) ==
    \/ WorkerCheck(w)
    \/ \E panics \in Panics : WorkerRun(w, panics)
    \/ WorkerDone(w)

CallerStart(c) ==
    \/ \E p \in Priorities : SetPriority(c, p)
    \/ \E total \in Totals, cap \in Caps \cup EffectiveMaxWorkers : Call(c, total, cap)

Next == \/ \E c \in Callers : CallerStart(c) \/ CallerStep(c) \/ SpuriousCaller(c)
        \/ \E w \in Workers : WorkerStep(w) \/ SpuriousWorker(w)
        \/ Drop
        \/ Join

Spec == Init /\ [][Next]_vars

\* Every thread that is able to take its next step eventually does, and
\* closures terminate.  Nobody has to call, and no wakeup may be hoped for.
Fairness == /\ \A c \in Callers : WF_vars(CallerStep(c))
            /\ \A w \in Workers : WF_vars(WorkerStep(w))
            /\ WF_vars(Join)

FairSpec == Spec /\ Fairness

---------------------------------------------------------------------------
(* Properties *)

JobType == [ctx : Callers, total : 1 .. MaxTotal, active : 1 .. NumWorkers,
            chunk : 1 .. MaxTotal] \cup {NoJob}

CallerPCs == {"idle", "inline", "inlined", "acquire", "queued", "woken", "publish",
              "await", "awake", "release"}
WorkerPCs == {"check", "wait", "run", "done", "exited"}

\* The types, with completed_workers never above the number of workers.
TypeOK ==
    /\ priority \in [Callers -> 0 .. 9]
    /\ active \in BOOLEAN
    /\ waiters \subseteq Callers
    /\ ahead \in [Callers -> SUBSET Callers]
    /\ serving \in Callers \cup {None}
    /\ shutdown \in BOOLEAN
    /\ fresh \subseteq Workers
    /\ current_job \in JobType
    /\ completed \in 0 .. NumWorkers
    /\ panic \in Workers \cup {None}
    /\ pc \in [Callers -> CallerPCs]
    /\ job \in [Callers -> JobType]
    /\ wpc \in [Workers -> WorkerPCs]
    /\ wjob \in [Workers -> JobType]
    /\ wfail \in [Workers -> BOOLEAN]
    /\ joined \in BOOLEAN
    /\ hits \in [Callers -> [Items -> Nat]]
    /\ failed \in [Callers -> BOOLEAN]
    /\ outcome \in [Callers -> {"ok", "panic"}]

\* A worker runs a closure only while the caller whose stack frame holds it
\* is blocked waiting for the workers, in the very call that published it.
NoUseAfterReturn ==
    \A w \in Workers : wpc[w] = "run" =>
        /\ wjob[w].ctx \in Callers
        /\ pc[wjob[w].ctx] \in {"await", "awake"}
        /\ wjob[w] = job[wjob[w].ctx]

\* c has the dispatch slot, or has been handed it and has yet to wake up.
HasSlot(c) == pc[c] \in {"publish", "await", "awake", "release"} \/ serving = c

\* The pool runs one parallel_for at a time, also between a release that
\* hands the slot over and the wakeup of the caller it was handed to.
OneCoordinator == \A c, d \in Callers : HasSlot(c) /\ HasSlot(d) => c = d

\* The dispatch slot is never left taken with nobody to release it, nor free
\* while callers wait for it, and every sleeping caller is in the books.
SlotAccounted ==
    /\ active <=> \E c \in Callers : HasSlot(c)
    /\ waiters # {} => active
    /\ serving \notin waiters
    /\ \A c \in Callers : pc[c] \in {"queued", "woken"} <=> c \in waiters \/ serving = c

\* The active workers that have not completed the last published job.
Pending == {w \in Workers : /\ w < current_job.active
                            /\ w \in fresh \/ wpc[w] \in {"run", "done"}}

Awaited == \E c \in Callers : pc[c] \in {"await", "awake"} /\ job[c] = current_job

\* While a job is awaited every active worker is either counted as complete
\* or still owes its completion, each once; when none is, no worker owes one,
\* however late it wakes up and finds the descriptor of a finished job.
CompletionAccounted ==
    IF Awaited THEN completed + Cardinality(Pending) = current_job.active
               ELSE Pending = {}

\* No thread sleeps on a condition variable whose condition already holds:
\* each such state came with a notify that reached it.
NoLostWakeup ==
    /\ \A c \in Callers : /\ pc[c] = "queued" => serving # c
                          /\ pc[c] = "await" => completed < job[c].active
    /\ \A w \in Workers : wpc[w] = "wait" => w \notin fresh /\ ~shutdown

\* The slot is never handed to d over the head of a caller c that has a
\* better priority, or the same priority and an older ticket.
NoOvertaking ==
    [][\A c \in waiters : \A d \in Callers \ {c} :
           serving' = d /\ serving # d =>
               \/ priority[d] < priority[c]
               \/ priority[d] = priority[c] /\ c \notin ahead[d]]_vars

\* What the callers see is what parallel_for promises.
Promise == INSTANCE ParallelFor WITH size <- [c \in Callers |-> job[c].total]
ImplementsParallelFor == Promise!Spec

\* A call made at the highest priority returns, whatever the others keep
\* calling; one of a lower priority may be passed over for ever.
TopPriorityCallsReturn ==
    \A c \in Callers : (pc[c] # "idle" /\ priority[c] = 0) ~> pc[c] = "idle"

\* Dropping the pool ends: every worker notices the shutdown and is joined.
DropEnds == shutdown ~> joined
==============================================================================
