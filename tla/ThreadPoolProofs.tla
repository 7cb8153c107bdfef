--------------------------- MODULE ThreadPoolProofs ---------------------------
(***************************************************************************)
(* The safety of the pool, for any number of callers, workers and calls.   *)
(*                                                                         *)
(* IInv is the inductive invariant: the types, the dispatch slot (one      *)
(* holder, in the books), the descriptors the threads hold, the account of *)
(* the completions, and the sleepers.  One lemma per part shows that every *)
(* step keeps it; theorems draw the properties from it.  ItemsAccounted    *)
(* adds what was attempted of the open calls: from it every step of the    *)
(* pool is a step of the contract, or one that the callers do not see.     *)
(* Line numbers are those of thread_pool.rs.                               *)
(***************************************************************************)
EXTENDS ThreadPool, FiniteSetTheorems, TLAPS

\* The descriptor of a call that is open.
OpenJob == [ctx : Callers, total : 1 .. MaxTotal, active : 1 .. NumWorkers,
            chunk : 1 .. MaxTotal]

\* div_ceil of a count by something between 1 and the count.
LEMMA DivCeilBounds ==
    ASSUME NEW a \in Nat \ {0}, NEW b \in 1 .. a
    PROVE  /\ DivCeil(a, b) \in 1 .. a
           /\ a <= b * DivCeil(a, b)
<1> DEFINE q == (a + b - 1) \div b
           r == (a + b - 1) % b
<1>1. q \in Int /\ r \in 0 .. b - 1 /\ a + b - 1 = b * q + r
  OBVIOUS
<1>2. q >= 1
  BY <1>1
<1>3. q <= a
  BY <1>1
<1>. QED
  BY <1>1, <1>2, <1>3 DEF DivCeil

\* The descriptor of a dispatched call is well typed and has an active worker
\* for every item and no more workers than the pool (lines 484-515).
LEMMA MakeJobType ==
    ASSUME NEW c \in Callers, NEW total \in 1 .. MaxTotal, NEW cap \in Nat
    PROVE  /\ MakeJob(c, total, cap) \in OpenJob
           /\ MakeJob(c, total, cap).ctx = c
<1>1. ActiveWorkers(total, cap) \in 1 .. total /\ ActiveWorkers(total, cap) <= NumWorkers
  BY PoolAssumption DEF ActiveWorkers, Least, Most
<1>2. DivCeil(total, ActiveWorkers(total, cap)) \in 1 .. total
  BY <1>1, DivCeilBounds
<1>. QED
  BY <1>1, <1>2, PoolAssumption DEF MakeJob, OpenJob

\* "No job" is not the descriptor of an open call.
LEMMA NoJobFacts == NoJob \notin OpenJob /\ JobType = OpenJob \cup {NoJob}
  BY PoolAssumption DEF NoJob, OpenJob, JobType

\* Running items keeps the type of the items' counters.
LEMMA TouchType ==
    ASSUME hits \in [Callers -> [Items -> Nat]], NEW c \in Callers, NEW S
    PROVE  Touch(c, S) \in [Callers -> [Items -> Nat]]
  BY DEF Touch

---------------------------------------------------------------------------
(* The inductive invariant.  The properties of the runs are not inductive:  *)
(* they say nothing of the descriptors the threads hold.                   *)

\* An open call has its own descriptor.
JobsInPlace ==
    \A c \in Callers : pc[c] \notin {"idle", "release"} => job[c] \in OpenJob /\ job[c].ctx = c

\* The awaited job is the published one, and a worker holds no other.
WorkersInPlace ==
    /\ \A c \in Callers : pc[c] \in {"await", "awake"} => job[c] = current_job
    /\ \A w \in Workers : wpc[w] \in {"run", "done"} =>
           wjob[w] = current_job /\ w < current_job.active /\ w \notin fresh
    /\ shutdown => \A c \in Callers : pc[c] = "idle"

IInv == /\ TypeOK
        /\ OneCoordinator
        /\ SlotAccounted
        /\ JobsInPlace
        /\ WorkersInPlace
        /\ CompletionAccounted
        /\ NoLostWakeup

---------------------------------------------------------------------------
(* Counting the pending workers *)

\* The pending workers are finitely many, so they can be counted.
LEMMA PendingFinite == IsFiniteSet(Pending) /\ Cardinality(Pending) \in Nat
<1>1. IsFiniteSet(Workers)
  BY FS_Interval, PoolAssumption DEF Workers
<1>2. Pending \subseteq Workers
  BY DEF Pending
<1>. QED
  BY <1>1, <1>2, FS_Subset, FS_CardinalityType

\* Typing is not inductive by itself: the count of completed workers stays
\* in range because a worker that completes was pending.
LEMMA CompletionBound ==
    ASSUME IInv, NEW w \in Workers, wpc[w] = "done"
    PROVE  /\ Awaited
           /\ w \in Pending
           /\ completed + 1 <= current_job.active
           /\ current_job \in OpenJob
<1>1. w \in Pending
  BY DEF IInv, WorkersInPlace, Pending
<1>2. Awaited
  BY <1>1 DEF IInv, CompletionAccounted
<1>3. Cardinality(Pending) >= 1
  <2>1. Cardinality(Pending) # 0
    BY <1>1, PendingFinite, FS_EmptySet
  <2>. QED
    BY <2>1, PendingFinite
<1>4. current_job \in OpenJob
  BY <1>2 DEF IInv, Awaited, JobsInPlace
<1>. QED
  BY <1>1, <1>2, <1>3, <1>4, PendingFinite DEF IInv, CompletionAccounted, TypeOK, OpenJob

---------------------------------------------------------------------------
\* A new pool satisfies the invariant (ThreadPool::new, lines 379-412).
THEOREM InitIInv == Init => IInv
<1> SUFFICES ASSUME Init PROVE IInv
  OBVIOUS
<1> USE DEF Init
<1>1. TypeOK
  <2>1. NoJob \in JobType
    BY NoJobFacts
  <2>2. hits \in [Callers -> [Items -> Nat]]
    BY DEF Untouched
  <2>3. /\ pc \in [Callers -> CallerPCs] /\ wpc \in [Workers -> WorkerPCs]
        /\ ahead \in [Callers -> SUBSET Callers]
    BY DEF CallerPCs, WorkerPCs
  <2>4. job \in [Callers -> JobType] /\ wjob \in [Workers -> JobType]
    BY <2>1
  <2>5. priority \in [Callers -> 0 .. 9] /\ completed \in 0 .. NumWorkers
    BY PoolAssumption
  <2>. QED
    BY <2>1, <2>2, <2>3, <2>4, <2>5 DEF TypeOK
<1>2. OneCoordinator /\ SlotAccounted
  BY PoolAssumption DEF OneCoordinator, SlotAccounted, HasSlot
<1>3. JobsInPlace /\ WorkersInPlace /\ NoLostWakeup
  BY DEF JobsInPlace, WorkersInPlace, NoLostWakeup
<1>4. Pending = {} /\ ~Awaited
  BY DEF Pending, Awaited, Workers, NoJob
<1>. QED
  BY <1>1, <1>2, <1>3, <1>4 DEF IInv, CompletionAccounted

---------------------------------------------------------------------------
(* Typing *)

\* Every step keeps the types; only WorkerDone needs more than the types.
LEMMA StepTypeOK ==
    ASSUME IInv, Next PROVE TypeOK'
<1> USE PoolAssumption
<1>0. TypeOK
  BY DEF IInv
<1> USE <1>0 DEF TypeOK
<1>1. ASSUME NEW c \in Callers, NEW p \in Priorities, SetPriority(c, p)
      PROVE  TypeOK'
  BY <1>1 DEF SetPriority, Least, dispatcher, shared, callerVars, workerVars, history
<1>2. ASSUME NEW c \in Callers, NEW total \in Totals,
             NEW cap \in Caps \cup EffectiveMaxWorkers, Call(c, total, cap)
      PROVE  TypeOK'
  <2>1. cap \in Nat
    BY DEF EffectiveMaxWorkers, Least
  <2>2. MakeJob(c, total, cap) \in JobType
    BY <2>1, MakeJobType, NoJobFacts
  <2>. QED
    BY <1>2, <2>2 DEF Call, dispatcher, shared, workerVars, history, CallerPCs
<1>3. ASSUME NEW c \in Callers, NEW panics \in Panics, RunInline(c, panics)
      PROVE  TypeOK'
  <2>1. hits' \in [Callers -> [Items -> Nat]]
    BY <1>3, TouchType DEF RunInline
  <2>. QED
    BY <1>3, <2>1 DEF RunInline, dispatcher, shared, workerVars, CallerPCs
<1>4. ASSUME NEW c \in Callers, LeaveInline(c)
      PROVE  TypeOK'
  BY <1>4, NoJobFacts DEF LeaveInline, Conclude, dispatcher, shared, workerVars, CallerPCs, Untouched
<1>5. ASSUME NEW c \in Callers, Acquire(c)
      PROVE  TypeOK'
  BY <1>5 DEF Acquire, shared, workerVars, history, CallerPCs
<1>6. ASSUME NEW c \in Callers, AcquireWoken(c)
      PROVE  TypeOK'
  BY <1>6 DEF AcquireWoken, shared, workerVars, history, CallerPCs
<1>7. ASSUME NEW c \in Callers, Release(c)
      PROVE  TypeOK'
  <2>1. CASE waiters = {}
    BY <1>7, <2>1 DEF Release, shared, workerVars, history, CallerPCs
  <2>2. ASSUME NEW d \in waiters,
               waiters' = waiters \ {d},
               ahead' = [e \in Callers |-> IF e = d THEN {} ELSE ahead[e] \ {d}],
               serving' = d,
               pc' = [WakeQueued EXCEPT ![c] = "idle"],
               UNCHANGED <<active, priority, shared, job, workerVars, joined, history>>
        PROVE  TypeOK'
    <3>1. WakeQueued \in [Callers -> CallerPCs]
      BY DEF WakeQueued, CallerPCs
    <3>2. pc' \in [Callers -> CallerPCs]
      BY <2>2, <3>1 DEF CallerPCs
    <3>3. ahead' \in [Callers -> SUBSET Callers]
      BY <2>2
    <3>. QED
      BY <2>2, <3>2, <3>3 DEF shared, workerVars, history
  <2>. QED
    BY <1>7, <2>1, <2>2 DEF Release
<1>8. ASSUME NEW c \in Callers, Publish(c)
      PROVE  TypeOK'
  BY <1>8 DEF Publish, WakeWorkers, dispatcher, history, CallerPCs, WorkerPCs
<1>9. ASSUME NEW c \in Callers, AwaitAgain(c)
      PROVE  TypeOK'
  BY <1>9 DEF AwaitAgain, dispatcher, shared, workerVars, history, CallerPCs
<1>10. ASSUME NEW c \in Callers, Collect(c)
       PROVE  TypeOK'
  BY <1>10, NoJobFacts DEF Collect, Conclude, dispatcher, workerVars, CallerPCs, Untouched
<1>11. ASSUME NEW w \in Workers, WorkerCheck(w)
       PROVE  TypeOK'
  <2>1. wpc' \in [Workers -> WorkerPCs]
    BY <1>11 DEF WorkerCheck, workerVars, WorkerPCs
  <2>2. wjob' \in [Workers -> JobType] /\ wfail' \in [Workers -> BOOLEAN]
    BY <1>11 DEF WorkerCheck, workerVars
  <2>3. fresh' \subseteq Workers
    BY <1>11 DEF WorkerCheck
  <2>. QED
    BY <1>11, <2>1, <2>2, <2>3 DEF WorkerCheck, dispatcher, callerVars, history
<1>12. ASSUME NEW w \in Workers, NEW panics \in Panics, WorkerRun(w, panics)
       PROVE  TypeOK'
  <2>1. wjob[w].ctx \in Callers
    <3>1. w \in Pending /\ wjob[w] = current_job
      BY <1>12 DEF WorkerRun, IInv, WorkersInPlace, Pending
    <3>2. Awaited
      BY <3>1 DEF IInv, CompletionAccounted
    <3>. QED
      BY <3>1, <3>2 DEF IInv, Awaited, JobsInPlace
  <2>2. hits' \in [Callers -> [Items -> Nat]]
    BY <1>12, <2>1, TouchType DEF WorkerRun
  <2>. QED
    BY <1>12, <2>1, <2>2 DEF WorkerRun, dispatcher, shared, callerVars, WorkerPCs
<1>13. ASSUME NEW w \in Workers, WorkerDone(w)
       PROVE  TypeOK'
  <2>1. completed' \in 0 .. NumWorkers
    BY <1>13, CompletionBound DEF WorkerDone, OpenJob
  <2>2. pc' \in [Callers -> CallerPCs]
    <3>1. \/ pc' = pc
          \/ \E c \in Callers : pc' = [pc EXCEPT ![c] = "awake"]
      BY <1>13 DEF WorkerDone, NotifyDone
    <3>. QED
      BY <3>1 DEF CallerPCs
  <2>. QED
    BY <1>13, <2>1, <2>2, NoJobFacts DEF WorkerDone, dispatcher, history, WorkerPCs
<1>14. ASSUME Drop
       PROVE  TypeOK'
  BY <1>14 DEF Drop, WakeWorkers, dispatcher, callerVars, history, WorkerPCs
<1>15. ASSUME Join
       PROVE  TypeOK'
  BY <1>15 DEF Join, dispatcher, shared, callerVars, workerVars, history
<1>16. ASSUME NEW c \in Callers, SpuriousCaller(c)
       PROVE  TypeOK'
  BY <1>16 DEF SpuriousCaller, dispatcher, shared, workerVars, history, CallerPCs
<1>17. ASSUME NEW w \in Workers, SpuriousWorker(w)
       PROVE  TypeOK'
  BY <1>17 DEF SpuriousWorker, dispatcher, shared, callerVars, history, WorkerPCs
<1>. QED
  BY <1>1, <1>2, <1>3, <1>4, <1>5, <1>6, <1>7, <1>8, <1>9, <1>10, <1>11, <1>12, <1>13,
     <1>14, <1>15, <1>16, <1>17
     DEF Next, CallerStart, CallerStep, WorkerStep

---------------------------------------------------------------------------
(* The dispatch slot *)

\* A release sends its caller home, and may wake those that queue.
LEMMA ReleaseMoves ==
    ASSUME TypeOK, NEW c \in Callers, Release(c)
    PROVE  \A e \in Callers : \/ pc'[e] = pc[e]
                              \/ pc[e] = "release" /\ pc'[e] = "idle"
                              \/ pc[e] = "queued" /\ pc'[e] = "woken"
<1>1. pc[c] = "release"
  BY DEF Release
<1>2. \/ pc' = [pc EXCEPT ![c] = "idle"]
      \/ pc' = [WakeQueued EXCEPT ![c] = "idle"]
  BY DEF Release
<1>3. CASE pc' = [pc EXCEPT ![c] = "idle"]
  BY <1>1, <1>3 DEF TypeOK
<1>4. CASE pc' = [WakeQueued EXCEPT ![c] = "idle"]
  BY <1>1, <1>4 DEF WakeQueued, TypeOK
<1>. QED
  BY <1>2, <1>3, <1>4

\* A step that moves callers only within the classes the dispatcher tells
\* apart, and leaves its state alone, leaves the slot where it is.
LEMMA SlotUntouched ==
    ASSUME OneCoordinator, SlotAccounted, UNCHANGED dispatcher,
           \A c \in Callers : HasSlot(c)' <=> HasSlot(c),
           \A c \in Callers : pc'[c] \in {"queued", "woken"} <=> pc[c] \in {"queued", "woken"}
    PROVE  OneCoordinator' /\ SlotAccounted'
<1>1. OneCoordinator'
  BY DEF OneCoordinator
<1>2. SlotAccounted'
  BY DEF SlotAccounted, dispatcher
<1>. QED
  BY <1>1, <1>2

\* Every step keeps the dispatch slot with one holder and in the books.
LEMMA StepSlot ==
    ASSUME IInv, Next PROVE OneCoordinator' /\ SlotAccounted'
<1> USE PoolAssumption
<1>0. TypeOK /\ OneCoordinator /\ SlotAccounted /\ WorkersInPlace
  BY DEF IInv
<1>1. ASSUME NEW c \in Callers, NEW p \in Priorities, SetPriority(c, p)
      PROVE  OneCoordinator' /\ SlotAccounted'
  BY <1>0, <1>1, SlotUntouched DEF SetPriority, HasSlot, dispatcher, callerVars
<1>2. ASSUME NEW c \in Callers, NEW total \in Totals,
             NEW cap \in Caps \cup EffectiveMaxWorkers, Call(c, total, cap)
      PROVE  OneCoordinator' /\ SlotAccounted'
  BY <1>0, <1>2, SlotUntouched DEF Call, HasSlot, dispatcher, TypeOK
<1>3. ASSUME NEW c \in Callers, NEW panics \in Panics, RunInline(c, panics)
      PROVE  OneCoordinator' /\ SlotAccounted'
  BY <1>0, <1>3, SlotUntouched DEF RunInline, HasSlot, dispatcher, TypeOK
<1>4. ASSUME NEW c \in Callers, LeaveInline(c)
      PROVE  OneCoordinator' /\ SlotAccounted'
  BY <1>0, <1>4, SlotUntouched DEF LeaveInline, HasSlot, dispatcher, TypeOK
<1>5. ASSUME NEW c \in Callers, Acquire(c)
      PROVE  OneCoordinator' /\ SlotAccounted'
  <2>1. CASE ~active
    <3>1. \A d \in Callers : ~HasSlot(d)
      BY <1>0, <2>1 DEF SlotAccounted
    <3>2. \A d \in Callers : HasSlot(d)' <=> d = c
      BY <1>0, <1>5, <2>1, <3>1 DEF Acquire, HasSlot, TypeOK
    <3>3. OneCoordinator'
      BY <3>2 DEF OneCoordinator
    <3>4. SlotAccounted'
      BY <1>0, <1>5, <2>1, <3>2 DEF Acquire, SlotAccounted, TypeOK
    <3>. QED
      BY <3>3, <3>4
  <2>2. CASE active
    <3>1. \A d \in Callers : HasSlot(d)' <=> HasSlot(d)
      BY <1>0, <1>5, <2>2 DEF Acquire, HasSlot, TypeOK
    <3>2. serving # c
      BY <1>0, <1>5 DEF Acquire, SlotAccounted
    <3>3. OneCoordinator'
      BY <1>0, <3>1 DEF OneCoordinator
    <3>4. SlotAccounted'
      BY <1>0, <1>5, <2>2, <3>1, <3>2 DEF Acquire, SlotAccounted, TypeOK
    <3>. QED
      BY <3>3, <3>4
  <2>. QED
    BY <2>1, <2>2, <1>0 DEF TypeOK
<1>6. ASSUME NEW c \in Callers, AcquireWoken(c)
      PROVE  OneCoordinator' /\ SlotAccounted'
  <2>1. CASE serving = c
    <3>1. \A d \in Callers : HasSlot(d) <=> d = c
      BY <1>0, <2>1 DEF OneCoordinator, HasSlot
    <3>2. \A d \in Callers : HasSlot(d)' <=> d = c
      BY <1>0, <1>6, <2>1, <3>1 DEF AcquireWoken, HasSlot, TypeOK
    <3>3. OneCoordinator'
      BY <3>2 DEF OneCoordinator
    <3>4. SlotAccounted'
      BY <1>0, <1>6, <2>1, <3>1, <3>2 DEF AcquireWoken, SlotAccounted, TypeOK
    <3>. QED
      BY <3>3, <3>4
  <2>2. CASE serving # c
    BY <1>0, <1>6, <2>2, SlotUntouched DEF AcquireWoken, HasSlot, dispatcher, TypeOK
  <2>. QED
    BY <2>1, <2>2
<1>7. ASSUME NEW c \in Callers, Release(c)
      PROVE  OneCoordinator' /\ SlotAccounted'
  <2>1. /\ \A d \in Callers : HasSlot(d) <=> d = c
        /\ serving = None
    BY <1>0, <1>7 DEF Release, OneCoordinator, SlotAccounted, HasSlot, TypeOK
  <2>2. CASE waiters = {}
    <3>1. \A d \in Callers : ~HasSlot(d)'
      BY <1>0, <1>7, <2>1, <2>2 DEF Release, HasSlot, TypeOK
    <3>2. OneCoordinator'
      BY <3>1 DEF OneCoordinator
    <3>3. SlotAccounted'
      BY <1>0, <1>7, <2>1, <2>2, <3>1 DEF Release, SlotAccounted, TypeOK
    <3>. QED
      BY <3>2, <3>3
  <2>3. ASSUME NEW d \in waiters,
               waiters' = waiters \ {d},
               serving' = d,
               pc' = [WakeQueued EXCEPT ![c] = "idle"],
               UNCHANGED active
        PROVE  OneCoordinator' /\ SlotAccounted'
    <3>1. d \in Callers /\ d # c /\ pc[c] = "release"
      BY <1>0, <1>7, <2>3 DEF Release, SlotAccounted, TypeOK
    <3>2. \A e \in Callers : pc'[e] = IF e = c THEN "idle"
                                      ELSE IF pc[e] = "queued" THEN "woken" ELSE pc[e]
      BY <2>3 DEF WakeQueued
    <3>3. \A e \in Callers : HasSlot(e)' <=> e = d
      BY <1>0, <2>1, <2>3, <3>1, <3>2 DEF HasSlot
    <3>4. OneCoordinator'
      BY <3>3 DEF OneCoordinator
    <3>5. active'
      BY <1>0, <2>1, <2>3 DEF SlotAccounted
    <3>6. \A e \in Callers : pc'[e] \in {"queued", "woken"} <=> pc[e] \in {"queued", "woken"}
      BY <3>1, <3>2
    <3>7. SlotAccounted'
      BY <1>0, <2>1, <2>3, <3>1, <3>3, <3>5, <3>6 DEF SlotAccounted
    <3>. QED
      BY <3>4, <3>7
  <2>. QED
    BY <1>7, <2>2, <2>3 DEF Release
<1>8. ASSUME NEW c \in Callers, Publish(c)
      PROVE  OneCoordinator' /\ SlotAccounted'
  BY <1>0, <1>8, SlotUntouched DEF Publish, HasSlot, dispatcher, TypeOK
<1>9. ASSUME NEW c \in Callers, AwaitAgain(c)
      PROVE  OneCoordinator' /\ SlotAccounted'
  BY <1>0, <1>9, SlotUntouched DEF AwaitAgain, HasSlot, dispatcher, TypeOK
<1>10. ASSUME NEW c \in Callers, Collect(c)
       PROVE  OneCoordinator' /\ SlotAccounted'
  BY <1>0, <1>10, SlotUntouched DEF Collect, HasSlot, dispatcher, TypeOK
<1>11. ASSUME NEW w \in Workers, WorkerCheck(w)
       PROVE  OneCoordinator' /\ SlotAccounted'
  BY <1>0, <1>11, SlotUntouched DEF WorkerCheck, HasSlot, dispatcher, callerVars
<1>12. ASSUME NEW w \in Workers, NEW panics \in Panics, WorkerRun(w, panics)
       PROVE  OneCoordinator' /\ SlotAccounted'
  BY <1>0, <1>12, SlotUntouched DEF WorkerRun, HasSlot, dispatcher, callerVars
<1>13. ASSUME NEW w \in Workers, WorkerDone(w)
       PROVE  OneCoordinator' /\ SlotAccounted'
  <2>1. \A c \in Callers : pc'[c] # pc[c] => pc[c] = "await" /\ pc'[c] = "awake"
    BY <1>0, <1>13 DEF WorkerDone, NotifyDone, TypeOK
  <2>. QED
    BY <1>0, <1>13, <2>1, SlotUntouched DEF WorkerDone, HasSlot, dispatcher
<1>14. CASE Drop
  BY <1>0, <1>14, SlotUntouched DEF Drop, HasSlot, dispatcher, callerVars
<1>15. CASE Join
  BY <1>0, <1>15, SlotUntouched DEF Join, HasSlot, dispatcher, callerVars
<1>16. ASSUME NEW c \in Callers, SpuriousCaller(c)
       PROVE  OneCoordinator' /\ SlotAccounted'
  BY <1>0, <1>16, SlotUntouched DEF SpuriousCaller, HasSlot, dispatcher, TypeOK
<1>17. ASSUME NEW w \in Workers, SpuriousWorker(w)
       PROVE  OneCoordinator' /\ SlotAccounted'
  BY <1>0, <1>17, SlotUntouched DEF SpuriousWorker, HasSlot, dispatcher, callerVars
<1>. QED
  BY <1>1, <1>2, <1>3, <1>4, <1>5, <1>6, <1>7, <1>8, <1>9, <1>10, <1>11, <1>12, <1>13,
     <1>14, <1>15, <1>16, <1>17
     DEF Next, CallerStart, CallerStep, WorkerStep

---------------------------------------------------------------------------
(* The descriptors the threads hold *)

\* Nobody else is awaited while c holds the slot, and then no worker works.
LEMMA NobodyElseAwaited ==
    ASSUME IInv, NEW c \in Callers, HasSlot(c), pc[c] \notin {"await", "awake"}
    PROVE  /\ \A d \in Callers : pc[d] \notin {"await", "awake"}
           /\ \A w \in Workers : wpc[w] \notin {"run", "done"}
           /\ Pending = {}
<1>1. \A d \in Callers : pc[d] \notin {"await", "awake"}
  BY DEF IInv, OneCoordinator, HasSlot
<1>2. Pending = {}
  BY <1>1 DEF IInv, CompletionAccounted, Awaited
<1>3. \A w \in Workers : wpc[w] \notin {"run", "done"}
  BY <1>2 DEF IInv, WorkersInPlace, Pending
<1>. QED
  BY <1>1, <1>2, <1>3

\* Every step keeps the callers' and the workers' descriptors in place: an
\* awaiting caller's is the published one, and so is a busy worker's.
LEMMA StepJobs ==
    ASSUME IInv, Next PROVE JobsInPlace' /\ WorkersInPlace'
<1> USE PoolAssumption
<1>0. TypeOK /\ JobsInPlace /\ WorkersInPlace
  BY DEF IInv
<1> USE <1>0 DEF JobsInPlace, WorkersInPlace
<1>1. ASSUME NEW c \in Callers, NEW p \in Priorities, SetPriority(c, p)
      PROVE  JobsInPlace' /\ WorkersInPlace'
  BY <1>1 DEF SetPriority, shared, callerVars, workerVars
<1>2. ASSUME NEW c \in Callers, NEW total \in Totals,
             NEW cap \in Caps \cup EffectiveMaxWorkers, Call(c, total, cap)
      PROVE  JobsInPlace' /\ WorkersInPlace'
  <2>1. cap \in Nat
    BY DEF EffectiveMaxWorkers, Least
  <2>2. MakeJob(c, total, cap) \in OpenJob /\ MakeJob(c, total, cap).ctx = c
    BY <2>1, MakeJobType
  <2>. QED
    BY <1>2, <2>2 DEF Call, shared, workerVars, TypeOK
<1>3. ASSUME NEW c \in Callers, NEW panics \in Panics, RunInline(c, panics)
      PROVE  JobsInPlace' /\ WorkersInPlace'
  BY <1>3 DEF RunInline, shared, workerVars, TypeOK
<1>4. ASSUME NEW c \in Callers, LeaveInline(c)
      PROVE  JobsInPlace' /\ WorkersInPlace'
  BY <1>4 DEF LeaveInline, Conclude, shared, workerVars, TypeOK
<1>5. ASSUME NEW c \in Callers, Acquire(c)
      PROVE  JobsInPlace' /\ WorkersInPlace'
  <2>1. \A d \in Callers : \/ pc'[d] = pc[d]
                           \/ d = c /\ pc[c] = "acquire" /\ pc'[c] \in {"publish", "queued"}
    BY <1>5 DEF Acquire, TypeOK
  <2>2. pc[c] = "acquire" /\ UNCHANGED <<shared, job, workerVars>>
    BY <1>5 DEF Acquire
  <2>. QED
    BY <2>1, <2>2 DEF shared, workerVars
<1>6. ASSUME NEW c \in Callers, AcquireWoken(c)
      PROVE  JobsInPlace' /\ WorkersInPlace'
  BY <1>6 DEF AcquireWoken, shared, workerVars, TypeOK
<1>7. ASSUME NEW c \in Callers, Release(c)
      PROVE  JobsInPlace' /\ WorkersInPlace'
  <2>1. \A e \in Callers : \/ pc'[e] = pc[e]
                           \/ e = c /\ pc'[e] = "idle"
                           \/ pc[e] = "queued" /\ pc'[e] = "woken"
    BY <1>7 DEF Release, WakeQueued, TypeOK
  <2>2. pc[c] = "release" /\ UNCHANGED <<shared, job, workerVars>>
    BY <1>7 DEF Release
  <2>. QED
    BY <2>1, <2>2 DEF shared, workerVars
<1>8. ASSUME NEW c \in Callers, Publish(c)
      PROVE  JobsInPlace' /\ WorkersInPlace'
  <2>1. /\ \A d \in Callers : pc[d] \notin {"await", "awake"}
        /\ \A w \in Workers : wpc[w] \notin {"run", "done"}
    BY <1>8, NobodyElseAwaited DEF Publish, HasSlot
  <2>2. \A w \in Workers : wpc'[w] \notin {"run", "done"}
    BY <1>8, <2>1 DEF Publish, WakeWorkers
  <2>. QED
    BY <1>8, <2>1, <2>2 DEF Publish, TypeOK
<1>9. ASSUME NEW c \in Callers, AwaitAgain(c)
      PROVE  JobsInPlace' /\ WorkersInPlace'
  BY <1>9 DEF AwaitAgain, shared, workerVars, TypeOK
<1>10. ASSUME NEW c \in Callers, Collect(c)
       PROVE  JobsInPlace' /\ WorkersInPlace'
  BY <1>10 DEF Collect, Conclude, workerVars, TypeOK
<1>11. ASSUME NEW w \in Workers, WorkerCheck(w)
       PROVE  JobsInPlace' /\ WorkersInPlace'
  <2>1. \A v \in Workers : wpc'[v] \in {"run", "done"} =>
            wjob'[v] = current_job /\ v < current_job.active /\ v \notin fresh'
    BY <1>11 DEF WorkerCheck, workerVars, TypeOK
  <2>. QED
    BY <1>11, <2>1 DEF WorkerCheck, callerVars
<1>12. ASSUME NEW w \in Workers, NEW panics \in Panics, WorkerRun(w, panics)
       PROVE  JobsInPlace' /\ WorkersInPlace'
  BY <1>12 DEF WorkerRun, shared, callerVars, TypeOK
<1>13. ASSUME NEW w \in Workers, WorkerDone(w)
       PROVE  JobsInPlace' /\ WorkersInPlace'
  <2>1. \A c \in Callers : pc'[c] # pc[c] => pc[c] = "await" /\ pc'[c] = "awake"
    BY <1>13 DEF WorkerDone, NotifyDone, TypeOK
  <2>. QED
    BY <1>13, <2>1 DEF WorkerDone, TypeOK
<1>14. CASE Drop
  <2>1. \A w \in Workers : wpc'[w] \in {"run", "done"} => wpc'[w] = wpc[w]
    BY <1>14 DEF Drop, WakeWorkers
  <2>. QED
    BY <1>14, <2>1 DEF Drop, callerVars
<1>15. CASE Join
  BY <1>15 DEF Join, shared, callerVars, workerVars
<1>16. ASSUME NEW c \in Callers, SpuriousCaller(c)
       PROVE  JobsInPlace' /\ WorkersInPlace'
  BY <1>16 DEF SpuriousCaller, shared, workerVars, TypeOK
<1>17. ASSUME NEW w \in Workers, SpuriousWorker(w)
       PROVE  JobsInPlace' /\ WorkersInPlace'
  BY <1>17 DEF SpuriousWorker, shared, callerVars, TypeOK
<1>. QED
  BY <1>1, <1>2, <1>3, <1>4, <1>5, <1>6, <1>7, <1>8, <1>9, <1>10, <1>11, <1>12, <1>13,
     <1>14, <1>15, <1>16, <1>17
     DEF Next, CallerStart, CallerStep, WorkerStep

---------------------------------------------------------------------------
(* The completions *)

\* A step that changes neither who is awaited nor who is pending.
LEMMA AccountUntouched ==
    ASSUME CompletionAccounted, UNCHANGED <<current_job, completed>>,
           Awaited' <=> Awaited, Pending' = Pending
    PROVE  CompletionAccounted'
  BY DEF CompletionAccounted

\* Pending depends only on the published job, the workers that have not seen
\* it and those that are at work.
LEMMA PendingUntouched ==
    ASSUME UNCHANGED <<current_job, fresh>>,
           \A w \in Workers : wpc'[w] \in {"run", "done"} <=> wpc[w] \in {"run", "done"}
    PROVE  Pending' = Pending
  BY DEF Pending

\* Some job is awaited exactly when some caller waits for workers.
LEMMA AwaitedIs ==
    ASSUME WorkersInPlace
    PROVE  Awaited <=> \E c \in Callers : pc[c] \in {"await", "awake"}
  BY DEF WorkersInPlace, Awaited

\* A step of callers that moves none in or out of the wait for its workers.
LEMMA CallerAccount ==
    ASSUME IInv, WorkersInPlace',
           UNCHANGED <<current_job, completed, fresh, wpc>>,
           \A c \in Callers : pc'[c] \in {"await", "awake"} <=> pc[c] \in {"await", "awake"}
    PROVE  CompletionAccounted'
<1>1. Awaited' <=> \E c \in Callers : pc'[c] \in {"await", "awake"}
  BY DEF WorkersInPlace, Awaited
<1>2. Awaited' <=> Awaited
  BY <1>1, AwaitedIs DEF IInv
<1>3. Pending' = Pending
  BY PendingUntouched
<1>. QED
  BY <1>2, <1>3, AccountUntouched DEF IInv

\* Every step keeps the account of the completions.
LEMMA StepCompletion ==
    ASSUME IInv, Next, WorkersInPlace', TypeOK' PROVE CompletionAccounted'
<1> USE PoolAssumption
<1>0. TypeOK /\ WorkersInPlace /\ CompletionAccounted
  BY DEF IInv
<1>a. Awaited' <=> \E c \in Callers : pc'[c] \in {"await", "awake"}
  BY DEF WorkersInPlace, Awaited
<1>1. ASSUME NEW c \in Callers, NEW p \in Priorities, SetPriority(c, p)
      PROVE  CompletionAccounted'
  BY <1>1, CallerAccount DEF SetPriority, shared, callerVars, workerVars
<1>2. ASSUME NEW c \in Callers, NEW total \in Totals,
             NEW cap \in Caps \cup EffectiveMaxWorkers, Call(c, total, cap)
      PROVE  CompletionAccounted'
  BY <1>0, <1>2, CallerAccount DEF Call, shared, workerVars, TypeOK
<1>3. ASSUME NEW c \in Callers, NEW panics \in Panics, RunInline(c, panics)
      PROVE  CompletionAccounted'
  BY <1>0, <1>3, CallerAccount DEF RunInline, shared, workerVars, TypeOK
<1>4. ASSUME NEW c \in Callers, LeaveInline(c)
      PROVE  CompletionAccounted'
  BY <1>0, <1>4, CallerAccount DEF LeaveInline, shared, workerVars, TypeOK
<1>5. ASSUME NEW c \in Callers, Acquire(c)
      PROVE  CompletionAccounted'
  <2>1. \A d \in Callers : pc'[d] \in {"await", "awake"} <=> pc[d] \in {"await", "awake"}
    BY <1>0, <1>5 DEF Acquire, TypeOK
  <2>. QED
    BY <1>5, <2>1, CallerAccount DEF Acquire, shared, workerVars
<1>6. ASSUME NEW c \in Callers, AcquireWoken(c)
      PROVE  CompletionAccounted'
  <2>1. \A d \in Callers : pc'[d] \in {"await", "awake"} <=> pc[d] \in {"await", "awake"}
    BY <1>0, <1>6 DEF AcquireWoken, TypeOK
  <2>. QED
    BY <1>6, <2>1, CallerAccount DEF AcquireWoken, shared, workerVars
<1>7. ASSUME NEW c \in Callers, Release(c)
      PROVE  CompletionAccounted'
  <2>1. \A d \in Callers : pc'[d] \in {"await", "awake"} <=> pc[d] \in {"await", "awake"}
    <3>1. \A e \in Callers : \/ pc'[e] = pc[e]
                             \/ pc[e] = "release" /\ pc'[e] = "idle"
                             \/ pc[e] = "queued" /\ pc'[e] = "woken"
      BY <1>0, <1>7, ReleaseMoves
    <3>. QED
      BY <3>1
  <2>. QED
    BY <1>7, <2>1, CallerAccount DEF Release, shared, workerVars
<1>8. ASSUME NEW c \in Callers, Publish(c)
      PROVE  CompletionAccounted'
  <2>0. pc[c] = "publish" /\ job[c] \in OpenJob /\ current_job' = job[c]
    BY <1>8 DEF Publish, IInv, JobsInPlace
  <2>1. /\ current_job'.active \in 1 .. NumWorkers
        /\ completed' = 0
        /\ fresh' = Workers
        /\ Awaited'
    <3>1. current_job'.active \in 1 .. NumWorkers
      BY <2>0 DEF OpenJob
    <3>2. pc'[c] = "await"
      BY <1>0, <1>8 DEF Publish, TypeOK
    <3>. QED
      BY <1>8, <1>a, <3>1, <3>2 DEF Publish
  <2>2. Pending' = 0 .. current_job'.active - 1
    BY <2>1 DEF Pending, Workers
  <2>3. Cardinality(Pending') = current_job'.active
    BY <2>1, <2>2, FS_Interval
  <2>. QED
    BY <2>1, <2>3 DEF CompletionAccounted
<1>9. ASSUME NEW c \in Callers, AwaitAgain(c)
      PROVE  CompletionAccounted'
  BY <1>0, <1>9, CallerAccount DEF AwaitAgain, shared, workerVars, TypeOK
<1>10. ASSUME NEW c \in Callers, Collect(c)
       PROVE  CompletionAccounted'
  <2>1. Awaited /\ job[c] = current_job /\ completed >= current_job.active
    BY <1>0, <1>10 DEF Collect, Awaited, WorkersInPlace
  <2>2. current_job.active \in Nat /\ completed \in Nat
    <3>1. job[c] \in OpenJob
      BY <1>10 DEF IInv, Collect, JobsInPlace
    <3>. QED
      BY <1>0, <2>1, <3>1 DEF OpenJob, TypeOK
  <2>3. Cardinality(Pending) = 0
    BY <1>0, <2>1, <2>2, PendingFinite DEF CompletionAccounted
  <2>4. Pending = {}
    BY <2>3, PendingFinite, FS_EmptySet
  <2>5. Pending' = Pending
    BY <1>10, PendingUntouched DEF Collect, workerVars
  <2>6. ~Awaited'
    <3>1. \A d \in Callers \ {c} : pc[d] \notin {"await", "awake"}
      BY <1>10 DEF Collect, IInv, OneCoordinator, HasSlot
    <3>. QED
      BY <1>0, <1>10, <1>a, <3>1 DEF Collect, TypeOK
  <2>. QED
    BY <2>4, <2>5, <2>6 DEF CompletionAccounted
<1>11. ASSUME NEW w \in Workers, WorkerCheck(w)
       PROVE  CompletionAccounted'
  <2>1. Awaited' <=> Awaited
    BY <1>11 DEF WorkerCheck, callerVars, Awaited
  <2>2. \A v \in Workers : v < current_job.active =>
            (v \in fresh' \/ wpc'[v] \in {"run", "done"}
             <=> v \in fresh \/ wpc[v] \in {"run", "done"})
    <3>1. \A v \in Workers \ {w} : wpc'[v] = wpc[v] /\ (v \in fresh' <=> v \in fresh)
      BY <1>0, <1>11 DEF WorkerCheck, workerVars, TypeOK
    <3>2. \/ UNCHANGED fresh /\ wpc[w] = "check" /\ wpc'[w] \in {"exited", "wait"}
          \/ ~(w < current_job.active)
          \/ w \in fresh /\ wpc'[w] \in {"run", "done"}
      <4>1. CASE shutdown
        BY <1>0, <1>11, <4>1 DEF WorkerCheck, TypeOK
      <4>2. CASE ~shutdown /\ w \notin fresh
        BY <1>0, <1>11, <4>2 DEF WorkerCheck, TypeOK
      <4>3. CASE ~shutdown /\ w \in fresh /\ w < current_job.active
        <5>1. ~(w >= current_job.active)
          BY <1>0, <4>3 DEF TypeOK, JobType, NoJob, Workers
        <5>. QED
          BY <1>0, <1>11, <4>3, <5>1 DEF WorkerCheck, TypeOK
      <4>. QED
        BY <4>1, <4>2, <4>3
    <3>. QED
      BY <3>1, <3>2
  <2>3. Pending' = Pending
    BY <1>11, <2>2 DEF Pending, WorkerCheck
  <2>. QED
    BY <1>0, <1>11, <2>1, <2>3, AccountUntouched DEF WorkerCheck
<1>12. ASSUME NEW w \in Workers, NEW panics \in Panics, WorkerRun(w, panics)
       PROVE  CompletionAccounted'
  <2>1. Awaited' <=> Awaited
    BY <1>12 DEF WorkerRun, callerVars, shared, Awaited
  <2>2. Pending' = Pending
    BY <1>0, <1>12, PendingUntouched DEF WorkerRun, shared, TypeOK
  <2>. QED
    BY <1>0, <1>12, <2>1, <2>2, AccountUntouched DEF WorkerRun, shared
<1>13. ASSUME NEW w \in Workers, WorkerDone(w)
       PROVE  CompletionAccounted'
  <2>1. Awaited /\ w \in Pending /\ current_job \in OpenJob
    BY <1>13, CompletionBound DEF WorkerDone
  <2>2. \A c \in Callers : pc'[c] # pc[c] => pc[c] = "await" /\ pc'[c] = "awake"
    BY <1>0, <1>13 DEF WorkerDone, NotifyDone, TypeOK
  <2>3. Awaited'
    BY <1>a, <2>1, <2>2 DEF Awaited
  <2>4. w \notin fresh
    BY <1>0, <1>13 DEF WorkerDone, WorkersInPlace
  <2>5. Pending' = Pending \ {w}
    BY <1>0, <1>13, <2>4 DEF Pending, WorkerDone, TypeOK
  <2>6. Cardinality(Pending') = Cardinality(Pending) - 1
    BY <2>1, <2>5, PendingFinite, FS_RemoveElement
  <2>. QED
    BY <1>0, <1>13, <2>1, <2>3, <2>6, PendingFinite
       DEF CompletionAccounted, WorkerDone, TypeOK, OpenJob
<1>14. CASE Drop
  <2>1. Pending' = Pending
    BY <1>14, PendingUntouched DEF Drop, WakeWorkers
  <2>. QED
    BY <1>0, <1>14, <2>1, AccountUntouched DEF Drop, callerVars, Awaited
<1>15. CASE Join
  BY <1>15, CallerAccount DEF Join, shared, callerVars, workerVars
<1>16. ASSUME NEW c \in Callers, SpuriousCaller(c)
       PROVE  CompletionAccounted'
  <2>1. \A d \in Callers : pc'[d] \in {"await", "awake"} <=> pc[d] \in {"await", "awake"}
    BY <1>0, <1>16 DEF SpuriousCaller, TypeOK
  <2>. QED
    BY <1>16, <2>1, CallerAccount DEF SpuriousCaller, shared, workerVars
<1>17. ASSUME NEW w \in Workers, SpuriousWorker(w)
       PROVE  CompletionAccounted'
  <2>1. Pending' = Pending
    BY <1>0, <1>17, PendingUntouched DEF SpuriousWorker, shared, TypeOK
  <2>. QED
    BY <1>0, <1>17, <2>1, AccountUntouched DEF SpuriousWorker, shared, callerVars, Awaited
<1>. QED
  BY <1>1, <1>2, <1>3, <1>4, <1>5, <1>6, <1>7, <1>8, <1>9, <1>10, <1>11, <1>12, <1>13,
     <1>14, <1>15, <1>16, <1>17
     DEF Next, CallerStart, CallerStep, WorkerStep

---------------------------------------------------------------------------
(* The sleepers *)

\* Every step that makes a sleeper's condition true also wakes it.
LEMMA StepNoLostWakeup ==
    ASSUME IInv, Next, SlotAccounted', WorkersInPlace', TypeOK' PROVE NoLostWakeup'
<1> USE PoolAssumption
<1>0. TypeOK /\ SlotAccounted /\ NoLostWakeup /\ WorkersInPlace /\ OneCoordinator
  BY DEF IInv
<1> USE <1>0 DEF NoLostWakeup
<1>1. ASSUME NEW c \in Callers, NEW p \in Priorities, SetPriority(c, p)
      PROVE  NoLostWakeup'
  BY <1>1 DEF SetPriority, dispatcher, shared, callerVars, workerVars
<1>2. ASSUME NEW c \in Callers, NEW total \in Totals,
             NEW cap \in Caps \cup EffectiveMaxWorkers, Call(c, total, cap)
      PROVE  NoLostWakeup'
  BY <1>2 DEF Call, dispatcher, shared, workerVars, TypeOK
<1>3. ASSUME NEW c \in Callers, NEW panics \in Panics, RunInline(c, panics)
      PROVE  NoLostWakeup'
  BY <1>3 DEF RunInline, dispatcher, shared, workerVars, TypeOK
<1>4. ASSUME NEW c \in Callers, LeaveInline(c)
      PROVE  NoLostWakeup'
  BY <1>4 DEF LeaveInline, Conclude, dispatcher, shared, workerVars, TypeOK
<1>5. ASSUME NEW c \in Callers, Acquire(c)
      PROVE  NoLostWakeup'
  <2>1. serving # c
    BY <1>5 DEF Acquire, SlotAccounted
  <2>2. \A d \in Callers : pc'[d] = pc[d] \/ (d = c /\ pc'[d] \in {"publish", "queued"})
    BY <1>5 DEF Acquire, TypeOK
  <2>3. UNCHANGED <<serving, shared, job, workerVars>>
    BY <1>5 DEF Acquire
  <2>. QED
    BY <2>1, <2>2, <2>3 DEF shared, workerVars
<1>6. ASSUME NEW c \in Callers, AcquireWoken(c)
      PROVE  NoLostWakeup'
  <2>1. serving' \in {serving, None} /\ (pc'[c] = "queued" => serving' # c)
    BY <1>6 DEF AcquireWoken, TypeOK
  <2>2. \A d \in Callers : pc'[d] = pc[d] \/ (d = c /\ pc'[d] \in {"publish", "queued"})
    BY <1>6 DEF AcquireWoken, TypeOK
  <2>3. UNCHANGED <<shared, job, workerVars>>
    BY <1>6 DEF AcquireWoken
  <2>. QED
    BY <2>1, <2>2, <2>3 DEF shared, workerVars
<1>7. ASSUME NEW c \in Callers, Release(c)
      PROVE  NoLostWakeup'
  <2>1. \A e \in Callers : pc'[e] = "await" => pc[e] = "await"
    BY <1>7 DEF Release, WakeQueued, TypeOK
  <2>2. \A e \in Callers : pc'[e] = "queued" => pc[e] = "queued" /\ UNCHANGED serving
    BY ONLY <1>7, TypeOK DEF Release, WakeQueued, TypeOK
  <2>3. UNCHANGED <<shared, job, workerVars>>
    BY <1>7 DEF Release
  <2>. QED
    BY <2>1, <2>2, <2>3 DEF shared, workerVars
<1>8. ASSUME NEW c \in Callers, Publish(c)
      PROVE  NoLostWakeup'
  <2>1. \A d \in Callers : pc[d] \notin {"await", "awake"}
    BY <1>8, NobodyElseAwaited DEF Publish, HasSlot
  <2>2. completed' < job'[c].active
    <3>1. job[c] \in OpenJob
      BY <1>8 DEF Publish, IInv, JobsInPlace
    <3>. QED
      BY <1>8, <3>1 DEF Publish, OpenJob
  <2>3. \A w \in Workers : wpc'[w] # "wait"
    BY <1>8 DEF Publish, WakeWorkers
  <2>4. \A d \in Callers : d # c => pc'[d] = pc[d]
    BY <1>8 DEF Publish, TypeOK
  <2>. QED
    BY <1>8, <2>1, <2>2, <2>3, <2>4 DEF Publish, dispatcher
<1>9. ASSUME NEW c \in Callers, AwaitAgain(c)
      PROVE  NoLostWakeup'
  BY <1>9 DEF AwaitAgain, dispatcher, shared, workerVars, TypeOK
<1>10. ASSUME NEW c \in Callers, Collect(c)
       PROVE  NoLostWakeup'
  BY <1>10 DEF Collect, Conclude, dispatcher, workerVars, TypeOK
<1>11. ASSUME NEW w \in Workers, WorkerCheck(w)
       PROVE  NoLostWakeup'
  <2>1. wpc'[w] = "wait" => w \notin fresh' /\ ~shutdown
    BY <1>11 DEF WorkerCheck, workerVars, TypeOK
  <2>2. \A v \in Workers : v # w => wpc'[v] = wpc[v] /\ (v \in fresh' <=> v \in fresh)
    BY <1>11 DEF WorkerCheck, workerVars, TypeOK
  <2>. QED
    BY <1>11, <2>1, <2>2 DEF WorkerCheck, dispatcher, callerVars
<1>12. ASSUME NEW w \in Workers, NEW panics \in Panics, WorkerRun(w, panics)
       PROVE  NoLostWakeup'
  BY <1>12 DEF WorkerRun, dispatcher, shared, callerVars, TypeOK
<1>13. ASSUME NEW w \in Workers, WorkerDone(w)
       PROVE  NoLostWakeup'
  <2>1. wjob[w] = current_job /\ current_job \in OpenJob /\ completed + 1 <= current_job.active
    BY <1>13, CompletionBound DEF WorkerDone, WorkersInPlace
  <2>2. \A c \in Callers : pc[c] = "await" => job[c].active = current_job.active
    BY DEF WorkersInPlace
  <2>3. \A c, d \in Callers : pc[c] = "await" /\ pc[d] = "await" => c = d
    BY DEF OneCoordinator, HasSlot
  <2>4. ASSUME NEW c \in Callers, pc'[c] = "await"
        PROVE  completed' < job'[c].active
    <3>1. pc[c] = "await"
      BY <1>13, <2>4 DEF WorkerDone, NotifyDone, TypeOK
    <3>2. ~(completed + 1 >= wjob[w].active)
      BY <1>13, <2>3, <2>4, <3>1 DEF WorkerDone, NotifyDone, TypeOK
    <3>. QED
      BY <1>13, <2>1, <2>2, <3>1, <3>2 DEF WorkerDone, OpenJob, TypeOK
  <2>5. \A c \in Callers : pc'[c] = "queued" => pc[c] = "queued"
    BY <1>13 DEF WorkerDone, NotifyDone, TypeOK
  <2>6. \A v \in Workers : wpc'[v] = "wait" => wpc[v] = "wait"
    BY <1>13 DEF WorkerDone, TypeOK
  <2>. QED
    BY <1>13, <2>4, <2>5, <2>6 DEF WorkerDone, dispatcher
<1>14. CASE Drop
  <2>1. \A w \in Workers : wpc'[w] # "wait"
    BY <1>14 DEF Drop, WakeWorkers
  <2>. QED
    BY <1>14, <2>1 DEF Drop, dispatcher, callerVars
<1>15. CASE Join
  BY <1>15 DEF Join, dispatcher, shared, callerVars, workerVars
<1>16. ASSUME NEW c \in Callers, SpuriousCaller(c)
       PROVE  NoLostWakeup'
  BY <1>16 DEF SpuriousCaller, dispatcher, shared, workerVars, TypeOK
<1>17. ASSUME NEW w \in Workers, SpuriousWorker(w)
       PROVE  NoLostWakeup'
  BY <1>17 DEF SpuriousWorker, dispatcher, shared, callerVars, TypeOK
<1>. QED
  BY <1>1, <1>2, <1>3, <1>4, <1>5, <1>6, <1>7, <1>8, <1>9, <1>10, <1>11, <1>12, <1>13,
     <1>14, <1>15, <1>16, <1>17
     DEF Next, CallerStart, CallerStep, WorkerStep

---------------------------------------------------------------------------
(* The results *)

\* Nothing the invariant speaks of changes when nothing changes.
LEMMA StutterIInv ==
    ASSUME IInv, UNCHANGED vars PROVE IInv'
<1> USE DEF vars, dispatcher, shared, callerVars, workerVars, history
<1>1. TypeOK' /\ JobsInPlace' /\ WorkersInPlace' /\ NoLostWakeup'
  BY DEF IInv, TypeOK, JobsInPlace, WorkersInPlace, NoLostWakeup
<1>2. OneCoordinator' /\ SlotAccounted'
  BY DEF IInv, OneCoordinator, SlotAccounted, HasSlot
<1>3. Awaited' <=> Awaited
  BY DEF Awaited
<1>4. Pending' = Pending
  BY DEF Pending
<1>5. CompletionAccounted'
  BY <1>3, <1>4, AccountUntouched DEF IInv
<1>. QED
  BY <1>1, <1>2, <1>5 DEF IInv

\* Every step of the pool preserves the invariant.
THEOREM StepIInv == IInv /\ [Next]_vars => IInv'
<1>1. ASSUME IInv, Next PROVE IInv'
  <2>1. TypeOK'
    BY <1>1, StepTypeOK
  <2>2. OneCoordinator' /\ SlotAccounted'
    BY <1>1, StepSlot
  <2>3. JobsInPlace' /\ WorkersInPlace'
    BY <1>1, StepJobs
  <2>4. CompletionAccounted'
    BY <1>1, <2>1, <2>3, StepCompletion
  <2>5. NoLostWakeup'
    BY <1>1, <2>1, <2>2, <2>3, StepNoLostWakeup
  <2>. QED
    BY <2>1, <2>2, <2>3, <2>4, <2>5 DEF IInv
<1>. QED
  BY <1>1, StutterIInv

\* The invariant holds of every behaviour of the pool.
THEOREM Inductive == Spec => []IInv
  BY InitIInv, StepIInv, PTL DEF Spec

\* Every variable keeps its type; in particular completed_workers never
\* exceeds the number of workers (lines 119-134, 634-656).
THEOREM TypeCorrect == Spec => []TypeOK
<1>1. IInv => TypeOK
  BY DEF IInv
<1>. QED
  BY <1>1, Inductive, PTL

\* The dispatch slot has one holder, and is taken exactly while it has one
\* (PriorityDispatcher, lines 262-353).
THEOREM Exclusive == Spec => [](OneCoordinator /\ SlotAccounted)
<1>1. IInv => OneCoordinator /\ SlotAccounted
  BY DEF IInv
<1>. QED
  BY <1>1, Inductive, PTL

\* Every active worker completes the published job exactly once (lines
\* 520-560 and 634-656).
THEOREM Completion == Spec => []CompletionAccounted
<1>1. IInv => CompletionAccounted
  BY DEF IInv
<1>. QED
  BY <1>1, Inductive, PTL

\* No thread sleeps through the event it waits for (the three condition
\* variables of the pool).
THEOREM Awake == Spec => []NoLostWakeup
<1>1. IInv => NoLostWakeup
  BY DEF IInv
<1>. QED
  BY <1>1, Inductive, PTL

\* A worker that runs a closure is pending; something pending is awaited; and
\* the caller that awaits the published job is the one whose closure it is.
LEMMA RunningIsAwaited == IInv => NoUseAfterReturn
<1> SUFFICES ASSUME IInv, NEW w \in Workers, wpc[w] = "run"
             PROVE  /\ wjob[w].ctx \in Callers
                    /\ pc[wjob[w].ctx] \in {"await", "awake"}
                    /\ wjob[w] = job[wjob[w].ctx]
  BY DEF NoUseAfterReturn
<1>1. wjob[w] = current_job /\ w \in Pending
  BY DEF IInv, WorkersInPlace, Pending
<1>2. PICK c \in Callers : pc[c] \in {"await", "awake"} /\ job[c] = current_job
  BY <1>1 DEF IInv, CompletionAccounted, Awaited
<1>3. current_job.ctx = c
  BY <1>2 DEF IInv, JobsInPlace
<1>. QED
  BY <1>1, <1>2, <1>3

\* The lifetime argument behind the raw closure pointer of ParallelJob (lines
\* 105-117 and 452-470): no closure runs once its call has returned.
THEOREM SafeClosures == Spec => []NoUseAfterReturn
  BY RunningIsAwaited, Inductive, PTL

---------------------------------------------------------------------------
(* The items of a call *)

\* The workers that still have item i to attempt.
Owed(i) == \E w \in Workers : /\ w < current_job.active
                              /\ i \in Chunk(current_job, w)
                              /\ w \in fresh \/ wpc[w] = "run"

\* Somebody's attempt panicked, whether it is on record already or not.
Blamed == panic # None \/ \E w \in Workers : wpc[w] = "done" /\ wfail[w]

\* How far the items of a caller's call are.
Stage(p) == IF p \in {"idle", "release"} THEN "none"
            ELSE IF p = "inlined" THEN "tried"
            ELSE IF p \in {"await", "awake"} THEN "shared" ELSE "new"

CallInPlace(c) ==
    /\ Stage(pc[c]) = "none" => job[c] = NoJob
    /\ Stage(pc[c]) # "none" => job[c].total <= job[c].active * job[c].chunk
    /\ Stage(pc[c]) \in {"none", "new"} => hits[c] = Untouched /\ ~failed[c]
    /\ Stage(pc[c]) = "tried" => hits[c] = [i \in Items |-> IF i < job[c].total THEN 1 ELSE 0]
    /\ Stage(pc[c]) = "shared" =>
           /\ hits[c] = [i \in Items |-> IF i < job[c].total /\ ~Owed(i) THEN 1 ELSE 0]
           /\ failed[c] <=> Blamed

WorkInPlace == \A w \in Workers : /\ wfail[w] => wpc[w] = "done"
                                  /\ wpc[w] = "run" => Chunk(wjob[w], w) # {}

\* What was attempted of an open call is what no worker has left to attempt,
\* and it has failed if the panic is on record or on its way there.
ItemsAccounted == (\A c \in Callers : CallInPlace(c)) /\ WorkInPlace

\* A product grows with its factors.
LEMMA Product == \A k, a, b \in Nat : a <= b => k * a <= k * b
<1> SUFFICES ASSUME NEW k \in Nat, NEW a \in Nat, NEW b \in Nat, a <= b PROVE k * a <= k * b
  OBVIOUS
<1>1. k * (b - a) >= 0
  OBVIOUS
<1>2. k * b = k * a + k * (b - a)
  OBVIOUS
<1>3. k * a \in Nat /\ k * b \in Nat /\ k * (b - a) \in Int
  OBVIOUS
<1>. QED
  BY <1>1, <1>2, <1>3

\* Of the items of a job every one is in some active worker's range, and in
\* nobody else's (lines 486 and 626-627).
LEMMA ChunksCover ==
    ASSUME NEW j \in OpenJob, j.total <= j.active * j.chunk, NEW i \in Items, i < j.total
    PROVE  \E w \in Workers : w < j.active /\ i \in Chunk(j, w)
<1> DEFINE k == j.chunk
           n == j.active
           t == j.total
           w == i \div k
<1>1. /\ k \in Nat \ {0} /\ n \in Nat /\ n <= NumWorkers /\ t \in Nat /\ i \in Nat /\ i < t
      /\ t <= n * k /\ NumWorkers \in Nat
  BY PoolAssumption DEF OpenJob, Items
<1>2. Chunk(j, w) = w * k .. Least(w * k + k, t) - 1
  BY DEF Chunk
<1> HIDE DEF k, n, t
<1>3. w \in Nat /\ i % k \in 0 .. k - 1 /\ i = k * w + (i % k)
  BY <1>1
<1> HIDE DEF w
<1>4. w < n
  <2>1. SUFFICES ASSUME n <= w PROVE FALSE
    BY <1>1, <1>3
  <2>2. k * n <= k * w
    BY <1>1, <1>3, <2>1, Product
  <2>3. k * n = n * k /\ k * w \in Nat
    BY <1>1, <1>3
  <2>4. i % k \in Nat
    BY <1>1, <1>3
  <2>. QED
    BY <1>1, <1>3, <2>2, <2>3, <2>4
<1>5. i \in w * k .. Least(w * k + k, t) - 1
  <2> DEFINE p == w * k
             r == i % k
  <2>1. p = k * w /\ p \in Nat
    BY <1>1, <1>3
  <2>2. i = p + r /\ r \in Nat /\ r < k
    BY <1>1, <1>3, <2>1
  <2> HIDE DEF p, r
  <2>3. i \in p .. Least(p + k, t) - 1
    BY <1>1, <2>1, <2>2 DEF Least
  <2>. QED
    BY <2>3 DEF p
<1>6. w \in Workers
  BY <1>1, <1>3, <1>4 DEF Workers
<1>. QED
  BY <1>2, <1>4, <1>5, <1>6 DEF n

\* No item is in the ranges of two workers.
LEMMA ChunksApart ==
    ASSUME NEW j \in OpenJob, NEW v \in Workers, NEW w \in Workers, NEW i,
           i \in Chunk(j, v), i \in Chunk(j, w)
    PROVE  v = w
<1> DEFINE k == j.chunk
           t == j.total
<1>1. k \in Nat /\ t \in Nat /\ v \in Nat /\ w \in Nat
  BY PoolAssumption DEF OpenJob, Workers
<1>2. /\ i \in v * k .. Least(v * k + k, t) - 1
      /\ i \in w * k .. Least(w * k + k, t) - 1
  BY DEF Chunk
<1> HIDE DEF k, t
<1>3. ASSUME NEW a \in Nat, NEW b \in Nat, a < b,
             i \in a * k .. Least(a * k + k, t) - 1, i \in b * k .. Least(b * k + k, t) - 1
      PROVE  FALSE
  <2>1. k * (a + 1) <= k * b
    <3>1. a + 1 \in Nat /\ a + 1 <= b
      BY <1>3
    <3> DEFINE d == a + 1
    <3> HIDE DEF d
    <3>2. k * d <= k * b
      BY <1>1, <1>3, <3>1, Product DEF d
    <3>. QED
      BY <3>2 DEF d
  <2> DEFINE p == a * k
             q == b * k
  <2>2. k * (a + 1) = p + k /\ k * b = q /\ p \in Nat /\ q \in Nat
    BY <1>1
  <2>3. p + k <= q
    BY <2>1, <2>2
  <2>4. i \in p .. Least(p + k, t) - 1 /\ i \in q .. Least(q + k, t) - 1
    BY <1>3
  <2> HIDE DEF p, q
  <2>. QED
    BY <1>1, <2>2, <2>3, <2>4 DEF Least
<1>. QED
  BY <1>1, <1>2, <1>3

\* A worker's range is among the items of the job.
LEMMA ChunkItems ==
    ASSUME NEW j \in OpenJob, NEW w \in Workers
    PROVE  Chunk(j, w) \subseteq Items /\ \A i \in Chunk(j, w) : i < j.total
<1> DEFINE k == j.chunk
           t == j.total
           p == w * k
<1>1. k \in Nat /\ t \in Nat /\ t <= MaxTotal /\ MaxTotal \in Nat /\ p \in Nat
  BY PoolAssumption DEF OpenJob, Workers
<1>2. Chunk(j, w) = p .. Least(p + k, t) - 1
  BY DEF Chunk
<1> HIDE DEF k, t, p
<1>3. ASSUME NEW i \in p .. Least(p + k, t) - 1 PROVE i \in 0 .. MaxTotal - 1 /\ i < t
  BY <1>1 DEF Least
<1>. QED
  BY <1>2, <1>3 DEF Items, t

\* The descriptor of a call covers its items.
LEMMA MakeJobCovers ==
    ASSUME NEW c \in Callers, NEW total \in 1 .. MaxTotal, NEW cap \in Nat
    PROVE  LET j == MakeJob(c, total, cap) IN j.total = total /\ j.total <= j.active * j.chunk
<1> DEFINE n == ActiveWorkers(total, cap)
<1>1. n \in 1 .. total
  BY PoolAssumption DEF ActiveWorkers, Least, Most
<1>2. total \in Nat \ {0}
  BY PoolAssumption
<1> HIDE DEF n
<1>3. total <= n * DivCeil(total, n)
  BY <1>1, <1>2, DivCeilBounds
<1>. QED
  BY <1>3 DEF MakeJob, n

---------------------------------------------------------------------------
(* Every step keeps the account of the items *)

\* A call that a step leaves alone.
LEMMA CallUntouched ==
    ASSUME NEW c \in Callers, CallInPlace(c), Stage(pc'[c]) = Stage(pc[c]),
           job'[c] = job[c], hits'[c] = hits[c], failed'[c] = failed[c],
           Stage(pc[c]) = "shared" => /\ \A i \in Items : Owed(i)' <=> Owed(i)
                                      /\ Blamed' <=> Blamed
    PROVE  CallInPlace(c)'
<1>1. CASE Stage(pc[c]) = "shared"
  <2>1. hits[c] = [i \in Items |-> IF i < job[c].total /\ ~Owed(i) THEN 1 ELSE 0]
    BY <1>1 DEF CallInPlace
  <2>2. hits'[c] = [i \in Items |-> IF i < job'[c].total /\ ~Owed(i)' THEN 1 ELSE 0]
    BY <1>1, <2>1
  <2>3. failed'[c] <=> Blamed'
    BY <1>1 DEF CallInPlace
  <2>4. job'[c].total <= job'[c].active * job'[c].chunk
    BY <1>1 DEF CallInPlace
  <2>. QED
    BY <1>1, <2>2, <2>3, <2>4 DEF CallInPlace
<1>2. CASE Stage(pc[c]) # "shared"
  BY <1>2 DEF CallInPlace
<1>. QED
  BY <1>1, <1>2

\* A step of callers that takes none of them to another stage of its call.
LEMMA CallersUntouched ==
    ASSUME ItemsAccounted, UNCHANGED <<job, hits, failed, shared, workerVars>>,
           \A c \in Callers : Stage(pc'[c]) = Stage(pc[c])
    PROVE  ItemsAccounted'
<1>1. (\A i \in Items : Owed(i)' <=> Owed(i)) /\ (Blamed' <=> Blamed)
  BY DEF Owed, Blamed, shared, workerVars
<1>2. ASSUME NEW c \in Callers PROVE CallInPlace(c)'
  BY <1>1, CallUntouched DEF ItemsAccounted
<1>3. WorkInPlace'
  BY DEF ItemsAccounted, WorkInPlace, workerVars
<1>. QED
  BY <1>2, <1>3 DEF ItemsAccounted

\* A step of one caller that is not waiting for workers, nor will be.
LEMMA OneCall ==
    ASSUME ItemsAccounted, NEW c \in Callers, UNCHANGED <<shared, workerVars>>,
           \A d \in Callers \ {c} : /\ pc'[d] = pc[d] /\ job'[d] = job[d]
                                    /\ hits'[d] = hits[d] /\ failed'[d] = failed[d],
           CallInPlace(c)'
    PROVE  ItemsAccounted'
<1>1. (\A i \in Items : Owed(i)' <=> Owed(i)) /\ (Blamed' <=> Blamed)
  BY DEF Owed, Blamed, shared, workerVars
<1>2. ASSUME NEW d \in Callers \ {c} PROVE CallInPlace(d)'
  BY <1>1, CallUntouched DEF ItemsAccounted
<1>3. WorkInPlace'
  BY DEF ItemsAccounted, WorkInPlace, workerVars
<1>. QED
  BY <1>2, <1>3 DEF ItemsAccounted

\* A step of a worker.
LEMMA WorkersOnly ==
    ASSUME ItemsAccounted, UNCHANGED <<job, hits, failed>>,
           \A c \in Callers : Stage(pc'[c]) = Stage(pc[c]),
           \A i \in Items : Owed(i)' <=> Owed(i), Blamed' <=> Blamed, WorkInPlace'
    PROVE  ItemsAccounted'
<1>1. ASSUME NEW c \in Callers PROVE CallInPlace(c)'
  BY CallUntouched DEF ItemsAccounted
<1>. QED
  BY <1>1 DEF ItemsAccounted

\* Nothing was attempted before the first call.
LEMMA InitItems == Init => ItemsAccounted
<1> SUFFICES ASSUME Init PROVE ItemsAccounted
  OBVIOUS
<1>1. ASSUME NEW c \in Callers PROVE CallInPlace(c)
  BY DEF Init, CallInPlace, Stage
<1>2. WorkInPlace
  BY DEF Init, WorkInPlace
<1>. QED
  BY <1>1, <1>2 DEF ItemsAccounted

\* The items of a call are published: all of them are left to attempt.
LEMMA PublishItems ==
    ASSUME IInv, ItemsAccounted, NEW c \in Callers, Publish(c)
    PROVE  ItemsAccounted'
<1>1. /\ \A d \in Callers : pc[d] \notin {"await", "awake"}
      /\ \A w \in Workers : wpc[w] \notin {"run", "done"}
  BY NobodyElseAwaited DEF Publish, HasSlot
<1>2. TypeOK /\ pc[c] = "publish" /\ job[c] \in OpenJob
  BY DEF IInv, JobsInPlace, Publish
<1>3. /\ pc' = [pc EXCEPT ![c] = "await"] /\ current_job' = job[c] /\ fresh' = Workers
      /\ UNCHANGED <<job, hits, failed, wjob, wfail>> /\ panic' = None /\ wpc' = WakeWorkers
  BY DEF Publish, history
<1>4. pc'[c] = "await" /\ \A d \in Callers \ {c} : pc'[d] = pc[d]
  BY <1>2, <1>3 DEF TypeOK
<1>5. /\ hits[c] = Untouched /\ ~failed[c] /\ job[c].total <= job[c].active * job[c].chunk
  BY <1>2 DEF ItemsAccounted, CallInPlace, Stage
<1>6. \A i \in Items : i < job[c].total => Owed(i)'
  <2>1. ASSUME NEW i \in Items, i < job[c].total
        PROVE  \E w \in Workers : w < job[c].active /\ i \in Chunk(job[c], w)
    BY <1>2, <1>5, <2>1, ChunksCover
  <2>2. \A i \in Items : Owed(i)' <=> \E w \in Workers : /\ w < current_job'.active
                                                         /\ i \in Chunk(current_job', w)
                                                         /\ w \in fresh' \/ wpc'[w] = "run"
    BY DEF Owed, Chunk
  <2>. QED
    BY <1>3, <2>1, <2>2
<1>7. \A w \in Workers : wpc'[w] \notin {"run", "done"}
  BY <1>1, <1>3 DEF WakeWorkers
<1>8. ~Blamed'
  BY <1>3, <1>7 DEF Blamed
<1>9. WorkInPlace'
  BY <1>1, <1>3, <1>7 DEF WorkInPlace, ItemsAccounted
<1>10. CallInPlace(c)'
  <2>1. hits'[c] = [i \in Items |-> IF i < job'[c].total /\ ~Owed(i)' THEN 1 ELSE 0]
    <3>1. \A i \in Items : ~(i < job'[c].total /\ ~Owed(i)')
      BY <1>3, <1>6
    <3>. QED
      BY <1>3, <1>5, <3>1 DEF Untouched
  <2>. QED
    BY <1>3, <1>4, <1>5, <1>8, <2>1 DEF CallInPlace, Stage
<1>11. ASSUME NEW d \in Callers \ {c} PROVE CallInPlace(d)'
  <2>1. Stage(pc[d]) # "shared"
    BY <1>1 DEF Stage
  <2>. QED
    BY <1>3, <1>4, <2>1, CallUntouched DEF ItemsAccounted
<1>. QED
  BY <1>9, <1>10, <1>11 DEF ItemsAccounted

\* The items of a finished job were all attempted, and its panic is on record.
LEMMA CollectFacts ==
    ASSUME IInv, ItemsAccounted, NEW c \in Callers, Collect(c)
    PROVE  /\ \A i \in Items : i < job[c].total => hits[c][i] = 1
           /\ failed[c] <=> panic # None
           /\ \A d \in Callers \ {c} : Stage(pc[d]) # "shared"
           /\ job[c] \in OpenJob
<1>1. pc[c] = "awake" /\ completed >= job[c].active /\ TypeOK
  BY DEF Collect, IInv
<1>2. job[c] = current_job /\ job[c] \in OpenJob /\ Awaited
  BY <1>1 DEF IInv, WorkersInPlace, JobsInPlace, Awaited
<1>3. Pending = {}
  <2>1. completed + Cardinality(Pending) = current_job.active
    BY <1>2 DEF IInv, CompletionAccounted
  <2>2. Cardinality(Pending) = 0
    BY <1>1, <1>2, <2>1, PendingFinite DEF OpenJob, TypeOK
  <2>. QED
    BY <2>2, PendingFinite, FS_EmptySet
<1>4. \A i \in Items : ~Owed(i)
  BY <1>3 DEF Owed, Pending
<1>5. \A w \in Workers : wpc[w] # "done"
  BY <1>3 DEF Pending, IInv, WorkersInPlace
<1>6. Stage(pc[c]) = "shared"
  BY <1>1 DEF Stage
<1>7. /\ hits[c] = [i \in Items |-> IF i < job[c].total /\ ~Owed(i) THEN 1 ELSE 0]
      /\ failed[c] <=> Blamed
  BY <1>6 DEF ItemsAccounted, CallInPlace
<1>8. \A i \in Items : i < job[c].total => hits[c][i] = 1
  BY <1>4, <1>7
<1>9. failed[c] <=> panic # None
  BY <1>5, <1>7 DEF Blamed
<1>10. \A d \in Callers \ {c} : Stage(pc[d]) # "shared"
  BY <1>1 DEF IInv, OneCoordinator, HasSlot, Stage
<1>. QED
  BY <1>2, <1>8, <1>9, <1>10

\* The caller takes its result.
LEMMA CollectItems ==
    ASSUME IInv, ItemsAccounted, NEW c \in Callers, Collect(c)
    PROVE  ItemsAccounted'
<1>1. /\ pc' = [pc EXCEPT ![c] = "release"] /\ job' = [job EXCEPT ![c] = NoJob]
      /\ hits' = [hits EXCEPT ![c] = Untouched] /\ failed' = [failed EXCEPT ![c] = FALSE]
      /\ UNCHANGED workerVars /\ TypeOK
  BY DEF Collect, Conclude, IInv
<1>2. /\ pc'[c] = "release" /\ job'[c] = NoJob /\ hits'[c] = Untouched /\ failed'[c] = FALSE
      /\ \A d \in Callers \ {c} : /\ pc'[d] = pc[d] /\ job'[d] = job[d]
                                  /\ hits'[d] = hits[d] /\ failed'[d] = failed[d]
  BY <1>1 DEF TypeOK
<1>3. CallInPlace(c)'
  BY <1>2 DEF CallInPlace, Stage
<1>4. ASSUME NEW d \in Callers \ {c} PROVE CallInPlace(d)'
  BY <1>2, CollectFacts, CallUntouched DEF ItemsAccounted
<1>5. WorkInPlace'
  BY <1>1 DEF ItemsAccounted, WorkInPlace, workerVars
<1>. QED
  BY <1>3, <1>4, <1>5 DEF ItemsAccounted

\* What a worker in its closure works on: its own share of the awaited call.
LEMMA RunFacts ==
    ASSUME IInv, ItemsAccounted, NEW w \in Workers, wpc[w] = "run"
    PROVE  LET c == wjob[w].ctx
           IN  /\ c \in Callers /\ Stage(pc[c]) = "shared" /\ wjob[w] = current_job
               /\ job[c] = current_job /\ current_job \in OpenJob
               /\ w < current_job.active /\ w \notin fresh
               /\ Chunk(current_job, w) # {}
               /\ \A i \in Chunk(current_job, w) : /\ i \in Items /\ i < current_job.total
                                                   /\ Owed(i) /\ hits[c][i] = 0
               /\ \A d \in Callers \ {c} : Stage(pc[d]) # "shared"
<1> DEFINE c == wjob[w].ctx
           j == current_job
<1>1. c \in Callers /\ pc[c] \in {"await", "awake"} /\ wjob[w] = job[c]
  BY RunningIsAwaited DEF NoUseAfterReturn
<1>2. wjob[w] = j /\ w < j.active /\ w \notin fresh
  BY DEF IInv, WorkersInPlace
<1>3. job[c] \in OpenJob
  BY <1>1 DEF IInv, JobsInPlace
<1>4. Stage(pc[c]) = "shared"
  BY <1>1 DEF Stage
<1>5. Chunk(j, w) # {}
  BY <1>2 DEF ItemsAccounted, WorkInPlace
<1>6. \A d \in Callers \ {c} : Stage(pc[d]) # "shared"
  BY <1>1 DEF IInv, OneCoordinator, HasSlot, Stage
<1>7. hits[c] = [i \in Items |-> IF i < job[c].total /\ ~Owed(i) THEN 1 ELSE 0]
  BY <1>1, <1>4 DEF ItemsAccounted, CallInPlace
<1>8. Chunk(j, w) \subseteq Items /\ \A i \in Chunk(j, w) : i < j.total
  BY <1>1, <1>2, <1>3, ChunkItems
<1>9. \A i \in Chunk(j, w) : Owed(i)
  BY <1>2 DEF Owed
<1>10. \A i \in Chunk(j, w) : hits[c][i] = 0
  BY <1>7, <1>8, <1>9
<1>. QED
  BY <1>1, <1>2, <1>3, <1>4, <1>5, <1>6, <1>8, <1>9, <1>10

\* A worker attempts its items, which nobody else was to attempt.
LEMMA RunItems ==
    ASSUME IInv, ItemsAccounted, NEW w \in Workers, NEW panics \in BOOLEAN,
           WorkerRun(w, panics)
    PROVE  ItemsAccounted'
<1>1. wpc[w] = "run" /\ TypeOK
  BY DEF WorkerRun, IInv
<1>a. PICK c \in Callers : c = wjob[w].ctx
  BY <1>1, RunFacts
<1> DEFINE j == current_job
           S == Chunk(j, w)
<1>2. /\ c \in Callers /\ Stage(pc[c]) = "shared" /\ wjob[w] = j
      /\ job[c] = j /\ j \in OpenJob /\ w < j.active /\ w \notin fresh
      /\ \A i \in S : i \in Items /\ i < j.total /\ Owed(i) /\ hits[c][i] = 0
      /\ \A d \in Callers \ {c} : Stage(pc[d]) # "shared"
  BY <1>1, <1>a, RunFacts
<1>3. /\ wpc' = [wpc EXCEPT ![w] = "done"] /\ wfail' = [wfail EXCEPT ![w] = panics]
      /\ hits' = Touch(c, S) /\ failed' = [failed EXCEPT ![c] = @ \/ panics]
      /\ UNCHANGED <<shared, callerVars, wjob>>
  BY <1>2, <1>a DEF WorkerRun
<1>4. \A d \in Callers \ {c} : hits'[d] = hits[d] /\ failed'[d] = failed[d]
  BY <1>1, <1>3 DEF TypeOK, Touch
<1>5. /\ hits'[c] = [i \in Items |-> hits[c][i] + IF i \in S THEN 1 ELSE 0]
      /\ failed'[c] = (failed[c] \/ panics)
  BY <1>1, <1>2, <1>3 DEF TypeOK, Touch
<1>6. /\ wpc'[w] = "done" /\ wfail'[w] = panics
      /\ \A v \in Workers \ {w} : wpc'[v] = wpc[v] /\ wfail'[v] = wfail[v]
  BY <1>1, <1>3 DEF TypeOK
<1>7. UNCHANGED <<pc, job, current_job, fresh, panic, wjob>>
  BY <1>3 DEF shared, callerVars
<1>8. \A i \in Items : Owed(i)' <=> Owed(i) /\ i \notin S
  <2>1. \A i \in Items : Owed(i)' <=> \E v \in Workers : /\ v < j.active /\ i \in Chunk(j, v)
                                                         /\ v \in fresh \/ wpc'[v] = "run"
    BY <1>7 DEF Owed, Chunk
  <2> SUFFICES ASSUME NEW i \in Items PROVE Owed(i)' <=> Owed(i) /\ i \notin S
    OBVIOUS
  <2>2. ASSUME Owed(i)' PROVE Owed(i) /\ i \notin S
    <3>1. PICK v \in Workers : v < j.active /\ i \in Chunk(j, v) /\ (v \in fresh \/ wpc'[v] = "run")
      BY <2>1, <2>2
    <3>2. v # w
      BY <1>2, <1>6, <3>1
    <3>3. i \notin S
      BY <1>2, <3>1, <3>2, ChunksApart
    <3>4. Owed(i)
      BY <1>6, <3>1, <3>2 DEF Owed
    <3>. QED
      BY <3>3, <3>4
  <2>3. ASSUME Owed(i), i \notin S PROVE Owed(i)'
    <3>1. PICK v \in Workers : v < j.active /\ i \in Chunk(j, v) /\ (v \in fresh \/ wpc[v] = "run")
      BY <2>3 DEF Owed
    <3>2. v # w
      BY <2>3, <3>1
    <3>. QED
      BY <1>6, <2>1, <3>1, <3>2
  <2>. QED
    BY <2>2, <2>3
<1>9. Blamed' <=> Blamed \/ panics
  BY <1>1, <1>6, <1>7 DEF Blamed, ItemsAccounted, WorkInPlace
<1>10. CallInPlace(c)'
  <2>1. /\ hits[c] = [i \in Items |-> IF i < j.total /\ ~Owed(i) THEN 1 ELSE 0]
        /\ failed[c] <=> Blamed
        /\ j.total <= j.active * j.chunk
    <3>1. CallInPlace(c)
      BY DEF ItemsAccounted
    <3> HIDE DEF j, S
    <3>. QED
      BY <1>2, <3>1 DEF CallInPlace
  <2>2. hits'[c] = [i \in Items |-> IF i < j.total /\ ~Owed(i)' THEN 1 ELSE 0]
    <3>1. ASSUME NEW i \in Items
          PROVE  (hits[c][i] + IF i \in S THEN 1 ELSE 0)
                    = IF i < j.total /\ ~Owed(i)' THEN 1 ELSE 0
      <4>1. CASE i \in S
        BY <1>2, <1>8, <4>1
      <4>2. CASE i \notin S
        <5>1. hits[c][i] = IF i < j.total /\ ~Owed(i) THEN 1 ELSE 0
          BY <2>1
        <5>. QED
          BY <1>8, <4>2, <5>1
      <4>. QED
        BY <4>1, <4>2
    <3>. QED
      BY <1>5, <3>1
  <2>3. failed'[c] <=> Blamed'
    BY <1>5, <1>9, <2>1
  <2>4. Stage(pc'[c]) = "shared" /\ job'[c] = j
    BY <1>2, <1>7
  <2>. QED
    BY <2>1, <2>2, <2>3, <2>4 DEF CallInPlace
<1>11. ASSUME NEW d \in Callers \ {c} PROVE CallInPlace(d)'
  BY <1>2, <1>4, <1>7, CallUntouched DEF ItemsAccounted
<1>12. WorkInPlace'
  BY <1>6, <1>7 DEF ItemsAccounted, WorkInPlace, Chunk
<1>. QED
  BY <1>10, <1>11, <1>12 DEF ItemsAccounted

\* A worker that skips a job, or finds its share empty, leaves no item.
LEMMA CheckItems ==
    ASSUME IInv, ItemsAccounted, NEW w \in Workers, WorkerCheck(w)
    PROVE  ItemsAccounted'
<1>1. /\ TypeOK /\ wpc[w] = "check" /\ UNCHANGED <<callerVars, hits, failed, current_job, panic>>
      /\ ~wfail[w]
  BY DEF WorkerCheck, IInv, history, ItemsAccounted, WorkInPlace
<1>2. /\ \A v \in Workers \ {w} : /\ wpc'[v] = wpc[v] /\ wjob'[v] = wjob[v]
                                  /\ v \in fresh' <=> v \in fresh
      /\ wfail' = wfail
  BY <1>1 DEF WorkerCheck, TypeOK, workerVars
<1>3. \/ /\ w \in fresh' <=> w \in fresh
         /\ wpc'[w] \notin {"run", "done"}
      \/ /\ w \in fresh /\ w \notin fresh' /\ w >= current_job.active
         /\ wpc'[w] = "check"
      \/ /\ w \in fresh /\ w < current_job.active /\ wjob'[w] = current_job
         /\ \/ wpc'[w] = "done" /\ Chunk(current_job, w) = {}
            \/ wpc'[w] = "run" /\ Chunk(current_job, w) # {}
  BY <1>1 DEF WorkerCheck, TypeOK, workerVars
<1>4. ASSUME NEW i \in Items PROVE Owed(i)' <=> Owed(i)
  <2>1. Owed(i)' <=> \E v \in Workers : /\ v < current_job.active /\ i \in Chunk(current_job, v)
                                        /\ v \in fresh' \/ wpc'[v] = "run"
    BY <1>1 DEF Owed, Chunk
  <2>2. ASSUME w < current_job.active, i \in Chunk(current_job, w)
        PROVE  (w \in fresh' \/ wpc'[w] = "run") <=> w \in fresh
    <3>1. ~(w >= current_job.active)
      BY <1>1, <2>2 DEF TypeOK, JobType, NoJob, Workers
    <3>2. CASE (w \in fresh' <=> w \in fresh) /\ wpc'[w] \notin {"run", "done"}
      BY <3>2
    <3>3. CASE w \in fresh /\ wpc'[w] = "run"
      BY <3>3
    <3>. QED
      BY <1>3, <2>2, <3>1, <3>2, <3>3
  <2>3. wpc[w] # "run"
    BY <1>1
  <2>4. ASSUME Owed(i) PROVE Owed(i)'
    <3>1. PICK v \in Workers : /\ v < current_job.active /\ i \in Chunk(current_job, v)
                               /\ v \in fresh \/ wpc[v] = "run"
      BY <2>4 DEF Owed
    <3>2. CASE v = w
      BY <2>1, <2>2, <2>3, <3>1, <3>2
    <3>3. CASE v # w
      BY <1>2, <2>1, <3>1, <3>3
    <3>. QED
      BY <3>2, <3>3
  <2>5. ASSUME Owed(i)' PROVE Owed(i)
    <3>1. PICK v \in Workers : /\ v < current_job.active /\ i \in Chunk(current_job, v)
                               /\ v \in fresh' \/ wpc'[v] = "run"
      BY <2>1, <2>5
    <3>2. CASE v = w
      BY <2>2, <3>1, <3>2 DEF Owed
    <3>3. CASE v # w
      BY <1>2, <3>1, <3>3 DEF Owed
    <3>. QED
      BY <3>2, <3>3
  <2>. QED
    BY <2>4, <2>5
<1>5. Blamed' <=> Blamed
  <2>1. \A v \in Workers : (wpc'[v] = "done" /\ wfail'[v]) <=> (wpc[v] = "done" /\ wfail[v])
    BY <1>1, <1>2
  <2>. QED
    BY <1>1, <2>1 DEF Blamed
<1>6. WorkInPlace'
  <2>1. ASSUME NEW v \in Workers
        PROVE  (wfail'[v] => wpc'[v] = "done") /\ (wpc'[v] = "run" => Chunk(wjob'[v], v) # {})
    <3>1. CASE v = w
      <4>1. wpc'[w] = "run" => Chunk(wjob'[w], w) # {}
        BY <1>3
      <4>. QED
        BY <1>1, <1>2, <3>1, <4>1
    <3>2. CASE v # w
      BY <1>2, <3>2 DEF ItemsAccounted, WorkInPlace
    <3>. QED
      BY <3>1, <3>2
  <2>. QED
    BY <2>1 DEF WorkInPlace, Chunk
<1>7. UNCHANGED <<job, hits, failed>> /\ \A c \in Callers : Stage(pc'[c]) = Stage(pc[c])
  BY <1>1 DEF callerVars
<1>. QED
  BY <1>4, <1>5, <1>6, <1>7, WorkersOnly

\* A worker that completes puts its panic on record.
LEMMA DoneItems ==
    ASSUME IInv, ItemsAccounted, NEW w \in Workers, WorkerDone(w)
    PROVE  ItemsAccounted'
<1>1. /\ TypeOK /\ wpc[w] = "done" /\ UNCHANGED <<fresh, current_job, job, hits, failed>>
      /\ panic' = IF wfail[w] /\ panic = None THEN w ELSE panic
      /\ NotifyDone(completed + 1 >= wjob[w].active)
  BY DEF WorkerDone, IInv, history
<1>2. /\ wpc'[w] = "check" /\ ~wfail'[w]
      /\ \A v \in Workers \ {w} : wpc'[v] = wpc[v] /\ wfail'[v] = wfail[v] /\ wjob'[v] = wjob[v]
  BY <1>1 DEF WorkerDone, TypeOK
<1>3. \A i \in Items : Owed(i)' <=> Owed(i)
  <2>1. \A v \in Workers : (v \in fresh' \/ wpc'[v] = "run") <=> (v \in fresh \/ wpc[v] = "run")
    BY <1>1, <1>2
  <2>. QED
    BY <1>1, <2>1 DEF Owed, Chunk
<1>4. Blamed' <=> Blamed
  <2>1. w # None
    BY PoolAssumption DEF Workers
  <2>2. CASE wfail[w]
    <3>1. Blamed /\ panic' # None
      BY <1>1, <2>1, <2>2 DEF Blamed
    <3>. QED
      BY <3>1 DEF Blamed
  <2>3. CASE ~wfail[w]
    <3>1. \A v \in Workers : (wpc'[v] = "done" /\ wfail'[v]) <=> (wpc[v] = "done" /\ wfail[v])
      BY <1>2, <2>3
    <3>. QED
      BY <1>1, <2>3, <3>1 DEF Blamed
  <2>. QED
    BY <2>2, <2>3
<1>5. WorkInPlace'
  BY <1>2 DEF ItemsAccounted, WorkInPlace, Chunk
<1>6. \A c \in Callers : Stage(pc'[c]) = Stage(pc[c])
  BY <1>1 DEF NotifyDone, Stage, TypeOK
<1>. QED
  BY <1>1, <1>3, <1>4, <1>5, <1>6, WorkersOnly

\* Every step keeps the account of the items.
LEMMA StepItems ==
    ASSUME IInv, ItemsAccounted, Next PROVE ItemsAccounted'
<1>0. TypeOK
  BY DEF IInv
<1> USE DEF Stage
<1>1. ASSUME NEW c \in Callers, NEW p \in Priorities, SetPriority(c, p)
      PROVE  ItemsAccounted'
  BY <1>1, CallersUntouched DEF SetPriority, callerVars, history
<1>2. ASSUME NEW c \in Callers, NEW total \in Totals,
             NEW cap \in Caps \cup EffectiveMaxWorkers, Call(c, total, cap)
      PROVE  ItemsAccounted'
  <2> DEFINE j == MakeJob(c, total, cap)
  <2>1. cap \in Nat /\ total \in 1 .. MaxTotal
    BY PoolAssumption DEF EffectiveMaxWorkers, Least
  <2>2. j.total <= j.active * j.chunk
    BY <2>1, MakeJobCovers
  <2> HIDE DEF j
  <2>3. /\ pc[c] = "idle" /\ pc'[c] \in {"inline", "acquire"} /\ job'[c] = j
        /\ \A d \in Callers \ {c} : pc'[d] = pc[d] /\ job'[d] = job[d]
        /\ UNCHANGED <<shared, workerVars, hits, failed>>
    BY <1>0, <1>2 DEF Call, TypeOK, history, j
  <2>4. CallInPlace(c)'
    BY <2>2, <2>3 DEF ItemsAccounted, CallInPlace
  <2>. QED
    BY <2>3, <2>4, OneCall
<1>3. ASSUME NEW c \in Callers, NEW panics \in Panics, RunInline(c, panics)
      PROVE  ItemsAccounted'
  <2>1. /\ pc[c] = "inline" /\ pc'[c] = "inlined" /\ job' = job
        /\ \A d \in Callers \ {c} : /\ pc'[d] = pc[d] /\ hits'[d] = hits[d]
                                    /\ failed'[d] = failed[d]
        /\ hits'[c] = [i \in Items |-> hits[c][i] + IF i \in 0 .. job[c].total - 1 THEN 1 ELSE 0]
        /\ UNCHANGED <<shared, workerVars>>
    BY <1>0, <1>3 DEF RunInline, TypeOK, Touch
  <2>2. hits[c] = Untouched /\ job[c].total <= job[c].active * job[c].chunk
    BY <2>1 DEF ItemsAccounted, CallInPlace
  <2>3. job[c].total \in Nat
    BY <2>1 DEF IInv, JobsInPlace, OpenJob
  <2>4. hits'[c] = [i \in Items |-> IF i < job[c].total THEN 1 ELSE 0]
    <3>1. ASSUME NEW i \in Items
          PROVE  (hits[c][i] + IF i \in 0 .. job[c].total - 1 THEN 1 ELSE 0)
                    = IF i < job[c].total THEN 1 ELSE 0
      <4>1. i \in Nat /\ hits[c][i] = 0
        BY <2>2, PoolAssumption DEF Items, Untouched
      <4>2. i \in 0 .. job[c].total - 1 <=> i < job[c].total
        BY <2>3, <4>1
      <4>. QED
        BY <4>1, <4>2
    <3>. QED
      BY <2>1, <3>1
  <2>5. CallInPlace(c)'
    BY <2>1, <2>2, <2>4 DEF CallInPlace
  <2>. QED
    BY <2>1, <2>5, OneCall
<1>4. ASSUME NEW c \in Callers, LeaveInline(c)
      PROVE  ItemsAccounted'
  <2>1. /\ pc'[c] = "idle" /\ job'[c] = NoJob /\ hits'[c] = Untouched /\ failed'[c] = FALSE
        /\ \A d \in Callers \ {c} : /\ pc'[d] = pc[d] /\ job'[d] = job[d]
                                    /\ hits'[d] = hits[d] /\ failed'[d] = failed[d]
        /\ UNCHANGED <<shared, workerVars>>
    BY <1>0, <1>4 DEF LeaveInline, Conclude, TypeOK
  <2>2. CallInPlace(c)'
    BY <2>1 DEF CallInPlace
  <2>. QED
    BY <2>1, <2>2, OneCall
<1>5. ASSUME NEW c \in Callers, Acquire(c)
      PROVE  ItemsAccounted'
  <2>1. \A d \in Callers : \/ pc'[d] = pc[d]
                           \/ pc[d] = "acquire" /\ pc'[d] \in {"publish", "queued"}
    BY <1>0, <1>5 DEF Acquire, TypeOK
  <2>. QED
    BY <1>5, <2>1, CallersUntouched DEF Acquire, history
<1>6. ASSUME NEW c \in Callers, AcquireWoken(c)
      PROVE  ItemsAccounted'
  <2>1. \A d \in Callers : \/ pc'[d] = pc[d]
                           \/ pc[d] = "woken" /\ pc'[d] \in {"publish", "queued"}
    BY <1>0, <1>6 DEF AcquireWoken, TypeOK
  <2>. QED
    BY <1>6, <2>1, CallersUntouched DEF AcquireWoken, history
<1>7. ASSUME NEW c \in Callers, Release(c)
      PROVE  ItemsAccounted'
  <2>1. \A d \in Callers : \/ pc'[d] = pc[d]
                           \/ pc[d] = "release" /\ pc'[d] = "idle"
                           \/ pc[d] = "queued" /\ pc'[d] = "woken"
    BY <1>0, <1>7, ReleaseMoves
  <2>. QED
    BY <1>7, <2>1, CallersUntouched DEF Release, history
<1>8. ASSUME NEW c \in Callers, Publish(c)
      PROVE  ItemsAccounted'
  BY <1>8, PublishItems
<1>9. ASSUME NEW c \in Callers, AwaitAgain(c) \/ SpuriousCaller(c)
      PROVE  ItemsAccounted'
  <2>1. \A d \in Callers : \/ pc'[d] = pc[d]
                           \/ pc[d] = "queued" /\ pc'[d] = "woken"
                           \/ pc[d] \in {"await", "awake"} /\ pc'[d] \in {"await", "awake"}
    BY <1>0, <1>9 DEF AwaitAgain, SpuriousCaller, TypeOK
  <2>. QED
    BY <1>9, <2>1, CallersUntouched DEF AwaitAgain, SpuriousCaller, history
<1>10. ASSUME NEW c \in Callers, Collect(c)
       PROVE  ItemsAccounted'
  BY <1>10, CollectItems
<1>11. ASSUME NEW w \in Workers, WorkerCheck(w)
       PROVE  ItemsAccounted'
  BY <1>11, CheckItems
<1>12. ASSUME NEW w \in Workers, NEW panics \in Panics, WorkerRun(w, panics)
       PROVE  ItemsAccounted'
  <2>1. panics \in BOOLEAN
    BY PoolAssumption
  <2>. QED
    BY <1>12, <2>1, RunItems
<1>13. ASSUME NEW w \in Workers, WorkerDone(w)
       PROVE  ItemsAccounted'
  BY <1>13, DoneItems
<1>14. ASSUME Drop \/ (\E w \in Workers : SpuriousWorker(w))
       PROVE  ItemsAccounted'
  <2>1. /\ UNCHANGED <<pc, job, hits, failed, current_job, fresh, panic, wjob, wfail>>
        /\ \A w \in Workers : wpc'[w] = wpc[w] \/ (wpc[w] = "wait" /\ wpc'[w] = "check")
    BY <1>0, <1>14 DEF Drop, SpuriousWorker, WakeWorkers, TypeOK, callerVars, shared, history
  <2>2. \A i \in Items : Owed(i)' <=> Owed(i)
    <3>1. \A w \in Workers : wpc'[w] = "run" <=> wpc[w] = "run"
      BY <2>1
    <3>. QED
      BY <2>1, <3>1 DEF Owed, Chunk
  <2>3. Blamed' <=> Blamed
    <3>1. \A w \in Workers : wpc'[w] = "done" <=> wpc[w] = "done"
      BY <2>1
    <3>. QED
      BY <2>1, <3>1 DEF Blamed
  <2>4. WorkInPlace'
    BY <2>1 DEF ItemsAccounted, WorkInPlace, Chunk
  <2>. QED
    BY <2>1, <2>2, <2>3, <2>4, WorkersOnly
<1>15. CASE Join
  BY <1>15, CallersUntouched DEF Join, callerVars, history
<1>. QED
  BY <1>1, <1>2, <1>3, <1>4, <1>5, <1>6, <1>7, <1>8, <1>9, <1>10, <1>11, <1>12, <1>13,
     <1>14, <1>15
     DEF Next, CallerStart, CallerStep, WorkerStep

\* The account of the items holds of every behaviour of the pool.
THEOREM EveryItemOnce == Spec => []ItemsAccounted
<1>1. ASSUME IInv, ItemsAccounted, [Next]_vars PROVE ItemsAccounted'
  <2>1. CASE UNCHANGED vars
    <3>1. UNCHANGED <<job, hits, failed, shared, workerVars, pc>>
      BY <2>1 DEF vars, callerVars, history
    <3>. QED
      BY <1>1, <3>1, CallersUntouched
  <2>. QED
    BY <1>1, <2>1, StepItems
<1>. QED
  BY <1>1, InitItems, Inductive, PTL DEF Spec

---------------------------------------------------------------------------
(* The pool implements the contract *)

\* The items of a caller's open call, as the contract has them.
Size == [c \in Callers |-> job[c].total]

\* A step that the callers do not see.
LEMMA Unseen ==
    ASSUME UNCHANGED <<job, hits, failed, outcome>>
    PROVE  UNCHANGED Promise!vars
BY DEF Promise!vars

\* A call.
LEMMA CallSubmits ==
    ASSUME IInv, ItemsAccounted, NEW c \in Callers, NEW total \in Totals,
           NEW cap \in Caps \cup EffectiveMaxWorkers, Call(c, total, cap)
    PROVE  Promise!Next
<1>1. cap \in Nat /\ total \in 1 .. MaxTotal
  BY PoolAssumption DEF EffectiveMaxWorkers, Least
<1>2. MakeJob(c, total, cap).total = total
  BY <1>1, MakeJobCovers
<1>3. /\ pc[c] = "idle" /\ job' = [job EXCEPT ![c] = MakeJob(c, total, cap)]
      /\ UNCHANGED <<hits, failed, outcome>> /\ job \in [Callers -> JobType]
  BY DEF Call, history, IInv, TypeOK
<1>4. job[c] = NoJob
  BY <1>3 DEF ItemsAccounted, CallInPlace, Stage
<1>5. Size[c] = 0 /\ Size' = [Size EXCEPT ![c] = total]
  <2> DEFINE j == MakeJob(c, total, cap)
  <2>1. j.total = total /\ job' = [job EXCEPT ![c] = j]
    BY <1>2, <1>3
  <2> HIDE DEF j
  <2>2. \A d \in Callers : job'[d].total = IF d = c THEN total ELSE job[d].total
    BY <1>3, <2>1
  <2>3. Size' = [d \in Callers |-> job'[d].total]
    BY DEF Size
  <2>4. Size' = [Size EXCEPT ![c] = total]
    BY <2>2, <2>3 DEF Size
  <2>5. Size[c] = 0
    BY <1>4 DEF Size, NoJob
  <2>. QED
    BY <2>4, <2>5
<1>6. Promise!Submit(c, total)
  BY <1>3, <1>5 DEF Promise!Submit, Promise!Open, Size
<1>. QED
  BY <1>1, <1>6 DEF Promise!Next

\* A call for one worker attempts its items in its caller.
LEMMA InlineAttempts ==
    ASSUME IInv, ItemsAccounted, NEW c \in Callers, NEW panics \in BOOLEAN,
           RunInline(c, panics)
    PROVE  Promise!Next
<1> DEFINE S == 0 .. job[c].total - 1
<1>1. /\ pc[c] = "inline" /\ UNCHANGED <<job, outcome>> /\ hits' = Touch(c, S)
      /\ failed' = [failed EXCEPT ![c] = panics] /\ failed \in [Callers -> BOOLEAN]
  BY DEF RunInline, IInv, TypeOK
<1>2. hits[c] = Untouched /\ ~failed[c] /\ job[c] \in OpenJob
  BY <1>1 DEF ItemsAccounted, CallInPlace, Stage, IInv, JobsInPlace
<1>3. job[c].total \in 1 .. MaxTotal /\ MaxTotal \in Nat
  BY <1>2, PoolAssumption DEF OpenJob
<1>4. S \in (SUBSET Items) \ {{}}
  <2>1. 0 \in S
    BY <1>3
  <2>2. S \subseteq Items
    BY <1>3 DEF Items
  <2>. QED
    BY <2>1, <2>2
<1>5. \A i \in S : i < job[c].total /\ hits[c][i] = 0
  BY <1>2, <1>3, <1>4 DEF Untouched
<1> HIDE DEF S
<1>6. failed' = [failed EXCEPT ![c] = @ \/ panics]
  BY <1>1, <1>2
<1>7. hits' = [hits EXCEPT ![c] = [i \in Items |-> @[i] + IF i \in S THEN 1 ELSE 0]]
  BY <1>1 DEF Touch
<1>8. Size' = Size /\ Size[c] = job[c].total
  BY <1>1 DEF Size
<1>9. Promise!Attempt(c, S, panics)
  BY <1>1, <1>5, <1>6, <1>7, <1>8 DEF Promise!Attempt, Promise!Items, Items, Size
<1>. QED
  BY <1>4, <1>9 DEF Promise!Next, Promise!Items, Items

\* A worker attempts its share.
LEMMA WorkerAttempts ==
    ASSUME IInv, ItemsAccounted, NEW w \in Workers, NEW panics \in BOOLEAN,
           WorkerRun(w, panics)
    PROVE  Promise!Next
<1>1. wpc[w] = "run"
  BY DEF WorkerRun
<1>2. PICK c \in Callers : c = wjob[w].ctx
  BY <1>1, RunFacts
<1> DEFINE S == Chunk(current_job, w)
<1>3. /\ wjob[w] = current_job /\ job[c] = current_job /\ S # {}
      /\ \A i \in S : i \in Items /\ i < current_job.total /\ hits[c][i] = 0
  BY <1>1, <1>2, RunFacts
<1>4. /\ hits' = [hits EXCEPT ![c] = [i \in Items |-> @[i] + IF i \in S THEN 1 ELSE 0]]
      /\ failed' = [failed EXCEPT ![c] = @ \/ panics]
      /\ UNCHANGED <<job, outcome>>
  BY <1>2, <1>3 DEF WorkerRun, Touch, callerVars
<1> HIDE DEF S
<1>5. Size' = Size /\ Size[c] = current_job.total
  BY <1>3, <1>4 DEF Size
<1>6. Promise!Attempt(c, S, panics)
  BY <1>3, <1>4, <1>5 DEF Promise!Attempt, Promise!Items, Items, Size
<1>7. S \in (SUBSET Items) \ {{}}
  BY <1>3
<1>. QED
  BY <1>6, <1>7 DEF Promise!Next, Promise!Items, Items

\* The end of a call is the contract's, once all of its items were attempted
\* and if its result says whether one panicked.
LEMMA Returns ==
    ASSUME IInv, NEW c \in Callers, job[c] \in OpenJob, NEW bad, Conclude(c, bad),
           \A i \in Items : i < job[c].total => hits[c][i] = 1,
           failed[c] <=> bad
    PROVE  Promise!Next
<1>1. job \in [Callers -> JobType] /\ job[c].total \in 1 .. MaxTotal
  BY DEF IInv, TypeOK, OpenJob
<1>2. Size[c] > 0 /\ Size[c] = job[c].total
  BY <1>1, PoolAssumption DEF Size
<1>3. /\ job' = [job EXCEPT ![c] = NoJob]
      /\ outcome' = [outcome EXCEPT ![c] = IF failed[c] THEN "panic" ELSE "ok"]
      /\ hits' = [hits EXCEPT ![c] = Untouched]
      /\ failed' = [failed EXCEPT ![c] = FALSE]
  BY DEF Conclude
<1>4. Size' = [Size EXCEPT ![c] = 0]
  BY <1>1, <1>3 DEF Size, NoJob
<1>5. Promise!Return(c)
  BY <1>2, <1>3, <1>4
     DEF Promise!Return, Promise!Open, Promise!Items, Promise!Untouched, Items, Untouched, Size
<1>. QED
  BY <1>5 DEF Promise!Next

\* Every step of the pool is a step of the contract, or one it does not see.
LEMMA StepImplements ==
    ASSUME IInv, ItemsAccounted, Next PROVE Promise!Next \/ UNCHANGED Promise!vars
<1>1. ASSUME NEW c \in Callers,
             \/ \E p \in Priorities : SetPriority(c, p)
             \/ Acquire(c) \/ AcquireWoken(c) \/ Publish(c) \/ AwaitAgain(c) \/ Release(c)
             \/ SpuriousCaller(c)
      PROVE  UNCHANGED Promise!vars
  <2>1. UNCHANGED <<job, hits, failed, outcome>>
    BY <1>1 DEF SetPriority, Acquire, AcquireWoken, Publish, AwaitAgain, Release,
                SpuriousCaller, callerVars, history
  <2>. QED
    BY <2>1, Unseen
<1>2. ASSUME Drop \/ Join \/ (\E w \in Workers : WorkerCheck(w) \/ WorkerDone(w)
                                                 \/ SpuriousWorker(w))
      PROVE  UNCHANGED Promise!vars
  <2>1. UNCHANGED <<job, hits, failed, outcome>>
    BY <1>2 DEF Drop, Join, WorkerCheck, WorkerDone, SpuriousWorker, callerVars, history
  <2>. QED
    BY <2>1, Unseen
<1>3. ASSUME NEW c \in Callers, LeaveInline(c) PROVE Promise!Next
  <2>1. pc[c] = "inlined" /\ Conclude(c, failed[c])
    BY <1>3 DEF LeaveInline
  <2>2. job[c] \in OpenJob /\ hits[c] = [i \in Items |-> IF i < job[c].total THEN 1 ELSE 0]
    BY <2>1 DEF IInv, JobsInPlace, ItemsAccounted, CallInPlace, Stage
  <2>3. \A i \in Items : i < job[c].total => hits[c][i] = 1
    BY <2>2
  <2>. QED
    BY <2>1, <2>2, <2>3, Returns
<1>4. ASSUME NEW c \in Callers, Collect(c) PROVE Promise!Next
  <2>1. Conclude(c, panic # None)
    BY <1>4 DEF Collect
  <2>2. /\ \A i \in Items : i < job[c].total => hits[c][i] = 1
        /\ failed[c] <=> panic # None
        /\ job[c] \in OpenJob
    BY <1>4, CollectFacts
  <2>. QED
    BY <2>1, <2>2, Returns
<1>5. Panics \subseteq BOOLEAN
  BY PoolAssumption
<1>. QED
  BY <1>1, <1>2, <1>3, <1>4, <1>5, CallSubmits, InlineAttempts, WorkerAttempts
     DEF Next, CallerStart, CallerStep, WorkerStep

\* What the pool does is what parallel_for promises (lines 452-470): every
\* item is attempted once while its call is open, the call returns when none
\* is left, and its result tells whether an attempt of this very call panicked.
THEOREM Implements == Spec => ImplementsParallelFor
<1>1. Init => Promise!Init
  BY DEF Init, Promise!Init, Promise!Untouched, Promise!Items, Untouched, Items, NoJob
<1>2. ASSUME IInv, ItemsAccounted, [Next]_vars PROVE [Promise!Next]_(Promise!vars)
  <2>1. CASE UNCHANGED vars
    BY <2>1, Unseen DEF vars, callerVars, history
  <2>. QED
    BY <1>2, <2>1, StepImplements
<1>. QED
  BY <1>1, <1>2, Inductive, EveryItemOnce, PTL DEF Spec, ImplementsParallelFor, Promise!Spec

---------------------------------------------------------------------------
(* The order of service *)

\* The waiters' tickets are in some order: of two, one is ahead.
TicketsInOrder ==
    /\ \A c \in waiters : ahead[c] \subseteq waiters \ {c}
    /\ \A c, d \in waiters : c # d => (d \in ahead[c] <=> c \notin ahead[d])

\* Every step keeps the tickets in order.
LEMMA StepTickets ==
    ASSUME IInv, TicketsInOrder, [Next]_vars PROVE TicketsInOrder'
<1>1. TypeOK /\ SlotAccounted
  BY DEF IInv
<1>2. ASSUME UNCHANGED <<waiters, ahead>> PROVE TicketsInOrder'
  BY <1>2 DEF TicketsInOrder
<1>3. ASSUME NEW c \in Callers, Acquire(c) PROVE TicketsInOrder'
  <2>1. CASE active
    <3>1. /\ waiters' = waiters \cup {c} /\ ahead' = [ahead EXCEPT ![c] = waiters]
          /\ pc[c] = "acquire"
      BY <1>3, <2>1 DEF Acquire
    <3>2. c \notin waiters
      BY <1>1, <3>1 DEF SlotAccounted
    <3>3. ahead'[c] = waiters /\ \A d \in waiters : ahead'[d] = ahead[d]
      BY <1>1, <3>1, <3>2 DEF TypeOK
    <3>. QED
      BY <3>1, <3>2, <3>3 DEF TicketsInOrder
  <2>2. CASE ~active
    BY <1>2, <1>3, <2>2 DEF Acquire
  <2>. QED
    BY <2>1, <2>2
<1>4. ASSUME NEW c \in Callers, Release(c) PROVE TicketsInOrder'
  <2>1. CASE UNCHANGED <<waiters, ahead>>
    BY <1>2, <2>1
  <2>2. ASSUME NEW d \in waiters, waiters' = waiters \ {d},
               ahead' = [e \in Callers |-> IF e = d THEN {} ELSE ahead[e] \ {d}]
        PROVE  TicketsInOrder'
    <3>1. \A e \in waiters' : e \in waiters /\ e # d /\ ahead'[e] = ahead[e] \ {d}
      BY <1>1, <2>2 DEF TypeOK
    <3>. QED
      BY <2>2, <3>1 DEF TicketsInOrder
  <2>. QED
    BY <1>4, <2>1, <2>2 DEF Release
<1>5. \/ UNCHANGED <<waiters, ahead>>
      \/ \E c \in Callers : Acquire(c) \/ Release(c)
  BY DEF Next, CallerStart, CallerStep, WorkerStep, SetPriority, Call, RunInline, LeaveInline,
         AcquireWoken, Publish, AwaitAgain, Collect, WorkerCheck, WorkerRun, WorkerDone, Drop,
         Join, SpuriousCaller, SpuriousWorker, dispatcher, vars
<1>. QED
  BY <1>2, <1>3, <1>4, <1>5

\* The slot is never handed over the head of a caller with a better priority,
\* or with the same one and an older ticket (release, lines 323-342).
LEMMA HandOver ==
    ASSUME IInv, TicketsInOrder, [Next]_vars, NEW c \in waiters, NEW d \in Callers \ {c},
           serving' = d, serving # d
    PROVE  \/ priority[d] < priority[c]
           \/ priority[d] = priority[c] /\ c \notin ahead[d]
<1>1. TypeOK /\ None \notin Callers
  BY PoolAssumption DEF IInv
<1>2. \E e \in Callers : Release(e)
  BY <1>1 DEF Next, CallerStart, CallerStep, WorkerStep, SetPriority, Call, RunInline, LeaveInline,
         Acquire, AcquireWoken, Publish, AwaitAgain, Collect, WorkerCheck, WorkerRun, WorkerDone,
         Drop, Join, SpuriousCaller, SpuriousWorker, dispatcher, vars
<1>3. d \in waiters /\ \A e \in waiters \ {d} : Beats(d, e)
  BY <1>1, <1>2 DEF Release
<1>4. Beats(d, c)
  BY <1>3
<1>5. d \in ahead[c] => c \notin ahead[d]
  BY <1>3 DEF TicketsInOrder
<1>. QED
  BY <1>4, <1>5 DEF Beats

\* The slot goes by priority, then by arrival.
THEOREM InOrder == Spec => NoOvertaking
<1> DEFINE A == \A c \in waiters : \A d \in Callers \ {c} :
                    serving' = d /\ serving # d =>
                        \/ priority[d] < priority[c]
                        \/ priority[d] = priority[c] /\ c \notin ahead[d]
<1>1. Init => TicketsInOrder
  BY DEF Init, TicketsInOrder
<1>2. IInv /\ TicketsInOrder /\ [Next]_vars => TicketsInOrder'
  BY StepTickets
<1>3. IInv /\ TicketsInOrder /\ [Next]_vars => [A]_vars
  BY HandOver
<1>. QED
  BY <1>1, <1>2, <1>3, Inductive, PTL DEF Spec, NoOvertaking
==============================================================================
