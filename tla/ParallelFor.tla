----------------------------- MODULE ParallelFor -----------------------------
(***************************************************************************)
(* What `parallel_for` promises its callers, with no pool in sight: a call *)
(* over n items attempts every item exactly once, on behalf of a call that *)
(* is still open, and it returns only once nothing is left to attempt; the *)
(* result tells whether an attempt of this call panicked.  ThreadPool      *)
(* implements this specification (src/crates/backends/backend_common/src/  *)
(* thread_pool.rs, the contract on lines 452-470).                         *)
(***************************************************************************)
EXTENDS Naturals

CONSTANTS Callers,    \* the threads that call parallel_for
          MaxTotal    \* no call has more items than this

VARIABLES size,       \* size[c]: items of c's open call, 0 when it has none
          hits,       \* hits[c][i]: how often item i of the open call was attempted
          failed,     \* failed[c]: an attempt of the open call panicked
          outcome     \* outcome[c]: how c's last call ended

vars == <<size, hits, failed, outcome>>

Items == 0 .. MaxTotal - 1
Untouched == [i \in Items |-> 0]

Open(c) == size[c] > 0

Init == /\ size = [c \in Callers |-> 0]
        /\ hits = [c \in Callers |-> Untouched]
        /\ failed = [c \in Callers |-> FALSE]
        /\ outcome = [c \in Callers |-> "ok"]

Submit(c, n) == /\ ~Open(c)
                /\ size' = [size EXCEPT ![c] = n]
                /\ UNCHANGED <<hits, failed, outcome>>

\* Some items of the open call that nobody attempted yet are attempted.
Attempt(c, S, panics) ==
    /\ \A i \in S : i < size[c] /\ hits[c][i] = 0
    /\ hits' = [hits EXCEPT ![c] = [i \in Items |-> @[i] + IF i \in S THEN 1 ELSE 0]]
    /\ failed' = [failed EXCEPT ![c] = @ \/ panics]
    /\ UNCHANGED <<size, outcome>>

Return(c) == /\ Open(c)
             /\ \A i \in Items : i < size[c] => hits[c][i] = 1
             /\ outcome' = [outcome EXCEPT ![c] = IF failed[c] THEN "panic" ELSE "ok"]
             /\ size' = [size EXCEPT ![c] = 0]
             /\ hits' = [hits EXCEPT ![c] = Untouched]
             /\ failed' = [failed EXCEPT ![c] = FALSE]

Next == \E c \in Callers :
            \/ \E n \in 1 .. MaxTotal : Submit(c, n)
            \/ \E S \in (SUBSET Items) \ {{}}, panics \in BOOLEAN : Attempt(c, S, panics)
            \/ Return(c)

Spec == Init /\ [][Next]_vars
==============================================================================
