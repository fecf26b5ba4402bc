----------------------------- MODULE TaskPool -----------------------------
(***************************************************************************)
(* What the interface of a worker pool promises: run gives a promise that  *)
(* settles exactly once, at once if the pool is full or destroyed, and     *)
(* destroy rejects whatever is pending.  Tasks are numbered in the order   *)
(* of the calls of run.                                                    *)
(***************************************************************************)
EXTENDS Naturals, FiniteSets

CONSTANTS
  MaxTasks,      \* bound: calls of run
  MaxQueueSize   \* run rejects once as many tasks are pending

Tasks == 1..MaxTasks

VARIABLES promise, destroyed
vars == <<promise, destroyed>>

Unsettled == {t \in Tasks : promise[t] = "pending"}

Init ==
  /\ promise = [t \in Tasks |-> "none"]
  /\ destroyed = FALSE

Run(t) ==
  /\ \A u \in Tasks : promise[u] = "none" <=> u >= t
  /\ promise' = [promise EXCEPT ![t] =
       IF destroyed \/ Cardinality(Unsettled) >= MaxQueueSize THEN "rejected" ELSE "pending"]
  /\ UNCHANGED destroyed

Settle(t) ==
  /\ promise[t] = "pending"
  /\ \E outcome \in {"resolved", "rejected"} : promise' = [promise EXCEPT ![t] = outcome]
  /\ UNCHANGED destroyed

Destroy ==
  /\ destroyed' = TRUE
  /\ promise' = [t \in Tasks |-> IF t \in Unsettled THEN "rejected" ELSE promise[t]]

Next == Destroy \/ \E t \in Tasks : Run(t) \/ Settle(t)

Spec == Init /\ [][Next]_vars /\ \A t \in Tasks : WF_vars(Settle(t))
=============================================================================
