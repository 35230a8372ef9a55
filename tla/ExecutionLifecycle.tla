------------------------- MODULE ExecutionLifecycle -------------------------
(***************************************************************************)
(* What the execution registry promises about one query execution          *)
(* (apps/server/src/execution/registry.ts), with no coroutine, no event    *)
(* buffer and no database in sight.  An execution is queued, runs, and     *)
(* settles once; the verdict it settles with is announced in the same      *)
(* instant, exactly once, and never contradicted afterwards.  A server     *)
(* that stops forgets what it had not settled.                             *)
(***************************************************************************)
CONSTANT Executions

VARIABLES
  state,      \* where each execution stands
  announced   \* the verdicts announced to subscribers so far

vars == <<state, announced>>

Verdicts == {"succeeded", "failed", "cancelled"}
States   == {"absent", "queued", "running", "gone"} \cup Verdicts

TypeOK ==
  /\ state \in [Executions -> States]
  /\ announced \in [Executions -> SUBSET Verdicts]

Init ==
  /\ state = [e \in Executions |-> "absent"]
  /\ announced = [e \in Executions |-> {}]

Enqueue(e) ==
  /\ state[e] = "absent"
  /\ state' = [state EXCEPT ![e] = "queued"]
  /\ UNCHANGED announced

Start(e) ==
  /\ state[e] = "queued"
  /\ state' = [state EXCEPT ![e] = "running"]
  /\ UNCHANGED announced

Settle(e, verdict) ==
  /\ state[e] = "running"
  /\ state' = [state EXCEPT ![e] = verdict]
  /\ announced' = [announced EXCEPT ![e] = {verdict}]

(* The record of a settled execution is dropped after its time to live.    *)
Forget(e) ==
  /\ state[e] \in Verdicts
  /\ state' = [state EXCEPT ![e] = "gone"]
  /\ announced' = [announced EXCEPT ![e] = {}]

(* The process stops: every record it held is gone, settled or not.        *)
Stop ==
  /\ state' = [e \in Executions |-> IF state[e] = "absent" THEN "absent" ELSE "gone"]
  /\ announced' = [e \in Executions |-> {}]

Next ==
  \/ \E e \in Executions : \/ Enqueue(e)
                           \/ Start(e)
                           \/ \E verdict \in Verdicts : Settle(e, verdict)
                           \/ Forget(e)
  \/ Stop

Spec == Init /\ [][Next]_vars
=============================================================================
