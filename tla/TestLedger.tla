----------------------------- MODULE TestLedger -----------------------------
(***************************************************************************)
(* What the queues, the branch lock and the deferred lists promise of the  *)
(* integration tests: a job is run at most once, it is run alone on its    *)
(* branch, and it is lost only when something it depends on breaks.        *)
(***************************************************************************)
CONSTANTS Job, BranchOf

VARIABLES
  state,  \* per job "unknown", "waiting", "running", "completed" or "lost"
  broken  \* a worker has died or Redis has failed a coroutine

Init == state = [j \in Job |-> "unknown"] /\ broken = FALSE

Submit(j) ==
  /\ state[j] = "unknown"
  /\ state' = [state EXCEPT ![j] = "waiting"]
  /\ UNCHANGED broken

Run(j) ==
  /\ state[j] = "waiting"
  /\ \A k \in Job : BranchOf[k] = BranchOf[j] => state[k] # "running"
  /\ state' = [state EXCEPT ![j] = "running"]
  /\ UNCHANGED broken

Complete(j) ==
  /\ state[j] = "running"
  /\ state' = [state EXCEPT ![j] = "completed"]
  /\ UNCHANGED broken

(* A failure may lose any jobs that are not completed. *)
Break ==
  /\ broken' = TRUE
  /\ \E L \in SUBSET {j \in Job : state[j] \in {"waiting", "running"}} :
       state' = [j \in Job |-> IF j \in L THEN "lost" ELSE state[j]]

Next == Break \/ \E j \in Job : Submit(j) \/ Run(j) \/ Complete(j)

Spec == Init /\ [][Next]_<<state, broken>>
=============================================================================
