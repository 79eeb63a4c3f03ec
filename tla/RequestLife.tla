----------------------------- MODULE RequestLife -----------------------------
(***************************************************************************)
(* What the handler, the pending lists, the pacer, the queues and the sweep *)
(* promise of a learner's request: it waits from the answer on, in one      *)
(* place, until one worker takes it, and only a workshop's end takes it     *)
(* away before -- its own workshop's.                                       *)
(***************************************************************************)
CONSTANTS Request, Enrolled

VARIABLE place  \* per request "out", "waiting", "taken" or "swept"

Init == place = [r \in Request |-> "out"]

Moves(r, from, to) == place[r] = from /\ place' = [place EXCEPT ![r] = to]

Enter(r) == Moves(r, "out", "waiting")
Take(r) == Moves(r, "waiting", "taken")
Sweep(r) == r \in Enrolled /\ Moves(r, "waiting", "swept")

Next == \E r \in Request : Enter(r) \/ Take(r) \/ Sweep(r)

Spec == Init /\ [][Next]_place
=============================================================================
