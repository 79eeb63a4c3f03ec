--------------------------- MODULE ContainerWatch ---------------------------
(***************************************************************************)
(* What the container reaper promises the job coroutines that await it     *)
(* (the "three properties" of ops-server/worker-agent/reaper.py), without  *)
(* saying how: a watched container's waiter is resolved once, as "exited"  *)
(* only if the container is gone, as "abandoned" only if its termination   *)
(* was asked for.                                                          *)
(***************************************************************************)

CONSTANT Cid   \* container IDs, "unique for all time"

VARIABLES
  up,      \* the containers that run
  outcome, \* per container, what its waiter was told
  intent   \* the containers whose termination was asked for

vars == <<up, outcome, intent>>

Outcomes == {"none", "pending", "exited", "abandoned", "stopped"}

Init ==
  /\ up = {}
  /\ outcome = [c \in Cid |-> "none"]
  /\ intent = {}

(* A container starts, or stops for whatever reason. *)
UpChanges ==
  /\ up' \in SUBSET Cid
  /\ \A c \in up' \ up : outcome[c] = "none"
  /\ UNCHANGED <<outcome, intent>>

Watch(c) ==
  /\ outcome[c] = "none"
  /\ outcome' = [outcome EXCEPT ![c] = "pending"]
  /\ UNCHANGED <<up, intent>>

Ask(c) ==
  /\ outcome[c] # "none"
  /\ intent' = intent \cup {c}
  /\ UNCHANGED <<up, outcome>>

(* One pass may tell several waiters, each of them for a good reason. *)
Tell(told) ==
  /\ told # {}
  /\ \A c \in told : outcome[c] = "pending"
  /\ outcome' \in [Cid -> Outcomes]
  /\ \A c \in Cid \ told : outcome'[c] = outcome[c]
  /\ \A c \in told :
       \/ outcome'[c] = "exited" /\ c \notin up
       \/ outcome'[c] = "abandoned" /\ c \in intent
       \/ outcome'[c] = "stopped"
  /\ up' \subseteq up
  /\ UNCHANGED intent

Next ==
  \/ UpChanges
  \/ \E c \in Cid : Watch(c) \/ Ask(c)
  \/ \E told \in SUBSET Cid : Tell(told)

Spec == Init /\ [][Next]_vars
=============================================================================
