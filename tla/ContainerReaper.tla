-------------------------- MODULE ContainerReaper --------------------------
(***************************************************************************)
(* The container reaper of a worker (ops-server/worker-agent/reaper.py): a *)
(* poller that lists the running containers and resolves the future of     *)
(* every watched container that is gone, and that kills the containers     *)
(* whose termination was asked for, giving up after MaxKillAttempts.       *)
(*                                                                         *)
(* Around it: the daemon coroutine that watches (executor.py,              *)
(* execute_daemon), the finally that forgets (agent.py, _run_job), the     *)
(* terminate path that records the intent (agent.py, _kill_job_container)  *)
(* and Docker.  A step runs from one await to the next: the listing and    *)
(* each kill are awaited, so everything else may happen meanwhile.         *)
(***************************************************************************)
EXTENDS Integers, FiniteSets

CONSTANTS
  Cid,             \* container IDs, one per session ever held
  MaxKillAttempts, \* MAX_KILL_ATTEMPTS
  ListingFaults,   \* how `docker ps` may go wrong: subset of {"raises", "fails"}
  None             \* no container

ASSUME ReaperAssumption ==
  /\ None \notin Cid
  /\ MaxKillAttempts \in Nat \ {0}
  /\ ListingFaults \subseteq {"raises", "fails"}

VARIABLES
  up,          \* Docker: the containers that run
  outcome,     \* per container: "none"; "known", its ID was read; then its
               \* future: "pending" or the result
  finished,    \* the sessions whose job coroutine is over
  watched,     \* keys of _watched
  terminating, \* _terminating
  attempts,    \* _attempts, 0 where there is no entry
  phase,       \* where the poller is: "asleep", "listing", "listed", "killing"
  running,     \* tick's local: the result of the listing
  todo,        \* tick's local: the copy of _terminating still to go through
  killing,     \* tick's local: the container whose kill is awaited
  attempt,     \* tick's local: the number of that attempt
  intent       \* history: request_terminate was called

docker   == <<up>>
poller   == <<phase, running, todo, killing, attempt>>
books    == <<watched, terminating, attempts>>
history  == <<intent>>
vars     == <<up, outcome, finished, books, poller, history>>

Final == {"exited", "abandoned", "stopped"}

Init ==
  /\ up = {} /\ outcome = [c \in Cid |-> "none"] /\ finished = {}
  /\ watched = {} /\ terminating = {} /\ attempts = [c \in Cid |-> 0]
  /\ phase = "asleep" /\ running = {} /\ todo = {}
  /\ killing = None /\ attempt = 0
  /\ intent = {}

-----------------------------------------------------------------------------
(* Docker and the coroutines.                                              *)

(* A slot's container comes up.  Between this and its watch lie the clone  *)
(* and the setup of a session, which take far longer than the event loop   *)
(* takes to pick up a finished listing: a container does not start while   *)
(* one is being picked up.                                                 *)
Start(c) ==
  /\ c \notin up /\ outcome[c] = "none" /\ phase # "listed"
  /\ up' = up \cup {c}
  /\ UNCHANGED <<outcome, finished, books, poller, history>>

(* It exits by itself, or the terminate path's own `docker rm` lands. *)
Exit(c) ==
  /\ c \in up
  /\ up' = up \ {c}
  /\ UNCHANGED <<outcome, finished, books, poller, history>>

(* container_id_of answers: the container was there when it was asked for. *)
Inspect(c) ==
  /\ outcome[c] = "none" /\ c \in up
  /\ outcome' = [outcome EXCEPT ![c] = "known"]
  /\ UNCHANGED <<docker, finished, books, poller, history>>

(* execute_daemon: on_container, then watch, with no await between them.   *)
(* Nothing in the agent stops the reaper, so nothing watches after stop.   *)
Watch(c) ==
  /\ outcome[c] = "known" /\ phase # "stopped"
  /\ outcome' = [outcome EXCEPT ![c] = "pending"]
  /\ watched' = watched \cup {c}
  /\ UNCHANGED <<docker, finished, terminating, attempts, poller, history>>

(* _kill_job_container, while the job is known by its container ID. *)
RequestTerminate(c) ==
  /\ outcome[c] \notin {"none", "known"} /\ c \notin finished
  /\ terminating' = terminating \cup {c}
  /\ intent' = intent \cup {c}
  /\ UNCHANGED <<docker, outcome, finished, watched, attempts, poller>>

Forget(c) ==
  /\ watched' = watched \ {c}
  /\ terminating' = terminating \ {c}
  /\ attempts' = [attempts EXCEPT ![c] = 0]

(* Mutant: only a watch that is still there is forgotten. *)
Finish_ForgetsWatchOnly(c) ==
  /\ outcome[c] \in Final /\ c \notin finished
  /\ finished' = finished \cup {c}
  /\ watched' = watched \ {c}
  /\ UNCHANGED <<docker, outcome, terminating, attempts, poller, history>>

(* The coroutine resumes from its future; _run_job's finally forgets. *)
Finish(c) ==
  /\ outcome[c] \in Final /\ c \notin finished
  /\ finished' = finished \cup {c}
  /\ Forget(c)
  /\ UNCHANGED <<docker, outcome, poller, history>>

-----------------------------------------------------------------------------
(* tick.                                                                   *)

BeginTick ==
  /\ phase = "asleep" /\ watched # {}
  /\ phase' = "listing"
  /\ UNCHANGED <<docker, outcome, finished, books, running, todo, killing, attempt, history>>

(* Mutant: a listing that failed counts as an empty one. *)
ListRunning_EmptyOnError ==
  /\ phase = "listing"
  /\ running' \in {up, {}}
  /\ phase' = "listed"
  /\ UNCHANGED <<docker, outcome, finished, books, todo, killing, attempt, history>>

(* `docker ps` answers: with the containers that run now; or, when the     *)
(* command fails, with nothing on stdout -- docker_list_running does not   *)
(* look at its return code.                                                *)
ListRunning ==
  /\ phase = "listing"
  /\ \/ running' = up
     \/ "fails" \in ListingFaults /\ running' = {}
  /\ phase' = "listed"
  /\ UNCHANGED <<docker, outcome, finished, books, todo, killing, attempt, history>>

(* The command could not be started: tick returns, nothing is resolved. *)
ListRaises ==
  /\ phase = "listing" /\ "raises" \in ListingFaults
  /\ phase' = "asleep"
  /\ UNCHANGED <<docker, outcome, finished, books, running, todo, killing, attempt, history>>

(* Resolve a future that is not done. *)
Resolved(c, reason) == IF outcome[c] = "pending" THEN reason ELSE outcome[c]

(* Mutant: only a terminate makes a missing container noticed. *)
Gone_OnlyTerminating == (watched \cap terminating) \ running

(* What is watched and no longer listed. *)
Gone == watched \ running

(* Mutant: the second loop goes over everything that is watched. *)
ToKill_AllWatched == watched \ Gone

(* The copy of _terminating the second loop goes over. *)
ToKill == terminating \ Gone

(* First loop, up to the first await of the second: resolve and forget     *)
(* what the listing does not show, then copy _terminating.                 *)
ReapGone ==
  /\ phase = "listed"
  /\ outcome' = [c \in Cid |->
       IF c \in Gone THEN Resolved(c, "exited") ELSE outcome[c]]
  /\ watched' = watched \ Gone
  /\ terminating' = terminating \ Gone
  /\ attempts' = [c \in Cid |-> IF c \in Gone THEN 0 ELSE attempts[c]]
  /\ todo' = ToKill
  /\ phase' = "killing"
  /\ UNCHANGED <<docker, finished, running, killing, attempt, history>>

Eligible == {c \in todo : c \in running /\ c \in watched}

(* One turn of the second loop: count the attempt, then await the kill. *)
BeginKill(c) ==
  /\ phase = "killing" /\ killing = None
  /\ c \in Eligible
  /\ attempts' = [attempts EXCEPT ![c] = @ + 1]
  /\ attempt' = attempts[c] + 1
  /\ todo' = todo \ {c}
  /\ killing' = c
  /\ UNCHANGED <<docker, outcome, finished, watched, terminating, phase,
                 running, history>>

(* Mutant: gives up one attempt later than it counts. *)
KillReturns_OneMore ==
  /\ killing # None
  /\ up' = up /\ killing' = None /\ attempt' = 0
  /\ IF attempt > MaxKillAttempts
     THEN /\ outcome' = [outcome EXCEPT ![killing] = Resolved(killing, "abandoned")]
          /\ Forget(killing)
     ELSE UNCHANGED <<outcome, books>>
  /\ UNCHANGED <<finished, phase, running, todo, history>>

(* The kill returns: True, and the container is gone, or False, and it may *)
(* be gone or not.  tick does not look at the result; after the last       *)
(* attempt the waiter is freed in any case.                                *)
KillReturns ==
  /\ killing # None
  /\ up' \in {up, up \ {killing}}
  /\ killing' = None /\ attempt' = 0
  /\ IF attempt >= MaxKillAttempts
     THEN /\ outcome' = IF killing \in watched
                        THEN [outcome EXCEPT ![killing] = Resolved(killing, "abandoned")]
                        ELSE outcome
          /\ Forget(killing)
     ELSE UNCHANGED <<outcome, books>>
  /\ UNCHANGED <<finished, phase, running, todo, history>>

EndTick ==
  /\ phase = "killing" /\ killing = None
  /\ Eligible = {}
  /\ phase' = "asleep" /\ todo' = {} /\ running' = {}
  /\ UNCHANGED <<docker, outcome, finished, books, killing, attempt, history>>

(* stop: cancel the poller wherever it waits, then free every waiter. *)
Stop ==
  /\ phase # "stopped"
  /\ phase' = "stopped" /\ running' = {} /\ todo' = {} /\ killing' = None
  /\ attempt' = 0
  /\ outcome' = [c \in Cid |->
       IF c \in watched THEN Resolved(c, "stopped") ELSE outcome[c]]
  /\ watched' = {}
  /\ UNCHANGED <<docker, finished, terminating, attempts, history>>

Tick == BeginTick \/ ListRunning \/ ListRaises \/ ReapGone
        \/ (\E c \in Cid : BeginKill(c)) \/ KillReturns \/ EndTick

Next ==
  \/ \E c \in Cid : Start(c) \/ Exit(c) \/ Inspect(c) \/ Watch(c)
                    \/ RequestTerminate(c) \/ Finish(c)
  \/ Tick
  \/ Stop

Spec == Init /\ [][Next]_vars

(* The poller's task runs whenever it can; a failing `docker ps` works     *)
(* again now and then; a kill returns; an awaited future that is resolved  *)
(* resumes its coroutine.                                                  *)
Fairness ==
  /\ WF_vars(BeginTick) /\ SF_vars(ListRunning) /\ WF_vars(ReapGone)
  /\ WF_vars(\E c \in Cid : BeginKill(c)) /\ WF_vars(KillReturns) /\ WF_vars(EndTick)
  /\ \A c \in Cid : WF_vars(Finish(c))

FairSpec == Spec /\ Fairness

-----------------------------------------------------------------------------
(* Properties.                                                             *)

TypeOK ==
  /\ up \subseteq Cid /\ finished \subseteq Cid /\ running \subseteq Cid
  /\ watched \subseteq Cid /\ terminating \subseteq Cid /\ todo \subseteq Cid
  /\ intent \subseteq Cid
  /\ outcome \in [Cid -> {"none", "known", "pending"} \cup Final]
  /\ attempts \in [Cid -> 0 .. MaxKillAttempts]
  /\ attempt \in 0 .. MaxKillAttempts
  /\ killing \in Cid \cup {None}
  /\ phase \in {"asleep", "listing", "listed", "killing", "stopped"}

(* "exited: container genuinely gone", "Resolving on a failed listing      *)
(* would report live sessions as dead": nobody is told "exited" while its  *)
(* container runs.                                                         *)
ExitedMeansGone == \A c \in Cid : outcome[c] = "exited" => c \notin up

(* "The reaper kills only what a terminate was requested for", and gives   *)
(* up only on that: an untargeted session is neither killed nor abandoned, *)
(* whatever the listing showed.                                            *)
UntargetedSurvive ==
  /\ \A c \in Cid : outcome[c] = "abandoned" => c \in intent
  /\ killing # None => killing \in intent /\ outcome[killing] = "pending"

(* _watched and the futures agree: a pending future is always one the      *)
(* poller still looks at, so no coroutine waits for nobody.                *)
PendingIsWatched ==
  \A c \in Cid : outcome[c] = "pending" <=> c \in watched

(* forget: when the job is over nothing of its container is left behind,   *)
(* also when the intent came after the outcome.                            *)
NothingLeftBehind ==
  \A c \in finished :
    c \notin watched /\ c \notin terminating /\ attempts[c] = 0

(* The reaper implements what it promises.  An ID that was read is not yet *)
(* watched.                                                                *)
Promise == INSTANCE ContainerWatch WITH
  outcome <- [c \in Cid |-> IF outcome[c] = "known" THEN "none" ELSE outcome[c]]
PromiseKept == Promise!Spec

(* "The waiter never depends on the killer succeeding", and "we look": a   *)
(* waiter is freed once its termination is asked for, even if no kill ever  *)
(* works, and once its container is gone, without any exit event.          *)
WaiterFreed ==
  \A c \in Cid :
    (outcome[c] = "pending" /\ (c \in intent \/ c \notin up)) ~> c \in finished
=============================================================================
