--------------------------- MODULE SessionTeardown ---------------------------
(***************************************************************************)
(* A training session from its provisioning to its terminal record, and    *)
(* the parties that may end it: the dashboard's terminate                  *)
(* (ops-server/dashboard/app.py) and its sweep of an ended workshop        *)
(* (ops-server/dashboard/workshop_fleet.py), the agent's listener and      *)
(* reconciler (ops-server/worker-agent/agent.py), the master's reconciler  *)
(* and expiry reaper (ops-server/workers/manager.py).  They meet in the    *)
(* Redis hash job:running:{id}, in the agent's memory and in the slot's    *)
(* container.                                                              *)
(*                                                                         *)
(* A step is one Redis command or one stretch of the agent between awaits. *)
(* Docker resolves the name of a container when `docker rm` arrives, long  *)
(* before a slot can be rebuilt under it, so a kill is one step; so are a  *)
(* reconciler's HSET of job:final and its DEL, since no task of the agent  *)
(* survives to see the two apart.  The TTLs of the hashes (a day, a week)  *)
(* are longer than the behaviours modelled.  The sweep takes a workshop's  *)
(* sessions through each of its loops together; here each session goes     *)
(* through them by itself, which allows the code's orders and more.        *)
(***************************************************************************)
EXTENDS Integers, FiniteSets

CONSTANTS
  Session,        \* sessions, one job id each
  Slot,           \* the agent's Sysbox slots that are not lost, by container name
  Permits,        \* of the agent's semaphore; a lost slot takes none away
  MaxRequests,    \* bound: terminate requests, expiries and sweeps
  MaxCrashes,     \* bound: crashes of the agent
  MaxLapses,      \* bound: lapses of its registration while it runs
  None            \* nothing

ASSUME TeardownAssumption ==
  /\ IsFiniteSet(Session) /\ None \notin Session /\ None \notin Slot
  /\ "warm" \notin Session /\ "warm" # None
  /\ Permits \in Nat \ {0}
  /\ MaxRequests \in Nat /\ MaxCrashes \in Nat /\ MaxLapses \in Nat

VARIABLES
  owner,       \* job:running: "absent", or its worker_id: "queued", "agent",
               \* or "nobody" for a hash without one
  flag,        \* the sessions whose hash has terminating=1
  sbName,      \* the sb_name of the hash
  entry,       \* the provision handler: "new", "recorded" or "done"
  queue,       \* sessions waiting in the queue
  final,       \* job:final: "none", "completed" (for failed, too) or "terminated"
  ask,         \* per session, a request to end it: "none", or how far it is,
               \* "read" and "flagged" a terminate, "expired" an expiry, the rest
               \* the end of its workshop
  inbox,       \* messages of ops:terminate on their way to the listener
  registered,  \* whether worker:{id} exists
  up,          \* whether the agent runs
  task,        \* per session, where its coroutine is
  slotOf,      \* _job_slots
  held,        \* the slot the coroutine has, until the pool takes it back
  terminated,  \* _terminated_jobs
  wasTerm,     \* the finally's local was_terminated
  intent,      \* the sessions the reaper was told to terminate
  free,        \* the pool's free slots
  runs,        \* Docker: what runs under a slot's name: None, "warm", a session
  killed,      \* history: sessions whose container their own kill removed
  swept,       \* history: sessions whose record the end of the workshop deleted
  requests, crashes, lapses   \* how often, each up to its bound

record  == <<owner, flag, sbName>>
master  == <<ask, inbox, registered, requests, lapses>>
agent   == <<task, slotOf, held, terminated, wasTerm, intent, free>>
entered == <<entry, queue>>
history == <<killed, swept>>
vars    == <<record, entered, final, master, up, agent, runs, history, crashes>>

Requests == {"none", "read", "flagged", "expired",
             "ending", "stopping", "dequeuing", "looking", "dropping"}

Steps == {"none", "claimed", "waiting", "naming", "setup", "watching",
          "releasing", "reporting", "erasing"}

Init ==
  /\ owner = [s \in Session |-> "absent"] /\ flag = {}
  /\ sbName = [s \in Session |-> None]
  /\ entry = [s \in Session |-> "new"] /\ queue = {}
  /\ final = [s \in Session |-> "none"]
  /\ ask = [s \in Session |-> "none"] /\ inbox = {}
  /\ registered = TRUE /\ up = TRUE
  /\ task = [s \in Session |-> "none"]
  /\ slotOf = [s \in Session |-> None] /\ held = [s \in Session |-> None]
  /\ terminated = {} /\ wasTerm = {} /\ intent = {}
  /\ free = Slot /\ runs = [n \in Slot |-> "warm"]
  /\ killed = {} /\ swept = {} /\ requests = 0 /\ crashes = 0 /\ lapses = 0

Active(s) == task[s] # "none"   \* s in active_jobs

Goto(s, step) == task' = [task EXCEPT ![s] = step]

(* DEL job:running:{id}. *)
DeleteRecord(s) ==
  /\ owner' = [owner EXCEPT ![s] = "absent"] /\ flag' = flag \ {s}
  /\ sbName' = [sbName EXCEPT ![s] = None]

(* HSET of a field other than worker_id: it creates a missing hash. *)
Touched(s) == [owner EXCEPT ![s] = IF @ = "absent" THEN "nobody" ELSE @]

(* HSET job:final and DEL job:running, of both reconcilers. *)
ForceCleanOrphan(s) ==
  /\ final' = [final EXCEPT ![s] = "terminated"]
  /\ DeleteRecord(s)

-----------------------------------------------------------------------------
(* The dashboard. *)

(* arena_provision: HSET of the record, with worker_id "queued" ... *)
Provision(s) ==
  /\ entry[s] = "new"
  /\ owner' = [owner EXCEPT ![s] = "queued"]
  /\ entry' = [entry EXCEPT ![s] = "recorded"]
  /\ UNCHANGED <<flag, sbName, queue, final, master, up, agent, runs, history, crashes>>

(* ... and, once the queue to use is known, the job, whatever has become   *)
(* of the record; or the dashboard dies in between.                        *)
Enqueue(s) ==
  /\ entry[s] = "recorded"
  /\ entry' = [entry EXCEPT ![s] = "done"]
  /\ queue' \in {queue, queue \cup {s}}
  /\ UNCHANGED <<record, final, master, up, agent, runs, history, crashes>>

(* Terminate: EXISTS and HGETALL, after which the tokens are revoked ... *)
AskRead(s) ==
  /\ ask[s] = "none" /\ requests < MaxRequests
  /\ owner[s] # "absent"
  /\ ask' = [ask EXCEPT ![s] = "read"] /\ requests' = requests + 1
  /\ UNCHANGED <<record, entered, final, inbox, registered, lapses, up, agent, runs, history, crashes>>

(* ... HSET terminating ... *)
AskFlag(s) ==
  /\ ask[s] = "read"
  /\ owner' = Touched(s) /\ flag' = flag \cup {s}
  /\ ask' = [ask EXCEPT ![s] = "flagged"]
  /\ UNCHANGED <<sbName, entered, final, inbox, registered, requests, lapses, up, agent, runs,
                 history, crashes>>

(* ... and PUBLISH, which reaches the agent only if it is there. *)
AskPublish(s) ==
  /\ ask[s] = "flagged"
  /\ ask' = [ask EXCEPT ![s] = "none"]
  /\ \/ inbox' = inbox
     \/ up /\ inbox' = inbox \cup {s}
  /\ UNCHANGED <<record, entered, final, registered, requests, lapses, up, agent, runs, history, crashes>>

(* The end of the session's workshop, _terminate_workshop_sessions: the    *)
(* record names the workshop ...                                           *)
SweepRead(s) ==
  /\ ask[s] = "none" /\ requests < MaxRequests
  /\ owner[s] \in {"queued", "agent"}
  /\ ask' = [ask EXCEPT ![s] = "ending"] /\ requests' = requests + 1
  /\ UNCHANGED <<record, entered, final, inbox, registered, lapses, up, agent, runs, history, crashes>>

(* ... HSET terminating, whose failure leaves only the queues to do ... *)
SweepFlag(s) ==
  /\ ask[s] = "ending"
  /\ \/ /\ owner' = Touched(s) /\ flag' = flag \cup {s}
        /\ ask' = [ask EXCEPT ![s] = "stopping"]
     \/ /\ UNCHANGED <<owner, flag>>
        /\ ask' = [ask EXCEPT ![s] = "dequeuing"]
  /\ UNCHANGED <<sbName, entered, final, inbox, registered, requests, lapses, up, agent, runs,
                 history, crashes>>

(* ... PUBLISH ... *)
SweepPublish(s) ==
  /\ ask[s] = "stopping"
  /\ ask' = [ask EXCEPT ![s] = "dequeuing"]
  /\ \/ inbox' = inbox
     \/ up /\ inbox' = inbox \cup {s}
  /\ UNCHANGED <<record, entered, final, registered, requests, lapses, up, agent, runs, history, crashes>>

(* ... LREM of the job, unless its queue cannot be read ... *)
SweepDequeue(s) ==
  /\ ask[s] = "dequeuing"
  /\ ask' = [ask EXCEPT ![s] = "looking"]
  /\ queue' \in {queue, queue \ {s}}
  /\ UNCHANGED <<record, entry, final, inbox, registered, requests, lapses, up, agent, runs,
                 history, crashes>>

(* ... HGETALL once more: does it say that no worker has it? ... *)
SweepLook(s) ==
  /\ ask[s] = "looking"
  /\ ask' = [ask EXCEPT ![s] = IF owner[s] = "queued" THEN "dropping" ELSE "none"]
  /\ UNCHANGED <<record, entered, final, inbox, registered, requests, lapses, up, agent, runs,
                 history, crashes>>

(* ... and DEL, without a terminal record, whoever has claimed it since. *)
SweepDrop(s) ==
  /\ ask[s] = "dropping"
  /\ DeleteRecord(s)
  /\ ask' = [ask EXCEPT ![s] = "none"]
  /\ swept' = swept \cup {s}
  /\ UNCHANGED <<entered, final, inbox, registered, requests, lapses, up, agent, runs, killed,
                 crashes>>

-----------------------------------------------------------------------------
(* The master. *)

(* _expiry_reaper: HGETALL, the deadline has passed ... *)
ExpiryRead(s) ==
  /\ ask[s] = "none" /\ requests < MaxRequests
  /\ owner[s] \in {"queued", "agent"} /\ s \notin flag
  /\ ask' = [ask EXCEPT ![s] = "expired"] /\ requests' = requests + 1
  /\ UNCHANGED <<record, entered, final, inbox, registered, lapses, up, agent, runs, history, crashes>>

(* ... and HSET terminating, without a message. *)
ExpiryFlag(s) ==
  /\ ask[s] = "expired"
  /\ owner' = Touched(s) /\ flag' = flag \cup {s}
  /\ ask' = [ask EXCEPT ![s] = "none"]
  /\ UNCHANGED <<sbName, entered, final, inbox, registered, requests, lapses, up, agent, runs,
                 history, crashes>>

(* _terminate_reconciler: a worker that is not registered is dead, so its  *)
(* records are reaped.  A job nobody has claimed is no candidate.          *)
MasterReap_Queued(s) ==  \* mutant: "queued" is taken for a worker
  /\ owner[s] \in {"queued", "agent"} /\ (owner[s] = "queued" \/ ~registered)
  /\ ForceCleanOrphan(s)
  /\ UNCHANGED <<entered, master, up, agent, runs, history, crashes>>

MasterReap(s) ==
  /\ owner[s] = "agent" /\ ~registered
  /\ ForceCleanOrphan(s)
  /\ UNCHANGED <<entered, master, up, agent, runs, history, crashes>>

(* The TTL of worker:{id} ends, of a dead agent's or of one that Redis has *)
(* not heard of for REGISTRATION_TTL; the heartbeat writes it again.       *)
Lapse ==
  /\ registered /\ registered' = FALSE
  /\ \/ ~up /\ UNCHANGED lapses
     \/ up /\ lapses < MaxLapses /\ lapses' = lapses + 1
  /\ UNCHANGED <<record, entered, final, ask, inbox, requests, up, agent, runs, history, crashes>>

Heartbeat ==
  /\ up /\ ~registered
  /\ registered' = TRUE
  /\ UNCHANGED <<record, entered, final, ask, inbox, requests, lapses, up, agent, runs, history, crashes>>

-----------------------------------------------------------------------------
(* The agent: a session's coroutine (_consume_queue, _run_job). *)

Pop(s) ==
  /\ up /\ s \in queue
  /\ Cardinality({t \in Session : Active(t)}) < Permits
  /\ queue' = queue \ {s}
  /\ Goto(s, "claimed")
  /\ UNCHANGED <<record, entry, final, master, up, slotOf, held, terminated, wasTerm, intent,
                 free, runs, history, crashes>>

(* HSET job:running: worker_id is overwritten, terminating is not. *)
Claim(s) ==
  /\ task[s] = "claimed"
  /\ owner' = [owner EXCEPT ![s] = "agent"]
  /\ Goto(s, "waiting")
  /\ UNCHANGED <<flag, sbName, entered, final, master, up, slotOf, held, terminated,
                 wasTerm, intent, free, runs, history, crashes>>

(* The pool hands out a slot whose container runs (see SysboxPool). *)
Take(s, n) ==
  /\ task[s] = "waiting" /\ n \in free
  /\ free' = free \ {n}
  /\ slotOf' = [slotOf EXCEPT ![s] = n] /\ held' = [held EXCEPT ![s] = n]
  /\ runs' = [runs EXCEPT ![n] = s]
  /\ Goto(s, "naming")
  /\ UNCHANGED <<record, entered, final, master, up, terminated, wasTerm, intent,
                 history, crashes>>

(* HSET sb_name. *)
Name(s) ==
  /\ task[s] = "naming"
  /\ owner' = Touched(s) /\ sbName' = [sbName EXCEPT ![s] = slotOf[s]]
  /\ Goto(s, "setup")
  /\ UNCHANGED <<flag, entered, final, master, up, slotOf, held, terminated, wasTerm,
                 intent, free, runs, history, crashes>>

(* The setup succeeded: the container's ID is known and watched. *)
Watch(s) ==
  /\ task[s] = "setup" /\ runs[slotOf[s]] = s
  /\ Goto(s, "watching")
  /\ UNCHANGED <<record, entered, final, master, up, slotOf, held, terminated, wasTerm,
                 intent, free, runs, history, crashes>>

(* The finally up to the await of pool.release. *)
Finally_NotRead(s) ==  \* mutant: was_terminated is not read here
  /\ slotOf' = [slotOf EXCEPT ![s] = None]
  /\ Goto(s, "releasing")
  /\ UNCHANGED <<record, entered, final, master, up, held, terminated, wasTerm, intent, free,
                 runs, history, crashes>>

Finally(s) ==
  /\ slotOf' = [slotOf EXCEPT ![s] = None]
  /\ wasTerm' = IF s \in terminated THEN wasTerm \cup {s} ELSE wasTerm
  /\ Goto(s, "releasing")
  /\ UNCHANGED <<record, entered, final, master, up, held, terminated, intent, free,
                 runs, history, crashes>>

(* The container is gone: setup fails, or the watch resolves. *)
Wake(s) ==
  /\ task[s] \in {"setup", "watching"} /\ runs[slotOf[s]] # s
  /\ Finally(s)

(* The setup fails by itself; a session that runs may end by itself. *)
SetupFails(s) == task[s] = "setup" /\ Finally(s)

Exits(s) == task[s] = "watching" /\ Finally(s)

(* The reaper was told of the session: it kills the container by its ID,   *)
(* or gives up and frees the coroutine (see ContainerReaper).              *)
ReaperFrees(s) ==
  /\ task[s] = "watching" /\ s \in intent
  /\ Finally(s)

(* pool.release: wiped or rebuilt, the slot has a warm container again. *)
Release_PoppedSlot(s) ==  \* mutant: gives back what _job_slots has by now
  /\ task[s] = "releasing"
  /\ free' = free \cup {slotOf[s]} /\ held' = [held EXCEPT ![s] = None]
  /\ Goto(s, "reporting")
  /\ UNCHANGED <<record, entered, final, master, up, slotOf, terminated, wasTerm, intent,
                 runs, history, crashes>>

Release(s) ==
  /\ task[s] = "releasing"
  /\ free' = free \cup {held[s]} /\ held' = [held EXCEPT ![s] = None]
  /\ runs' = [runs EXCEPT ![held[s]] = "warm"]
  /\ Goto(s, "reporting")
  /\ UNCHANGED <<record, entered, final, master, up, slotOf, terminated, wasTerm, intent,
                 history, crashes>>

(* forget, the status, jobs:completed and job:final. *)
Report_NoFinal(s) ==  \* mutant: only the history is written
  /\ task[s] = "reporting"
  /\ terminated' = IF s \in wasTerm THEN terminated \ {s} ELSE terminated
  /\ intent' = intent \ {s} /\ wasTerm' = wasTerm \ {s}
  /\ Goto(s, "erasing")
  /\ UNCHANGED <<record, entered, final, master, up, slotOf, held, free, runs, history,
                 crashes>>

Report(s) ==
  /\ task[s] = "reporting"
  /\ final' = [final EXCEPT ![s] = IF s \in wasTerm THEN "terminated" ELSE "completed"]
  /\ terminated' = IF s \in wasTerm THEN terminated \ {s} ELSE terminated
  /\ intent' = intent \ {s} /\ wasTerm' = wasTerm \ {s}
  /\ Goto(s, "erasing")
  /\ UNCHANGED <<record, entered, master, up, slotOf, held, free, runs, history, crashes>>

(* DEL job:running and the end of the task. *)
Erase(s) ==
  /\ task[s] = "erasing"
  /\ DeleteRecord(s)
  /\ Goto(s, "none")
  /\ UNCHANGED <<entered, final, master, up, slotOf, held, terminated, wasTerm, intent,
                 free, runs, history, crashes>>

-----------------------------------------------------------------------------
(* The agent: listener and reconciler. *)

(* _kill_job_container: remember, tell the reaper, and `docker rm` by name *)
(* the slot's container, or the one the record names.  A removal may fail. *)
KillJobContainer(s) ==
  LET n == IF slotOf[s] # None THEN slotOf[s] ELSE sbName[s] IN
  /\ terminated' = terminated \cup {s}
  /\ intent' = IF task[s] \in {"watching", "releasing"} THEN intent \cup {s} ELSE intent
  /\ \/ UNCHANGED <<runs, killed>>
     \/ /\ n # None /\ runs[n] # None
        /\ runs' = [runs EXCEPT ![n] = None]
        /\ killed' = IF runs[n] = s /\ slotOf[s] = n THEN killed \cup {s} ELSE killed
  /\ UNCHANGED <<task, slotOf, held, wasTerm, free, swept>>

(* _terminate_listener: any job in active_jobs, whatever its step. *)
Listen(s) ==
  /\ up /\ s \in inbox
  /\ inbox' = inbox \ {s}
  /\ IF Active(s) THEN KillJobContainer(s) ELSE UNCHANGED <<agent, runs, history>>
  /\ UNCHANGED <<record, entered, final, ask, registered, requests, lapses, up, crashes>>

Reconcilable(s) == up /\ owner[s] = "agent" /\ s \in flag

ReconcileKill_NoSlot(s) ==  \* mutant: a live task is killed at any step
  /\ Reconcilable(s) /\ Active(s)
  /\ KillJobContainer(s)
  /\ UNCHANGED <<record, entered, final, master, up, crashes>>

ReconcileKill_SkipsActive(s) ==  \* mutant: live tasks are left to the listener
  /\ Reconcilable(s) /\ FALSE
  /\ KillJobContainer(s)
  /\ UNCHANGED <<record, entered, final, master, up, crashes>>

(* _terminate_reconciler: a live task is killed while it has its slot ... *)
ReconcileKill(s) ==
  /\ Reconcilable(s) /\ Active(s) /\ slotOf[s] # None
  /\ KillJobContainer(s)
  /\ UNCHANGED <<record, entered, final, master, up, crashes>>

(* ... and a record without a task is cleaned in Redis only. *)
ReconcileClean(s) ==
  /\ Reconcilable(s) /\ ~Active(s)
  /\ ForceCleanOrphan(s)
  /\ terminated' = terminated \ {s}
  /\ UNCHANGED <<entered, master, up, task, slotOf, held, wasTerm, intent, free, runs,
                 history, crashes>>

(* The agent dies; when it starts again the pool is rebuilt. *)
Crash ==
  /\ up /\ crashes < MaxCrashes /\ crashes' = crashes + 1
  /\ up' = FALSE /\ inbox' = {}
  /\ task' = [s \in Session |-> "none"]
  /\ slotOf' = [s \in Session |-> None] /\ held' = [s \in Session |-> None]
  /\ terminated' = {} /\ wasTerm' = {} /\ intent' = {} /\ free' = {}
  /\ UNCHANGED <<record, entered, final, ask, registered, requests, lapses, runs, history>>

Restart ==
  /\ ~up
  /\ up' = TRUE /\ registered' = TRUE
  /\ free' = Slot /\ runs' = [n \in Slot |-> "warm"]
  /\ UNCHANGED <<record, entered, final, ask, inbox, requests, lapses, task, slotOf, held,
                 terminated, wasTerm, intent, history, crashes>>

-----------------------------------------------------------------------------
Coroutine(s) ==
  \/ Claim(s) \/ (\E n \in Slot : Take(s, n)) \/ Name(s) \/ Wake(s)
  \/ ReaperFrees(s) \/ Release(s) \/ Report(s) \/ Erase(s)

Next ==
  \/ \E s \in Session :
       \/ Provision(s) \/ Enqueue(s) \/ AskRead(s) \/ AskFlag(s) \/ AskPublish(s)
       \/ SweepRead(s) \/ SweepFlag(s) \/ SweepPublish(s)
       \/ SweepDequeue(s) \/ SweepLook(s) \/ SweepDrop(s)
       \/ ExpiryRead(s) \/ ExpiryFlag(s) \/ MasterReap(s)
       \/ Pop(s) \/ Coroutine(s) \/ Watch(s) \/ SetupFails(s) \/ Exits(s)
       \/ Listen(s) \/ ReconcileKill(s) \/ ReconcileClean(s)
  \/ Lapse \/ Heartbeat \/ Crash \/ Restart

Spec == Init /\ [][Next]_vars

(* A coroutine goes on when it can, a setup ends, the pool serves its      *)
(* waiters in order, both loops of the agent come round, systemd restarts  *)
(* it.  Nothing makes the dashboard finish a request or a message arrive.  *)
Fairness ==
  /\ WF_vars(Restart)
  /\ \A s \in Session :
       /\ WF_vars(Pop(s)) /\ SF_vars(\E n \in Slot : Take(s, n))
       /\ WF_vars(Coroutine(s)) /\ WF_vars(Watch(s) \/ SetupFails(s))
       /\ SF_vars(ReconcileKill(s)) /\ WF_vars(ReconcileClean(s))

FairSpec == Spec /\ Fairness

-----------------------------------------------------------------------------
(* Properties. *)

TypeOK ==
  /\ owner \in [Session -> {"absent", "queued", "agent", "nobody"}]
  /\ flag \subseteq Session /\ sbName \in [Session -> Slot \cup {None}]
  /\ entry \in [Session -> {"new", "recorded", "done"}] /\ queue \subseteq Session
  /\ final \in [Session -> {"none", "completed", "terminated"}]
  /\ ask \in [Session -> Requests]
  /\ inbox \subseteq Session /\ registered \in BOOLEAN /\ up \in BOOLEAN
  /\ task \in [Session -> Steps]
  /\ slotOf \in [Session -> Slot \cup {None}]
  /\ held \in [Session -> Slot \cup {None}]
  /\ terminated \subseteq Session /\ wasTerm \subseteq Session
  /\ intent \subseteq Session /\ free \subseteq Slot
  /\ runs \in [Slot -> Session \cup {None, "warm"}]
  /\ killed \subseteq Session /\ swept \subseteq Session
  /\ requests \in 0 .. MaxRequests /\ crashes \in 0 .. MaxCrashes
  /\ lapses \in 0 .. MaxLapses

(* A learner who polls session-status never gets a bare "expired" for a    *)
(* session that was started: the running record goes, whoever deletes it   *)
(* of the five, only when there is a terminal one.  Excepted is what the   *)
(* end of a workshop deletes, which took the session for one that no       *)
(* worker has touched.                                                     *)
NeverVanishes ==
  [][\A s \in Session :
       owner[s] # "absent" /\ owner'[s] = "absent" =>
         final'[s] # "none" \/ ask[s] = "dropping"]_vars

(* A session that waits or runs can be found and terminated: it has a      *)
(* record, and once it is up the record names its worker and container.    *)
(* Two may take that away: the master, which takes an agent for dead whose *)
(* registration lapsed, and the end of the session's own workshop, which   *)
(* may look at the record before the claim and delete it after.            *)
LiveHasRecord ==
  lapses = 0 => \A s \in Session \ swept :
    /\ s \in queue => owner[s] # "absent"
    /\ task[s] \in {"setup", "watching"} => owner[s] = "agent" /\ sbName[s] = slotOf[s]

(* A kill is not forgotten: while the slot of a killed session is on its   *)
(* way back the finally knows that its container is dead, so that it is    *)
(* rebuilt and not handed to the next learner, and the session is never    *)
(* reported as completed.                                                  *)
KillIsRemembered ==
  \A s \in killed :
    /\ task[s] \in {"releasing", "reporting"} => s \in wasTerm
    /\ final[s] # "completed"

(* "This guarantees a terminated session always converges to a clean       *)
(* state": a flagged session of this agent loses its record, although      *)
(* messages are lost, removals fail and the agent restarts -- unless it    *)
(* still waits for a slot, where neither listener nor reconciler ends it.  *)
TerminationConverges ==
  \A s \in Session :
    s \in flag /\ owner[s] = "agent" /\ task[s] # "waiting" ~> owner[s] = "absent"

(* The same of every flagged record, whoever owns it. *)
FlaggedRecordGoes == \A s \in Session : s \in flag ~> s \notin flag

(* "Re-killing could hit a reused slot": the container of a session is     *)
(* removed while it runs only if its own termination was asked for.        *)
HitsItsOwn ==
  \A n \in Slot, s \in Session :
    runs[n] = s /\ slotOf[s] = n /\ runs'[n] = None => s \in terminated'

KillHitsItsOwn == [][HitsItsOwn]_vars

(* The same of the kills that answer no message: the reconciler's. *)
ReconcilerHitsItsOwn == [][inbox' = inbox => HitsItsOwn]_vars
=============================================================================
