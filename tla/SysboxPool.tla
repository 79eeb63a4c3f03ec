----------------------------- MODULE SysboxPool -----------------------------
(***************************************************************************)
(* The pool of pre-warmed Sysbox containers of a worker                    *)
(* (ops-server/worker-agent/agent.py, class SysboxPool): init warms the    *)
(* slots in waves, acquire hands a live slot to a job coroutine, release   *)
(* wipes it or rebuilds its container and puts it back.                    *)
(*                                                                         *)
(* A coroutine gives up the event loop at every docker call, so a slot     *)
(* passes through named places: the queue, the hands of a job at one of    *)
(* the awaits of acquire or release, or the warm-up.  An attempt of        *)
(* _init_slot is two steps, the removal of the old container and the end.  *)
(***************************************************************************)
EXTENDS Integers, FiniteSets

CONSTANTS
  Slot,               \* the slots; their number is WORKER_CAPACITY
  Job,                \* the job coroutines that use the pool
  WarmMaxAttempts,    \* WARM_MAX_ATTEMPTS: waves of init
  WarmConcurrency,    \* WARM_CONCURRENCY: slots warmed at a time
  SlotReinitAttempts, \* SLOT_REINIT_ATTEMPTS of release
  DockerMayFail,      \* whether docker commands can fail
  MaxDeaths,          \* bound: containers that die on their own
  None                \* no slot

ASSUME PoolAssumption ==
  /\ IsFiniteSet(Slot) /\ Slot # {} /\ None \notin Slot
  /\ WarmMaxAttempts \in Nat \ {0} /\ WarmConcurrency \in Nat \ {0}
  /\ SlotReinitAttempts \in Nat \ {0}
  /\ DockerMayFail \in BOOLEAN /\ MaxDeaths \in Nat

VARIABLES
  queued,       \* _queue as a bag: how often a slot is in it
  alive,        \* Docker: the slots whose outer container runs
  everReady,    \* the slots with ever_ready
  readyCount,   \* ready_count
  degraded,     \* degraded
  firstReady,   \* the event first_ready
  warmComplete, \* the event warm_complete
  warm,         \* init: per slot "pending", "warming", "ready", "failed"
  wave,         \* init: the attempt
  pc,           \* per job, where it is in acquire or release
  slotOf,       \* per job, the slot its coroutine has in hand
  tries,        \* per job, release's attempt
  deaths,       \* containers that died so far
  fails,        \* history, per slot: _init_slot failures since it last succeeded
  dropped       \* history: the slots whose rebuild in acquire failed

flags    == <<everReady, readyCount, firstReady, fails>>
warmup   == <<degraded, warmComplete, warm, wave>>
jobs     == <<pc, slotOf, tries>>
vars     == <<queued, alive, flags, warmup, jobs, deaths, dropped>>

(* Containers of an earlier run of the agent, which has the same names, may *)
(* still be up.                                                            *)
Init ==
  /\ queued = [s \in Slot |-> 0]
  /\ alive \in SUBSET Slot /\ everReady = {}
  /\ readyCount = 0 /\ degraded = 0
  /\ firstReady = FALSE /\ warmComplete = FALSE
  /\ warm = [s \in Slot |-> "pending"] /\ wave = 1
  /\ pc = [j \in Job |-> "idle"] /\ slotOf = [j \in Job |-> None]
  /\ tries = [j \in Job |-> 0]
  /\ deaths = 0 /\ fails = [s \in Slot |-> 0] /\ dropped = {}

Outcomes == IF DockerMayFail THEN BOOLEAN ELSE {TRUE}

Put(s) == queued' = [queued EXCEPT ![s] = @ + 1]

(* docker rm -fv, whose errors and timeouts are swallowed: the container   *)
(* may stay.                                                               *)
RemoveContainer(s) ==
  \E gone \in Outcomes : alive' = IF gone THEN alive \ {s} ELSE alive

(* _init_slot, success: the container runs with its image; the slot counts *)
(* once, on its first warm, and goes into the queue.                       *)
SlotReady(s) ==
  /\ alive' = alive \cup {s}
  /\ everReady' = everReady \cup {s}
  /\ readyCount' = IF s \in everReady THEN readyCount ELSE readyCount + 1
  /\ firstReady' = (firstReady \/ s \notin everReady)
  /\ fails' = [fails EXCEPT ![s] = 0]
  /\ Put(s)

(* _init_slot, any of its failures: nothing is enqueued.  A container may  *)
(* be there all the same: the old one whose name was in the way of docker  *)
(* run, or a new one that a rm nobody waits for should remove.             *)
SlotFailed(s) ==
  /\ alive' \in {alive \ {s}, alive \cup {s}}
  /\ fails' = [fails EXCEPT ![s] = @ + 1]
  /\ UNCHANGED <<queued, everReady, readyCount, firstReady>>

InitSlotEnds(s, ok) == IF ok THEN SlotReady(s) ELSE SlotFailed(s)

-----------------------------------------------------------------------------
(* init.                                                                   *)

Warming == {s \in Slot : warm[s] = "warming"}

WarmBegin(s) ==
  /\ ~warmComplete
  /\ warm[s] = "pending" /\ Cardinality(Warming) < WarmConcurrency
  /\ warm' = [warm EXCEPT ![s] = "warming"]
  /\ RemoveContainer(s)
  /\ UNCHANGED <<queued, flags, degraded, warmComplete, wave, jobs, deaths, dropped>>

WarmEnd(s) ==
  /\ warm[s] = "warming"
  /\ \E ok \in Outcomes :
       /\ InitSlotEnds(s, ok)
       /\ warm' = [warm EXCEPT ![s] = IF ok THEN "ready" ELSE "failed"]
  /\ UNCHANGED <<degraded, warmComplete, wave, jobs, deaths, dropped>>

(* gather returned: retry the failed slots after a delay ... *)
WaveRetry ==
  /\ ~warmComplete /\ wave < WarmMaxAttempts
  /\ \A s \in Slot : warm[s] \in {"ready", "failed"}
  /\ \E s \in Slot : warm[s] = "failed"
  /\ warm' = [s \in Slot |-> IF warm[s] = "failed" THEN "pending" ELSE warm[s]]
  /\ wave' = wave + 1
  /\ UNCHANGED <<queued, alive, flags, degraded, warmComplete, jobs, deaths, dropped>>

(* Mutant: waiting consumers are left waiting. *)
WarmReport_Silent ==
  /\ ~warmComplete
  /\ \A s \in Slot : warm[s] \in {"ready", "failed"}
  /\ wave = WarmMaxAttempts \/ \A s \in Slot : warm[s] = "ready"
  /\ warmComplete' = TRUE
  /\ degraded' = Cardinality({s \in Slot : warm[s] = "failed"})
  /\ UNCHANGED <<queued, alive, flags, warm, wave, jobs, deaths, dropped>>

(* ... or report. *)
WarmReport ==
  /\ ~warmComplete
  /\ \A s \in Slot : warm[s] \in {"ready", "failed"}
  /\ wave = WarmMaxAttempts \/ \A s \in Slot : warm[s] = "ready"
  /\ warmComplete' = TRUE
  /\ degraded' = Cardinality(Slot) - Cardinality({s \in Slot : warm[s] = "ready"})
  /\ firstReady' = (firstReady \/ \A s \in Slot : warm[s] = "failed")
  /\ UNCHANGED <<queued, alive, everReady, readyCount, fails, warm, wave, jobs, deaths, dropped>>

-----------------------------------------------------------------------------
(* acquire.                                                                *)

(* The consumer starts jobs once first_ready is set. *)
Acquire(j) ==
  /\ pc[j] = "idle" /\ firstReady
  /\ pc' = [pc EXCEPT ![j] = "waiting"]
  /\ UNCHANGED <<queued, alive, flags, warmup, slotOf, tries, deaths, dropped>>

Take(j, s) ==
  /\ pc[j] = "waiting" /\ queued[s] > 0
  /\ queued' = [queued EXCEPT ![s] = @ - 1]
  /\ pc' = [pc EXCEPT ![j] = "probing"]
  /\ slotOf' = [slotOf EXCEPT ![j] = s]
  /\ UNCHANGED <<alive, flags, warmup, tries, deaths, dropped>>

(* _slot_is_alive says yes: it runs, or docker inspect raised or timed out. *)
ProbeAlive(j) ==
  /\ pc[j] = "probing" /\ (slotOf[j] \in alive \/ DockerMayFail)
  /\ pc' = [pc EXCEPT ![j] = "holding"]
  /\ UNCHANGED <<queued, alive, flags, warmup, slotOf, tries, deaths, dropped>>

ProbeDead_PutsBack(j) ==  \* mutant: a dead slot goes to the end of the queue
  /\ pc[j] = "probing" /\ slotOf[j] \notin alive
  /\ Put(slotOf[j])
  /\ pc' = [pc EXCEPT ![j] = "waiting"]
  /\ slotOf' = [slotOf EXCEPT ![j] = None]
  /\ UNCHANGED <<alive, flags, warmup, tries, deaths, dropped>>

(* It says no, also when docker inspect exits with an error and prints     *)
(* nothing: the loop rebuilds the slot, once.                              *)
ProbeDead(j) ==
  /\ pc[j] = "probing" /\ (slotOf[j] \notin alive \/ DockerMayFail)
  /\ pc' = [pc EXCEPT ![j] = "rebuilding"]
  /\ UNCHANGED <<queued, alive, flags, warmup, slotOf, tries, deaths, dropped>>

(* The rebuilt slot is in the queue, or dropped; either way the loop gets  *)
(* the next one.                                                           *)
RebuildEnd(j) ==
  /\ pc[j] = "rebuilding"
  /\ \E ok \in Outcomes :
       /\ InitSlotEnds(slotOf[j], ok)
       /\ dropped' = IF ok THEN dropped ELSE dropped \cup {slotOf[j]}
  /\ pc' = [pc EXCEPT ![j] = "waiting"]
  /\ slotOf' = [slotOf EXCEPT ![j] = None]
  /\ UNCHANGED <<warmup, tries, deaths>>

-----------------------------------------------------------------------------
(* release.                                                                *)

(* healthy=False, or a healthy slot whose image reload failed: the first   *)
(* attempt removes the container.                                          *)
BeginReinit(j) ==
  /\ pc' = [pc EXCEPT ![j] = "reiniting"]
  /\ tries' = [tries EXCEPT ![j] = 1]
  /\ RemoveContainer(slotOf[j])
  /\ UNCHANGED <<queued, flags, warmup, slotOf, deaths, dropped>>

ReleaseUnhealthy(j) == pc[j] = "holding" /\ BeginReinit(j)

Done(j) ==
  /\ pc' = [pc EXCEPT ![j] = "idle"]
  /\ slotOf' = [slotOf EXCEPT ![j] = None]
  /\ tries' = [tries EXCEPT ![j] = 0]

ReinitSucceeds(j) ==
  /\ pc[j] = "reiniting"
  /\ SlotReady(slotOf[j])
  /\ Done(j)
  /\ UNCHANGED <<warmup, deaths, dropped>>

(* Mutant: the attempts are never counted out. *)
ReinitRetries_OneMore(j) ==
  /\ pc[j] = "reiniting" /\ DockerMayFail /\ tries[j] <= SlotReinitAttempts
  /\ SlotFailed(slotOf[j])
  /\ tries' = [tries EXCEPT ![j] = @ + 1]
  /\ UNCHANGED <<warmup, pc, slotOf, deaths, dropped>>

ReinitRetries(j) ==
  /\ pc[j] = "reiniting" /\ DockerMayFail /\ tries[j] < SlotReinitAttempts
  /\ SlotFailed(slotOf[j])
  /\ tries' = [tries EXCEPT ![j] = @ + 1]
  /\ UNCHANGED <<warmup, pc, slotOf, deaths, dropped>>

(* Mutant: the first failure is the last. *)
ReinitGivesUp_AtOnce(j) ==
  /\ pc[j] = "reiniting" /\ DockerMayFail
  /\ SlotFailed(slotOf[j])
  /\ Done(j)
  /\ UNCHANGED <<warmup, deaths, dropped>>

(* "slot removed from pool until next agent restart" *)
ReinitGivesUp(j) ==
  /\ pc[j] = "reiniting" /\ DockerMayFail /\ tries[j] = SlotReinitAttempts
  /\ SlotFailed(slotOf[j])
  /\ Done(j)
  /\ UNCHANGED <<warmup, deaths, dropped>>

(* healthy: the wipe commands, whose errors are swallowed. *)
ReleaseHealthy(j) ==
  /\ pc[j] = "holding"
  /\ pc' = [pc EXCEPT ![j] = "wiping"]
  /\ UNCHANGED <<queued, alive, flags, warmup, slotOf, tries, deaths, dropped>>

(* The image is current or was reloaded: back into the queue. *)
WipeEnds(j) ==
  /\ pc[j] = "wiping"
  /\ Put(slotOf[j])
  /\ Done(j)
  /\ UNCHANGED <<alive, flags, warmup, deaths, dropped>>

(* The image had changed and its reload failed: release(healthy=False). *)
ReloadFails_AlsoPuts(j) ==  \* mutant: no return after release(healthy=False)
  /\ pc[j] = "wiping"
  /\ pc' = [pc EXCEPT ![j] = "reiniting"] /\ tries' = [tries EXCEPT ![j] = 1]
  /\ RemoveContainer(slotOf[j])
  /\ Put(slotOf[j])
  /\ UNCHANGED <<flags, warmup, slotOf, deaths, dropped>>

ReloadFails(j) == pc[j] = "wiping" /\ BeginReinit(j)

(* A container dies, or somebody removes it. *)
Die(s) ==
  /\ s \in alive /\ deaths < MaxDeaths
  /\ alive' = alive \ {s}
  /\ deaths' = deaths + 1
  /\ UNCHANGED <<queued, flags, warmup, jobs, dropped>>

Next ==
  \/ \E s \in Slot : WarmBegin(s) \/ WarmEnd(s) \/ Die(s)
  \/ WaveRetry \/ WarmReport
  \/ \E j \in Job :
       \/ Acquire(j) \/ \E s \in Slot : Take(j, s)
       \/ ProbeAlive(j) \/ ProbeDead(j) \/ RebuildEnd(j)
       \/ ReleaseUnhealthy(j) \/ ReleaseHealthy(j) \/ WipeEnds(j) \/ ReloadFails(j)
       \/ ReinitSucceeds(j) \/ ReinitRetries(j) \/ ReinitGivesUp(j)

Spec == Init /\ [][Next]_vars

(* The warm-up and every coroutine go on when they can; a job that holds a *)
(* slot releases it; asyncio.Queue serves its getters in order, so a       *)
(* waiting acquire is not passed over for ever; docker inspect does not    *)
(* exit with an error every time a job asks it about a slot that runs.     *)
Fairness ==
  /\ WF_vars(\E s \in Slot : WarmBegin(s) \/ WarmEnd(s))
  /\ WF_vars(WaveRetry) /\ WF_vars(WarmReport)
  /\ \A j \in Job :
       /\ SF_vars(\E s \in Slot : Take(j, s))
       /\ WF_vars(ProbeAlive(j) \/ ProbeDead(j)) /\ WF_vars(RebuildEnd(j))
       /\ SF_vars(slotOf[j] \in alive /\ ProbeAlive(j))
       /\ WF_vars(ReleaseUnhealthy(j) \/ ReleaseHealthy(j))
       /\ WF_vars(WipeEnds(j) \/ ReloadFails(j))
       /\ WF_vars(ReinitSucceeds(j) \/ ReinitRetries(j) \/ ReinitGivesUp(j))

FairSpec == Spec /\ Fairness

-----------------------------------------------------------------------------
(* Properties.                                                             *)

TypeOK ==
  /\ queued \in [Slot -> Nat]
  /\ alive \subseteq Slot /\ everReady \subseteq Slot
  /\ readyCount \in Nat /\ degraded \in Nat
  /\ firstReady \in BOOLEAN /\ warmComplete \in BOOLEAN
  /\ warm \in [Slot -> {"pending", "warming", "ready", "failed"}]
  /\ wave \in 1 .. WarmMaxAttempts
  /\ pc \in [Job -> {"idle", "waiting", "probing", "rebuilding", "holding",
                     "wiping", "reiniting"}]
  /\ slotOf \in [Job -> Slot \cup {None}]
  /\ tries \in [Job -> 0 .. SlotReinitAttempts]
  /\ deaths \in 0 .. MaxDeaths
  /\ fails \in [Slot -> Nat] /\ dropped \subseteq Slot

(* Two learners never share a container: a slot is at most once in the     *)
(* queue, in the hands of at most one job, and not in two of the queue, a  *)
(* job's hands and the warm-up at a time.                                  *)
SlotExclusive ==
  \A s \in Slot :
    /\ queued[s] <= 1
    /\ \A j, k \in Job : slotOf[j] = s /\ slotOf[k] = s => j = k
    /\ (\E j \in Job : slotOf[j] = s) => queued[s] = 0
    /\ warm[s] \in {"pending", "warming", "failed"} =>
         queued[s] = 0 /\ \A j \in Job : slotOf[j] # s

InPool(s) ==
  \/ queued[s] > 0
  \/ \E j \in Job : slotOf[j] = s
  \/ ~warmComplete /\ warm[s] # "ready"

(* "One failed attempt must NOT shrink the pool forever": a slot is lost   *)
(* only after _init_slot failed in every wave of the warm-up or in all of  *)
(* release's attempts in a row, or in acquire, which drops a slot at its   *)
(* first failed rebuild.  No other path loses a slot, whatever becomes of  *)
(* its container.                                                          *)
LostOnlyBroken ==
  \A s \in Slot :
    \/ InPool(s) \/ s \in dropped
    \/ fails[s] >= IF s \in everReady THEN SlotReinitAttempts ELSE WarmMaxAttempts

(* "A worker running at 60% must never look identical to one running at    *)
(* 100%": ready_count counts each slot once, however often it is rebuilt,  *)
(* and when the warm-up is over the slots that never came up are reported. *)
WarmUpHonest ==
  /\ readyCount = Cardinality(everReady)
  /\ warmComplete => degraded + readyCount = Cardinality(Slot)

(* "Unblock consumers so they can exit/retry rather than hang forever on   *)
(* first_ready", also when no slot ever warms.                             *)
ConsumersUnblocked == <>firstReady

(* A job that asked for a slot gets one, unless every slot is lost, each   *)
(* in a way that LostOnlyBroken allows: acquire meets a slot it takes for  *)
(* dead, rebuilds it and goes on to the next.                              *)
AcquireServed ==
  \A j \in Job :
    pc[j] = "waiting" ~> pc[j] = "holding" \/ \A s \in Slot : ~InPool(s)
=============================================================================
