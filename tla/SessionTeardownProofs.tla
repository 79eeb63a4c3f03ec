------------------------ MODULE SessionTeardownProofs ------------------------
(***************************************************************************)
(* Proofs about the end of a training session, for every number of         *)
(* sessions, slots and permits, requests, crashes and lapses.              *)
(***************************************************************************)
EXTENDS SessionTeardown, TLAPS

Holding == {"naming", "setup", "watching"}

(* The agent's memory: a coroutine is in _job_slots from acquire to the    *)
(* finally, and has its slot until the pool takes it back; no slot is had  *)
(* twice, or had and on offer.  A dead agent has nothing.                  *)
Hands ==
  /\ \A s \in Session :
       /\ task[s] \in Holding <=> slotOf[s] # None
       /\ task[s] \in Holding => held[s] = slotOf[s]
       /\ task[s] \in Holding \cup {"releasing"} <=> held[s] # None
       /\ held[s] # None => held[s] \notin free
       /\ ~up => task[s] = "none"
  /\ \A s, t \in Session : held[s] # None /\ held[s] = held[t] => s = t

(* A session is recorded, then queued, then has a task, once.  The         *)
(* terminal record is there before the task deletes the running one, and   *)
(* whenever the running one of a session is missing that the end of its    *)
(* workshop did not delete.                                                *)
Once ==
  \A s \in Session :
    /\ entry[s] # "done" => /\ s \notin queue /\ task[s] = "none" /\ s \notin killed
                            /\ final[s] = "none" /\ owner[s] # "agent"
    /\ s \in queue => task[s] = "none"
    /\ /\ entry[s] = "recorded" \/ s \in queue \/ task[s] # "none" \/ s \in killed
       /\ owner[s] = "absent"
       => final[s] # "none" \/ s \in swept
    /\ task[s] = "erasing" => final[s] # "none"
    /\ s \in queue \/ task[s] \notin {"none", "erasing"} => final[s] # "completed"

(* What is known of a kill until it is reported. *)
Remembered ==
  \A s \in killed :
    /\ s \notin queue /\ task[s] \notin {"claimed", "waiting"}
    /\ task[s] \in Holding => s \in terminated
    /\ task[s] \in {"releasing", "reporting"} => s \in wasTerm
    /\ final[s] # "completed"

(* While the master never took the agent for dead, and of sessions whose   *)
(* record the end of a workshop did not delete.                            *)
Recorded ==
  lapses = 0 =>
    /\ up => registered
    /\ \A s \in Session \ swept :
         /\ entry[s] = "recorded" \/ s \in queue \/ task[s] = "claimed" =>
              owner[s] = "queued"
         /\ task[s] \notin {"none", "claimed"} => owner[s] = "agent"
         /\ task[s] \in {"setup", "watching"} => sbName[s] = slotOf[s]

IInv == TypeOK /\ Hands /\ Once /\ Remembered /\ Recorded

LEMMA InitIInv == Init => IInv
<1> SUFFICES ASSUME Init PROVE IInv
  OBVIOUS
<1> USE TeardownAssumption DEF Init, Holding
<1>1. TypeOK
  BY DEF TypeOK, Steps, Requests
<1>2. Hands /\ Once /\ Remembered /\ Recorded
  BY DEF Hands, Once, Remembered, Recorded
<1> QED BY <1>1, <1>2 DEF IInv

(* The steps of one session, and those of the agent as a whole. *)
Sweep(s) ==
  \/ SweepRead(s) \/ SweepFlag(s) \/ SweepPublish(s)
  \/ SweepDequeue(s) \/ SweepLook(s) \/ SweepDrop(s)

SessionStep(s) ==
  \/ Provision(s) \/ Enqueue(s) \/ AskRead(s) \/ AskFlag(s) \/ AskPublish(s)
  \/ Sweep(s)
  \/ ExpiryRead(s) \/ ExpiryFlag(s) \/ MasterReap(s)
  \/ Pop(s) \/ Coroutine(s) \/ Watch(s) \/ SetupFails(s) \/ Exits(s)
  \/ Listen(s) \/ ReconcileKill(s) \/ ReconcileClean(s)

(* Each invariant is kept by each step, in groups of steps alike.          *)
LEMMA Dashboard ==
  ASSUME IInv, NEW s \in Session,
         \/ AskRead(s) \/ AskFlag(s) \/ AskPublish(s)
         \/ ExpiryRead(s) \/ ExpiryFlag(s)
  PROVE  IInv'
<1> USE TeardownAssumption DEF IInv, Holding, record, entered, history, master, agent,
      Touched, AskRead, AskFlag, AskPublish, ExpiryRead, ExpiryFlag
<1>1. TypeOK'
  <2> USE DEF Requests
  <2>1. CASE AskFlag(s) \/ ExpiryFlag(s)
    BY <2>1 DEF TypeOK
  <2>2. CASE AskRead(s) \/ ExpiryRead(s)
    BY <2>2 DEF TypeOK
  <2>3. CASE AskPublish(s)
    BY <2>3 DEF TypeOK
  <2> QED BY <2>1, <2>2, <2>3
<1>2. Hands'
  BY DEF Hands
<1>3. Once'
  BY DEF Once, TypeOK
<1>4. Remembered'
  BY DEF Remembered, Once
<1>5. Recorded'
  BY DEF Recorded, TypeOK
<1> QED BY <1>1, <1>2, <1>3, <1>4, <1>5

(* The record first, then the job. *)
LEMMA Entering ==
  ASSUME IInv, NEW s \in Session, Provision(s) \/ Enqueue(s)
  PROVE  IInv'
<1> USE TeardownAssumption DEF IInv, Holding, record, entered, history, master, agent,
      Provision, Enqueue
<1>1. TypeOK'
  BY DEF TypeOK
<1>2. Hands'
  BY DEF Hands
<1>3. Once'
  BY DEF Once, TypeOK
<1>4. Remembered'
  BY DEF Remembered, Once, TypeOK
<1>5. Recorded'
  BY DEF Recorded, Once, TypeOK
<1> QED BY <1>1, <1>2, <1>3, <1>4, <1>5

(* The end of the workshop. *)
LEMMA Sweeping ==
  ASSUME IInv, NEW s \in Session, Sweep(s)
  PROVE  IInv'
<1> USE TeardownAssumption DEF IInv, Holding, record, entered, history, master, agent,
      Touched, DeleteRecord, Sweep, SweepRead, SweepFlag, SweepPublish, SweepDequeue,
      SweepLook, SweepDrop
<1>0. /\ UNCHANGED <<entry, final, registered, lapses, up, agent, runs, killed, crashes>>
      /\ queue' \subseteq queue /\ swept \subseteq swept'
      /\ \A t \in Session : t # s => owner'[t] = owner[t] /\ sbName'[t] = sbName[t]
      /\ \/ swept' = swept /\ sbName' = sbName
            /\ \/ owner'[s] = owner[s]
               \/ owner[s] = "absent" /\ owner'[s] = "nobody"
         \/ owner'[s] = "absent" /\ s \in swept'
  BY DEF TypeOK
<1>1. TypeOK'
  <2> USE DEF Requests
  <2>1. CASE SweepRead(s) \/ SweepPublish(s)
    BY <2>1 DEF TypeOK
  <2>2. CASE SweepFlag(s)
    BY <2>2 DEF TypeOK
  <2>3. CASE SweepDequeue(s) \/ SweepLook(s)
    BY <2>3 DEF TypeOK
  <2>4. CASE SweepDrop(s)
    BY <2>4 DEF TypeOK
  <2> QED BY <2>1, <2>2, <2>3, <2>4
<1> HIDE DEF SweepRead, SweepFlag, SweepPublish, SweepDequeue, SweepLook, SweepDrop, Sweep
<1>2. Hands'
  BY <1>0 DEF Hands
<1>3. Once'
  BY <1>0 DEF Once
<1>4. Remembered'
  BY <1>0 DEF Remembered
<1>5. Recorded'
  BY <1>0 DEF Recorded
<1> QED BY <1>1, <1>2, <1>3, <1>4, <1>5

LEMMA Cleaners ==
  ASSUME IInv, NEW s \in Session, MasterReap(s) \/ ReconcileClean(s)
  PROVE  IInv'
<1> USE TeardownAssumption DEF IInv, Holding, record, entered, history, master, agent, Active, Reconcilable,
      MasterReap, ReconcileClean, ForceCleanOrphan, DeleteRecord
<1>1. TypeOK'
  BY DEF TypeOK
<1>2. Hands'
  BY DEF Hands
<1>3. Once'
  BY DEF Once, TypeOK
<1>4. Remembered'
  BY DEF Remembered, TypeOK
<1>5. Recorded'
  BY DEF Recorded, Hands, TypeOK
<1> QED BY <1>1, <1>2, <1>3, <1>4, <1>5

(* The coroutine up to the watch. *)
LEMMA Starting ==
  ASSUME IInv, NEW s \in Session,
         Pop(s) \/ Claim(s) \/ (\E n \in Slot : Take(s, n)) \/ Name(s) \/ Watch(s)
  PROVE  IInv'
<1> USE TeardownAssumption DEF IInv, Holding, record, entered, history, master, agent, Touched, Goto,
      Pop, Claim, Take, Name, Watch
<1>1. TypeOK'
  <2> USE DEF TypeOK, Steps
  <2>1. CASE Pop(s) \/ Claim(s)
    BY <2>1
  <2>2. ASSUME NEW n \in Slot, Take(s, n) PROVE TypeOK'
    BY <2>2
  <2>3. CASE Name(s) \/ Watch(s)
    BY <2>3
  <2> QED BY <2>1, <2>2, <2>3
<1>2. Hands'
  <2>1. CASE Pop(s) \/ Claim(s) \/ Name(s) \/ Watch(s)
    BY <2>1 DEF Hands, Once, TypeOK
  <2>2. ASSUME NEW n \in Slot, Take(s, n) PROVE Hands'
    BY <2>2 DEF Hands, TypeOK
  <2> QED BY <2>1, <2>2
<1>3. Once'
  BY DEF Once, TypeOK
<1>4. Remembered'
  BY DEF Remembered, Once, TypeOK
<1>5. Recorded'
  <2>1. CASE Pop(s) \/ Claim(s) \/ Name(s) \/ Watch(s)
    BY <2>1 DEF Recorded, Once, Hands, TypeOK
  <2>2. ASSUME NEW n \in Slot, Take(s, n) PROVE Recorded'
    BY <2>2 DEF Recorded, TypeOK
  <2> QED BY <2>1, <2>2
<1> QED BY <1>1, <1>2, <1>3, <1>4, <1>5

(* Whatever ends the session, the finally begins.                          *)
LEMMA Ending ==
  ASSUME IInv, NEW s \in Session, task[s] \in {"setup", "watching"}, Finally(s)
  PROVE  IInv'
<1> USE TeardownAssumption DEF IInv, Holding, record, entered, history, master, agent, Goto, Finally
<1>1. TypeOK'
  BY DEF TypeOK, Steps
<1>2. Hands'
  BY DEF Hands, TypeOK
<1>3. Once' /\ Remembered'
  BY DEF Once, Remembered, TypeOK
<1>4. Recorded'
  BY DEF Recorded, TypeOK
<1> QED BY <1>1, <1>2, <1>3, <1>4

(* The rest of the finally. *)
LEMMA Leaving ==
  ASSUME IInv, NEW s \in Session, Release(s) \/ Report(s) \/ Erase(s)
  PROVE  IInv'
<1> USE TeardownAssumption DEF IInv, Holding, record, entered, history, master, agent, Goto, DeleteRecord
<1>1. CASE Release(s)
  <2> USE <1>1 DEF Release
  <2>0. held[s] \in Slot
    BY DEF Hands, TypeOK
  <2>1. TypeOK'
    BY <2>0 DEF TypeOK, Steps
  <2>2. Hands'
    BY <2>0 DEF Hands, TypeOK
  <2>3. Once' /\ Remembered'
    BY DEF Once, Remembered, TypeOK
  <2>4. Recorded'
    BY DEF Recorded, TypeOK
  <2> QED BY <2>1, <2>2, <2>3, <2>4
<1>2. CASE Report(s)
  <2> USE <1>2 DEF Report
  <2>1. TypeOK'
    BY DEF TypeOK, Steps
  <2>2. Hands'
    BY DEF Hands, TypeOK
  <2>3. Once' /\ Remembered'
    BY DEF Once, Remembered, Hands, TypeOK
  <2>4. Recorded'
    BY DEF Recorded, TypeOK
  <2> QED BY <2>1, <2>2, <2>3, <2>4
<1>3. CASE Erase(s)
  <2> USE <1>3 DEF Erase
  <2>1. TypeOK'
    BY DEF TypeOK, Steps
  <2>2. Hands'
    BY DEF Hands, TypeOK
  <2>3. Once' /\ Remembered'
    BY DEF Once, Remembered, TypeOK
  <2>4. Recorded'
    BY DEF Recorded, Once, TypeOK
  <2> QED BY <2>1, <2>2, <2>3, <2>4
<1> QED BY <1>1, <1>2, <1>3

(* A kill, of a session that has a task: whether it removes a container or *)
(* not, the session is in _terminated_jobs.                                *)
LEMMA Killing ==
  ASSUME IInv, NEW s \in Session, Active(s), KillJobContainer(s),
         inbox' \subseteq inbox,
         UNCHANGED <<record, entered, final, ask, registered, requests, lapses, up, crashes>>
  PROVE  IInv'
<1> USE TeardownAssumption DEF IInv, Holding, record, entered, history, Active
<1> DEFINE name == IF slotOf[s] # None THEN slotOf[s] ELSE sbName[s]
<1>1. /\ terminated' = terminated \cup {s}
      /\ UNCHANGED <<task, slotOf, held, wasTerm, free, swept>>
      /\ intent' \subseteq intent \cup {s}
  BY DEF KillJobContainer
<1>2. /\ runs' \in [Slot -> Session \cup {None, "warm"}]
      /\ killed' \subseteq killed \cup {s}
      /\ killed' # killed => slotOf[s] # None
  <2>1. CASE UNCHANGED <<runs, killed>>
    BY <2>1 DEF TypeOK
  <2>2. CASE /\ name # None /\ runs[name] # None
             /\ runs' = [runs EXCEPT ![name] = None]
             /\ killed' = IF runs[name] = s /\ slotOf[s] = name THEN killed \cup {s}
                          ELSE killed
    BY <2>2 DEF TypeOK
  <2> QED BY <2>1, <2>2 DEF KillJobContainer
<1>3. TypeOK'
  BY <1>1, <1>2 DEF TypeOK
<1>4. Hands'
  BY <1>1 DEF Hands
<1>5. Once'
  BY <1>1, <1>2 DEF Once
<1>6. Remembered'
  BY <1>1, <1>2 DEF Remembered, Once, Hands, TypeOK
<1>7. Recorded'
  BY <1>1 DEF Recorded
<1> QED BY <1>3, <1>4, <1>5, <1>6, <1>7

LEMMA StepIInv == IInv /\ [Next]_vars => IInv'
<1> SUFFICES ASSUME IInv, [Next]_vars PROVE IInv'
  OBVIOUS
<1> USE TeardownAssumption
<1>0. CASE UNCHANGED vars
  BY <1>0 DEF vars, record, entered, history, master, agent, IInv, TypeOK, Hands, Once, Remembered, Recorded
<1>1. ASSUME NEW s \in Session, SessionStep(s) PROVE IInv'
  <2>1. CASE AskRead(s) \/ AskFlag(s) \/ AskPublish(s) \/ ExpiryRead(s) \/ ExpiryFlag(s)
    BY <2>1, Dashboard
  <2>e. CASE Provision(s) \/ Enqueue(s)
    BY <2>e, Entering
  <2>s. CASE Sweep(s)
    BY <2>s, Sweeping
  <2>2. CASE MasterReap(s) \/ ReconcileClean(s)
    BY <2>2, Cleaners
  <2>3. CASE Pop(s) \/ Claim(s) \/ (\E n \in Slot : Take(s, n)) \/ Name(s) \/ Watch(s)
    BY <2>3, Starting
  <2>4. CASE Wake(s) \/ ReaperFrees(s) \/ SetupFails(s) \/ Exits(s)
    BY <2>4, Ending DEF Wake, ReaperFrees, SetupFails, Exits
  <2>5. CASE Release(s) \/ Report(s) \/ Erase(s)
    BY <2>5, Leaving
  <2>6. CASE ReconcileKill(s)
    BY <2>6, Killing DEF ReconcileKill, master
  <2>7. CASE Listen(s)
    <3>1. CASE Active(s)
      BY <2>7, <3>1, Killing DEF Listen
    <3>2. CASE ~Active(s)
      BY <2>7, <3>2 DEF Listen, record, entered, history, agent, IInv, TypeOK, Hands, Once, Remembered,
         Recorded
    <3> QED BY <3>1, <3>2
  <2> QED BY <1>1, <2>1, <2>e, <2>s, <2>2, <2>3, <2>4, <2>5, <2>6, <2>7 DEF SessionStep,
            Coroutine
<1>2. CASE Lapse \/ Heartbeat
  <2> USE <1>2 DEF Lapse, Heartbeat, record, entered, history, agent, IInv
  <2>0. lapses' \in 0 .. MaxLapses /\ (lapses' = 0 => lapses = 0)
    BY DEF TypeOK
  <2>1. TypeOK'
    BY <2>0 DEF TypeOK
  <2>2. Hands' /\ Once' /\ Remembered'
    BY DEF Hands, Once, Remembered
  <2>3. Recorded'
    <3>1. CASE up /\ Lapse
      BY <3>1 DEF TypeOK, Recorded
    <3>2. CASE ~up \/ Heartbeat
      BY <2>0, <3>2 DEF TypeOK, Recorded
    <3> QED BY <3>1, <3>2
  <2> QED BY <2>1, <2>2, <2>3
<1>3. CASE Crash
  <2> USE <1>3 DEF Crash, record, entered, history, IInv, Holding
  <2>0. crashes' \in 0 .. MaxCrashes
    BY DEF TypeOK
  <2>t. task' \in [Session -> Steps]
    BY DEF Steps
  <2>1. TypeOK'
    BY <2>0, <2>t DEF TypeOK
  <2>2. Hands' /\ Once'
    BY DEF Hands, Once, TypeOK
  <2>3. Remembered' /\ Recorded'
    BY DEF Remembered, Recorded, TypeOK
  <2> QED BY <2>1, <2>2, <2>3
<1>4. CASE Restart
  <2> USE <1>4 DEF Restart, record, entered, history, IInv, Holding
  <2>1. TypeOK'
    BY DEF TypeOK, Steps
  <2>2. Hands' /\ Once'
    BY DEF Hands, Once, TypeOK
  <2>3. Remembered' /\ Recorded'
    BY DEF Remembered, Recorded, TypeOK
  <2> QED BY <2>1, <2>2, <2>3
<1> QED BY <1>0, <1>1, <1>2, <1>3, <1>4 DEF Next, SessionStep, Sweep

(* The agent's books and the hashes agree at every step of the parties.    *)
THEOREM TeardownInvariant == Spec => []IInv
BY InitIInv, StepIInv, PTL DEF Spec

(* The state is well typed; nothing but a slot goes back to the pool. *)
THEOREM TeardownTypeOK == Spec => []TypeOK
BY TeardownInvariant, PTL DEF IInv

(* A waiting or running session can always be found and terminated, unless *)
(* its agent's registration lapsed or its workshop's end raced the claim.  *)
THEOREM TeardownLiveHasRecord == Spec => []LiveHasRecord
<1>1. IInv => LiveHasRecord
  BY DEF IInv, Recorded, LiveHasRecord
<1> QED BY <1>1, TeardownInvariant, PTL

(* A killed session's slot is rebuilt and it is not reported as completed. *)
THEOREM TeardownKillIsRemembered == Spec => []KillIsRemembered
<1>1. IInv => KillIsRemembered
  BY DEF IInv, Remembered, KillIsRemembered
<1> QED BY <1>1, TeardownInvariant, PTL

(* No running record is deleted before there is a terminal one, but for    *)
(* those that the end of a workshop deletes as never started.              *)
THEOREM TeardownNeverVanishes == Spec => NeverVanishes
<1> DEFINE Kept == \A s \in Session :
             owner[s] # "absent" /\ owner'[s] = "absent" =>
               final'[s] # "none" \/ ask[s] = "dropping"
<1>1. IInv /\ [Next]_vars => [Kept]_vars
  <2> SUFFICES ASSUME IInv, Next, NEW t \in Session,
                      owner[t] # "absent", owner'[t] = "absent"
               PROVE  final'[t] # "none" \/ ask[t] = "dropping"
    BY DEF Kept
  <2> USE DEF IInv, TypeOK, record, entered, history, master, agent
  <2> DEFINE Accounted == final'[t] # "none" \/ ask[t] = "dropping"
  <2>1. CASE Lapse \/ Heartbeat \/ Crash \/ Restart
    BY <2>1 DEF Lapse, Heartbeat, Crash, Restart
  <2>2. ASSUME NEW s \in Session, MasterReap(s) \/ ReconcileClean(s)
        PROVE  Accounted
    BY <2>2 DEF MasterReap, ReconcileClean, ForceCleanOrphan, DeleteRecord
  <2>3. ASSUME NEW s \in Session, Erase(s) \/ SweepDrop(s) PROVE Accounted
    BY <2>3 DEF Erase, SweepDrop, DeleteRecord, Once
  <2>4. ASSUME NEW s \in Session,
               \/ Provision(s) \/ AskFlag(s) \/ ExpiryFlag(s) \/ SweepFlag(s)
               \/ Claim(s) \/ Name(s)
        PROVE  Accounted
    BY <2>4 DEF Provision, AskFlag, ExpiryFlag, SweepFlag, Claim, Name, Touched
  <2>5. ASSUME NEW s \in Session,
               \/ Enqueue(s) \/ AskRead(s) \/ AskPublish(s) \/ ExpiryRead(s) \/ Pop(s)
               \/ SweepRead(s) \/ SweepPublish(s) \/ SweepDequeue(s) \/ SweepLook(s)
               \/ Watch(s) \/ (\E n \in Slot : Take(s, n)) \/ Wake(s) \/ ReaperFrees(s)
               \/ SetupFails(s) \/ Exits(s) \/ Release(s) \/ Report(s)
               \/ Listen(s) \/ ReconcileKill(s)
        PROVE  Accounted
    BY <2>5 DEF Enqueue, AskRead, AskPublish, ExpiryRead, Pop, SweepRead, SweepPublish,
       SweepDequeue, SweepLook, Watch, Take, Wake, ReaperFrees, SetupFails, Exits, Finally,
       Release, Report, Listen, ReconcileKill
  <2> QED BY <2>1, <2>2, <2>3, <2>4, <2>5 DEF Next, Coroutine
<1> QED BY <1>1, TeardownInvariant, PTL DEF Spec, NeverVanishes

(* The reconciler never removes the container of a session nobody asked to *)
(* terminate, however slots and names have moved on since the flag was     *)
(* set.                                                                    *)
THEOREM TeardownReconcilerHitsItsOwn == Spec => ReconcilerHitsItsOwn
<1>1. IInv /\ [Next]_vars => [inbox' = inbox => HitsItsOwn]_vars
  <2> SUFFICES ASSUME IInv, Next, inbox' = inbox,
                      NEW n \in Slot, NEW t \in Session,
                      runs[n] = t, slotOf[t] = n, runs'[n] = None
               PROVE  t \in terminated'
    BY DEF HitsItsOwn
  <2> USE TeardownAssumption DEF IInv, TypeOK, record, entered, history, master, agent
  <2>0. runs[n] # None
    OBVIOUS
  <2>1. CASE Lapse \/ Heartbeat \/ Crash \/ Restart
    BY <2>0, <2>1 DEF Lapse, Heartbeat, Crash, Restart
  <2>2. ASSUME NEW s \in Session, ReconcileKill(s) PROVE t \in terminated'
    <3>1. CASE UNCHANGED runs
      BY <2>0, <3>1
    <3>2. CASE runs' = [runs EXCEPT ![slotOf[s]] = None]
      <4>1. slotOf[s] = n
        BY <2>0, <2>2, <3>2 DEF ReconcileKill
      <4>2. s = t
        BY <4>1 DEF Hands
      <4> QED BY <2>2, <4>2 DEF ReconcileKill, KillJobContainer
    <3> QED BY <2>2, <3>1, <3>2 DEF ReconcileKill, KillJobContainer
  <2>3. ASSUME NEW s \in Session, Listen(s) PROVE t \in terminated'
    BY <2>3 DEF Listen
  <2>4. ASSUME NEW s \in Session, NEW m \in Slot, Take(s, m) PROVE t \in terminated'
    BY <2>0, <2>4 DEF Take
  <2>5. ASSUME NEW s \in Session, Release(s) PROVE t \in terminated'
    <3>1. held[s] \in Slot
      BY <2>5 DEF Release, Hands
    <3> QED BY <2>0, <2>5, <3>1 DEF Release
  <2>6. ASSUME NEW s \in Session,
               \/ Provision(s) \/ Enqueue(s) \/ AskRead(s) \/ AskFlag(s) \/ AskPublish(s)
               \/ Sweep(s)
               \/ ExpiryRead(s) \/ ExpiryFlag(s) \/ MasterReap(s) \/ Pop(s) \/ Claim(s)
               \/ Name(s) \/ Watch(s) \/ Wake(s) \/ ReaperFrees(s) \/ SetupFails(s)
               \/ Exits(s) \/ Report(s) \/ Erase(s) \/ ReconcileClean(s)
        PROVE  t \in terminated'
    BY <2>0, <2>6 DEF Provision, Enqueue, Sweep, SweepRead, SweepFlag, SweepPublish,
       SweepDequeue, SweepLook, SweepDrop, AskRead, AskFlag, AskPublish, ExpiryRead, ExpiryFlag,
       MasterReap, Pop, Claim, Name, Watch, Wake, ReaperFrees, SetupFails, Exits, Finally,
       Report, Erase, ReconcileClean
  <2> QED BY <2>1, <2>2, <2>3, <2>4, <2>5, <2>6 DEF Next, Coroutine, Sweep
<1> QED BY <1>1, TeardownInvariant, PTL DEF Spec, ReconcilerHitsItsOwn
=============================================================================
