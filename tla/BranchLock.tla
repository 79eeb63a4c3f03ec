----------------------------- MODULE BranchLock -----------------------------
(***************************************************************************)
(* Integration tests between the queue and jobs:completed: the lock per    *)
(* repo, branch and arch, the deferred lists and the recovery of them at   *)
(* start (ops-server/worker-agent/agent.py, _consume_queue and _run_job;   *)
(* ops-server/workers/manager.py, _run_with_semaphore and                  *)
(* _recover_orphaned_deferred).  The master and the agents share the lists *)
(* and the locks in Redis and run the same protocol.                       *)
(*                                                                         *)
(* A step is one Redis command, the unit at which workers interleave.  The *)
(* order within a list does not matter to the properties: a list is a bag, *)
(* how often each job is in it.  The wait for the weighted budget and a    *)
(* slot, and the test itself, are one step each (see WeightedScheduler and *)
(* SysboxPool for what happens inside).                                    *)
(***************************************************************************)
EXTENDS Integers, FiniteSets

CONSTANTS
  Job,                \* integration tests
  Branch,             \* triples repo:branch:arch
  BranchOf,           \* the triple of a job
  Worker,             \* the processes that consume the queue
  Master,             \* the one that recovers deferred lists when it starts
  Capacity,           \* permits of a worker's semaphore
  LiveLockMayExpire,  \* whether a lock's TTL may end while its job waits for a slot
  MaxBreaks,          \* bound: crashes and failed Redis commands
  None                \* nothing

ASSUME BranchLockAssumption ==
  /\ IsFiniteSet(Job) /\ None \notin Job /\ None \notin Branch
  /\ BranchOf \in [Job -> Branch]
  /\ Master \in Worker /\ Master \notin Job /\ None \notin Worker
  /\ Capacity \in Nat \ {0}
  /\ LiveLockMayExpire \in BOOLEAN /\ MaxBreaks \in Nat

VARIABLES
  queued,     \* queue:test:{arch}
  deferred,   \* the deferred:{triple} lists together
  lock,       \* running:lock:{triple}: the job that set it, or None
  record,     \* the jobs with a job:running:{id} hash
  completed,  \* jobs:completed
  known,      \* the jobs ever submitted
  pc,         \* per job, where its coroutine is; "none" when there is none
  on,         \* the worker its coroutine runs on
  item,       \* per drain (of a job's finally, of the master's start): the
              \* entry between LPOP and RPUSH
  up,         \* the workers that run
  recTodo,    \* the master's start: the lists still to look at
  recBranch,  \* and the one it is draining
  breaks      \* failures so far

lists    == <<queued, deferred, completed>>
coros    == <<pc, on>>
recovery == <<recTodo, recBranch>>
vars     == <<lists, lock, record, known, coros, item, up, recovery, breaks>>

Drainer == Job \cup {Master}

(* Where a coroutine of _run_job is, by the command it does next. *)
Steps == {"none", "locking", "deferring", "recording", "admitting", "running",
          "reporting", "erasing", "unlocking", "draining"}

Init ==
  /\ queued = [j \in Job |-> 0] /\ deferred = [j \in Job |-> 0]
  /\ completed = [j \in Job |-> 0]
  /\ lock = [b \in Branch |-> None] /\ record = {} /\ known = {}
  /\ pc = [j \in Job |-> "none"] /\ on = [j \in Job |-> None]
  /\ item = [d \in Drainer |-> None]
  /\ up = Worker /\ recTodo = {} /\ recBranch = None
  /\ breaks = 0

Plus(bag, j)  == [bag EXCEPT ![j] = @ + 1]
Minus(bag, j) == [bag EXCEPT ![j] = @ - 1]

Goto(j, step) == pc' = [pc EXCEPT ![j] = step]

Ends(j) == Goto(j, "none") /\ on' = [on EXCEPT ![j] = None]

Recovering == recTodo # {} \/ recBranch # None

Active(w) == {j \in Job : on[j] = w}

-----------------------------------------------------------------------------
(* A webhook, the nightly run or the dashboard enqueues a test. *)
Submit(j) ==
  /\ j \notin known
  /\ known' = known \cup {j}
  /\ queued' = Plus(queued, j)
  /\ UNCHANGED <<deferred, completed, lock, record, coros, item, up, recovery, breaks>>

(* _consume_queue: BLPOP only while a permit is free; the coroutine is     *)
(* created and has its permit before the loop looks again.  The master     *)
(* consumes when its recovery is done.                                     *)
Pop(w, j) ==
  /\ w \in up /\ (w = Master => ~Recovering)
  /\ Cardinality(Active(w)) < Capacity
  /\ queued[j] > 0
  /\ queued' = Minus(queued, j)
  /\ Goto(j, "locking") /\ on' = [on EXCEPT ![j] = w]
  /\ UNCHANGED <<deferred, completed, lock, record, known, item, up, recovery, breaks>>

(* Mutant: the lock is set without NX. *)
SetLock_NoNx(j) ==
  /\ pc[j] = "locking"
  /\ lock' = [lock EXCEPT ![BranchOf[j]] = j]
  /\ Goto(j, "recording")
  /\ UNCHANGED <<lists, record, known, on, item, up, recovery, breaks>>

(* SET running:lock:{triple} NX EX. *)
SetLock(j) ==
  /\ pc[j] = "locking"
  /\ IF lock[BranchOf[j]] = None
     THEN lock' = [lock EXCEPT ![BranchOf[j]] = j] /\ Goto(j, "recording")
     ELSE Goto(j, "deferring") /\ UNCHANGED lock
  /\ UNCHANGED <<lists, record, known, on, item, up, recovery, breaks>>

(* Not acquired: RPUSH deferred:{triple} and return. *)
Defer(j) ==
  /\ pc[j] = "deferring"
  /\ deferred' = Plus(deferred, j)
  /\ Ends(j)
  /\ UNCHANGED <<queued, completed, lock, record, known, item, up, recovery, breaks>>

(* HSET job:running:{id}. *)
Record(j) ==
  /\ pc[j] = "recording"
  /\ record' = record \cup {j}
  /\ Goto(j, "admitting")
  /\ UNCHANGED <<lists, lock, known, on, item, up, recovery, breaks>>

(* The weighted budget and a slot are granted; the test starts ... *)
Admit(j) ==
  /\ pc[j] = "admitting"
  /\ Goto(j, "running")
  /\ UNCHANGED <<lists, lock, record, known, on, item, up, recovery, breaks>>

(* ... and ends, whatever its result; the slot and the budget go back. *)
TestEnds(j) ==
  /\ pc[j] = "running"
  /\ Goto(j, "reporting")
  /\ UNCHANGED <<lists, lock, record, known, on, item, up, recovery, breaks>>

(* RPUSH jobs:completed (and the job:final record, which nothing reads     *)
(* here).                                                                  *)
Report(j) ==
  /\ pc[j] = "reporting"
  /\ completed' = Plus(completed, j)
  /\ Goto(j, "erasing")
  /\ UNCHANGED <<queued, deferred, lock, record, known, on, item, up, recovery, breaks>>

(* DEL job:running:{id}. *)
Erase(j) ==
  /\ pc[j] = "erasing"
  /\ record' = record \ {j}
  /\ Goto(j, "unlocking")
  /\ UNCHANGED <<lists, lock, known, on, item, up, recovery, breaks>>

(* DEL running:lock:{triple}, whoever holds it now. *)
Unlock(j) ==
  /\ pc[j] = "unlocking"
  /\ lock' = [lock EXCEPT ![BranchOf[j]] = None]
  /\ Goto(j, "draining")
  /\ UNCHANGED <<lists, record, known, on, item, up, recovery, breaks>>

-----------------------------------------------------------------------------
(* Draining deferred:{triple} into the queue, for the finally of a job and *)
(* for the master's start.                                                 *)

Draining(d, b) ==
  IF d = Master THEN recBranch = b
  ELSE pc[d] = "draining" /\ BranchOf[d] = b

DrainPop_Unchecked(d, j) ==  \* mutant: the answer of LPOP is not looked at
  /\ Draining(d, BranchOf[j]) /\ item[d] = None
  /\ deferred' = Minus(deferred, j)
  /\ item' = [item EXCEPT ![d] = j]
  /\ UNCHANGED <<queued, completed, lock, record, known, coros, up, recovery, breaks>>

(* LPOP. *)
DrainPop(d, j) ==
  /\ Draining(d, BranchOf[j]) /\ item[d] = None
  /\ deferred[j] > 0
  /\ deferred' = Minus(deferred, j)
  /\ item' = [item EXCEPT ![d] = j]
  /\ UNCHANGED <<queued, completed, lock, record, known, coros, up, recovery, breaks>>

(* Mutant: the entry also stays in the list. *)
DrainPush_KeepsDeferred(d) ==
  /\ item[d] # None
  /\ queued' = Plus(queued, item[d])
  /\ deferred' = Plus(deferred, item[d])
  /\ item' = [item EXCEPT ![d] = None]
  /\ UNCHANGED <<completed, lock, record, known, coros, up, recovery, breaks>>

(* RPUSH queue:test:{arch}. *)
DrainPush(d) ==
  /\ item[d] # None
  /\ queued' = Plus(queued, item[d])
  /\ item' = [item EXCEPT ![d] = None]
  /\ UNCHANGED <<deferred, completed, lock, record, known, coros, up, recovery, breaks>>

NoneDeferred(b) == \A j \in Job : BranchOf[j] = b => deferred[j] = 0

Finish_NoDrain(j) ==  \* mutant: the deferred list is left alone
  /\ pc[j] = "draining" /\ item[j] = None
  /\ Ends(j)
  /\ UNCHANGED <<lists, lock, record, known, item, up, recovery, breaks>>

(* LPOP finds nothing: active_jobs.pop, and the permit goes back. *)
Finish(j) ==
  /\ pc[j] = "draining" /\ item[j] = None
  /\ NoneDeferred(BranchOf[j])
  /\ Ends(j)
  /\ UNCHANGED <<lists, lock, record, known, item, up, recovery, breaks>>

-----------------------------------------------------------------------------
(* The master's start. *)

(* A list whose lock exists is skipped ... *)
RecoverSkip(b) ==
  /\ b \in recTodo /\ recBranch = None
  /\ lock[b] # None \/ NoneDeferred(b)
  /\ recTodo' = recTodo \ {b}
  /\ UNCHANGED <<lists, lock, record, known, coros, item, up, recBranch, breaks>>

(* ... the others are drained. *)
RecoverBegin(b) ==
  /\ b \in recTodo /\ recBranch = None
  /\ lock[b] = None /\ ~NoneDeferred(b)
  /\ recTodo' = recTodo \ {b} /\ recBranch' = b
  /\ UNCHANGED <<lists, lock, record, known, coros, item, up, breaks>>

RecoverEnd ==
  /\ recBranch # None /\ item[Master] = None
  /\ NoneDeferred(recBranch)
  /\ recBranch' = None
  /\ UNCHANGED <<lists, lock, record, known, coros, item, up, recTodo, breaks>>

-----------------------------------------------------------------------------
(* What breaks. *)

Broken(D) ==  \* the coroutines of the jobs D are gone
  /\ breaks < MaxBreaks /\ breaks' = breaks + 1
  /\ pc' = [j \in Job |-> IF j \in D THEN "none" ELSE pc[j]]
  /\ on' = [j \in Job |-> IF j \in D THEN None ELSE on[j]]

(* A worker dies: everything in its memory is gone, Redis keeps the rest. *)
Crash(w) ==
  /\ w \in up
  /\ up' = up \ {w}
  /\ Broken(Active(w))
  /\ item' = [d \in Drainer |->
                IF d \in Active(w) \/ (w = Master /\ d = Master) THEN None ELSE item[d]]
  /\ IF w = Master THEN recTodo' = {} /\ recBranch' = None ELSE UNCHANGED recovery
  /\ UNCHANGED <<lists, lock, record, known>>

(* It starts again; the master looks at every deferred list. *)
Restart(w) ==
  /\ w \notin up
  /\ up' = up \cup {w}
  /\ recTodo' = IF w = Master THEN Branch ELSE recTodo
  /\ UNCHANGED <<lists, lock, record, known, coros, item, recBranch, breaks>>

(* A Redis command raises outside the try of the test: the task dies with  *)
(* its exception.  Only the RPUSH of the drain is guarded: the entry in    *)
(* hand is lost and the drain goes on.                                     *)
RedisFails(j) ==
  /\ pc[j] \in Steps \ {"none", "running"} /\ item[j] = None
  /\ Broken({j})
  /\ UNCHANGED <<lists, lock, record, known, item, up, recovery>>

PushFails(d) ==
  /\ item[d] # None /\ breaks < MaxBreaks /\ breaks' = breaks + 1
  /\ item' = [item EXCEPT ![d] = None]
  /\ UNCHANGED <<lists, lock, record, known, coros, up, recovery>>

(* The TTL of a lock ends.  It is longer than any test, so the job that    *)
(* set it is over; or it is still waiting for its slot, a wait no bound    *)
(* keeps below the TTL.                                                    *)
LockExpires_Never(b) ==  \* mutant: SET without EX
  /\ FALSE
  /\ lock' = lock
  /\ UNCHANGED <<lists, record, known, coros, item, up, recovery, breaks>>

LockExpires(b) ==
  /\ lock[b] # None
  /\ \/ pc[lock[b]] = "none"
     \/ LiveLockMayExpire /\ pc[lock[b]] = "admitting"
  /\ lock' = [lock EXCEPT ![b] = None]
  /\ UNCHANGED <<lists, record, known, coros, item, up, recovery, breaks>>

(* The TTL of a record whose job is over. *)
RecordExpires(j) ==
  /\ j \in record /\ pc[j] = "none"
  /\ record' = record \ {j}
  /\ UNCHANGED <<lists, lock, known, coros, item, up, recovery, breaks>>

-----------------------------------------------------------------------------
Drain(d) == DrainPush(d) \/ \E j \in Job : DrainPop(d, j)

Coroutine(j) ==
  \/ SetLock(j) \/ Defer(j) \/ Record(j) \/ Admit(j) \/ TestEnds(j)
  \/ Report(j) \/ Erase(j) \/ Unlock(j) \/ Drain(j) \/ Finish(j)

Recover ==
  \/ Drain(Master) \/ RecoverEnd
  \/ \E b \in Branch : RecoverSkip(b) \/ RecoverBegin(b)

Next ==
  \/ \E j \in Job : Submit(j) \/ Coroutine(j) \/ RedisFails(j) \/ RecordExpires(j)
  \/ \E w \in Worker : Crash(w) \/ Restart(w) \/ \E j \in Job : Pop(w, j)
  \/ \E b \in Branch : LockExpires(b)
  \/ \E d \in Drainer : PushFails(d)
  \/ Recover

Spec == Init /\ [][Next]_vars

(* A queued job is popped in its turn if permits keep coming free; every   *)
(* coroutine and the recovery go on; systemd restarts a worker; TTLs end.  *)
Fairness ==
  /\ \A j \in Job :
       /\ SF_vars(\E w \in Worker : Pop(w, j))
       /\ WF_vars(Coroutine(j))
  /\ WF_vars(Recover)
  /\ \A w \in Worker : WF_vars(Restart(w))
  /\ \A b \in Branch : WF_vars(LockExpires(b))

FairSpec == Spec /\ Fairness

-----------------------------------------------------------------------------
(* Properties.                                                             *)

TypeOK ==
  /\ queued \in [Job -> Nat] /\ deferred \in [Job -> Nat]
  /\ completed \in [Job -> Nat]
  /\ lock \in [Branch -> Job \cup {None}]
  /\ record \subseteq Job /\ known \subseteq Job
  /\ pc \in [Job -> Steps] /\ on \in [Job -> Worker \cup {None}]
  /\ item \in [Drainer -> Job \cup {None}]
  /\ up \subseteq Worker
  /\ recTodo \subseteq Branch /\ recBranch \in Branch \cup {None}
  /\ breaks \in 0 .. MaxBreaks

(* "prevents the same repo+branch+arch combination from running twice      *)
(* simultaneously": from the moment a coroutine has the lock until it has  *)
(* deleted it, no other coroutine of that branch is in between, across     *)
(* workers, crashes and restarts.                                          *)
Holds(j) == pc[j] \in {"recording", "admitting", "running", "reporting",
                       "erasing", "unlocking"}

OneRunPerBranch ==
  \A j, k \in Job :
    BranchOf[j] = BranchOf[k] /\ Holds(j) /\ Holds(k) => j = k

(* In how many places a job is: the queue, the deferred lists,             *)
(* jobs:completed, the hands of a drain, a coroutine that has not reported *)
(* it yet.                                                                 *)
InHand(j) == \E d \in Drainer : item[d] = j

Unreported(j) == pc[j] \in {"locking", "deferring", "recording", "admitting",
                            "running", "reporting"}

Places(j) == queued[j] + deferred[j] + completed[j]
               + (IF InHand(j) THEN 1 ELSE 0) + (IF Unreported(j) THEN 1 ELSE 0)

(* A test is in one place at a time: no order of pops, deferrals, drains,  *)
(* crashes and recoveries runs it twice or enters it in the history twice. *)
JobInOnePlace ==
  \A j \in Job :
    /\ Places(j) <= 1
    /\ \A d, e \in Drainer : item[d] = j /\ item[e] = j => d = e

(* While nothing breaks no test is lost, either. *)
NoJobLost == breaks = 0 => \A j \in known : Places(j) >= 1

(* "If a worker crashes mid-job, the lock auto-expires and the next        *)
(* enqueue for the same triple proceeds": no job keeps a lock for ever.    *)
LockFreed ==
  \A b \in Branch : \A j \in Job : lock[b] = j ~> lock[b] # j

(* A test that is deferred while the lock is held is picked up when it is  *)
(* released, unless something breaks: the holder deletes the lock before   *)
(* it drains the list.                                                     *)
DeferredWhileHeld ==
  \A j \in Job :
    deferred[j] > 0 /\ lock[BranchOf[j]] # None ~> deferred[j] = 0 \/ breaks > 0

(* The abstract promise, and the mapping onto it. *)
Executing(j) == pc[j] \in {"admitting", "running", "reporting"}

StateOf(j) ==
  IF j \notin known THEN "unknown"
  ELSE IF completed[j] > 0 THEN "completed"
  ELSE IF Places(j) = 0 THEN "lost"
  ELSE IF Executing(j) THEN "running"
  ELSE "waiting"

Ledger == INSTANCE TestLedger WITH
  broken <- breaks > 0,
  state  <- [j \in Job |-> StateOf(j)]

LedgerKept == Ledger!Spec

(* A deferred job is "picked up automatically when the lock is released".  *)
DeferredPickedUp ==
  \A j \in Job : deferred[j] > 0 ~> deferred[j] = 0
=============================================================================
