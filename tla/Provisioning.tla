---------------------------- MODULE Provisioning ----------------------------
(***************************************************************************)
(* How a learner's request for an environment becomes a job in a queue, and *)
(* how it leaves it: the provision handler of the dashboard (ops-server/   *)
(* dashboard/app.py, api_arena_provision), the paced admission in pools.py, *)
(* the workers that take jobs, and the sweep that empties a workshop's     *)
(* queues when it ends (workshop_fleet.py, terminate_workshop_sessions).   *)
(*                                                                         *)
(* A step is one command to Redis with the code up to the next await.  One *)
(* workshop; all requests are for one training in one tenant.  A unit of   *)
(* time is what one worker takes to earn a token.  Left out: the EXPIRE of *)
(* a record (hours), PACE_ENABLED=0, and what SessionTeardown models: how  *)
(* a running session ends.                                                 *)
(***************************************************************************)
EXTENDS Integers, Sequences, FiniteSets

CONSTANTS
  Request,      \* requests, and the jobs they make
  Caller, AskedBy,           \* who sends which
  Enrolled,     \* the requests that name the workshop
  PoolQueue, SharedQueue,    \* queue:pool:{ws} and queue:test:amd64
  Burst,        \* PACE_BURST_PER_WORKER
  MaxWorkers,   \* most workers that serve one queue
  MaxEarned,    \* bound: tokens that are counted
  MaxRestarts,  \* bound: restarts of the dashboard
  Nowhere       \* no queue

Lane == {PoolQueue, SharedQueue}

ASSUME ProvisioningAssumption ==
  /\ IsFiniteSet(Request) /\ AskedBy \in [Request -> Caller] /\ Enrolled \subseteq Request
  /\ PoolQueue # SharedQueue /\ Nowhere \notin Lane
  /\ Burst \in Nat \ {0} /\ MaxWorkers \in Nat \ {0}
  /\ MaxEarned \in Nat /\ MaxRestarts \in Nat

VARIABLES
  handler,      \* where each request's handler is
  route,        \* the queue it chose
  ahead,        \* who was waiting there when it looked
  record,       \* job:running:{id}; "bare" is one without an owner
  flagged,      \* the records with terminating=1
  job,          \* its life in a worker
  pending,      \* queue:pending:{queue}
  queue,        \* the queue
  bucket,       \* process memory: the token buckets, workers = 0 when there is none
  admitted,     \* history: jobs put into each queue
  pacer,        \* the pacer: the queues to visit, the one it is at, its allowance
  sweep,        \* where the sweep is
  sweepJobs,    \* the job ids it has seen
  sighted,      \* those it has read in the list it is at, or read as not started
  caught,       \* history: those that were in a list when it saw them, but for
                \* the lists that a failing command made it leave
  earned,       \* history: the tokens the workers of each queue were worth
  restarts

askVars   == <<handler, route, ahead>>
jobVars   == <<record, flagged, job>>
listVars  == <<pending, queue, admitted>>
sweepVars == <<sweep, sweepJobs, sighted, caught>>
timeVars  == <<earned, restarts>>
provisioningVars == <<askVars, jobVars, listVars, bucket, pacer, sweepVars, timeVars>>

HandlerSteps == {"new", "guarded", "recorded", "measured", "push", "park",
                 "answered", "deduped", "lost"}

(* Mutant: the queues before the pending lists. *)
SweepAfter_QueuesFirst ==
  [flagged |-> "pool", pool |-> "test", test |-> "poolPending",
   poolPending |-> "sharedPending", sharedPending |-> "drop"]

(* The lists in the order of the sweep's patterns: queue:pending:*, then     *)
(* queue:pool:* and queue:test:*.                                           *)
SweepAfter == [flagged |-> "poolPending", poolPending |-> "sharedPending",
               sharedPending |-> "pool", pool |-> "test", test |-> "drop"]
SweptPending == [poolPending |-> PoolQueue, sharedPending |-> SharedQueue]
SweptQueue == [pool |-> PoolQueue, test |-> SharedQueue]
SweepSteps == DOMAIN SweepAfter \cup {"idle", "drop", "done", "lost"}

NoBucket == [workers |-> 0, tokens |-> 0]
UsedUp == [workers |-> 1, tokens |-> 0]   \* by learners who came before
Resting == [todo |-> {}, lane |-> Nowhere, allowed |-> 0]

InList(s) == {s[i] : i \in 1 .. Len(s)}

(* LREM of a payload that is in the list once, or not any more. *)
Removed(s, r) ==
  IF r \notin InList(s) THEN s
  ELSE LET i == CHOOSE i \in 1 .. Len(s) : s[i] = r
       IN  [k \in 1 .. Len(s) - 1 |-> IF k < i THEN s[k] ELSE s[k + 1]]

Waiting == UNION {InList(pending[q]) \cup InList(queue[q]) : q \in Lane}

ProvisioningInit ==
  /\ handler = [r \in Request |-> "new"] /\ route = [r \in Request |-> Nowhere]
  /\ ahead = [r \in Request |-> {}]
  /\ record = [r \in Request |-> "none"] /\ flagged = {}
  /\ job = [r \in Request |-> "none"]
  /\ pending = [q \in Lane |-> <<>>] /\ queue = [q \in Lane |-> <<>>]
  /\ bucket \in {[q \in Lane |-> NoBucket], [q \in Lane |-> UsedUp]}
  /\ admitted = [q \in Lane |-> 0] /\ pacer = Resting
  /\ sweep = "idle" /\ sweepJobs = {} /\ sighted = {} /\ caught = {}
  /\ earned = [q \in Lane |-> 0] /\ restarts = 0

-----------------------------------------------------------------------------
(* TokenBucket, workers_serving, bucket_for. *)

AtMost(a, b) == IF a < b THEN a ELSE b

(* A refill earns a token per worker, up to the burst. *)
Refilled(b) ==
  [b EXCEPT !.tokens = AtMost(Burst * b.workers, b.tokens + b.workers)]

(* Mutant: retuning fills the bucket. *)
Tuned_Full(b, n) == [workers |-> n, tokens |-> Burst * n]

(* A new bucket is full; retuning one keeps its tokens, up to the new burst. *)
Tuned(b, n) ==
  [workers |-> n,
   tokens  |-> IF b.workers = 0 THEN Burst * n ELSE AtMost(b.tokens, Burst * n)]

(* Machines come and go, a cached count may be old, and none counts as one, *)
(* as a failed scan does: any count may be read.                            *)
WorkersServing == 1 .. MaxWorkers

(* A new bucket is worth a burst of the workers that were counted. *)
Counted(q, tokens) == AtMost(MaxEarned, earned[q] + tokens)
Opened(q, n) ==
  earned' = IF bucket[q].workers = 0 THEN [earned EXCEPT ![q] = Counted(q, Burst * n)]
                                     ELSE earned

(* Mutant: what is wanted is granted. *)
Take_Overdraws(q, n, wanted, granted) ==
  LET b == Tuned(bucket[q], n) IN
  /\ granted = wanted
  /\ bucket' = [bucket EXCEPT ![q] = [b EXCEPT !.tokens = @ - granted]]
  /\ Opened(q, n)

(* bucket_for(q, n).take(wanted) *)
Take(q, n, wanted, granted) ==
  LET b == Tuned(bucket[q], n) IN
  /\ granted = AtMost(wanted, b.tokens)
  /\ bucket' = [bucket EXCEPT ![q] = [b EXCEPT !.tokens = @ - granted]]
  /\ Opened(q, n)

-----------------------------------------------------------------------------
(* api_arena_provision. *)

At(r, from, to) == handler[r] = from /\ handler' = [handler EXCEPT ![r] = to]

(* A session a retry is sent to: not terminating, and known to be the       *)
(* caller's.                                                                *)
LiveSessions(c) ==
  {s \in Request : AskedBy[s] = c /\ record[s] \in {"queued", "held"} /\ s \notin flagged}

Guard(r) ==
  /\ handler[r] = "new"
  /\ handler' = [handler EXCEPT ![r] =
       IF LiveSessions(AskedBy[r]) = {} THEN "guarded" ELSE "deduped"]
  /\ UNCHANGED <<route, ahead, jobVars, listVars, bucket, pacer, sweepVars, timeVars>>

WriteRecord(r) ==
  /\ At(r, "guarded", "recorded") /\ record' = [record EXCEPT ![r] = "queued"]
  /\ UNCHANGED <<route, ahead, flagged, job, listVars, bucket, pacer, sweepVars,
                 timeVars>>

(* A workshop's pool is bound and unbound by its fleet at any time: either   *)
(* may be read.                                                             *)
TargetQueues(r) == IF r \in Enrolled THEN Lane ELSE {SharedQueue}

(* The binding is read before the pending list: nothing else reads both.    *)
Measure(r) ==
  /\ At(r, "recorded", "measured")
  /\ \E q \in TargetQueues(r) :
       route' = [route EXCEPT ![r] = q] /\ ahead' = [ahead EXCEPT ![r] = InList(pending[q])]
  /\ UNCHANGED <<jobVars, listVars, bucket, pacer, sweepVars, timeVars>>

(* Mutant: a token is asked for whoever waits. *)
Decide_NotInLine(r) ==
  /\ handler[r] = "measured"
  /\ \E n \in WorkersServing : \E granted \in {0, 1} :
       /\ Take(route[r], n, 1, granted)
       /\ handler' = [handler EXCEPT ![r] = IF granted = 1 THEN "push" ELSE "park"]
  /\ UNCHANGED <<route, ahead, jobVars, listVars, pacer, sweepVars, restarts>>

(* Only when nothing was waiting is a token asked for. *)
Decide(r) ==
  /\ handler[r] = "measured"
  /\ IF ahead[r] # {}
       THEN handler' = [handler EXCEPT ![r] = "park"] /\ UNCHANGED <<bucket, earned>>
       ELSE \E n \in WorkersServing : \E granted \in {0, 1} :
              /\ Take(route[r], n, 1, granted)
              /\ handler' = [handler EXCEPT ![r] = IF granted = 1 THEN "push" ELSE "park"]
  /\ UNCHANGED <<route, ahead, jobVars, listVars, pacer, sweepVars, restarts>>

Push(r) ==
  /\ At(r, "push", "answered")
  /\ queue' = [queue EXCEPT ![route[r]] = Append(@, r)]
  /\ admitted' = [admitted EXCEPT ![route[r]] = @ + 1]
  /\ UNCHANGED <<route, ahead, jobVars, pending, bucket, pacer, sweepVars, timeVars>>

Park(r) ==
  /\ At(r, "park", "answered")
  /\ pending' = [pending EXCEPT ![route[r]] = Append(@, r)]
  /\ UNCHANGED <<route, ahead, jobVars, queue, admitted, bucket,
                 pacer, sweepVars, timeVars>>

-----------------------------------------------------------------------------
(* pacer_loop, known_targets, drain_pending. *)

(* Mutant: the queues this process has a bucket for. *)
KnownTargets_InMemory ==
  {q \in Lane : pending[q] # <<>> /\ bucket[q] # NoBucket}

KnownTargets == {q \in Lane : pending[q] # <<>>}

PacerWakes ==
  /\ pacer = Resting /\ KnownTargets # {}
  /\ pacer' = [Resting EXCEPT !.todo = KnownTargets]
  /\ UNCHANGED <<askVars, jobVars, listVars, bucket, sweepVars, timeVars>>

Drain(q) ==
  /\ pacer.lane = Nowhere /\ q \in pacer.todo
  /\ \E n \in WorkersServing : \E granted \in 0 .. Burst * n :
       /\ Take(q, n, Burst * n, granted)
       /\ pacer' = [todo |-> pacer.todo \ {q}, lane |-> q, allowed |-> granted]
  /\ UNCHANGED <<askVars, jobVars, listVars, sweepVars, restarts>>

(* LMOVE pending queue LEFT RIGHT *)
MoveOne ==
  LET q == pacer.lane IN
  /\ q # Nowhere /\ pacer.allowed > 0 /\ pending[q] # <<>>
  /\ pending' = [pending EXCEPT ![q] = Tail(@)]
  /\ queue' = [queue EXCEPT ![q] = Append(@, Head(pending[q]))]
  /\ admitted' = [admitted EXCEPT ![q] = @ + 1]
  /\ pacer' = [pacer EXCEPT !.allowed = @ - 1]
  /\ UNCHANGED <<askVars, jobVars, bucket, sweepVars, timeVars>>

Drained ==
  /\ pacer.lane # Nowhere /\ (pacer.allowed = 0 \/ pending[pacer.lane] = <<>>)
  /\ pacer' = [pacer EXCEPT !.lane = Nowhere, !.allowed = 0]
  /\ UNCHANGED <<askVars, jobVars, listVars, bucket, sweepVars, timeVars>>

-----------------------------------------------------------------------------
(* terminate_workshop_sessions, _drop_queued_jobs: flag the workshop's      *)
(* records, read one list after the other and take its jobs out of it, and  *)
(* drop the records of those no worker has.  A record made while the scan   *)
(* runs is as one made after it.  A command that fails leaves the rest of a  *)
(* list, or a record, as it is; in the scan it leaves a session out, as     *)
(* Stop of LiveSession does.                                                *)

SweepFlags ==
  /\ sweep = "idle"
  /\ sweepJobs' = {r \in Enrolled : record[r] \notin {"none", "bare"}}
  /\ flagged' = flagged \cup sweepJobs' /\ caught' = sweepJobs' \cap Waiting
  /\ sweep' = IF sweepJobs' = {} THEN "done" ELSE "flagged"
  /\ UNCHANGED <<askVars, record, job, listVars, bucket, pacer, sighted, timeVars>>

ListAt(step) ==
  IF step \in DOMAIN SweptPending THEN pending[SweptPending[step]]
  ELSE IF step \in DOMAIN SweptQueue THEN queue[SweptQueue[step]] ELSE <<>>

(* Mutant: whatever is in the list is taken out of it. *)
SweepReads_All ==
  /\ sweep \in DOMAIN SweepAfter /\ sighted = {} /\ sweep' = SweepAfter[sweep]
  /\ sighted' = InList(ListAt(sweep'))
  /\ UNCHANGED <<askVars, jobVars, listVars, bucket, pacer, sweepJobs, caught,
                 timeVars>>

SweepReads ==
  /\ sweep \in DOMAIN SweepAfter /\ sighted = {} /\ sweep' = SweepAfter[sweep]
  /\ sighted' = sweepJobs \cap InList(ListAt(sweep'))
  /\ UNCHANGED <<askVars, jobVars, listVars, bucket, pacer, sweepJobs, caught,
                 timeVars>>

SweepRemoves(r) ==
  /\ sweep # "drop" /\ r \in sighted /\ sighted' = sighted \ {r}
  /\ pending' = [q \in Lane |-> IF sweep \in DOMAIN SweptPending /\ SweptPending[sweep] = q
                                  THEN Removed(pending[q], r) ELSE pending[q]]
  /\ queue' = [q \in Lane |-> IF sweep \in DOMAIN SweptQueue /\ SweptQueue[sweep] = q
                                THEN Removed(queue[q], r) ELSE queue[q]]
  /\ UNCHANGED <<askVars, jobVars, admitted, bucket, pacer, sweep, sweepJobs,
                 caught, timeVars>>

(* The rest of the list is left. *)
SweepSkips ==
  /\ sweep # "drop" /\ sighted # {} /\ sighted' = {} /\ caught' = caught \ sighted
  /\ UNCHANGED <<askVars, jobVars, listVars, bucket, pacer, sweep, sweepJobs, timeVars>>

DoneWith(r) ==
  sweepJobs' = sweepJobs \ {r} /\ sweep' = IF sweepJobs' = {} THEN "done" ELSE "drop"

(* HGETALL, and DEL a command later, when a worker may have started it. *)
SweepLooks(r) ==
  /\ sweep = "drop" /\ sighted = {} /\ r \in sweepJobs
  /\ \/ record[r] = "queued" /\ sighted' = {r} /\ UNCHANGED <<sweep, sweepJobs>>
     \/ DoneWith(r) /\ UNCHANGED sighted
  /\ UNCHANGED <<askVars, jobVars, listVars, bucket, pacer, caught, timeVars>>

SweepDrops(r) ==
  /\ sweep = "drop" /\ r \in sighted /\ sighted' = {} /\ DoneWith(r)
  /\ record' = [record EXCEPT ![r] = "none"] /\ flagged' = flagged \ {r}
  /\ UNCHANGED <<askVars, job, listVars, bucket, pacer, caught, timeVars>>

-----------------------------------------------------------------------------
(* Workers, time, and restarts.                                            *)

Pops(q) ==
  /\ queue[q] # <<>> /\ queue' = [queue EXCEPT ![q] = Tail(@)]
  /\ job' = [job EXCEPT ![Head(queue[q])] = "taken"]
  /\ UNCHANGED <<askVars, record, flagged, pending, admitted, bucket, pacer, sweepVars, timeVars>>

(* Its HSET makes a record that was dropped meanwhile anew, with no owner,  *)
(* workshop or flag.                                                        *)
Starts(r) ==
  /\ job[r] = "taken" /\ job' = [job EXCEPT ![r] = "running"]
  /\ record' = [record EXCEPT ![r] = IF @ = "none" THEN "bare" ELSE "held"]
  /\ UNCHANGED <<askVars, flagged, listVars, bucket, pacer, sweepVars, timeVars>>

Tick ==
  /\ earned' = [q \in Lane |-> Counted(q, bucket[q].workers)]
  /\ bucket' = [q \in Lane |-> Refilled(bucket[q])]
  /\ UNCHANGED <<askVars, jobVars, listVars, pacer, sweepVars, restarts>>

InFlight(r) == handler[r] \notin {"new", "answered", "deduped", "lost"}

Restart ==
  /\ restarts < MaxRestarts /\ restarts' = restarts + 1
  /\ handler' = [r \in Request |-> IF InFlight(r) THEN "lost" ELSE handler[r]]
  /\ bucket' = [q \in Lane |-> NoBucket]
  /\ pacer' = Resting /\ sweep' = IF sweep \in {"idle", "done"} THEN sweep ELSE "lost"
  /\ sweepJobs' = {} /\ sighted' = {}
  /\ UNCHANGED <<route, ahead, jobVars, listVars, caught, earned>>

-----------------------------------------------------------------------------
PacerStep == PacerWakes \/ MoveOne \/ Drained \/ \E q \in Lane : Drain(q)

HandlerStep(r) == \/ Guard(r) \/ WriteRecord(r) \/ Measure(r) \/ Decide(r)
                  \/ Push(r) \/ Park(r)

SweepStep ==
  \/ SweepFlags \/ SweepReads \/ SweepSkips
  \/ \E r \in Request : SweepRemoves(r) \/ SweepLooks(r) \/ SweepDrops(r)

WorkerStep ==
  \/ \E q \in Lane : Pops(q)
  \/ \E r \in Request : Starts(r)

ProvisioningNext ==
  \/ PacerStep \/ SweepStep \/ WorkerStep \/ Tick \/ Restart
  \/ \E r \in Request : HandlerStep(r)

ProvisioningSpec == ProvisioningInit /\ [][ProvisioningNext]_provisioningVars

-----------------------------------------------------------------------------
(* Properties. *)

ProvisioningTypeOK ==
  /\ handler \in [Request -> HandlerSteps]
  /\ route \in [Request -> Lane \cup {Nowhere}]
  /\ ahead \in [Request -> SUBSET Request]
  /\ record \in [Request -> {"none", "queued", "held", "bare"}]
  /\ flagged \subseteq Request
  /\ job \in [Request -> {"none", "taken", "running"}]
  /\ pending \in [Lane -> Seq(Request)] /\ queue \in [Lane -> Seq(Request)]
  /\ bucket \in [Lane -> [workers : 0 .. MaxWorkers, tokens : Nat]]
  /\ admitted \in [Lane -> Nat]
  /\ pacer \in [todo : SUBSET Lane, lane : Lane \cup {Nowhere}, allowed : Nat]
  /\ sweep \in SweepSteps /\ sweepJobs \subseteq Request
  /\ sighted \subseteq Request /\ caught \subseteq Request
  /\ earned \in [Lane -> 0 .. MaxEarned] /\ restarts \in 0 .. MaxRestarts

Precedes(s, a, b) == \E i, j \in 1 .. Len(s) : i < j /\ s[i] = a /\ s[j] = b

(* A learner who was waiting when another's request looked at the list is   *)
(* never overtaken by it: not in the pending list, not on the way from one  *)
(* list to the other, not in the queue, whatever the pacer does meanwhile.  *)
NoOvertaking ==
  \A r \in Request : \A a \in ahead[r] :
    /\ ~Precedes(pending[route[r]], r, a)
    /\ ~Precedes(queue[route[r]], r, a)
    /\ ~(a \in InList(pending[route[r]]) /\ r \in InList(queue[route[r]]))

(* Whoever admits -- seventy handlers and the pacer, between worker counts  *)
(* that change under them -- a queue never gets more jobs than its workers  *)
(* were worth: a burst of those that were counted first in a life of the    *)
(* process, and then a token per unit of time for each that was counted     *)
(* last.  (The tokens are counted up to their bound.)                       *)
PaceBound == \A q \in Lane : earned[q] < MaxEarned => admitted[q] <= earned[q]

Parked == UNION {InList(pending[q]) : q \in Lane}

(* A learner in a pending list leaves it, also when the dashboard that      *)
(* parked them has restarted and knows of no queue.                         *)
ParkedIsAdmitted == \A r \in Request : r \in Parked ~> r \notin Parked

(* Where a request is, as the learner may count on it.  "doubled" is no      *)
(* place of RequestLife.                                                    *)
PlaceOf(r) ==
  IF r \in Waiting THEN IF job[r] = "none" THEN "waiting" ELSE "doubled"
  ELSE IF job[r] # "none" THEN "taken"
  ELSE IF handler[r] = "answered" THEN "swept" ELSE "out"

Life == INSTANCE RequestLife WITH place <- [r \in Request |-> PlaceOf(r)]

(* A request that was answered is waiting in one list, or one worker has it, *)
(* once, or the sweep of its own workshop took it: no restart, no overlap of *)
(* pacer, sweep, handlers and workers loses, doubles or revives a job.       *)
LifeKept == Life!Spec

(* A job that was waiting when the sweep saw it waits nowhere once the lists *)
(* have been swept, though the pacer moves jobs from list to list meanwhile. *)
SweepIsThorough == sweep \in {"drop", "done"} => caught \cap Waiting = {}
=============================================================================
